CONSTANTS
  h1 = h1
  h2 = h2
  Blank = Blank
  Parallelism = 2
  MaxBreaks = 1
  Silent = {}
  Batches <- MCBatches
  TaskKinds <- MCTaskKinds
SPECIFICATION FairSSHSpec
INVARIANTS
  SSHTypeOK
  OneConnectionPerHost
  CommandHasFiles
  OKMeansDone
  MutexHandedOn
  SSHInv
PROPERTIES
  ImplementsRunner
  EveryCallReturns
