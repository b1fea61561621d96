CONSTANTS
  h1 = h1
  h2 = h2
  Blank = Blank
  Parallelism = 2
  MaxBreaks = 0
  Silent = {h1}
  Batches <- MCBatches
  TaskKinds <- InstallOnly
SPECIFICATION FairSSHSpec
PROPERTIES
  DeadlineEndsTask
