CONSTANTS
  h1 = h1
  h2 = h2
  h3 = h3
  Blank = Blank
  Parallelism = 2
  Batches <- MCBatches
SPECIFICATION FairSpec
INVARIANTS
  TypeOK
  IInv
  BoundedParallelism
  CompleteOnReturn
PROPERTIES
  ResultsAreFinal
  EveryCallReturns
  ImplementsBatch
