CONSTANTS
  p1 = p1
  p2 = p2
  Procs = {p1, p2}
  Settings <- MCSettings
  Filters = {"", "hdfs"}
  MaxSecond = 1
  MaxLost = 1
SYMMETRY Symmetry
SPECIFICATION Spec
INVARIANTS
  ShellTypeOK
  AcceptedDeployable
  EnsembleAgrees
  ExitTellsTruth
  EveryHostAnswered
  PreflightTells
  ResultIsOwn
  TouchesOnlyKnown
