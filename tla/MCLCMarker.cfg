CONSTANTS
  o1 = o1
  o2 = o2
  n1 = n1
  n2 = n2
  Operators = {o1}
  Hosts = {n1, n2}
  Declared = {"hdfs"}
  RoleHosts <- HDFSHosts
  Ops = {"install", "configure", "start"}
  Filters = {"all"}
  Destructive = {}
  Preinstalled = FALSE
  FaultKinds = {}
  MaxFaults = 0
  ClusterIds = {1, 2, 3, 4, 5}
SPECIFICATION Spec
INVARIANTS
  MarkerMeansFormatted
