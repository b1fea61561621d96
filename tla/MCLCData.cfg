CONSTANTS
  o1 = o1
  o2 = o2
  n1 = n1
  n2 = n2
  Operators = {o1, o2}
  Hosts = {n1, n2}
  Declared = {"hdfs"}
  RoleHosts <- OneHost
  Ops = {"install", "configure", "start", "stop", "uninstall"}
  Filters = {"all"}
  Destructive = {}
  Preinstalled = FALSE
  FaultKinds = {"connect", "abandon", "die", "interrupt", "crash", "format", "daemon", "package", "stop"}
  MaxFaults = 1
  ClusterIds = {1, 2, 3, 4, 5}
SPECIFICATION Spec
SYMMETRY Interchangeable
INVARIANTS
  TypeOK
  OneCluster
PROPERTIES
  MetadataKept
