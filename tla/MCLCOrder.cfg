CONSTANTS
  o1 = o1
  o2 = o2
  n1 = n1
  n2 = n2
  Operators = {o1}
  Hosts = {n1, n2}
  Declared = {"zookeeper", "hdfs", "hbase"}
  RoleHosts <- TwoHosts
  Ops = {"start", "stop", "uninstall"}
  Filters = {"all"}
  Destructive = {"start", "uninstall"}
  Preinstalled = TRUE
  FaultKinds = {"connect", "die", "stop"}
  MaxFaults = 2
  ClusterIds = {1, 2, 3, 4, 5}
SPECIFICATION Spec
INVARIANTS
  DownWhenOK
  UpWhenOK
  PurgedWhenOK
  AccountKept
  StartAccountKept
PROPERTIES
  StartOrder
  StopOrder
