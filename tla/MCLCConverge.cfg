CONSTANTS
  o1 = o1
  o2 = o2
  n1 = n1
  n2 = n2
  Operators = {o1}
  Hosts = {n1, n2}
  Declared = {"zookeeper", "hdfs", "hbase"}
  RoleHosts <- TwoHosts
  Ops = {"start"}
  Filters = {"all"}
  Destructive = {}
  Preinstalled = TRUE
  FaultKinds = {"connect", "abandon", "die", "interrupt", "crash", "daemon"}
  MaxFaults = 3
  ClusterIds = {1, 2, 3, 4, 5}
SPECIFICATION RerunStartSpec
PROPERTIES
  StartConverges
  CommandAnswers
