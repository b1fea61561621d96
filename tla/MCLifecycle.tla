---------------------------- MODULE MCLifecycle -----------------------------
(* Instances of Lifecycle for TLC, with the accounts of Outcome. *)
EXTENDS Outcome

CONSTANTS o1, o2, n1, n2

\* Safety runs only: the operators differ in nothing but their names.
Interchangeable == Permutations(Operators)

All == {"zookeeper", "hdfs", "hbase"}

\* The masters on one host, the workers on the other.
TwoHosts ==
  [d \in Daemons |-> IF d \in {"datanode", "regionserver"} THEN {n2} ELSE {n1}]

\* Everything on one host.
OneHost == [d \in Daemons |-> {n1}]

\* HDFS alone, with a DataNode beside the NameNode and one apart.
HDFSHosts ==
  [d \in Daemons |-> CASE d = "namenode" -> {n1}
                       [] d = "datanode" -> {n1, n2}
                       [] OTHER -> {}]
=============================================================================
