----------------------------- MODULE MCCommand ------------------------------
(* Instances of CommandShell for TLC: inventories good and bad. *)
EXTENDS CommandShell, TLC

CONSTANTS p1, p2

Names == {"n1", "n2", "n3", "gone"}
HostList == <<[name |-> "n1", address |-> "a1"], [name |-> "n2", address |-> "a2"],
              [name |-> "n3", address |-> "a3"]>>

\* All components on two hosts, every port but one left to its default.
Full == [components |-> {"zookeeper", "hdfs", "hbase"},
         missing |-> {},
         versions |-> [hadoop |-> "3.3.6", zookeeper |-> "3.8.4", hbase |-> "2.5.8"],
         hosts |-> HostList,
         roles |-> [namenode |-> <<"n1">>, datanode |-> <<"n1", "n2">>, zookeeper |-> <<"n2">>,
                    hbase_master |-> <<"n1">>, regionserver |-> <<"n2">>],
         root_dir |-> "",
         ports |-> [k \in PortNames |-> IF k = "rs" THEN 60020 ELSE 0]]

\* Which components, in which spelling, with which ensemble or NameNodes.
Spellings == {[Full EXCEPT !.components = components] :
                components \in {{}, {" "}, {"spark", "hdfs"}, {" hdfs"}, {"ZooKeeper", "HDFS", "hdfs"},
                                {"hbase", "hdfs"}, {"zookeeper", "hbase"}}}
Shapes ==
  {[inv EXCEPT !.roles.zookeeper = zk] :
     inv \in Spellings,
     zk \in {<<>>, <<"n1">>, <<"n2", "n1">>, <<"n3", "n1", "n2">>, <<"n2", "n1", "n2">>}}
    \union {[inv EXCEPT !.roles.namenode = nn] : inv \in Spellings, nn \in {<<>>, <<"n1", "n2">>}}

\* HBase without HDFS, with a root directory or a blank one.
Apart ==
  {[Full EXCEPT !.components = {"zookeeper", "hbase"}, !.roles.namenode = nn, !.root_dir = root] :
     nn \in {<<>>, <<"n1">>}, root \in {" ", "hdfs://other"}}

\* One thing changed at a time.
Slips ==
  {[Full EXCEPT !.missing = {"ssh.user"}],
   [Full EXCEPT !.versions.hadoop = "3.3.4"], [Full EXCEPT !.versions.hbase = "1.0"],
   [Full EXCEPT !.roles.datanode = <<>>], [Full EXCEPT !.roles.regionserver = <<>>],
   [Full EXCEPT !.components = {"hdfs"}, !.roles.regionserver = <<"gone">>],
   [Full EXCEPT !.roles.regionserver = <<"n3", "gone">>],
   [Full EXCEPT !.hosts[2].address = ""], [Full EXCEPT !.hosts[3].name = "n1"],
   [Full EXCEPT !.hosts = <<>>]}

World(inv, users, jdk, bash, busy) ==
  [inv |-> inv, users |-> users, jdk |-> jdk, bash |-> bash, busy |-> busy]

Free == [h \in Names |-> {}]
Taken(port, at) == [port |-> port, at |-> at]

\* A port taken on a host: by the region server's number at every address, on
\* loopback only or at the host's own, by a port of another daemon, or by one
\* nobody configures.
BusyHosts == {Free, [Free EXCEPT !["n1"] = {Taken(16020, "every")}],
              [Free EXCEPT !["n1"] = {Taken(9870, "every"), Taken(22, "every")}]}
             \union {[Free EXCEPT !["n2"] = {Taken(60020, at)}] : at \in {"every", "loopback", "own"}}

\* The smallest cluster, for two processes in one directory of runs.
Small == [Full EXCEPT !.components = {"zookeeper"},
                      !.roles = [r \in Roles |-> IF r = "zookeeper" THEN <<"n1">> ELSE <<>>]]

\* One process alone, whichever it is, or two of them.
MCSettings ==
  {World(inv, {p}, Names, Names, Free) : p \in Procs, inv \in Shapes \union Apart \union Slips}
    \union {World(Full, {p}, Names, Names, busy) : p \in Procs, busy \in BusyHosts}
    \union {World(Full, {p}, {"n1", "n3"}, Names, Free) : p \in Procs}
    \union {World(Full, {p}, Names, {"n1"}, [Free EXCEPT !["n2"] = {Taken(60020, "every")}]) : p \in Procs}
    \union {World(Small, Procs, Names, Names, [Free EXCEPT !["n1"] = {Taken(22, "every")}])}

\* Settings and steps treat the processes alike.
Symmetry == Permutations(Procs)
=============================================================================
