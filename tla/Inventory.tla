----------------------------- MODULE Inventory ------------------------------
(***************************************************************************)
(* cluster.yaml: what Load makes of the file, what Validate refuses, and   *)
(* what the rest of the program takes from an accepted inventory - the     *)
(* hosts of each component, the ZooKeeper ids, the configuration files,    *)
(* the ports and the packages.                                             *)
(*                                                                         *)
(* An inventory is a record: components (a set: their order and repetition *)
(* in the file are lost in applyDefaults), missing (the required fields    *)
(* left out or, for directories, not absolute), versions, hosts (a list of *)
(* [name, address]), roles (a list of host names each), root_dir and       *)
(* ports.                                                                  *)
(***************************************************************************)
EXTENDS Integers, Sequences, SequencesExt

knownComponents == {"zookeeper", "hdfs", "hbase"}
Roles == {"namenode", "datanode", "zookeeper", "hbase_master", "regionserver"}
PortNames == {"zk_client", "nn_rpc", "nn_http", "master", "master_info", "rs", "rs_info"}

\* What the decoder makes of any file it takes.
IsInventory(inv) ==
  /\ DOMAIN inv = {"components", "missing", "versions", "hosts", "roles", "root_dir", "ports"}
  /\ inv.hosts \in Seq([name : STRING, address : STRING])
  /\ inv.roles \in [Roles -> Seq(STRING)]
  /\ inv.ports \in [PortNames -> Nat]

-----------------------------------------------------------------------------
(***************************************************************************)
(* Load.                                                                   *)
(***************************************************************************)
\* strings.ToLower(strings.TrimSpace(c)), on the spellings the instances use.
Normal(c) == CASE c \in {"HDFS", " hdfs"} -> "hdfs"
               [] c = "ZooKeeper" -> "zookeeper"
               [] c = " " -> ""
               [] OTHER -> c

DefaultPort == [zk_client |-> 2181, nn_rpc |-> 8020, nn_http |-> 9870, master |-> 16000,
                master_info |-> 16010, rs |-> 16020, rs_info |-> 16030]

\* No component named means all of them, blank names count for nothing; a port
\* left out is the default one.
applyDefaults(raw) ==
  [raw EXCEPT !.components = IF @ = {} THEN knownComponents ELSE {Normal(c) : c \in @} \ {""},
              !.ports = [k \in PortNames |-> IF @[k] = 0 THEN DefaultPort[k] ELSE @[k]]]

-----------------------------------------------------------------------------
(***************************************************************************)
(* Lookups.                                                                *)
(***************************************************************************)
HasComponent(inv, c) == c \in inv.components

\* HostByName finds a host of that name.
Known(inv, name) == \E k \in DOMAIN inv.hosts : inv.hosts[k].name = name

\* Its address: the first entry of that name decides.
Address(inv, name) ==
  inv.hosts[CHOOSE k \in DOMAIN inv.hosts :
              /\ inv.hosts[k].name = name
              /\ \A j \in DOMAIN inv.hosts : j < k => inv.hosts[j].name # name].address

AllRoleHosts(inv) == UNION {ToSet(inv.roles[r]) : r \in Roles}

RolesOf == [zookeeper |-> {"zookeeper"}, hdfs |-> {"namenode", "datanode"},
            hbase |-> {"hbase_master", "regionserver"}]

\* Component.Hosts: the hosts of its roles, each once.
HostsOf(inv, c) == UNION {ToSet(inv.roles[r]) : r \in RolesOf[c]}

-----------------------------------------------------------------------------
(***************************************************************************)
(* Validate.                                                               *)
(***************************************************************************)
ProductOf == [zookeeper |-> "zookeeper", hdfs |-> "hadoop", hbase |-> "hbase"]

\* validate.go and registry.go each have a table of supported versions.
Validated == [hadoop    |-> {"3.3.4", "3.3.5", "3.3.6", "3.4.1"},
              zookeeper |-> {"3.7.2", "3.8.3", "3.8.4"},
              hbase     |-> {"2.5.5", "2.5.7", "2.5.8", "2.5.13-hadoop3"}]
Packaged == [hadoop    |-> {"3.3.6", "3.4.1"},
             zookeeper |-> {"3.8.4"},
             hbase     |-> {"2.5.8", "2.5.13-hadoop3"}]

VersionValid(inv, c) == inv.versions[ProductOf[c]] \in Validated[ProductOf[c]]

\* buildSpec knows the package.
HasPackage(inv, c) == inv.versions[ProductOf[c]] \in Packaged[ProductOf[c]]

ComponentsValid(inv) ==
  /\ inv.components # {} /\ inv.components \subseteq knownComponents
  /\ HasComponent(inv, "hbase") => HasComponent(inv, "zookeeper")
  /\ (HasComponent(inv, "hbase") /\ ~HasComponent(inv, "hdfs")) =>
        inv.root_dir \notin {"", " "}

ZooKeeperValid(inv) == VersionValid(inv, "zookeeper") /\ Len(inv.roles["zookeeper"]) % 2 = 1

\* Mutant of HDFSValid: at least one NameNode rather than exactly one.
HDFSValidSome(inv) ==
  /\ VersionValid(inv, "hdfs")
  /\ Len(inv.roles["namenode"]) >= 1 /\ Len(inv.roles["datanode"]) > 0

HDFSValid(inv) ==
  /\ VersionValid(inv, "hdfs")
  /\ Len(inv.roles["namenode"]) = 1 /\ Len(inv.roles["datanode"]) > 0

HBaseValid(inv) ==
  /\ VersionValid(inv, "hbase")
  /\ Len(inv.roles["hbase_master"]) > 0 /\ Len(inv.roles["regionserver"]) > 0

HostsValid(inv) ==
  \A k \in DOMAIN inv.hosts :
    /\ inv.hosts[k].name # "" /\ inv.hosts[k].address # ""
    /\ \A j \in DOMAIN inv.hosts : j # k => inv.hosts[j].name # inv.hosts[k].name

\* Mutant of RolesValid: the roles of components that are not used are not
\* looked at.
RolesOfUsedValid(inv) ==
  \A c \in inv.components : \A name \in HostsOf(inv, c) : Known(inv, name)

\* The roles of all components name known hosts, used or not.
RolesValid(inv) == \A name \in AllRoleHosts(inv) : Known(inv, name)

Validate(inv) ==
  /\ inv.missing = {}
  /\ ComponentsValid(inv)
  /\ HasComponent(inv, "zookeeper") => ZooKeeperValid(inv)
  /\ HasComponent(inv, "hdfs") => HDFSValid(inv)
  /\ HasComponent(inv, "hbase") => HBaseValid(inv)
  /\ HostsValid(inv)
  /\ RolesValid(inv)

-----------------------------------------------------------------------------
(***************************************************************************)
(* What is rendered.                                                       *)
(***************************************************************************)
\* Mutant of MyIDFor: the ordinal starts at 0.
MyIDFromZero(inv, host) ==
  LET zk == inv.roles["zookeeper"]
  IN  IF host \in ToSet(zk)
      THEN (CHOOSE k \in DOMAIN zk : zk[k] = host /\ \A j \in 1..(k - 1) : zk[j] # host) - 1
      ELSE 0

\* 1-based ordinal in roles.zookeeper, 0 if missing: the host's myid.
MyIDFor(inv, host) ==
  LET zk == inv.roles["zookeeper"]
  IN  IF host \in ToSet(zk)
      THEN CHOOSE k \in DOMAIN zk : zk[k] = host /\ \A j \in 1..(k - 1) : zk[j] # host
      ELSE 0

\* The server.N lines of zoo.cfg.
Servers(inv) == [n \in DOMAIN inv.roles["zookeeper"] |-> Address(inv, inv.roles["zookeeper"][n])]

nameNodeAddressKnown(inv) ==
  Len(inv.roles["namenode"]) = 1 /\ Known(inv, inv.roles["namenode"][1])

\* Configure of a component finds all its files can be rendered.
Renders(inv, c) ==
  CASE c = "zookeeper" -> \A name \in ToSet(inv.roles["zookeeper"]) : Known(inv, name)
    [] c = "hdfs"      -> nameNodeAddressKnown(inv)
    [] c = "hbase"     -> inv.root_dir # "" \/ nameNodeAddressKnown(inv)

\* hbase.zookeeper.quorum: the addresses of the hosts that are known.
zkQuorum(inv) ==
  {Address(inv, name) : name \in {n \in ToSet(inv.roles["zookeeper"]) : Known(inv, n)}}

\* The ports of a daemon that the inventory can set (ZooKeeper's peer ports,
\* 2888 and 3888, and the DataNode's are fixed, and no check looks at them).
ListensOn(inv, role) ==
  {inv.ports[k] : k \in CASE role = "zookeeper"    -> {"zk_client"}
                          [] role = "namenode"     -> {"nn_rpc", "nn_http"}
                          [] role = "datanode"     -> {}
                          [] role = "hbase_master" -> {"master", "master_info"}
                          [] role = "regionserver" -> {"rs", "rs_info"}}

-----------------------------------------------------------------------------
(***************************************************************************)
(* What an accepted inventory guarantees.                                  *)
(***************************************************************************)
\* validate.go:24-120 against config.go of the three components: an accepted
\* inventory is one whose components all have hosts, known by address, and
\* can all be configured.
Deployable(inv) ==
  \A c \in inv.components :
    /\ c \in knownComponents
    /\ \A r \in RolesOf[c] : inv.roles[r] # <<>>
    /\ \A name \in HostsOf(inv, c) : Known(inv, name) /\ Address(inv, name) # ""
    /\ Renders(inv, c)

\* zookeeper/config.go:11-51: each server finds itself under its own id in
\* zoo.cfg, no two servers have one id, and HBase is given the whole ensemble.
Ensemble(inv) ==
  LET zk == inv.roles["zookeeper"]
  IN  /\ \A name \in ToSet(zk) :
           /\ MyIDFor(inv, name) \in DOMAIN Servers(inv)
           /\ Servers(inv)[MyIDFor(inv, name)] = Address(inv, name)
      /\ \A a, b \in ToSet(zk) : MyIDFor(inv, a) = MyIDFor(inv, b) => a = b
      /\ zkQuorum(inv) = ToSet(Servers(inv))
=============================================================================
