--------------------------- MODULE CommandProofs ----------------------------
(***************************************************************************)
(* What Validate is worth, for every inventory, and what an exit code and  *)
(* a result.json are, for any processes, inventories and host failures.    *)
(***************************************************************************)
EXTENDS CommandShell, WellFoundedInduction, TLAPS

-----------------------------------------------------------------------------
(***************************************************************************)
(* Accepted inventories.                                                   *)
(***************************************************************************)
(* types.go:90-97: where names differ, as Validate requires, a known host's *)
(* address is that of an entry, so it is not empty.                        *)
LEMMA AddressFound ==
  ASSUME NEW inv, IsInventory(inv), HostsValid(inv), NEW name, Known(inv, name)
  PROVE  Address(inv, name) # ""
<1> DEFINE First(k) == /\ inv.hosts[k].name = name
                       /\ \A j \in DOMAIN inv.hosts : j < k => inv.hosts[j].name # name
<1>1. DOMAIN inv.hosts \subseteq Nat
  BY DEF IsInventory
<1>2. PICK k \in DOMAIN inv.hosts : inv.hosts[k].name = name
  BY DEF Known
<1>3. ASSUME NEW j \in DOMAIN inv.hosts, j < k
      PROVE  inv.hosts[j].name # name
  <2>1. j # k
    BY <1>1, <1>3
  <2>2. QED
    BY <1>2, <2>1 DEF HostsValid
<1>4. (CHOOSE i \in DOMAIN inv.hosts : First(i)) \in DOMAIN inv.hosts
  BY <1>2, <1>3
<1>5. QED
  BY <1>4 DEF Address, HostsValid

(* types.go:99-116: the hosts of a known component are role hosts.         *)
LEMMA HostsAreRoleHosts ==
  ASSUME NEW inv, NEW c \in knownComponents
  PROVE  HostsOf(inv, c) \subseteq AllRoleHosts(inv)
<1>1. RolesOf[c] \subseteq Roles
  BY DEF RolesOf, Roles, knownComponents
<1>2. QED
  BY <1>1 DEF HostsOf, AllRoleHosts

(* A role host of an accepted inventory is known, by address.              *)
LEMMA RoleHostsKnown ==
  ASSUME NEW inv, IsInventory(inv), Validate(inv), NEW name \in AllRoleHosts(inv)
  PROVE  Known(inv, name) /\ Address(inv, name) # ""
<1>1. HostsValid(inv) /\ Known(inv, name)
  BY DEF Validate, RolesValid
<1>2. QED
  BY <1>1, AddressFound

(* What has a positive length, or an odd one, is not empty.                *)
LEMMA NotEmpty ==
  ASSUME NEW s, Len(s) % 2 = 1 \/ Len(s) > 0
  PROVE  s # <<>>
<1>1. Len(<<>>) = 0
  OBVIOUS
<1>2. QED
  BY <1>1

(* validate.go:47-83: no role of a component in use is left empty.         *)
LEMMA RolesFilled ==
  ASSUME NEW inv, IsInventory(inv), Validate(inv), NEW c \in inv.components
  PROVE  c \in knownComponents /\ \A r \in RolesOf[c] : inv.roles[r] # <<>>
<1>1. c \in knownComponents
  BY DEF Validate, ComponentsValid
<1>2. CASE c = "zookeeper"
  <2>1. Len(inv.roles["zookeeper"]) % 2 = 1
    BY <1>2 DEF Validate, HasComponent, ZooKeeperValid
  <2>2. inv.roles["zookeeper"] # <<>>
    BY <2>1, NotEmpty
  <2>3. QED
    BY <1>1, <1>2, <2>2 DEF RolesOf
<1>3. CASE c = "hdfs"
  <2>1. Len(inv.roles["namenode"]) > 0 /\ Len(inv.roles["datanode"]) > 0
    BY <1>3 DEF Validate, HasComponent, HDFSValid
  <2>2. inv.roles["namenode"] # <<>> /\ inv.roles["datanode"] # <<>>
    BY <2>1, NotEmpty
  <2>3. QED
    BY <1>1, <1>3, <2>2 DEF RolesOf
<1>4. CASE c = "hbase"
  <2>1. Len(inv.roles["hbase_master"]) > 0 /\ Len(inv.roles["regionserver"]) > 0
    BY <1>4 DEF Validate, HasComponent, HBaseValid
  <2>2. inv.roles["hbase_master"] # <<>> /\ inv.roles["regionserver"] # <<>>
    BY <2>1, NotEmpty
  <2>3. QED
    BY <1>1, <1>4, <2>2 DEF RolesOf
<1>5. QED
  BY <1>1, <1>2, <1>3, <1>4 DEF knownComponents

(* hdfs/config.go, hbase/config.go:16-29: with HDFS in use the NameNode's   *)
(* address is there to be rendered.                                        *)
LEMMA NameNodeKnown ==
  ASSUME NEW inv, IsInventory(inv), Validate(inv), "hdfs" \in inv.components
  PROVE  nameNodeAddressKnown(inv)
<1>1. Len(inv.roles["namenode"]) = 1
  BY DEF Validate, HasComponent, HDFSValid
<1>2. inv.roles["namenode"] \in Seq(STRING)
  BY DEF IsInventory, Roles
<1>3. inv.roles["namenode"][1] \in ToSet(inv.roles["namenode"])
  BY <1>1, <1>2 DEF ToSet
<1>4. inv.roles["namenode"][1] \in AllRoleHosts(inv)
  BY <1>3 DEF AllRoleHosts, Roles
<1>5. QED
  BY <1>1, <1>4 DEF nameNodeAddressKnown, Validate, RolesValid

(* config.go of the three components: an accepted one is always rendered.  *)
LEMMA AcceptedRenders ==
  ASSUME NEW inv, IsInventory(inv), Validate(inv), NEW c \in inv.components
  PROVE  Renders(inv, c)
<1>1. c \in knownComponents
  BY DEF Validate, ComponentsValid
<1>2. CASE c = "zookeeper"
  <2>1. \A name \in ToSet(inv.roles["zookeeper"]) : name \in AllRoleHosts(inv)
    BY DEF AllRoleHosts, Roles
  <2>2. QED
    BY <1>2, <2>1 DEF Renders, Validate, RolesValid
<1>3. CASE c = "hdfs"
  BY <1>3, NameNodeKnown DEF Renders
<1>4. CASE c = "hbase"
  <2>1. CASE "hdfs" \in inv.components
    BY <1>4, <2>1, NameNodeKnown DEF Renders
  <2>2. CASE "hdfs" \notin inv.components
    <3>1. inv.root_dir \notin {"", " "}
      BY <1>4, <2>2 DEF Validate, ComponentsValid, HasComponent
    <3>2. QED
      BY <1>4, <3>1 DEF Renders
  <2>3. QED
    BY <2>1, <2>2
<1>5. QED
  BY <1>1, <1>2, <1>3, <1>4 DEF knownComponents

(* validate.go:24-120: every inventory Validate accepts can be deployed.   *)
LEMMA ValidDeploys ==
  ASSUME NEW inv, IsInventory(inv), Validate(inv)
  PROVE  Deployable(inv)
<1>1. SUFFICES ASSUME NEW c \in inv.components
               PROVE  /\ c \in knownComponents
                      /\ \A r \in RolesOf[c] : inv.roles[r] # <<>>
                      /\ \A name \in HostsOf(inv, c) : Known(inv, name) /\ Address(inv, name) # ""
                      /\ Renders(inv, c)
  BY DEF Deployable
<1>2. c \in knownComponents /\ \A r \in RolesOf[c] : inv.roles[r] # <<>>
  BY RolesFilled
<1>3. \A name \in HostsOf(inv, c) : Known(inv, name) /\ Address(inv, name) # ""
  BY <1>2, HostsAreRoleHosts, RoleHostsKnown
<1>4. QED
  BY <1>2, <1>3, AcceptedRenders

(* zookeeper/config.go:11: a ZooKeeper host's id is its place in the list,  *)
(* the first one if it is named more than once.                            *)
LEMMA IdIsPlace ==
  ASSUME NEW inv, IsInventory(inv), NEW host \in ToSet(inv.roles["zookeeper"])
  PROVE  /\ MyIDFor(inv, host) \in DOMAIN inv.roles["zookeeper"]
         /\ inv.roles["zookeeper"][MyIDFor(inv, host)] = host
<1> DEFINE zk == inv.roles["zookeeper"]
           Places == {k \in DOMAIN zk : zk[k] = host}
           First(k) == zk[k] = host /\ \A j \in 1..(k - 1) : zk[j] # host
<1>1. zk \in Seq(STRING) /\ DOMAIN zk = 1..Len(zk) /\ Len(zk) \in Nat
  BY DEF IsInventory, Roles
<1>2. Places \subseteq Nat /\ Places # {}
  BY <1>1 DEF ToSet
<1>3. PICK k \in Places : \A j \in Places : <<j, k>> \notin OpToRel(<, Nat)
  BY <1>2, NatLessThanWellFounded, WFMin
<1>4. k \in 1..Len(zk) /\ zk[k] = host
  BY <1>1, <1>3
<1>5. ASSUME NEW j \in 1..(k - 1)
      PROVE  zk[j] # host
  <2>1. j \in Nat /\ k \in Nat /\ j < k /\ j \in DOMAIN zk
    BY <1>1, <1>4, <1>5
  <2>2. <<j, k>> \in OpToRel(<, Nat)
    BY <2>1 DEF OpToRel
  <2>3. QED
    BY <1>3, <2>1, <2>2
<1>6. First(CHOOSE i \in DOMAIN zk : First(i)) /\ (CHOOSE i \in DOMAIN zk : First(i)) \in DOMAIN zk
  BY <1>1, <1>4, <1>5
<1>7. MyIDFor(inv, host) = (CHOOSE i \in DOMAIN zk : First(i))
  BY DEF MyIDFor
<1>8. QED
  BY <1>6, <1>7

(* The ids, zoo.cfg and the quorum of an accepted inventory agree.         *)
LEMMA ValidEnsemble ==
  ASSUME NEW inv, IsInventory(inv), Validate(inv)
  PROVE  Ensemble(inv)
<1> DEFINE zk == inv.roles["zookeeper"]
<1>1. \A name \in ToSet(zk) : MyIDFor(inv, name) \in DOMAIN zk /\ zk[MyIDFor(inv, name)] = name
  BY IdIsPlace
<1>2. DOMAIN Servers(inv) = DOMAIN zk /\ \A n \in DOMAIN zk : Servers(inv)[n] = Address(inv, zk[n])
  BY DEF Servers
<1>3. \A name \in ToSet(zk) : Known(inv, name)
  BY DEF Validate, RolesValid, AllRoleHosts, Roles
<1>4. zkQuorum(inv) = {Address(inv, name) : name \in ToSet(zk)}
  BY <1>3 DEF zkQuorum
<1>5. ToSet(Servers(inv)) = {Address(inv, zk[n]) : n \in DOMAIN zk}
  BY <1>2 DEF ToSet
<1>6. zkQuorum(inv) = ToSet(Servers(inv))
  BY <1>4, <1>5 DEF ToSet
<1>7. \A a, b \in ToSet(zk) : MyIDFor(inv, a) = MyIDFor(inv, b) => a = b
  BY <1>1
<1>8. \A name \in ToSet(zk) : /\ MyIDFor(inv, name) \in DOMAIN Servers(inv)
                              /\ Servers(inv)[MyIDFor(inv, name)] = Address(inv, name)
  BY <1>1, <1>2
<1>9. QED
  BY <1>6, <1>7, <1>8 DEF Ensemble

-----------------------------------------------------------------------------
(***************************************************************************)
(* The inventory of a run of the system.                                   *)
(***************************************************************************)
(* load.go:36: the defaults keep an inventory an inventory.                *)
LEMMA DefaultsTyped ==
  ASSUME NEW raw, IsInventory(raw)
  PROVE  IsInventory(applyDefaults(raw))
<1> DEFINE ports == [k \in PortNames |-> IF raw.ports[k] = 0 THEN DefaultPort[k] ELSE raw.ports[k]]
<1>1. \A k \in PortNames : DefaultPort[k] \in Nat /\ raw.ports[k] \in Nat
  BY DEF PortNames, DefaultPort, IsInventory
<1>2. ports \in [PortNames -> Nat]
  BY <1>1
<1>3. /\ DOMAIN applyDefaults(raw) = DOMAIN raw
      /\ applyDefaults(raw).hosts = raw.hosts /\ applyDefaults(raw).roles = raw.roles
      /\ applyDefaults(raw).ports = ports
  BY DEF applyDefaults, IsInventory
<1>4. QED
  BY <1>2, <1>3 DEF IsInventory

(* cluster.yaml is read once and for all: it stays what it was.            *)
LEMMA WorldStays ==
  Spec => [](world \in Settings /\ IsInventory(Inv))
<1>1. ASSUME world \in Settings PROVE IsInventory(Inv)
  BY <1>1, ShellAssumption, DefaultsTyped DEF Inv, ShellAssumption
<1>2. Init => world \in Settings
  BY DEF Init
<1>3. world \in Settings /\ [Next]_vars => (world \in Settings)'
  BY DEF Next, vars, Invoke, Prepare, PrepareFails, Component, Check, OpenResult, Save,
         WriteEnvelope, Kill, Tick, Done
<1>4. QED
  BY <1>1, <1>2, <1>3, PTL DEF Spec

(* validate.go:24-120: whatever the inventory, it is refused or deployable. *)
THEOREM AcceptedIsDeployable == Spec => []AcceptedDeployable
<1>1. world \in Settings /\ IsInventory(Inv) => AcceptedDeployable
  BY ValidDeploys DEF AcceptedDeployable
<1>2. QED
  BY <1>1, WorldStays, PTL

(* zookeeper/config.go, hbase/config.go: whatever the inventory accepted,   *)
(* its ensemble is one and the same in every file rendered from it.        *)
THEOREM EnsembleIsOne == Spec => []EnsembleAgrees
<1>1. world \in Settings /\ IsInventory(Inv) => EnsembleAgrees
  BY ValidEnsemble DEF EnsembleAgrees
<1>2. QED
  BY <1>1, WorldStays, PTL

-----------------------------------------------------------------------------
(***************************************************************************)
(* Tasks and answers.                                                      *)
(***************************************************************************)
(* A task is given to a host of a role.                                    *)
LEMMA TasksTyped ==
  ASSUME NEW command, NEW c \in knownComponents
  PROVE  Tasks(command, c) \subseteq (Roles \union knownComponents \union Checks) \X AllRoleHosts(Inv)
<1>1. CASE command \in {"start", "stop"}
  <2>1. RolesOf[c] \subseteq Roles
    BY DEF RolesOf, Roles, knownComponents
  <2>2. QED
    BY <1>1, <2>1 DEF Tasks, AllRoleHosts
<1>2. CASE command \notin {"start", "stop"}
  BY <1>2, HostsAreRoleHosts DEF Tasks
<1>3. QED
  BY <1>1, <1>2

(* common.go:102-120, envelope.go:41-55: aggregation keeps an envelope one.  *)
LEMMA AddedTyped ==
  ASSUME NEW env \in Envelopes, NEW X, NEW tasks \in SUBSET (X \X AllRoleHosts(Inv)), NEW lost
  PROVE  /\ Added(env, tasks, lost) \in Envelopes
         /\ Answered(tasks, lost) \subseteq (X \X AllRoleHosts(Inv)) \X BOOLEAN
         /\ Added(env, tasks, lost).ok => env.ok /\ lost = {}
<1> DEFINE new == {<<t[2], t \notin lost>> : t \in tasks}
           ok == env.ok /\ lost = {}
<1>0. \A t \in tasks : (t \notin lost) \in BOOLEAN
  OBVIOUS
<1>1. new \subseteq (AllRoleHosts(Inv) \union {NoError}) \X BOOLEAN
  <2>1. ASSUME NEW t \in tasks
        PROVE  <<t[2], t \notin lost>> \in (AllRoleHosts(Inv) \union {NoError}) \X BOOLEAN
    <3>1. t[2] \in AllRoleHosts(Inv)
      OBVIOUS
    <3> DEFINE answer == t \notin lost
    <3>2. answer \in BOOLEAN
      BY <1>0
    <3> HIDE DEF answer
    <3>3. <<t[2], answer>> \in (AllRoleHosts(Inv) \union {NoError}) \X BOOLEAN
      BY <3>1, <3>2
    <3>4. QED
      BY <3>3 DEF answer
  <2>2. QED
    BY <2>1
<1>2. ok \in BOOLEAN
  BY DEF Envelopes
<1>3. Added(env, tasks, lost) = [env EXCEPT !.ok = ok, !.hosts = @ \union new]
  BY DEF Added
<1> HIDE DEF new
<1>4. /\ Added(env, tasks, lost).ok = ok
      /\ Added(env, tasks, lost).hosts = env.hosts \union new
      /\ Added(env, tasks, lost).error = env.error
  BY <1>3 DEF Envelopes
<1>5. Added(env, tasks, lost) \in Envelopes
  <2> HIDE DEF ok
  <2>1. QED
    BY <1>1, <1>2, <1>3 DEF Envelopes
<1>6. Answered(tasks, lost) \subseteq (X \X AllRoleHosts(Inv)) \X BOOLEAN
  <2>1. ASSUME NEW t \in tasks
        PROVE  <<t, t \notin lost>> \in (X \X AllRoleHosts(Inv)) \X BOOLEAN
    <3> DEFINE answer == t \notin lost
    <3>1. answer \in BOOLEAN
      BY <1>0
    <3> HIDE DEF answer
    <3>2. <<t, answer>> \in (X \X AllRoleHosts(Inv)) \X BOOLEAN
      BY <3>1
    <3>3. QED
      BY <3>2 DEF answer
  <2>2. QED
    BY <2>1 DEF Answered
<1>7. QED
  BY <1>4, <1>5, <1>6

(* validate.go:47-83: a component of an accepted inventory has somebody to  *)
(* ask, and so has every check of preflight.                               *)
LEMMA SomebodyToAsk ==
  ASSUME IsInventory(Inv), Validate(Inv), NEW command, NEW c \in Inv.components
  PROVE  Tasks(command, c) # {} /\ AllRoleHosts(Inv) # {}
<1>1. c \in knownComponents /\ \A r \in RolesOf[c] : Inv.roles[r] # <<>>
  BY RolesFilled
<1>2. PICK r \in RolesOf[c] : r \in Roles
  BY <1>1 DEF RolesOf, Roles, knownComponents
<1>3. Inv.roles[r] \in Seq(STRING) /\ Inv.roles[r] # <<>>
  BY <1>1, <1>2 DEF IsInventory
<1>4. Inv.roles[r][1] \in ToSet(Inv.roles[r])
  BY <1>3 DEF ToSet
<1>5. Inv.roles[r][1] \in HostsOf(Inv, c) /\ Inv.roles[r][1] \in AllRoleHosts(Inv)
  BY <1>2, <1>4 DEF HostsOf, AllRoleHosts
<1>6. CASE command \in {"start", "stop"}
  <2>1. <<r, Inv.roles[r][1]>> \in Tasks(command, c)
    BY <1>2, <1>4, <1>6 DEF Tasks
  <2>2. QED
    BY <1>5, <2>1
<1>7. CASE command \notin {"start", "stop"}
  <2>1. <<c, Inv.roles[r][1]>> \in Tasks(command, c)
    BY <1>5, <1>7 DEF Tasks
  <2>2. QED
    BY <1>5, <2>1
<1>8. QED
  BY <1>6, <1>7

-----------------------------------------------------------------------------
(***************************************************************************)
(* One process.                                                            *)
(***************************************************************************)
\* What a process has to do, and the tasks of one part of it.
Plan(pr) == IF pr.command = "preflight" THEN Checks ELSE Selected(pr.filter)
TasksOf(pr, k) == IF pr.command = "preflight" THEN CheckTasks(k) ELSE Tasks(pr.command, k)
Wanted(pr) == UNION {TasksOf(pr, k) : k \in Plan(pr)}

\* As long as the envelope is OK, what is done was answered well.
Truthful(pr) == /\ Wanted(pr) # {}
                /\ pr.env.ok => /\ \A answer \in pr.asked : answer[2] = TRUE
                                /\ \A k \in Plan(pr) \ pr.todo : \A t \in TasksOf(pr, k) :
                                     <<t, TRUE>> \in pr.asked

Sound(pr) ==
  /\ pr.pc \in {"none", "prepare"} => pr.id = NoRun /\ pr.asked = {}
  /\ pr.pc = "prepare" => pr.command \in Commands
  /\ pr.pc # "ended" => pr.exit = "none"
  /\ pr.pc \in {"work", "saving", "print"} => pr.id \in RunIds /\ Validate(Inv) /\ Truthful(pr)
  /\ pr.pc \in {"saving", "print"} => pr.todo = {}
  /\ pr.asked # {} => Validate(Inv)
  /\ (pr.exit \in {"0", "1"} /\ pr.id # NoRun) => pr.stdout = pr.env
  /\ pr.exit = "0" => /\ pr.id # NoRun /\ Truthful(pr) /\ pr.todo = {}
                      /\ pr.command # "status" => pr.env.ok

Becomes(p, r) == proc' = [proc EXCEPT ![p] = r] /\ r \in Processes /\ Sound(r)

(* common.go:39-82: prepare lets nothing but an accepted inventory and a    *)
(* declared component through.                                             *)
LEMMA PrepareSound ==
  ASSUME ShellTypeOK, IsInventory(Inv), NEW p \in Procs, Sound(proc[p]), Prepare(p)
  PROVE  \E r : Becomes(p, r)
<1>1. proc[p] \in Processes /\ proc[p].pc = "prepare"
  BY DEF ShellTypeOK, Prepare
<1>2. CASE Refused(p)
  <2> DEFINE r == [proc[p] EXCEPT !.pc = "ended", !.exit = "1"]
  <2>1. proc' = [proc EXCEPT ![p] = r]
    BY <1>2 DEF Refused, ShellTypeOK
  <2>2. r \in Processes
    BY <1>1 DEF Processes, Exits
  <2>3. Sound(r)
    BY <1>1 DEF Sound, Processes
  <2>4. QED
    BY <2>1, <2>2, <2>3 DEF Becomes
<1>3. CASE ~Refused(p)
  <2> DEFINE r == [proc[p] EXCEPT !.pc = "work", !.id = <<clock, proc[p].command>>,
                                  !.todo = Plan(proc[p])]
  <2>1. /\ Validate(Inv)
        /\ proc[p].command = "preflight" \/ proc[p].filter = "" \/ HasComponent(Inv, proc[p].filter)
        /\ proc' = [proc EXCEPT ![p] = r]
    BY <1>3 DEF Prepare, ShellTypeOK, Plan
  <2>2. Inv.components \subseteq knownComponents /\ Inv.components # {}
    BY <2>1 DEF Validate, ComponentsValid
  <2>3. Plan(proc[p]) \subseteq knownComponents \union Checks
    BY <2>2 DEF Plan, Selected
  <2>4. proc[p].command \in Commands
    BY <1>1 DEF Sound
  <2>5. <<clock, proc[p].command>> \in RunIds
    BY <2>4 DEF RunIds, ShellTypeOK
  <2>6. r \in Processes
    BY <1>1, <2>3, <2>5 DEF Processes
  <2>7. Wanted(r) # {}
    <3>1. CASE proc[p].command = "preflight"
      <4>1. AllRoleHosts(Inv) # {}
        BY <2>1, <2>2, SomebodyToAsk
      <4>2. r.command = "preflight"
        BY <1>1, <3>1 DEF Processes
      <4> HIDE DEF r
      <4>3. "preflight-jdk" \in Plan(r) /\ CheckTasks("preflight-jdk") # {}
        BY <4>1, <4>2 DEF Plan, Checks, CheckTasks
      <4>4. QED
        BY <4>2, <4>3 DEF Wanted, TasksOf
    <3>2. CASE proc[p].command # "preflight"
      <4>1. r.command = proc[p].command /\ r.filter = proc[p].filter
        BY <1>1 DEF Processes
      <4>2. PICK c \in Inv.components : c \in Selected(proc[p].filter)
        BY <2>1, <2>2, <3>2 DEF Selected, HasComponent
      <4>3. Tasks(proc[p].command, c) # {}
        BY <2>1, SomebodyToAsk
      <4>4. c \in Plan(r) /\ TasksOf(r, c) = Tasks(proc[p].command, c)
        BY <3>2, <4>1, <4>2 DEF Plan, TasksOf
      <4>5. QED
        BY <4>3, <4>4 DEF Wanted
    <3>3. QED
      BY <3>1, <3>2
  <2>8. Sound(r)
    <3>1. /\ r.pc = "work" /\ r.id \in RunIds /\ r.asked = {} /\ r.exit = "none"
          /\ r.todo = Plan(proc[p]) /\ Plan(r) = Plan(proc[p])
      BY <1>1, <2>5 DEF Sound, Processes, Plan
    <3>2. Truthful(r)
      BY <2>7, <3>1 DEF Truthful
    <3> HIDE DEF r
    <3>3. QED
      BY <2>1, <3>1, <3>2 DEF Sound
  <2>9. QED
    BY <2>1, <2>6, <2>8 DEF Becomes
<1>4. QED
  BY <1>2, <1>3

(* common.go:102-134, start.go:27-34: a component's answers are added, good  *)
(* or bad, and what is left to do shrinks.                                 *)
LEMMA ComponentSound ==
  ASSUME ShellTypeOK, NEW p \in Procs, Sound(proc[p]), NEW c \in knownComponents, Component(p, c)
  PROVE  \E r : Becomes(p, r)
<1> DEFINE tasks == Tasks(proc[p].command, c)
<1>1. PICK lost \in Losses(tasks) :
        proc' = [proc EXCEPT ![p].env = Added(@, tasks, lost),
                             ![p].asked = @ \union Answered(tasks, lost),
                             ![p].todo = WalkOn(p, c, lost)]
  BY DEF Component
<1>2. /\ proc[p] \in Processes /\ proc[p].pc = "work"
      /\ proc[p].command # "preflight" /\ c \in proc[p].todo
  BY DEF ShellTypeOK, Component, AtComponent
<1> DEFINE r == [proc[p] EXCEPT !.env = Added(@, tasks, lost),
                                !.asked = @ \union Answered(tasks, lost),
                                !.todo = WalkOn(p, c, lost)]
<1>3. proc' = [proc EXCEPT ![p] = r]
  BY <1>1 DEF ShellTypeOK
<1>4. /\ Added(proc[p].env, tasks, lost) \in Envelopes
      /\ Answered(tasks, lost) \subseteq Answers
      /\ Added(proc[p].env, tasks, lost).ok => proc[p].env.ok /\ lost = {}
  <2>1. proc[p].env \in Envelopes
    BY <1>2 DEF Processes
  <2>2. QED
    BY <2>1, TasksTyped, AddedTyped DEF Answers
<1>5. WalkOn(p, c, lost) \subseteq proc[p].todo /\ (lost = {} => WalkOn(p, c, lost) = proc[p].todo \ {c})
  BY DEF WalkOn
<1>6. r \in Processes
  BY <1>2, <1>4, <1>5 DEF Processes
<1>7. /\ r.pc = "work" /\ r.exit = "none" /\ r.id = proc[p].id
      /\ r.command = proc[p].command /\ r.filter = proc[p].filter
      /\ r.env = Added(proc[p].env, tasks, lost)
      /\ r.asked = proc[p].asked \union Answered(tasks, lost)
      /\ r.todo = WalkOn(p, c, lost)
      /\ proc[p].exit = "none" /\ proc[p].id \in RunIds /\ Validate(Inv) /\ Truthful(proc[p])
  BY <1>2 DEF Sound, Processes
<1> HIDE DEF r, tasks
<1>8. Plan(r) = Plan(proc[p]) /\ Wanted(r) = Wanted(proc[p]) /\ \A k : TasksOf(r, k) = TasksOf(proc[p], k)
  BY <1>7 DEF Plan, Wanted, TasksOf
<1>9. Truthful(r)
  <2>1. SUFFICES ASSUME r.env.ok
                 PROVE  /\ \A answer \in r.asked : answer[2] = TRUE
                        /\ \A k \in Plan(r) \ r.todo : \A t \in TasksOf(r, k) : <<t, TRUE>> \in r.asked
    BY <1>7, <1>8 DEF Truthful
  <2>2. proc[p].env.ok /\ lost = {}
    BY <1>4, <1>7, <2>1
  <2>3. Answered(tasks, lost) = {<<t, TRUE>> : t \in tasks}
    BY <2>2 DEF Answered
  <2>4. ASSUME NEW answer \in r.asked PROVE answer[2] = TRUE
    <3>1. CASE answer \in proc[p].asked
      BY <1>7, <2>2, <3>1 DEF Truthful
    <3>2. CASE answer \in Answered(tasks, lost)
      <4>1. PICK t \in tasks : answer = <<t, TRUE>>
        BY <2>3, <3>2
      <4>2. QED
        BY <4>1
    <3>3. QED
      BY <1>7, <3>1, <3>2
  <2>5. ASSUME NEW k \in Plan(r) \ r.todo, NEW t \in TasksOf(r, k)
        PROVE  <<t, TRUE>> \in r.asked
    <3>1. CASE k = c
      <4>1. t \in tasks
        BY <1>2, <1>8, <3>1 DEF TasksOf, tasks
      <4>2. QED
        BY <1>7, <2>3, <4>1
    <3>2. CASE k # c
      <4>1. k \in Plan(proc[p]) \ proc[p].todo /\ t \in TasksOf(proc[p], k)
        BY <1>5, <1>7, <1>8, <2>2, <2>5, <3>2
      <4>2. QED
        BY <1>7, <2>2, <4>1 DEF Truthful
    <3>3. QED
      BY <3>1, <3>2
  <2>6. QED
    BY <2>4, <2>5
<1>10. Sound(r)
  BY <1>7, <1>9 DEF Sound
<1>11. QED
  BY <1>3, <1>6, <1>10 DEF Becomes

(* preflight.go:60-73, cmd/preflight.go:22-38: a check's answers are added;  *)
(* the first failure makes the envelope bad and ends the preflight.        *)
LEMMA CheckSound ==
  ASSUME ShellTypeOK, NEW p \in Procs, Sound(proc[p]), NEW check \in Checks, Check(p, check)
  PROVE  \E r : Becomes(p, r)
<1> DEFINE tasks == CheckTasks(check)
           Lost(unreached) == unreached \union {t \in tasks : CheckFails(check, t[2])}
<1>1. PICK unreached \in Losses(tasks) :
        \E error \in IF Lost(unreached) = {} THEN {NoError} ELSE {t[2] : t \in Lost(unreached)} :
          proc' = [proc EXCEPT
            ![p].env = [Added(@, tasks, Lost(unreached)) EXCEPT !.error = error],
            ![p].asked = @ \union Answered(tasks, Lost(unreached)),
            ![p].todo = IF Lost(unreached) = {} THEN @ \ {check} ELSE {}]
  BY DEF Check
<1> DEFINE lost == Lost(unreached)
<1>2. PICK error \in IF lost = {} THEN {NoError} ELSE {t[2] : t \in lost} :
        proc' = [proc EXCEPT
          ![p].env = [Added(@, tasks, lost) EXCEPT !.error = error],
          ![p].asked = @ \union Answered(tasks, lost),
          ![p].todo = IF lost = {} THEN @ \ {check} ELSE {}]
  BY <1>1
<1>3. lost \subseteq tasks /\ \A t \in tasks : t[2] \in AllRoleHosts(Inv)
  BY DEF Losses, CheckTasks
<1>4. error \in AllRoleHosts(Inv) \union {NoError}
  BY <1>2, <1>3
<1> HIDE DEF lost
<1>5. /\ proc[p] \in Processes /\ proc[p].pc = "work"
      /\ proc[p].command = "preflight" /\ check \in proc[p].todo
  BY DEF ShellTypeOK, Check, AtCheck
<1> DEFINE env == Added(proc[p].env, tasks, lost)
           r == [proc[p] EXCEPT !.env = [env EXCEPT !.error = error],
                                !.asked = @ \union Answered(tasks, lost),
                                !.todo = IF lost = {} THEN @ \ {check} ELSE {}]
<1>6. proc' = [proc EXCEPT ![p] = r]
  BY <1>2 DEF ShellTypeOK
<1>7. /\ env \in Envelopes
      /\ Answered(tasks, lost) \subseteq Answers
      /\ env.ok => proc[p].env.ok /\ lost = {}
  <2>1. proc[p].env \in Envelopes
    BY <1>5 DEF Processes
  <2>2. tasks \in SUBSET ((Roles \union knownComponents \union Checks) \X AllRoleHosts(Inv))
    BY DEF CheckTasks
  <2>3. QED
    BY <2>1, <2>2, AddedTyped DEF Answers
<1> HIDE DEF env
<1>8. [env EXCEPT !.error = error] \in Envelopes /\ [env EXCEPT !.error = error].ok = env.ok
  BY <1>4, <1>7 DEF Envelopes
<1>9. r \in Processes
  BY <1>5, <1>7, <1>8 DEF Processes
<1>10. /\ r.pc = "work" /\ r.exit = "none" /\ r.id = proc[p].id
       /\ r.command = "preflight"
       /\ r.env.ok = env.ok
       /\ r.asked = proc[p].asked \union Answered(tasks, lost)
       /\ r.todo = (IF lost = {} THEN proc[p].todo \ {check} ELSE {})
       /\ proc[p].exit = "none" /\ proc[p].id \in RunIds /\ Validate(Inv) /\ Truthful(proc[p])
  BY <1>5, <1>8 DEF Sound, Processes
<1> HIDE DEF r, tasks
<1>11. Plan(r) = Checks /\ Plan(proc[p]) = Checks /\ Wanted(r) = Wanted(proc[p])
       /\ \A k : TasksOf(r, k) = CheckTasks(k) /\ TasksOf(proc[p], k) = CheckTasks(k)
  BY <1>5, <1>10 DEF Plan, Wanted, TasksOf
<1>12. Truthful(r)
  <2>1. SUFFICES ASSUME r.env.ok
                 PROVE  /\ \A answer \in r.asked : answer[2] = TRUE
                        /\ \A k \in Plan(r) \ r.todo : \A t \in TasksOf(r, k) : <<t, TRUE>> \in r.asked
    BY <1>10, <1>11 DEF Truthful
  <2>2. proc[p].env.ok /\ lost = {}
    BY <1>7, <1>10, <2>1
  <2>3. Answered(tasks, lost) = {<<t, TRUE>> : t \in tasks}
    BY <2>2 DEF Answered
  <2>4. ASSUME NEW answer \in r.asked PROVE answer[2] = TRUE
    <3>1. CASE answer \in proc[p].asked
      BY <1>10, <2>2, <3>1 DEF Truthful
    <3>2. CASE answer \in Answered(tasks, lost)
      <4>1. PICK t \in tasks : answer = <<t, TRUE>>
        BY <2>3, <3>2
      <4>2. QED
        BY <4>1
    <3>3. QED
      BY <1>10, <3>1, <3>2
  <2>5. ASSUME NEW k \in Plan(r) \ r.todo, NEW t \in TasksOf(r, k)
        PROVE  <<t, TRUE>> \in r.asked
    <3>1. CASE k = check
      <4>1. t \in tasks
        BY <1>11, <3>1 DEF tasks
      <4>2. QED
        BY <1>10, <2>3, <4>1
    <3>2. CASE k # check
      <4>1. k \in Plan(proc[p]) \ proc[p].todo /\ t \in TasksOf(proc[p], k)
        BY <1>10, <1>11, <2>2, <2>5, <3>2
      <4>2. QED
        BY <1>10, <2>2, <4>1 DEF Truthful
    <3>3. QED
      BY <3>1, <3>2
  <2>6. QED
    BY <2>4, <2>5
<1>13. Sound(r)
  BY <1>10, <1>12 DEF Sound
<1>14. QED
  BY <1>6, <1>9, <1>13 DEF Becomes

(* common.go:39: a process starts with a clean slate,                      *)
LEMMA InvokeSound ==
  ASSUME ShellTypeOK, NEW p \in Procs, NEW command \in Commands, NEW filter \in Filters,
         Invoke(p, command, filter)
  PROVE  \E r : Becomes(p, r)
<1> DEFINE r == [NotRun EXCEPT !.pc = "prepare", !.command = command, !.filter = filter]
<1>1. proc' = [proc EXCEPT ![p] = r]
  BY DEF Invoke
<1>2. NewEnvelope \in Envelopes /\ NoEnvelope \in Envelopes
  BY DEF NewEnvelope, NoEnvelope, Envelopes
<1>3. r \in Processes /\ r.pc = "prepare" /\ r.id = NoRun /\ r.asked = {} /\ r.exit = "none"
      /\ r.command = command
  BY <1>2 DEF NotRun, Processes, Exits
<1> HIDE DEF r
<1>4. Sound(r)
  BY <1>3 DEF Sound
<1>5. QED
  BY <1>1, <1>3, <1>4 DEF Becomes

(* common.go:40-53, 63-66: or ends before it has done anything.             *)
LEMMA PrepareFailsSound ==
  ASSUME ShellTypeOK, NEW p \in Procs, Sound(proc[p]), PrepareFails(p)
  PROVE  \E r : Becomes(p, r)
<1> DEFINE r == [proc[p] EXCEPT !.pc = "ended", !.exit = "1"]
<1>1. proc[p] \in Processes /\ proc[p].pc = "prepare"
  BY DEF ShellTypeOK, PrepareFails
<1>2. proc' = [proc EXCEPT ![p] = r]
  BY DEF PrepareFails, Refused, ShellTypeOK
<1>3. r \in Processes
  BY <1>1 DEF Processes, Exits
<1>4. Sound(r)
  BY <1>1 DEF Sound, Processes
<1>5. QED
  BY <1>2, <1>3, <1>4 DEF Becomes

(* install.go:28-32, status.go:25-28, preflight.go:38-43: what is saved is    *)
(* printed, and the exit code follows from it.                             *)
LEMMA EndSound ==
  ASSUME ShellTypeOK, NEW p \in Procs, Sound(proc[p]),
         OpenResult(p) \/ Save(p) \/ WriteEnvelope(p) \/ Kill(p)
  PROVE  \E r : Becomes(p, r)
<1>1. proc[p] \in Processes
  BY DEF ShellTypeOK
<1>2. CASE OpenResult(p) \/ Save(p)
  <2>1. PICK pc \in {"saving", "print"}, ok \in BOOLEAN :
          /\ proc' = [proc EXCEPT ![p].pc = pc, ![p].kept = ok]
          /\ proc[p].pc \in {"work", "saving"} /\ proc[p].todo = {}
    <3>1. CASE OpenResult(p)
      <4>1. PICK pc \in {"saving", "print"} : proc' = [proc EXCEPT ![p].pc = pc]
        BY <3>1 DEF OpenResult
      <4>2. proc[p].kept \in BOOLEAN /\ proc \in [Procs -> Processes]
        BY <1>1 DEF Processes, ShellTypeOK
      <4>3. [proc[p] EXCEPT !.pc = pc] = [proc[p] EXCEPT !.pc = pc, !.kept = proc[p].kept]
        BY <1>1 DEF Processes
      <4>4. proc' = [proc EXCEPT ![p].pc = pc, ![p].kept = proc[p].kept]
        BY <4>1, <4>3
      <4>5. proc[p].pc = "work" /\ proc[p].todo = {}
        BY <3>1 DEF OpenResult
      <4>6. QED
        BY <4>2, <4>4, <4>5
    <3>2. CASE Save(p)
      BY <3>2 DEF Save, Sound
    <3>3. QED
      BY <1>2, <3>1, <3>2
  <2> DEFINE r == [proc[p] EXCEPT !.pc = pc, !.kept = ok]
  <2>2. proc' = [proc EXCEPT ![p] = r]
    BY <2>1 DEF ShellTypeOK
  <2>3. /\ r.pc = pc /\ r.exit = proc[p].exit /\ r.id = proc[p].id
        /\ r.command = proc[p].command /\ r.filter = proc[p].filter /\ r.env = proc[p].env
        /\ r.asked = proc[p].asked /\ r.todo = proc[p].todo /\ r.stdout = proc[p].stdout
        /\ r \in Processes
    BY <1>1 DEF Processes
  <2> HIDE DEF r
  <2>4. Truthful(r) <=> Truthful(proc[p])
    BY <2>3 DEF Truthful, Wanted, Plan, TasksOf
  <2>5. Sound(r)
    BY <2>1, <2>3, <2>4 DEF Sound
  <2>6. QED
    BY <2>2, <2>3, <2>5 DEF Becomes
<1>3. CASE WriteEnvelope(p)
  <2> DEFINE exit == IF proc[p].env.ok \/ proc[p].command = "status" THEN "0" ELSE "1"
             r == [proc[p] EXCEPT !.pc = "ended", !.stdout = proc[p].env, !.exit = exit]
  <2>1. proc' = [proc EXCEPT ![p] = r] /\ proc[p].pc = "print"
    BY <1>3 DEF WriteEnvelope, ShellTypeOK
  <2>2. exit \in Exits /\ (exit = "0" => proc[p].env.ok \/ proc[p].command = "status")
    BY DEF Exits
  <2> HIDE DEF exit
  <2>3. /\ r.pc = "ended" /\ r.exit = exit /\ r.id = proc[p].id
        /\ r.command = proc[p].command /\ r.filter = proc[p].filter /\ r.env = proc[p].env
        /\ r.asked = proc[p].asked /\ r.todo = proc[p].todo /\ r.stdout = proc[p].env
        /\ r \in Processes
    BY <1>1, <2>2 DEF Processes
  <2> HIDE DEF r
  <2>4. Truthful(r) <=> Truthful(proc[p])
    BY <2>3 DEF Truthful, Wanted, Plan, TasksOf
  <2>5. proc[p].id # NoRun
    BY <2>1 DEF Sound, RunIds, NoRun, Commands
  <2>6. Sound(r)
    BY <2>1, <2>2, <2>3, <2>4, <2>5 DEF Sound
  <2>7. QED
    BY <2>1, <2>3, <2>6 DEF Becomes
<1>4. CASE Kill(p)
  <2> DEFINE r == [proc[p] EXCEPT !.pc = "ended", !.exit = "killed"]
  <2>1. proc' = [proc EXCEPT ![p] = r]
    BY <1>4 DEF Kill, ShellTypeOK
  <2>2. r \in Processes
    BY <1>1 DEF Processes, Exits
  <2>3. Sound(r)
    BY <1>1 DEF Sound, Processes
  <2>4. QED
    BY <2>1, <2>2, <2>3 DEF Becomes
<1>5. QED
  BY <1>2, <1>3, <1>4

-----------------------------------------------------------------------------
(***************************************************************************)
(* All processes.                                                          *)
(***************************************************************************)
\* A whole result.json is the last word of a process that got that far.
Whole(envelope) == envelope \notin {NoEnvelope, Empty, Torn}
Kept ==
  \A i \in RunIds : Whole(results[i]) =>
    \E q \in Procs : /\ proc[q].id = i /\ proc[q].pc \in {"saving", "print", "ended"}
                     /\ results[i] = proc[q].env

\* Alone with its run id, a process finds the file it has opened still empty, and
\* the file it has written still as it was written.
Own(p) ==
  /\ proc[p].pc = "saving" => ~proc[p].kept /\ (Alone(p) => results[proc[p].id] = Empty)
  /\ proc[p].kept => /\ proc[p].id \in RunIds /\ proc[p].pc \in {"print", "ended"}
                     /\ Alone(p) => results[proc[p].id] = proc[p].env

ShellInv == /\ ShellTypeOK
            /\ IsInventory(Inv)
            /\ \A p \in Procs : Sound(proc[p])
            /\ Kept
            /\ \A p \in Procs : Own(p)

(* What is said of a process is said of the inventory, which stays.        *)
LEMMA SoundStays ==
  ASSUME UNCHANGED world, NEW q, NEW r, proc'[q] = r, Sound(r)
  PROVE  Sound(proc[q])'
<1>1. Inv' = Inv
  BY DEF Inv
<1>2. Plan(proc[q])' = Plan(r)
  BY <1>1 DEF Plan, Selected
<1>3. ASSUME NEW k PROVE TasksOf(proc[q], k)' = TasksOf(r, k)
  BY <1>1 DEF TasksOf, Tasks, CheckTasks
<1>4. Wanted(proc[q])' = Wanted(r)
  BY <1>2, <1>3 DEF Wanted
<1>5. Truthful(proc[q])' <=> Truthful(r)
  BY <1>2, <1>3, <1>4 DEF Truthful
<1>6. QED
  BY <1>1, <1>5 DEF Sound

(* One process takes a step, the others and result.json as they should.    *)
LEMMA OneStep ==
  ASSUME ShellInv, NEW p \in Procs, NEW r, Becomes(p, r), UNCHANGED world,
         clock' \in 0..MaxSecond, results' \in [RunIds -> Envelopes \union {Empty, Torn}]
  PROVE  ShellTypeOK' /\ IsInventory(Inv)' /\ (\A q \in Procs : Sound(proc[q]))'
<1>1. /\ Envelopes' = Envelopes /\ Answers' = Answers /\ Processes' = Processes
      /\ IsInventory(Inv)'
  BY DEF Envelopes, Answers, Processes, Inv, ShellInv
<1>2. proc' \in [Procs -> Processes]
  BY DEF Becomes, ShellInv, ShellTypeOK
<1>3. ShellTypeOK'
  BY <1>1, <1>2 DEF ShellInv, ShellTypeOK
<1>4. ASSUME NEW q \in Procs PROVE Sound(proc[q])'
  <2>1. CASE q = p
    <3>1. proc'[q] = r /\ Sound(r)
      BY <2>1 DEF Becomes, ShellInv, ShellTypeOK
    <3>2. QED
      BY <3>1, SoundStays
  <2>2. CASE q # p
    <3>1. proc'[q] = proc[q] /\ Sound(proc[q])
      BY <2>2 DEF Becomes, ShellInv, ShellTypeOK
    <3>2. QED
      BY <3>1, SoundStays
  <2>3. QED
    BY <2>1, <2>2
<1>5. QED
  BY <1>1, <1>3, <1>4

(* The invariant holds at the start.                                       *)
LEMMA ShellInit == Init => ShellInv
<1>1. SUFFICES ASSUME Init PROVE ShellInv
  OBVIOUS
<1>2. IsInventory(Inv)
  BY <1>1, ShellAssumption, DefaultsTyped DEF Init, Inv, ShellAssumption
<1>3. NewEnvelope \in Envelopes /\ NoEnvelope \in Envelopes
  BY DEF NewEnvelope, NoEnvelope, Envelopes
<1>4. NotRun \in Processes
  BY <1>3 DEF NotRun, Processes, Exits
<1>5. ShellTypeOK
  BY <1>1, <1>3, <1>4, ShellAssumption DEF Init, ShellTypeOK, ShellAssumption
<1>6. Sound(NotRun)
  BY DEF Sound, NotRun
<1>7. Kept /\ \A p \in Procs : Own(p)
  BY <1>1 DEF Init, Kept, Whole, Own, NotRun
<1>8. QED
  BY <1>1, <1>2, <1>5, <1>6, <1>7 DEF ShellInv, Init

\* Where a process's envelope is finished; and nobody else having an id.
Late == {"saving", "print", "ended"}
AloneAs(p, id) == \A q \in Procs \ {p} : proc[q].id # id

(* runlog.go:21-44: the files stay in order when a process that has its id  *)
(* keeps it, and its envelope once it comes to its file, and when nothing  *)
(* but that file changes, to what there is to say of it.                   *)
LEMMA FilesKept ==
  ASSUME ShellInv, NEW p \in Procs, NEW r, Becomes(p, r),
         proc[p].id \in {NoRun, r.id},
         proc[p].pc \in Late => r.pc \in Late /\ r.id = proc[p].id /\ r.env = proc[p].env,
         \A i \in RunIds : results'[i] # results[i] =>
           i = r.id /\ r.pc \in Late /\ (Whole(results'[i]) => results'[i] = r.env),
         r.pc = "saving" => ~r.kept /\ (AloneAs(p, r.id) => results'[r.id] = Empty),
         r.kept => /\ r.id \in RunIds /\ r.pc \in {"print", "ended"}
                   /\ AloneAs(p, r.id) => results'[r.id] = r.env
  PROVE  Kept' /\ (\A q \in Procs : Own(q))'
<1>1. proc'[p] = r /\ \A q \in Procs \ {p} : proc'[q] = proc[q]
  BY DEF Becomes, ShellInv, ShellTypeOK
<1>2. ASSUME NEW i \in RunIds, Whole(results'[i])
      PROVE  \E q \in Procs : /\ proc'[q].id = i /\ proc'[q].pc \in Late
                              /\ results'[i] = proc'[q].env
  <2>1. CASE results'[i] # results[i]
    BY <1>1, <1>2, <2>1
  <2>2. CASE results'[i] = results[i]
    <3>1. PICK q \in Procs : proc[q].id = i /\ proc[q].pc \in Late /\ results[i] = proc[q].env
      BY <1>2, <2>2 DEF ShellInv, Kept, Late
    <3>2. CASE q = p
      BY <1>1, <2>2, <3>1, <3>2
    <3>3. CASE q # p
      BY <1>1, <2>2, <3>1, <3>3
    <3>4. QED
      BY <3>2, <3>3
  <2>3. QED
    BY <2>1, <2>2
<1>3. Kept'
  BY <1>2 DEF Kept, Late, Whole, NoEnvelope, NewEnvelope, Empty, Torn
<1>4. Alone(p)' => AloneAs(p, r.id)
  BY <1>1 DEF Alone, AloneAs
<1>5. Own(p)'
  BY <1>1, <1>4 DEF Own, Empty, NoEnvelope, NewEnvelope
<1>6. ASSUME NEW q \in Procs, q # p, proc[q].id \in RunIds, Alone(q)'
      PROVE  Alone(q) /\ results'[proc[q].id] = results[proc[q].id]
  <2>1. r.id # proc[q].id
    BY <1>1, <1>6 DEF Alone
  <2>2. NoRun \notin RunIds
    BY DEF NoRun, RunIds, Commands
  <2>3. proc[p].id # proc[q].id
    BY <1>6, <2>1, <2>2
  <2>4. ASSUME NEW o \in Procs \ {q} PROVE proc[o].id # proc[q].id
    <3>1. CASE o = p
      BY <2>3, <3>1
    <3>2. CASE o # p
      BY <1>1, <1>6, <3>2 DEF Alone
    <3>3. QED
      BY <3>1, <3>2
  <2>5. QED
    BY <1>6, <2>1, <2>4 DEF Alone
<1>7. ASSUME NEW q \in Procs, q # p PROVE Own(q)'
  <2>1. Own(q) /\ proc'[q] = proc[q]
    BY <1>1, <1>7 DEF ShellInv
  <2>2. proc[q].pc = "saving" => proc[q].id \in RunIds
    BY <1>7 DEF ShellInv, Sound
  <2>3. QED
    BY <1>6, <1>7, <2>1, <2>2 DEF Own, Empty, NoEnvelope, NewEnvelope
<1>8. QED
  BY <1>3, <1>5, <1>7

(* Every step keeps the invariant.                                         *)
LEMMA ShellStep ==
  ASSUME ShellInv, [Next]_vars
  PROVE  ShellInv'
<1>1. ASSUME NEW p \in Procs,
             \/ \E command \in Commands, filter \in Filters : Invoke(p, command, filter)
             \/ Prepare(p) \/ PrepareFails(p)
             \/ \E c \in knownComponents : Component(p, c)
             \/ \E check \in Checks : Check(p, check)
             \/ WriteEnvelope(p) \/ Kill(p)
      PROVE  ShellInv'
  <2>1. PICK r : Becomes(p, r)
    BY <1>1, InvokeSound, PrepareSound, PrepareFailsSound, ComponentSound, CheckSound, EndSound DEF ShellInv
  <2>2. UNCHANGED <<world, clock, results>>
    BY <1>1 DEF Invoke, Prepare, PrepareFails, Component, Check, WriteEnvelope, Kill
  <2>3. ShellTypeOK' /\ IsInventory(Inv)' /\ (\A q \in Procs : Sound(proc[q]))'
    BY <2>1, <2>2, OneStep DEF ShellInv, ShellTypeOK
  <2>4. proc'[p] = r /\ proc[p] \in Processes /\ Sound(proc[p]) /\ Own(p) /\ proc \in [Procs -> Processes]
    BY <2>1 DEF Becomes, ShellInv, ShellTypeOK
  <2>5. /\ r.pc # "saving" /\ proc[p].id \in {NoRun, r.id}
        /\ \/ ~r.kept /\ proc[p].pc \notin Late
           \/ r.pc = "ended" /\ r.id = proc[p].id /\ r.env = proc[p].env /\ r.kept = proc[p].kept
    <3>1. CASE \E command \in Commands, filter \in Filters : Invoke(p, command, filter)
      <4>1. PICK command \in Commands, filter \in Filters : Invoke(p, command, filter)
        BY <3>1
      <4>2. r = [NotRun EXCEPT !.pc = "prepare", !.command = command, !.filter = filter]
        BY <2>4, <4>1 DEF Invoke
      <4>3. r.pc = "prepare" /\ ~r.kept
        BY <4>2 DEF NotRun
      <4>4. proc[p].id = NoRun /\ proc[p].pc = "none"
        BY <2>4, <4>1 DEF Invoke, Sound
      <4>5. QED
        BY <4>3, <4>4 DEF Late
    <3>2. CASE Prepare(p) \/ PrepareFails(p)
      <4>1. proc[p].pc = "prepare" /\ proc[p].id = NoRun /\ ~proc[p].kept
        BY <2>4, <3>2 DEF Prepare, PrepareFails, Sound, Own
      <4>2. CASE Refused(p)
        <5>1. r = [proc[p] EXCEPT !.pc = "ended", !.exit = "1"]
          BY <2>4, <4>2 DEF Refused
        <5>2. QED
          BY <2>4, <4>1, <5>1 DEF Late, Processes
      <4>3. CASE ~Refused(p)
        <5>1. r = [proc[p] EXCEPT !.pc = "work", !.id = <<clock, proc[p].command>>,
                                  !.todo = Plan(proc[p])]
          BY <2>4, <3>2, <4>3 DEF Prepare, PrepareFails, Plan
        <5>2. QED
          BY <2>4, <4>1, <5>1 DEF Late, Processes
      <4>4. QED
        BY <4>2, <4>3
    <3>3. CASE (\E c \in knownComponents : Component(p, c)) \/ \E check \in Checks : Check(p, check)
      <4>1. proc[p].pc = "work" /\ ~proc[p].kept
        BY <2>4, <3>3 DEF Component, AtComponent, Check, AtCheck, Own
      <4>2. PICK env, asked, todo :
              r = [proc[p] EXCEPT !.env = env, !.asked = asked, !.todo = todo]
        <5>1. CASE \E c \in knownComponents : Component(p, c)
          <6>1. PICK env, asked, todo :
                  proc' = [proc EXCEPT ![p].env = env, ![p].asked = asked, ![p].todo = todo]
            BY <5>1 DEF Component
          <6>2. r = [proc[p] EXCEPT !.env = env, !.asked = asked, !.todo = todo]
            BY <2>4, <6>1
          <6>3. QED
            BY <6>2
        <5>2. CASE \E check \in Checks : Check(p, check)
          <6>1. PICK check \in Checks : Check(p, check)
            BY <5>2
          <6> DEFINE tasks == CheckTasks(check)
                     Lost(unreached) == unreached \union {t \in tasks : CheckFails(check, t[2])}
          <6>2. PICK unreached, error :
                  proc' = [proc EXCEPT
                    ![p].env = [Added(@, tasks, Lost(unreached)) EXCEPT !.error = error],
                    ![p].asked = @ \union Answered(tasks, Lost(unreached)),
                    ![p].todo = IF Lost(unreached) = {} THEN @ \ {check} ELSE {}]
            BY <6>1 DEF Check
          <6>3. PICK env, asked, todo :
                  proc' = [proc EXCEPT ![p].env = env, ![p].asked = asked, ![p].todo = todo]
            BY <6>2
          <6>4. r = [proc[p] EXCEPT !.env = env, !.asked = asked, !.todo = todo]
            BY <2>4, <6>3
          <6>5. QED
            BY <6>4
        <5>3. QED
          BY <3>3, <5>1, <5>2
      <4>3. r.kept = proc[p].kept /\ r.pc = "work" /\ r.id = proc[p].id
        BY <2>4, <4>1, <4>2 DEF Processes
      <4>4. QED
        BY <4>1, <4>3 DEF Late
    <3>4. CASE WriteEnvelope(p) \/ Kill(p)
      <4>1. CASE WriteEnvelope(p)
        <5>1. PICK exit : proc' = [proc EXCEPT ![p].pc = "ended", ![p].stdout = proc[p].env,
                                               ![p].exit = exit]
          BY <4>1 DEF WriteEnvelope
        <5>2. QED
          BY <2>4, <5>1 DEF Processes
      <4>2. CASE Kill(p)
        BY <2>4, <4>2 DEF Kill, Processes
      <4>3. QED
        BY <3>4, <4>1, <4>2
    <3>5. QED
      BY <1>1, <3>1, <3>2, <3>3, <3>4
  <2>6. r.kept => /\ r.id \in RunIds /\ r.pc \in {"print", "ended"}
                  /\ AloneAs(p, r.id) => results'[r.id] = r.env
    BY <2>2, <2>4, <2>5 DEF Own, Alone, AloneAs
  <2>7. proc[p].pc \in Late => r.pc \in Late /\ r.id = proc[p].id /\ r.env = proc[p].env
    BY <2>5 DEF Late
  <2>8. Kept' /\ (\A q \in Procs : Own(q))'
    BY <2>1, <2>2, <2>5, <2>6, <2>7, FilesKept
  <2>9. QED
    BY <2>3, <2>8 DEF ShellInv
<1>2. ASSUME NEW p \in Procs, OpenResult(p) \/ Save(p)
      PROVE  ShellInv'
  <2>1. PICK r : Becomes(p, r)
    BY <1>2, EndSound DEF ShellInv
  <2>2. /\ proc'[p] = r /\ proc[p] \in Processes /\ Sound(proc[p]) /\ Own(p)
        /\ proc \in [Procs -> Processes] /\ results \in [RunIds -> Envelopes \union {Empty, Torn}]
    BY <2>1 DEF Becomes, ShellInv, ShellTypeOK
  <2>3. UNCHANGED <<world, clock>> /\ proc[p].id \in RunIds /\ proc[p].env \in Envelopes
    BY <1>2, <2>2 DEF OpenResult, Save, Sound, Processes
  <2>4. /\ r.id = proc[p].id /\ r.env = proc[p].env /\ r.pc \in Late
        /\ results' \in [RunIds -> Envelopes \union {Empty, Torn}]
        /\ \A i \in RunIds : results'[i] # results[i] =>
             i = r.id /\ (Whole(results'[i]) => results'[i] = r.env)
        /\ r.pc = "saving" => ~r.kept /\ results'[r.id] = Empty
        /\ r.kept => r.pc = "print" /\ (AloneAs(p, r.id) => results'[r.id] = r.env)
    <3>1. CASE OpenResult(p)
      <4>1. ~proc[p].kept
        BY <2>2, <3>1 DEF OpenResult, Own
      <4>2. PICK pc \in {"saving", "print"} :
              /\ proc' = [proc EXCEPT ![p].pc = pc]
              /\ \/ results' = [results EXCEPT ![proc[p].id] = Empty]
                 \/ results' = results /\ pc = "print"
        BY <3>1 DEF OpenResult
      <4>3. r = [proc[p] EXCEPT !.pc = pc]
        BY <2>2, <4>2
      <4>4. r.id = proc[p].id /\ r.env = proc[p].env /\ r.pc = pc /\ ~r.kept
        BY <2>2, <4>1, <4>3 DEF Processes
      <4>5. CASE results' = [results EXCEPT ![proc[p].id] = Empty]
        BY <2>2, <2>3, <4>4, <4>5 DEF Whole, Late
      <4>6. CASE results' = results /\ pc = "print"
        BY <2>2, <4>4, <4>6 DEF Late
      <4>7. QED
        BY <4>2, <4>5, <4>6
    <3>2. CASE Save(p)
      <4>0. PICK ok \in BOOLEAN : \E left \in Left(p, proc[p].env, ok) :
              /\ results' = [results EXCEPT ![proc[p].id] = left]
              /\ proc' = [proc EXCEPT ![p].pc = "print", ![p].kept = ok]
        BY <3>2 DEF Save
      <4>1. PICK left \in Left(p, proc[p].env, ok) :
              /\ results' = [results EXCEPT ![proc[p].id] = left]
              /\ proc' = [proc EXCEPT ![p].pc = "print", ![p].kept = ok]
        BY <4>0
      <4>2. r.id = proc[p].id /\ r.env = proc[p].env /\ r.pc = "print" /\ r.kept = ok
        BY <2>2, <4>1 DEF Processes
      <4>3. left \in {proc[p].env, Torn, results[proc[p].id]}
        BY DEF Left
      <4>4. results' \in [RunIds -> Envelopes \union {Empty, Torn}]
        BY <2>2, <2>3, <4>1, <4>3
      <4>5. \A i \in RunIds : results'[i] # results[i] =>
              i = proc[p].id /\ (Whole(results'[i]) => results'[i] = proc[p].env)
        BY <2>2, <2>3, <4>1, <4>3 DEF Whole
      <4>6. ok /\ AloneAs(p, r.id) => left = proc[p].env
        BY <4>2 DEF Left, Alone, AloneAs
      <4>7. results'[proc[p].id] = left
        BY <2>2, <2>3, <4>1
      <4>8. QED
        BY <4>2, <4>4, <4>5, <4>6, <4>7 DEF Late
    <3>3. QED
      BY <1>2, <3>1, <3>2
  <2>5. ShellTypeOK' /\ IsInventory(Inv)' /\ (\A q \in Procs : Sound(proc[q]))'
    BY <2>1, <2>3, <2>4, OneStep DEF ShellInv, ShellTypeOK
  <2>6. Kept' /\ (\A q \in Procs : Own(q))'
    BY <2>1, <2>3, <2>4, FilesKept
  <2>7. QED
    BY <2>5, <2>6 DEF ShellInv
<1>3. CASE Tick \/ UNCHANGED vars
  <2>1. world' = world /\ proc' = proc /\ results' = results /\ clock' \in 0..MaxSecond
    BY <1>3, ShellAssumption DEF Tick, vars, ShellInv, ShellTypeOK, ShellAssumption
  <2>2. ShellTypeOK' /\ IsInventory(Inv)'
    <3>1. /\ Envelopes' = Envelopes /\ Answers' = Answers /\ Processes' = Processes
          /\ IsInventory(Inv)'
      BY <2>1 DEF Envelopes, Answers, Processes, Inv, ShellInv
    <3>2. QED
      BY <2>1, <3>1 DEF ShellInv, ShellTypeOK
  <2>3. ASSUME NEW q \in Procs PROVE Sound(proc[q])'
    BY <2>1, SoundStays DEF ShellInv
  <2>4. Kept' /\ (\A q \in Procs : Own(q))'
    BY <2>1 DEF ShellInv, Kept, Whole, Own, Alone, Empty, Torn, NoEnvelope, NewEnvelope
  <2>5. QED
    BY <2>2, <2>3, <2>4 DEF ShellInv
<1>4. QED
  BY <1>1, <1>2, <1>3 DEF Next, Done

(* Spec keeps it.                                                          *)
LEMMA ShellInvariant == Spec => []ShellInv
  BY ShellInit, ShellStep, PTL DEF Spec

(* common.go:39: whatever the inventory, the processes and the failures,     *)
(* the state of the shell is well typed.                                   *)
THEOREM ShellTyped == Spec => []ShellTypeOK
<1>1. ShellInv => ShellTypeOK
  BY DEF ShellInv
<1>2. QED
  BY <1>1, ShellInvariant, PTL

(* common.go:102-134, start.go:34-45: exit code 0 means that everybody was    *)
(* asked everything, and answered well each time.                          *)
THEOREM ExitZeroMeansDone == Spec => []ExitTellsTruth
<1>1. ASSUME ShellInv, NEW p \in Procs, proc[p].exit = "0", proc[p].command # "status"
      PROVE  /\ Required(p) # {}
             /\ proc[p].stdout.ok
             /\ \A t \in Required(p) : <<t, TRUE>> \in proc[p].asked /\ <<t, FALSE>> \notin proc[p].asked
  <2>1. /\ Sound(proc[p]) /\ Truthful(proc[p]) /\ proc[p].todo = {}
        /\ proc[p].env.ok /\ proc[p].stdout = proc[p].env
    BY <1>1 DEF ShellInv, Sound
  <2>2. Required(p) = Wanted(proc[p])
    BY DEF Required, Wanted, Plan, TasksOf
  <2>3. \A t \in Wanted(proc[p]) : <<t, TRUE>> \in proc[p].asked
    BY <2>1 DEF Truthful, Wanted
  <2>4. ASSUME NEW t, <<t, FALSE>> \in proc[p].asked PROVE FALSE
    <3>1. <<t, FALSE>>[2] = TRUE
      BY <2>1, <2>4 DEF Truthful
    <3>2. QED
      BY <3>1
  <2>5. QED
    BY <2>1, <2>2, <2>3, <2>4 DEF Truthful
<1>2. ShellInv => ExitTellsTruth
  BY <1>1 DEF ExitTellsTruth
<1>3. QED
  BY <1>2, ShellInvariant, PTL

(* runlog.go:21-44: a run id of one's own keeps what was written under it,  *)
(* and no result.json that is whole is anything but somebody's last word.  *)
THEOREM ResultKept == Spec => []ResultIsOwn
<1>1. ASSUME ShellInv, NEW p \in Procs, Reported(p), proc[p].kept, Alone(p)
      PROVE  results[proc[p].id] = proc[p].stdout
  BY <1>1 DEF ShellInv, Own, Sound, Reported
<1>2. ShellInv => ResultIsOwn
  BY <1>1 DEF ResultIsOwn, ShellInv, Kept, Whole
<1>3. QED
  BY <1>2, ShellInvariant, PTL

(* validate.go:84-107: only hosts with an address are ever turned to.        *)
THEOREM OnlyKnownAsked == Spec => []TouchesOnlyKnown
<1>1. ASSUME ShellInv, NEW p \in Procs, NEW answer \in proc[p].asked
      PROVE  Known(Inv, answer[1][2]) /\ Address(Inv, answer[1][2]) # ""
  <2>1. proc[p] \in Processes /\ Sound(proc[p]) /\ IsInventory(Inv)
    BY <1>1 DEF ShellInv, ShellTypeOK
  <2>2. answer[1][2] \in AllRoleHosts(Inv)
    BY <2>1 DEF Processes, Answers
  <2>3. Validate(Inv)
    BY <1>1, <2>1 DEF Sound
  <2>4. QED
    BY <2>1, <2>2, <2>3, RoleHostsKnown
<1>2. ShellInv => TouchesOnlyKnown
  BY <1>1 DEF TouchesOnlyKnown
<1>3. QED
  BY <1>2, ShellInvariant, PTL

-----------------------------------------------------------------------------
(***************************************************************************)
(* What the envelope says of the hosts.                                    *)
(***************************************************************************)
\* The hosts the envelope has an entry of.
Named(env) == {h[1] : h \in env.hosts}

\* The envelope names the hosts of what is done; a preflight is OK as long as
\* no check it made fails anywhere, and names a host that failed once it is not.
Faithful(pr) ==
  /\ pr.pc \in {"none", "prepare"} => pr.env = NewEnvelope
  /\ (pr.exit \in {"0", "1"} /\ pr.id # NoRun) => pr.todo = {} /\ (pr.env.ok => pr.exit = "0")
  /\ (pr.id # NoRun /\ pr.command \notin {"start", "preflight"}) =>
       /\ pr.todo \subseteq Selected(pr.filter)
       /\ Named(pr.env) = UNION {HostsOf(Inv, c) : c \in Selected(pr.filter) \ pr.todo}
  /\ (pr.id # NoRun /\ pr.command = "preflight") =>
       /\ pr.env.ok => \A check \in Checks \ pr.todo : \A h \in AllRoleHosts(Inv) :
                         ~CheckFails(check, h)
       /\ ~pr.env.ok => pr.todo = {} /\ <<pr.env.error, FALSE>> \in pr.env.hosts

Turns(p, r) == proc' = [proc EXCEPT ![p] = r] /\ Faithful(r)

(* common.go:102-120, field by field.                                      *)
LEMMA AddedFields ==
  ASSUME NEW env \in Envelopes, NEW tasks, NEW lost
  PROVE  /\ Added(env, tasks, lost).ok <=> env.ok /\ lost = {}
         /\ Added(env, tasks, lost).hosts = env.hosts \union {<<t[2], t \notin lost>> : t \in tasks}
         /\ Named(Added(env, tasks, lost)) = Named(env) \union {t[2] : t \in tasks}
<1> DEFINE ok == env.ok /\ lost = {}
           new == {<<t[2], t \notin lost>> : t \in tasks}
<1>1. Added(env, tasks, lost) = [env EXCEPT !.ok = ok, !.hosts = @ \union new]
  BY DEF Added
<1>2. {h[1] : h \in new} = {t[2] : t \in tasks}
  <2>1. ASSUME NEW h \in new PROVE h[1] \in {t[2] : t \in tasks}
    <3>1. PICK t \in tasks : h = <<t[2], t \notin lost>>
      OBVIOUS
    <3>2. QED
      BY <3>1
  <2>2. ASSUME NEW t \in tasks PROVE t[2] \in {h[1] : h \in new}
    <3> DEFINE h == <<t[2], t \notin lost>>
    <3>1. h \in new /\ h[1] = t[2]
      OBVIOUS
    <3> HIDE DEF h, new
    <3>2. QED
      BY <3>1
  <2> HIDE DEF new
  <2>3. QED
    BY <2>1, <2>2
<1> HIDE DEF new
<1>3. Added(env, tasks, lost).hosts = env.hosts \union new
  BY <1>1 DEF Envelopes
<1>4. Named(Added(env, tasks, lost)) = Named(env) \union {h[1] : h \in new}
  BY <1>3 DEF Named
<1>5. Added(env, tasks, lost).ok = ok
  <2> HIDE DEF ok
  <2>1. QED
    BY <1>1 DEF Envelopes
<1>6. QED
  BY <1>2, <1>3, <1>4, <1>5 DEF new

(* Whatever the command, the tasks of a component go to its hosts.         *)
LEMMA TasksReachHosts ==
  ASSUME NEW command, NEW c
  PROVE  {t[2] : t \in Tasks(command, c)} = HostsOf(Inv, c)
<1>1. CASE command \in {"start", "stop"}
  <2>1. Tasks(command, c) = UNION {{<<r, h>> : h \in ToSet(Inv.roles[r])} : r \in RolesOf[c]}
    BY <1>1 DEF Tasks
  <2>2. ASSUME NEW t \in Tasks(command, c) PROVE t[2] \in HostsOf(Inv, c)
    BY <2>1 DEF HostsOf
  <2>3. ASSUME NEW h \in HostsOf(Inv, c) PROVE h \in {t[2] : t \in Tasks(command, c)}
    <3>1. PICK r \in RolesOf[c] : h \in ToSet(Inv.roles[r])
      BY DEF HostsOf
    <3>2. <<r, h>> \in Tasks(command, c) /\ <<r, h>>[2] = h
      BY <2>1, <3>1
    <3>3. QED
      BY <3>2
  <2>4. QED
    BY <2>2, <2>3
<1>2. CASE command \notin {"start", "stop"}
  <2>1. Tasks(command, c) = {<<c, h>> : h \in HostsOf(Inv, c)}
    BY <1>2 DEF Tasks
  <2>2. ASSUME NEW h \in HostsOf(Inv, c) PROVE h \in {t[2] : t \in Tasks(command, c)}
    <3>1. <<c, h>> \in Tasks(command, c) /\ <<c, h>>[2] = h
      BY <2>1
    <3>2. QED
      BY <3>1
  <2>3. ASSUME NEW t \in Tasks(command, c) PROVE t[2] \in HostsOf(Inv, c)
    BY <2>1
  <2>4. QED
    BY <2>2, <2>3
<1>3. QED
  BY <1>1, <1>2

(* Where nothing of it changes, what is said of a process stays true.      *)
LEMMA SameFaithful ==
  ASSUME NEW a, NEW b, Faithful(a), b.pc \notin {"none", "prepare"},
         b.id = a.id, b.command = a.command, b.filter = a.filter, b.todo = a.todo, b.env = a.env,
         (b.exit \in {"0", "1"} /\ b.id # NoRun) => b.todo = {} /\ (b.env.ok => b.exit = "0")
  PROVE  Faithful(b)
BY DEF Faithful

(* The beginning of a process.                                             *)
LEMMA BeginFaithful ==
  ASSUME ShellInv, NEW p \in Procs, Faithful(proc[p]),
         \/ \E command \in Commands, filter \in Filters : Invoke(p, command, filter)
         \/ Prepare(p) \/ PrepareFails(p)
  PROVE  \E r : Turns(p, r)
<1>1. proc[p] \in Processes /\ Sound(proc[p]) /\ proc \in [Procs -> Processes]
  BY DEF ShellInv, ShellTypeOK
<1>2. ASSUME NEW command, NEW filter, Invoke(p, command, filter)
      PROVE  \E r : Turns(p, r)
  <2> DEFINE r == [NotRun EXCEPT !.pc = "prepare", !.command = command, !.filter = filter]
  <2>1. proc' = [proc EXCEPT ![p] = r]
    BY <1>2 DEF Invoke
  <2>2. r.env = NewEnvelope /\ r.id = NoRun
    BY DEF NotRun
  <2> HIDE DEF r
  <2>3. QED
    BY <2>1, <2>2 DEF Turns, Faithful
<1>3. CASE (Prepare(p) \/ PrepareFails(p)) /\ Refused(p)
  <2> DEFINE r == [proc[p] EXCEPT !.pc = "ended", !.exit = "1"]
  <2>1. proc' = [proc EXCEPT ![p] = r]
    BY <1>1, <1>3 DEF Refused
  <2>2. r.pc = "ended" /\ r.id = NoRun
    BY <1>1, <1>3 DEF Processes, Sound, Prepare, PrepareFails
  <2> HIDE DEF r
  <2>3. QED
    BY <2>1, <2>2 DEF Turns, Faithful
<1>4. CASE Prepare(p) /\ ~Refused(p)
  <2> DEFINE r == [proc[p] EXCEPT !.pc = "work", !.id = <<clock, proc[p].command>>,
                                  !.todo = Plan(proc[p])]
  <2>1. proc' = [proc EXCEPT ![p] = r]
    BY <1>1, <1>4 DEF Prepare, Plan
  <2>2. /\ r.pc = "work" /\ r.exit = "none" /\ r.env = NewEnvelope /\ r.todo = Plan(r)
        /\ r.command = proc[p].command /\ r.filter = proc[p].filter
    BY <1>1, <1>4 DEF Processes, Sound, Faithful, Prepare, Plan
  <2> HIDE DEF r
  <2>3. NewEnvelope.ok /\ Named(NewEnvelope) = {}
    BY DEF NewEnvelope, Named
  <2>4. Faithful(r)
    BY <2>2, <2>3 DEF Faithful, Plan
  <2>5. QED
    BY <2>1, <2>4 DEF Turns
<1>5. QED
  BY <1>2, <1>3, <1>4 DEF PrepareFails

(* A component is done when its hosts are in the envelope.                 *)
LEMMA ComponentFaithful ==
  ASSUME ShellInv, NEW p \in Procs, Faithful(proc[p]), NEW c, Component(p, c)
  PROVE  \E r : Turns(p, r)
<1> DEFINE tasks == Tasks(proc[p].command, c)
<1>1. PICK lost \in Losses(tasks) :
        proc' = [proc EXCEPT ![p].env = Added(@, tasks, lost),
                             ![p].asked = @ \union Answered(tasks, lost),
                             ![p].todo = WalkOn(p, c, lost)]
  BY DEF Component
<1> DEFINE r == [proc[p] EXCEPT !.env = Added(@, tasks, lost),
                                !.asked = @ \union Answered(tasks, lost),
                                !.todo = WalkOn(p, c, lost)]
<1>2. /\ proc[p] \in Processes /\ Sound(proc[p]) /\ proc \in [Procs -> Processes]
      /\ proc[p].pc = "work" /\ proc[p].command # "preflight" /\ c \in proc[p].todo
  BY DEF ShellInv, ShellTypeOK, Component, AtComponent
<1>3. proc' = [proc EXCEPT ![p] = r]
  BY <1>1, <1>2
<1>4. /\ r.pc = "work" /\ r.exit = "none" /\ r.id = proc[p].id
      /\ r.command = proc[p].command /\ r.filter = proc[p].filter
      /\ r.env = Added(proc[p].env, tasks, lost) /\ r.todo = WalkOn(p, c, lost)
  BY <1>2 DEF Sound, Processes
<1> HIDE DEF r
<1>5. proc[p].env \in Envelopes
  BY <1>2 DEF Processes
<1>6. Named(r.env) = Named(proc[p].env) \union HostsOf(Inv, c)
  BY <1>4, <1>5, AddedFields, TasksReachHosts
<1>7. ASSUME r.id # NoRun, r.command # "start"
      PROVE  /\ r.todo \subseteq Selected(r.filter)
             /\ Named(r.env) = UNION {HostsOf(Inv, d) : d \in Selected(r.filter) \ r.todo}
  <2>1. /\ proc[p].todo \subseteq Selected(r.filter)
        /\ Named(proc[p].env) = UNION {HostsOf(Inv, d) : d \in Selected(r.filter) \ proc[p].todo}
    BY <1>2, <1>4, <1>7 DEF Faithful
  <2>2. r.todo = proc[p].todo \ {c}
    BY <1>4, <1>7 DEF WalkOn
  <2>3. Selected(r.filter) \ r.todo = (Selected(r.filter) \ proc[p].todo) \union {c}
    BY <1>2, <2>1, <2>2
  <2>4. QED
    BY <1>6, <2>1, <2>2, <2>3
<1>8. Faithful(r)
  BY <1>2, <1>4, <1>7 DEF Faithful
<1>9. QED
  BY <1>3, <1>8 DEF Turns

(* A check that nobody fails is done; one that somebody fails is the last. *)
LEMMA CheckFaithful ==
  ASSUME ShellInv, NEW p \in Procs, Faithful(proc[p]), NEW check \in Checks, Check(p, check)
  PROVE  \E r : Turns(p, r)
<1> DEFINE tasks == CheckTasks(check)
           Lost(unreached) == unreached \union {t \in tasks : CheckFails(check, t[2])}
<1>1. PICK unreached \in Losses(tasks) :
        \E error \in IF Lost(unreached) = {} THEN {NoError} ELSE {t[2] : t \in Lost(unreached)} :
          proc' = [proc EXCEPT
            ![p].env = [Added(@, tasks, Lost(unreached)) EXCEPT !.error = error],
            ![p].asked = @ \union Answered(tasks, Lost(unreached)),
            ![p].todo = IF Lost(unreached) = {} THEN @ \ {check} ELSE {}]
  BY DEF Check
<1> DEFINE lost == Lost(unreached)
<1>2. PICK error \in IF lost = {} THEN {NoError} ELSE {t[2] : t \in lost} :
        proc' = [proc EXCEPT
          ![p].env = [Added(@, tasks, lost) EXCEPT !.error = error],
          ![p].asked = @ \union Answered(tasks, lost),
          ![p].todo = IF lost = {} THEN @ \ {check} ELSE {}]
  BY <1>1
<1>3. lost \subseteq tasks /\ \A t \in tasks : CheckFails(check, t[2]) => t \in lost
  BY DEF Losses
<1> HIDE DEF lost
<1>4. /\ proc[p] \in Processes /\ Sound(proc[p]) /\ proc \in [Procs -> Processes]
      /\ proc[p].pc = "work" /\ proc[p].command = "preflight" /\ check \in proc[p].todo
  BY DEF ShellInv, ShellTypeOK, Check, AtCheck
<1> DEFINE env == Added(proc[p].env, tasks, lost)
           r == [proc[p] EXCEPT !.env = [env EXCEPT !.error = error],
                                !.asked = @ \union Answered(tasks, lost),
                                !.todo = IF lost = {} THEN @ \ {check} ELSE {}]
<1>5. proc' = [proc EXCEPT ![p] = r]
  BY <1>2, <1>4
<1>6. proc[p].env \in Envelopes
  BY <1>4 DEF Processes
<1>7. /\ env.ok <=> proc[p].env.ok /\ lost = {}
      /\ env.hosts = proc[p].env.hosts \union {<<t[2], t \notin lost>> : t \in tasks}
  BY <1>6, AddedFields
<1>8. /\ [env EXCEPT !.error = error].ok = env.ok /\ [env EXCEPT !.error = error].hosts = env.hosts
      /\ [env EXCEPT !.error = error].error = error
  BY <1>6 DEF Added, Envelopes
<1>9. /\ r.pc = "work" /\ r.exit = "none" /\ r.id = proc[p].id /\ r.command = "preflight"
      /\ r.env = [env EXCEPT !.error = error]
      /\ r.todo = (IF lost = {} THEN proc[p].todo \ {check} ELSE {})
      /\ r.id # NoRun
  <2>1. proc[p].id \in RunIds /\ proc[p].exit = "none"
    BY <1>4 DEF Sound
  <2>2. proc[p].id # NoRun
    BY <2>1 DEF RunIds, NoRun, Commands
  <2> HIDE DEF env
  <2>3. QED
    BY <1>4, <2>1, <2>2 DEF Processes
<1> HIDE DEF r, env
<1>10. proc[p].env.ok
  BY <1>4, <1>9 DEF Faithful
<1>11. ASSUME lost = {}, NEW other \in Checks \ r.todo, NEW h \in AllRoleHosts(Inv)
       PROVE  ~CheckFails(other, h)
  <2>1. CASE other = check
    <3>1. <<check, h>> \in tasks /\ <<check, h>>[2] = h
      BY DEF CheckTasks
    <3>2. QED
      BY <1>3, <1>11, <2>1, <3>1
  <2>2. CASE other # check
    BY <1>4, <1>9, <1>10, <1>11, <2>2 DEF Faithful
  <2>3. QED
    BY <2>1, <2>2
<1>12. ASSUME lost # {}
       PROVE  <<error, FALSE>> \in r.env.hosts
  <2>1. PICK t \in lost : error = t[2]
    BY <1>2, <1>12
  <2>2. t \in tasks
    BY <1>3, <2>1
  <2>3. (t \notin lost) = FALSE
    BY <2>1
  <2>4. <<t[2], FALSE>> \in {<<u[2], u \notin lost>> : u \in tasks}
    BY <2>2, <2>3
  <2>5. QED
    BY <1>7, <1>8, <1>9, <2>1, <2>4
<1>13. Faithful(r)
  BY <1>7, <1>8, <1>9, <1>10, <1>11, <1>12 DEF Faithful
<1>14. QED
  BY <1>5, <1>13 DEF Turns

(* The end of a process: what it has found is saved and printed as it is.  *)
LEMMA EndFaithful ==
  ASSUME ShellInv, NEW p \in Procs, Faithful(proc[p]),
         OpenResult(p) \/ Save(p) \/ WriteEnvelope(p) \/ Kill(p)
  PROVE  \E r : Turns(p, r)
<1>1. proc[p] \in Processes /\ Sound(proc[p]) /\ proc \in [Procs -> Processes]
  BY DEF ShellInv, ShellTypeOK
<1>2. CASE OpenResult(p) \/ Save(p)
  <2>1. \E r : proc' = [proc EXCEPT ![p] = r] /\ r.pc \in {"saving", "print"} /\ r.exit = "none"
              /\ r.id = proc[p].id /\ r.command = proc[p].command
              /\ r.filter = proc[p].filter /\ r.todo = proc[p].todo /\ r.env = proc[p].env
    <3>1. CASE OpenResult(p)
      <4>1. PICK pc \in {"saving", "print"} : proc' = [proc EXCEPT ![p].pc = pc] /\ proc[p].pc = "work"
        BY <3>1 DEF OpenResult
      <4> DEFINE r == [proc[p] EXCEPT !.pc = pc]
      <4>2. proc' = [proc EXCEPT ![p] = r]
        BY <1>1, <4>1
      <4>3. /\ r.pc = pc /\ r.exit = "none" /\ r.id = proc[p].id /\ r.command = proc[p].command
            /\ r.filter = proc[p].filter /\ r.todo = proc[p].todo /\ r.env = proc[p].env
        BY <1>1, <4>1 DEF Processes, Sound
      <4> HIDE DEF r
      <4>4. QED
        BY <4>2, <4>3
    <3>2. CASE Save(p)
      <4>1. PICK ok \in BOOLEAN : proc' = [proc EXCEPT ![p].pc = "print", ![p].kept = ok]
                                  /\ proc[p].pc = "saving"
        BY <3>2 DEF Save
      <4> DEFINE r == [proc[p] EXCEPT !.pc = "print", !.kept = ok]
      <4>2. proc' = [proc EXCEPT ![p] = r]
        BY <1>1, <4>1
      <4>3. /\ r.pc = "print" /\ r.exit = "none" /\ r.id = proc[p].id /\ r.command = proc[p].command
            /\ r.filter = proc[p].filter /\ r.todo = proc[p].todo /\ r.env = proc[p].env
        BY <1>1, <4>1 DEF Processes, Sound
      <4> HIDE DEF r
      <4>4. QED
        BY <4>2, <4>3
    <3>3. QED
      BY <1>2, <3>1, <3>2
  <2>2. QED
    BY <2>1, SameFaithful DEF Turns
<1>3. CASE WriteEnvelope(p)
  <2> DEFINE exit == IF proc[p].env.ok \/ proc[p].command = "status" THEN "0" ELSE "1"
             r == [proc[p] EXCEPT !.pc = "ended", !.stdout = proc[p].env, !.exit = exit]
  <2>1. proc' = [proc EXCEPT ![p] = r]
    BY <1>1, <1>3 DEF WriteEnvelope
  <2>2. /\ r.pc = "ended" /\ r.exit = exit /\ r.id = proc[p].id /\ r.command = proc[p].command
        /\ r.filter = proc[p].filter /\ r.todo = proc[p].todo /\ r.env = proc[p].env
        /\ proc[p].todo = {}
    BY <1>1, <1>3 DEF Processes, Sound, WriteEnvelope
  <2> HIDE DEF r
  <2>3. QED
    BY <2>1, <2>2, SameFaithful DEF Turns
<1>4. CASE Kill(p)
  <2> DEFINE r == [proc[p] EXCEPT !.pc = "ended", !.exit = "killed"]
  <2>1. proc' = [proc EXCEPT ![p] = r]
    BY <1>1, <1>4 DEF Kill
  <2>2. /\ r.pc = "ended" /\ r.exit = "killed" /\ r.id = proc[p].id /\ r.command = proc[p].command
        /\ r.filter = proc[p].filter /\ r.todo = proc[p].todo /\ r.env = proc[p].env
    BY <1>1 DEF Processes
  <2> HIDE DEF r
  <2>3. QED
    BY <2>1, <2>2, SameFaithful DEF Turns
<1>5. QED
  BY <1>2, <1>3, <1>4

AllFaithful == \A p \in Procs : Faithful(proc[p])

(* What is said of a process is said of the world, which stays.            *)
LEMMA FaithfulStays ==
  ASSUME UNCHANGED world, NEW q, NEW r, proc'[q] = r, Faithful(r)
  PROVE  Faithful(proc[q])'
<1>1. Inv' = Inv
  BY DEF Inv
<1>2. Selected(proc[q].filter)' = Selected(r.filter)
  BY <1>1 DEF Selected
<1>3. ASSUME NEW check, NEW h PROVE CheckFails(check, h)' <=> CheckFails(check, h)
  BY <1>1 DEF CheckFails, portsToCheck
<1>4. QED
  BY <1>1, <1>2, <1>3 DEF Faithful, Named

(* Every step keeps every process's envelope faithful.                     *)
LEMMA FaithfulStep == ShellInv /\ AllFaithful /\ [Next]_vars => AllFaithful'
<1> SUFFICES ASSUME ShellInv, AllFaithful, [Next]_vars PROVE AllFaithful'
  OBVIOUS
<1>1. ASSUME NEW p \in Procs,
             \/ \E command \in Commands, filter \in Filters : Invoke(p, command, filter)
             \/ Prepare(p) \/ PrepareFails(p)
             \/ \E c \in knownComponents : Component(p, c)
             \/ \E check \in Checks : Check(p, check)
             \/ OpenResult(p) \/ Save(p) \/ WriteEnvelope(p) \/ Kill(p)
      PROVE  AllFaithful'
  <2>1. PICK r : Turns(p, r)
    BY <1>1, BeginFaithful, ComponentFaithful, CheckFaithful, EndFaithful DEF AllFaithful
  <2>2. UNCHANGED world
    BY <1>1 DEF Invoke, Prepare, PrepareFails, Component, Check, OpenResult, Save, WriteEnvelope,
                  Kill
  <2>3. ASSUME NEW q \in Procs PROVE Faithful(proc[q])'
    <3>1. CASE q = p
      <4>1. proc'[q] = r /\ Faithful(r)
        BY <2>1, <3>1 DEF Turns, ShellInv, ShellTypeOK
      <4>2. QED
        BY <2>2, <4>1, FaithfulStays
    <3>2. CASE q # p
      <4>1. proc'[q] = proc[q] /\ Faithful(proc[q])
        BY <2>1, <3>2 DEF Turns, ShellInv, ShellTypeOK, AllFaithful
      <4>2. QED
        BY <2>2, <4>1, FaithfulStays
    <3>3. QED
      BY <3>1, <3>2
  <2>4. QED
    BY <2>3 DEF AllFaithful
<1>2. CASE Tick \/ UNCHANGED vars
  <2>1. UNCHANGED <<world, proc>>
    BY <1>2 DEF Tick, vars
  <2>2. ASSUME NEW q \in Procs PROVE Faithful(proc[q])'
    BY <2>1, FaithfulStays DEF AllFaithful
  <2>3. QED
    BY <2>2 DEF AllFaithful
<1>3. QED
  BY <1>1, <1>2 DEF Next, Done

(* The envelopes are faithful from the start and for ever.                 *)
LEMMA FaithfulInvariant == Spec => []AllFaithful
<1>1. Init => AllFaithful
  <2>1. NotRun.env = NewEnvelope /\ NotRun.id = NoRun
    BY DEF NotRun
  <2>2. Faithful(NotRun)
    BY <2>1 DEF Faithful
  <2>3. Init => \A p \in Procs : proc[p] = NotRun
    BY DEF Init
  <2>4. QED
    BY <2>2, <2>3 DEF AllFaithful
<1>2. QED
  BY <1>1, FaithfulStep, ShellInvariant, PTL DEF Spec

(* install.go, configure.go, stop.go, status.go, uninstall.go: whatever    *)
(* fails, the envelope has every host of what was selected, and no other.  *)
THEOREM HostsAllNamed == Spec => []EveryHostAnswered
<1>1. ASSUME ShellInv, AllFaithful, NEW p \in Procs, Reported(p),
             proc[p].command \notin {"start", "preflight"}
      PROVE  {h[1] : h \in proc[p].stdout.hosts}
               = UNION {HostsOf(Inv, c) : c \in Selected(proc[p].filter)}
  <2>1. proc[p].stdout = proc[p].env /\ proc[p].todo = {}
    BY <1>1 DEF ShellInv, Sound, AllFaithful, Faithful, Reported
  <2>2. Named(proc[p].env) = UNION {HostsOf(Inv, c) : c \in Selected(proc[p].filter) \ proc[p].todo}
    BY <1>1 DEF AllFaithful, Faithful, Reported
  <2>3. Selected(proc[p].filter) \ proc[p].todo = Selected(proc[p].filter)
    BY <2>1
  <2>4. QED
    BY <2>1, <2>2, <2>3 DEF Named
<1>2. ShellInv /\ AllFaithful => EveryHostAnswered
  BY <1>1 DEF EveryHostAnswered
<1>3. QED
  BY <1>2, ShellInvariant, FaithfulInvariant, PTL

(* preflight.go:77-98 against the rendered ports: what a daemon of a       *)
(* declared component listens on is among the ports that are looked at.    *)
LEMMA PortsCovered ==
  ASSUME NEW c \in Inv.components, c \in knownComponents, NEW r \in RolesOf[c]
  PROVE  ListensOn(Inv, r) \subseteq portsToCheck
BY DEF knownComponents, RolesOf, ListensOn, portsToCheck, HasComponent

(* preflight.go:20-98: exit code 0 means that every daemon declared has its *)
(* JDK and, on a host whose login shell is bash, none of its ports taken   *)
(* where 127.0.0.1 shows it; otherwise the host in the error has failed.   *)
THEOREM PreflightIsRight == Spec => []PreflightTells
<1>1. ASSUME ShellInv, AllFaithful, NEW p \in Procs, Reported(p), proc[p].command = "preflight"
      PROVE  IF proc[p].exit = "0"
             THEN \A c \in Inv.components : \A r \in RolesOf[c] : \A h \in ToSet(Inv.roles[r]) :
                    /\ h \in world.jdk
                    /\ \A taken \in world.busy[h] :
                         taken.port \in ListensOn(Inv, r) =>
                           h \notin world.bash \/ taken.at \notin OnLoopback
             ELSE <<proc[p].stdout.error, FALSE>> \in proc[p].stdout.hosts
  <2>1. /\ Sound(proc[p]) /\ Faithful(proc[p]) /\ proc[p].id # NoRun
        /\ proc[p].stdout = proc[p].env /\ proc[p].todo = {}
    BY <1>1 DEF ShellInv, Sound, AllFaithful, Faithful, Reported
  <2>2. CASE proc[p].exit = "0"
    <3>1. proc[p].env.ok
      BY <1>1, <2>1, <2>2 DEF Sound
    <3>2. Inv.components \subseteq knownComponents
      <4>1. Validate(Inv)
        <5>1. Wanted(proc[p]) # {} /\ \A t \in Wanted(proc[p]) : <<t, TRUE>> \in proc[p].asked
          BY <2>1, <2>2, <3>1 DEF Sound, Truthful, Wanted
        <5>2. proc[p].asked # {}
          BY <5>1
        <5>3. QED
          BY <2>1, <5>2 DEF Sound
      <4>2. QED
        BY <4>1 DEF Validate, ComponentsValid
    <3>3. ASSUME NEW c \in Inv.components, NEW r \in RolesOf[c], NEW h \in ToSet(Inv.roles[r])
          PROVE  /\ h \in world.jdk
                 /\ \A taken \in world.busy[h] :
                      taken.port \in ListensOn(Inv, r) =>
                        h \notin world.bash \/ taken.at \notin OnLoopback
      <4>1. h \in AllRoleHosts(Inv)
        BY <3>2 DEF AllRoleHosts, RolesOf, Roles, knownComponents
      <4>2. ~CheckFails("preflight-jdk", h) /\ ~CheckFails("preflight-ports", h)
        BY <1>1, <2>1, <3>1, <4>1 DEF Faithful, Checks
      <4>3. QED
        BY <3>2, <4>2, PortsCovered DEF CheckFails
    <3>4. QED
      BY <2>2, <3>3
  <2>3. CASE proc[p].exit # "0"
    <3>1. proc[p].exit = "1" /\ ~proc[p].env.ok
      BY <1>1, <2>1, <2>3 DEF Faithful, Reported
    <3>2. QED
      BY <1>1, <2>1, <2>3, <3>1 DEF Faithful
  <2>4. QED
    BY <2>2, <2>3
<1>2. ShellInv /\ AllFaithful => PreflightTells
  BY <1>1 DEF PreflightTells
<1>3. QED
  BY <1>2, ShellInvariant, FaithfulInvariant, PTL
=============================================================================
