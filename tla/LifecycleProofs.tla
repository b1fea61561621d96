--------------------------- MODULE LifecycleProofs ---------------------------
(***************************************************************************)
(* What the data of HDFS keep when nobody gives a destructive flag, for    *)
(* any number of operators working at once, any hosts, roles and           *)
(* components, and any number of failures.                                 *)
(***************************************************************************)
EXTENDS Lifecycle, TLAPS, FiniteSetTheorems, SequenceTheorems

(* The steps of scripts, and those that destroy nothing.                   *)
Steps == ({"zkstatus", "format", "reformat", "mark", "launch", "stop"} \X Daemons)
           \union ({"unpack", "mv", "write", "rmhome", "rmdata"} \X Components)
Gentle == ({"zkstatus", "format", "mark", "launch", "stop"} \X Daemons)
            \union ({"unpack", "mv", "write", "rmhome"} \X Components)

(* Scripts of the steps G, and commands that run them with flags of F.     *)
Scripts(G) == Seq(G) \ {<<>>}
Batches(G) == Seq([hosts : SUBSET Hosts, todo : Scripts(G)])
Commands(G, F) ==
  [op : Ops \union {"none"}, flag : F, filter : Filters \union {"all"},
   comps : Seq(Declared), cur : Declared \union {"none"},
   batches : Batches(G), compOK : BOOLEAN, envOK : BOOLEAN]
Processes(G) == [by : Operators, host : Hosts, todo : Scripts(G), waited : BOOLEAN]

MadeOf(G, F) == /\ cmd \in [Operators -> Commands(G, F)]
                /\ procs \subseteq Processes(G)

(* Of any command, and of commands, batches and scripts on the hosts that  *)
(* mean to destroy nothing.                                                *)
Made == MadeOf(Steps, BOOLEAN)
Harmless == MadeOf(Gentle, {FALSE})

-----------------------------------------------------------------------------
(***************************************************************************)
(* What the commands plan.                                                 *)
(***************************************************************************)
(* component.go:29-33: a walk goes through the known components.           *)
LEMMA WalkTyped ==
  ASSUME NEW o, NEW only
  PROVE  ComponentsFor(o, only) \in Seq(Declared)
<1>1. /\ Walk(o)[1] \in Components /\ Walk(o)[2] \in Components
      /\ Walk(o)[3] \in Components
  BY DEF Walk, ReverseOrdered, Reverse, Ordered, Components
<1> DEFINE Kept(c) == IF c \in Declared /\ only \in {"all", c} THEN <<c>> ELSE <<>>
<1>2. ASSUME NEW c \in Components PROVE Kept(c) \in Seq(Declared)
  OBVIOUS
<1>3. ComponentsFor(o, only) = Kept(Walk(o)[1]) \o Kept(Walk(o)[2]) \o Kept(Walk(o)[3])
  BY DEF ComponentsFor
<1>4. /\ Kept(Walk(o)[1]) \in Seq(Declared) /\ Kept(Walk(o)[2]) \in Seq(Declared)
      /\ Kept(Walk(o)[3]) \in Seq(Declared)
  BY <1>1, <1>2
<1> HIDE DEF Kept
<1>5. QED
  BY <1>3, <1>4

(* hdfs.go:17-27, hbase.go:17-27: a component's hosts are known hosts.     *)
LEMMA HostsKnown ==
  ASSUME NEW c
  PROVE  HostsOf(c) \subseteq Hosts /\ IsFiniteSet(HostsOf(c))
<1>1. HostsOf(c) \subseteq Hosts
  BY LifecycleAssumption DEF LifecycleAssumption, HostsOf, DaemonsOf
<1>2. QED
  BY <1>1, LifecycleAssumption, FS_Subset DEF LifecycleAssumption

(* Every element of the list of a finite set is one of the set.            *)
LEMMA ListTyped ==
  ASSUME NEW S, IsFiniteSet(S)
  PROVE  Cardinality(S) \in Nat /\ SetToSeq(S) \in [1..Cardinality(S) -> S]
<1>1. Cardinality(S) \in Nat /\ ExistsBijection(1..Cardinality(S), S)
  BY FS_CardinalityType
<1>2. \E f \in [1..Cardinality(S) -> S] : IsInjective(f)
  BY <1>1 DEF ExistsBijection, Bijection, Injection
<1>3. QED
  BY <1>1, <1>2 DEF SetToSeq

(* A function on 1..n is a sequence.                                       *)
LEMMA FunctionIsSeq ==
  ASSUME NEW S, NEW n \in Nat, NEW f \in [1..n -> S]
  PROVE  f \in Seq(S)
OBVIOUS

(* The roles of a component are daemons.                                   *)
LEMMA RolesTyped ==
  ASSUME NEW c \in Components
  PROVE  /\ RoleOrder(c) \in Seq(Daemons) /\ Len(RoleOrder(c)) \in Nat
         /\ \A i \in DOMAIN RoleOrder(c) :
              RoleOrder(c)[i] \in Daemons /\ Reverse(RoleOrder(c))[i] \in Daemons
<1>1. CASE c = "zookeeper"
  BY <1>1 DEF RoleOrder, Daemons, Reverse
<1>2. CASE c = "hdfs"
  BY <1>2 DEF RoleOrder, Daemons, Reverse
<1>3. CASE c = "hbase"
  BY <1>3 DEF RoleOrder, Daemons, Reverse
<1>4. QED
  BY <1>1, <1>2, <1>3 DEF Components

(* What starts, stops, installs, configures and uninstalls with a flag of F *)
(* is a script of the steps G.                                             *)
ScriptsMade(G, F) ==
  /\ F \subseteq BOOLEAN /\ FALSE \in F
  /\ \A d \in Daemons : \A f \in F : StartScript(d, f) \in Scripts(G)
  /\ \A c \in Components :
       /\ \A i \in DOMAIN RoleOrder(c) : << StopSteps(c)[i] >> \in Scripts(G)
       /\ InstallScript(c) \in Scripts(G)
       /\ << <<"write", c>> >> \in Scripts(G)
       /\ \A f \in F : UninstallScript(c, f) \in Scripts(G)

(* hdfs.go:133-148: the steps of a stop are as many as the roles.          *)
LEMMA StopStepsAre ==
  ASSUME NEW c \in Components, NEW G, {"stop"} \X Daemons \subseteq G
  PROVE  /\ StopSteps(c) \in Seq(G)
         /\ Len(StopSteps(c)) = Len(RoleOrder(c))
         /\ \A i \in DOMAIN RoleOrder(c) : << StopSteps(c)[i] >> \in Scripts(G)
<1>1. ASSUME NEW i \in DOMAIN RoleOrder(c)
      PROVE  <<"stop", Reverse(RoleOrder(c))[i]>> \in G
  BY <1>1, RolesTyped
<1>2. DOMAIN RoleOrder(c) = 1..Len(RoleOrder(c)) /\ Len(RoleOrder(c)) \in Nat
  BY RolesTyped
<1>3. StopSteps(c) \in Seq(G) /\ Len(StopSteps(c)) = Len(RoleOrder(c))
  BY <1>1, <1>2 DEF StopSteps
<1>4. QED
  BY <1>1, <1>3 DEF StopSteps, Scripts

(* Uninstalling is a stop, the removal of the home, and that of the data.  *)
LEMMA UninstallMade ==
  ASSUME NEW c \in Components, NEW f \in BOOLEAN, NEW G, {"stop"} \X Daemons \subseteq G,
         <<"rmhome", c>> \in G, f => <<"rmdata", c>> \in G
  PROVE  UninstallScript(c, f) \in Scripts(G)
<1> DEFINE start == StopSteps(c) \o << <<"rmhome", c>> >>
           end   == IF f THEN << <<"rmdata", c>> >> ELSE <<>>
<1>1. StopSteps(c) \in Seq(G) /\ << <<"rmhome", c>> >> \in Seq(G) /\ end \in Seq(G)
  BY StopStepsAre
<1>2. Len(<< <<"rmhome", c>> >>) = 1 /\ Len(StopSteps(c)) \in Nat /\ Len(end) \in Nat
  BY <1>1
<1>3. start \in Seq(G) /\ Len(start) = Len(StopSteps(c)) + 1
  BY <1>1, <1>2, ConcatProperties
<1>4. start \o end \in Seq(G) /\ Len(start \o end) = Len(start) + Len(end)
  BY <1>1, <1>3, ConcatProperties
<1>5. UninstallScript(c, f) = start \o end
  BY DEF UninstallScript
<1> HIDE DEF start, end
<1>6. QED
  BY <1>2, <1>3, <1>4, <1>5 DEF Scripts

(* hdfs.go:91-131 and its like: starting without --force-format, and       *)
(* uninstalling without --purge-data, is gentle.                           *)
LEMMA GentleMade == ScriptsMade(Gentle, {FALSE})
<1>1. ASSUME NEW d \in Daemons PROVE StartScript(d, FALSE) \in Scripts(Gentle)
  BY DEF StartScript, Scripts, Gentle, Daemons
<1>2. ASSUME NEW c \in Components
      PROVE  InstallScript(c) \in Scripts(Gentle) /\ << <<"write", c>> >> \in Scripts(Gentle)
  BY DEF InstallScript, Scripts, Gentle
<1>3. ASSUME NEW c \in Components
      PROVE  {"stop"} \X Daemons \subseteq Gentle /\ <<"rmhome", c>> \in Gentle
  BY DEF Gentle
<1>4. QED
  BY <1>1, <1>2, <1>3, StopStepsAre, UninstallMade DEF ScriptsMade

LEMMA StepsMade == ScriptsMade(Steps, BOOLEAN)
<1>1. ASSUME NEW d \in Daemons, NEW f \in BOOLEAN PROVE StartScript(d, f) \in Scripts(Steps)
  BY DEF StartScript, Scripts, Steps, Daemons
<1>2. ASSUME NEW c \in Components
      PROVE  InstallScript(c) \in Scripts(Steps) /\ << <<"write", c>> >> \in Scripts(Steps)
  BY DEF InstallScript, Scripts, Steps
<1>3. ASSUME NEW c \in Components
      PROVE  /\ {"stop"} \X Daemons \subseteq Steps
             /\ <<"rmhome", c>> \in Steps /\ <<"rmdata", c>> \in Steps
  BY DEF Steps
<1>4. QED
  BY <1>1, <1>2, <1>3, StopStepsAre, UninstallMade DEF ScriptsMade

(* One batch of a script is a list of batches.                             *)
LEMMA OneBatch ==
  ASSUME NEW G, NEW hosts \in SUBSET Hosts, NEW script \in Scripts(G)
  PROVE  << [hosts |-> hosts, todo |-> script] >> \in Batches(G)
<1>1. [hosts |-> hosts, todo |-> script] \in [hosts : SUBSET Hosts, todo : Scripts(G)]
  OBVIOUS
<1>2. QED
  BY <1>1 DEF Batches

(* What a command plans is made of the same steps.                         *)
LEMMA PlanMade ==
  ASSUME NEW G, NEW F, ScriptsMade(G, F), NEW o \in Ops, NEW c \in Components, NEW f \in F
  PROVE  Plan(o, c, f) \in Batches(G)
<1> DEFINE B == [hosts : SUBSET Hosts, todo : Scripts(G)]
<1>1. ASSUME NEW i \in DOMAIN RoleOrder(c)
      PROVE  /\ RoleHosts[RoleOrder(c)[i]] \subseteq Hosts
             /\ RoleHosts[Reverse(RoleOrder(c))[i]] \subseteq Hosts
             /\ StartScript(RoleOrder(c)[i], f) \in Scripts(G)
             /\ <<StopSteps(c)[i]>> \in Scripts(G)
  BY <1>1, RolesTyped, LifecycleAssumption DEF LifecycleAssumption, ScriptsMade
<1>2. DOMAIN RoleOrder(c) = 1..Len(RoleOrder(c)) /\ Len(RoleOrder(c)) \in Nat
  BY RolesTyped
<1>3. CASE o = "start"
  <2>1. Plan(o, c, f) = [i \in 1..Len(RoleOrder(c)) |->
                           [hosts |-> RoleHosts[RoleOrder(c)[i]],
                            todo  |-> StartScript(RoleOrder(c)[i], f)]]
    BY <1>2, <1>3 DEF Plan
  <2>2. \A i \in 1..Len(RoleOrder(c)) :
          [hosts |-> RoleHosts[RoleOrder(c)[i]],
           todo  |-> StartScript(RoleOrder(c)[i], f)] \in B
    BY <1>1, <1>2
  <2> HIDE DEF B
  <2>3. Plan(o, c, f) \in [1..Len(RoleOrder(c)) -> B]
    BY <2>1, <2>2
  <2>4. QED
    BY <1>2, <2>3, FunctionIsSeq DEF Batches, B
<1>4. CASE o = "stop"
  <2>1. Plan(o, c, f) = [i \in 1..Len(RoleOrder(c)) |->
                           [hosts |-> RoleHosts[Reverse(RoleOrder(c))[i]],
                            todo  |-> <<StopSteps(c)[i]>>]]
    BY <1>2, <1>4 DEF Plan
  <2>2. \A i \in 1..Len(RoleOrder(c)) :
          [hosts |-> RoleHosts[Reverse(RoleOrder(c))[i]],
           todo  |-> <<StopSteps(c)[i]>>] \in B
    BY <1>1, <1>2
  <2> HIDE DEF B
  <2>3. Plan(o, c, f) \in [1..Len(RoleOrder(c)) -> B]
    BY <2>1, <2>2
  <2>4. QED
    BY <1>2, <2>3, FunctionIsSeq DEF Batches, B
<1>5. CASE o = "install"
  <2>1. Plan(o, c, f) = << [hosts |-> HostsOf(c), todo |-> InstallScript(c)] >>
    BY <1>5 DEF Plan
  <2>2. QED
    BY <2>1, HostsKnown, OneBatch DEF ScriptsMade
<1>6. CASE o = "uninstall"
  <2>1. Plan(o, c, f) = << [hosts |-> HostsOf(c), todo |-> UninstallScript(c, f)] >>
    BY <1>6 DEF Plan
  <2>2. QED
    BY <2>1, HostsKnown, OneBatch DEF ScriptsMade
<1>7. CASE o = "configure" /\ c # "zookeeper"
  <2>1. Plan(o, c, f) = << [hosts |-> HostsOf(c), todo |-> << <<"write", c>> >>] >>
    BY <1>7 DEF Plan
  <2>2. QED
    BY <2>1, HostsKnown, OneBatch DEF ScriptsMade
<1>8. CASE o = "configure" /\ c = "zookeeper"
  <2> DEFINE n == Cardinality(HostsOf(c))
             one(i) == [hosts |-> {SetToSeq(HostsOf(c))[i]}, todo |-> << <<"write", c>> >>]
  <2>1. n \in Nat /\ \A i \in 1..n : SetToSeq(HostsOf(c))[i] \in Hosts
    BY HostsKnown, ListTyped
  <2>2. \A i \in 1..n : one(i) \in B
    BY <2>1 DEF ScriptsMade
  <2>3. Plan(o, c, f) = [i \in 1..n |-> one(i)]
    BY <1>8 DEF Plan
  <2> HIDE DEF B, n, one
  <2>4. Plan(o, c, f) \in [1..n -> B]
    BY <2>2, <2>3
  <2>5. QED
    BY <2>1, <2>4, FunctionIsSeq DEF Batches, B
<1>9. QED
  BY <1>3, <1>4, <1>5, <1>6, <1>7, <1>8, LifecycleAssumption DEF LifecycleAssumption
-----------------------------------------------------------------------------
(***************************************************************************)
(* A step leaves commands and scripts made of what they were made of.      *)
(***************************************************************************)
(* An operator whose hadoop-cli does not run has a command of any steps.   *)
LEMMA IdleMade ==
  ASSUME NEW G, NEW F, ScriptsMade(G, F)
  PROVE  Idle \in Commands(G, F)
<1>1. FALSE \in F
  BY DEF ScriptsMade
<1>2. <<>> \in Batches(G) /\ <<>> \in Seq(Declared)
  BY DEF Batches
<1>3. QED
  BY <1>1, <1>2 DEF Idle, Commands

(* One field of one operator's command is replaced.                        *)
LEMMA CommandWrite ==
  ASSUME NEW G, NEW F, MadeOf(G, F), NEW a \in Operators, NEW r \in Commands(G, F),
         cmd' = [cmd EXCEPT ![a] = r]
  PROVE  cmd' \in [Operators -> Commands(G, F)]
BY DEF MadeOf

(* common.go:122-145: an answer changes nothing but the component's OK.    *)
LEMMA ExitMade ==
  ASSUME NEW G, NEW F, MadeOf(G, F), NEW p \in procs, NEW ok, Exit(p, ok)
  PROVE  MadeOf(G, F)'
<1> DEFINE r == [cmd[p.by] EXCEPT !.compOK = @ /\ (p.waited => ok)]
<1>1. p.by \in Operators /\ p.waited \in BOOLEAN
  BY DEF MadeOf, Processes
<1>2. cmd[p.by] \in Commands(G, F)
  BY <1>1 DEF MadeOf
<1>3. r \in Commands(G, F)
  BY <1>1, <1>2 DEF Commands
<1>4. cmd' = [cmd EXCEPT ![p.by] = r]
  BY DEF Exit
<1> HIDE DEF r
<1>5. cmd' \in [Operators -> Commands(G, F)]
  BY <1>1, <1>3, <1>4, CommandWrite
<1>6. QED
  BY <1>5 DEF MadeOf, Exit

(* A script goes on to later steps of its own.                             *)
LEMMA GotoMade ==
  ASSUME NEW G, NEW F, MadeOf(G, F), NEW p \in procs, NEW rest \in Seq(G), Goto(p, rest)
  PROVE  MadeOf(G, F)'
<1>1. CASE rest = <<>>
  BY <1>1, ExitMade DEF Goto
<1>2. CASE rest # <<>>
  <2>1. p \in Processes(G)
    BY DEF MadeOf
  <2>2. rest \in Scripts(G)
    BY <1>2 DEF Scripts
  <2>3. [p EXCEPT !.todo = rest] \in Processes(G)
    BY <2>1, <2>2 DEF Processes
  <2>4. QED
    BY <1>2, <2>3 DEF Goto, MadeOf
<1>3. QED
  BY <1>1, <1>2

(* The steps left of a script are steps of the script.                     *)
LEMMA RestMade ==
  ASSUME NEW G, NEW F, MadeOf(G, F), NEW p \in procs
  PROVE  /\ p.todo \in Seq(G) /\ p.todo # <<>>
         /\ Head(p.todo) \in G
         /\ Tail(p.todo) \in Seq(G)
         /\ SubSeq(p.todo, 3, Len(p.todo)) \in Seq(G)
<1>1. p.todo \in Seq(G) /\ p.todo # <<>>
  BY DEF MadeOf, Processes, Scripts
<1>2. Len(p.todo) \in Nat /\ \A i \in 3..Len(p.todo) : p.todo[i] \in G
  BY <1>1
<1>3. SubSeq(p.todo, 3, Len(p.todo)) \in Seq(G)
  BY <1>2, SubSeqProperties
<1>4. QED
  BY <1>1, <1>3, HeadTailProperties

(* zookeeper.go, hdfs.go, hbase.go: no step adds anything to a script.     *)
LEMMA ScriptMade ==
  ASSUME NEW G, NEW F, MadeOf(G, F), NEW p \in procs, ScriptStep(p)
  PROVE  MadeOf(G, F)'
<1>2. Advance(p) => MadeOf(G, F)'
  BY RestMade, GotoMade DEF Advance
<1>3. Goto(p, SubSeq(p.todo, 3, Len(p.todo))) => MadeOf(G, F)'
  BY RestMade, GotoMade
<1>4. ASSUME NEW ok, Exit(p, ok) PROVE MadeOf(G, F)'
  BY <1>4, ExitMade
<1>5. ASSUME ZkStatus(p) \/ Format(p) \/ Mark(p) \/ Stop(p) \/ StopFails(p) \/ Unpack(p)
      PROVE  MadeOf(G, F)'
  BY <1>2, <1>3, <1>4, <1>5 DEF ZkStatus, Format, Mark, Stop, StopFails, Unpack
<1>6. ASSUME LaunchRunning(p) \/ LaunchStarts(p) \/ LaunchFails(p)
      PROVE  MadeOf(G, F)'
  <2>1. PICK ok : Exit(p, ok)
    BY <1>6 DEF LaunchRunning, LaunchStarts, LaunchFails
  <2>2. QED
    BY <1>4, <2>1
<1>7. ASSUME Mv(p)
      PROVE  MadeOf(G, F)'
  <2>1. PICK ok : Exit(p, ok)
    BY <1>7 DEF Mv
  <2>2. QED
    BY <1>4, <2>1
<1>8. ASSUME Write(p) \/ RmHome(p) \/ RmData(p)
      PROVE  MadeOf(G, F)'
  BY <1>2, <1>8 DEF Write, RmHome, RmData
<1>9. QED
  BY <1>5, <1>6, <1>7, <1>8 DEF ScriptStep

(* start.go and its like: the walk through components and batches.         *)
LEMMA ControlMade ==
  ASSUME NEW G, NEW F, ScriptsMade(G, F), MadeOf(G, F), NEW a \in Operators,
         NextComp(a) \/ NextBatch(a) \/ EndComp(a) \/ Finish(a) \/ PackageFails(a)
  PROVE  MadeOf(G, F)'
<1>1. cmd[a] \in Commands(G, F) /\ DOMAIN cmd = Operators
  BY DEF MadeOf
<1>2. Idle \in Commands(G, F)
  BY IdleMade
<1>3. ASSUME Between(a)
      PROVE  Head(cmd[a].comps) \in Declared /\ Tail(cmd[a].comps) \in Seq(Declared)
  BY <1>1, <1>3, HeadTailProperties DEF Between, Commands
<1>4. CASE NextComp(a)
  <2> DEFINE c == Head(cmd[a].comps)
             r == [cmd[a] EXCEPT !.cur = c, !.comps = Tail(@),
                                 !.batches = Plan(cmd[a].op, c, cmd[a].flag)]
  <2>1. Plan(cmd[a].op, c, cmd[a].flag) \in Batches(G)
    <3>1. c \in Components
      BY <1>3, <1>4, LifecycleAssumption DEF NextComp, LifecycleAssumption
    <3>2. cmd[a].op \in Ops /\ cmd[a].flag \in F
      BY <1>1, <1>4 DEF NextComp, Between, Commands
    <3>3. QED
      BY <3>1, <3>2, PlanMade
  <2>2. r \in Commands(G, F)
    BY <1>1, <1>3, <1>4, <2>1 DEF NextComp, Commands
  <2>3. cmd' = [cmd EXCEPT ![a] = r]
    BY <1>1, <1>4 DEF NextComp
  <2> HIDE DEF r
  <2>4. QED
    BY <1>4, <2>2, <2>3, CommandWrite DEF NextComp, MadeOf
<1>5. CASE PackageFails(a)
  <2> DEFINE r == [cmd[a] EXCEPT !.cur = Head(cmd[a].comps), !.comps = Tail(@),
                                 !.compOK = FALSE]
  <2>1. r \in Commands(G, F)
    BY <1>1, <1>3, <1>5 DEF PackageFails, Commands
  <2>2. cmd' = [cmd EXCEPT ![a] = r]
    BY <1>1, <1>5 DEF PackageFails
  <2> HIDE DEF r
  <2>3. QED
    BY <1>5, <2>1, <2>2, CommandWrite DEF PackageFails, MadeOf
<1>6. CASE NextBatch(a)
  <2> DEFINE r == [cmd[a] EXCEPT !.batches = Tail(@)]
  <2>1. cmd[a].batches \in Batches(G) /\ cmd[a].batches # <<>>
    BY <1>1, <1>6 DEF NextBatch, Commands
  <2>2. /\ Tail(cmd[a].batches) \in Batches(G)
        /\ Head(cmd[a].batches) \in [hosts : SUBSET Hosts, todo : Scripts(G)]
    BY <2>1, HeadTailProperties DEF Batches
  <2>3. r \in Commands(G, F)
    BY <1>1, <2>2 DEF Commands
  <2>4. cmd' = [cmd EXCEPT ![a] = r]
    BY <1>1, <1>6 DEF NextBatch
  <2>5. Launched(a) \subseteq Processes(G)
    <3> DEFINE b == Head(cmd[a].batches)
    <3>1. b.hosts \subseteq Hosts /\ b.todo \in Scripts(G)
      BY <2>2
    <3>2. Launched(a) = {[by |-> a, host |-> h, todo |-> b.todo, waited |-> TRUE] : h \in b.hosts}
      BY DEF Launched
    <3> HIDE DEF b
    <3>3. ASSUME NEW h \in b.hosts
          PROVE  [by |-> a, host |-> h, todo |-> b.todo, waited |-> TRUE]
                   \in Processes(G)
      BY <3>1 DEF Processes
    <3>4. QED
      BY <3>2, <3>3
  <2> HIDE DEF r
  <2>6. QED
    BY <1>6, <2>3, <2>4, <2>5, CommandWrite DEF NextBatch, MadeOf
<1>7. CASE EndComp(a)
  <2> DEFINE r == [cmd[a] EXCEPT
                     !.cur = "none", !.compOK = TRUE,
                     !.envOK = @ /\ cmd[a].compOK,
                     !.comps = IF cmd[a].op = "start" /\ ~cmd[a].compOK THEN <<>> ELSE @]
  <2>1. r \in Commands(G, F)
    <3>1. (IF cmd[a].op = "start" /\ ~cmd[a].compOK THEN <<>> ELSE cmd[a].comps)
            \in Seq(Declared)
      BY <1>1 DEF Commands
    <3>2. QED
      BY <1>1, <3>1 DEF Commands
  <2>2. cmd' = [cmd EXCEPT ![a] = r]
    BY <1>1, <1>7 DEF EndComp
  <2> HIDE DEF r
  <2>3. QED
    BY <1>7, <2>1, <2>2, CommandWrite DEF EndComp, MadeOf
<1>8. CASE Finish(a)
  BY <1>2, <1>8, CommandWrite DEF Finish, MadeOf
<1>9. QED
  BY <1>4, <1>5, <1>6, <1>7, <1>8

(* Nor does what goes wrong.                                               *)
LEMMA FailureMade ==
  ASSUME NEW G, NEW F, ScriptsMade(G, F), MadeOf(G, F), Failure
  PROVE  MadeOf(G, F)'
<1>1. ASSUME NEW p \in procs, ConnectFails(p) \/ Dies(p) PROVE MadeOf(G, F)'
  BY <1>1, ExitMade DEF ConnectFails, Dies
<1>2. ASSUME NEW p \in procs, Abandon(p) PROVE MadeOf(G, F)'
  <2> DEFINE r == [cmd[p.by] EXCEPT !.compOK = FALSE]
  <2>1. p \in Processes(G)
    BY DEF MadeOf
  <2>2. r \in Commands(G, F)
    <3>1. cmd[p.by] \in Commands(G, F)
      BY <2>1 DEF MadeOf, Processes
    <3>2. QED
      BY <3>1 DEF Commands
  <2>3. cmd' = [cmd EXCEPT ![p.by] = r]
    BY <1>2, <2>1 DEF Abandon, MadeOf, Processes
  <2>4. [p EXCEPT !.waited = FALSE] \in Processes(G)
    BY <2>1 DEF Processes
  <2> HIDE DEF r
  <2>5. QED
    BY <1>2, <2>1, <2>2, <2>3, <2>4, CommandWrite DEF Abandon, MadeOf, Processes
<1>3. ASSUME NEW a \in Operators, Interrupt(a) PROVE MadeOf(G, F)'
  <2>1. Idle \in Commands(G, F)
    BY IdleMade
  <2>2. ASSUME NEW p \in procs
        PROVE  [p EXCEPT !.waited = FALSE] \in Processes(G)
    <3>1. p \in Processes(G)
      BY DEF MadeOf
    <3>2. QED
      BY <3>1 DEF Processes
  <2>3. procs' \subseteq Processes(G)
    BY <1>3, <2>2 DEF Interrupt, MadeOf
  <2>4. QED
    BY <1>3, <2>1, <2>3, CommandWrite DEF Interrupt, MadeOf
<1>4. ASSUME NEW h \in Hosts, Crash(h) PROVE MadeOf(G, F)'
  <2>1. ASSUME NEW a \in Operators
        PROVE  [cmd[a] EXCEPT !.compOK = @ /\ \A p \in Waited(a) : p.host # h] \in Commands(G, F)
    BY DEF MadeOf, Commands
  <2>2. QED
    BY <1>4, <2>1 DEF Crash, MadeOf
<1>5. QED
  BY <1>1, <1>2, <1>3, <1>4, ControlMade DEF Failure

(* What commands and scripts are made of is what they can be made of.      *)
LEMMA InitMade ==
  ASSUME NEW G, NEW F, ScriptsMade(G, F), Init
  PROVE  MadeOf(G, F)
<1>1. Idle \in Commands(G, F)
  BY IdleMade
<1>2. QED
  BY <1>1 DEF Init, MadeOf

LEMMA StepMade ==
  ASSUME NEW G, NEW F, ScriptsMade(G, F), Destructive = {} \/ F = BOOLEAN,
         MadeOf(G, F), [Next]_vars
  PROVE  MadeOf(G, F)'
<1>1. CASE UNCHANGED vars
  BY <1>1 DEF vars, MadeOf
<1>2. ASSUME NEW a \in Operators, NEW o \in Ops, NEW only \in Filters, NEW f \in BOOLEAN,
             Invoke(a, o, only, f)
      PROVE  MadeOf(G, F)'
  <2> DEFINE r == [Idle EXCEPT !.op = o, !.flag = f, !.filter = only,
                               !.comps = ComponentsFor(o, only)]
  <2>1. f \in F
    BY <1>2 DEF Invoke, ScriptsMade
  <2>2. r \in Commands(G, F)
    <3>1. ComponentsFor(o, only) \in Seq(Declared)
      BY WalkTyped
    <3>2. Idle \in Commands(G, F)
      BY IdleMade
    <3>3. QED
      BY <2>1, <3>1, <3>2 DEF Commands
  <2>3. cmd' = [cmd EXCEPT ![a] = r]
    BY <1>2 DEF Invoke
  <2> HIDE DEF r
  <2>4. QED
    BY <1>2, <2>2, <2>3, CommandWrite DEF Invoke, MadeOf
<1>3. CASE Control
  BY <1>3, ControlMade DEF Control
<1>4. ASSUME NEW p \in procs, ScriptStep(p) PROVE MadeOf(G, F)'
  BY <1>4, ScriptMade
<1>5. CASE Cluster
  BY <1>5 DEF Cluster, QuorumForms, Register, MadeOf
<1>6. CASE Failure
  BY <1>6, FailureMade
<1>7. QED
  BY <1>1, <1>2, <1>3, <1>4, <1>5, <1>6 DEF Next

(* A harmless script does not come to a reformat or a removal of data.     *)
LEMMA HarmlessSteps ==
  ASSUME Harmless, NEW p \in procs
  PROVE  ~AtStep(p, "reformat") /\ ~AtStep(p, "rmdata")
<1>1. Head(p.todo) \in Gentle
  BY RestMade DEF Harmless
<1>2. QED
  BY <1>1 DEF AtStep, Gentle

LEMMA HarmlessStays ==
  ASSUME Destructive = {}
  PROVE  (Init => Harmless) /\ (Harmless /\ [Next]_vars => Harmless')
BY GentleMade, InitMade, StepMade DEF Harmless

LEMMA MadeStays == (Init => Made) /\ (Made /\ [Next]_vars => Made')
BY StepsMade, InitMade, StepMade DEF Made

-----------------------------------------------------------------------------
(***************************************************************************)
(* Types.                                                                  *)
(***************************************************************************)
DiskTyped == /\ home \in [Components -> [Hosts -> SUBSET Parts]]
             /\ cfg \in [Components -> [Hosts -> BOOLEAN]]
             /\ nnId \in Ids /\ marker \in BOOLEAN
             /\ dnId \in [Hosts -> Ids]
RunningTyped == /\ up \subseteq Daemons \X Hosts /\ missed \subseteq Daemons \X Hosts
                /\ serving \in BOOLEAN /\ nnRun \in Ids
FaultsTyped == faults \in 0..MaxFaults
Typed == DiskTyped /\ RunningTyped /\ FaultsTyped

(* One element makes a finite set larger by at most one.                   *)
LEMMA OneMore ==
  ASSUME NEW S, NEW x, IsFiniteSet(S)
  PROVE  /\ IsFiniteSet(S \union {x}) /\ Cardinality(S \union {x}) \in Nat
         /\ Cardinality(S \union {x}) <= Cardinality(S) + 1
<1>1. Cardinality(S) \in Nat
  BY FS_CardinalityType
<1>2. /\ IsFiniteSet(S \union {x})
      /\ Cardinality(S \union {x}) = Cardinality(S) \/ Cardinality(S \union {x}) = Cardinality(S) + 1
  BY FS_AddElement
<1>3. QED
  BY <1>1, <1>2

(* hdfs.go:102: a format finds an id that is on no host and in no process. *)
LEMMA FreshIdIsNew ==
  ASSUME DiskTyped, RunningTyped
  PROVE  FreshId \in ClusterIds /\ FreshId \notin UsedIds
<1> DEFINE onHosts == {dnId[h] : h \in Hosts}
           withRun == onHosts \union {nnRun}
<1>1. IsFiniteSet(Hosts) /\ Cardinality(Hosts) \in Nat
  BY LifecycleAssumption, FS_CardinalityType DEF LifecycleAssumption
<1>2. IsFiniteSet(onHosts) /\ Cardinality(onHosts) <= Cardinality(Hosts)
  <2>1. dnId \in Surjection(Hosts, onHosts)
    BY DEF DiskTyped, Surjection
  <2>2. QED
    BY <1>1, <2>1, FS_Surjection
<1>3. IsFiniteSet(UsedIds) /\ Cardinality(UsedIds) <= Cardinality(Hosts) + 2
  <2> HIDE DEF onHosts, withRun
  <2>1. Cardinality(onHosts) \in Nat
    BY <1>2, FS_CardinalityType
  <2>2. /\ IsFiniteSet(withRun) /\ Cardinality(withRun) \in Nat
        /\ Cardinality(withRun) <= Cardinality(onHosts) + 1
    BY <1>2, OneMore DEF withRun
  <2>3. /\ IsFiniteSet(withRun \union {nnId}) /\ Cardinality(withRun \union {nnId}) \in Nat
        /\ Cardinality(withRun \union {nnId}) <= Cardinality(withRun) + 1
    BY <2>2, OneMore
  <2>4. UsedIds = withRun \union {nnId}
    BY DEF UsedIds, onHosts, withRun
  <2>5. QED
    BY <1>1, <1>2, <2>1, <2>2, <2>3, <2>4
<1>4. \E id \in ClusterIds : id \notin UsedIds
  <2> SUFFICES ASSUME ClusterIds \subseteq UsedIds PROVE FALSE
    OBVIOUS
  <2>1. IsFiniteSet(ClusterIds) /\ Cardinality(ClusterIds) <= Cardinality(UsedIds)
    BY <1>3, FS_Subset
  <2>2. Cardinality(ClusterIds) \in Nat /\ Cardinality(UsedIds) \in Nat
    BY <1>3, <2>1, FS_CardinalityType
  <2>3. Cardinality(ClusterIds) > Cardinality(Hosts) + 2
    BY <2>1, LifecycleAssumption DEF LifecycleAssumption
  <2>4. QED
    BY <1>1, <1>3, <2>1, <2>2, <2>3
<1>5. QED
  BY <1>4 DEF FreshId

(* The step a script is at has an argument of its kind.                    *)
LEMMA ArgTyped ==
  ASSUME Made, NEW p \in procs
  PROVE  /\ p.host \in Hosts
         /\ \A e \in {"zkstatus", "format", "reformat", "mark", "launch", "stop"} :
              AtStep(p, e) => Arg(p) \in Daemons
         /\ \A e \in {"unpack", "mv", "write", "rmhome", "rmdata"} :
              AtStep(p, e) => Arg(p) \in Components
<1>1. Head(p.todo) \in Steps
  BY RestMade DEF Made
<1>2. p.host \in Hosts
  BY DEF Made, MadeOf, Processes
<1>3. QED
  BY <1>1, <1>2 DEF AtStep, Arg, Steps

(* One part of the homes, or of the configurations, is written.            *)
LEMMA HostWrite ==
  ASSUME NEW S, NEW f \in [Components -> [Hosts -> S]],
         NEW c \in Components, NEW h \in Hosts, NEW x \in S
  PROVE  [f EXCEPT ![c][h] = x] \in [Components -> [Hosts -> S]]
OBVIOUS

(* zookeeper.go, hdfs.go, hbase.go: the steps of the scripts.              *)
LEMMA ScriptTyped ==
  ASSUME Made, Typed, NEW p \in procs, ScriptStep(p)
  PROVE  Typed'
<1> USE DEF Typed
<1>1. CASE ZkStatus(p) \/ LaunchRunning(p) \/ Unpack(p)
  BY <1>1 DEF ZkStatus, LaunchRunning, Unpack, DiskTyped, RunningTyped, FaultsTyped, disk, running
<1>2. CASE Format(p)
  <2>1. nnId' \in Ids
    BY <1>2, FreshIdIsNew DEF Format, DiskTyped, Ids
  <2>2. faults' \in 0..MaxFaults
    BY <1>2, LifecycleAssumption DEF Format, Fault, FaultsTyped, LifecycleAssumption
  <2>3. UNCHANGED <<home, cfg, marker, dnId, up, missed, serving, nnRun>>
    BY <1>2 DEF Format, running
  <2>4. QED
    BY <2>1, <2>2, <2>3 DEF DiskTyped, RunningTyped, FaultsTyped
<1>3. CASE Mark(p)
  BY <1>3 DEF Mark, DiskTyped, RunningTyped, FaultsTyped, running
<1>4. CASE LaunchStarts(p)
  <2>1. Arg(p) \in Daemons /\ p.host \in Hosts
    BY <1>4, ArgTyped DEF LaunchStarts
  <2>2. /\ nnRun' \in Ids
        /\ up' \subseteq Daemons \X Hosts /\ missed' \subseteq Daemons \X Hosts
    BY <1>4, <2>1 DEF LaunchStarts, DiskTyped, RunningTyped
  <2>3. UNCHANGED <<home, cfg, marker, dnId, nnId, serving, faults>>
    BY <1>4 DEF LaunchStarts, disk
  <2>4. QED
    BY <2>2, <2>3 DEF DiskTyped, RunningTyped, FaultsTyped
<1>5. CASE LaunchFails(p)
  BY <1>5, LifecycleAssumption
  DEF LaunchFails, Fault, DiskTyped, RunningTyped, FaultsTyped, disk, running, LifecycleAssumption
<1>6. CASE Stop(p)
  <2>1. up' \subseteq up /\ serving' \in BOOLEAN
    BY <1>6 DEF Stop, Down, RunningTyped
  <2>2. QED
    BY <1>6, <2>1 DEF Stop, DiskTyped, RunningTyped, FaultsTyped, disk
<1>11. CASE StopFails(p)
  <2>1. missed' \subseteq Daemons \X Hosts
    BY <1>11 DEF StopFails, RunningTyped
  <2>2. faults' \in 0..MaxFaults
    BY <1>11, LifecycleAssumption DEF StopFails, Fault, FaultsTyped, LifecycleAssumption
  <2>3. QED
    BY <1>11, <2>1, <2>2 DEF StopFails, DiskTyped, RunningTyped, FaultsTyped, disk
<1>7. CASE Mv(p)
  <2>1. Arg(p) \in Components /\ p.host \in Hosts
    BY <1>7, ArgTyped DEF Mv
  <2>2. PICK X : X \subseteq Parts /\ home' = [home EXCEPT ![Arg(p)][p.host] = X]
    BY <1>7, <2>1 DEF Mv, DiskTyped
  <2>3. home' \in [Components -> [Hosts -> SUBSET Parts]]
    BY <2>1, <2>2, HostWrite DEF DiskTyped
  <2>4. QED
    BY <1>7, <2>3 DEF Mv, DiskTyped, RunningTyped, FaultsTyped, running
<1>8. CASE Write(p)
  <2>1. Arg(p) \in Components /\ p.host \in Hosts
    BY <1>8, ArgTyped DEF Write
  <2>2. cfg' \in [Components -> [Hosts -> BOOLEAN]]
    BY <1>8, <2>1, HostWrite DEF Write, DiskTyped
  <2>3. QED
    BY <1>8, <2>2 DEF Write, DiskTyped, RunningTyped, FaultsTyped, running
<1>9. CASE RmHome(p)
  <2>1. Arg(p) \in Components /\ p.host \in Hosts
    BY <1>9, ArgTyped DEF RmHome
  <2>2. /\ cfg' \in [Components -> [Hosts -> BOOLEAN]]
        /\ home' \in [Components -> [Hosts -> SUBSET Parts]]
    BY <1>9, <2>1, HostWrite DEF RmHome, DiskTyped
  <2>3. QED
    BY <1>9, <2>2 DEF RmHome, DiskTyped, RunningTyped, FaultsTyped, running
<1>10. CASE RmData(p)
  <2>1. dnId' \in [Hosts -> Ids] /\ nnId' \in Ids /\ marker' \in BOOLEAN
    BY <1>10 DEF RmData, DiskTyped, Ids
  <2>2. QED
    BY <1>10, <2>1 DEF RmData, DiskTyped, RunningTyped, FaultsTyped, running
<1>12. QED
  BY <1>1, <1>2, <1>3, <1>4, <1>5, <1>6, <1>7, <1>8, <1>9, <1>10, <1>11 DEF ScriptStep

(* What goes wrong, and what the daemons do by themselves.                 *)
LEMMA FailureTyped ==
  ASSUME Made, Typed, Failure \/ Cluster
  PROVE  Typed'
<1> USE DEF Typed
<1>1. ASSUME NEW k, Fault(k) PROVE FaultsTyped'
  BY <1>1, LifecycleAssumption DEF Fault, FaultsTyped, LifecycleAssumption
<1>2. ASSUME NEW p \in procs, ConnectFails(p) \/ Abandon(p) PROVE Typed'
  BY <1>1, <1>2 DEF ConnectFails, Abandon, DiskTyped, RunningTyped, disk, running
<1>3. ASSUME NEW p \in procs, Dies(p) PROVE Typed'
  <2>1. home' \in [Components -> [Hosts -> SUBSET Parts]]
    <3>1. CASE Head(p.todo)[1] = "mv"
      <4>1. Arg(p) \in Components /\ p.host \in Hosts
        BY <1>3, <3>1, ArgTyped DEF AtStep
      <4>2. PICK X : X \subseteq Parts /\ home' = [home EXCEPT ![Arg(p)][p.host] = X]
        <5>1. PICK moved : /\ moved \in {{}, {"bin"}, {"bin", "conf"}}
                           /\ home' = [home EXCEPT ![Arg(p)][p.host] = @ \union moved]
          BY <1>3, <3>1 DEF Dies
        <5>2. moved \subseteq Parts /\ home[Arg(p)][p.host] \subseteq Parts
          BY <4>1, <5>1 DEF DiskTyped, Parts
        <5>3. QED
          BY <5>1, <5>2
      <4>3. QED
        BY <4>1, <4>2, HostWrite DEF DiskTyped
    <3>2. CASE Head(p.todo)[1] # "mv"
      BY <1>3, <3>2 DEF Dies, DiskTyped
    <3>3. QED
      BY <3>1, <3>2
  <2>2. QED
    BY <1>1, <1>3, <2>1 DEF Dies, DiskTyped, RunningTyped, running
<1>4. ASSUME NEW a \in Operators, PackageFails(a) \/ Interrupt(a) PROVE Typed'
  BY <1>1, <1>4 DEF PackageFails, Interrupt, DiskTyped, RunningTyped, disk, running
<1>5. ASSUME NEW h \in Hosts, Crash(h) PROVE Typed'
  <2>1. up' \subseteq up /\ serving' \in BOOLEAN
    BY <1>5 DEF Crash, Down, RunningTyped
  <2>2. QED
    BY <1>1, <1>5, <2>1 DEF Crash, DiskTyped, RunningTyped, disk
<1>6. CASE QuorumForms
  BY <1>6 DEF QuorumForms, DiskTyped, RunningTyped, FaultsTyped, disk
<1>7. ASSUME NEW h \in Hosts, Register(h) PROVE Typed'
  <2>1. up' \subseteq up /\ serving' \in BOOLEAN /\ dnId' \in [Hosts -> Ids]
    BY <1>7 DEF Register, Down, DiskTyped, RunningTyped
  <2>2. QED
    BY <1>7, <2>1 DEF Register, DiskTyped, RunningTyped, FaultsTyped
<1>8. QED
  BY <1>2, <1>3, <1>4, <1>5, <1>6, <1>7 DEF Failure, Cluster

LEMMA StepTyped ==
  ASSUME Made, Typed, [Next]_vars
  PROVE  Typed'
<1>1. CASE UNCHANGED <<disk, running, faults>>
  BY <1>1 DEF disk, running, Typed, DiskTyped, RunningTyped, FaultsTyped
<1>2. CASE Control \/ UNCHANGED vars
           \/ \E a \in Operators, o \in Ops, only \in Filters, f \in BOOLEAN :
                Invoke(a, o, only, f)
  BY <1>1, <1>2 DEF Control, NextComp, NextBatch, EndComp, Finish, Invoke, vars
<1>3. QED
  BY <1>2, ScriptTyped, FailureTyped DEF Next

LEMMA InitTyped == Init => Typed
<1> SUFFICES ASSUME Init PROVE Typed
  OBVIOUS
<1>1. MaxFaults \in Nat /\ Preinstalled \in BOOLEAN
  BY LifecycleAssumption DEF LifecycleAssumption
<1>2. DiskTyped
  BY <1>1 DEF Init, DiskTyped, Ids
<1>3. up = {} /\ missed = {} /\ serving = FALSE /\ nnRun = NoId /\ faults = 0
  BY DEF Init
<1>4. RunningTyped
  BY <1>3 DEF RunningTyped, Ids
<1>5. FaultsTyped
  BY <1>1, <1>3 DEF FaultsTyped
<1>6. QED
  BY <1>2, <1>4, <1>5 DEF Typed

(* The commands' state and the cluster's have their types, for any number  *)
(* of operators, hosts and failures, the destructive flags included.       *)
THEOREM LifecycleTyped == Spec => []TypeOK
<1>1. Init => Made /\ Typed
  BY MadeStays, InitTyped
<1>2. Made /\ Typed /\ [Next]_vars => (Made /\ Typed)'
  BY MadeStays, StepTyped
<1>3. Made /\ Typed => TypeOK
  <2> SUFFICES ASSUME Made, Typed PROVE TypeOK
    OBVIOUS
  <2>1. ASSUME NEW a \in Operators
        PROVE  /\ cmd[a].op \in Ops \union {"none"}
               /\ cmd[a].flag \in BOOLEAN /\ cmd[a].filter \in Filters \union {"all"}
               /\ cmd[a].comps \in Seq(Declared) /\ cmd[a].cur \in Declared \union {"none"}
               /\ \A i \in DOMAIN cmd[a].batches : cmd[a].batches[i].hosts \subseteq Hosts
               /\ cmd[a].compOK \in BOOLEAN /\ cmd[a].envOK \in BOOLEAN
    <3>1. cmd[a] \in Commands(Steps, BOOLEAN)
      BY DEF Made, MadeOf
    <3>2. cmd[a].batches \in Seq([hosts : SUBSET Hosts, todo : Scripts(Steps)])
      BY <3>1 DEF Commands, Batches
    <3>3. ASSUME NEW i \in DOMAIN cmd[a].batches
          PROVE  cmd[a].batches[i].hosts \subseteq Hosts
      <4>1. cmd[a].batches[i] \in [hosts : SUBSET Hosts, todo : Scripts(Steps)]
        BY <3>2, ElementOfSeq, LenProperties
      <4>2. QED
        BY <4>1
    <3>4. QED
      BY <3>1, <3>3 DEF Commands
  <2>2. ASSUME NEW p \in procs
        PROVE  /\ p.by \in Operators /\ p.host \in Hosts /\ p.waited \in BOOLEAN
               /\ p.todo # <<>>
               /\ \A i \in DOMAIN p.todo : p.todo[i][1] \in Effects
    <3>1. p \in Processes(Steps)
      BY DEF Made, MadeOf
    <3>2. p.todo \in Seq(Steps) /\ p.todo # <<>>
      BY <3>1 DEF Processes, Scripts
    <3>3. ASSUME NEW i \in DOMAIN p.todo PROVE p.todo[i][1] \in Effects
      <4>1. p.todo[i] \in Steps
        BY <3>2
      <4>2. QED
        BY <4>1 DEF Steps, Effects
    <3>4. QED
      BY <3>1, <3>2, <3>3 DEF Processes
  <2>3. DOMAIN cmd = Operators
    BY DEF Made, MadeOf
  <2>4. QED
    BY <2>1, <2>2, <2>3 DEF Typed, DiskTyped, RunningTyped, FaultsTyped, TypeOK
<1>4. QED
  BY <1>1, <1>2, <1>3, PTL DEF Spec

-----------------------------------------------------------------------------
(***************************************************************************)
(* The data of HDFS.                                                       *)
(***************************************************************************)
(* The cluster's ids, of every host.                                      *)
IdsAgree == OneCluster /\ DOMAIN dnId = Hosts

(* One harmless step: the metadata stays, and so does the one cluster.     *)
LEMMA StepKeeps ==
  ASSUME Harmless, IdsAgree, [Next]_vars
  PROVE  (nnId # NoId => nnId' = nnId) /\ IdsAgree'
<1>1. CASE UNCHANGED <<nnId, dnId, nnRun>> /\ up' \subseteq up
  BY <1>1 DEF OneCluster, IdsAgree
<1>2. ASSUME NEW p \in procs, ScriptStep(p)
      PROVE  (nnId # NoId => nnId' = nnId) /\ IdsAgree'
  <2>1. ~AtStep(p, "reformat") /\ ~AtStep(p, "rmdata")
    BY HarmlessSteps
  <2>2. CASE Format(p)
    <3>1. UNCHANGED <<dnId, nnRun, up>> /\ (nnId # NoId => nnId' = nnId)
      BY <2>1, <2>2 DEF Format, Forced, running
    <3>2. nnId = NoId => \A h \in Hosts : dnId[h] = NoId /\ <<"namenode", h>> \notin up
      BY DEF OneCluster, IdsAgree
    <3>3. QED
      BY <3>1, <3>2 DEF OneCluster, IdsAgree
  <2>3. CASE LaunchStarts(p)
    <3>1. UNCHANGED <<nnId, dnId>>
      BY <2>3 DEF LaunchStarts, disk
    <3>2. CASE Arg(p) = "namenode"
      BY <2>3, <3>1, <3>2 DEF LaunchStarts, CanRun, OneCluster, IdsAgree
    <3>3. CASE Arg(p) # "namenode"
      BY <2>3, <3>1, <3>3 DEF LaunchStarts, OneCluster, IdsAgree
    <3>4. QED
      BY <3>2, <3>3
  <2>4. CASE ZkStatus(p) \/ Mark(p) \/ LaunchRunning(p) \/ LaunchFails(p) \/ Stop(p)
             \/ StopFails(p) \/ Unpack(p) \/ Mv(p) \/ Write(p) \/ RmHome(p)
    BY <1>1, <2>4 DEF ZkStatus, Mark, LaunchRunning, LaunchFails, Stop, StopFails, Down, Unpack,
                      Mv, Write, RmHome, disk, running
  <2>5. QED
    BY <1>2, <2>1, <2>2, <2>3, <2>4 DEF ScriptStep, RmData
<1>3. CASE Cluster
  <2>1. CASE QuorumForms
    BY <1>1, <2>1 DEF QuorumForms, disk
  <2>2. ASSUME NEW h \in Hosts, Register(h)
        PROVE  (nnId # NoId => nnId' = nnId) /\ IdsAgree'
    <3>1. nnRun = nnId /\ UNCHANGED <<nnId, nnRun>> /\ up' \subseteq up
      BY <2>2 DEF Register, Down, OneCluster, IdsAgree
    <3>2. dnId' = [dnId EXCEPT ![h] = nnRun] \/ dnId' = dnId
      BY <2>2 DEF Register
    <3>3. /\ DOMAIN dnId' = Hosts
          /\ \A g \in Hosts : dnId'[g] = dnId[g] \/ dnId'[g] = nnId
      BY <3>1, <3>2 DEF IdsAgree
    <3>4. QED
      BY <3>1, <3>3 DEF OneCluster, IdsAgree
  <2>3. QED
    BY <1>3, <2>1, <2>2 DEF Cluster
<1>4. CASE Failure
  BY <1>1, <1>4 DEF Failure, ConnectFails, Abandon, Dies, PackageFails, Interrupt, Crash,
                    Down, disk, running
<1>5. CASE Control \/ UNCHANGED vars
           \/ \E a \in Operators, o \in Ops, only \in Filters, f \in BOOLEAN :
                Invoke(a, o, only, f)
  BY <1>1, <1>5 DEF Control, NextComp, NextBatch, EndComp, Finish, Invoke, vars, disk, running
<1>6. QED
  BY <1>2, <1>3, <1>4, <1>5 DEF Next

(* hdfs.go:99-107: however many operators work at once and whatever fails, *)
(* a formatted NameNode keeps its metadata as long as nobody gives         *)
(* --force-format or --purge-data.                                         *)
THEOREM MetadataSurvives ==
  ASSUME Destructive = {}
  PROVE  Spec => MetadataKept
<1>1. Init => Harmless /\ IdsAgree
  BY HarmlessStays DEF Init, OneCluster, IdsAgree
<1>2. Harmless /\ IdsAgree /\ [Next]_vars => (Harmless /\ IdsAgree)'
  BY HarmlessStays, StepKeeps
<1>3. Harmless /\ IdsAgree /\ [Next]_vars => [nnId # NoId => nnId' = nnId]_vars
  BY StepKeeps
<1>4. QED
  BY <1>1, <1>2, <1>3, PTL DEF Spec, MetadataKept

(* hdfs.go:91-131: and the DataNodes are of the NameNode's cluster, which  *)
(* is the one it serves.                                                   *)
THEOREM ClusterStaysOne ==
  ASSUME Destructive = {}
  PROVE  Spec => []OneCluster
<1>1. Init => Harmless /\ IdsAgree
  BY HarmlessStays DEF Init, OneCluster, IdsAgree
<1>2. Harmless /\ IdsAgree /\ [Next]_vars => (Harmless /\ IdsAgree)'
  BY HarmlessStays, StepKeeps
<1>3. IdsAgree => OneCluster
  BY DEF IdsAgree
<1>4. QED
  BY <1>1, <1>2, <1>3, PTL DEF Spec
=============================================================================
