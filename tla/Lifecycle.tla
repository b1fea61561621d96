----------------------------- MODULE Lifecycle ------------------------------
(***************************************************************************)
(* The commands that change a cluster - install, configure, start, stop,   *)
(* uninstall - and what their shell scripts do to the hosts.  Operators    *)
(* give them, each one command at a time; nothing keeps two operators from *)
(* working on one cluster at once.                                         *)
(*                                                                         *)
(* A command walks the components in dependency order (or the reverse);    *)
(* a component runs one batch of scripts per role, every host of a batch   *)
(* at once, and waits for all answers (Runner.Run).  A script is a list of *)
(* steps on its host.  A task that times out, or whose connection or whose *)
(* command is lost, is answered as failed while its script goes on.        *)
(*                                                                         *)
(* Hadoop, ZooKeeper and HBase themselves are not part of the repository:  *)
(* what their scripts and daemons do is modelled from how the code uses    *)
(* them.                                                                   *)
(***************************************************************************)
EXTENDS Integers, FiniteSets, Sequences, SequencesExt

CONSTANTS Operators,
          Hosts,
          Declared,    \* cluster.components
          RoleHosts,   \* per daemon, the hosts of its role
          Ops,         \* the commands given
          Filters,     \* values of --component: "all" or a component
          Destructive, \* commands given with --force-format, --purge-data, too
          Preinstalled,\* the hosts start with everything installed and configured
          FaultKinds,  \* what may go wrong
          MaxFaults,   \* bound: how often
          ClusterIds   \* bound: the ids a format draws from

Daemons == {"quorumpeer", "namenode", "datanode", "hmaster", "regionserver"}
Components == {"zookeeper", "hdfs", "hbase"}
Parts == {"bin", "conf", "lib"}
NoId == 0

ASSUME LifecycleAssumption ==
  /\ IsFiniteSet(Hosts)
  /\ Ops \subseteq {"install", "configure", "start", "stop", "uninstall"}
  /\ Declared \subseteq Components
  /\ Filters \subseteq Declared \union {"all"}
  /\ RoleHosts \in [Daemons -> SUBSET Hosts]
  /\ Destructive \subseteq {"start", "uninstall"}
  /\ Preinstalled \in BOOLEAN
  /\ MaxFaults \in Nat
  /\ NoId \notin ClusterIds
  \* validate.go:63: HDFS has one NameNode.
  /\ "hdfs" \in Declared => \E n \in Hosts : RoleHosts["namenode"] = {n}
  \* A format draws an id that nobody has.
  /\ IsFiniteSet(ClusterIds) => Cardinality(ClusterIds) > Cardinality(Hosts) + 2

VARIABLES cmd,      \* per operator, the command running (see Idle)
          procs,    \* scripts on the hosts: [by, host, todo, waited]
          home,     \* per component and host: the parts moved into its home
          cfg,      \* per component and host: its configuration is written
          up,       \* the daemons running: <<daemon, host>>
          missed,   \* history: those whose stop has failed since they were launched
          serving,  \* the ZooKeeper servers running have a quorum
          nnId,     \* cluster id in the NameNode's directory, or NoId
          nnRun,    \* cluster id the running NameNode has loaded
          marker,   \* the file .formatted is there
          dnId,     \* per host: cluster id in the DataNode's directory
          faults    \* what has gone wrong so far

disk    == <<home, cfg, nnId, marker, dnId>>
running == <<up, missed, serving, nnRun>>
vars    == <<cmd, procs, disk, running, faults>>

\* An operator whose hadoop-cli does not run.
Idle == [op      |-> "none",   \* the command
         flag    |-> FALSE,    \* its destructive flag
         filter  |-> "all",    \* its --component
         comps   |-> <<>>,     \* components it has still to begin
         cur     |-> "none",   \* the component it is at
         batches |-> <<>>,     \* batches of cur it has still to run
         compOK  |-> TRUE,     \* every answer of cur so far was OK
         envOK   |-> TRUE]     \* the envelope's OK

-----------------------------------------------------------------------------
(***************************************************************************)
(* What the commands run.                                                  *)
(***************************************************************************)
CompOf == [quorumpeer |-> "zookeeper", namenode |-> "hdfs", datanode |-> "hdfs",
           hmaster |-> "hbase", regionserver |-> "hbase"]

DaemonsOf(c) == {d \in Daemons : CompOf[d] = c}
HostsOf(c) == UNION {RoleHosts[d] : d \in DaemonsOf(c)}

Ordered == <<"zookeeper", "hdfs", "hbase">>
\* Mutant of ReverseOrdered: stop walks the components in start's order.
SameOrder == Ordered

ReverseOrdered == Reverse(Ordered)

\* The roles of a component in the order Start runs them; Stop reverses it.
RoleOrder(c) == CASE c = "zookeeper" -> <<"quorumpeer">>
                  [] c = "hdfs"      -> <<"namenode", "datanode">>
                  [] c = "hbase"     -> <<"hmaster", "regionserver">>

\* Mutant of StartScript: every start formats, asked to or not.
StartScriptForces(d, f) ==
  CASE d = "quorumpeer" -> << <<"zkstatus", d>>, <<"launch", d>> >>
    [] d = "namenode"   -> << <<"reformat", d>>, <<"mark", d>>, <<"launch", d>> >>
    [] OTHER            -> << <<"launch", d>> >>

\* The script that starts a daemon; the NameNode's formats first.
StartScript(d, f) ==
  CASE d = "quorumpeer" -> << <<"zkstatus", d>>, <<"launch", d>> >>
    [] d = "namenode"   -> << <<IF f THEN "reformat" ELSE "format", d>>,
                              <<"mark", d>>, <<"launch", d>> >>
    [] OTHER            -> << <<"launch", d>> >>

\* Mutant of UninstallScript: the home is removed before its stop scripts run.
UninstallHomeFirst(c, f) ==
  << <<"rmhome", c>> >>
    \o [i \in DOMAIN RoleOrder(c) |-> <<"stop", Reverse(RoleOrder(c))[i]>>]
    \o (IF f THEN << <<"rmdata", c>> >> ELSE <<>>)

StopSteps(c) == [i \in DOMAIN RoleOrder(c) |-> <<"stop", Reverse(RoleOrder(c))[i]>>]

InstallScript(c) == << <<"unpack", c>>, <<"mv", c>> >>

UninstallScript(c, f) ==
  StopSteps(c) \o << <<"rmhome", c>> >> \o (IF f THEN << <<"rmdata", c>> >> ELSE <<>>)

\* The batches of command o on component c: hosts and the script they run.
Plan(o, c, f) ==
  CASE o = "start" ->
         [i \in DOMAIN RoleOrder(c) |->
            [hosts |-> RoleHosts[RoleOrder(c)[i]],
             todo  |-> StartScript(RoleOrder(c)[i], f)]]
    [] o = "stop" ->
         [i \in DOMAIN RoleOrder(c) |->
            [hosts |-> RoleHosts[Reverse(RoleOrder(c))[i]],
             todo  |-> << StopSteps(c)[i] >>]]
    [] o = "install"   -> << [hosts |-> HostsOf(c), todo |-> InstallScript(c)] >>
    [] o = "uninstall" -> << [hosts |-> HostsOf(c), todo |-> UninstallScript(c, f)] >>
    [] o = "configure" ->
         IF c = "zookeeper"  \* one host at a time: each has its own myid
         THEN [i \in 1..Cardinality(HostsOf(c)) |->
                 [hosts |-> {SetToSeq(HostsOf(c))[i]}, todo |-> << <<"write", c>> >>]]
         ELSE << [hosts |-> HostsOf(c), todo |-> << <<"write", c>> >>] >>

\* All components in a command's order.
Walk(o) == IF o \in {"stop", "uninstall"} THEN ReverseOrdered ELSE Ordered

\* Mutant of ComponentsFor: components the inventory does not declare.
ComponentsUndeclared(o, only) == SelectSeq(Walk(o), LAMBDA c : only \in {"all", c})

\* componentsForInv: the declared components, filtered, in the command's order.
ComponentsFor(o, only) ==
  LET Kept(c) == IF c \in Declared /\ only \in {"all", c} THEN <<c>> ELSE <<>>
  IN  Kept(Walk(o)[1]) \o Kept(Walk(o)[2]) \o Kept(Walk(o)[3])

-----------------------------------------------------------------------------
Runnable(c, h) == {"bin", "lib"} \subseteq home[c][h] /\ cfg[c][h]

\* A daemon that is started keeps running.
CanRun(d, h) == /\ Runnable(CompOf[d], h)
                /\ d = "namenode" => nnId # NoId

ZKUp(u) == {h \in RoleHosts["quorumpeer"] : <<"quorumpeer", h>> \in u}
Quorum(u) == 2 * Cardinality(ZKUp(u)) > Cardinality(RoleHosts["quorumpeer"])

\* Daemons leave: a quorum can be lost with them, never gained.
Down(u) == /\ up' = up \ u
           /\ serving' = (serving /\ Quorum(up \ u))

UsedIds == {nnId, nnRun} \union {dnId[h] : h \in Hosts}
FreshId == CHOOSE id \in ClusterIds : id \notin UsedIds

Fault(kind) == /\ kind \in FaultKinds
               /\ faults < MaxFaults
               /\ faults' = faults + 1

Init ==
  /\ cmd = [a \in Operators |-> Idle]
  /\ procs = {}
  /\ home = [c \in Components |-> [h \in Hosts |-> IF Preinstalled THEN Parts ELSE {}]]
  /\ cfg = [c \in Components |-> [h \in Hosts |-> Preinstalled]]
  /\ up = {} /\ missed = {} /\ serving = FALSE
  /\ nnId = NoId /\ nnRun = NoId /\ marker = FALSE
  /\ dnId = [h \in Hosts |-> NoId]
  /\ faults = 0

-----------------------------------------------------------------------------
(***************************************************************************)
(* The command.                                                            *)
(***************************************************************************)
Waited(a) == {p \in procs : p.by = a /\ p.waited}

\* The scripts of a's next batch.
Launched(a) == {[by |-> a, host |-> h, todo |-> Head(cmd[a].batches).todo, waited |-> TRUE] :
                  h \in Head(cmd[a].batches).hosts}

Invoke(a, o, only, f) ==
  /\ cmd[a].op = "none"
  /\ f => o \in Destructive
  /\ cmd' = [cmd EXCEPT ![a] = [Idle EXCEPT !.op = o, !.flag = f, !.filter = only,
                                            !.comps = ComponentsFor(o, only)]]
  /\ UNCHANGED <<procs, disk, running, faults>>

\* Between two components of its command.
Between(a) == cmd[a].op # "none" /\ cmd[a].cur = "none" /\ cmd[a].comps # <<>>

\* Mutant of NextComp: the walk does not move on.
NextCompAgain(a) ==
  /\ Between(a)
  /\ LET c == Head(cmd[a].comps)
     IN  cmd' = [cmd EXCEPT ![a].cur = c, ![a].batches = Plan(cmd[a].op, c, cmd[a].flag)]
  /\ UNCHANGED <<procs, disk, running, faults>>

NextComp(a) ==
  /\ Between(a)
  /\ LET c == Head(cmd[a].comps)
     IN  cmd' = [cmd EXCEPT ![a].cur = c, ![a].comps = Tail(@),
                            ![a].batches = Plan(cmd[a].op, c, cmd[a].flag)]
  /\ UNCHANGED <<procs, disk, running, faults>>

\* The component's package is not to be had: every host is answered as failed
\* (failAll) and nothing runs.
PackageFails(a) ==
  /\ Between(a)
  /\ cmd[a].op = "install"
  /\ Fault("package")
  /\ cmd' = [cmd EXCEPT ![a].cur = Head(cmd[a].comps), ![a].comps = Tail(@),
                        ![a].compOK = FALSE]
  /\ UNCHANGED <<procs, disk, running>>

\* At a component, with every answer of the batch before.
Collected(a) == cmd[a].cur # "none" /\ Waited(a) = {}

\* Mutant of NextBatch: the results of a role replace those of the one before.
NextBatchForgets(a) ==
  /\ Collected(a)
  /\ cmd[a].batches # <<>>
  /\ procs' = procs \union Launched(a)
  /\ cmd' = [cmd EXCEPT ![a].batches = Tail(@), ![a].compOK = TRUE]
  /\ UNCHANGED <<disk, running, faults>>

\* Runner.Run over the hosts of the next role, whatever the last one gave.
NextBatch(a) ==
  /\ Collected(a)
  /\ cmd[a].batches # <<>>
  /\ procs' = procs \union Launched(a)
  /\ cmd' = [cmd EXCEPT ![a].batches = Tail(@)]
  /\ UNCHANGED <<disk, running, faults>>

\* Mutants of EndComp: start does not break; the last component decides.
EndCompGoesOn(a) ==
  /\ Collected(a)
  /\ cmd[a].batches = <<>>
  /\ cmd' = [cmd EXCEPT ![a].cur = "none", ![a].compOK = TRUE,
                        ![a].envOK = @ /\ cmd[a].compOK]
  /\ UNCHANGED <<procs, disk, running, faults>>

EndCompLastWins(a) ==
  /\ Collected(a)
  /\ cmd[a].batches = <<>>
  /\ cmd' = [cmd EXCEPT
       ![a].cur = "none", ![a].compOK = TRUE,
       ![a].envOK = cmd[a].compOK,
       ![a].comps = IF cmd[a].op = "start" /\ ~cmd[a].compOK THEN <<>> ELSE @]
  /\ UNCHANGED <<procs, disk, running, faults>>

\* The component's results are aggregated; start alone breaks at a failure.
EndComp(a) ==
  /\ Collected(a)
  /\ cmd[a].batches = <<>>
  /\ cmd' = [cmd EXCEPT
       ![a].cur = "none", ![a].compOK = TRUE,
       ![a].envOK = @ /\ cmd[a].compOK,
       ![a].comps = IF cmd[a].op = "start" /\ ~cmd[a].compOK THEN <<>> ELSE @]
  /\ UNCHANGED <<procs, disk, running, faults>>

Answering(a) == cmd[a].op # "none" /\ cmd[a].cur = "none" /\ cmd[a].comps = <<>>

\* The envelope is written and the process ends.
Finish(a) ==
  /\ Answering(a)
  /\ cmd' = [cmd EXCEPT ![a] = Idle]
  /\ UNCHANGED <<procs, disk, running, faults>>

-----------------------------------------------------------------------------
(***************************************************************************)
(* The steps of the scripts.  Exit ends a script with a status, which      *)
(* counts when somebody waits for it; Advance goes on to the next step.    *)
(***************************************************************************)
AtStep(p, act) == p \in procs /\ Head(p.todo)[1] = act
Arg(p) == Head(p.todo)[2]

Exit(p, ok) == /\ procs' = procs \ {p}
               /\ cmd' = [cmd EXCEPT ![p.by].compOK = @ /\ (p.waited => ok)]

Goto(p, rest) ==
  IF rest = <<>> THEN Exit(p, TRUE)
  ELSE /\ procs' = (procs \ {p}) \union {[p EXCEPT !.todo = rest]}
       /\ UNCHANGED cmd

Advance(p) == Goto(p, Tail(p.todo))

\* zkServer.sh status: only a server with a quorum answers.
ZkStatus(p) ==
  /\ AtStep(p, "zkstatus")
  /\ IF /\ serving /\ <<"quorumpeer", p.host>> \in up
        /\ "bin" \in home["zookeeper"][p.host]
     THEN Exit(p, TRUE) ELSE Advance(p)
  /\ UNCHANGED <<disk, running, faults>>

\* The namenode script's format block: <<"reformat", d>> with --force-format.
Formatting(p) == AtStep(p, "format") \/ AtStep(p, "reformat")
Forced(p) == AtStep(p, "reformat")

\* Mutant of Format: without -nonInteractive a format replaces what is there.
FormatAnyway(p) ==
  /\ Formatting(p)
  /\ IF marker /\ ~Forced(p)
     THEN Goto(p, SubSeq(p.todo, 3, Len(p.todo))) /\ UNCHANGED nnId
     ELSE Advance(p) /\ nnId' = IF Runnable("hdfs", p.host) THEN FreshId ELSE nnId
  /\ UNCHANGED <<home, cfg, marker, dnId, running, faults>>

\* No .formatted or --force-format: format, if the directory is empty or by
\* force, the NameNode running or not.  A failed format is not a failed
\* script ("|| true").
Format(p) ==
  /\ Formatting(p)
  /\ IF marker /\ ~Forced(p)
     THEN /\ Goto(p, SubSeq(p.todo, 3, Len(p.todo)))
          /\ UNCHANGED <<nnId, faults>>
     ELSE /\ Advance(p)
          /\ \/ /\ nnId' = IF Runnable("hdfs", p.host) /\ (nnId = NoId \/ Forced(p))
                           THEN FreshId ELSE nnId
                /\ UNCHANGED faults
             \/ Fault("format") /\ UNCHANGED nnId
  /\ UNCHANGED <<home, cfg, marker, dnId, running>>

Mark(p) ==
  /\ AtStep(p, "mark")
  /\ marker' = TRUE
  /\ Advance(p)
  /\ UNCHANGED <<home, cfg, nnId, dnId, running, faults>>

\* Mutant of LaunchRunning: no test whether the daemon runs.
LaunchTwice(p) ==
  /\ AtStep(p, "launch")
  /\ <<Arg(p), p.host>> \in up
  /\ Exit(p, FALSE)
  /\ UNCHANGED <<disk, running, faults>>

\* Start the daemon unless jps shows it.  zkServer.sh start has no such test
\* in front and fails when the server runs.
LaunchRunning(p) ==
  /\ AtStep(p, "launch")
  /\ <<Arg(p), p.host>> \in up
  /\ Exit(p, Arg(p) # "quorumpeer")
  /\ UNCHANGED <<disk, running, faults>>

LaunchStarts(p) ==
  /\ AtStep(p, "launch")
  /\ <<Arg(p), p.host>> \notin up
  /\ CanRun(Arg(p), p.host)
  /\ up' = up \union {<<Arg(p), p.host>>}
  /\ missed' = missed \ {<<Arg(p), p.host>>}
  /\ nnRun' = IF Arg(p) = "namenode" THEN nnId ELSE nnRun
  /\ Exit(p, TRUE)
  /\ UNCHANGED <<disk, serving, faults>>

\* The start script is missing, or the daemon it starts does not last: the
\* script may have reported success by then.
LaunchFails(p) ==
  /\ AtStep(p, "launch")
  /\ <<Arg(p), p.host>> \notin up
  /\ IF CanRun(Arg(p), p.host) THEN Fault("daemon") ELSE UNCHANGED faults
  /\ \E ok \in BOOLEAN :
       /\ ok => "bin" \in home[CompOf[Arg(p)]][p.host]
       /\ Exit(p, ok)
  /\ UNCHANGED <<disk, running>>

\* Stop the daemon, "|| true": without the home's scripts nothing happens.
Stop(p) ==
  /\ AtStep(p, "stop")
  /\ Advance(p)
  /\ IF "bin" \in home[CompOf[Arg(p)]][p.host]
     THEN Down({<<Arg(p), p.host>>})
     ELSE UNCHANGED <<up, serving>>
  /\ UNCHANGED <<disk, missed, nnRun, faults>>

\* The stop command fails with its daemon running (no pid file, a process that
\* does not end): "|| true" hides it, and the script goes on.
StopFails(p) ==
  /\ AtStep(p, "stop")
  /\ <<Arg(p), p.host>> \in up
  /\ "bin" \in home[CompOf[Arg(p)]][p.host]
  /\ Fault("stop")
  /\ missed' = missed \union {<<Arg(p), p.host>>}
  /\ Advance(p)
  /\ UNCHANGED <<disk, up, serving, nnRun>>

\* Install leaves a home alone that has its main executable.
Unpack(p) ==
  /\ AtStep(p, "unpack")
  /\ IF "bin" \in home[Arg(p)][p.host] THEN Exit(p, TRUE) ELSE Advance(p)
  /\ UNCHANGED <<disk, running, faults>>

\* mv extracted/* home/ cannot replace a directory in use, be it the
\* configuration's or another install's.
Mv(p) ==
  /\ AtStep(p, "mv")
  /\ LET kept == home[Arg(p)][p.host] \union
                   (IF cfg[Arg(p)][p.host] THEN {"conf"} ELSE {})
     IN  /\ home' = [home EXCEPT ![Arg(p)][p.host] = @ \union (Parts \ kept)]
         /\ Exit(p, kept = {})
  /\ UNCHANGED <<cfg, nnId, marker, dnId, running, faults>>

\* The configuration files are sent and their directory is there.
Write(p) ==
  /\ AtStep(p, "write")
  /\ cfg' = [cfg EXCEPT ![Arg(p)][p.host] = TRUE]
  /\ Advance(p)
  /\ UNCHANGED <<home, nnId, marker, dnId, running, faults>>

RmHome(p) ==
  /\ AtStep(p, "rmhome")
  /\ home' = [home EXCEPT ![Arg(p)][p.host] = {}]
  /\ cfg' = [cfg EXCEPT ![Arg(p)][p.host] = FALSE]
  /\ Advance(p)
  /\ UNCHANGED <<nnId, marker, dnId, running, faults>>

\* Mutant of RmData: the DataNode's directory is forgotten.
RmDataNameNodeOnly(p) ==
  /\ AtStep(p, "rmdata")
  /\ Advance(p)
  /\ IF Arg(p) = "hdfs" /\ p.host \in RoleHosts["namenode"]
     THEN nnId' = NoId /\ marker' = FALSE
     ELSE UNCHANGED <<nnId, marker>>
  /\ UNCHANGED <<home, cfg, dnId, running, faults>>

\* --purge-data: HDFS loses the directories of both of its daemons.
RmData(p) ==
  /\ AtStep(p, "rmdata")
  /\ Advance(p)
  /\ IF Arg(p) = "hdfs"
     THEN /\ dnId' = [dnId EXCEPT ![p.host] = NoId]
          /\ IF p.host \in RoleHosts["namenode"]
             THEN nnId' = NoId /\ marker' = FALSE
             ELSE UNCHANGED <<nnId, marker>>
     ELSE UNCHANGED <<nnId, marker, dnId>>
  /\ UNCHANGED <<home, cfg, running, faults>>

ScriptStep(p) ==
  \/ ZkStatus(p) \/ Format(p) \/ Mark(p)
  \/ LaunchRunning(p) \/ LaunchStarts(p) \/ LaunchFails(p)
  \/ Stop(p) \/ StopFails(p)
  \/ Unpack(p) \/ Mv(p) \/ Write(p) \/ RmHome(p) \/ RmData(p)

-----------------------------------------------------------------------------
(***************************************************************************)
(* What goes wrong, and what the daemons do by themselves.                 *)
(***************************************************************************)
\* The host is not reached: its script never starts.
ConnectFails(p) ==
  /\ Fault("connect")
  /\ p \in procs /\ p.waited
  /\ Exit(p, FALSE)
  /\ UNCHANGED <<disk, running>>

\* The deadline passes or the connection is lost: the script goes on.
Abandon(p) ==
  /\ Fault("abandon")
  /\ p \in procs /\ p.waited
  /\ procs' = (procs \ {p}) \union {[p EXCEPT !.waited = FALSE]}
  /\ cmd' = [cmd EXCEPT ![p.by].compOK = FALSE]
  /\ UNCHANGED <<disk, running>>

\* The script ends in the middle of a step (no space, killed): mv has moved
\* the first parts only.
Dies(p) ==
  /\ Fault("die")
  /\ p \in procs
  /\ Exit(p, FALSE)
  /\ IF Head(p.todo)[1] = "mv"
     THEN \E moved \in {{}, {"bin"}, {"bin", "conf"}} :
            home' = [home EXCEPT ![Arg(p)][p.host] = @ \union moved]
     ELSE UNCHANGED home
  /\ UNCHANGED <<cfg, nnId, marker, dnId, running>>

\* The operator interrupts hadoop-cli: its scripts go on.
Interrupt(a) ==
  /\ Fault("interrupt")
  /\ cmd[a].op # "none"
  /\ cmd' = [cmd EXCEPT ![a] = Idle]
  /\ procs' = {IF p.by = a THEN [p EXCEPT !.waited = FALSE] ELSE p : p \in procs}
  /\ UNCHANGED <<disk, running>>

\* A host reboots: its daemons and scripts are gone.
Crash(h) ==
  /\ Fault("crash")
  /\ Down({<<d, h>> : d \in Daemons})
  /\ procs' = {p \in procs : p.host # h}
  /\ cmd' = [a \in Operators |->
               [cmd[a] EXCEPT !.compOK = @ /\ \A p \in Waited(a) : p.host # h]]
  /\ UNCHANGED <<disk, missed, nnRun>>

\* The ZooKeeper servers that run elect a leader.
QuorumForms ==
  /\ ~serving
  /\ Quorum(up)
  /\ serving' = TRUE
  /\ UNCHANGED <<cmd, procs, disk, up, missed, nnRun, faults>>

\* A DataNode joins the cluster of the running NameNode, or ends when its
\* directory belongs to another.
Register(h) ==
  /\ <<"datanode", h>> \in up
  /\ \E n \in Hosts : <<"namenode", n>> \in up
  /\ dnId[h] # nnRun
  /\ IF dnId[h] = NoId
     THEN dnId' = [dnId EXCEPT ![h] = nnRun] /\ UNCHANGED <<up, serving>>
     ELSE Down({<<"datanode", h>>}) /\ UNCHANGED dnId
  /\ UNCHANGED <<cmd, procs, home, cfg, nnId, marker, missed, nnRun, faults>>

Cluster == QuorumForms \/ \E h \in Hosts : Register(h)

Failure == \/ \E p \in procs : ConnectFails(p) \/ Abandon(p) \/ Dies(p)
           \/ \E a \in Operators : PackageFails(a) \/ Interrupt(a)
           \/ \E h \in Hosts : Crash(h)

Control == \E a \in Operators : NextComp(a) \/ NextBatch(a) \/ EndComp(a) \/ Finish(a)

Next == \/ \E a \in Operators, o \in Ops, only \in Filters, f \in BOOLEAN : Invoke(a, o, only, f)
        \/ Control
        \/ \E p \in procs : ScriptStep(p)
        \/ Cluster
        \/ Failure

Spec == Init /\ [][Next]_vars

-----------------------------------------------------------------------------
(***************************************************************************)
(* Fairness: a command goes on, a script that was started is not held up,  *)
(* and a cluster's own steps happen.  Nothing has to go wrong.             *)
(***************************************************************************)
Progress == /\ WF_vars(Control)
            /\ WF_vars(\E p \in procs : ScriptStep(p))
            /\ WF_vars(Cluster)

\* An operator who gives the command o over and over.
Rerun(o) == WF_vars(\E a \in Operators : Invoke(a, o, "all", FALSE))

FairSpec == Spec /\ Progress
RerunStartSpec == FairSpec /\ Rerun("start")

-----------------------------------------------------------------------------
Effects == {"zkstatus", "format", "reformat", "mark", "launch", "stop", "unpack", "mv",
            "write", "rmhome", "rmdata"}
Ids == ClusterIds \union {NoId}

\* Types of the command's state and of the cluster's.
TypeOK ==
  /\ DOMAIN cmd = Operators
  /\ \A a \in Operators :
       /\ cmd[a].op \in Ops \union {"none"}
       /\ cmd[a].flag \in BOOLEAN /\ cmd[a].filter \in Filters \union {"all"}
       /\ cmd[a].comps \in Seq(Declared) /\ cmd[a].cur \in Declared \union {"none"}
       /\ \A i \in DOMAIN cmd[a].batches : cmd[a].batches[i].hosts \subseteq Hosts
       /\ cmd[a].compOK \in BOOLEAN /\ cmd[a].envOK \in BOOLEAN
  /\ \A p \in procs : /\ p.by \in Operators /\ p.host \in Hosts /\ p.waited \in BOOLEAN
                       /\ p.todo # <<>>
                       /\ \A i \in DOMAIN p.todo : p.todo[i][1] \in Effects
  /\ home \in [Components -> [Hosts -> SUBSET Parts]]
  /\ cfg \in [Components -> [Hosts -> BOOLEAN]]
  /\ up \subseteq Daemons \X Hosts /\ missed \subseteq Daemons \X Hosts
  /\ serving \in BOOLEAN
  /\ nnId \in Ids /\ nnRun \in Ids /\ marker \in BOOLEAN
  /\ dnId \in [Hosts -> Ids]
  /\ faults \in 0..MaxFaults

UpOf(c) == {x \in up : CompOf[x[1]] = c}
AllUp(c) == \A d \in DaemonsOf(c) : \A h \in RoleHosts[d] : <<d, h>> \in up
Acted(a) == {c \in Declared : cmd[a].filter \in {"all", c}}

\* Every DataNode's directory is new or of the NameNode's cluster.
Matched == \A h \in Hosts : dnId[h] \in {NoId, nnId}

\* hdfs.go:99-107: without --force-format and --purge-data the metadata of a
\* formatted NameNode survives every command, fault and leftover script.
MetadataKept == [][nnId # NoId => nnId' = nnId]_vars

\* hdfs.go:91-131: as long as nobody asks for destruction, a DataNode's
\* directory belongs to the cluster on the NameNode's disk, which is the one
\* the running NameNode serves; so no DataNode is turned away.
OneCluster ==
  /\ \A h \in Hosts : dnId[h] # NoId => dnId[h] = nnId
  /\ \A h \in Hosts : <<"namenode", h>> \in up => nnRun = nnId /\ nnId # NoId

\* start.go:27-34: a full start brings a component up only with every daemon
\* of the components before it running, unless --force-format has left
\* DataNodes of another cluster, which end after their start was answered OK.
StartOrder ==
  [][\A x \in up' \ up :
       (Matched /\ \E a \in Operators : cmd[a].op = "start" /\ cmd[a].filter = "all") =>
         \A c \in Declared :
           (\E i, j \in 1..3 : /\ i < j /\ Ordered[i] = c
                               /\ Ordered[j] = CompOf[x[1]]) => AllUp(c)]_vars

\* stop.go:24-34: a full stop that takes a component down while one that uses
\* it runs (hbase, hdfs, zookeeper) has a failure to report by then.  What
\* "|| true" hides it does not report: a daemon whose own stop has failed does
\* not count (nor a DataNode of another cluster, which ends by itself).
StopOrder ==
  [][\A x \in up \ up', a \in Operators :
       (/\ Matched /\ cmd[a].op = "stop" /\ cmd[a].filter = "all"
        /\ \E i, j \in 1..3 : /\ i < j /\ Ordered[i] = CompOf[x[1]]
                               /\ ~(UpOf(Ordered[j]) \subseteq missed))
       => ~(cmd[a].envOK /\ cmd[a].compOK)]_vars

\* stop.go:24-33, uninstall.go:25-34: a stop or an uninstall that says OK
\* leaves no daemon of its components running, but those whose own stop has
\* failed ("|| true", hdfs.go:137 and its like).
DownWhenOK ==
  \A a \in Operators :
    (Answering(a) /\ cmd[a].op \in {"stop", "uninstall"} /\ cmd[a].envOK) =>
      \A c \in Acted(a) : UpOf(c) \subseteq missed

\* hdfs.go:155-167: an uninstall with --purge-data that says OK leaves
\* nothing of its components, so that the next start begins a new cluster;
\* a DataNode whose stop has failed may fill its directory again.
PurgedWhenOK ==
  \A a \in Operators :
    (Answering(a) /\ cmd[a].op = "uninstall" /\ cmd[a].flag /\ cmd[a].envOK) =>
      /\ \A c \in Acted(a) : \A h \in HostsOf(c) : home[c][h] = {} /\ ~cfg[c][h]
      /\ "hdfs" \in Acted(a) =>
           /\ nnId = NoId /\ ~marker
           /\ \A h \in HostsOf("hdfs") : dnId[h] = NoId \/ <<"datanode", h>> \in missed

\* start.go:27-40: a start that says OK leaves every daemon of its components
\* running, with the same exception.
UpWhenOK ==
  \A a \in Operators :
    (Answering(a) /\ cmd[a].op = "start" /\ cmd[a].envOK /\ Matched) =>
      \A c \in Acted(a) : AllUp(c)

\* install.go:24-27, hdfs.go:43-61: an install that says OK has put the whole
\* package of its components in place on every host of theirs; README:19 and
\* bootstrap-runbook.md:12 say that it may be rerun to get there.
InstalledWhenOK ==
  \A a \in Operators :
    (Answering(a) /\ cmd[a].op = "install" /\ cmd[a].envOK) =>
      \A c \in Acted(a) : \A h \in HostsOf(c) : {"bin", "lib"} \subseteq home[c][h]

\* configure.go:24-27, zookeeper.go:53-81: a configure that says OK has
\* configured every host of its components, ZooKeeper's one by one.
ConfiguredWhenOK ==
  \A a \in Operators :
    (Answering(a) /\ cmd[a].op = "configure" /\ cmd[a].envOK) =>
      \A c \in Acted(a) : \A h \in HostsOf(c) : cfg[c][h]

\* README:19: whatever went wrong for a while, an operator who reruns start
\* gets the whole cluster up, and it stays up.
StartConverges == <>[](\A c \in Declared : AllUp(c))

\* runner.go:52, start.go:27: every command comes to its answer.
CommandAnswers == \A a \in Operators : (cmd[a].op # "none") ~> (cmd[a].op = "none")

-----------------------------------------------------------------------------
(***************************************************************************)
(* What the repository's documents say of the commands and the code does   *)
(* not do.                                                                 *)
(***************************************************************************)
\* SKILL.md:111: .formatted says that start has formatted the NameNode.
MarkerMeansFormatted == marker => nnId # NoId

\* README:19: rerunning start is a no-op: a host whose daemon runs does not
\* make it fail.
RerunIsNoop ==
  [][\A p \in procs :
       (/\ p.waited /\ cmd[p.by].op = "start" /\ faults' = faults
        /\ AtStep(p, "launch") /\ <<Arg(p), p.host>> \in up
        /\ p \notin procs' /\ cmd[p.by].compOK) => cmd'[p.by].compOK]_vars
=============================================================================
