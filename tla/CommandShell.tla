---------------------------- MODULE CommandShell ----------------------------
(***************************************************************************)
(* One hadoop-cli process, from its arguments to its exit code: prepare,   *)
(* the walk over components or preflight's checks, the envelope, the file  *)
(* result.json of the run directory, and the exit code.  Several processes *)
(* share the directory of runs.                                            *)
(*                                                                         *)
(* The hosts' answers are what Runner.Run returns for them (module         *)
(* Runner); what the scripts do is in module Lifecycle.                    *)
(***************************************************************************)
EXTENDS Inventory, FiniteSets

CONSTANTS Procs,
          Settings,   \* the worlds to begin in (see world)
          Filters,    \* values of --component, "" when it is not given
          MaxSecond,  \* bound: seconds that pass
          MaxLost     \* bound: hosts lost at a time, unless all are

Commands == {"preflight", "install", "configure", "start", "stop", "status", "uninstall"}
Checks == {"preflight-jdk", "preflight-ports", "preflight-disk", "preflight-clock"}
RunIds == (0..MaxSecond) \X Commands
NoRun == <<0, "none">>
Exits == {"none", "0", "1", "killed"}

ASSUME ShellAssumption == /\ MaxSecond \in Nat /\ MaxLost \in Nat
                          /\ \A setting \in Settings : IsInventory(setting.inv)

VARIABLES world,   \* cluster.yaml, who runs hadoop-cli, and the hosts: which have the JDK,
                   \* which have bash for login shell, and the ports taken on each,
                   \* with the address they are taken at
          clock,   \* the second it is
          proc,    \* per process (see NotRun)
          results  \* result.json per run id: NoEnvelope when there is none, Empty,
                   \* Torn (part of a text, or of two), or an envelope

vars == <<world, clock, proc, results>>

NoError == "none"
NewEnvelope == [ok |-> TRUE, hosts |-> {}, error |-> NoError]
NoEnvelope == [NewEnvelope EXCEPT !.ok = FALSE]
Empty == [NoEnvelope EXCEPT !.error = "empty"]
Torn == [NoEnvelope EXCEPT !.error = "torn"]

\* A process that has not been started.
NotRun == [pc |-> "none", command |-> "none", filter |-> "", id |-> NoRun,
           todo |-> {},             \* components or checks still to come
           env |-> NewEnvelope,     \* the envelope being built
           kept |-> FALSE,          \* history: result.json was written without an error
           stdout |-> NoEnvelope,   \* the envelope printed
           exit |-> "none",
           asked |-> {}]            \* the tasks, with the answers they came to

Inv == applyDefaults(world.inv)

Init == /\ world \in Settings
        /\ clock = 0
        /\ proc = [p \in Procs |-> NotRun]
        /\ results = [id \in RunIds |-> NoEnvelope]

-----------------------------------------------------------------------------
(***************************************************************************)
(* prepare and componentsForInv.                                           *)
(***************************************************************************)
Selected(filter) == {c \in Inv.components : filter \in {"", c}}

Invoke(p, command, filter) ==
  /\ p \in world.users
  /\ proc[p].pc = "none"
  /\ proc' = [proc EXCEPT ![p] = [NotRun EXCEPT !.pc = "prepare", !.command = command,
                                                !.filter = filter]]
  /\ UNCHANGED <<world, clock, results>>

\* The process ends with no envelope.
Refused(p) == proc' = [proc EXCEPT ![p].pc = "ended", ![p].exit = "1"]

\* No inventory found or readable, no run directory to be had.
PrepareFails(p) ==
  /\ proc[p].pc = "prepare"
  /\ Refused(p)
  /\ UNCHANGED <<world, clock, results>>

\* Mutant of Prepare: the inventory is used without being validated.
PrepareAnyway(p) ==
  /\ proc[p].pc = "prepare"
  /\ proc' = [proc EXCEPT ![p].pc = "work", ![p].id = <<clock, proc[p].command>>,
                          ![p].todo = IF proc[p].command = "preflight" THEN Checks
                                      ELSE Selected(proc[p].filter)]
  /\ UNCHANGED <<world, clock, results>>

\* Validate, runlog.New and componentsForInv: a component the inventory does
\* not declare is an error; preflight takes no notice of --component.
Prepare(p) ==
  /\ proc[p].pc = "prepare"
  /\ IF \/ ~Validate(Inv)
        \/ /\ proc[p].command # "preflight"
           /\ proc[p].filter # "" /\ ~HasComponent(Inv, proc[p].filter)
     THEN Refused(p)
     ELSE proc' = [proc EXCEPT ![p].pc = "work", ![p].id = <<clock, proc[p].command>>,
                               ![p].todo = IF proc[p].command = "preflight" THEN Checks
                                           ELSE Selected(proc[p].filter)]
  /\ UNCHANGED <<world, clock, results>>

-----------------------------------------------------------------------------
(***************************************************************************)
(* The hosts' answers.                                                     *)
(***************************************************************************)
\* The tasks of a command on a component: role by role, or host by host.
Tasks(command, c) ==
  IF command \in {"start", "stop"}
  THEN UNION {{<<r, h>> : h \in ToSet(Inv.roles[r])} : r \in RolesOf[c]}
  ELSE {<<c, h>> : h \in HostsOf(Inv, c)}

\* Some tasks fail: few of them, or all.
Losses(tasks) == {lost \in SUBSET tasks : Cardinality(lost) <= MaxLost \/ lost = tasks}

\* failAll: no package of that version, or files that cannot be rendered.
Hopeless(command, c) == \/ command = "install" /\ ~HasPackage(Inv, c)
                        \/ command = "configure" /\ ~Renders(Inv, c)

\* aggregate: the answers are added to the envelope.
Added(env, tasks, lost) ==
  [env EXCEPT !.ok = @ /\ lost = {},
              !.hosts = @ \union {<<t[2], t \notin lost>> : t \in tasks}]

Answered(tasks, lost) == {<<t, t \notin lost>> : t \in tasks}

Rank == [zookeeper |-> 1, hdfs |-> 2, hbase |-> 3]

\* Ordered for the commands that go up, ReverseOrdered for those that go down.
Comes(command, c, d) == IF command \in {"stop", "uninstall"} THEN Rank[d] <= Rank[c]
                        ELSE Rank[c] <= Rank[d]

AtComponent(p, c) == /\ proc[p].pc = "work" /\ proc[p].command # "preflight"
                     /\ c \in proc[p].todo
                     /\ \A d \in proc[p].todo : Comes(proc[p].command, c, d)

\* Mutant of WalkOn: every command gives up at the first failure.
WalkOnUnlessFailed(p, c, lost) == IF lost # {} THEN {} ELSE proc[p].todo \ {c}

\* The components left: start alone gives up at the first that fails.
WalkOn(p, c, lost) ==
  IF proc[p].command = "start" /\ lost # {} THEN {} ELSE proc[p].todo \ {c}

\* Mutant of Component: the results of the last component are the command's.
ComponentReplaces(p, c) ==
  /\ AtComponent(p, c)
  /\ \E lost \in Losses(Tasks(proc[p].command, c)) :
       /\ Hopeless(proc[p].command, c) => lost = Tasks(proc[p].command, c)
       /\ proc' = [proc EXCEPT
            ![p].env = Added([@ EXCEPT !.ok = TRUE], Tasks(proc[p].command, c), lost),
            ![p].asked = @ \union Answered(Tasks(proc[p].command, c), lost),
            ![p].todo = WalkOn(p, c, lost)]
  /\ UNCHANGED <<world, clock, results>>

Component(p, c) ==
  /\ AtComponent(p, c)
  /\ \E lost \in Losses(Tasks(proc[p].command, c)) :
       /\ Hopeless(proc[p].command, c) => lost = Tasks(proc[p].command, c)
       /\ proc' = [proc EXCEPT
            ![p].env = Added(@, Tasks(proc[p].command, c), lost),
            ![p].asked = @ \union Answered(Tasks(proc[p].command, c), lost),
            ![p].todo = WalkOn(p, c, lost)]
  /\ UNCHANGED <<world, clock, results>>

-----------------------------------------------------------------------------
(***************************************************************************)
(* Preflight.                                                              *)
(***************************************************************************)
\* Mutant of portsToCheck: HBase's ports are forgotten.
portsWithoutHBase ==
  {Inv.ports[k] : k \in (IF HasComponent(Inv, "zookeeper") THEN {"zk_client"} ELSE {})
                        \union (IF HasComponent(Inv, "hdfs") THEN {"nn_rpc", "nn_http"} ELSE {})}

portsToCheck ==
  {Inv.ports[k] : k \in (IF HasComponent(Inv, "zookeeper") THEN {"zk_client"} ELSE {})
                        \union (IF HasComponent(Inv, "hdfs") THEN {"nn_rpc", "nn_http"} ELSE {})
                        \union (IF HasComponent(Inv, "hbase")
                                THEN {"master", "master_info", "rs", "rs_info"} ELSE {})}

\* A port is heard on 127.0.0.1 when it is taken there or at every address of
\* the host, not when it is taken at the host's own address.
OnLoopback == {"loopback", "every"}

\* The script of a check fails on a host; df and date never do.  The ports are
\* tried with bash's /dev/tcp: another login shell finds them all free.
CheckFails(check, h) ==
  \/ check = "preflight-jdk" /\ h \notin world.jdk
  \/ /\ check = "preflight-ports" /\ h \in world.bash
     /\ \E taken \in world.busy[h] : taken.port \in portsToCheck /\ taken.at \in OnLoopback

CheckRank == [c \in Checks |-> CASE c = "preflight-jdk"  -> 1 [] c = "preflight-ports" -> 2
                                 [] c = "preflight-disk" -> 3 [] c = "preflight-clock" -> 4]

CheckTasks(check) == {<<check, h>> : h \in AllRoleHosts(Inv)}

AtCheck(p, check) == /\ proc[p].pc = "work" /\ proc[p].command = "preflight"
                     /\ check \in proc[p].todo
                     /\ \A d \in proc[p].todo : CheckRank[check] <= CheckRank[d]

\* One check on all role hosts; the first host that fails ends the preflight
\* and is named in the envelope's error.
Check(p, check) ==
  /\ AtCheck(p, check)
  /\ \E unreached \in Losses(CheckTasks(check)) :
       LET lost == unreached \union {t \in CheckTasks(check) : CheckFails(check, t[2])}
       IN  \E error \in IF lost = {} THEN {NoError} ELSE {t[2] : t \in lost} :
             proc' = [proc EXCEPT
               ![p].env = [Added(@, CheckTasks(check), lost) EXCEPT !.error = error],
               ![p].asked = @ \union Answered(CheckTasks(check), lost),
               ![p].todo = IF lost = {} THEN @ \ {check} ELSE {}]
  /\ UNCHANGED <<world, clock, results>>

-----------------------------------------------------------------------------
(***************************************************************************)
(* The end of a command.                                                   *)
(***************************************************************************)
\* os.WriteFile opens result.json, which empties it, unless it cannot be opened.
\* Whether the envelope could be saved is something nobody looks at.
OpenResult(p) ==
  /\ proc[p].pc = "work" /\ proc[p].todo = {}
  /\ \/ /\ results' = [results EXCEPT ![proc[p].id] = Empty]
        /\ proc' = [proc EXCEPT ![p].pc = "saving"]
     \/ /\ proc' = [proc EXCEPT ![p].pc = "print"]
        /\ UNCHANGED results
  /\ UNCHANGED <<world, clock>>

\* Nobody else has the process's run id.
Alone(p) == \A q \in Procs \ {p} : proc[q].id # proc[p].id

\* What writing an envelope may leave in the file: all of it, or some of it
\* when the disk is full; two that write to one file may mix what they write.
Left(p, env, ok) == {env} \union (IF ok /\ Alone(p) THEN {} ELSE {Torn})
                          \union (IF ok THEN {} ELSE {results[proc[p].id]})

\* Mutant of Save: the envelope is put to text before the error is added.
SaveEarly(p) ==
  /\ proc[p].pc = "saving"
  /\ \E ok \in BOOLEAN : \E left \in Left(p, [proc[p].env EXCEPT !.error = NoError], ok) :
       /\ results' = [results EXCEPT ![proc[p].id] = left]
       /\ proc' = [proc EXCEPT ![p].pc = "print", ![p].kept = ok]
  /\ UNCHANGED <<world, clock>>

\* The text is written, or part of it.
Save(p) ==
  /\ proc[p].pc = "saving"
  /\ \E ok \in BOOLEAN : \E left \in Left(p, proc[p].env, ok) :
       /\ results' = [results EXCEPT ![proc[p].id] = left]
       /\ proc' = [proc EXCEPT ![p].pc = "print", ![p].kept = ok]
  /\ UNCHANGED <<world, clock>>

\* writeEnvelope, and the exit code: status always exits 0.
WriteEnvelope(p) ==
  /\ proc[p].pc = "print"
  /\ proc' = [proc EXCEPT ![p].pc = "ended", ![p].stdout = proc[p].env,
                          ![p].exit = IF proc[p].env.ok \/ proc[p].command = "status"
                                      THEN "0" ELSE "1"]
  /\ UNCHANGED <<world, clock, results>>

\* Interrupted, wherever it is.
Kill(p) ==
  /\ proc[p].pc \in {"prepare", "work", "saving", "print"}
  /\ proc' = [proc EXCEPT ![p].pc = "ended", ![p].exit = "killed"]
  /\ UNCHANGED <<world, clock, results>>

Tick == /\ clock < MaxSecond
        /\ clock' = clock + 1
        /\ UNCHANGED <<world, proc, results>>

\* Everybody is done.
Done == /\ \A p \in world.users : proc[p].pc = "ended"
        /\ UNCHANGED vars

Next == \/ \E p \in Procs :
             \/ \E command \in Commands, filter \in Filters : Invoke(p, command, filter)
             \/ Prepare(p) \/ PrepareFails(p)
             \/ \E c \in knownComponents : Component(p, c)
             \/ \E check \in Checks : Check(p, check)
             \/ OpenResult(p) \/ Save(p) \/ WriteEnvelope(p) \/ Kill(p)
        \/ Tick
        \/ Done

Spec == Init /\ [][Next]_vars

-----------------------------------------------------------------------------
(***************************************************************************)
(* Properties.                                                             *)
(***************************************************************************)
Envelopes == [ok : BOOLEAN, hosts : SUBSET ((AllRoleHosts(Inv) \union {NoError}) \X BOOLEAN),
              error : AllRoleHosts(Inv) \union {NoError}]

Answers == ((Roles \union knownComponents \union Checks) \X AllRoleHosts(Inv)) \X BOOLEAN

Processes == [pc : {"none", "prepare", "work", "saving", "print", "ended"},
              command : Commands \union {"none"}, filter : Filters \union {""},
              id : RunIds \union {NoRun}, todo : SUBSET (knownComponents \union Checks),
              env : Envelopes, kept : BOOLEAN, stdout : Envelopes, exit : Exits,
              asked : SUBSET Answers]

\* The state is well typed: above all a process past prepare (common.go:39)
\* works on components there is code for and asks hosts of a role only.
ShellTypeOK == /\ world \in Settings
               /\ clock \in 0..MaxSecond
               /\ proc \in [Procs -> Processes]
               /\ results \in [RunIds -> Envelopes \union {Empty, Torn}]

\* validate.go:24-120 against the config.go of the three components: whatever
\* inventory prepare lets through can be configured on hosts that are known.
AcceptedDeployable == Validate(Inv) => Deployable(Inv)

\* zookeeper/config.go:11-51, zookeeper.go:63 and hbase/config.go:31: the ids,
\* zoo.cfg and HBase's quorum, rendered one by one, agree on the ensemble.
EnsembleAgrees == Validate(Inv) => Ensemble(Inv)

\* The process printed an envelope.
Reported(p) == proc[p].exit \in {"0", "1"} /\ proc[p].id # NoRun

\* All that a command has to ask of the hosts.
Required(p) == IF proc[p].command = "preflight" THEN UNION {CheckTasks(check) : check \in Checks}
               ELSE UNION {Tasks(proc[p].command, c) : c \in Selected(proc[p].filter)}

\* common.go:102-134, envelope.go:41-55, start.go:34-45: a command that exits 0
\* has asked all there was to ask, some host at least, and every host answered
\* well each time; status alone (status.go:28) exits 0 regardless.
ExitTellsTruth ==
  \A p \in Procs :
    (proc[p].exit = "0" /\ proc[p].command # "status") =>
      /\ Required(p) # {}
      /\ proc[p].stdout.ok
      /\ \A t \in Required(p) : <<t, TRUE>> \in proc[p].asked /\ <<t, FALSE>> \notin proc[p].asked

\* install.go, configure.go, stop.go, status.go, uninstall.go: a failure on one
\* component does not keep the others from being tried and reported; the
\* envelope has every host of every component selected, and no other.
EveryHostAnswered ==
  \A p \in Procs :
    (Reported(p) /\ proc[p].command \notin {"start", "preflight"}) =>
      {h[1] : h \in proc[p].stdout.hosts} = UNION {HostsOf(Inv, c) : c \in Selected(proc[p].filter)}

\* preflight.go:20-98 against the rendered ports: after a preflight that exits
\* 0 each daemon declared finds a JDK on its host and, where the login shell is
\* bash, none of its configured ports answers on 127.0.0.1: one that is taken
\* all the same is taken at the host's own address only, or under another
\* shell.  After one that fails, the host its error names is one that failed.
PreflightTells ==
  \A p \in Procs :
    (Reported(p) /\ proc[p].command = "preflight") =>
      IF proc[p].exit = "0"
      THEN \A c \in Inv.components : \A r \in RolesOf[c] : \A h \in ToSet(Inv.roles[r]) :
             /\ h \in world.jdk
             /\ \A taken \in world.busy[h] :
                  taken.port \in ListensOn(Inv, r) =>
                    h \notin world.bash \/ taken.at \notin OnLoopback
      ELSE <<proc[p].stdout.error, FALSE>> \in proc[p].stdout.hosts

\* runlog.go:21-44: the result.json of a process that wrote it without an error
\* and shares its run id (one per command and second) with nobody is what it
\* printed.  Whatever else happens, shared ids, kills and writes that fail
\* halfway included, a result.json that is whole is the last word of a process
\* with that id, never an envelope that was still to grow.
ResultIsOwn ==
  /\ \A p \in Procs : (Reported(p) /\ proc[p].kept /\ Alone(p)) =>
                        results[proc[p].id] = proc[p].stdout
  /\ \A i \in RunIds : results[i] \notin {NoEnvelope, Empty, Torn} =>
       \E q \in Procs : /\ proc[q].id = i /\ proc[q].pc \in {"saving", "print", "ended"}
                        /\ results[i] = proc[q].env

\* validate.go:84-107, types.go:99: no command, preflight on the hosts of
\* components that are not used included, turns to a host without an address.
TouchesOnlyKnown ==
  \A p \in Procs : \A answer \in proc[p].asked :
    Known(Inv, answer[1][2]) /\ Address(Inv, answer[1][2]) # ""
=============================================================================
