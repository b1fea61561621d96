---------------------------- MODULE SSHExecutor -----------------------------
(***************************************************************************)
(* The Executor behind Runner: SSHExecutor.Execute over one ssh.Pool that  *)
(* every Run of a command shares.  A goroutine of Run gets a client for    *)
(* its host (dialling under the pool's mutex when there is none), sends    *)
(* the task's files and runs its command in a session.                     *)
(*                                                                         *)
(* Only the wait for the command looks at the context.  Dialling, opening  *)
(* a session and sending a file return when the other side answers or the  *)
(* connection is lost, and not before.                                     *)
(***************************************************************************)
EXTENDS Runner

CONSTANTS TaskKinds,  \* the tasks Run is called with: [files : Nat, cmd : BOOLEAN]
          MaxBreaks,  \* bound: connections lost in a behaviour
          Silent      \* the hosts that may stop answering

\* One of the tasks has the most files.
ASSUME TaskKindsAssumption ==
  /\ TaskKinds \subseteq [files : Nat, cmd : BOOLEAN]
  /\ \E most \in TaskKinds : \A t \in TaskKinds : t.files <= most.files
  /\ MaxBreaks \in Nat

VARIABLES task,     \* the task of the current call
          mu,       \* holder of Pool.mu: a task index, or Free
          clients,  \* hosts with an entry in Pool.clients
          opened,   \* per host: connections dialled and not closed
          link,     \* per host: "none", "up" or "broken", of the pooled one
          step,     \* per index: where Execute is
          pos,      \* per index: the file Execute is at
          proc,     \* per index: the remote command
          file,     \* per host and file: "absent", "partial" or "whole"
          breaks    \* connections lost so far

sshVars == <<task, mu, clients, opened, link, step, pos, proc, file, breaks>>
allVars == <<vars, sshVars>>

Free == 0
MaxFiles == CHOOSE n \in {t.files : t \in TaskKinds} : \A t \in TaskKinds : t.files <= n

\* Mutant of StepAt: the last file of the task is not sent.
StepAtEarly(k) == IF k < task.files THEN "open" ELSE "exec"

\* Where Execute is once it has a client, the first k-1 files being sent.
StepAt(k) == IF k <= task.files THEN "open" ELSE "exec"

Failed(i) == ExecuteReturns(i, [host |-> targets[i], ok |-> FALSE])

-----------------------------------------------------------------------------
SSHInit ==
  /\ Init
  /\ task \in TaskKinds
  /\ mu = Free
  /\ clients = {}
  /\ opened = [h \in Hosts |-> 0]
  /\ link = [h \in Hosts |-> "none"]
  /\ step = <<>>
  /\ pos = <<>>
  /\ proc = <<>>
  /\ file = [h \in Hosts |-> [k \in 1..MaxFiles |-> "absent"]]
  /\ breaks = 0

\* A component calls Run with the hosts of a role and a task.
CallTask(hosts, t) ==
  /\ Call(hosts)
  /\ task' = t
  /\ step' = [i \in DOMAIN hosts |-> "none"]
  /\ pos' = [i \in DOMAIN hosts |-> 1]
  /\ proc' = [i \in DOMAIN hosts |-> "none"]
  /\ UNCHANGED <<mu, clients, opened, link, file, breaks>>

\* Mutant of EnterExecute: the task runs without a deadline.
EnterWithoutDeadline(i) ==
  /\ g[i] = "spawned"
  /\ g' = [g EXCEPT ![i] = "executing"]
  /\ step' = [step EXCEPT ![i] = "get"]
  /\ UNCHANGED <<phase, targets, next, sem, wg, ctx, out, task, mu, clients, opened, link,
                 pos, proc, file, breaks>>

\* The goroutine enters Execute, whose first call is Pool.Get.
EnterExecute(i) ==
  /\ Begin(i)
  /\ step' = [step EXCEPT ![i] = "get"]
  /\ UNCHANGED <<task, mu, clients, opened, link, pos, proc, file, breaks>>

\* Pool.Get finds a client and unlocks.  It does not ask whether the
\* client's connection still works.
GetCached(i) ==
  /\ step[i] = "get"
  /\ mu = Free
  /\ targets[i] \in clients
  /\ step' = [step EXCEPT ![i] = StepAt(1)]
  /\ UNCHANGED <<vars, task, mu, clients, opened, link, pos, proc, file, breaks>>

\* Mutant of GetDials: the mutex is not held while dialling.
GetDialsUnlocked(i) ==
  /\ step[i] = "get"
  /\ mu = Free
  /\ targets[i] \notin clients
  /\ step' = [step EXCEPT ![i] = "dialing"]
  /\ UNCHANGED <<vars, task, mu, clients, opened, link, pos, proc, file, breaks>>

\* Pool.Get finds none and dials with the mutex held.
GetDials(i) ==
  /\ step[i] = "get"
  /\ mu = Free
  /\ targets[i] \notin clients
  /\ mu' = i
  /\ step' = [step EXCEPT ![i] = "dialing"]
  /\ UNCHANGED <<vars, task, clients, opened, link, pos, proc, file, breaks>>

DialSucceeds(i) ==
  /\ step[i] = "dialing"
  /\ clients' = clients \union {targets[i]}
  /\ opened' = [opened EXCEPT ![targets[i]] = @ + 1]
  /\ link' = [link EXCEPT ![targets[i]] = "up"]
  /\ mu' = Free
  /\ step' = [step EXCEPT ![i] = StepAt(1)]
  /\ UNCHANGED <<vars, task, pos, proc, file, breaks>>

\* Mutant of DialFails: the error path returns without unlocking.
DialFailsLocked(i) ==
  /\ step[i] = "dialing"
  /\ Failed(i)
  /\ step' = [step EXCEPT ![i] = "answered"]
  /\ UNCHANGED <<task, mu, clients, opened, link, pos, proc, file, breaks>>

\* The key cannot be read, or the host refuses, or ten seconds pass before
\* the TCP connection is there.
DialFails(i) ==
  /\ step[i] = "dialing"
  /\ Failed(i)
  /\ mu' = Free
  /\ step' = [step EXCEPT ![i] = "answered"]
  /\ UNCHANGED <<task, clients, opened, link, pos, proc, file, breaks>>

\* Upload and WriteFile: sc.Create truncates the remote file in place ...
CreateFile(i) ==
  /\ step[i] = "open"
  /\ link[targets[i]] = "up"
  /\ file' = [file EXCEPT ![targets[i]][pos[i]] = "partial"]
  /\ step' = [step EXCEPT ![i] = "copy"]
  /\ UNCHANGED <<vars, task, mu, clients, opened, link, pos, proc, breaks>>

\* ... and it is whole again when the copy and the Chmod have returned.
CopyEnds(i) ==
  /\ step[i] = "copy"
  /\ link[targets[i]] = "up"
  /\ file' = [file EXCEPT ![targets[i]][pos[i]] = "whole"]
  /\ pos' = [pos EXCEPT ![i] = @ + 1]
  /\ step' = [step EXCEPT ![i] = StepAt(pos[i] + 1)]
  /\ UNCHANGED <<vars, task, mu, clients, opened, link, proc, breaks>>

\* Any error of a transfer ends Execute; a file it had truncated stays so.
TransferFails(i) ==
  /\ step[i] \in {"open", "copy"}
  /\ Failed(i)
  /\ step' = [step EXCEPT ![i] = "answered"]
  /\ UNCHANGED <<task, mu, clients, opened, link, pos, proc, file, breaks>>

\* A task without a command is done when its files are there.
NoCommand(i) ==
  /\ step[i] = "exec"
  /\ ~task.cmd
  /\ ExecuteReturns(i, [host |-> targets[i], ok |-> TRUE])
  /\ step' = [step EXCEPT ![i] = "answered"]
  /\ UNCHANGED <<task, mu, clients, opened, link, pos, proc, file, breaks>>

\* Client.Exec: NewSession, and the goroutine that runs the command.
SessionOpens(i) ==
  /\ step[i] = "exec"
  /\ task.cmd
  /\ link[targets[i]] = "up"
  /\ proc' = [proc EXCEPT ![i] = "running"]
  /\ step' = [step EXCEPT ![i] = "wait"]
  /\ UNCHANGED <<vars, task, mu, clients, opened, link, pos, file, breaks>>

SessionFails(i) ==
  /\ step[i] = "exec"
  /\ task.cmd
  /\ Failed(i)
  /\ step' = [step EXCEPT ![i] = "answered"]
  /\ UNCHANGED <<task, mu, clients, opened, link, pos, proc, file, breaks>>

\* Mutant of SelectDone: an error without an exit status counts as status 0.
SelectDoneLenient(i) ==
  /\ step[i] = "wait"
  /\ proc[i] \in {"exit0", "exit1", "lost"}
  /\ ExecuteReturns(i, [host |-> targets[i], ok |-> proc[i] # "exit1"])
  /\ step' = [step EXCEPT ![i] = "answered"]
  /\ UNCHANGED <<task, mu, clients, opened, link, pos, proc, file, breaks>>

\* The select takes the result of sess.Run: an exit status or, when the
\* connection was lost, an error.
SelectDone(i) ==
  /\ step[i] = "wait"
  /\ proc[i] \in {"exit0", "exit1", "lost"}
  /\ ExecuteReturns(i, [host |-> targets[i], ok |-> proc[i] = "exit0"])
  /\ step' = [step EXCEPT ![i] = "answered"]
  /\ UNCHANGED <<task, mu, clients, opened, link, pos, proc, file, breaks>>

\* Mutant of SelectTimeout: the select looks at the context only when the
\* command has ended.
SelectTimeoutLate(i) ==
  /\ step[i] = "wait"
  /\ ctx[i] = "expired"
  /\ proc[i] # "running"
  /\ Failed(i)
  /\ step' = [step EXCEPT ![i] = "answered"]
  /\ UNCHANGED <<task, mu, clients, opened, link, pos, proc, file, breaks>>

\* The select takes ctx.Done(), even with a result there.  The remote command
\* may outlive the signal; Lifecycle follows it.
SelectTimeout(i) ==
  /\ step[i] = "wait"
  /\ ctx[i] = "expired"
  /\ Failed(i)
  /\ step' = [step EXCEPT ![i] = "answered"]
  /\ UNCHANGED <<task, mu, clients, opened, link, pos, proc, file, breaks>>

\* Mutant of Close: the map is not emptied after its clients were closed.
CloseKeepsMap ==
  /\ phase \in {"idle", "returned"}
  /\ mu = Free
  /\ opened' = [h \in Hosts |-> IF h \in clients THEN opened[h] - 1 ELSE opened[h]]
  /\ link' = [h \in Hosts |-> "none"]
  /\ UNCHANGED <<vars, task, mu, clients, step, pos, proc, file, breaks>>

\* Pool.Close, deferred by the command; the next command has a new pool.
Close ==
  /\ phase \in {"idle", "returned"}
  /\ mu = Free
  /\ opened' = [h \in Hosts |-> IF h \in clients THEN opened[h] - 1 ELSE opened[h]]
  /\ link' = [h \in Hosts |-> "none"]
  /\ clients' = {}
  /\ UNCHANGED <<vars, task, mu, step, pos, proc, file, breaks>>

-----------------------------------------------------------------------------
(***************************************************************************)
(* The hosts and the network.                                              *)
(***************************************************************************)
CommandExits(i) ==
  /\ proc[i] = "running"
  /\ step[i] = "wait"
  /\ \E s \in {"exit0", "exit1"} : proc' = [proc EXCEPT ![i] = s]
  /\ UNCHANGED <<vars, task, mu, clients, opened, link, step, pos, file, breaks>>

\* The connection to h is lost, and with it the answers waited for over it.
LinkBreaks(h) ==
  /\ breaks < MaxBreaks
  /\ link[h] = "up"
  /\ link' = [link EXCEPT ![h] = "broken"]
  /\ breaks' = breaks + 1
  /\ LET cut == {i \in Tasks : targets[i] = h /\ step[i] = "wait" /\ proc[i] = "running"}
     IN  proc' = [i \in Tasks |-> IF i \in cut THEN "lost" ELSE proc[i]]
  /\ UNCHANGED <<vars, task, mu, clients, opened, step, pos, file>>

-----------------------------------------------------------------------------
DialAnswers(i) == DialSucceeds(i) \/ DialFails(i)
TransferAnswers(i) == CreateFile(i) \/ CopyEnds(i) \/ TransferFails(i)
SessionAnswers(i) == SessionOpens(i) \/ SessionFails(i)

\* The steps of Execute that wait for nobody but the mutex.
LocalStep(i) == GetCached(i) \/ GetDials(i) \/ NoCommand(i)

Wait(i) == SelectDone(i) \/ SelectTimeout(i)

Execute(i) == LocalStep(i) \/ DialAnswers(i) \/ TransferAnswers(i)
              \/ SessionAnswers(i) \/ Wait(i)

\* The rest of Run, which the pool and the hosts do not see.
RunStep(i) ==
  /\ Cancel(i) \/ Release(i) \/ Done(i) \/ Expire(i)
  /\ UNCHANGED sshVars

Host == \E h \in Hosts : LinkBreaks(h)

SSHNext ==
  \/ \E hosts \in Batches, t \in TaskKinds : CallTask(hosts, t)
  \/ Dispatch /\ UNCHANGED sshVars
  \/ \E i \in Tasks : EnterExecute(i) \/ RunStep(i) \/ Execute(i) \/ CommandExits(i)
  \/ Close
  \/ Host

SSHSpec == SSHInit /\ [][SSHNext]_allVars

-----------------------------------------------------------------------------
(***************************************************************************)
(* Fairness.  The program's goroutines run, the mutex is handed on and the *)
(* timers fire.  A host that is not Silent answers what is asked of it on  *)
(* a connection (a dial, a session, a transfer), if only with an error.    *)
(* No host ever has to let a command end.                                  *)
(***************************************************************************)
ProgramFairness ==
  /\ WF_allVars(Dispatch /\ UNCHANGED sshVars)
  /\ \A i \in TaskIds :
       /\ WF_allVars(i \in Tasks /\ EnterExecute(i))
       /\ WF_allVars(i \in Tasks /\ RunStep(i))
       /\ WF_allVars(i \in Tasks /\ LocalStep(i))
       /\ WF_allVars(i \in Tasks /\ Wait(i))

HostsAnswer ==
  \A i \in TaskIds :
    WF_allVars(/\ i \in Tasks
               /\ targets[i] \notin Silent
               /\ DialAnswers(i) \/ TransferAnswers(i) \/ SessionAnswers(i))

FairSSHSpec == SSHSpec /\ ProgramFairness /\ HostsAnswer

-----------------------------------------------------------------------------
\* Types of the state the executor adds to Run's.
SSHTypeOK ==
  /\ task \in TaskKinds
  /\ mu \in Tasks \union {Free}
  /\ clients \subseteq Hosts
  /\ opened \in [Hosts -> Nat]
  /\ link \in [Hosts -> {"none", "up", "broken"}]
  /\ step \in [Tasks -> {"none", "get", "dialing", "open", "copy", "exec", "wait",
                         "answered"}]
  /\ pos \in [Tasks -> Nat \ {0}]
  /\ proc \in [Tasks -> {"none", "running", "exit0", "exit1", "lost"}]
  /\ file \in [Hosts -> [1..MaxFiles -> {"absent", "partial", "whole"}]]
  /\ breaks \in 0..MaxBreaks

\* ssh/pool.go:19-49: however many tasks ask for a host at once, and over any
\* number of Runs, a connection that is open is the pooled one; so Close
\* leaves none open.
OneConnectionPerHost ==
  \A h \in Hosts : opened[h] = IF h \in clients THEN 1 ELSE 0

\* The host has the task to itself: Hosts of HDFS and HBase names a host once,
\* the list of ZooKeeper and those of the roles are taken as they are.
ListedOnce(i) == \A j \in Tasks : targets[j] = targets[i] => j = i

\* ssh_executor.go:19-31: a command starts only on a host that has every file
\* of its task, whole, whatever an earlier attempt or a lost connection left.
\* A host listed twice in the call is left out: there the second task may
\* truncate a file while the command of the first already runs.
CommandHasFiles ==
  \A i \in Tasks :
    step[i] = "wait" /\ ListedOnce(i) =>
      \A k \in 1..task.files : file[targets[i]][k] = "whole"

\* ssh_executor.go:32-42: a result that says OK is one of a task whose files
\* arrived and whose command ran to its end with status 0.
OKMeansDone ==
  \A i \in Tasks :
    (g[i] \notin {"none", "spawned", "executing"} /\ out[i].ok) =>
      /\ task.cmd => proc[i] = "exit0"
      /\ ListedOnce(i) => \A k \in 1..task.files : file[targets[i]][k] = "whole"

\* pool.go:20-21: no path out of Get keeps the mutex; a holder is a task that
\* is dialling, and nobody holds it once Run has returned.
MutexHandedOn ==
  /\ \A i \in Tasks : mu = i => g[i] = "executing" /\ step[i] = "dialing"
  /\ phase = "returned" => mu = Free

\* ssh_executor.go:13-43: the executor is one of the Executors Runner.tla
\* assumes: it answers once, for its own host, when Run has called it.
ImplementsRunner == Spec

(***************************************************************************)
(* The inductive invariant of the pool.  The mutex is what makes the test  *)
(* of the map and the dial one step: a task that dials holds it, and the   *)
(* host it dials has no client yet.                                        *)
(***************************************************************************)
DialersHoldMutex ==
  \A i \in Tasks :
    /\ mu = i <=> step[i] = "dialing"
    /\ step[i] = "dialing" => targets[i] \notin clients

\* A task is in a call of Execute exactly while Run has it executing.
CallsMatch ==
  \A i \in Tasks : g[i] = "executing" <=> step[i] \notin {"none", "answered"}

\* pool.go:19-49: the accounting of connections and of the mutex as a whole.
SSHInv ==
  /\ SSHTypeOK
  /\ OneConnectionPerHost
  /\ DialersHoldMutex
  /\ CallsMatch

-----------------------------------------------------------------------------
(***************************************************************************)
(* What the repository's documents say of the executor and the code does   *)
(* not do.                                                                 *)
(***************************************************************************)
\* design:216 gives every task a timeout: once its deadline has passed, a
\* task gets a result.
DeadlineEndsTask ==
  \A i \in TaskIds :
    (i \in Tasks /\ g[i] = "executing" /\ ctx[i] = "expired")
      ~> ~(i \in Tasks /\ g[i] = "executing")

\* design:215 keeps hosts apart: a task of a host that answers gets a result
\* whatever other hosts do.
HostsIsolated ==
  \A i \in TaskIds :
    (i \in Tasks /\ g[i] = "executing" /\ targets[i] \notin Silent)
      ~> ~(i \in Tasks /\ g[i] = "executing" /\ targets[i] \notin Silent)
=============================================================================
