------------------------------ MODULE SSHProofs ------------------------------
(***************************************************************************)
(* Proofs about the SSH executor: it is an Executor in the sense of        *)
(* Runner, so that all theorems about Run hold of the program as built,    *)
(* and its pool keeps one connection per host and hands its mutex on.      *)
(***************************************************************************)
EXTENDS SSHExecutor, RunnerProofs

-----------------------------------------------------------------------------
(***************************************************************************)
(* The executor's steps are steps of Run, or none at all.                  *)
(***************************************************************************)
(* An error result is one an Executor may return.                          *)
LEMMA ResultIsAnswer ==
  ASSUME NEW i \in Tasks, NEW b \in BOOLEAN
  PROVE  [host |-> targets[i], ok |-> b] \in Answers(i)
BY DEF Answers

(* Execute answers for its own host, or leaves Run's variables alone.      *)
LEMMA ExecuteIsRun ==
  ASSUME NEW i \in Tasks, Execute(i)
  PROVE  [Next]_vars
<1>1. CASE Failed(i)
  <2>1. \E r \in Answers(i) : ExecuteReturns(i, r)
    BY <1>1, ResultIsAnswer DEF Failed
  <2>2. QED
    BY <2>1 DEF Next
<1>2. CASE \E b \in BOOLEAN : ExecuteReturns(i, [host |-> targets[i], ok |-> b])
  <2>1. PICK b \in BOOLEAN : ExecuteReturns(i, [host |-> targets[i], ok |-> b])
    BY <1>2
  <2>2. \E r \in Answers(i) : ExecuteReturns(i, r)
    BY <2>1, ResultIsAnswer
  <2>3. QED
    BY <2>2 DEF Next
<1>3. CASE UNCHANGED vars
  BY <1>3
<1>4. \/ Failed(i)
      \/ \E b \in BOOLEAN : ExecuteReturns(i, [host |-> targets[i], ok |-> b])
      \/ UNCHANGED vars
  <2>1. CASE LocalStep(i)
    BY <2>1 DEF LocalStep, GetCached, GetDials, NoCommand
  <2>2. CASE DialAnswers(i) \/ TransferAnswers(i) \/ SessionAnswers(i)
    BY <2>2 DEF DialAnswers, DialSucceeds, DialFails, TransferAnswers, CreateFile,
                CopyEnds, TransferFails, SessionAnswers, SessionOpens, SessionFails
  <2>3. CASE Wait(i)
    <3>1. (proc[i] = "exit0") \in BOOLEAN
      OBVIOUS
    <3>2. QED
      BY <2>3, <3>1 DEF Wait, SelectDone, SelectTimeout
  <2>4. QED
    BY <2>1, <2>2, <2>3 DEF Execute
<1>5. QED
  BY <1>1, <1>2, <1>3, <1>4

(* Every step of the program with its executor is a step of Run, or leaves *)
(* Run's variables alone.                                                  *)
LEMMA StepIsRun == [SSHNext]_allVars => [Next]_vars
<1> SUFFICES ASSUME [SSHNext]_allVars PROVE [Next]_vars
  OBVIOUS
<1>1. CASE \E hosts \in Batches, t \in TaskKinds : CallTask(hosts, t)
  BY <1>1 DEF CallTask, Next
<1>2. CASE Dispatch /\ UNCHANGED sshVars
  BY <1>2 DEF Next
<1>3. CASE \E i \in Tasks : EnterExecute(i) \/ RunStep(i)
  BY <1>3 DEF EnterExecute, RunStep, Next, Bookkeeping
<1>4. CASE \E i \in Tasks : Execute(i)
  BY <1>4, ExecuteIsRun
<1>5. CASE \E i \in Tasks : CommandExits(i)
  BY <1>5 DEF CommandExits
<1>6. CASE Close \/ Host
  BY <1>6 DEF Close, Host, LinkBreaks
<1>7. CASE UNCHANGED allVars
  BY <1>7 DEF allVars
<1>8. QED
  BY <1>1, <1>2, <1>3, <1>4, <1>5, <1>6, <1>7 DEF SSHNext

(* The SSH executor is one of the Executors Run is proved for: it answers  *)
(* once, when it was called, and for the host it was called with           *)
(* (ssh_executor.go:13-43).                                                *)
THEOREM ExecutorImplementsRunner == SSHSpec => ImplementsRunner
<1>1. SSHInit => Init
  BY DEF SSHInit
<1>2. QED
  BY <1>1, StepIsRun, PTL DEF SSHSpec, ImplementsRunner, Spec

(* So Run's accounting and its bound hold of the program as it is built    *)
(* (runner.go:26-54 over ssh_executor.go).                                 *)
THEOREM ExecutorKeepsAccounting == SSHSpec => []IInv
BY ExecutorImplementsRunner, Accounting, PTL DEF ImplementsRunner

(* And what the program does is a batch of at most Slots tasks at a time.  *)
THEOREM ExecutorImplementsBatch == SSHSpec => ImplementsBatch
BY ExecutorImplementsRunner, RunImplementsBatch, PTL DEF ImplementsRunner

-----------------------------------------------------------------------------
(***************************************************************************)
(* The pool.                                                               *)
(***************************************************************************)
(* A task index is positive, so it is never Free; its host is a host.      *)
LEMMA TaskFacts ==
  ASSUME IInv, NEW i \in Tasks
  PROVE  i # Free /\ targets[i] \in Hosts
BY TasksFinite DEF IInv, TypeOK, Free

(* While Run is not active no task dials, so the mutex is free.            *)
LEMMA FreeBetweenCalls ==
  ASSUME IInv, SSHInv, phase \in {"idle", "returned"}
  PROVE  mu = Free
<1>1. CASE phase = "idle"
  BY <1>1 DEF IInv, LoopIndex, SSHInv, SSHTypeOK, Tasks
<1>2. CASE phase = "returned"
  <2>1. \A i \in Tasks : g[i] = "done"
    BY <1>2, AllDone DEF IInv, LoopIndex
  <2>2. QED
    BY <2>1 DEF SSHInv, SSHTypeOK, DialersHoldMutex, CallsMatch
<1>3. QED
  BY <1>1, <1>2

(* The pool is empty and unlocked at first.                                *)
LEMMA SSHInitInv == SSHInit => SSHInv
<1> SUFFICES ASSUME SSHInit PROVE SSHInv
  OBVIOUS
<1>1. Tasks = {}
  BY DEF SSHInit, Init, Tasks
<1>2. SSHTypeOK
  BY <1>1, TaskKindsAssumption DEF SSHInit, SSHTypeOK, TaskKindsAssumption
<1>3. QED
  BY <1>1, <1>2 DEF SSHInit, SSHInv, OneConnectionPerHost, DialersHoldMutex, CallsMatch

(* A new call begins with nobody at the pool.                              *)
LEMMA CallTaskInv ==
  ASSUME IInv, SSHInv, NEW hosts \in Batches, NEW t \in TaskKinds, CallTask(hosts, t)
  PROVE  SSHInv'
<1>1. mu = Free
  BY FreeBetweenCalls DEF CallTask, Call
<1>2. Tasks' = DOMAIN hosts /\ Free \notin Tasks'
  BY BatchesAssumption DEF CallTask, Call, Tasks, Free, BatchesAssumption
<1>3. SSHTypeOK'
  BY <1>1, <1>2 DEF CallTask, SSHInv, SSHTypeOK
<1>4. QED
  BY <1>1, <1>2, <1>3 DEF CallTask, Call, SSHInv, OneConnectionPerHost, DialersHoldMutex, CallsMatch

(***************************************************************************)
(* The steps.  Those that leave the pool alone have a lemma in common.     *)
(***************************************************************************)
(* A step of Run itself starts and ends no call of Execute.                *)
LEMMA RunPartInv ==
  ASSUME IInv, SSHInv, UNCHANGED sshVars,
         Dispatch \/ \E i \in Tasks : Cancel(i) \/ Release(i) \/ Done(i) \/ Expire(i)
  PROVE  SSHInv'
<1>1. targets' = targets /\ Tasks' = Tasks
  BY DEF Dispatch, Add, Acquire, Return, Cancel, Release, Done, Expire, Tasks
<1>2. \A j \in Tasks : g[j] = "executing" <=> g'[j] = "executing"
  <2>1. CASE Acquire
    <3>1. next \in Tasks /\ g[next] = "none"
      BY <2>1, TasksFinite DEF Acquire, IInv, LoopIndex, TypeOK
    <3>2. QED
      BY <2>1, <3>1 DEF Acquire, IInv, TypeOK
  <2>2. CASE Add \/ Return \/ \E i \in Tasks : Expire(i)
    BY <2>2 DEF Add, Return, Expire
  <2>3. CASE \E i \in Tasks : Cancel(i) \/ Release(i) \/ Done(i)
    BY <2>3 DEF Cancel, Release, Done, IInv, TypeOK
  <2>4. QED
    BY <2>1, <2>2, <2>3 DEF Dispatch
<1>3. SSHTypeOK' /\ OneConnectionPerHost' /\ DialersHoldMutex'
  BY <1>1 DEF sshVars, SSHInv, SSHTypeOK, OneConnectionPerHost, DialersHoldMutex
<1>4. CallsMatch'
  BY <1>1, <1>2 DEF sshVars, SSHInv, CallsMatch
<1>5. QED
  BY <1>3, <1>4 DEF SSHInv

(* A task enters Execute.                                                  *)
LEMMA EnterExecuteInv ==
  ASSUME IInv, SSHInv, NEW i \in Tasks, EnterExecute(i)
  PROVE  SSHInv'
<1>1. targets' = targets /\ Tasks' = Tasks
  BY DEF EnterExecute, Begin, Tasks
<1>2. mu # i
  BY DEF EnterExecute, Begin, SSHInv, DialersHoldMutex, CallsMatch
<1>3. SSHTypeOK' /\ OneConnectionPerHost'
  BY <1>1 DEF EnterExecute, SSHInv, SSHTypeOK, OneConnectionPerHost
<1>4. DialersHoldMutex' /\ CallsMatch'
  BY <1>1, <1>2 DEF EnterExecute, Begin, SSHInv, SSHTypeOK, DialersHoldMutex, CallsMatch,
                    IInv, TypeOK
<1>5. QED
  BY <1>3, <1>4 DEF SSHInv

(* A step of a call that does not touch the pool and does not dial: the    *)
(* task goes on, or answers.                                               *)
LEMMA PoolUntouched ==
  ASSUME IInv, SSHInv, SSHTypeOK', NEW i \in Tasks, NEW s,
         step[i] \notin {"none", "dialing", "answered"}, s \notin {"none", "dialing"},
         step' = [step EXCEPT ![i] = s],
         g' = IF s = "answered" THEN [g EXCEPT ![i] = "stored"] ELSE g,
         UNCHANGED <<targets, mu, clients, opened>>
  PROVE  SSHInv'
<1>1. Tasks' = Tasks
  BY DEF Tasks
<1>2. OneConnectionPerHost'
  BY DEF SSHInv, OneConnectionPerHost
<1>3. DialersHoldMutex'
  BY <1>1 DEF SSHInv, SSHTypeOK, DialersHoldMutex
<1>4. CallsMatch'
  BY <1>1 DEF SSHInv, SSHTypeOK, CallsMatch, IInv, TypeOK
<1>5. QED
  BY <1>2, <1>3, <1>4 DEF SSHInv

(* Pool.Get, up to the dial.                                               *)
LEMMA GetCachedInv ==
  ASSUME IInv, SSHInv, NEW i \in Tasks, GetCached(i)
  PROVE  SSHInv'
<1>1. StepAt(1) \in {"open", "exec"}
  BY DEF StepAt
<1>2. SSHTypeOK'
  BY <1>1 DEF GetCached, vars, Tasks, SSHInv, SSHTypeOK
<1>3. QED
  BY <1>1, <1>2, PoolUntouched DEF GetCached, vars

(* The task that dials takes the mutex; nobody else held it.               *)
LEMMA GetDialsInv ==
  ASSUME IInv, SSHInv, NEW i \in Tasks, GetDials(i)
  PROVE  SSHInv'
<1>1. Tasks' = Tasks /\ targets' = targets /\ g' = g
  BY DEF GetDials, vars, Tasks
<1>2. \A j \in Tasks : step[j] # "dialing"
  BY TaskFacts DEF GetDials, SSHInv, DialersHoldMutex
<1>3. SSHTypeOK' /\ OneConnectionPerHost'
  BY <1>1 DEF GetDials, SSHInv, SSHTypeOK, OneConnectionPerHost
<1>4. DialersHoldMutex'
  BY <1>1, <1>2 DEF GetDials, SSHInv, SSHTypeOK, DialersHoldMutex
<1>5. CallsMatch'
  BY <1>1 DEF GetDials, SSHInv, SSHTypeOK, CallsMatch
<1>6. QED
  BY <1>3, <1>4, <1>5 DEF SSHInv

(* The dial answers: the map and the count of connections grow together,   *)
(* or neither does, and the mutex is free in both cases.                   *)
LEMMA DialSucceedsInv ==
  ASSUME IInv, SSHInv, NEW i \in Tasks, DialSucceeds(i)
  PROVE  SSHInv'
<1>1. Tasks' = Tasks /\ targets' = targets /\ g' = g
  BY DEF DialSucceeds, vars, Tasks
<1>2. targets[i] \in Hosts /\ targets[i] \notin clients /\ mu = i
  BY TaskFacts DEF DialSucceeds, SSHInv, DialersHoldMutex
<1>3. \A j \in Tasks : j # i => step[j] # "dialing"
  BY <1>2 DEF SSHInv, DialersHoldMutex
<1>4. StepAt(1) \in {"open", "exec"}
  BY DEF StepAt
<1>5. SSHTypeOK'
  BY <1>1, <1>2, <1>4 DEF DialSucceeds, SSHInv, SSHTypeOK
<1>6. OneConnectionPerHost'
  BY <1>2 DEF DialSucceeds, SSHInv, SSHTypeOK, OneConnectionPerHost
<1>7. DialersHoldMutex' /\ CallsMatch'
  BY <1>1, <1>3, <1>4, TaskFacts DEF DialSucceeds, SSHInv, SSHTypeOK, DialersHoldMutex, CallsMatch
<1>8. QED
  BY <1>5, <1>6, <1>7 DEF SSHInv

(* A dial that fails gives the mutex back and leaves the map alone.        *)
LEMMA DialFailsInv ==
  ASSUME IInv, SSHInv, NEW i \in Tasks, DialFails(i)
  PROVE  SSHInv'
<1>1. Tasks' = Tasks /\ targets' = targets /\ g' = [g EXCEPT ![i] = "stored"]
  BY DEF DialFails, Failed, ExecuteReturns, Tasks
<1>2. \A j \in Tasks : j # i => step[j] # "dialing"
  BY DEF DialFails, SSHInv, DialersHoldMutex
<1>3. SSHTypeOK' /\ OneConnectionPerHost'
  BY <1>1 DEF DialFails, SSHInv, SSHTypeOK, OneConnectionPerHost
<1>4. DialersHoldMutex' /\ CallsMatch'
  BY <1>1, <1>2, TaskFacts DEF DialFails, SSHInv, SSHTypeOK, DialersHoldMutex, CallsMatch,
                               IInv, TypeOK
<1>5. QED
  BY <1>3, <1>4 DEF SSHInv

(* Writing one file of one host keeps the type of the files.               *)
LEMMA FileWrite ==
  ASSUME NEW F, F \in [Hosts -> [1..MaxFiles -> {"absent", "partial", "whole"}]],
         NEW h \in Hosts, NEW k, NEW v \in {"absent", "partial", "whole"}
  PROVE  [F EXCEPT ![h][k] = v] \in [Hosts -> [1..MaxFiles -> {"absent", "partial", "whole"}]]
<1>1. F[h] \in [1..MaxFiles -> {"absent", "partial", "whole"}]
  OBVIOUS
<1> DEFINE row == [F[h] EXCEPT ![k] = v]
<1>2. row \in [1..MaxFiles -> {"absent", "partial", "whole"}]
  BY <1>1
<1>3. [F EXCEPT ![h][k] = v] = [F EXCEPT ![h] = row]
  OBVIOUS
<1> HIDE DEF row
<1>4. [F EXCEPT ![h] = row] \in [Hosts -> [1..MaxFiles -> {"absent", "partial", "whole"}]]
  BY <1>2
<1>5. QED
  BY <1>3, <1>4

(* Files and sessions keep the invariant.                                  *)
LEMMA TransferInv ==
  ASSUME IInv, SSHInv, NEW i \in Tasks, TransferAnswers(i)
  PROVE  SSHInv'
<1>1. targets[i] \in Hosts /\ Tasks' = Tasks
  BY TaskFacts DEF TransferAnswers, CreateFile, CopyEnds, TransferFails, Failed,
                   ExecuteReturns, vars, Tasks
<1>2. CASE CreateFile(i)
  <2>0. file' \in [Hosts -> [1..MaxFiles -> {"absent", "partial", "whole"}]]
    BY <1>1, <1>2, FileWrite DEF CreateFile, SSHInv, SSHTypeOK
  <2>1. SSHTypeOK'
    BY <1>1, <1>2, <2>0 DEF CreateFile, vars, SSHInv, SSHTypeOK
  <2>2. QED
    BY <1>2, <2>1, PoolUntouched DEF CreateFile, vars
<1>3. CASE CopyEnds(i)
  <2>1. StepAt(pos[i] + 1) \in {"open", "exec"}
    BY DEF StepAt
  <2>0. file' \in [Hosts -> [1..MaxFiles -> {"absent", "partial", "whole"}]]
    BY <1>1, <1>3, FileWrite DEF CopyEnds, SSHInv, SSHTypeOK
  <2>2. SSHTypeOK'
    BY <1>1, <1>3, <2>0, <2>1 DEF CopyEnds, vars, SSHInv, SSHTypeOK
  <2>3. QED
    BY <1>3, <2>1, <2>2, PoolUntouched DEF CopyEnds, vars
<1>4. CASE TransferFails(i)
  <2>1. SSHTypeOK'
    BY <1>1, <1>4 DEF TransferFails, SSHInv, SSHTypeOK
  <2>2. QED
    BY <1>4, <2>1, PoolUntouched DEF TransferFails, Failed, ExecuteReturns
<1>5. QED
  BY <1>2, <1>3, <1>4 DEF TransferAnswers

(* The session and the wait for its command leave the pool alone.          *)
LEMMA CommandInv ==
  ASSUME IInv, SSHInv, NEW i \in Tasks,
         NoCommand(i) \/ SessionAnswers(i) \/ Wait(i)
  PROVE  SSHInv'
<1>1. Tasks' = Tasks
  BY DEF NoCommand, SessionAnswers, SessionOpens, SessionFails, Wait, SelectDone,
         SelectTimeout, Failed, ExecuteReturns, vars, Tasks
<1>2. SSHTypeOK'
  BY <1>1 DEF NoCommand, SessionAnswers, SessionOpens, SessionFails, Wait, SelectDone,
              SelectTimeout, SSHInv, SSHTypeOK
<1>3. CASE SessionOpens(i)
  BY <1>2, <1>3, PoolUntouched DEF SessionOpens, vars
<1>4. CASE NoCommand(i) \/ SelectDone(i)
  BY <1>2, <1>4, PoolUntouched DEF NoCommand, SelectDone, ExecuteReturns
<1>5. CASE SessionFails(i) \/ SelectTimeout(i)
  BY <1>2, <1>5, PoolUntouched DEF SessionFails, SelectTimeout, Failed, ExecuteReturns
<1>6. QED
  BY <1>3, <1>4, <1>5 DEF SessionAnswers, Wait

(* Close counts down every connection of the map and empties it; a lost    *)
(* connection and the end of a command leave map and mutex alone.          *)
LEMMA OutsideInv ==
  ASSUME IInv, SSHInv,
         Close \/ Host \/ (\E i \in Tasks : CommandExits(i)) \/ UNCHANGED allVars
  PROVE  SSHInv'
<1>1. Tasks' = Tasks /\ targets' = targets /\ g' = g /\ step' = step /\ mu' = mu
  BY DEF Close, Host, LinkBreaks, CommandExits, allVars, sshVars, vars, Tasks
<1>2. SSHTypeOK' /\ OneConnectionPerHost'
  <2>1. CASE Close
    BY <1>1, <2>1 DEF Close, SSHInv, SSHTypeOK, OneConnectionPerHost
  <2>2. CASE Host
    BY <1>1, <2>2, TaskKindsAssumption
       DEF Host, LinkBreaks, SSHInv, SSHTypeOK, OneConnectionPerHost, TaskKindsAssumption
  <2>3. CASE \E i \in Tasks : CommandExits(i)
    BY <1>1, <2>3 DEF CommandExits, SSHInv, SSHTypeOK, OneConnectionPerHost
  <2>4. CASE UNCHANGED allVars
    BY <1>1, <2>4 DEF allVars, sshVars, SSHInv, SSHTypeOK, OneConnectionPerHost
  <2>5. QED
    BY <2>1, <2>2, <2>3, <2>4
<1>3. clients' \subseteq clients
  BY DEF Close, Host, LinkBreaks, CommandExits, allVars, sshVars
<1>4. DialersHoldMutex' /\ CallsMatch'
  BY <1>1, <1>3 DEF SSHInv, DialersHoldMutex, CallsMatch
<1>5. QED
  BY <1>2, <1>4 DEF SSHInv

-----------------------------------------------------------------------------
(* Every step of the program keeps the accounting of the pool.             *)
LEMMA SSHStepInv == IInv /\ SSHInv /\ [SSHNext]_allVars => SSHInv'
<1> SUFFICES ASSUME IInv, SSHInv, [SSHNext]_allVars PROVE SSHInv'
  OBVIOUS
<1>1. CASE \E hosts \in Batches, t \in TaskKinds : CallTask(hosts, t)
  BY <1>1, CallTaskInv
<1>2. CASE Dispatch /\ UNCHANGED sshVars
  BY <1>2, RunPartInv
<1>3. CASE \E i \in Tasks : EnterExecute(i)
  BY <1>3, EnterExecuteInv
<1>4. CASE \E i \in Tasks : RunStep(i)
  BY <1>4, RunPartInv DEF RunStep
<1>5. CASE \E i \in Tasks : Execute(i)
  BY <1>5, GetCachedInv, GetDialsInv, DialSucceedsInv, DialFailsInv, TransferInv, CommandInv
     DEF Execute, LocalStep, DialAnswers
<1>6. CASE Close \/ Host \/ (\E i \in Tasks : CommandExits(i)) \/ UNCHANGED allVars
  BY <1>6, OutsideInv
<1>7. QED
  BY <1>1, <1>2, <1>3, <1>4, <1>5, <1>6 DEF SSHNext

(* The pool's map, its mutex and the connections that are open always      *)
(* agree, for every set of host lists, tasks and failures (pool.go:19-49). *)
THEOREM PoolAccounting == SSHSpec => []SSHInv
BY SSHInitInv, SSHStepInv, ExecutorKeepsAccounting, PTL DEF SSHSpec

(* However many tasks ask for a host at once, one connection to it is open *)
(* at most, and it is the pooled one (pool.go:19-49).                      *)
THEOREM ConnectionsPooled == SSHSpec => []OneConnectionPerHost
<1>1. SSHInv => OneConnectionPerHost
  BY DEF SSHInv
<1>2. QED
  BY <1>1, PoolAccounting, PTL

(* Only a task that is dialling holds the pool's mutex, and nobody does    *)
(* when Run has returned (pool.go:20-21).                                  *)
THEOREM MutexReleased == SSHSpec => []MutexHandedOn
<1>1. IInv /\ SSHInv => MutexHandedOn
  <2> SUFFICES ASSUME IInv, SSHInv PROVE MutexHandedOn
    OBVIOUS
  <2>1. \A i \in Tasks : mu = i => g[i] = "executing" /\ step[i] = "dialing"
    BY DEF SSHInv, DialersHoldMutex, CallsMatch
  <2>2. phase = "returned" => mu = Free
    BY FreeBetweenCalls
  <2>3. QED
    BY <2>1, <2>2 DEF MutexHandedOn
<1>2. QED
  BY <1>1, PoolAccounting, ExecutorKeepsAccounting, PTL

(* ssh/pool.go, ssh_executor.go:13-43: the executor's state keeps its      *)
(* type, for every set of host lists, tasks and failures.                  *)
THEOREM ExecutorTyped == SSHSpec => []SSHTypeOK
<1>1. SSHInv => SSHTypeOK
  BY DEF SSHInv
<1>2. QED
  BY <1>1, PoolAccounting, PTL

-----------------------------------------------------------------------------
(***************************************************************************)
(* The files of a task, and what its result means.                         *)
(***************************************************************************)
Arrived(i, k) == \A j \in 1..k : file[targets[i]][j] = "whole"

\* Where a task stands with its files and its answer.  The host keeps what
\* was sent because no other task of the call writes to it.
FilesFor(i) ==
  /\ step[i] = "none" <=> g[i] \in {"none", "spawned"}
  /\ step[i] \in {"none", "get", "dialing"} => pos[i] = 1
  /\ step[i] \in {"open", "copy"} => pos[i] <= task.files
  /\ step[i] = "answered" /\ out[i].ok /\ task.cmd => proc[i] = "exit0"
  /\ ListedOnce(i) =>
       /\ step[i] \in {"open", "copy"} => Arrived(i, pos[i] - 1)
       /\ step[i] \in {"exec", "wait"} => Arrived(i, task.files)
       /\ step[i] = "answered" /\ out[i].ok => Arrived(i, task.files)

FilesInv == \A i \in Tasks : FilesFor(i)

(* A file of a task is one of those the model has room for.                *)
LEMMA FileIndex ==
  ASSUME SSHTypeOK, NEW i \in Tasks, pos[i] <= task.files
  PROVE  pos[i] \in 1..MaxFiles
<1> DEFINE counts == {t.files : t \in TaskKinds}
<1>1. \E n \in counts : \A t \in TaskKinds : t.files <= n
  BY TaskKindsAssumption DEF TaskKindsAssumption
<1>2. MaxFiles \in counts /\ \A t \in TaskKinds : t.files <= MaxFiles
  BY <1>1 DEF MaxFiles
<1>3. task \in TaskKinds /\ task.files <= MaxFiles
  BY <1>2 DEF SSHTypeOK
<1>4. task.files \in Nat /\ MaxFiles \in Nat
  BY <1>2, <1>3, TaskKindsAssumption DEF TaskKindsAssumption
<1>5. pos[i] \in Nat \ {0}
  BY DEF SSHTypeOK
<1>6. QED
  BY <1>3, <1>4, <1>5

(* The step of one task leaves the others' accounts true: it writes to no  *)
(* host but its own.                                                       *)
LEMMA OthersKeepFiles ==
  ASSUME FilesInv, NEW i \in Tasks, FilesFor(i)',
         UNCHANGED <<targets, task>>,
         \A j \in Tasks \ {i} : /\ step'[j] = step[j] /\ pos'[j] = pos[j]
                                /\ proc'[j] = proc[j] /\ out'[j] = out[j] /\ g'[j] = g[j],
         \A h \in Hosts : h # targets[i] => file'[h] = file[h],
         \A j \in Tasks : targets[j] \in Hosts
  PROVE  FilesInv'
<1>1. Tasks' = Tasks
  BY DEF Tasks
<1>2. ASSUME NEW j \in Tasks, j # i PROVE FilesFor(j)'
  <2>1. FilesFor(j)
    BY DEF FilesInv
  <2>2. ListedOnce(j)' => ListedOnce(j) /\ file'[targets[j]] = file[targets[j]]
    BY <1>1, <1>2 DEF ListedOnce
  <2>3. QED
    BY <1>2, <2>1, <2>2 DEF FilesFor, Arrived
<1>3. QED
  BY <1>1, <1>2 DEF FilesInv

(* A new call begins with nothing sent and nothing answered.               *)
LEMMA CallTaskFiles ==
  ASSUME NEW hosts \in Batches, NEW t \in TaskKinds, CallTask(hosts, t)
  PROVE  FilesInv'
<1>1. Tasks' = DOMAIN hosts
  BY DEF CallTask, Call, Tasks
<1>2. \A i \in Tasks' : step'[i] = "none" /\ g'[i] = "none" /\ pos'[i] = 1
  BY <1>1 DEF CallTask, Call
<1>3. QED
  BY <1>2 DEF FilesInv, FilesFor

(* A step of Run around Execute sends nothing and changes no result.       *)
LEMMA RunPartFiles ==
  ASSUME IInv, FilesInv, UNCHANGED sshVars,
         Dispatch \/ \E i \in Tasks : Cancel(i) \/ Release(i) \/ Done(i) \/ Expire(i)
  PROVE  FilesInv'
<1>1. targets' = targets /\ Tasks' = Tasks /\ out' = out
  BY DEF Dispatch, Add, Acquire, Return, Cancel, Release, Done, Expire, Tasks
<1>2. \A j \in Tasks : g[j] \in {"none", "spawned"} <=> g'[j] \in {"none", "spawned"}
  <2>1. CASE Acquire
    <3>1. next \in Tasks /\ g[next] = "none"
      BY <2>1, TasksFinite DEF Acquire, IInv, LoopIndex, TypeOK
    <3>2. QED
      BY <2>1, <3>1 DEF Acquire, IInv, TypeOK
  <2>2. CASE Add \/ Return \/ \E i \in Tasks : Expire(i)
    BY <2>2 DEF Add, Return, Expire
  <2>3. CASE \E i \in Tasks : Cancel(i) \/ Release(i) \/ Done(i)
    BY <2>3 DEF Cancel, Release, Done, IInv, TypeOK
  <2>4. QED
    BY <2>1, <2>2, <2>3 DEF Dispatch
<1>3. \A j \in Tasks : ListedOnce(j)' => ListedOnce(j)
  BY <1>1 DEF ListedOnce
<1>4. ASSUME NEW j \in Tasks PROVE FilesFor(j)'
  <2>1. FilesFor(j)
    BY DEF FilesInv
  <2>2. QED
    BY <1>1, <1>2, <1>3, <2>1 DEF FilesFor, Arrived, sshVars
<1>5. QED
  BY <1>1, <1>4 DEF FilesInv

(* Until a task sends its first file there is nothing to keep.             *)
LEMMA EntryFiles ==
  ASSUME IInv, SSHInv, FilesInv, NEW i \in Tasks,
         EnterExecute(i) \/ GetCached(i) \/ GetDials(i) \/ DialSucceeds(i)
  PROVE  FilesInv'
<1>1. \A j \in Tasks : targets[j] \in Hosts
  BY TaskFacts
<1>2. FilesFor(i)
  BY DEF FilesInv
<1>3. task \in TaskKinds /\ task.files \in Nat
  BY TaskKindsAssumption DEF SSHInv, SSHTypeOK, TaskKindsAssumption
<1>4. UNCHANGED <<targets, task, pos, proc, out, file>>
  BY DEF EnterExecute, Begin, GetCached, GetDials, DialSucceeds, vars
<1>5. pos[i] = 1
  BY <1>2 DEF EnterExecute, Begin, GetCached, GetDials, DialSucceeds, FilesFor, SSHInv, CallsMatch
<1>6. \/ step' = [step EXCEPT ![i] = "get"]
      \/ step' = [step EXCEPT ![i] = "dialing"]
      \/ step' = [step EXCEPT ![i] = StepAt(1)]
  BY DEF EnterExecute, GetCached, GetDials, DialSucceeds
<1>7. g' = g \/ g' = [g EXCEPT ![i] = "executing"]
  BY DEF EnterExecute, Begin, GetCached, GetDials, DialSucceeds, vars
<1>8. step'[i] \in {"get", "dialing", "open", "exec"} /\ g'[i] = "executing"
      /\ (step'[i] = "open" => 1 <= task.files) /\ (step'[i] = "exec" => task.files = 0)
  <2>1. step'[i] \in {"get", "dialing", StepAt(1)}
    BY <1>6 DEF SSHInv, SSHTypeOK
  <2>2. StepAt(1) \in {"open", "exec"} /\ (StepAt(1) = "open" => 1 <= task.files)
        /\ (StepAt(1) = "exec" => task.files = 0)
    BY <1>3 DEF StepAt
  <2>3. g'[i] = "executing"
    BY DEF EnterExecute, Begin, GetCached, GetDials, DialSucceeds, vars, SSHInv, CallsMatch,
           IInv, TypeOK
  <2>4. QED
    BY <2>1, <2>2, <2>3
<1>9. FilesFor(i)'
  BY <1>3, <1>4, <1>5, <1>8 DEF FilesFor, Arrived
<1>10. QED
  BY <1>1, <1>4, <1>6, <1>7, <1>9, OthersKeepFiles DEF SSHInv, SSHTypeOK, IInv, TypeOK

(* An answer that is not OK promises nothing.                              *)
LEMMA FailedFiles ==
  ASSUME IInv, SSHInv, FilesInv, NEW i \in Tasks, Failed(i),
         step' = [step EXCEPT ![i] = "answered"], UNCHANGED <<task, pos, proc, file>>
  PROVE  FilesInv'
<1>1. \A j \in Tasks : targets[j] \in Hosts
  BY TaskFacts
<1>2. out'[i].ok = FALSE /\ step'[i] = "answered" /\ g'[i] = "stored"
  BY DEF Failed, ExecuteReturns, IInv, TypeOK, SSHInv, SSHTypeOK
<1>3. FilesFor(i)'
  BY <1>2 DEF FilesFor
<1>4. QED
  BY <1>1, <1>3, OthersKeepFiles DEF Failed, ExecuteReturns, SSHInv, SSHTypeOK, IInv, TypeOK

(* A transfer adds its file to those that have arrived.                    *)
LEMMA TransferFiles ==
  ASSUME IInv, SSHInv, FilesInv, NEW i \in Tasks, TransferAnswers(i)
  PROVE  FilesInv'
<1>1. \A j \in Tasks : targets[j] \in Hosts
  BY TaskFacts
<1>2. FilesFor(i)
  BY DEF FilesInv
<1>3. task \in TaskKinds /\ task.files \in Nat /\ pos[i] \in Nat \ {0}
  BY TaskKindsAssumption DEF SSHInv, SSHTypeOK, TaskKindsAssumption
<1>4. CASE TransferFails(i)
  BY <1>4, FailedFiles DEF TransferFails
<1> DEFINE h == targets[i]
<1>5. ASSUME NEW v, file' = [file EXCEPT ![h][pos[i]] = v],
             step[i] \in {"open", "copy"}
      PROVE  /\ \A x \in Hosts : x # h => file'[x] = file[x]
             /\ \A j \in 1..(pos[i] - 1) : file'[h][j] = file[h][j]
             /\ file'[h][pos[i]] = v
  <2>1. pos[i] \in 1..MaxFiles
    BY <1>2, <1>5, FileIndex DEF FilesFor, SSHInv
  <2>2. file \in [Hosts -> [1..MaxFiles -> {"absent", "partial", "whole"}]]
    BY DEF SSHInv, SSHTypeOK
  <2>3. h \in Hosts
    BY <1>1
  <2>4. file'[h] = [file[h] EXCEPT ![pos[i]] = v]
    BY <1>5, <2>2, <2>3
  <2>5. file[h] \in [1..MaxFiles -> {"absent", "partial", "whole"}]
    BY <2>2, <2>3
  <2>6. \A j \in 1..(pos[i] - 1) : j # pos[i]
    BY <1>3
  <2>7. \A j \in 1..(pos[i] - 1) : file'[h][j] = file[h][j]
    BY <1>3, <2>1, <2>4, <2>5, <2>6
  <2>8. file'[h][pos[i]] = v
    BY <2>1, <2>4, <2>5
  <2>9. \A x \in Hosts : x # h => file'[x] = file[x]
    BY <1>5, <2>2
  <2>10. QED
    BY <2>7, <2>8, <2>9
<1>6. CASE CreateFile(i)
  <2>1. step'[i] = "copy" /\ UNCHANGED <<targets, task, pos, proc, out, g>> /\ Tasks' = Tasks
    BY <1>6 DEF CreateFile, vars, SSHInv, SSHTypeOK, Tasks
  <2>2. Arrived(i, pos[i] - 1) => Arrived(i, pos[i] - 1)'
    BY <1>5, <1>6, <2>1 DEF CreateFile, Arrived
  <2>3. ListedOnce(i)' => ListedOnce(i)
    BY <2>1 DEF ListedOnce
  <2>4. FilesFor(i)'
    BY <1>2, <1>6, <2>1, <2>2, <2>3 DEF CreateFile, FilesFor
  <2>5. QED
    BY <1>1, <1>5, <1>6, <2>1, <2>4, OthersKeepFiles DEF CreateFile, SSHInv, SSHTypeOK
<1>7. CASE CopyEnds(i)
  <2>1. UNCHANGED <<targets, task, proc, out, g>> /\ pos'[i] = pos[i] + 1 /\ Tasks' = Tasks
        /\ step'[i] = StepAt(pos[i] + 1)
    BY <1>7 DEF CopyEnds, vars, SSHInv, SSHTypeOK, Tasks
  <2>2. /\ step'[i] \in {"open", "exec"}
        /\ step'[i] = "open" => pos[i] + 1 <= task.files
        /\ step'[i] = "exec" => pos[i] = task.files
    BY <1>2, <1>3, <1>7, <2>1 DEF CopyEnds, StepAt, FilesFor
  <2>3. Arrived(i, pos[i] - 1) => \A j \in 1..pos[i] : file'[h][j] = "whole"
    <3>1. \A j \in 1..pos[i] : j \in 1..(pos[i] - 1) \/ j = pos[i]
      BY <1>3
    <3>2. SUFFICES ASSUME Arrived(i, pos[i] - 1), NEW j \in 1..pos[i]
                   PROVE  file'[h][j] = "whole"
      OBVIOUS
    <3>3. QED
      BY <1>5, <1>7, <3>1, <3>2 DEF CopyEnds, Arrived
  <2>4. ListedOnce(i)' => ListedOnce(i)
    BY <2>1 DEF ListedOnce
  <2>5. FilesFor(i)'
    BY <1>2, <1>3, <1>7, <2>1, <2>2, <2>3, <2>4 DEF CopyEnds, FilesFor, Arrived
  <2>6. QED
    BY <1>1, <1>5, <1>7, <2>1, <2>5, OthersKeepFiles DEF CopyEnds, SSHInv, SSHTypeOK
<1>8. QED
  BY <1>4, <1>6, <1>7 DEF TransferAnswers

(* The command runs over what has arrived, and OK is its status 0.         *)
LEMMA CommandFiles ==
  ASSUME IInv, SSHInv, FilesInv, NEW i \in Tasks,
         NoCommand(i) \/ SessionAnswers(i) \/ Wait(i)
  PROVE  FilesInv'
<1>1. \A j \in Tasks : targets[j] \in Hosts
  BY TaskFacts
<1>2. FilesFor(i)
  BY DEF FilesInv
<1>3. CASE SessionFails(i) \/ SelectTimeout(i)
  BY <1>3, FailedFiles DEF SessionFails, SelectTimeout
<1>4. CASE SessionOpens(i)
  <2>1. step[i] = "exec" /\ step'[i] = "wait" /\ UNCHANGED <<targets, task, pos, file, out, g>>
        /\ Tasks' = Tasks
    BY <1>4 DEF SessionOpens, vars, SSHInv, SSHTypeOK, Tasks
  <2>2. FilesFor(i)'
    BY <1>2, <2>1 DEF FilesFor, Arrived, ListedOnce
  <2>3. QED
    BY <1>1, <1>4, <2>1, <2>2, OthersKeepFiles DEF SessionOpens, SSHInv, SSHTypeOK
<1>5. CASE NoCommand(i) \/ SelectDone(i)
  <2>1. /\ step[i] \in {"exec", "wait"} /\ step' = [step EXCEPT ![i] = "answered"]
        /\ UNCHANGED <<targets, task, pos, proc, file>> /\ Tasks' = Tasks
        /\ g' = [g EXCEPT ![i] = "stored"]
    BY <1>5 DEF NoCommand, SelectDone, ExecuteReturns, Tasks
  <2>2. out'[i].ok /\ task.cmd => proc[i] = "exit0"
    BY <1>5 DEF NoCommand, SelectDone, ExecuteReturns, IInv, TypeOK
  <2>3. step'[i] = "answered"
    BY <2>1 DEF SSHInv, SSHTypeOK
  <2>4. FilesFor(i)'
    BY <1>2, <2>1, <2>2, <2>3 DEF FilesFor, Arrived, ListedOnce
  <2>5. \A j \in Tasks \ {i} : out'[j] = out[j]
    BY <1>5 DEF NoCommand, SelectDone, ExecuteReturns, IInv, TypeOK
  <2>6. QED
    BY <1>1, <2>1, <2>4, <2>5, OthersKeepFiles DEF SSHInv, SSHTypeOK, IInv, TypeOK
<1>6. QED
  BY <1>3, <1>4, <1>5 DEF SessionAnswers, Wait

(* The hosts end a command, or lose it, only while its task waits for it.  *)
LEMMA OutsideFiles ==
  ASSUME SSHInv, FilesInv,
         Close \/ Host \/ (\E i \in Tasks : CommandExits(i)) \/ UNCHANGED allVars
  PROVE  FilesInv'
<1>1. /\ Tasks' = Tasks
      /\ UNCHANGED <<targets, g, out, task, step, pos, file>>
  BY DEF Close, Host, LinkBreaks, CommandExits, allVars, sshVars, vars, Tasks
<1>2. \A i \in Tasks : step[i] = "answered" => proc'[i] = proc[i]
  BY DEF Close, Host, LinkBreaks, CommandExits, allVars, sshVars, SSHInv, SSHTypeOK
<1>3. ASSUME NEW i \in Tasks PROVE FilesFor(i)'
  <2>1. FilesFor(i) /\ (ListedOnce(i)' => ListedOnce(i))
    BY <1>1 DEF FilesInv, ListedOnce
  <2>2. QED
    BY <1>1, <1>2, <2>1 DEF FilesFor, Arrived
<1>4. QED
  BY <1>1, <1>3 DEF FilesInv

(* Every step keeps the account of the files.                              *)
LEMMA FilesStep == IInv /\ SSHInv /\ FilesInv /\ [SSHNext]_allVars => FilesInv'
<1> SUFFICES ASSUME IInv, SSHInv, FilesInv, [SSHNext]_allVars PROVE FilesInv'
  OBVIOUS
<1>1. CASE \E hosts \in Batches, t \in TaskKinds : CallTask(hosts, t)
  BY <1>1, CallTaskFiles
<1>2. CASE Dispatch /\ UNCHANGED sshVars
  BY <1>2, RunPartFiles
<1>3. CASE \E i \in Tasks : RunStep(i)
  BY <1>3, RunPartFiles DEF RunStep
<1>4. CASE \E i \in Tasks : EnterExecute(i)
  BY <1>4, EntryFiles
<1>5. CASE \E i \in Tasks : Execute(i)
  <2>1. PICK i \in Tasks : Execute(i)
    BY <1>5
  <2>2. CASE DialFails(i)
    BY <2>2, FailedFiles DEF DialFails
  <2>3. CASE GetCached(i) \/ GetDials(i) \/ DialSucceeds(i)
    BY <2>3, EntryFiles
  <2>4. CASE TransferAnswers(i)
    BY <2>4, TransferFiles
  <2>5. CASE NoCommand(i) \/ SessionAnswers(i) \/ Wait(i)
    BY <2>5, CommandFiles
  <2>6. QED
    BY <2>1, <2>2, <2>3, <2>4, <2>5 DEF Execute, LocalStep, DialAnswers
<1>6. CASE Close \/ Host \/ (\E i \in Tasks : CommandExits(i)) \/ UNCHANGED allVars
  BY <1>6, OutsideFiles
<1>7. QED
  BY <1>1, <1>2, <1>3, <1>4, <1>5, <1>6 DEF SSHNext

(* The account of the files holds at first and for ever.                   *)
LEMMA FilesAccounted == SSHSpec => []FilesInv
<1>1. SSHInit => FilesInv
  BY DEF SSHInit, Init, Tasks, FilesInv
<1>2. QED
  BY <1>1, FilesStep, PoolAccounting, ExecutorKeepsAccounting, PTL DEF SSHSpec

(* A command starts only on a host that has every file of its task, whole, *)
(* whatever an earlier attempt or a lost connection left there, as long as *)
(* the call names the host once (ssh_executor.go:19-31).                   *)
THEOREM FilesBeforeCommand == SSHSpec => []CommandHasFiles
<1>1. FilesInv => CommandHasFiles
  BY DEF FilesInv, FilesFor, Arrived, CommandHasFiles
<1>2. QED
  BY <1>1, FilesAccounted, PTL

(* A result that says OK is one of a task whose files arrived and whose    *)
(* command ran to its end with status 0 (ssh_executor.go:32-42).           *)
THEOREM OKIsDone == SSHSpec => []OKMeansDone
<1>1. IInv /\ SSHInv /\ FilesInv => OKMeansDone
  <2> SUFFICES ASSUME IInv, SSHInv, FilesInv, NEW i \in Tasks,
                      g[i] \notin {"none", "spawned", "executing"}, out[i].ok
               PROVE  /\ task.cmd => proc[i] = "exit0"
                      /\ ListedOnce(i) => \A k \in 1..task.files : file[targets[i]][k] = "whole"
    BY DEF OKMeansDone
  <2>1. step[i] = "answered"
    BY DEF FilesInv, FilesFor, SSHInv, CallsMatch
  <2>2. QED
    BY <2>1 DEF FilesInv, FilesFor, Arrived
<1>2. QED
  BY <1>1, FilesAccounted, PoolAccounting, ExecutorKeepsAccounting, PTL
=============================================================================
