------------------------------- MODULE Runner -------------------------------
(***************************************************************************)
(* orchestrator.Runner.Run: the caller's goroutine walks the host list,    *)
(* takes a slot of a buffered channel for each host and spawns a goroutine *)
(* that executes the task under its own deadline; Run waits for all.       *)
(*                                                                         *)
(* The Executor is an interface in the code and an assumption here: Execute*)
(* may return any result at any time.  SSHExecutor.tla replaces that       *)
(* assumption by the code behind the interface.                            *)
(***************************************************************************)
EXTENDS Integers, FiniteSets, Sequences

CONSTANTS Batches,      \* the host lists Run is called with
          Parallelism,  \* the argument of NewRunner
          Blank         \* the empty host name

Hosts == UNION {{b[i] : i \in DOMAIN b} : b \in Batches}

ASSUME BatchesAssumption ==
  /\ \A b \in Batches : b \in Seq(Hosts)
  /\ Blank \notin Hosts

ASSUME ParallelismAssumption == Parallelism \in Int

VARIABLES phase,    \* the caller: "idle", "loop", "acquire", "returned"
          targets,  \* Run's hosts argument
          next,     \* the index the range loop is at
          sem,      \* elements in the channel sem
          wg,       \* the wait group's counter
          g,        \* per index: where its goroutine is
          ctx,      \* per index: the goroutine's context
          out       \* the slice of results

vars == <<phase, targets, next, sem, wg, g, ctx, out>>

-----------------------------------------------------------------------------
Tasks == DOMAIN targets

\* NewRunner replaces a parallelism that is not positive by 4.
Slots == IF Parallelism <= 0 THEN 4 ELSE Parallelism

\* The zero value make([]Result, n) fills the slice with.
ZeroResult == [host |-> Blank, ok |-> FALSE]

GoStates == {"none", "spawned", "executing", "stored", "cancelled",
             "released", "done"}
Holding   == {i \in Tasks : g[i] \in {"spawned", "executing", "stored", "cancelled"}}
InFlight  == {i \in Tasks : g[i] \in {"spawned", "executing"}}
Counted   == {i \in Tasks : g[i] \notin {"none", "done"}}

Init ==
  /\ phase = "idle"
  /\ targets = <<>>
  /\ next = 1
  /\ sem = 0
  /\ wg = 0
  /\ g = <<>>
  /\ ctx = <<>>
  /\ out = <<>>

\* Run is called: fresh slice, channel and wait group.
Call(hosts) ==
  /\ phase \in {"idle", "returned"}
  /\ phase' = "loop"
  /\ targets' = hosts
  /\ next' = 1
  /\ sem' = 0
  /\ wg' = 0
  /\ g' = [i \in DOMAIN hosts |-> "none"]
  /\ ctx' = [i \in DOMAIN hosts |-> "none"]
  /\ out' = [i \in DOMAIN hosts |-> ZeroResult]

\* Mutant of Add: the wait group never hears of the task.
AddForgotten ==
  /\ phase = "loop"
  /\ next \in Tasks
  /\ phase' = "acquire"
  /\ UNCHANGED <<targets, next, sem, wg, g, ctx, out>>

\* wg.Add(1), before the loop blocks on the channel.
Add ==
  /\ phase = "loop"
  /\ next \in Tasks
  /\ phase' = "acquire"
  /\ wg' = wg + 1
  /\ UNCHANGED <<targets, next, sem, g, ctx, out>>

\* Mutant of Acquire: the goroutine is spawned without a slot being free.
AcquireAnyway ==
  /\ phase = "acquire"
  /\ sem' = sem + 1
  /\ g' = [g EXCEPT ![next] = "spawned"]
  /\ next' = next + 1
  /\ phase' = "loop"
  /\ UNCHANGED <<targets, wg, ctx, out>>

\* sem <- struct{}{} goes through and the goroutine is spawned.
Acquire ==
  /\ phase = "acquire"
  /\ sem < Slots
  /\ sem' = sem + 1
  /\ g' = [g EXCEPT ![next] = "spawned"]
  /\ next' = next + 1
  /\ phase' = "loop"
  /\ UNCHANGED <<targets, wg, ctx, out>>

\* context.WithTimeout and the call of Execute: the clock of a task starts
\* when it has its slot, never while it is queued.
Begin(i) ==
  /\ g[i] = "spawned"
  /\ g' = [g EXCEPT ![i] = "executing"]
  /\ ctx' = [ctx EXCEPT ![i] = "live"]
  /\ UNCHANGED <<phase, targets, next, sem, wg, out>>

\* The deadline of a context that was not cancelled passes.
Expire(i) ==
  /\ ctx[i] = "live"
  /\ ctx' = [ctx EXCEPT ![i] = "expired"]
  /\ UNCHANGED <<phase, targets, next, sem, wg, g, out>>

\* Mutant of ExecuteReturns: index and host are declared outside the loop, so
\* that the goroutines share them with it (the variables of the loop itself,
\* in the Go of go.mod, are new in every iteration).
ExecuteReturnsShared(i, r) ==
  /\ g[i] = "executing"
  /\ g' = [g EXCEPT ![i] = "stored"]
  /\ LET j == IF next \in Tasks THEN next ELSE Len(targets)
     IN  out' = [out EXCEPT ![j] = [host |-> targets[j], ok |-> r.ok]]
  /\ UNCHANGED <<phase, targets, next, sem, wg, ctx>>

\* Execute returns r; an empty Host is filled in and the result stored.
ExecuteReturns(i, r) ==
  /\ g[i] = "executing"
  /\ g' = [g EXCEPT ![i] = "stored"]
  /\ out' = [out EXCEPT ![i] =
               [r EXCEPT !.host = IF r.host = Blank THEN targets[i] ELSE r.host]]
  /\ UNCHANGED <<phase, targets, next, sem, wg, ctx>>

\* The deferred calls, last one first: cancel(), <-sem, wg.Done().
Cancel(i) ==
  /\ g[i] = "stored"
  /\ g' = [g EXCEPT ![i] = "cancelled"]
  /\ ctx' = [ctx EXCEPT ![i] = "cancelled"]
  /\ UNCHANGED <<phase, targets, next, sem, wg, out>>

\* Mutants of Release: the slot is given back twice, or never.
ReleaseTwice(i) ==
  /\ g[i] = "cancelled"
  /\ g' = [g EXCEPT ![i] = "released"]
  /\ sem' = sem - 2
  /\ UNCHANGED <<phase, targets, next, wg, ctx, out>>

ReleaseForgotten(i) ==
  /\ g[i] = "cancelled"
  /\ g' = [g EXCEPT ![i] = "released"]
  /\ UNCHANGED <<phase, targets, next, sem, wg, ctx, out>>

Release(i) ==
  /\ g[i] = "cancelled"
  /\ g' = [g EXCEPT ![i] = "released"]
  /\ sem' = sem - 1
  /\ UNCHANGED <<phase, targets, next, wg, ctx, out>>

Done(i) ==
  /\ g[i] = "released"
  /\ g' = [g EXCEPT ![i] = "done"]
  /\ wg' = wg - 1
  /\ UNCHANGED <<phase, targets, next, sem, ctx, out>>

\* Mutant of Return: Run does not wait for its goroutines.
ReturnEarly ==
  /\ phase = "loop"
  /\ next \notin Tasks
  /\ phase' = "returned"
  /\ UNCHANGED <<targets, next, sem, wg, g, ctx, out>>

\* wg.Wait() after the loop, then return out.
Return ==
  /\ phase = "loop"
  /\ next \notin Tasks
  /\ wg = 0
  /\ phase' = "returned"
  /\ UNCHANGED <<targets, next, sem, wg, g, ctx, out>>

-----------------------------------------------------------------------------
\* What an Executor may return: its own host or none, success or not.
Answers(i) == [host : {Blank, targets[i]}, ok : BOOLEAN]

\* The bookkeeping of the goroutine of index i around Execute.
Bookkeeping(i) == Begin(i) \/ Cancel(i) \/ Release(i) \/ Done(i)

Dispatch == Add \/ Acquire \/ Return

Next ==
  \/ \E hosts \in Batches : Call(hosts)
  \/ Dispatch
  \/ \E i \in Tasks : Bookkeeping(i) \/ Expire(i)
  \/ \E i \in Tasks : \E r \in Answers(i) : ExecuteReturns(i, r)

Spec == Init /\ [][Next]_vars

-----------------------------------------------------------------------------
(***************************************************************************)
(* Fairness: the Go scheduler runs every runnable goroutine, and Execute   *)
(* returns.  The second is what an Executor owes Run.                      *)
(***************************************************************************)
TaskIds == UNION {DOMAIN b : b \in Batches}

Fairness ==
  /\ WF_vars(Dispatch)
  /\ \A i \in TaskIds : WF_vars(i \in Tasks /\ Bookkeeping(i))
  /\ \A i \in TaskIds :
       WF_vars(i \in Tasks /\ \E r \in Answers(i) : ExecuteReturns(i, r))

FairSpec == Spec /\ Fairness

-----------------------------------------------------------------------------
\* Types of Run's variables, the bounds of its counters included.
TypeOK ==
  /\ phase \in {"idle", "loop", "acquire", "returned"}
  /\ targets \in Batches \union {<<>>}
  /\ next \in 1..(Len(targets) + 1)
  /\ sem \in 0..Slots
  /\ wg \in Nat
  /\ g \in [Tasks -> GoStates]
  /\ ctx \in [Tasks -> {"none", "live", "expired", "cancelled"}]
  /\ out \in [Tasks -> [host : Hosts \union {Blank}, ok : BOOLEAN]]

\* runner.go:31-36: never more tasks between acquiring a slot and storing
\* their result than the configured parallelism.
BoundedParallelism == Cardinality(InFlight) <= Slots

\* runner.go:52-53: when Run returns, every index holds the result of the
\* host at that index, no goroutine of the call still has work to do, and
\* neither a slot nor a timer outlives the call.
CompleteOnReturn ==
  phase = "returned" =>
    /\ \A i \in Tasks : out[i].host = targets[i]
    /\ \A i \in Tasks : g[i] = "done" /\ ctx[i] = "cancelled"
    /\ sem = 0

\* runner.go:49: a goroutine writes its own element, once; no result a
\* goroutine has stored is replaced while the call is in progress.
ResultsAreFinal ==
  [][\A i \in Tasks :
       (out[i] # ZeroResult /\ phase \in {"loop", "acquire"}) => out'[i] = out[i]]_vars

\* runner.go:26: every call returns, however many hosts share the slots.
EveryCallReturns == (phase \in {"loop", "acquire"}) ~> (phase = "returned")

-----------------------------------------------------------------------------
(***************************************************************************)
(* The inductive invariant.  The two counters are the sizes of two sets of *)
(* goroutines; the loop index separates the spawned ones from the others;  *)
(* a result is there exactly when its goroutine has stored it.             *)
(***************************************************************************)
LoopIndex ==
  /\ \A i \in Tasks : g[i] = "none" <=> i >= next
  /\ phase = "acquire" => next \in Tasks
  /\ phase = "returned" => wg = 0 /\ next = Len(targets) + 1
  /\ phase = "idle" => targets = <<>>

SlotsCounted == sem = Cardinality(Holding)

\* wg.Add precedes the wait for a slot: one task may be counted before it
\* has a goroutine.
TasksCounted ==
  wg = Cardinality(Counted) + (IF phase = "acquire" THEN 1 ELSE 0)

ResultsStored ==
  \A i \in Tasks :
    IF g[i] \in {"none", "spawned", "executing"}
    THEN out[i] = ZeroResult
    ELSE out[i].host = targets[i]

ContextsScoped ==
  \A i \in Tasks :
    /\ g[i] \in {"none", "spawned"} <=> ctx[i] = "none"
    /\ g[i] \in {"executing", "stored"} <=> ctx[i] \in {"live", "expired"}

\* runner.go:26-54: the accounting of Run as a whole; the safety properties
\* above follow from it.
IInv ==
  /\ TypeOK
  /\ LoopIndex
  /\ SlotsCounted
  /\ TasksCounted
  /\ ResultsStored
  /\ ContextsScoped

-----------------------------------------------------------------------------
\* Run implements the batch its callers rely on.
StatusOf(i) == IF g[i] = "none" THEN "queued"
               ELSE IF i \in InFlight THEN "active" ELSE "finished"

Batch == INSTANCE BoundedBatch WITH
           batch  <- targets,
           open   <- phase \in {"loop", "acquire"},
           status <- [i \in Tasks |-> StatusOf(i)],
           result <- out

\* runner.go:26-54 against its promise: a task starts only with a slot free,
\* each finishes once with a result naming its host, and the call answers
\* when all have.
ImplementsBatch == Batch!Spec
=============================================================================
