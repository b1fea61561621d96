---------------------------- MODULE RunnerProofs ----------------------------
(***************************************************************************)
(* Proofs about Run: its accounting invariant, the properties that follow  *)
(* from it, and that it implements BoundedBatch.                           *)
(***************************************************************************)
EXTENDS Runner, FiniteSetTheorems, TLAPS

-----------------------------------------------------------------------------
(* The host list is a sequence, so the task indices are 1..Len(targets). *)
LEMMA TasksFinite ==
  ASSUME targets \in Batches \union {<<>>}
  PROVE  /\ targets \in Seq(Hosts)
         /\ Tasks = 1..Len(targets)
         /\ Len(targets) \in Nat
         /\ IsFiniteSet(Tasks)
<1>1. <<>> \in Seq(Hosts)
  OBVIOUS
<1>2. targets \in Seq(Hosts)
  BY <1>1, BatchesAssumption DEF BatchesAssumption
<1>3. Tasks = 1..Len(targets) /\ Len(targets) \in Nat
  BY <1>2 DEF Tasks
<1>4. QED
  BY <1>2, <1>3, FS_Interval

(* The slot count NewRunner ends up with is positive. *)
LEMMA SlotsPositive == Slots \in Nat /\ Slots >= 1
BY ParallelismAssumption DEF Slots, ParallelismAssumption

(* Adding one element to, or taking one out of, a finite set. *)
LEMMA OneMore ==
  ASSUME NEW S, NEW T, NEW x, IsFiniteSet(S), x \notin S, T = S \union {x}
  PROVE  /\ Cardinality(S) \in Nat
         /\ Cardinality(T) = Cardinality(S) + 1
BY FS_AddElement, FS_CardinalityType

(* Moving one goroutine out of a set of them takes one from its size.      *)
LEMMA OneLess ==
  ASSUME NEW S, NEW T, NEW x, IsFiniteSet(S), x \in S, T = S \ {x}
  PROVE  /\ Cardinality(S) \in Nat \ {0}
         /\ Cardinality(T) = Cardinality(S) - 1
BY FS_RemoveElement, FS_CardinalityType, FS_EmptySet

-----------------------------------------------------------------------------
(* Before the first call there are no tasks to account for.                *)
LEMMA InitInv == Init => IInv
<1> SUFFICES ASSUME Init PROVE IInv
  OBVIOUS
<1>1. Tasks = {} /\ Len(targets) = 0
  BY DEF Init, Tasks
<1>2. Holding = {} /\ Counted = {}
  BY <1>1 DEF Holding, Counted
<1>3. TypeOK
  BY <1>1, SlotsPositive DEF Init, TypeOK
<1>4. QED
  BY <1>1, <1>2, <1>3, FS_EmptySet
     DEF Init, IInv, LoopIndex, SlotsCounted, TasksCounted, ResultsStored, ContextsScoped

(* A new call starts from fresh variables. *)
LEMMA CallInv ==
  ASSUME IInv, NEW hosts \in Batches, Call(hosts)
  PROVE  IInv'
<1>1. /\ targets' \in Seq(Hosts)
      /\ Tasks' = 1..Len(targets')
      /\ Len(targets') \in Nat
  <2>1. targets' = hosts /\ hosts \in Seq(Hosts)
    BY BatchesAssumption DEF Call, BatchesAssumption
  <2>2. QED
    BY <2>1 DEF Tasks
<1>2. Holding' = {} /\ Counted' = {}
  BY DEF Call, Holding, Counted, Tasks
<1>3. TypeOK'
  BY <1>1, SlotsPositive DEF Call, TypeOK, GoStates, ZeroResult, Slots, Tasks
<1>4. QED
  BY <1>1, <1>2, <1>3, FS_EmptySet
     DEF Call, IInv, LoopIndex, SlotsCounted, TasksCounted, ResultsStored,
         ContextsScoped, Tasks, ZeroResult

(***************************************************************************)
(* The steps of the caller's loop.                                         *)
(***************************************************************************)
LEMMA AddInv == ASSUME IInv, Add PROVE IInv'
<1>1. Tasks' = Tasks /\ Holding' = Holding /\ Counted' = Counted
  BY DEF Add, Tasks, Holding, Counted
<1>2. Cardinality(Counted) \in Nat
  <2>1. IsFiniteSet(Counted)
    BY TasksFinite, FS_Subset DEF Counted, IInv, TypeOK
  <2>2. QED
    BY <2>1, FS_CardinalityType
<1>3. TypeOK'
  BY <1>1 DEF Add, IInv, TypeOK
<1>4. TasksCounted'
  BY <1>1, <1>2 DEF Add, IInv, TasksCounted, TypeOK
<1>5. QED
  BY <1>1, <1>3, <1>4
     DEF Add, IInv, LoopIndex, SlotsCounted, ResultsStored, ContextsScoped

(* The slot taken is the one the new goroutine holds.                      *)
LEMMA AcquireInv == ASSUME IInv, Acquire PROVE IInv'
<1>1. next \in Tasks /\ g[next] = "none"
  BY TasksFinite DEF Acquire, IInv, LoopIndex, TypeOK
<1>2. /\ Tasks' = Tasks
      /\ Holding' = Holding \union {next} /\ next \notin Holding
      /\ Counted' = Counted \union {next} /\ next \notin Counted
  BY <1>1 DEF Acquire, Tasks, Holding, Counted, IInv, TypeOK
<1>3. IsFiniteSet(Holding) /\ IsFiniteSet(Counted)
  BY TasksFinite, FS_Subset DEF Holding, Counted, IInv, TypeOK
<1>4. /\ Cardinality(Holding') = Cardinality(Holding) + 1
      /\ Cardinality(Counted') = Cardinality(Counted) + 1
      /\ Cardinality(Counted) \in Nat
  BY <1>2, <1>3, OneMore
<1>5. TypeOK'
  <2>1. next + 1 \in 1..(Len(targets) + 1)
    BY <1>1, TasksFinite DEF IInv, TypeOK
  <2>2. sem + 1 \in 0..Slots
    BY SlotsPositive DEF Acquire, IInv, TypeOK
  <2>3. QED
    BY <1>1, <1>2, <2>1, <2>2, SlotsPositive DEF Acquire, IInv, TypeOK, GoStates, Slots
<1>6. LoopIndex'
  BY <1>1, <1>2, TasksFinite DEF Acquire, IInv, LoopIndex, TypeOK
<1>7. SlotsCounted' /\ TasksCounted'
  BY <1>4 DEF Acquire, IInv, SlotsCounted, TasksCounted
<1>8. ResultsStored' /\ ContextsScoped'
  BY <1>1, <1>2 DEF Acquire, IInv, ResultsStored, ContextsScoped, TypeOK
<1>9. QED
  BY <1>5, <1>6, <1>7, <1>8 DEF IInv

(* The wait group is zero only when no goroutine is counted.               *)
LEMMA ReturnInv == ASSUME IInv, Return PROVE IInv'
<1>1. Tasks' = Tasks /\ Holding' = Holding /\ Counted' = Counted
  BY DEF Return, Tasks, Holding, Counted
<1>2. next = Len(targets) + 1
  BY TasksFinite DEF Return, IInv, TypeOK
<1>3. TypeOK'
  BY <1>1 DEF Return, IInv, TypeOK
<1>4. QED
  BY <1>1, <1>2, <1>3
     DEF Return, IInv, LoopIndex, SlotsCounted, TasksCounted, ResultsStored, ContextsScoped

(***************************************************************************)
(* The steps of a goroutine.                                               *)
(***************************************************************************)
LEMMA BeginInv == ASSUME IInv, NEW i \in Tasks, Begin(i) PROVE IInv'
<1>1. Tasks' = Tasks /\ Holding' = Holding /\ Counted' = Counted
  BY DEF Begin, Tasks, Holding, Counted, IInv, TypeOK
<1>2. TypeOK'
  BY <1>1 DEF Begin, IInv, TypeOK, GoStates
<1>3. LoopIndex' /\ SlotsCounted' /\ TasksCounted'
  BY <1>1 DEF Begin, IInv, LoopIndex, SlotsCounted, TasksCounted, TypeOK
<1>4. ResultsStored' /\ ContextsScoped'
  BY <1>1 DEF Begin, IInv, ResultsStored, ContextsScoped, TypeOK
<1>5. QED
  BY <1>2, <1>3, <1>4 DEF IInv

(* A deadline moves no goroutine and no counter.                           *)
LEMMA ExpireInv == ASSUME IInv, NEW i \in Tasks, Expire(i) PROVE IInv'
<1>1. Tasks' = Tasks /\ Holding' = Holding /\ Counted' = Counted
  BY DEF Expire, Tasks, Holding, Counted
<1>2. TypeOK'
  BY <1>1 DEF Expire, IInv, TypeOK
<1>3. LoopIndex' /\ SlotsCounted' /\ TasksCounted' /\ ResultsStored'
  BY <1>1 DEF Expire, IInv, LoopIndex, SlotsCounted, TasksCounted, ResultsStored
<1>4. ContextsScoped'
  BY <1>1 DEF Expire, IInv, ContextsScoped, TypeOK
<1>5. QED
  BY <1>2, <1>3, <1>4 DEF IInv

(* A stored result names the host of its index.                            *)
LEMMA ExecuteReturnsInv ==
  ASSUME IInv, NEW i \in Tasks, NEW r \in Answers(i), ExecuteReturns(i, r)
  PROVE  IInv'
<1>1. Tasks' = Tasks /\ Holding' = Holding /\ Counted' = Counted
  BY DEF ExecuteReturns, Tasks, Holding, Counted, IInv, TypeOK
<1>2. targets[i] \in Hosts /\ Blank \notin Hosts
  BY TasksFinite, BatchesAssumption DEF IInv, TypeOK, BatchesAssumption
<1>3. out'[i] = [host |-> targets[i], ok |-> r.ok] /\ r.ok \in BOOLEAN
  BY <1>2 DEF ExecuteReturns, Answers, IInv, TypeOK
<1>4. TypeOK'
  <2>1. out' \in [Tasks -> [host : Hosts \union {Blank}, ok : BOOLEAN]]
    BY <1>2, <1>3 DEF ExecuteReturns, IInv, TypeOK
  <2>2. QED
    BY <1>1, <2>1 DEF ExecuteReturns, IInv, TypeOK, GoStates
<1>5. LoopIndex' /\ SlotsCounted' /\ TasksCounted'
  BY <1>1 DEF ExecuteReturns, IInv, LoopIndex, SlotsCounted, TasksCounted, TypeOK
<1>6. ResultsStored'
  BY <1>1, <1>3 DEF ExecuteReturns, IInv, ResultsStored, TypeOK
<1>7. ContextsScoped'
  BY <1>1 DEF ExecuteReturns, IInv, ContextsScoped, TypeOK
<1>8. QED
  BY <1>4, <1>5, <1>6, <1>7 DEF IInv

(* The context ends with the goroutine's work, the slot is still held.     *)
LEMMA CancelInv == ASSUME IInv, NEW i \in Tasks, Cancel(i) PROVE IInv'
<1>1. Tasks' = Tasks /\ Holding' = Holding /\ Counted' = Counted
  BY DEF Cancel, Tasks, Holding, Counted, IInv, TypeOK
<1>2. TypeOK'
  BY <1>1 DEF Cancel, IInv, TypeOK, GoStates
<1>3. LoopIndex' /\ SlotsCounted' /\ TasksCounted'
  BY <1>1 DEF Cancel, IInv, LoopIndex, SlotsCounted, TasksCounted, TypeOK
<1>4. ResultsStored' /\ ContextsScoped'
  BY <1>1 DEF Cancel, IInv, ResultsStored, ContextsScoped, TypeOK
<1>5. QED
  BY <1>2, <1>3, <1>4 DEF IInv

(* A slot is given back by the goroutine that held it, once.               *)
LEMMA ReleaseInv == ASSUME IInv, NEW i \in Tasks, Release(i) PROVE IInv'
<1>1. /\ Tasks' = Tasks
      /\ Holding' = Holding \ {i} /\ i \in Holding
      /\ Counted' = Counted
  BY DEF Release, Tasks, Holding, Counted, IInv, TypeOK
<1>2. IsFiniteSet(Holding)
  BY TasksFinite, FS_Subset DEF Holding, IInv, TypeOK
<1>3. /\ Cardinality(Holding) \in Nat \ {0}
      /\ Cardinality(Holding') = Cardinality(Holding) - 1
  BY <1>1, <1>2, OneLess
<1>4. TypeOK'
  BY <1>1, <1>3, SlotsPositive DEF Release, IInv, SlotsCounted, TypeOK, GoStates, Slots
<1>5. LoopIndex' /\ SlotsCounted' /\ TasksCounted'
  BY <1>1, <1>3 DEF Release, IInv, LoopIndex, SlotsCounted, TasksCounted, TypeOK
<1>6. ResultsStored' /\ ContextsScoped'
  BY <1>1 DEF Release, IInv, ResultsStored, ContextsScoped, TypeOK
<1>7. QED
  BY <1>4, <1>5, <1>6 DEF IInv

(* A goroutine leaves the wait group's count as it ends.                   *)
LEMMA DoneInv == ASSUME IInv, NEW i \in Tasks, Done(i) PROVE IInv'
<1>1. /\ Tasks' = Tasks
      /\ Holding' = Holding
      /\ Counted' = Counted \ {i} /\ i \in Counted
  BY DEF Done, Tasks, Holding, Counted, IInv, TypeOK
<1>2. IsFiniteSet(Counted)
  BY TasksFinite, FS_Subset DEF Counted, IInv, TypeOK
<1>3. /\ Cardinality(Counted) \in Nat \ {0}
      /\ Cardinality(Counted') = Cardinality(Counted) - 1
  BY <1>1, <1>2, OneLess
<1>4. TypeOK'
  BY <1>1, <1>3 DEF Done, IInv, TasksCounted, TypeOK, GoStates
<1>5. phase # "returned"
  BY <1>3 DEF IInv, LoopIndex, TasksCounted
<1>6. LoopIndex' /\ SlotsCounted' /\ TasksCounted'
  BY <1>1, <1>3, <1>5 DEF Done, IInv, LoopIndex, SlotsCounted, TasksCounted, TypeOK
<1>7. ResultsStored' /\ ContextsScoped'
  BY <1>1 DEF Done, IInv, ResultsStored, ContextsScoped, TypeOK
<1>8. QED
  BY <1>4, <1>6, <1>7 DEF IInv

(* A step that leaves Run's variables alone keeps the accounting.          *)
LEMMA StutterInv == ASSUME IInv, UNCHANGED vars PROVE IInv'
BY DEF vars, IInv, TypeOK, LoopIndex, SlotsCounted, TasksCounted, ResultsStored,
       ContextsScoped, Tasks, Holding, Counted

-----------------------------------------------------------------------------
(* Every step of Run keeps the accounting invariant. *)
LEMMA StepInv == IInv /\ [Next]_vars => IInv'
<1> SUFFICES ASSUME IInv, [Next]_vars PROVE IInv'
  OBVIOUS
<1>1. CASE \E hosts \in Batches : Call(hosts)
  BY <1>1, CallInv
<1>2. CASE Dispatch
  BY <1>2, AddInv, AcquireInv, ReturnInv DEF Dispatch
<1>3. CASE \E i \in Tasks : Bookkeeping(i) \/ Expire(i)
  BY <1>3, BeginInv, CancelInv, ReleaseInv, DoneInv, ExpireInv DEF Bookkeeping
<1>4. CASE \E i \in Tasks : \E r \in Answers(i) : ExecuteReturns(i, r)
  BY <1>4, ExecuteReturnsInv
<1>5. CASE UNCHANGED vars
  BY <1>5, StutterInv
<1>6. QED
  BY <1>1, <1>2, <1>3, <1>4, <1>5 DEF Next

(* Run's counters always equal the sets of goroutines they count, and its   *)
(* slice holds the result of every goroutine that stored one (runner.go:26- *)
(* 54), for every list of hosts and every parallelism.                      *)
THEOREM Accounting == Spec => []IInv
BY InitInv, StepInv, PTL DEF Spec

(* The variables of Run keep their types and the bounds of the semaphore    *)
(* and the loop index (runner.go:30-36).                                    *)
THEOREM TypeCorrect == Spec => []TypeOK
<1>1. IInv => TypeOK
  BY DEF IInv
<1>2. QED
  BY <1>1, Accounting, PTL

(* No more than Slots tasks are ever between acquiring a slot and storing   *)
(* their result (runner.go:31-36), four when the parallelism given to       *)
(* NewRunner is not positive.                                               *)
THEOREM ParallelismBounded == Spec => []BoundedParallelism
<1>1. IInv => BoundedParallelism
  <2> SUFFICES ASSUME IInv PROVE BoundedParallelism
    OBVIOUS
  <2>1. IsFiniteSet(Holding)
    BY TasksFinite, FS_Subset DEF Holding, IInv, TypeOK
  <2>2. InFlight \in SUBSET Holding
    BY DEF InFlight, Holding
  <2>3. /\ Cardinality(InFlight) \in Nat
        /\ Cardinality(InFlight) <= Cardinality(Holding)
    BY <2>1, <2>2, FS_Subset, FS_CardinalityType
  <2>4. sem = Cardinality(Holding) /\ sem \in 0..Slots
    BY DEF IInv, SlotsCounted, TypeOK
  <2>5. QED
    BY <2>3, <2>4, SlotsPositive DEF BoundedParallelism
<1>2. QED
  BY <1>1, Accounting, PTL

(* With the wait group at zero and the loop over, every goroutine is done.  *)
LEMMA AllDone ==
  ASSUME IInv, wg = 0, next = Len(targets) + 1, phase # "acquire"
  PROVE  \A i \in Tasks : g[i] = "done"
<1>1. IsFiniteSet(Counted)
  BY TasksFinite, FS_Subset DEF Counted, IInv, TypeOK
<1>2. Counted = {}
  <2>1. Cardinality(Counted) = 0
    BY <1>1, FS_CardinalityType DEF IInv, TasksCounted
  <2>2. QED
    BY <1>1, <2>1, FS_EmptySet
<1>3. \A i \in Tasks : g[i] # "none"
  BY TasksFinite DEF IInv, LoopIndex, TypeOK
<1>4. QED
  BY <1>2, <1>3 DEF Counted, IInv, TypeOK, GoStates

(* Run returns a slice that holds, at every index, the result of that       *)
(* host, and leaves no goroutine, slot or timer behind (runner.go:38-53).   *)
THEOREM ReturnsComplete == Spec => []CompleteOnReturn
<1>1. IInv => CompleteOnReturn
  <2> SUFFICES ASSUME IInv, phase = "returned" PROVE CompleteOnReturn
    BY DEF CompleteOnReturn
  <2>1. \A i \in Tasks : g[i] = "done"
    BY AllDone DEF IInv, LoopIndex
  <2>2. \A i \in Tasks : out[i].host = targets[i]
    BY <2>1 DEF IInv, ResultsStored
  <2>3. \A i \in Tasks : ctx[i] = "cancelled"
    BY <2>1 DEF IInv, ContextsScoped, TypeOK
  <2>4. Holding = {}
    BY <2>1 DEF Holding
  <2>5. sem = 0
    BY <2>4, FS_EmptySet DEF IInv, SlotsCounted
  <2>6. QED
    BY <2>1, <2>2, <2>3, <2>5 DEF CompleteOnReturn
<1>2. QED
  BY <1>1, Accounting, PTL

(* A result that a goroutine has stored is the one the caller gets          *)
(* (runner.go:49): no other goroutine and no later step replaces it.        *)
THEOREM ResultsNeverReplaced == Spec => ResultsAreFinal
<1> DEFINE Kept == \A i \in Tasks :
             (out[i] # ZeroResult /\ phase \in {"loop", "acquire"}) => out'[i] = out[i]
<1>1. IInv /\ [Next]_vars => [Kept]_vars
  <2> SUFFICES ASSUME IInv, Next PROVE Kept
    BY DEF vars
  <2>1. CASE \E hosts \in Batches : Call(hosts)
    BY <2>1 DEF Call
  <2>2. CASE Dispatch
    BY <2>2 DEF Dispatch, Add, Acquire, Return
  <2>3. CASE \E i \in Tasks : Bookkeeping(i) \/ Expire(i)
    BY <2>3 DEF Bookkeeping, Begin, Cancel, Release, Done, Expire
  <2>4. CASE \E i \in Tasks : \E r \in Answers(i) : ExecuteReturns(i, r)
    BY <2>4 DEF ExecuteReturns, IInv, TypeOK, ResultsStored
  <2>5. QED
    BY <2>1, <2>2, <2>3, <2>4 DEF Next
<1>2. QED
  BY <1>1, Accounting, PTL DEF Spec, ResultsAreFinal

-----------------------------------------------------------------------------
(***************************************************************************)
(* Run implements BoundedBatch.  Acquire is its Start, ExecuteReturns its  *)
(* Finish, Return its Answer; every other step leaves the batch alone.     *)
(***************************************************************************)
BatchStatus == [i \in Tasks |-> StatusOf(i)]

(* Run begins where the batch does.                                        *)
LEMMA BatchInit == Init => Batch!Init
BY DEF Init, Batch!Init, Tasks

\* A step that keeps g on the mapped values keeps the mapped status.
(* Steps that leave the bookkeeping states together are stutters.          *)
LEMMA SameStatus ==
  ASSUME Tasks' = Tasks,
         \A i \in Tasks : StatusOf(i)' = StatusOf(i)
  PROVE  BatchStatus' = BatchStatus
BY DEF BatchStatus

(* Acquiring a slot starts the task of the loop index.                     *)
LEMMA BatchAcquire == ASSUME IInv, Acquire PROVE Batch!Start(next)
<1>1. next \in Tasks /\ g[next] = "none"
  BY TasksFinite DEF Acquire, IInv, LoopIndex, TypeOK
<1>2. Cardinality(InFlight) < Slots
  <2>1. IsFiniteSet(Holding)
    BY TasksFinite, FS_Subset DEF Holding, IInv, TypeOK
  <2>2. InFlight \in SUBSET Holding
    BY DEF InFlight, Holding
  <2>3. /\ Cardinality(InFlight) \in Nat
        /\ Cardinality(InFlight) <= Cardinality(Holding)
    BY <2>1, <2>2, FS_Subset, FS_CardinalityType
  <2>4. Cardinality(Holding) < Slots /\ Cardinality(Holding) \in Nat
    BY <2>1, FS_CardinalityType DEF Acquire, IInv, SlotsCounted
  <2>5. QED
    BY <2>3, <2>4, SlotsPositive
<1>3. Batch!Active = InFlight
  BY DEF Batch!Active, Batch!Tasks, Tasks, InFlight, StatusOf
<1>4. BatchStatus' = [BatchStatus EXCEPT ![next] = "active"]
  BY <1>1 DEF Acquire, BatchStatus, StatusOf, InFlight, Tasks, IInv, TypeOK
<1>5. BatchStatus[next] = "queued"
  BY <1>1 DEF BatchStatus, StatusOf
<1>6. Batch!Cardinality(Batch!Active) = Cardinality(InFlight)
  BY <1>3 DEF Cardinality, Batch!Cardinality
<1>7. Batch!Cardinality(Batch!Active) < Slots
  BY <1>2, <1>6
<1>8. UNCHANGED <<targets, phase \in {"loop", "acquire"}, out>>
  BY DEF Acquire
<1>9. QED
  BY <1>4, <1>5, <1>7, <1>8 DEF Batch!Start, BatchStatus

(* Storing a result finishes the task.                                     *)
LEMMA BatchFinish ==
  ASSUME IInv, NEW i \in Tasks, NEW r \in Answers(i), ExecuteReturns(i, r)
  PROVE  Batch!Finish(i, r.ok)
<1>1. targets[i] \in Hosts /\ Blank \notin Hosts
  BY TasksFinite, BatchesAssumption DEF IInv, TypeOK, BatchesAssumption
<1>2. out' = [out EXCEPT ![i] = [host |-> targets[i], ok |-> r.ok]]
  <2>1. PICK h \in {Blank, targets[i]}, o \in BOOLEAN : r = [host |-> h, ok |-> o]
    BY DEF Answers
  <2>2. [r EXCEPT !.host = IF r.host = Blank THEN targets[i] ELSE r.host]
          = [host |-> targets[i], ok |-> r.ok]
    BY <2>1
  <2>3. QED
    BY <2>2 DEF ExecuteReturns
<1>3. BatchStatus[i] = "active"
  BY DEF BatchStatus, StatusOf, InFlight, ExecuteReturns
<1>4. BatchStatus' = [BatchStatus EXCEPT ![i] = "finished"]
  BY DEF BatchStatus, StatusOf, InFlight, ExecuteReturns, Tasks, IInv, TypeOK
<1>5. QED
  BY <1>2, <1>3, <1>4 DEF Batch!Finish, BatchStatus, ExecuteReturns

(* Returning answers the batch.                                            *)
LEMMA BatchAnswer == ASSUME IInv, Return PROVE Batch!Answer
<1>1. next = Len(targets) + 1
  BY TasksFinite DEF Return, IInv, TypeOK
<1>2. \A i \in Tasks : g[i] = "done"
  BY <1>1, AllDone DEF Return
<1>3. \A i \in Tasks : BatchStatus[i] = "finished"
  BY <1>2 DEF BatchStatus, StatusOf, InFlight
<1>4. BatchStatus' = BatchStatus
  BY DEF BatchStatus, StatusOf, InFlight, Tasks, Return
<1>5. QED
  BY <1>3, <1>4 DEF Batch!Answer, Batch!Tasks, Tasks, BatchStatus, Return

(* A call submits the batch.                                               *)
LEMMA BatchSubmit ==
  ASSUME IInv, NEW hosts \in Batches, Call(hosts)
  PROVE  Batch!Submit(hosts)
<1>1. BatchStatus' = [i \in DOMAIN hosts |-> "queued"]
  BY DEF Call, BatchStatus, StatusOf, Tasks
<1>2. QED
  BY <1>1 DEF Call, Batch!Submit, BatchStatus, ZeroResult

(* What the promise does not see is a stutter of it.                       *)
LEMMA BatchStutter ==
  ASSUME IInv,
         \/ Add
         \/ \E i \in Tasks : Bookkeeping(i) \/ Expire(i)
         \/ UNCHANGED vars
  PROVE  UNCHANGED Batch!vars
<1>1. /\ targets' = targets /\ out' = out /\ Tasks' = Tasks
      /\ (phase \in {"loop", "acquire"})' = (phase \in {"loop", "acquire"})
  BY DEF Add, Bookkeeping, Begin, Cancel, Release, Done, Expire, vars, Tasks
<1>2. \A j \in Tasks : StatusOf(j)' = StatusOf(j)
  BY <1>1 DEF Add, Bookkeeping, Begin, Cancel, Release, Done, Expire, vars,
              StatusOf, InFlight, IInv, TypeOK
<1>3. BatchStatus' = BatchStatus
  BY <1>1, <1>2, SameStatus
<1>4. QED
  BY <1>1, <1>3 DEF Batch!vars, BatchStatus

(* The code of Run implements the batch its callers rely on: a task starts  *)
(* only while fewer than Slots are active, finishes once with a result that *)
(* names its host, and the call is answered only when all have finished     *)
(* (runner.go:26-54 against BoundedBatch).                                  *)
THEOREM RunImplementsBatch == Spec => ImplementsBatch
<1>1. IInv /\ [Next]_vars => [Batch!Next]_(Batch!vars)
  <2> SUFFICES ASSUME IInv, [Next]_vars PROVE [Batch!Next]_(Batch!vars)
    OBVIOUS
  <2>1. CASE \E hosts \in Batches : Call(hosts)
    BY <2>1, BatchSubmit DEF Batch!Next
  <2>2. CASE Add
    BY <2>2, BatchStutter
  <2>3. CASE Acquire
    <3>1. next \in Batch!Tasks
      BY <2>3, TasksFinite DEF Acquire, IInv, LoopIndex, TypeOK, Batch!Tasks, Tasks
    <3>2. QED
      BY <2>3, <3>1, BatchAcquire DEF Batch!Next
  <2>4. CASE Return
    BY <2>4, BatchAnswer DEF Batch!Next
  <2>5. CASE \E i \in Tasks : Bookkeeping(i) \/ Expire(i)
    BY <2>5, BatchStutter
  <2>6. CASE \E i \in Tasks : \E r \in Answers(i) : ExecuteReturns(i, r)
    <3>1. PICK i \in Tasks : \E r \in Answers(i) : ExecuteReturns(i, r)
      BY <2>6
    <3>2. PICK r \in Answers(i) : ExecuteReturns(i, r)
      BY <3>1
    <3>3. i \in Batch!Tasks /\ r.ok \in BOOLEAN
      BY DEF Batch!Tasks, Tasks, Answers
    <3>4. QED
      BY <3>2, <3>3, BatchFinish DEF Batch!Next
  <2>7. CASE UNCHANGED vars
    BY <2>7, BatchStutter
  <2>8. QED
    BY <2>1, <2>2, <2>3, <2>4, <2>5, <2>6, <2>7 DEF Next, Dispatch
<1>2. QED
  BY <1>1, BatchInit, Accounting, PTL DEF Spec, ImplementsBatch, Batch!Spec
=============================================================================
