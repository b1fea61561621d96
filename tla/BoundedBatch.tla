---------------------------- MODULE BoundedBatch ----------------------------
(***************************************************************************)
(* What internal/orchestrator promises its callers, without goroutines,    *)
(* semaphore or wait group: a batch of hosts is submitted, at most Slots   *)
(* of its tasks are active at any time, each task finishes with one result *)
(* that names its host, and the batch is answered when all have finished.  *)
(***************************************************************************)
EXTENDS Integers, FiniteSets, Sequences

CONSTANTS Batches,  \* the host lists callers submit
          Slots,    \* how many tasks may be active at once
          Blank     \* the empty host name of a result not yet there

VARIABLES batch,    \* the host list being worked on
          open,     \* a batch is submitted and not answered
          status,   \* per task: "queued", "active" or "finished"
          result    \* per task: its result

vars == <<batch, open, status, result>>

Tasks == DOMAIN batch
Active == {i \in Tasks : status[i] = "active"}

Init ==
  /\ batch = <<>>
  /\ open = FALSE
  /\ status = <<>>
  /\ result = <<>>

Submit(hosts) ==
  /\ ~open
  /\ open' = TRUE
  /\ batch' = hosts
  /\ status' = [i \in DOMAIN hosts |-> "queued"]
  /\ result' = [i \in DOMAIN hosts |-> [host |-> Blank, ok |-> FALSE]]

Start(i) ==
  /\ status[i] = "queued"
  /\ Cardinality(Active) < Slots
  /\ status' = [status EXCEPT ![i] = "active"]
  /\ UNCHANGED <<batch, open, result>>

Finish(i, ok) ==
  /\ status[i] = "active"
  /\ status' = [status EXCEPT ![i] = "finished"]
  /\ result' = [result EXCEPT ![i] = [host |-> batch[i], ok |-> ok]]
  /\ UNCHANGED <<batch, open>>

Answer ==
  /\ open
  /\ \A i \in Tasks : status[i] = "finished"
  /\ open' = FALSE
  /\ UNCHANGED <<batch, status, result>>

Next ==
  \/ \E hosts \in Batches : Submit(hosts)
  \/ \E i \in Tasks : Start(i)
  \/ \E i \in Tasks, ok \in BOOLEAN : Finish(i, ok)
  \/ Answer

Spec == Init /\ [][Next]_vars
=============================================================================
