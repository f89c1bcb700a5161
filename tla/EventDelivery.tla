--------------------------- MODULE EventDelivery ---------------------------
(***************************************************************************)
(* How the committed events of Workflow Runs leave the backend: the        *)
(* ordered event log of each Run, the use cases that append to it and      *)
(* publish what they appended, and the post-commit worker, which publishes *)
(* again every event whose delivery is not recorded.                       *)
(*                                                                         *)
(* A publication is an emission to the window: it arrives in order, at     *)
(* least once, and nobody hears whether anyone listened.                   *)
(***************************************************************************)
EXTENDS Naturals, Sequences, FiniteSets, SequencesExt

CONSTANTS
  MaxRuns,        \* Runs that may be admitted (bound)
  MaxEvents,      \* events a Run's executor commits before it is slow (bound)
  Outcomes,       \* how a node's capability may end
  MaxWire,        \* emitted events the window has not handled yet (bound)
  MaxCancels      \* cancel commands in one behaviour (bound)

ASSUME DeliveryAssumption ==
  /\ MaxRuns \in Nat \ {0} /\ MaxEvents \in Seq(Nat) /\ Len(MaxEvents) >= MaxRuns
  /\ Outcomes \subseteq {"node_succeeded", "node_failed"}
  /\ MaxWire \in Nat \ {0} /\ MaxCancels \in Nat

VARIABLES
  log,        \* the workflow_run_events of each Run: their kinds, in sequence
  delivered,  \* how many of a Run's events, the first ones, are recorded as delivered
  wire        \* emitted events the window has not handled

backend == <<log, delivered, wire>>

Runs == 1..MaxRuns
Finals == {"run_succeeded", "run_failed", "run_cancelled"}
Kinds == {"run_queued", "run_started", "node_started", "node_succeeded", "node_failed",
          "node_cancelled"} \cup Finals

Event(r, n) == [run |-> r, sequence |-> n]
Over(r) == log[r] # <<>> /\ Last(log[r]) \in Finals

InitDelivery ==
  /\ log = [r \in Runs |-> <<>>] /\ delivered = [r \in Runs |-> 0] /\ wire = <<>>

----------------------------------------------------------------------------
(* Commits.  The inside of the Run is module WorkflowRun; what matters     *)
(* here is the order of its events and who publishes them.                 *)

\* The kinds of event that may follow, for a Run of one node.
Follows(kind) ==
  CASE kind = "run_queued" -> {"run_started"}
    [] kind = "run_started" -> {"node_started"}
    [] kind = "node_started" -> Outcomes
    [] kind = "node_succeeded" -> {"run_succeeded"}
    [] kind = "node_failed" -> {"run_failed"}
    [] OTHER -> {}

\* admit_run records the first event and leaves its publication to the worker.
Admit(r) == log' = [log EXCEPT ![r] = <<"run_queued">>]

\* publish_committed_workflow_run_event: one emission, which may fail.
Emit(event) == Len(wire) < MaxWire /\ wire' = Append(wire, event)

\* What a use case commits it emits at once, one event after the other until an
\* emission fails; the completion of a Generation Task emits nothing.  The worker
\* emits every event in any case, as late as one likes, so that only the first
\* emission need be part of the commit.
CommitEvents(r, kinds) ==
  /\ log' = [log EXCEPT ![r] = @ \o kinds]
  /\ Emit(Event(r, Len(log[r]) + 1)) \/ UNCHANGED wire

Commits(r) ==
  /\ Len(log[r]) \in 1..MaxEvents[r] - 1
  /\ \E kind \in Follows(Last(log[r])) : CommitEvents(r, <<kind>>)
  /\ UNCHANGED delivered

\* cancel: every open node, then the Run, in one commit.
CancellationEvents(r) ==
  IF Last(log[r]) \in {"node_succeeded", "node_failed"} THEN <<"run_cancelled">>
  ELSE <<"node_cancelled", "run_cancelled">>

----------------------------------------------------------------------------
(* DesktopPostCommitEffectWorker::deliver_events.  The guard lets one slot *)
(* deliver at a time.  A pass lists what is undelivered, by Run and by     *)
(* sequence, and goes through it; a failure ends it and the next one       *)
(* begins again, so a step is always at the first undelivered event of a   *)
(* Run.  A Run's place in the list is its random UUID's: any.              *)

Undelivered(r) == delivered[r] < Len(log[r])

\* Mutant: an attempt counts as a delivery whatever became of it.
RecordAttempt(r, sent) == delivered' = [delivered EXCEPT ![r] = @ + 1]
\* record_event_delivery_attempt: only a successful attempt ends the delivery.
RecordDelivery(r, sent) == delivered' = [delivered EXCEPT ![r] = IF sent THEN @ + 1 ELSE @]

\* The emission is synchronous, and nobody but the worker reads the record.
Delivers(r) ==
  /\ Undelivered(r) /\ Emit(Event(r, delivered[r] + 1)) /\ RecordDelivery(r, TRUE)
  /\ UNCHANGED log

\* The emission fails, or the record of it does: another slot failed and
\* run_effect_batch aborts this one, or the database refuses.
DeliveryFails(r) ==
  /\ Undelivered(r)
  /\ \/ RecordDelivery(r, FALSE) /\ UNCHANGED wire
     \/ Emit(Event(r, delivered[r] + 1)) /\ UNCHANGED delivered
  /\ UNCHANGED log

Events == [run : Runs, sequence : Nat]
DeliveryType ==
  /\ log \in [Runs -> Seq(Kinds)] /\ delivered \in [Runs -> Nat]
  /\ \A r \in Runs : delivered[r] <= Len(log[r])
  /\ wire \in Seq(Events) /\ Len(wire) <= MaxWire
=============================================================================
