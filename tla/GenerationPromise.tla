-------------------------- MODULE GenerationPromise --------------------------
(***************************************************************************)
(* What the Generation Task component promises to the rest of the system   *)
(* about one generation intent, whatever crashes, retries, cancellations   *)
(* or conflicts happen inside it:                                          *)
(*                                                                         *)
(*   - the provider is asked to create at most one job, and only for a     *)
(*     node whose Run has committed its wait;                              *)
(*   - the intent gets one outcome, which never changes; a success was     *)
(*     paid for;                                                           *)
(*   - a waiting node ends with that outcome, and with nothing else.       *)
(***************************************************************************)
EXTENDS Naturals

VARIABLES
  creates,  \* create calls the provider has received
  outcome,  \* "Open", or the final outcome of the intent
  node      \* state of the origin Node Execution

pvars == <<creates, outcome, node>>

Init == creates = 0 /\ outcome = "Open" /\ node = "Running"

Wait ==
  /\ node = "Running" /\ node' = "Waiting"
  /\ UNCHANGED <<creates, outcome>>

Create ==
  /\ creates = 0 /\ outcome = "Open" /\ node # "Running"
  /\ creates' = 1
  /\ UNCHANGED <<outcome, node>>

Settle ==
  /\ outcome = "Open"
  /\ \/ outcome' = "Succeeded" /\ creates = 1
     \/ outcome' \in {"Failed", "Cancelled"}
  /\ UNCHANGED <<creates, node>>

Deliver ==
  /\ node = "Waiting" /\ outcome # "Open"
  /\ node' = IF outcome = "Succeeded" THEN "Succeeded" ELSE "Failed"
  /\ UNCHANGED <<creates, outcome>>

CancelNode ==
  /\ node \in {"Running", "Waiting"} /\ node' = "Cancelled"
  /\ UNCHANGED <<creates, outcome>>

Next == Wait \/ Create \/ Settle \/ Deliver \/ CancelNode

Spec == Init /\ [][Next]_pvars
=============================================================================
