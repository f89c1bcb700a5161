----------------------------- MODULE RunPromise -----------------------------
(***************************************************************************)
(* What a Workflow Run promises to whoever watches it, with no executor,   *)
(* outbox, copy or process in sight: nodes start when all they need has    *)
(* succeeded, move one way, and give the Run its verdict; a cancellation   *)
(* freezes everything; an interruption freezes everything but the nodes    *)
(* whose Generation Task still has to report.                              *)
(***************************************************************************)
EXTENDS Naturals

CONSTANTS Nodes, Upstream

VARIABLES
  state,  \* state of the Run
  nodes   \* state of each Node Execution

Settled == {"Succeeded", "Failed", "Blocked", "Cancelled"}
Becomes(moved, to) == nodes' = [n \in Nodes |-> IF n \in moved THEN to ELSE nodes[n]]

Init == state = "Queued" /\ nodes = [n \in Nodes |-> "Pending"]

Begin == state = "Queued" /\ state' = "Running" /\ UNCHANGED nodes

StartNodes ==
  /\ state = "Running" /\ UNCHANGED state
  /\ \E batch \in SUBSET Nodes :
       /\ \A n \in batch : /\ nodes[n] = "Pending"
                           /\ \A u \in Upstream[n] : nodes[u] = "Succeeded"
       /\ Becomes(batch, "Running")

BlockNodes ==
  /\ state = "Running" /\ UNCHANGED state
  /\ \E u \in Nodes : nodes[u] = "Failed"
  /\ \E blocked \in SUBSET Nodes :
       /\ \A n \in blocked : nodes[n] = "Pending"
       /\ Becomes(blocked, "Blocked")

HandOff(n) ==
  /\ state = "Running" /\ nodes[n] = "Running"
  /\ Becomes({n}, "Waiting") /\ UNCHANGED state

End(n) ==
  /\ \/ state = "Running" /\ nodes[n] \in {"Running", "Waiting"}
     \/ state = "Interrupted" /\ nodes[n] = "Waiting"
  /\ \E outcome \in {"Succeeded", "Failed"} : Becomes({n}, outcome)
  /\ UNCHANGED state

Finish ==
  /\ state = "Running" /\ \A n \in Nodes : nodes[n] \in Settled
  /\ state' = IF \A n \in Nodes : nodes[n] = "Succeeded" THEN "Succeeded" ELSE "Failed"
  /\ UNCHANGED nodes

Cancel ==
  /\ state \in {"Queued", "Running"} /\ state' = "Cancelled"
  /\ Becomes({n \in Nodes : nodes[n] \notin Settled}, "Cancelled")

Interrupt == state = "Running" /\ state' = "Interrupted" /\ UNCHANGED nodes

Next ==
  \/ Begin \/ StartNodes \/ BlockNodes \/ Finish \/ Cancel \/ Interrupt
  \/ \E n \in Nodes : HandOff(n) \/ End(n)

Spec == Init /\ [][Next]_<<state, nodes>>
=============================================================================
