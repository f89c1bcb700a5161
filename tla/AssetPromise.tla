---------------------------- MODULE AssetPromise ----------------------------
(***************************************************************************)
(* What Assets promise to everyone who holds an Asset ID: bytes that were  *)
(* accepted stay obtainable until the environment destroys them, and an    *)
(* Asset is given up only when they are.                                   *)
(***************************************************************************)
CONSTANT Ids

VARIABLES
  phase,    \* "Unknown", "Accepted", "Readable" or "GivenUp", of each Asset
  destroyed \* the Assets whose bytes the environment has taken away

promiseVars == <<phase, destroyed>>

Init ==
  /\ phase = [i \in Ids |-> "Unknown"]
  /\ destroyed = {}

Accept(i) ==
  /\ phase[i] = "Unknown"
  /\ phase' = [phase EXCEPT ![i] = "Accepted"]
  /\ UNCHANGED destroyed

Publish(i) ==
  /\ phase[i] = "Accepted"
  /\ phase' = [phase EXCEPT ![i] = "Readable"]
  /\ UNCHANGED destroyed

GiveUp(i) ==
  /\ phase[i] \in {"Accepted", "Readable"} /\ i \in destroyed
  /\ phase' = [phase EXCEPT ![i] = "GivenUp"]
  /\ UNCHANGED destroyed

Destroy ==
  /\ \E lost \in SUBSET Ids : destroyed' = destroyed \cup lost
  /\ UNCHANGED phase

Next == Destroy \/ \E i \in Ids : Accept(i) \/ Publish(i) \/ GiveUp(i)

Spec == Init /\ [][Next]_promiseVars
=============================================================================
