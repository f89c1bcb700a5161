------------------------- MODULE MCAssistantChange --------------------------
(* Two turns that propose and review; a turn whose resumption meets a      *)
(* second one over the plan; one turn, the clock and the user's edits.     *)
EXTENDS AssistantChange

CONSTANTS t1, t2

Scene(first, second, edits, ticks) ==
  [tools |-> [t \in Turns |-> IF t = t1 THEN first ELSE second], edits |-> edits, ticks |-> ticks]
PlanScene == Scene({"change", "plan"}, {"plan"}, 1, 1)
ClockScene == Scene({"change"}, {}, 2, 2)
Behaviours == {Scene({"change"}, {"change"}, 0, 0), PlanScene, ClockScene}
OneChange == {PlanScene, ClockScene}
=============================================================================
