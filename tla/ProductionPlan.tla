--------------------------- MODULE ProductionPlan ---------------------------
(***************************************************************************)
(* The Assistant's working memory: an ordered list of items under a        *)
(* revision, replaced whole or moved one item at a time.  Titles, goals,   *)
(* reasons and notes are left out.                                         *)
(***************************************************************************)
EXTENDS Integers, Sequences

CONSTANT PlanItems   \* AssistantPlanItemId

NoPlan == [revision |-> 0, items |-> <<>>]
Item(id) == [id |-> id, state |-> "Pending"]

\* validate_items: an identity is used once.
ValidItems(items) == \A i, j \in DOMAIN items : items[i].id = items[j].id => i = j
ItemLists == {<<>>} \cup {<<Item(a)>> : a \in PlanItems}
               \cup {<<Item(a), Item(b)>> : a, b \in PlanItems}

NewPlan(items) == [revision |-> 1, items |-> items]
Replaced(plan, items) == [revision |-> plan.revision + 1, items |-> items]

\* start_item, block_item and complete_item.
ItemMoves(state) ==
  CASE state = "Pending"    -> {"InProgress", "Blocked"}
    [] state = "InProgress" -> {"Blocked", "Completed"}
    [] state = "Blocked"    -> {"InProgress"}
    [] state = "Completed"  -> {}
\* The plans one transition of an item makes.
Moved(plan) ==
  UNION {{[revision |-> plan.revision + 1, items |-> [plan.items EXCEPT ![i].state = to]] :
            to \in ItemMoves(plan.items[i].state)} : i \in DOMAIN plan.items}
=============================================================================
