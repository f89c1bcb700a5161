-------------------------- MODULE MCRunController --------------------------
(* The first Run may go on to its end, or be given up for a second one,    *)
(* whose executor is slow.                                                 *)
EXTENDS RunController

FullThenSlow == <<5, 1>>
Success == {"node_succeeded"}
AnyOutcome == {"node_succeeded", "node_failed"}
=============================================================================
