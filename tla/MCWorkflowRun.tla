--------------------------- MODULE MCWorkflowRun ---------------------------
(* Small plans for WorkflowRun. *)
EXTENDS WorkflowRun

\* Two roots and a node that needs both: a Join.
JoinUpstream == [n \in {"image", "text", "video"} |-> IF n = "video" THEN {"image", "text"} ELSE {}]

\* A chain, so that a failure blocks a node that is not its direct target.
ChainUpstream == [n \in {"image", "text", "video"} |->
  CASE n = "image" -> {} [] n = "text" -> {"image"} [] n = "video" -> {"text"}]
=============================================================================
