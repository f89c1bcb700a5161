-------------------------- MODULE MCGenerationTask --------------------------
(* Small instances of GenerationTask for TLC. *)
EXTENDS GenerationTask

\* Progress that never regresses, and progress that may vanish again.
UnknownProgress == {NoProgress}
VanishingProgress == {NoProgress, 50}
=============================================================================
