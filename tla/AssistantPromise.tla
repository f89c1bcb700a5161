-------------------------- MODULE AssistantPromise --------------------------
(***************************************************************************)
(* What the Assistant promises about a change it proposes, with no model   *)
(* turns, effects, retries or crashes: it is reviewed, then decided by the *)
(* user; if approved it makes one revision of the Workflow, out of the     *)
(* revision it was evaluated against; and it starts one Run, of the        *)
(* revision it made.                                                       *)
(***************************************************************************)
EXTENDS Integers, Sequences

CONSTANTS Changes, User

VARIABLES
  stage, \* change -> how far it has come
  base,  \* change -> revision it was evaluated against
  line,  \* who made each revision of the Workflow
  ran    \* change -> revision its Run was frozen from, 0 if none

promise == <<stage, base, line, ran>>

Init ==
  /\ stage = [c \in Changes |-> "none"]
  /\ base = [c \in Changes |-> 0]
  /\ line = <<User>>
  /\ ran = [c \in Changes |-> 0]

Move(c, from, to) == stage[c] = from /\ stage' = [stage EXCEPT ![c] = to]

Propose(c) ==
  /\ Move(c, "none", "proposed")
  /\ base' = [base EXCEPT ![c] = Len(line)]
  /\ UNCHANGED <<line, ran>>
\* One proposal at a time waits for the user.
Review(c) ==
  /\ \/ /\ Move(c, "proposed", "awaiting")
        /\ \A d \in Changes : stage[d] # "awaiting"
     \/ Move(c, "proposed", "refused")
  /\ UNCHANGED <<base, line, ran>>
Decide(c) ==
  /\ Move(c, "awaiting", "approved") \/ Move(c, "awaiting", "declined")
  /\ UNCHANGED <<base, line, ran>>
Apply(c) ==
  /\ Move(c, "approved", "applied")
  /\ Len(line) = base[c]
  /\ line' = Append(line, c)
  /\ UNCHANGED <<base, ran>>
Run(c) ==
  /\ Move(c, "applied", "running")
  /\ ran' = [ran EXCEPT ![c] = base[c] + 1]
  /\ UNCHANGED <<base, line>>
Edit == line' = Append(line, User) /\ UNCHANGED <<stage, base, ran>>

Next == Edit \/ \E c \in Changes : Propose(c) \/ Review(c) \/ Decide(c) \/ Apply(c) \/ Run(c)
Spec == Init /\ [][Next]_promise
=============================================================================
