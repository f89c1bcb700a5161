--------------------------- MODULE EditingPromise ---------------------------
(***************************************************************************)
(* What Workflow editing and Run admission promise, with no calls,         *)
(* receipts, retries or crashes: one line of revisions, each made by one   *)
(* request from the one before it; one plan for each admitted request,     *)
(* frozen from the revision it names; and answers that are what the        *)
(* request did, whatever has happened since.                               *)
(***************************************************************************)
EXTENDS Naturals, Sequences

CONSTANTS
  Creations, Edits, Starts, Commands, Clock,
  EmptyDocument(_), \* the document made at a time
  Apply(_, _, _),   \* the set of results of the actions on a document at a time
  FreezePlan(_, _), \* the plan of a document and a scope
  Scopes(_)         \* the scopes a document can be run in

VARIABLES
  revisions, \* every document there has been, by revision
  made,      \* what each request did: its command and its result
  told       \* [request, command, answer] given to callers

promise == <<revisions, made, told>>

Unmade == [command |-> "none"]
Do(r, m, result) ==
  /\ made[r] = Unmade
  /\ made' = [made EXCEPT ![r] = [command |-> m, result |-> result]]
Told(r, did) == told \cup {[request |-> r, command |-> did.command, answer |-> did.result]}

Init ==
  /\ revisions = <<>> /\ told = {}
  /\ made = [r \in Creations \cup Edits \cup Starts |-> Unmade]

Create(r, m) ==
  /\ revisions = <<>>
  /\ \E t \in Clock : revisions' = <<EmptyDocument(t)>>
  /\ Do(r, m, Head(revisions'))
  /\ told' = Told(r, made'[r])

Edit(r, m) ==
  /\ revisions # <<>> /\ m.base = Len(revisions)
  /\ \E t \in Clock : \E d \in Apply(revisions[Len(revisions)], m.actions, t) :
       /\ d.updated > revisions[Len(revisions)].updated
       /\ revisions' = Append(revisions, d)
       /\ Do(r, m, d)
  /\ UNCHANGED told

Admit(r, m) ==
  /\ m.revision \in DOMAIN revisions
  /\ m.scope \in Scopes(revisions[m.revision])
  /\ Do(r, m, FreezePlan(revisions[m.revision], m.scope))
  /\ UNCHANGED <<revisions, told>>

Answer(r) ==
  /\ made[r] # Unmade
  /\ told' = Told(r, made[r])
  /\ UNCHANGED <<revisions, made>>

Next ==
  \/ \E r \in Creations : \E m \in Commands[r] : Create(r, m)
  \/ \E r \in Edits : \E m \in Commands[r] : Edit(r, m)
  \/ \E r \in Starts : \E m \in Commands[r] : Admit(r, m)
  \/ \E r \in Creations \cup Edits \cup Starts : Answer(r)

Spec == Init /\ [][Next]_promise
=============================================================================
