--------------------------- MODULE AssistantProofs ---------------------------
(***************************************************************************)
(* Theorems of AssistantChange, for every set of turns, every scenario and *)
(* every life time of an approval, and of AssistantExchange, for every set *)
(* of call IDs and every budget.                                           *)
(***************************************************************************)
EXTENDS AssistantChange, AssistantExchange, SequenceTheorems, FiniteSetTheorems, TLAPS

----------------------------------------------------------------------------
(***************************************************************************)
(* AssistantChange: a change is reviewed, decided, applied and run once.   *)
(*                                                                         *)
(* What the properties say of a row holds because the worker's place in    *)
(* its effect agrees with the row (StepOK): a step taken again after a     *)
(* release, a lost claim or a restart finds what the earlier attempt left. *)
(* The continuation file is what keeps a turn from being resumed twice: it *)
(* is gone once it was resumed, and no turn can write it again for a       *)
(* change that has been decided (ResumeOK).                                *)
(***************************************************************************)

----------------------------------------------------------------------------
(* The inductive invariant.                                                *)

Decided == {"Applying", "Applied"}
PlanRows == [revision : Nat, items : Seq([id : PlanItems,
                                          state : {"Pending", "InProgress", "Blocked", "Completed"}])]
Rows ==
  [state : States, base : Nat, expires : Nat, verdict : {"none", "Pass", "Reject"},
   cont : Turns \cup {None}, receipt : Nat, run : Nat,
   outcome : {"Pending", "Resumed", "Interrupted"}]
ExchangeRows ==
  [state : {"new", "open", "storing", "over", "completed", "failed"}, expires : Nat,
   pending : Turns \cup {None}, draft : PlanRows]
Places == {"idle", "dropped", "apply", "mark", "consume", "resuming", "interrupt", "start", "admit",
           "link", "finish"}
Types ==
  /\ scene \in Scenarios
  /\ changes \in [Turns -> Rows]
  /\ files \subseteq Turns \X Turns
  /\ plan \in PlanRows
  /\ line \in Seq(Turns \cup {User})
  /\ admitted \in [Turns -> Nat]
  /\ effect \in [Turns -> {"none", "ready", "claimed", "completed"}]
  /\ exchange \in [Exchanges -> ExchangeRows]
  /\ active \in BOOLEAN
  /\ facts \in [Turns -> Turns \cup {None}]
  /\ decision \in [Decisions -> [pc : {"idle", "commit", "consume"}, change : Turns \cup {None}]]
  /\ step \in [Turns -> Places]
  /\ now \in Nat
  /\ resumes \in [Turns -> {0, 1}]

\* A command under way names a change.
DecisionOK(d) == decision[d].pc # "idle" => decision[d].change \in Turns

\* The Workflow holds each applied change once, after the revision it was made for.
LineOK ==
  \A r \in DOMAIN line : line[r] \in Turns =>
    changes[line[r]].state \in Decided /\ r = changes[line[r]].base + 1
Restores(row) ==
  /\ IF row.state = "Applied"
     THEN row.receipt # 0 /\ (row.run # 0 => row.outcome # "Pending")
     ELSE row.receipt = 0 /\ row.run = 0 /\ row.outcome = "Pending"
  /\ row.state \in {"none", "Proposed"} => row.verdict = "none" /\ row.cont = None
  /\ row.state = "ReviewRejected" => row.verdict = "Reject" /\ row.cont = None
  /\ row.state \notin {"none", "Proposed", "ReviewRejected"} =>
       row.verdict = "Pass" /\ row.cont # None
RowOK(c) ==
  /\ Restores(changes[c])
  /\ changes[c].expires <= now + Lifetime
  /\ changes[c].state = "Applied" =>
       changes[c].receipt \in DOMAIN line /\ line[changes[c].receipt] = c
  /\ admitted[c] # 0 =>
       /\ changes[c].state = "Applied" /\ changes[c].outcome # "Pending"
       /\ admitted[c] = changes[c].receipt
\* Where the worker is in the effect of c agrees with the row of c.
StepOK(c) ==
  LET row == changes[c]
  IN /\ effect[c] # "none" <=> row.state \in Decided
     /\ step[c] # "idle" => effect[c] = "claimed"
     /\ step[c] \in {"apply", "mark"} => row.state = "Applying"
     /\ step[c] = "mark" => Applied(c)
     /\ step[c] \in {"consume", "resuming", "interrupt"} =>
          row.state = "Applied" /\ row.outcome = "Pending" /\ row.run = 0
     /\ step[c] \in {"start", "admit", "link"} => row.state = "Applied" /\ row.outcome # "Pending"
     /\ step[c] = "admit" => admitted[c] = 0
     /\ step[c] = "link" => admitted[c] # 0
ResumeOK(c) ==
  /\ resumes[c] = 1 => changes[c].state = "Applied" /\ FileOf(c) \notin files
  /\ step[c] = "resuming" => resumes[c] = 1
  /\ changes[c].outcome = "Resumed" => resumes[c] = 1

Successor(p, q) ==
  IF p = NoPlan THEN q \in {NewPlan(items) : items \in ItemLists}
  ELSE q \in Moved(p) \cup {Replaced(p, items) : items \in ItemLists}
PlanOK ==
  /\ plan.revision = 0 <=> plan = NoPlan
  /\ plan.revision <= MaxPlan /\ ValidItems(plan.items)
\* An edited plan was made out of the current one, or is too old to be saved.
DraftOK(draft) ==
  draft # NoDraft =>
    /\ draft.revision \in 1..(plan.revision + 1) /\ draft.revision <= MaxPlan
    /\ ValidItems(draft.items)
    /\ draft.revision = plan.revision + 1 => Successor(plan, draft)
ExchangeOK(x, e) ==
  /\ e \in ExchangeRows /\ e.expires <= now + Lifetime /\ DraftOK(e.draft)
  /\ e.state = "storing" => e.pending \in Turns
  /\ e.draft # NoDraft => e.state = "open"
  /\ x \in Resumes /\ e.state # "new" => resumes[x[2]] = 1

Inductive ==
  /\ Types /\ now <= scene.ticks /\ PlanOK /\ LineOK
  /\ \A c \in Turns : RowOK(c) /\ StepOK(c) /\ ResumeOK(c)
  /\ \A x \in Exchanges : ExchangeOK(x, exchange[x])
  /\ \A d \in Decisions : DecisionOK(d)

LEMMA ConstantFacts ==
  /\ None \notin Turns /\ User \notin Turns /\ None # User
  /\ Lifetime \in Nat /\ Lifetime # 0 /\ MaxPlan \in Nat
BY AssistantAssumption

LEMMA SceneFacts ==
  ASSUME Types
  PROVE  scene.ticks \in Nat /\ scene.edits \in Nat
BY AssistantAssumption DEF Types

LEMMA ExchangeNames ==
  /\ Starts \subseteq Exchanges /\ Resumes \subseteq Exchanges /\ Starts \cap Resumes = {}
  /\ \A t \in Turns : <<"start", t>> \in Starts /\ <<"start", t>> \notin Resumes
  /\ \A c \in Turns : <<"resume", c>> \in Resumes /\ <<"resume", c>> \notin Starts
  /\ \A x \in Starts : x[2] \in Turns /\ x = <<"start", x[2]>>
  /\ \A x \in Resumes : x[2] \in Turns /\ x = <<"resume", x[2]>>
BY DEF Starts, Resumes, Exchanges

(***************************************************************************)
(* The plans without items are the same, and valid.                        *)
(***************************************************************************)
LEMMA NoPlanFacts ==
  /\ NoPlan \in PlanRows /\ NoDraft \in PlanRows /\ NoDraft = NoPlan
  /\ NoPlan.revision = 0 /\ ValidItems(NoPlan.items)
<1>1. <<>> \in Seq([id : PlanItems, state : {"Pending", "InProgress", "Blocked", "Completed"}])
  BY EmptySeq
<1>2. DOMAIN <<>> = {} OBVIOUS
<1> QED BY <1>1, <1>2 DEF NoPlan, NoDraft, PlanRows, ValidItems

(***************************************************************************)
(* An invocation in whose name an open exchange acts is a turn.            *)
(***************************************************************************)
LEMMA InvocationIsTurn ==
  ASSUME Inductive, NEW x \in Exchanges, exchange[x].state # "new"
  PROVE  Invocation(x) \in Turns
<1>1. CASE x \in Starts BY <1>1, ExchangeNames DEF Invocation
<1>2. CASE x \notin Starts
  <2>1. x \in Resumes BY <1>2 DEF Exchanges
  <2>2. PICK c \in Turns : c = x[2] BY <2>1, ExchangeNames
  <2>3. changes[c].state = "Applied"
    BY <2>1, <2>2 DEF Inductive, ExchangeOK, ResumeOK
  <2>4. changes[c].cont \in Turns
    BY <2>3, ZenonT(40) DEF Inductive, Types, Rows, RowOK, Restores
  <2> QED BY <1>2, <2>2, <2>4 DEF Invocation
<1> QED BY <1>1, <1>2

----------------------------------------------------------------------------
(* Turns and their exchanges.                                              *)

(***************************************************************************)
(* An exchange moves, and nothing that is stored changes.                  *)
(***************************************************************************)
LEMMA ExchangeMoves ==
  ASSUME Inductive, NEW x \in Exchanges, NEW e, ExchangeOK(x, e),
         exchange' = [exchange EXCEPT ![x] = e],
         active' \in BOOLEAN, facts' \in [Turns -> Turns \cup {None}],
         UNCHANGED <<scene, rows, decision, step, now, resumes>>
  PROVE  Inductive'
<1> USE DEF Inductive, rows
<1>1. exchange' \in [Exchanges -> ExchangeRows] BY DEF Types, ExchangeOK
<1>2. Types' BY <1>1 DEF Types
<1>3. \A c \in Turns : (RowOK(c) /\ StepOK(c) /\ ResumeOK(c))'
  BY DEF RowOK, StepOK, ResumeOK, FileOf, Applied
<1>4. ASSUME NEW y \in Exchanges PROVE ExchangeOK(y, exchange[y])'
  <2>1. CASE y = x
    <3>1. exchange'[y] = e BY <2>1 DEF Types
    <3> QED BY <2>1, <3>1 DEF ExchangeOK, DraftOK
  <2>2. CASE y # x
    <3>1. exchange'[y] = exchange[y] BY <2>2 DEF Types
    <3> QED BY <3>1 DEF ExchangeOK, DraftOK
  <2> QED BY <2>1, <2>2
<1>5. PlanOK' /\ LineOK' /\ \A d \in Decisions : DecisionOK(d)'
  BY DEF PlanOK, LineOK, DecisionOK
<1> QED BY <1>2, <1>3, <1>4, <1>5

LEMMA ClosedOK ==
  ASSUME Inductive, NEW x \in Exchanges, exchange[x].state # "new" \/ x \in Starts,
         NEW state \in {"open", "over", "completed", "failed"}, NEW expires \in 0..(now + Lifetime)
  PROVE  /\ ExchangeOK(x, [Closed(state) EXCEPT !.expires = expires])
         /\ ExchangeOK(x, Closed(state))
<1> DEFINE e == [Closed(state) EXCEPT !.expires = expires]
<1>1. /\ e \in ExchangeRows /\ e.expires = expires /\ e.draft = NoDraft /\ e.state = state
      /\ Closed(state) \in ExchangeRows /\ Closed(state).expires = 0
      /\ Closed(state).draft = NoDraft /\ Closed(state).state = state
  BY NoPlanFacts, ConstantFacts DEF Closed, ExchangeRows
<1>2. x \in Resumes => resumes[x[2]] = 1
  BY ExchangeNames DEF Inductive, ExchangeOK
<1>3. expires <= now + Lifetime /\ 0 <= now + Lifetime
  BY ConstantFacts DEF Inductive, Types
<1> HIDE DEF e
<1>4. ExchangeOK(x, e) /\ ExchangeOK(x, Closed(state))
  BY <1>1, <1>2, <1>3 DEF ExchangeOK, DraftOK
<1> QED BY <1>4 DEF e

LEMMA EndsKeeps ==
  ASSUME Inductive, NEW x \in Exchanges, exchange[x].state # "new",
         NEW state \in {"completed", "failed"}, Ends(x, state),
         UNCHANGED <<scene, rows, facts, decision, step, now, resumes>>
  PROVE  Inductive'
<1>1. ExchangeOK(x, Closed(IF x \in Starts THEN "over" ELSE state))
  <2>1. 0 \in 0..(now + Lifetime) BY ConstantFacts DEF Inductive, Types
  <2> QED BY <2>1, ClosedOK
<1>2. active' \in BOOLEAN /\ facts' \in [Turns -> Turns \cup {None}]
  BY DEF Ends, Inductive, Types
<1> QED BY <1>1, <1>2, ExchangeMoves DEF Ends

LEMMA SendMessageKeeps ==
  ASSUME Inductive, NEW t \in Turns, SendMessage(t)
  PROVE  Inductive'
<1> DEFINE x == <<"start", t>>
<1>1. x \in Exchanges /\ x \in Starts BY ExchangeNames
<1>2. now + Lifetime \in 0..(now + Lifetime) BY ConstantFacts DEF Inductive, Types
<1>3. ExchangeOK(x, Opened) BY <1>1, <1>2, ClosedOK DEF Opened
<1>4. facts \in [Turns -> Turns \cup {None}] BY DEF Inductive, Types
<1> QED BY <1>1, <1>3, <1>4, ExchangeMoves DEF SendMessage

LEMMA CompletesKeeps ==
  ASSUME Inductive, NEW x \in Exchanges, Completes(x) \/ Fails(x)
  PROVE  Inductive'
BY EndsKeeps DEF Completes, Fails

LEMMA FetchKeeps ==
  ASSUME Inductive, NEW x \in Exchanges, NEW c \in Turns, Fetch(x, c)
  PROVE  Inductive'
<1> USE DEF Inductive, rows
<1>1. facts' \in [Turns -> Turns \cup {None}] BY DEF Fetch, Types
<1>2. UNCHANGED <<scene, rows, exchange, active, decision, step, now, resumes>> BY DEF Fetch
<1>3. Types' BY <1>1, <1>2 DEF Types
<1>4. PlanOK' /\ LineOK' /\ \A d \in Decisions : DecisionOK(d)'
  BY <1>2 DEF PlanOK, LineOK, DecisionOK
<1>5. \A k \in Turns : (RowOK(k) /\ StepOK(k) /\ ResumeOK(k))'
  BY <1>2 DEF RowOK, StepOK, ResumeOK, FileOf, Applied
<1>6. \A y \in Exchanges : ExchangeOK(y, exchange[y])'
  BY <1>2 DEF ExchangeOK, DraftOK
<1> QED BY <1>2, <1>3, <1>4, <1>5, <1>6

LEMMA ExchangeSet ==
  ASSUME Inductive, NEW x \in Exchanges, NEW e, ExchangeOK(x, e),
         exchange' = [exchange EXCEPT ![x] = e]
  PROVE  /\ exchange' \in [Exchanges -> ExchangeRows]
         /\ \A y \in Exchanges : ExchangeOK(y, exchange'[y])
BY DEF Inductive, Types, ExchangeOK

(***************************************************************************)
(* A turn writes the row of a change that is not decided yet.              *)
(***************************************************************************)
LEMMA RowMoves ==
  ASSUME Inductive, NEW c \in Turns, NEW row \in Rows,
         changes' = [changes EXCEPT ![c] = row],
         changes[c].state \notin Decided, row.state \notin Decided,
         Restores(row), row.expires <= now + Lifetime,
         facts' \in [Turns -> Turns \cup {None}],
         exchange' \in [Exchanges -> ExchangeRows],
         \A y \in Exchanges : ExchangeOK(y, exchange'[y]),
         UNCHANGED <<scene, files, plan, line, admitted, effect, active, decision, step, now,
                     resumes>>
  PROVE  Inductive'
<1> USE DEF Inductive
<1>1. Types' BY DEF Types
<1>2. changes'[c] = row /\ \A d \in Turns \ {c} : changes'[d] = changes[d] BY DEF Types
<1>3. PlanOK' /\ \A d \in Decisions : DecisionOK(d)' BY DEF PlanOK, DecisionOK
<1>4. \A x \in Exchanges : ExchangeOK(x, exchange[x])' BY DEF ExchangeOK, DraftOK
<1>5. LineOK'
  <2>1. \A r \in DOMAIN line : line[r] # c BY DEF LineOK
  <2> QED BY <1>2, <2>1 DEF LineOK
<1>6. ASSUME NEW d \in Turns PROVE (RowOK(d) /\ StepOK(d) /\ ResumeOK(d))'
  <2>1. CASE d = c
    <3>1. admitted[c] = 0 /\ effect[c] = "none" /\ step[c] = "idle" /\ resumes[c] # 1
      BY DEF RowOK, StepOK, ResumeOK, Decided
    <3>2. RowOK(c)' BY <1>2, <3>1 DEF RowOK, Decided
    <3>3. StepOK(c)' BY <1>2, <3>1 DEF StepOK
    <3>4. row.outcome = "Pending" BY DEF Restores, Decided
    <3>5. ResumeOK(c)' BY <1>2, <3>1, <3>4 DEF ResumeOK
    <3> QED BY <2>1, <3>2, <3>3, <3>5
  <2>2. CASE d # c
    <3>1. changes'[d] = changes[d] BY <1>2, <2>2
    <3> QED BY <3>1 DEF RowOK, StepOK, ResumeOK, FileOf, Applied
  <2> QED BY <2>1, <2>2
<1> QED BY <1>1, <1>3, <1>4, <1>5, <1>6

LEMMA ProposeKeeps ==
  ASSUME Inductive, NEW x \in Exchanges, Propose(x)
  PROVE  Inductive'
<1> DEFINE c == Invocation(x)
           row == [NoChange EXCEPT !.state = "Proposed", !.base = Len(line),
                                   !.expires = exchange[x].expires]
<1>1. c \in Turns BY InvocationIsTurn DEF Propose, Turn
<1>2. Len(line) \in Nat BY LenProperties DEF Inductive, Types
<1>3. exchange[x].expires \in Nat /\ exchange[x].expires <= now + Lifetime
  BY DEF Inductive, ExchangeOK, ExchangeRows
<1>4. /\ row \in Rows /\ row.state = "Proposed" /\ row.expires = exchange[x].expires
      /\ row.receipt = 0 /\ row.run = 0 /\ row.outcome = "Pending" /\ row.verdict = "none"
      /\ row.cont = None
  BY <1>2, <1>3 DEF NoChange, Rows, States
<1>5. changes[c].state = "none" /\ changes' = [changes EXCEPT ![c] = row]
  BY DEF Propose
<1>6. facts \in [Turns -> Turns \cup {None}] /\ exchange \in [Exchanges -> ExchangeRows]
  BY DEF Inductive, Types
<1>7. \A y \in Exchanges : ExchangeOK(y, exchange[y]) BY DEF Inductive
<1>8. UNCHANGED <<scene, files, plan, line, admitted, effect, exchange, active, facts, decision,
                  step, now, resumes>>
  BY DEF Propose
<1> HIDE DEF c, row
<1>9. Restores(row) BY <1>4 DEF Restores
<1>10. changes[c].state \notin Decided /\ row.state \notin Decided BY <1>4, <1>5 DEF Decided
<1> QED BY <1>1, <1>3, <1>4, <1>5, <1>6, <1>7, <1>8, <1>9, <1>10, RowMoves

LEMMA RejectVerdictKeeps ==
  ASSUME Inductive, NEW x \in Exchanges, NEW c \in Turns, RejectVerdict(x, c)
  PROVE  Inductive'
<1> DEFINE row == [changes[c] EXCEPT !.state = "ReviewRejected", !.verdict = "Reject"]
<1>1. changes[c] \in Rows /\ changes[c].state = "Proposed" /\ Restores(changes[c])
      /\ changes[c].expires <= now + Lifetime
  BY DEF Inductive, Types, RejectVerdict, Reviewable, RowOK
<1>2. /\ row \in Rows /\ row.state = "ReviewRejected" /\ row.verdict = "Reject"
      /\ row.cont = changes[c].cont /\ row.receipt = changes[c].receipt
      /\ row.run = changes[c].run /\ row.outcome = changes[c].outcome
      /\ row.expires = changes[c].expires
  BY <1>1 DEF Rows, States
<1>3. changes' = [changes EXCEPT ![c] = row]
  BY DEF RejectVerdict, Inductive, Types
<1>4. facts' \in [Turns -> Turns \cup {None}] /\ exchange \in [Exchanges -> ExchangeRows]
  BY DEF RejectVerdict, Inductive, Types
<1>5. \A y \in Exchanges : ExchangeOK(y, exchange[y]) BY DEF Inductive
<1>6. UNCHANGED <<scene, files, plan, line, admitted, effect, exchange, active, decision, step,
                  now, resumes>>
  BY DEF RejectVerdict
<1> HIDE DEF row
<1>7. Restores(row) BY <1>1, <1>2 DEF Restores
<1>8. changes[c].state \notin Decided /\ row.state \notin Decided BY <1>1, <1>2 DEF Decided
<1> QED BY <1>1, <1>2, <1>3, <1>4, <1>5, <1>6, <1>7, <1>8, RowMoves

LEMMA AcceptVerdictKeeps ==
  ASSUME Inductive, NEW x \in Exchanges, AcceptVerdict(x)
  PROVE  Inductive'
<1> DEFINE c == exchange[x].pending
           e == [exchange[x] EXCEPT !.state = "open", !.pending = None]
           row == [changes[c] EXCEPT !.state = "AwaitingApproval", !.verdict = "Pass",
                                     !.cont = Invocation(x)]
<1>1. c \in Turns /\ Invocation(x) \in Turns /\ exchange[x] \in ExchangeRows
      /\ ExchangeOK(x, exchange[x]) /\ exchange[x].state = "storing"
  BY InvocationIsTurn DEF AcceptVerdict, Inductive, ExchangeOK
<1>2. changes[c] \in Rows /\ changes[c].state = "Proposed" /\ Restores(changes[c])
      /\ changes[c].expires <= now + Lifetime
  BY <1>1 DEF Inductive, Types, AcceptVerdict, Accepted, Reviewable, RowOK
<1>3. /\ row \in Rows /\ row.state = "AwaitingApproval" /\ row.verdict = "Pass"
      /\ row.cont = Invocation(x) /\ row.receipt = changes[c].receipt
      /\ row.run = changes[c].run /\ row.outcome = changes[c].outcome
      /\ row.expires = changes[c].expires
  BY <1>1, <1>2 DEF Rows, States
<1>4. changes' = [changes EXCEPT ![c] = row] /\ exchange' = [exchange EXCEPT ![x] = e]
  BY DEF AcceptVerdict, Accepted, Inductive, Types
<1>5. e \in ExchangeRows /\ e.expires = exchange[x].expires /\ e.draft = exchange[x].draft
      /\ e.state = "open"
  BY <1>1 DEF ExchangeRows
<1>6. facts' \in [Turns -> Turns \cup {None}]
  BY DEF AcceptVerdict, Accepted, Inductive, Types
<1>7. UNCHANGED <<scene, files, plan, line, admitted, effect, active, decision, step, now,
                  resumes>>
  BY DEF AcceptVerdict, Accepted
<1> HIDE DEF c, e, row
<1>8. ExchangeOK(x, e) BY <1>1, <1>5 DEF ExchangeOK
<1>9. /\ exchange' \in [Exchanges -> ExchangeRows]
      /\ \A y \in Exchanges : ExchangeOK(y, exchange'[y])
  BY <1>4, <1>8, ExchangeSet
<1>10. Restores(row) BY <1>1, <1>2, <1>3, ConstantFacts DEF Restores
<1>11. changes[c].state \notin Decided /\ row.state \notin Decided BY <1>2, <1>3 DEF Decided
<1> QED BY <1>1, <1>2, <1>3, <1>4, <1>6, <1>7, <1>9, <1>10, <1>11, RowMoves

(***************************************************************************)
(* A continuation is written only for a change that was not resumed.       *)
(***************************************************************************)
LEMMA StoreEnvelopeKeeps ==
  ASSUME Inductive, NEW x \in Exchanges, NEW c \in Turns, StoreEnvelope(x, c)
  PROVE  Inductive'
<1> DEFINE e == [exchange[x] EXCEPT !.state = "storing", !.pending = c]
<1>1. /\ ExchangeOK(x, exchange[x]) /\ exchange[x] \in ExchangeRows
      /\ exchange[x].state = "open" /\ exchange[x].draft = NoDraft
  BY DEF StoreEnvelope, Turn, Inductive, ExchangeOK
<1>2. e \in ExchangeRows /\ e.expires = exchange[x].expires /\ e.draft = exchange[x].draft
      /\ e.state = "storing" /\ e.pending = c
  BY <1>1 DEF ExchangeRows
<1>3. exchange' = [exchange EXCEPT ![x] = e]
  BY DEF StoreEnvelope, Inductive, Types
<1>4. UNCHANGED <<scene, changes, plan, line, admitted, effect, active, facts, decision, step, now,
                  resumes>>
  BY DEF StoreEnvelope
<1>5. files' \in {files, files \cup {<<Invocation(x), c>>}}
      /\ (changes[c].state # "Proposed" => files' = files)
  BY DEF StoreEnvelope
<1>6. Invocation(x) \in Turns BY <1>1, InvocationIsTurn
<1> HIDE DEF e
<1>7. ExchangeOK(x, e) BY <1>1, <1>2 DEF ExchangeOK
<1>8. /\ exchange' \in [Exchanges -> ExchangeRows]
      /\ \A y \in Exchanges : ExchangeOK(y, exchange'[y])
  BY <1>3, <1>7, ExchangeSet
<1> USE DEF Inductive
<1>9. Types' BY <1>4, <1>5, <1>6, <1>8 DEF Types
<1>10. PlanOK' /\ LineOK' /\ \A d \in Decisions : DecisionOK(d)'
  BY <1>4 DEF PlanOK, LineOK, DecisionOK
<1>11. \A y \in Exchanges : ExchangeOK(y, exchange[y])'
  BY <1>4, <1>8 DEF ExchangeOK, DraftOK
<1>12. \A k \in Turns : (RowOK(k) /\ StepOK(k))'
  BY <1>4 DEF RowOK, StepOK, Applied
<1>13. ASSUME NEW k \in Turns PROVE ResumeOK(k)'
  <2>1. CASE changes[c].state # "Proposed" BY <1>4, <1>5, <2>1 DEF ResumeOK, FileOf
  <2>2. CASE changes[c].state = "Proposed"
    <3>1. CASE k = c BY <1>4, <2>2, <3>1 DEF ResumeOK
    <3>2. CASE k # c
      <4>1. FileOf(k) # <<Invocation(x), c>> BY <3>2 DEF FileOf
      <4> QED BY <1>4, <1>5, <4>1 DEF ResumeOK, FileOf
    <3> QED BY <3>1, <3>2
  <2> QED BY <2>1, <2>2
<1> QED BY <1>4, <1>9, <1>10, <1>11, <1>12, <1>13

----------------------------------------------------------------------------
(* The plan.                                                               *)

(***************************************************************************)
(* What an edit makes of a plan is a plan, one revision on.                *)
(***************************************************************************)
LEMMA SuccessorFacts ==
  ASSUME NEW p \in PlanRows, NEW q, Successor(p, q)
  PROVE  q \in PlanRows /\ q.revision = p.revision + 1
<1> DEFINE Items == [id : PlanItems, state : {"Pending", "InProgress", "Blocked", "Completed"}]
<1>1. ASSUME NEW items \in ItemLists PROVE items \in Seq(Items)
  <2>1. \A a \in PlanItems : Item(a) \in Items BY DEF Item
  <2>2. CASE items = <<>> BY <2>2, EmptySeq
  <2>3. ASSUME NEW a \in PlanItems, items = <<Item(a)>> PROVE items \in Seq(Items)
    <3>1. Item(a) \in Items BY <2>1
    <3> HIDE DEF Items
    <3> QED BY <2>3, <3>1
  <2>4. ASSUME NEW a \in PlanItems, NEW b \in PlanItems, items = <<Item(a), Item(b)>>
        PROVE  items \in Seq(Items)
    <3>1. Item(a) \in Items /\ Item(b) \in Items BY <2>1
    <3> HIDE DEF Items
    <3> QED BY <2>4, <3>1
  <2>5. \/ items = <<>>
        \/ \E a \in PlanItems : items = <<Item(a)>>
        \/ \E a \in PlanItems : \E b \in PlanItems : items = <<Item(a), Item(b)>>
    BY <1>1 DEF ItemLists
  <2> HIDE DEF Items
  <2> QED BY <2>2, <2>3, <2>4, <2>5
<1>2. CASE p = NoPlan
  <2>1. PICK items \in ItemLists : q = NewPlan(items) BY <1>2 DEF Successor
  <2>2. items \in Seq(Items) BY <1>1
  <2> QED BY <1>2, <2>1, <2>2, NoPlanFacts DEF NewPlan, PlanRows
<1>3. CASE \E items \in ItemLists : q = Replaced(p, items)
  <2>1. PICK items \in ItemLists : q = Replaced(p, items) BY <1>3
  <2>2. items \in Seq(Items) BY <1>1
  <2> QED BY <2>1, <2>2 DEF Replaced, PlanRows
<1>4. CASE q \in Moved(p)
  <2>1. PICK i \in DOMAIN p.items :
          \E to \in ItemMoves(p.items[i].state) :
            q = [revision |-> p.revision + 1, items |-> [p.items EXCEPT ![i].state = to]]
    BY <1>4 DEF Moved
  <2>2. p.items \in Seq(Items) /\ p.revision \in Nat BY DEF PlanRows
  <2>3. i \in 1..Len(p.items) /\ p.items[i] \in Items
    <3> HIDE DEF Items
    <3>1. i \in 1..Len(p.items) BY <2>2, LenProperties
    <3> QED BY <2>2, <3>1, ElementOfSeq
  <2>4. PICK to \in ItemMoves(p.items[i].state) :
          q = [revision |-> p.revision + 1, items |-> [p.items EXCEPT ![i].state = to]]
    BY <2>1
  <2>8. to \in {"InProgress", "Blocked", "Completed"} BY <2>3, <2>4 DEF ItemMoves
  <2>5. [p.items[i] EXCEPT !.state = to] \in Items BY <2>3, <2>8
  <2>6. [p.items EXCEPT ![i] = [p.items[i] EXCEPT !.state = to]] \in Seq(Items)
    <3> HIDE DEF Items
    <3> QED BY <2>2, <2>3, <2>5, ExceptSeq
  <2>7. [p.items EXCEPT ![i].state = to] \in Seq(Items) BY <2>6
  <2> QED BY <2>4, <2>2, <2>7 DEF PlanRows
<1> QED BY <1>2, <1>3, <1>4 DEF Successor

LEMMA LoadPlanKeeps ==
  ASSUME Inductive, NEW x \in Exchanges, LoadPlan(x)
  PROVE  Inductive'
<1>1. PICK draft : /\ Successor(plan, draft) /\ ValidItems(draft.items)
                   /\ exchange' = [exchange EXCEPT ![x].draft = draft]
  BY DEF LoadPlan, Successor
<1>2. /\ plan \in PlanRows /\ plan.revision \in Nat /\ plan.revision < MaxPlan
      /\ ExchangeOK(x, exchange[x]) /\ exchange[x] \in ExchangeRows /\ exchange[x].state = "open"
  BY DEF LoadPlan, Turn, Inductive, Types, ExchangeOK, PlanRows
<1>3. draft \in PlanRows /\ draft.revision = plan.revision + 1 BY <1>1, <1>2, SuccessorFacts
<1> DEFINE e == [exchange[x] EXCEPT !.draft = draft]
<1>4. e \in ExchangeRows /\ e.expires = exchange[x].expires /\ e.draft = draft
      /\ e.state = "open"
  BY <1>2, <1>3 DEF ExchangeRows
<1>5. exchange' = [exchange EXCEPT ![x] = e] BY <1>1 DEF Inductive, Types
<1> HIDE DEF e
<1>6. draft.revision \in 1..(plan.revision + 1) /\ draft.revision <= MaxPlan
  BY <1>2, <1>3, ConstantFacts
<1>7. DraftOK(draft) BY <1>1, <1>6 DEF DraftOK
<1>8. ExchangeOK(x, e) BY <1>2, <1>4, <1>7 DEF ExchangeOK
<1>9. active' \in BOOLEAN /\ facts' \in [Turns -> Turns \cup {None}]
  BY DEF LoadPlan, Inductive, Types
<1>10. UNCHANGED <<scene, rows, decision, step, now, resumes>> BY DEF LoadPlan
<1> QED BY <1>5, <1>8, <1>9, <1>10, ExchangeMoves

(***************************************************************************)
(* A plan is saved over the one it was made from, or not at all; what      *)
(* others made from that one is too old from then on.                      *)
(***************************************************************************)
LEMMA SavePlanKeeps ==
  ASSUME Inductive, NEW x \in Exchanges, SavePlan(x)
  PROVE  Inductive'
<1>0. exchange[x].state # "new" BY DEF SavePlan, Inductive, ExchangeOK
<1> DEFINE draft == exchange[x].draft
<1>1. CASE plan.revision + 1 # draft.revision
  <2>1. Ends(x, "failed") /\ UNCHANGED <<scene, rows, facts, decision, step, now, resumes>>
    BY <1>1 DEF SavePlan, rows
  <2> QED BY <1>0, <2>1, EndsKeeps
<1>2. CASE plan.revision + 1 = draft.revision
  <2>1. /\ plan' = draft /\ exchange' = [exchange EXCEPT ![x].draft = NoDraft]
        /\ UNCHANGED <<scene, changes, files, line, admitted, effect, active, facts, decision,
                       step, now, resumes>>
        /\ draft # NoDraft
    BY <1>2 DEF SavePlan
  <2>2. /\ plan.revision \in Nat /\ draft \in PlanRows /\ draft.revision <= MaxPlan
        /\ ValidItems(draft.items) /\ exchange[x] \in ExchangeRows
        /\ ExchangeOK(x, exchange[x])
    BY <2>1 DEF Inductive, Types, ExchangeOK, DraftOK, ExchangeRows, PlanRows
  <2> HIDE DEF draft
  <2>3. PlanOK'
    <3>1. draft # NoPlan /\ draft.revision # 0 BY <1>2, <2>1, <2>2, NoPlanFacts
    <3> QED BY <2>1, <2>2, <3>1 DEF PlanOK
  <2>4. exchange' \in [Exchanges -> ExchangeRows]
    BY <2>1, <2>2, NoPlanFacts DEF Inductive, Types, ExchangeRows
  <2>5. ASSUME NEW y \in Exchanges PROVE ExchangeOK(y, exchange[y])'
    <3>1. ExchangeOK(y, exchange[y]) /\ exchange[y] \in ExchangeRows
      BY DEF Inductive, ExchangeOK
    <3>2. CASE y = x
      <4>1. /\ exchange'[y].draft = NoDraft /\ exchange'[y].state = exchange[y].state
            /\ exchange'[y].expires = exchange[y].expires
            /\ exchange'[y].pending = exchange[y].pending
        BY <2>1, <3>1, <3>2 DEF Inductive, Types, ExchangeRows
      <4> QED BY <2>1, <2>4, <3>1, <4>1 DEF ExchangeOK, DraftOK
    <3>3. CASE y # x
      <4>1. exchange'[y] = exchange[y] BY <2>1, <3>3 DEF Inductive, Types
      <4>2. DraftOK(exchange[y].draft)'
        <5>1. SUFFICES ASSUME exchange[y].draft # NoDraft
                       PROVE  DraftOK(exchange[y].draft)'
          BY <4>1 DEF DraftOK
        <5> DEFINE own == exchange[y].draft
        <5>2. own.revision \in 1..(plan.revision + 1) /\ own.revision <= MaxPlan
              /\ ValidItems(own.items)
          BY <3>1, <5>1 DEF ExchangeOK, DraftOK
        <5>3. own.revision \in 1..(draft.revision + 1) /\ own.revision # draft.revision + 1
          BY <1>2, <2>2, <5>2
        <5> QED BY <2>1, <4>1, <5>2, <5>3 DEF DraftOK
      <4> QED BY <2>1, <3>1, <4>1, <4>2 DEF ExchangeOK
    <3> QED BY <3>2, <3>3
  <2>6. Types' BY <2>1, <2>2, <2>4 DEF Inductive, Types
  <2>7. LineOK' /\ \A d \in Decisions : DecisionOK(d)'
    BY <2>1 DEF Inductive, LineOK, DecisionOK
  <2>8. \A c \in Turns : (RowOK(c) /\ StepOK(c) /\ ResumeOK(c))'
    BY <2>1 DEF Inductive, RowOK, StepOK, ResumeOK, FileOf, Applied
  <2>9. now' <= scene'.ticks BY <2>1 DEF Inductive
  <2> QED BY <2>3, <2>5, <2>6, <2>7, <2>8, <2>9 DEF Inductive
<1> QED BY <1>1, <1>2

----------------------------------------------------------------------------
(* The decision, and the effect of one change.                             *)

(***************************************************************************)
(* The Workflow's line only grows, at its end.                             *)
(***************************************************************************)
LEMMA LineGrows ==
  ASSUME Types, NEW a \in Turns \cup {User}, line' \in {line, Append(line, a)}
  PROVE  /\ line' \in Seq(Turns \cup {User})
         /\ \A r \in DOMAIN line : r \in DOMAIN line' /\ line'[r] = line[r]
         /\ \A r \in DOMAIN line' \ DOMAIN line : r = Len(line) + 1 /\ line'[r] = a
         /\ \A c \in Turns : Applied(c) => Applied(c)'
<1>1. line \in Seq(Turns \cup {User}) /\ Len(line) \in Nat /\ DOMAIN line = 1..Len(line)
  BY LenProperties DEF Types
<1>2. CASE line' = line BY <1>1, <1>2 DEF Applied
<1>3. CASE line' = Append(line, a)
  <2>1. /\ line' \in Seq(Turns \cup {User}) /\ Len(line') = Len(line) + 1
        /\ \A r \in 1..Len(line) : line'[r] = line[r]
        /\ line'[Len(line) + 1] = a
    BY <1>1, <1>3, AppendProperties
  <2>2. DOMAIN line' = 1..(Len(line) + 1) BY <2>1, LenProperties
  <2>3. \A c \in Turns : Applied(c) => Applied(c)'
    BY <1>1, <2>1, <2>2 DEF Applied, Range
  <2> QED BY <1>1, <2>1, <2>2, <2>3
<1> QED BY <1>2, <1>3

(***************************************************************************)
(* A command moves, and at most removes a file.                            *)
(***************************************************************************)
LEMMA DecisionMoves ==
  ASSUME Inductive, NEW d \in Decisions, NEW pc \in {"idle", "commit", "consume"},
         NEW c \in Turns \cup {None}, pc # "idle" => c \in Turns,
         decision' = [decision EXCEPT ![d] = [pc |-> pc, change |-> c]],
         files' \subseteq files,
         UNCHANGED <<scene, changes, plan, line, admitted, effect, exchange, active, facts, step,
                     now, resumes>>
  PROVE  Inductive'
<1> USE DEF Inductive
<1>1. decision' \in [Decisions -> [pc : {"idle", "commit", "consume"}, change : Turns \cup {None}]]
  BY DEF Types
<1>2. Types' BY <1>1 DEF Types
<1>3. \A k \in Decisions : DecisionOK(k)' BY DEF DecisionOK, Types
<1>4. PlanOK' /\ LineOK' BY DEF PlanOK, LineOK
<1>5. \A k \in Turns : (RowOK(k) /\ StepOK(k) /\ ResumeOK(k))'
  BY DEF RowOK, StepOK, ResumeOK, FileOf, Applied
<1>6. \A y \in Exchanges : ExchangeOK(y, exchange[y])' BY DEF ExchangeOK, DraftOK
<1> QED BY <1>2, <1>3, <1>4, <1>5, <1>6

\* Nothing is done for another change than c, and no file is written.
OnlyFor(c) ==
  /\ \A d \in Turns \ {c} :
       /\ changes'[d] = changes[d] /\ admitted'[d] = admitted[d] /\ effect'[d] = effect[d]
       /\ step'[d] = step[d] /\ resumes'[d] = resumes[d]
  /\ files' \subseteq files

(***************************************************************************)
(* What is done for one change leaves the others as they are; its own row, *)
(* place and file are left to show.                                        *)
(***************************************************************************)
LEMMA EffectMoves ==
  ASSUME Inductive, NEW c \in Turns, OnlyFor(c), Types', UNCHANGED <<scene, plan, now>>,
         changes'[c].base = changes[c].base,
         changes[c].state \in Decided => changes'[c].state \in Decided,
         resumes[c] = 1 => resumes'[c] = 1,
         \/ line' = line
         \/ /\ line' = Append(line, c)
            /\ Len(line) = changes[c].base /\ changes[c].state \in Decided,
         RowOK(c)', StepOK(c)', ResumeOK(c)',
         \A y \in Exchanges : exchange'[y] = exchange[y] \/ ExchangeOK(y, exchange[y])',
         \A d \in Decisions : DecisionOK(d)'
  PROVE  Inductive'
<1> USE DEF Inductive
<1>1. line' \in {line, Append(line, c)} OBVIOUS
<1>2. /\ \A r \in DOMAIN line : r \in DOMAIN line' /\ line'[r] = line[r]
      /\ \A r \in DOMAIN line' \ DOMAIN line : r = Len(line) + 1 /\ line'[r] = c
      /\ \A d \in Turns : Applied(d) => Applied(d)'
  BY <1>1, LineGrows
<1>3. ASSUME NEW d \in Turns, d # c PROVE (RowOK(d) /\ StepOK(d) /\ ResumeOK(d))'
  <2>1. /\ changes'[d] = changes[d] /\ admitted'[d] = admitted[d] /\ effect'[d] = effect[d]
        /\ step'[d] = step[d] /\ resumes'[d] = resumes[d] /\ files' \subseteq files
    BY <1>3 DEF OnlyFor
  <2>2. RowOK(d)' BY <1>2, <2>1 DEF RowOK
  <2>3. StepOK(d)' BY <1>2, <2>1 DEF StepOK
  <2>4. ResumeOK(d)' BY <2>1 DEF ResumeOK, FileOf
  <2> QED BY <2>2, <2>3, <2>4
<1>4. LineOK'
  <2>1. SUFFICES ASSUME NEW r \in DOMAIN line', line'[r] \in Turns
                 PROVE  changes'[line'[r]].state \in Decided /\ r = changes'[line'[r]].base + 1
    BY DEF LineOK
  <2>2. CASE r \in DOMAIN line
    <3>1. changes[line[r]].state \in Decided /\ r = changes[line[r]].base + 1
          /\ line'[r] = line[r]
      BY <1>2, <2>1, <2>2 DEF LineOK
    <3>2. CASE line[r] = c BY <3>1, <3>2
    <3>3. CASE line[r] # c BY <2>1, <3>1, <3>3 DEF OnlyFor
    <3> QED BY <3>2, <3>3
  <2>3. CASE r \notin DOMAIN line
    <3>1. r = Len(line) + 1 /\ line'[r] = c /\ line' # line BY <1>2, <2>1, <2>3
    <3> QED BY <3>1
  <2> QED BY <2>2, <2>3
<1>5. ASSUME NEW y \in Exchanges PROVE ExchangeOK(y, exchange[y])'
  <2>1. CASE exchange'[y] # exchange[y] BY <2>1
  <2>2. CASE exchange'[y] = exchange[y]
    <3>1. y \in Resumes => y[2] \in Turns BY ExchangeNames
    <3>2. \A d \in Turns : resumes[d] = 1 => resumes'[d] = 1 BY DEF OnlyFor
    <3> QED BY <2>2, <3>1, <3>2 DEF ExchangeOK, DraftOK
  <2> QED BY <2>1, <2>2
<1>6. PlanOK' BY DEF PlanOK
<1>7. \A d \in Turns : RowOK(d)' /\ StepOK(d)' /\ ResumeOK(d)' BY <1>3
<1> QED BY <1>4, <1>5, <1>6, <1>7

LEMMA DecideLoadsKeeps ==
  ASSUME Inductive, NEW d \in Decisions, NEW c \in Turns, DecideLoads(d, c)
  PROVE  Inductive'
<1>1. PICK pc \in {"commit", "consume"} :
        decision' = [decision EXCEPT ![d] = [pc |-> pc, change |-> c]]
  BY DEF DecideLoads
<1>2. UNCHANGED <<scene, rows, exchange, active, facts, step, now, resumes>> BY DEF DecideLoads
<1> QED BY <1>1, <1>2, DecisionMoves DEF rows

LEMMA DecisionEnds ==
  ASSUME Inductive, NEW d \in Decisions, DecisionDone(d), files' \subseteq files,
         UNCHANGED <<scene, changes, plan, line, admitted, effect, exchange, active, facts, step,
                     now, resumes>>
  PROVE  Inductive'
BY DecisionMoves DEF DecisionDone, NoDecision

LEMMA DecideConsumesKeeps ==
  ASSUME Inductive, NEW d \in Decisions, DecideConsumes(d)
  PROVE  Inductive'
BY DecisionEnds DEF DecideConsumes

LEMMA DecideFailsKeeps ==
  ASSUME Inductive, NEW d \in Decisions, DecideFails(d)
  PROVE  Inductive'
BY DecisionEnds DEF DecideFails, rows

(***************************************************************************)
(* A change that waits for the user is decided; its effect appears with an *)
(* approval.                                                               *)
(***************************************************************************)
LEMMA DecideCommitsKeeps ==
  ASSUME Inductive, NEW d \in Decisions, DecideCommits(d)
  PROVE  Inductive'
<1>1. PICK c \in Turns : c = decision[d].change BY DEF DecideCommits, Inductive, DecisionOK
<1>2. CASE changes[c].state # "AwaitingApproval"
  <2>1. /\ DecisionDone(d)
        /\ UNCHANGED <<scene, changes, files, plan, line, admitted, effect, exchange, active, facts,
                       step, now, resumes>>
    BY <1>1, <1>2 DEF DecideCommits
  <2> QED BY <2>1, DecisionEnds
<1>3. CASE changes[c].state = "AwaitingApproval"
  <2> DEFINE to == IF d = "Approve" THEN "Applying" ELSE "Rejected"
             ready == IF d = "Approve" THEN "ready" ELSE effect[c]
  <2>1. changes' = [changes EXCEPT ![c].state = to] BY <1>1, <1>3 DEF DecideCommits
  <2>2. UNCHANGED <<scene, files, plan, line, admitted, exchange, active, facts, step, now,
                    resumes>>
    BY DEF DecideCommits
  <2>3. /\ changes[c] \in Rows /\ Restores(changes[c]) /\ changes[c].expires <= now + Lifetime
        /\ admitted[c] = 0 /\ effect[c] = "none" /\ step[c] = "idle" /\ resumes[c] # 1
    BY <1>1, <1>3 DEF Inductive, Types, RowOK, StepOK, ResumeOK, Decided
  <2>4. effect' \in [Turns -> {"none", "ready", "claimed", "completed"}] /\ effect'[c] = ready
        /\ \A k \in Turns \ {c} : effect'[k] = effect[k]
    BY <1>1, <1>3 DEF DecideCommits, Inductive, Types
  <2>5. decision' \in [Decisions -> [pc : {"idle", "commit", "consume"}, change : Turns \cup {None}]]
        /\ \A k \in Decisions : DecisionOK(k)'
    <3>1. decision[d].change \in Turns /\ None \notin Turns BY <1>1, ConstantFacts
    <3>2. DecisionDone(d) \/ Decide(d, "consume") BY <1>1, <1>3 DEF DecideCommits
    <3>3. CASE DecisionDone(d)
      BY <3>1, <3>3 DEF DecisionDone, NoDecision, Inductive, Types, DecisionOK
    <3>4. CASE Decide(d, "consume")
      BY <3>1, <3>4, ZenonT(60) DEF Decide, Inductive, Types, DecisionOK
    <3> QED BY <3>2, <3>3, <3>4
  <2>6. to \in States /\ to \in {"Applying", "Rejected"} BY DEF States
  <2>7. /\ changes'[c].state = to /\ changes'[c].expires = changes[c].expires
        /\ changes'[c].receipt = changes[c].receipt /\ changes'[c].run = changes[c].run
        /\ changes'[c].outcome = changes[c].outcome /\ changes'[c].verdict = changes[c].verdict
        /\ changes'[c].cont = changes[c].cont /\ changes'[c].base = changes[c].base
        /\ changes' \in [Turns -> Rows]
        /\ \A k \in Turns \ {c} : changes'[k] = changes[k]
    BY <1>1, <2>1, <2>3, <2>6 DEF Inductive, Types, Rows
  <2>8. Types' BY <2>2, <2>4, <2>5, <2>7 DEF Inductive, Types
  <2>9. OnlyFor(c) BY <2>2, <2>4, <2>7 DEF OnlyFor
  <2>10. d = "Approve" <=> to = "Applying" OBVIOUS
  <2>11. ready = IF to = "Applying" THEN "ready" ELSE "none" BY <2>3
  <2> HIDE DEF to, ready
  <2>12. RowOK(c)' BY <1>3, <2>2, <2>3, <2>6, <2>7 DEF RowOK, Restores
  <2>13. StepOK(c)' BY <2>2, <2>3, <2>4, <2>6, <2>7, <2>11 DEF StepOK, Decided
  <2>14. ResumeOK(c)' BY <1>3, <2>2, <2>3, <2>7 DEF ResumeOK, Restores
  <2>15. changes[c].state \notin Decided BY <1>3 DEF Decided
  <2> QED BY <1>1, <2>2, <2>5, <2>7, <2>8, <2>9, <2>12, <2>13, <2>14, <2>15, EffectMoves
<1> QED BY <1>2, <1>3

(***************************************************************************)
(* The worker goes to another place of the effect; no row is written.      *)
(***************************************************************************)
\* The worker is in the effect of c.
Effective(c) ==
  /\ effect[c] \in {"ready", "claimed"} /\ changes[c].state \in Decided
  /\ changes[c] \in Rows /\ Restores(changes[c])
Puts(c, place, e) == Go(c, place) /\ effect' = [effect EXCEPT ![c] = e]
Fits(c, place) ==
  LET row == changes[c]
  IN /\ place \in Places
     /\ place \in {"apply", "mark"} => row.state = "Applying"
     /\ place \in {"consume", "resuming", "interrupt"} =>
          row.state = "Applied" /\ row.outcome = "Pending" /\ row.run = 0
     /\ place \in {"start", "admit", "link"} => row.state = "Applied" /\ row.outcome # "Pending"
     /\ place = "admit" => admitted[c] = 0
     /\ place = "link" => admitted[c] # 0
     /\ place # "resuming"
AppendsOnly(c) ==
  \/ line' = line
  \/ line' = Append(line, c) /\ Len(line) = changes[c].base
ExchangesKept ==
  /\ exchange' \in [Exchanges -> ExchangeRows]
  /\ \A y \in Exchanges : exchange'[y] = exchange[y] \/ ExchangeOK(y, exchange[y])'

LEMMA NothingAppended ==
  ASSUME NEW c \in Turns, UNCHANGED line
  PROVE  AppendsOnly(c)
BY DEF AppendsOnly

LEMMA PlaceMoves ==
  ASSUME Inductive, NEW c \in Turns, Effective(c),
         NEW place, NEW e \in {"ready", "claimed", "completed"}, Puts(c, place, e), Fits(c, place),
         place # "idle" => e = "claimed",
         AppendsOnly(c), place = "mark" => Applied(c)', ExchangesKept,
         UNCHANGED <<scene, changes, files, plan, admitted, active, facts, decision, now, resumes>>
  PROVE  Inductive'
<1>1. /\ step' \in [Turns -> Places] /\ step'[c] = place
      /\ \A k \in Turns \ {c} : step'[k] = step[k]
  BY DEF Puts, Go, Inductive, Types, Fits
<1>2. /\ effect' \in [Turns -> {"none", "ready", "claimed", "completed"}] /\ effect'[c] = e
      /\ \A k \in Turns \ {c} : effect'[k] = effect[k]
  BY DEF Puts, Inductive, Types
<1>3. /\ line' \in Seq(Turns \cup {User})
      /\ \A r \in DOMAIN line : r \in DOMAIN line' /\ line'[r] = line[r]
      /\ Applied(c) => Applied(c)'
  <2>1. line' \in {line, Append(line, c)} BY DEF AppendsOnly
  <2> QED BY <2>1, LineGrows DEF Inductive
<1>4. Types' BY <1>1, <1>2, <1>3 DEF Inductive, Types, ExchangesKept
<1>5. OnlyFor(c) BY <1>1, <1>2 DEF OnlyFor
<1>6. RowOK(c)'
  <2>1. RowOK(c) BY DEF Inductive
  <2> QED BY <1>3, <2>1 DEF RowOK
<1>7. StepOK(c)' BY <1>1, <1>2 DEF StepOK, Fits, Effective
<1>8. ResumeOK(c)'
  <2>1. ResumeOK(c) BY DEF Inductive
  <2> QED BY <1>1, <2>1 DEF ResumeOK, FileOf, Fits
<1>9. \A d \in Decisions : DecisionOK(d)' BY DEF Inductive, DecisionOK
<1> QED BY <1>4, <1>5, <1>6, <1>7, <1>8, <1>9, EffectMoves DEF AppendsOnly, ExchangesKept, Effective

LEMMA WorkerIsEffective ==
  ASSUME Inductive, NEW c \in Turns, step[c] # "idle" \/ effect[c] = "ready"
  PROVE  /\ Effective(c) /\ (step[c] # "idle" => effect[c] = "claimed")
         /\ \A place \in {"idle", "dropped", "finish"} : Fits(c, place)
<1>1. /\ changes[c] \in Rows /\ Restores(changes[c])
      /\ effect[c] \in {"none", "ready", "claimed", "completed"}
  BY DEF Inductive, Types, RowOK
<1>2. /\ effect[c] # "none" <=> changes[c].state \in Decided
      /\ step[c] # "idle" => effect[c] = "claimed"
  BY DEF Inductive, StepOK
<1> QED BY <1>1, <1>2 DEF Effective, Fits, Places

\* Nothing but the worker's place and the effect's state changes.
PlaceOnly ==
  UNCHANGED <<scene, changes, files, plan, line, admitted, exchange, active, facts, decision, now,
              resumes>>
LEMMA PlaceOnlyKeeps ==
  ASSUME Inductive, NEW c \in Turns, Effective(c),
         NEW place, NEW e \in {"ready", "claimed", "completed"}, Puts(c, place, e), Fits(c, place),
         place # "idle" => e = "claimed", place = "mark" => Applied(c), PlaceOnly
  PROVE  Inductive'
<1>1. AppendsOnly(c) /\ ExchangesKept
  BY NothingAppended DEF ExchangesKept, PlaceOnly, Inductive, Types
<1>2. place = "mark" => Applied(c)' BY DEF Applied, PlaceOnly
<1>3. UNCHANGED <<scene, changes, files, plan, admitted, active, facts, decision, now, resumes>>
  BY DEF PlaceOnly
<1> QED BY <1>1, <1>2, <1>3, PlaceMoves

\* The worker goes on under its claim.
LEMMA GoesOn ==
  ASSUME Inductive, NEW c \in Turns, NEW place, effect[c] = "claimed", Go(c, place),
         UNCHANGED effect
  PROVE  Puts(c, place, "claimed")
BY DEF Puts, Inductive, Types

LEMMA ReleaseKeeps ==
  ASSUME Inductive, NEW c \in Turns, step[c] # "idle", Release(c), PlaceOnly
  PROVE  Inductive'
<1>1. Effective(c) /\ Fits(c, "idle") BY WorkerIsEffective
<1>2. Puts(c, "idle", "ready") BY DEF Release, Puts
<1> QED BY <1>1, <1>2, PlaceOnlyKeeps

LEMMA ClaimKeeps ==
  ASSUME Inductive, NEW c \in Turns, Claim(c)
  PROVE  Inductive'
<1> DEFINE row == changes[c]
           place == CASE row.run # 0 -> "finish"
                      [] row.state = "Applying" -> "apply"
                      [] row.state = "Applied" /\ row.outcome = "Pending" -> "consume"
                      [] OTHER -> "start"
<1>1. effect[c] = "ready" /\ Puts(c, place, "claimed") /\ PlaceOnly BY DEF Claim, Puts, PlaceOnly
<1>2. Effective(c) BY <1>1, WorkerIsEffective
<1>3. row \in Rows /\ Restores(row) /\ row.state \in {"Applying", "Applied"}
  BY <1>2 DEF Effective, Decided
<1>4. CASE row.run # 0
  <2>1. place = "finish" BY <1>3, <1>4 DEF Restores
  <2> QED BY <1>1, <1>2, <2>1, PlaceOnlyKeeps DEF Fits, Places
<1>5. CASE row.run = 0 /\ row.state = "Applying"
  <2>1. place = "apply" BY <1>3, <1>5 DEF Restores
  <2> QED BY <1>1, <1>2, <1>5, <2>1, PlaceOnlyKeeps DEF Fits, Places
<1>6. CASE row.run = 0 /\ row.state = "Applied" /\ row.outcome = "Pending"
  <2>1. place = "consume" BY <1>6
  <2> QED BY <1>1, <1>2, <1>6, <2>1, PlaceOnlyKeeps DEF Fits, Places
<1>7. CASE row.run = 0 /\ row.state = "Applied" /\ row.outcome # "Pending"
  <2>1. place = "start" BY <1>7
  <2> QED BY <1>1, <1>2, <1>7, <2>1, PlaceOnlyKeeps DEF Fits, Places
<1> QED BY <1>3, <1>4, <1>5, <1>6, <1>7

LEMMA ApplyMutationKeeps ==
  ASSUME Inductive, NEW c \in Turns, ApplyMutation(c)
  PROVE  Inductive'
<1>1. /\ step[c] = "apply"
      /\ UNCHANGED <<scene, changes, files, plan, admitted, exchange, active, facts, decision, now,
                     resumes>>
  BY DEF ApplyMutation
<1>2. Effective(c) /\ effect[c] = "claimed" /\ changes[c].state = "Applying"
  BY <1>1, WorkerIsEffective DEF Inductive, StepOK
<1>3. CASE Release(c) /\ UNCHANGED line
  BY <1>1, <1>3, ReleaseKeeps DEF PlaceOnly
<1>4. ASSUME Go(c, "mark"), UNCHANGED effect, AppendsOnly(c), Applied(c)'
      PROVE  Inductive'
  <2>1. Puts(c, "mark", "claimed") BY <1>2, <1>4, GoesOn
  <2>2. Fits(c, "mark") BY <1>2 DEF Fits, Places
  <2>3. ExchangesKept BY <1>1 DEF ExchangesKept, Inductive, Types
  <2> QED BY <1>1, <1>2, <1>4, <2>1, <2>2, <2>3, PlaceMoves
<1>5. CASE ~Applied(c) /\ Len(line) = changes[c].base
  <2>1. line' = Append(line, c) /\ Go(c, "mark") /\ UNCHANGED effect BY <1>5 DEF ApplyMutation
  <2>2. line \in Seq(Turns \cup {User}) BY DEF Inductive, Types
  <2>3. Len(line) \in Nat /\ line' \in Seq(Turns \cup {User}) /\ Len(line') = Len(line) + 1
        /\ line'[Len(line) + 1] = c
    BY <2>1, <2>2, AppendProperties, LenProperties
  <2>4. Len(line) + 1 \in DOMAIN line' BY <2>3, LenProperties
  <2>5. Applied(c)' BY <2>3, <2>4 DEF Applied, Range
  <2> QED BY <1>4, <1>5, <2>1, <2>5 DEF AppendsOnly
<1>6. CASE Applied(c)
  <2>1. Go(c, "mark") /\ UNCHANGED <<line, effect>> BY <1>6 DEF ApplyMutation
  <2>2. Applied(c)' /\ AppendsOnly(c) BY <1>6, <2>1, NothingAppended DEF Applied
  <2> QED BY <1>4, <2>1, <2>2
<1> QED BY <1>3, <1>5, <1>6 DEF ApplyMutation

LEMMA FreezePlanKeeps ==
  ASSUME Inductive, NEW c \in Turns, FreezePlan(c)
  PROVE  Inductive'
<1>1. step[c] = "start" /\ PlaceOnly BY DEF FreezePlan, PlaceOnly
<1>2. /\ Effective(c) /\ effect[c] = "claimed" /\ changes[c].state = "Applied"
      /\ changes[c].outcome # "Pending"
  BY <1>1, WorkerIsEffective DEF Inductive, StepOK
<1>3. CASE Release(c) BY <1>1, <1>3, ReleaseKeeps
<1>4. CASE Go(c, IF admitted[c] # 0 THEN "link" ELSE "admit") /\ UNCHANGED effect
  <2> DEFINE place == IF admitted[c] # 0 THEN "link" ELSE "admit"
  <2>1. Puts(c, place, "claimed") BY <1>2, <1>4, GoesOn
  <2>2. Fits(c, place) /\ place # "mark" BY <1>2 DEF Fits, Places
  <2> HIDE DEF place
  <2> QED BY <1>1, <1>2, <2>1, <2>2, PlaceOnlyKeeps
<1> QED BY <1>3, <1>4 DEF FreezePlan

LEMMA FinishKeeps ==
  ASSUME Inductive, NEW c \in Turns, Finish(c)
  PROVE  Inductive'
<1>1. step[c] # "idle" /\ Puts(c, "idle", "completed") /\ PlaceOnly
  BY DEF Finish, Puts, PlaceOnly
<1>2. Effective(c) /\ Fits(c, "idle") BY <1>1, WorkerIsEffective
<1> QED BY <1>1, <1>2, PlaceOnlyKeeps

LEMMA WorkerFailsKeeps ==
  ASSUME Inductive, NEW c \in Turns, WorkerFails(c)
  PROVE  Inductive'
BY ReleaseKeeps DEF WorkerFails, PlaceOnly

LEMMA WorkerDropsKeeps ==
  ASSUME Inductive, NEW c \in Turns, WorkerDrops(c)
  PROVE  Inductive'
<1> DEFINE x == <<"resume", c>>
<1>1. /\ Go(c, "dropped") /\ step[c] # "idle"
      /\ UNCHANGED <<scene, rows, active, facts, decision, now, resumes>>
  BY DEF WorkerDrops
<1>2. Effective(c) /\ effect[c] = "claimed" /\ Fits(c, "dropped") BY <1>1, WorkerIsEffective
<1>3. Puts(c, "dropped", "claimed") BY <1>1, <1>2, GoesOn DEF rows
<1>4. ExchangesKept
  <2>1. CASE exchange' = exchange BY <2>1 DEF ExchangesKept, Inductive, Types
  <2>2. CASE exchange[x].state \in {"open", "storing"}
    <3>1. x \in Exchanges BY ExchangeNames
    <3>2. 0 \in 0..(now + Lifetime) BY ConstantFacts DEF Inductive, Types
    <3>3. ExchangeOK(x, Closed("failed")) BY <2>2, <3>1, <3>2, ClosedOK
    <3>4. exchange' = [exchange EXCEPT ![x] = Closed("failed")] BY <2>2 DEF WorkerDrops
    <3>5. exchange' \in [Exchanges -> ExchangeRows]
          /\ \A y \in Exchanges : ExchangeOK(y, exchange'[y])
      BY <3>1, <3>3, <3>4, ExchangeSet
    <3> QED BY <1>1, <3>5 DEF ExchangesKept, ExchangeOK, DraftOK, rows
  <2> QED BY <2>1, <2>2 DEF WorkerDrops
<1>5. AppendsOnly(c) BY <1>1, NothingAppended DEF rows
<1> QED BY <1>1, <1>2, <1>3, <1>4, <1>5, PlaceMoves DEF rows

\* The row of a decided change is the worker's.
RowWritten(c, row) ==
  /\ changes' = [changes EXCEPT ![c] = row]
  /\ UNCHANGED <<scene, files, plan, line, effect, exchange, active, facts, decision, now, resumes>>
RowFits(c, row) ==
  /\ row \in Rows /\ row.state = "Applied" /\ Restores(row)
  /\ row.base = changes[c].base /\ row.expires = changes[c].expires /\ row.cont = changes[c].cont
  /\ row.receipt \in DOMAIN line /\ line[row.receipt] = c
  /\ row.outcome = "Resumed" => resumes[c] = 1
\* The worker goes on with a row, and the receipt of a Run.
GoesWith(c, row, place, run) ==
  /\ Go(c, place) /\ place \in {"consume", "start", "link", "finish"}
  /\ place = "consume" => row.outcome = "Pending" /\ row.run = 0
  /\ place \in {"start", "link"} => row.outcome # "Pending"
  /\ admitted' = [admitted EXCEPT ![c] = run] /\ run \in Nat
  /\ run # 0 => row.outcome # "Pending" /\ run = row.receipt
  /\ place = "link" => run # 0

(***************************************************************************)
(* The worker writes the row of an applied change.                         *)
(***************************************************************************)
LEMMA RowWrittenKeeps ==
  ASSUME Inductive, NEW c \in Turns, Effective(c), effect[c] = "claimed",
         NEW row, RowWritten(c, row), RowFits(c, row),
         NEW place, NEW run, GoesWith(c, row, place, run),
         resumes[c] = 1 => changes[c].state = "Applied"
  PROVE  Inductive'
<1>1. /\ changes' \in [Turns -> Rows] /\ changes'[c] = row
      /\ \A k \in Turns \ {c} : changes'[k] = changes[k]
  BY DEF RowWritten, RowFits, Inductive, Types
<1>2. /\ step' \in [Turns -> Places] /\ step'[c] = place
      /\ \A k \in Turns \ {c} : step'[k] = step[k]
  BY DEF GoesWith, Go, Inductive, Types, Places
<1>3. /\ admitted' \in [Turns -> Nat] /\ admitted'[c] = run
      /\ \A k \in Turns \ {c} : admitted'[k] = admitted[k]
  BY DEF GoesWith, Inductive, Types
<1>4. Types' BY <1>1, <1>2, <1>3 DEF Inductive, Types, RowWritten
<1>5. OnlyFor(c) BY <1>1, <1>2, <1>3 DEF OnlyFor, RowWritten
<1>6. RowOK(c)'
  <2>1. changes[c].expires <= now + Lifetime BY DEF Inductive, RowOK
  <2> QED BY <1>1, <1>3, <2>1 DEF RowOK, RowWritten, RowFits, GoesWith
<1>7. StepOK(c)' BY <1>1, <1>2, <1>3 DEF StepOK, RowWritten, RowFits, GoesWith, Decided
<1>8. ResumeOK(c)'
  <2>1. resumes[c] = 1 => FileOf(c) \notin files BY DEF Inductive, ResumeOK
  <2> QED BY <1>1, <1>2, <2>1 DEF ResumeOK, RowWritten, RowFits, GoesWith, FileOf
<1>9. \A d \in Decisions : DecisionOK(d)' BY DEF Inductive, DecisionOK, RowWritten
<1>10. /\ changes'[c].base = changes[c].base /\ changes'[c].state \in Decided
       /\ line' = line /\ exchange' = exchange /\ UNCHANGED <<scene, plan, now, resumes>>
  BY <1>1 DEF RowWritten, RowFits, Decided
<1> QED BY <1>4, <1>5, <1>6, <1>7, <1>8, <1>9, <1>10, EffectMoves

(***************************************************************************)
(* The receipt of a change that is in the line is the revision after its   *)
(* base.                                                                   *)
(***************************************************************************)
LEMMA ReceiptIsNext ==
  ASSUME Inductive, NEW c \in Turns, Applied(c)
  PROVE  /\ changes[c].base + 1 \in DOMAIN line /\ line[changes[c].base + 1] = c
         /\ (CHOOSE r \in DOMAIN line : line[r] = c) = changes[c].base + 1
<1>1. PICK k \in DOMAIN line : line[k] = c BY DEF Applied, Range
<1>2. \A r \in DOMAIN line : line[r] = c => r = changes[c].base + 1 BY DEF Inductive, LineOK
<1> QED BY <1>1, <1>2

LEMMA MarkAppliedKeeps ==
  ASSUME Inductive, NEW c \in Turns, MarkApplied(c)
  PROVE  Inductive'
<1> DEFINE next == changes[c].base + 1
           row == [changes[c] EXCEPT !.state = "Applied", !.receipt = next]
<1>1. /\ step[c] = "mark" /\ Go(c, "consume")
      /\ UNCHANGED <<scene, files, plan, line, admitted, effect, exchange, active, facts, decision,
                     now, resumes>>
  BY DEF MarkApplied
<1>2. Effective(c) /\ effect[c] = "claimed" /\ changes[c].state = "Applying" /\ Applied(c)
  BY <1>1, WorkerIsEffective DEF Inductive, StepOK
<1>3. /\ (CHOOSE r \in DOMAIN line : line[r] = c) = next
      /\ next \in DOMAIN line /\ line[next] = c
  BY <1>2, ReceiptIsNext
<1>4. changes[c] \in Rows /\ Restores(changes[c]) BY <1>2 DEF Effective
<1>5. changes[c].base \in Nat BY <1>4 DEF Rows
<1>6. changes' = [changes EXCEPT ![c] = row] BY <1>3 DEF MarkApplied, Inductive, Types
<1>7. next \in Nat /\ next # 0 BY <1>5
<1> HIDE DEF next
<1>8. /\ row \in Rows /\ row.state = "Applied" /\ row.receipt = next /\ row.base = changes[c].base
      /\ row.expires = changes[c].expires /\ row.cont = changes[c].cont
      /\ row.outcome = changes[c].outcome /\ row.run = changes[c].run
      /\ row.verdict = changes[c].verdict
  BY <1>4, <1>7 DEF Rows, States
<1> HIDE DEF row
<1>9. Restores(row) /\ row.outcome = "Pending" /\ row.run = 0
  BY <1>2, <1>4, <1>7, <1>8 DEF Restores
<1>10. admitted' = [admitted EXCEPT ![c] = 0] /\ (resumes[c] = 1 => changes[c].state = "Applied")
  BY <1>1, <1>2 DEF Inductive, Types, RowOK, ResumeOK
<1>11. RowWritten(c, row) BY <1>1, <1>6 DEF RowWritten
<1>12. RowFits(c, row) BY <1>3, <1>8, <1>9 DEF RowFits
<1>13. GoesWith(c, row, "consume", 0) BY <1>1, <1>9, <1>10 DEF GoesWith
<1> QED BY <1>2, <1>10, <1>11, <1>12, <1>13, RowWrittenKeeps

LEMMA CommitOutcomeKeeps ==
  ASSUME Inductive, NEW c \in Turns, CommitOutcome(c)
  PROVE  Inductive'
<1>1. PICK outcome \in {"Resumed", "Interrupted"} :
        /\ changes' = [changes EXCEPT ![c].outcome = outcome]
        /\ outcome = "Resumed" => step[c] = "resuming"
  BY DEF CommitOutcome
<1> DEFINE row == [changes[c] EXCEPT !.outcome = outcome]
<1>2. /\ step[c] \in {"interrupt", "resuming"} /\ Go(c, "start")
      /\ UNCHANGED <<scene, files, plan, line, admitted, effect, exchange, active, facts, decision,
                     now, resumes>>
  BY DEF CommitOutcome
<1>3. /\ Effective(c) /\ effect[c] = "claimed" /\ changes[c].state = "Applied"
      /\ changes[c].outcome = "Pending" /\ changes[c].run = 0
  BY <1>2, WorkerIsEffective DEF Inductive, StepOK
<1>4. /\ changes[c] \in Rows /\ Restores(changes[c]) /\ changes[c].receipt \in DOMAIN line
      /\ line[changes[c].receipt] = c /\ admitted[c] = 0
  BY <1>3 DEF Effective, Inductive, RowOK
<1>5. outcome = "Resumed" => resumes[c] = 1 BY <1>1 DEF Inductive, ResumeOK
<1>6. changes' = [changes EXCEPT ![c] = row] BY <1>1 DEF Inductive, Types
<1>7. /\ row \in Rows /\ row.state = "Applied" /\ row.receipt = changes[c].receipt
      /\ row.base = changes[c].base
      /\ row.expires = changes[c].expires /\ row.cont = changes[c].cont
      /\ row.outcome = outcome /\ row.run = 0
      /\ row.verdict = changes[c].verdict
  BY <1>1, <1>3, <1>4 DEF Rows, States
<1> HIDE DEF row
<1>8. Restores(row) BY <1>1, <1>3, <1>4, <1>7 DEF Restores
<1>9. admitted' = [admitted EXCEPT ![c] = 0] BY <1>2, <1>4 DEF Inductive, Types
<1>10. RowWritten(c, row) BY <1>2, <1>6 DEF RowWritten
<1>11. RowFits(c, row) BY <1>4, <1>5, <1>7, <1>8 DEF RowFits
<1>12. GoesWith(c, row, "start", 0) BY <1>1, <1>2, <1>7, <1>9 DEF GoesWith
<1> QED BY <1>3, <1>10, <1>11, <1>12, RowWrittenKeeps

(***************************************************************************)
(* A Run is admitted and linked: of the receipt's revision.                *)
(***************************************************************************)
LEMMA AdmitRunKeeps ==
  ASSUME Inductive, NEW c \in Turns, AdmitRun(c)
  PROVE  Inductive'
<1>1. /\ step[c] = "admit" /\ Go(c, "link")
      /\ admitted' = [admitted EXCEPT ![c] = changes[c].receipt]
      /\ UNCHANGED <<scene, changes, files, plan, line, effect, exchange, active, facts, decision,
                     now, resumes>>
  BY DEF AdmitRun
<1>2. /\ Effective(c) /\ effect[c] = "claimed" /\ changes[c].state = "Applied"
      /\ changes[c].outcome # "Pending"
  BY <1>1, WorkerIsEffective DEF Inductive, StepOK
<1>3. /\ changes[c] \in Rows /\ Restores(changes[c]) /\ changes[c].receipt \in DOMAIN line
      /\ line[changes[c].receipt] = c /\ changes[c].receipt # 0
  BY <1>2 DEF Effective, Inductive, RowOK, Restores
<1>4. RowWritten(c, changes[c]) BY <1>1 DEF RowWritten, Inductive, Types
<1>5. changes[c].receipt \in Nat BY <1>3 DEF Rows
<1>6. changes[c].outcome = "Resumed" => resumes[c] = 1 BY DEF Inductive, ResumeOK
<1>7. RowFits(c, changes[c]) BY <1>2, <1>3, <1>6 DEF RowFits
<1>8. GoesWith(c, changes[c], "link", changes[c].receipt) BY <1>1, <1>2, <1>3, <1>5 DEF GoesWith
<1> QED BY <1>2, <1>4, <1>7, <1>8, RowWrittenKeeps

LEMMA LinkRunKeeps ==
  ASSUME Inductive, NEW c \in Turns, LinkRun(c)
  PROVE  Inductive'
<1> DEFINE row == [changes[c] EXCEPT !.run = admitted[c]]
<1>1. /\ step[c] = "link" /\ Go(c, "finish")
      /\ changes' = [changes EXCEPT ![c].run = admitted[c]]
      /\ UNCHANGED <<scene, files, plan, line, admitted, effect, exchange, active, facts, decision,
                     now, resumes>>
  BY DEF LinkRun
<1>2. /\ Effective(c) /\ effect[c] = "claimed" /\ changes[c].state = "Applied"
      /\ changes[c].outcome # "Pending" /\ admitted[c] # 0
  BY <1>1, WorkerIsEffective DEF Inductive, StepOK
<1>3. /\ changes[c] \in Rows /\ Restores(changes[c]) /\ changes[c].receipt \in DOMAIN line
      /\ line[changes[c].receipt] = c /\ admitted[c] = changes[c].receipt /\ admitted[c] \in Nat
  BY <1>2 DEF Effective, Inductive, RowOK, Types
<1>4. changes' = [changes EXCEPT ![c] = row] BY <1>1 DEF Inductive, Types
<1>5. /\ row \in Rows /\ row.state = "Applied" /\ row.receipt = changes[c].receipt
      /\ row.base = changes[c].base
      /\ row.expires = changes[c].expires /\ row.cont = changes[c].cont
      /\ row.outcome = changes[c].outcome /\ row.run = admitted[c]
      /\ row.verdict = changes[c].verdict
  BY <1>2, <1>3 DEF Rows, States
<1> HIDE DEF row
<1>6. Restores(row) BY <1>2, <1>3, <1>5 DEF Restores
<1>7. admitted' = [admitted EXCEPT ![c] = admitted[c]] BY <1>1 DEF Inductive, Types
<1>8. changes[c].outcome = "Resumed" => resumes[c] = 1 BY DEF Inductive, ResumeOK
<1>9. RowWritten(c, row) BY <1>1, <1>4 DEF RowWritten
<1>10. RowFits(c, row) BY <1>2, <1>3, <1>5, <1>6, <1>8 DEF RowFits
<1>11. GoesWith(c, row, "finish", admitted[c]) BY <1>1, <1>2, <1>3, <1>5, <1>7 DEF GoesWith
<1> QED BY <1>2, <1>9, <1>10, <1>11, RowWrittenKeeps

(***************************************************************************)
(* The turn is resumed because its file was there, and then it is not.     *)
(***************************************************************************)
LEMMA ConsumeContinuationKeeps ==
  ASSUME Inductive, NEW c \in Turns, ConsumeContinuation(c)
  PROVE  Inductive'
<1> DEFINE x == <<"resume", c>>
<1>1. /\ step[c] = "consume" /\ Found(c) /\ files' = files \ {FileOf(c)}
      /\ UNCHANGED <<scene, changes, plan, line, admitted, effect, active, facts, decision, now>>
  BY DEF ConsumeContinuation
<1>2. /\ Effective(c) /\ effect[c] = "claimed" /\ changes[c].state = "Applied"
      /\ changes[c].outcome = "Pending" /\ changes[c].run = 0 /\ RowOK(c) /\ ResumeOK(c) /\ StepOK(c)
  BY <1>1, WorkerIsEffective DEF Inductive, StepOK
<1>3. x \in Exchanges /\ x \in Resumes /\ x[2] = c /\ x \notin Starts
      /\ \A y \in Exchanges : x # y /\ y \in Resumes => y[2] # c
  BY ExchangeNames
<1>4. /\ Opened \in ExchangeRows /\ Opened.expires = now + Lifetime /\ Opened.draft = NoDraft
      /\ Opened.state = "open"
  <2>1. now + Lifetime \in Nat BY ConstantFacts DEF Inductive, Types
  <2>2. Closed("open") \in ExchangeRows /\ Closed("open").draft = NoDraft
        /\ Closed("open").state = "open"
    BY NoPlanFacts DEF Closed, ExchangeRows
  <2> QED BY <2>1, <2>2 DEF Opened, ExchangeRows
<1>5. /\ step' \in [Turns -> Places] /\ \A k \in Turns \ {c} : step'[k] = step[k]
      /\ step'[c] \in {"resuming", "interrupt"}
  BY <1>1 DEF Found, Go, Inductive, Types, Places
<1>6. CASE FileOf(c) \in files
  <2>1. /\ exchange' = [exchange EXCEPT ![x] = Opened]
        /\ resumes' = [resumes EXCEPT ![c] = @ + 1]
    BY <1>1, <1>6 DEF Found
  <2>2. resumes[c] = 0 BY <1>2, <1>6 DEF ResumeOK, Inductive, Types
  <2>3. /\ resumes' \in [Turns -> {0, 1}] /\ resumes'[c] = 1
        /\ \A k \in Turns \ {c} : resumes'[k] = resumes[k]
    BY <2>1, <2>2 DEF Inductive, Types
  <2>4. /\ exchange' \in [Exchanges -> ExchangeRows] /\ exchange'[x] = Opened
        /\ \A y \in Exchanges \ {x} : exchange'[y] = exchange[y]
    BY <1>3, <1>4, <2>1 DEF Inductive, Types
  <2>5. Types' BY <1>1, <1>5, <2>3, <2>4 DEF Inductive, Types
  <2>6. OnlyFor(c) BY <1>1, <1>5, <2>3 DEF OnlyFor
  <2>7. RowOK(c)' BY <1>1, <1>2 DEF RowOK
  <2>8. StepOK(c)' BY <1>1, <1>2, <1>5 DEF StepOK
  <2>9. ResumeOK(c)' BY <1>1, <1>2, <2>3 DEF ResumeOK, FileOf
  <2>10. ExchangeOK(x, exchange[x])'
    <3>1. x \in Resumes => resumes'[x[2]] = 1 BY <2>3
    <3>2. /\ exchange'[x] \in ExchangeRows /\ exchange'[x].expires = now' + Lifetime
          /\ exchange'[x].draft = NoDraft /\ exchange'[x].state = "open"
      BY <1>1, <1>4, <2>4
    <3>3. now' + Lifetime \in Nat BY <1>1, ConstantFacts DEF Inductive, Types
    <3> HIDE DEF x
    <3> QED BY <3>1, <3>2, <3>3 DEF ExchangeOK, DraftOK
  <2>11. \A d \in Decisions : DecisionOK(d)' BY <1>1 DEF Inductive, DecisionOK
  <2>12. \A y \in Exchanges : exchange'[y] = exchange[y] \/ ExchangeOK(y, exchange[y])'
    BY <2>4, <2>10
  <2>13. line' = line /\ changes' = changes /\ UNCHANGED <<scene, plan, now>> BY <1>1
  <2> QED BY <2>3, <2>5, <2>6, <2>7, <2>8, <2>9, <2>11, <2>12, <2>13, EffectMoves
<1>7. CASE FileOf(c) \notin files
  <2>1. UNCHANGED <<exchange, resumes>> /\ Go(c, "interrupt") /\ files' = files
    BY <1>1, <1>7 DEF Found
  <2>2. PlaceOnly BY <1>1, <2>1 DEF PlaceOnly
  <2>3. Puts(c, "interrupt", "claimed") BY <1>1, <1>2, <2>1, GoesOn
  <2>4. Fits(c, "interrupt") BY <1>2 DEF Fits, Places
  <2> QED BY <1>2, <2>2, <2>3, <2>4, PlaceOnlyKeeps
<1> QED BY <1>6, <1>7

----------------------------------------------------------------------------
(* The surroundings, and the invariant.                                    *)

LEMMA UserEditKeeps ==
  ASSUME Inductive, UserEdit
  PROVE  Inductive'
<1> USE DEF Inductive
<1>1. /\ line' = Append(line, User)
      /\ UNCHANGED <<scene, changes, files, plan, admitted, effect, exchange, active, facts,
                     decision, step, now, resumes>>
  BY DEF UserEdit
<1>2. /\ line' \in Seq(Turns \cup {User})
      /\ \A r \in DOMAIN line : r \in DOMAIN line' /\ line'[r] = line[r]
      /\ \A r \in DOMAIN line' \ DOMAIN line : line'[r] = User
      /\ \A c \in Turns : Applied(c) => Applied(c)'
  BY <1>1, LineGrows
<1>3. Types' BY <1>1, <1>2 DEF Types
<1>4. LineOK'
  <2>1. User \notin Turns BY ConstantFacts
  <2>2. \A r \in DOMAIN line' : line'[r] \in Turns => r \in DOMAIN line /\ line'[r] = line[r]
    BY <1>2, <2>1
  <2> QED BY <1>1, <2>2 DEF LineOK
<1>5. ASSUME NEW c \in Turns PROVE (RowOK(c) /\ StepOK(c) /\ ResumeOK(c))'
  <2>1. RowOK(c)' BY <1>1, <1>2 DEF RowOK
  <2>2. StepOK(c)' BY <1>1, <1>2 DEF StepOK
  <2>3. ResumeOK(c)' BY <1>1 DEF ResumeOK, FileOf
  <2> QED BY <2>1, <2>2, <2>3
<1>6. \A y \in Exchanges : ExchangeOK(y, exchange[y])' BY <1>1 DEF ExchangeOK, DraftOK
<1>7. PlanOK' /\ \A d \in Decisions : DecisionOK(d)' BY <1>1 DEF PlanOK, DecisionOK
<1> QED BY <1>1, <1>3, <1>4, <1>5, <1>6, <1>7

LEMMA TickKeeps ==
  ASSUME Inductive, Tick
  PROVE  Inductive'
<1> USE DEF Inductive
<1>1. /\ now < scene.ticks /\ now' = now + 1
      /\ UNCHANGED <<scene, rows, exchange, active, facts, decision, step, resumes>>
  BY DEF Tick
<1>2. now \in Nat /\ now' \in Nat /\ scene.ticks \in Nat /\ now' <= scene.ticks /\ Lifetime \in Nat
  BY <1>1, SceneFacts, ConstantFacts DEF Types
<1>3. Types' BY <1>1, <1>2 DEF Types, rows
<1>4. ASSUME NEW c \in Turns PROVE (RowOK(c) /\ StepOK(c) /\ ResumeOK(c))'
  <2>1. changes[c].expires \in Nat BY DEF Types, Rows
  <2>2. RowOK(c)' BY <1>1, <1>2, <2>1 DEF RowOK, rows
  <2>3. StepOK(c)' BY <1>1 DEF StepOK, rows, Applied
  <2>4. ResumeOK(c)' BY <1>1 DEF ResumeOK, FileOf, rows
  <2> QED BY <2>2, <2>3, <2>4
<1>5. ASSUME NEW y \in Exchanges PROVE ExchangeOK(y, exchange[y])'
  <2>1. ExchangeOK(y, exchange[y]) /\ exchange[y].expires \in Nat BY DEF ExchangeOK, ExchangeRows
  <2> QED BY <1>1, <1>2, <2>1 DEF ExchangeOK, DraftOK, rows
<1>6. PlanOK' /\ LineOK' /\ \A d \in Decisions : DecisionOK(d)'
  BY <1>1 DEF PlanOK, LineOK, DecisionOK, rows
<1> QED BY <1>1, <1>2, <1>3, <1>4, <1>5, <1>6

(***************************************************************************)
(* A restart loses what was under way; claimed effects are ready again.    *)
(***************************************************************************)
LEMMA CrashKeeps ==
  ASSUME Inductive, Crash
  PROVE  Inductive'
<1> USE DEF Inductive
<1>1. UNCHANGED <<scene, changes, files, plan, line, admitted, now, resumes>> BY DEF Crash
<1>2. ASSUME NEW x \in Exchanges PROVE ExchangeOK(x, exchange[x])' /\ exchange'[x] \in ExchangeRows
  <2>1. CASE exchange[x].state \notin {"open", "storing"}
    <3>1. exchange'[x] = exchange[x] BY <2>1 DEF Crash
    <3> QED BY <1>1, <3>1 DEF ExchangeOK, DraftOK
  <2>2. CASE exchange[x].state \in {"open", "storing"}
    <3>1. exchange'[x] \in {Closed("over"), Closed("failed")} BY <2>2 DEF Crash
    <3>2. 0 \in 0..(now + Lifetime) BY ConstantFacts DEF Types
    <3>3. exchange[x].state # "new" BY <2>2
    <3>4. ExchangeOK(x, Closed("over")) /\ ExchangeOK(x, Closed("failed"))
      BY <3>2, <3>3, ClosedOK
    <3>5. ExchangeOK(x, exchange'[x]) BY <3>1, <3>4
    <3> QED BY <1>1, <3>5 DEF ExchangeOK, DraftOK
  <2> QED BY <2>1, <2>2
<1>3. exchange' \in [Exchanges -> ExchangeRows] BY <1>2 DEF Crash
<1>4. /\ decision' = [d \in Decisions |-> NoDecision]
      /\ decision' \in [Decisions -> [pc : {"idle", "commit", "consume"}, change : Turns \cup {None}]]
  BY DEF Crash, NoDecision
<1>5. /\ effect' \in [Turns -> {"none", "ready", "claimed", "completed"}]
      /\ \A c \in Turns : effect'[c] # "none" <=> effect[c] # "none"
  BY DEF Crash, Types
<1>6. step' = [c \in Turns |-> "idle"] /\ step' \in [Turns -> Places] BY DEF Crash, Places
<1>7. active' \in BOOLEAN /\ facts' \in [Turns -> Turns \cup {None}] BY DEF Crash
<1>8. Types' BY <1>1, <1>3, <1>4, <1>5, <1>6, <1>7 DEF Types
<1>9. ASSUME NEW c \in Turns PROVE (RowOK(c) /\ StepOK(c) /\ ResumeOK(c))'
  <2>1. RowOK(c)' BY <1>1 DEF RowOK
  <2>2. StepOK(c)' BY <1>1, <1>5, <1>6 DEF StepOK
  <2>3. ResumeOK(c)' BY <1>1, <1>6 DEF ResumeOK, FileOf
  <2> QED BY <2>1, <2>2, <2>3
<1>10. PlanOK' /\ LineOK' BY <1>1 DEF PlanOK, LineOK
<1>11. \A d \in Decisions : DecisionOK(d)' BY <1>4 DEF DecisionOK, NoDecision
<1> QED BY <1>1, <1>2, <1>8, <1>9, <1>10, <1>11

LEMMA InitKeeps ==
  ASSUME Init
  PROVE  Inductive
<1>1. NoChange \in Rows BY DEF NoChange, Rows, States
<1>2. /\ Closed("new") \in ExchangeRows /\ Closed("new").expires = 0
      /\ Closed("new").draft = NoDraft /\ Closed("new").state = "new"
  BY NoPlanFacts DEF Closed, ExchangeRows
<1>3. line = <<User>> /\ line \in Seq(Turns \cup {User}) /\ DOMAIN line = {1} BY DEF Init
<1>4. Types
  BY <1>1, <1>2, <1>3, NoPlanFacts DEF Init, Types, NoDecision, Places
<1>5. now <= scene.ticks BY <1>4, SceneFacts DEF Init
<1>6. PlanOK BY NoPlanFacts, ConstantFacts DEF Init, PlanOK
<1>7. LineOK BY <1>3, ConstantFacts DEF LineOK
<1>8. ASSUME NEW c \in Turns PROVE RowOK(c) /\ StepOK(c) /\ ResumeOK(c)
  <2>1. changes[c] = NoChange /\ admitted[c] = 0 /\ effect[c] = "none" /\ step[c] = "idle"
        /\ resumes[c] = 0 /\ now = 0
    BY DEF Init
  <2>2. RowOK(c) BY <2>1, ConstantFacts DEF RowOK, Restores, NoChange
  <2>3. StepOK(c) BY <2>1 DEF StepOK, NoChange, Decided
  <2>4. ResumeOK(c) BY <2>1 DEF ResumeOK, NoChange
  <2> QED BY <2>2, <2>3, <2>4
<1>9. \A x \in Exchanges : ExchangeOK(x, exchange[x])
  BY <1>2, ConstantFacts DEF Init, ExchangeOK, DraftOK
<1>10. \A d \in Decisions : DecisionOK(d) BY DEF Init, NoDecision, DecisionOK
<1> QED BY <1>4, <1>5, <1>6, <1>7, <1>8, <1>9, <1>10 DEF Inductive

LEMMA StutterKeeps ==
  ASSUME Inductive, UNCHANGED vars
  PROVE  Inductive'
<1> USE DEF Inductive, vars
<1>1. Types' BY DEF Types
<1>2. \A c \in Turns : RowOK(c)' /\ StepOK(c)' /\ ResumeOK(c)'
  BY DEF RowOK, StepOK, ResumeOK, FileOf, Applied
<1>3. \A y \in Exchanges : ExchangeOK(y, exchange[y])' BY DEF ExchangeOK, DraftOK
<1>4. PlanOK' /\ LineOK' /\ \A d \in Decisions : DecisionOK(d)' BY DEF PlanOK, LineOK, DecisionOK
<1> QED BY <1>1, <1>2, <1>3, <1>4

LEMMA TurnStepKeeps ==
  ASSUME Inductive, NEW x \in Exchanges, TurnStep(x)
  PROVE  Inductive'
BY ProposeKeeps, AcceptVerdictKeeps, LoadPlanKeeps, SavePlanKeeps, FetchKeeps, RejectVerdictKeeps,
   StoreEnvelopeKeeps DEF TurnStep

LEMMA DecisionStepKeeps ==
  ASSUME Inductive, NEW d \in Decisions, DecisionStep(d)
  PROVE  Inductive'
BY DecideCommitsKeeps, DecideConsumesKeeps, DecideFailsKeeps, DecideLoadsKeeps DEF DecisionStep

LEMMA EffectStepKeeps ==
  ASSUME Inductive, NEW c \in Turns, EffectStep(c)
  PROVE  Inductive'
BY ClaimKeeps, ApplyMutationKeeps, MarkAppliedKeeps, ConsumeContinuationKeeps, CommitOutcomeKeeps,
   FreezePlanKeeps, AdmitRunKeeps, LinkRunKeeps, FinishKeeps DEF EffectStep

LEMMA NextKeeps ==
  ASSUME Inductive, [Next]_vars
  PROVE  Inductive'
<1> USE SendMessageKeeps, TurnStepKeeps, CompletesKeeps, DecisionStepKeeps, EffectStepKeeps,
        WorkerFailsKeeps, WorkerDropsKeeps, UserEditKeeps, TickKeeps, CrashKeeps, StutterKeeps
<1> QED BY DEF Next

(***************************************************************************)
(* The invariant holds in every state of every behaviour.                  *)
(***************************************************************************)
THEOREM ChangeInvariant == Spec => []Inductive
<1>1. Init => Inductive BY InitKeeps
<1>2. Inductive /\ [Next]_vars => Inductive' BY NextKeeps
<1> QED BY <1>1, <1>2, PTL DEF Spec

(***************************************************************************)
(* Rows, memory and program counters have their types, and what a change   *)
(* stands for is there (all of assistant_workflow_change.rs's states).     *)
(***************************************************************************)
THEOREM TypeCorrect == Spec => []TypeOK
<1>1. ASSUME Inductive PROVE TypeOK
  <2>1. ASSUME NEW c \in Turns
        PROVE  /\ changes[c].state \in States /\ changes[c].expires \in 0 .. scene.ticks + Lifetime
               /\ changes[c].cont \in Turns \cup {None} /\ facts[c] \in Turns \cup {None}
               /\ effect[c] # "none" <=> changes[c].state \in {"Applying", "Applied"}
               /\ step[c] # "idle" => effect[c] = "claimed"
               /\ exchange[<<"resume", c>>].state # "new" => changes[c].state = "Applied"
    <3>1. /\ changes[c] \in Rows /\ facts[c] \in Turns \cup {None} /\ RowOK(c) /\ StepOK(c)
          /\ ResumeOK(c) /\ now \in Nat /\ now <= scene.ticks
      BY <1>1 DEF Inductive, Types
    <3>2. scene.ticks \in Nat /\ Lifetime \in Nat BY <1>1, SceneFacts, ConstantFacts DEF Inductive
    <3>3. changes[c].expires \in Nat /\ changes[c].expires <= now + Lifetime
      BY <3>1 DEF Rows, RowOK
    <3>4. changes[c].expires \in 0 .. scene.ticks + Lifetime BY <3>1, <3>2, <3>3
    <3>5. exchange[<<"resume", c>>].state # "new" => changes[c].state = "Applied"
      <4>1. <<"resume", c>> \in Exchanges /\ <<"resume", c>> \in Resumes BY ExchangeNames
      <4>2. ExchangeOK(<<"resume", c>>, exchange[<<"resume", c>>]) BY <1>1, <4>1 DEF Inductive
      <4>3. <<"resume", c>>[2] = c OBVIOUS
      <4> QED BY <3>1, <4>1, <4>2, <4>3 DEF ExchangeOK, ResumeOK
    <3> QED BY <3>1, <3>4, <3>5 DEF Rows, StepOK, Decided
  <2>2. files \subseteq Turns \X Turns /\ plan.revision \in 0 .. MaxPlan /\ ValidItems(plan.items)
    BY <1>1, ConstantFacts DEF Inductive, Types, PlanOK, PlanRows
  <2> QED BY <2>1, <2>2 DEF TypeOK
<1> QED BY <1>1, ChangeInvariant, PTL

(***************************************************************************)
(* Every row that is written can be read back: the checks of try_restore   *)
(* on the evidence of a state hold after any interleaving of turns,        *)
(* decisions and effect.                                                   *)
(***************************************************************************)
THEOREM RowsRestore == Spec => []StoredChangesRestore
<1>1. ASSUME Inductive PROVE StoredChangesRestore
  BY <1>1 DEF Inductive, RowOK, Restores, StoredChangesRestore
<1> QED BY <1>1, ChangeInvariant, PTL

(***************************************************************************)
(* The turn that reviewed a change is resumed at most once, and only when  *)
(* the change is in the Workflow: retries and restarts of the effect do    *)
(* not matter (ConsumeContinuation).                                       *)
(***************************************************************************)
THEOREM TurnResumesOnce == Spec => []ResumedOnce
<1>1. ASSUME Inductive PROVE ResumedOnce
  <2>1. ASSUME NEW c \in Turns
        PROVE  /\ resumes[c] <= 1 /\ (resumes[c] = 1 => Applied(c))
               /\ changes[c].outcome = "Resumed" => resumes[c] = 1
               /\ changes[c].state \in {"AwaitingApproval", "Rejected"} => resumes[c] = 0
    <3>1. resumes[c] \in {0, 1} /\ RowOK(c) /\ ResumeOK(c) BY <1>1 DEF Inductive, Types
    <3>2. changes[c].state = "Applied" => Applied(c) BY <3>1 DEF RowOK, Applied, Range
    <3> QED BY <3>1, <3>2 DEF ResumeOK
  <2> QED BY <2>1 DEF ResumedOnce
<1> QED BY <1>1, ChangeInvariant, PTL

(***************************************************************************)
(* Every plan that is stored was made out of the one it replaces: two      *)
(* turns that edit it at once lose no write of each other (SavePlan).      *)
(***************************************************************************)
THEOREM PlanIsOneLine == Spec => PlanLine
<1>1. ASSUME Inductive, [Next]_vars
      PROVE  plan' # plan => Successor(plan, plan')
  <2>1. ASSUME NEW x \in Exchanges, SavePlan(x), plan' # plan PROVE Successor(plan, plan')
    <3>1. /\ exchange[x].draft # NoDraft /\ plan.revision + 1 = exchange[x].draft.revision
          /\ plan' = exchange[x].draft
      BY <2>1 DEF SavePlan
    <3>2. DraftOK(exchange[x].draft) BY <1>1 DEF Inductive, ExchangeOK
    <3> QED BY <3>1, <3>2 DEF DraftOK
  <2>2. ASSUME NEW x \in Exchanges, TurnStep(x) PROVE SavePlan(x) \/ UNCHANGED plan
    BY <2>2 DEF TurnStep, Propose, AcceptVerdict, Accepted, LoadPlan, rows, Fetch, RejectVerdict,
                StoreEnvelope
  <2>3. ASSUME NEW d \in Decisions, DecisionStep(d) PROVE UNCHANGED plan
    BY <2>3 DEF DecisionStep, DecideCommits, DecideConsumes, DecideFails, DecideLoads, rows
  <2>4. ASSUME NEW c \in Turns, EffectStep(c) PROVE UNCHANGED plan
    BY <2>4 DEF EffectStep, Claim, ApplyMutation, MarkApplied, ConsumeContinuation, CommitOutcome,
                FreezePlan, AdmitRun, LinkRun, Finish
  <2>5. CASE Next
    <3>1. \/ \E x \in Exchanges : TurnStep(x)
          \/ \E d \in Decisions : DecisionStep(d)
          \/ \E c \in Turns : EffectStep(c)
          \/ UNCHANGED plan
      BY <2>5 DEF Next, SendMessage, Completes, Fails, WorkerFails, WorkerDrops, UserEdit, Tick, Crash,
                  rows
    <3> QED BY <2>1, <2>2, <2>3, <2>4, <3>1
  <2>6. CASE UNCHANGED vars BY <2>6 DEF vars
  <2> QED BY <1>1, <2>5, <2>6
<1>2. ASSUME Inductive, [Next]_vars
      PROVE  [plan' # plan =>
                IF plan = NoPlan THEN plan' \in {NewPlan(items) : items \in ItemLists}
                ELSE plan' \in Moved(plan) \cup {Replaced(plan, items) : items \in ItemLists}]_vars
  BY <1>1, <1>2 DEF Successor
<1> QED BY <1>2, ChangeInvariant, PTL DEF Spec, PlanLine

----------------------------------------------------------------------------
(* Refinement.                                                             *)

\* How a change's stage follows from its row when it has not been applied.
LEMMA StageOfRow ==
  ASSUME Inductive, NEW c \in Turns
  PROVE  /\ changes[c].state = "none" <=> Stage(c) = "none"
         /\ changes[c].state = "Proposed" <=> Stage(c) = "proposed"
         /\ changes[c].state = "ReviewRejected" <=> Stage(c) = "refused"
         /\ changes[c].state = "AwaitingApproval" <=> Stage(c) = "awaiting"
         /\ changes[c].state = "Rejected" <=> Stage(c) = "declined"
         /\ changes[c].state = "Applying" /\ ~Applied(c) => Stage(c) = "approved"
         /\ changes[c].state = "Applied" => Applied(c)
         /\ Applied(c) /\ admitted[c] = 0 => Stage(c) = "applied"
         /\ admitted[c] # 0 => Stage(c) = "running"
<1>1. RowOK(c) /\ changes[c].state \in States BY DEF Inductive, Types, Rows
<1>2. Applied(c) => changes[c].state \in Decided BY DEF Inductive, LineOK, Applied, Range
<1>3. changes[c].state = "Applied" => Applied(c) BY <1>1 DEF RowOK, Applied, Range
<1>4. admitted[c] # 0 => changes[c].state = "Applied" BY <1>1 DEF RowOK
<1>5. CASE admitted[c] # 0 BY <1>3, <1>4, <1>5 DEF Stage
<1>6. CASE admitted[c] = 0 /\ Applied(c) BY <1>2, <1>6 DEF Stage, Decided
<1>7. CASE admitted[c] = 0 /\ ~Applied(c) BY <1>1, <1>3, <1>7 DEF Stage, States
<1> QED BY <1>5, <1>6, <1>7

LEMMA StageOfRowNext ==
  ASSUME Inductive', NEW c \in Turns
  PROVE  /\ changes'[c].state = "none" <=> Stage(c)' = "none"
         /\ changes'[c].state = "Proposed" <=> Stage(c)' = "proposed"
         /\ changes'[c].state = "ReviewRejected" <=> Stage(c)' = "refused"
         /\ changes'[c].state = "AwaitingApproval" <=> Stage(c)' = "awaiting"
         /\ changes'[c].state = "Rejected" <=> Stage(c)' = "declined"
         /\ changes'[c].state = "Applying" /\ ~Applied(c)' => Stage(c)' = "approved"
         /\ changes'[c].state = "Applied" => Applied(c)'
         /\ Applied(c)' /\ admitted'[c] = 0 => Stage(c)' = "applied"
         /\ admitted'[c] # 0 => Stage(c)' = "running"
<1>1. RowOK(c)' /\ changes'[c].state \in States BY DEF Inductive, Types, Rows
<1>2. Applied(c)' => changes'[c].state \in Decided BY DEF Inductive, LineOK, Applied, Range
<1>3. changes'[c].state = "Applied" => Applied(c)' BY <1>1 DEF RowOK, Applied, Range
<1>4. admitted'[c] # 0 => changes'[c].state = "Applied" BY <1>1 DEF RowOK
<1>5. CASE admitted'[c] # 0 BY <1>3, <1>4, <1>5 DEF Stage
<1>6. CASE admitted'[c] = 0 /\ Applied(c)' BY <1>2, <1>6 DEF Stage, Decided
<1>7. CASE admitted'[c] = 0 /\ ~Applied(c)' BY <1>1, <1>3, <1>7 DEF Stage, States
<1> QED BY <1>5, <1>6, <1>7

LEMMA StageKept ==
  ASSUME Inductive, Inductive', NEW c \in Turns,
         changes'[c].state = changes[c].state, admitted'[c] = admitted[c],
         Applied(c)' <=> Applied(c)
  PROVE  Stage(c)' = Stage(c)
<1>1. changes[c].state \in States BY DEF Inductive, Types, Rows
<1>3. CASE admitted[c] # 0
  <2>1. Stage(c) = "running" BY <1>3, StageOfRow
  <2>2. Stage(c)' = "running" BY <1>3, StageOfRowNext
  <2> QED BY <2>1, <2>2
<1>4. CASE admitted[c] = 0 /\ Applied(c)
  <2>1. Stage(c) = "applied" BY <1>4, StageOfRow
  <2>2. Stage(c)' = "applied" BY <1>4, StageOfRowNext
  <2> QED BY <2>1, <2>2
<1>5. CASE changes[c].state = "Applying" /\ ~Applied(c)
  <2>1. Stage(c) = "approved" BY <1>5, StageOfRow
  <2>2. Stage(c)' = "approved" BY <1>5, StageOfRowNext
  <2> QED BY <2>1, <2>2
<1>6. CASE changes[c].state \in States \ Decided
  BY <1>6, StageOfRow, StageOfRowNext DEF States, Decided
<1>7. changes[c].state = "Applied" => Applied(c) BY StageOfRow
<1> QED BY <1>1, <1>3, <1>4, <1>5, <1>6, <1>7 DEF Decided

\* A step the promise does not see.
LEMMA NothingToSee ==
  ASSUME Inductive, Inductive', UNCHANGED <<line, admitted>>,
         \A c \in Turns : /\ changes'[c].state = changes[c].state \/ Stage(c)' = Stage(c)
                          /\ changes'[c].base = changes[c].base
  PROVE  UNCHANGED Promise!promise
<1>1. \A c \in Turns : Applied(c)' <=> Applied(c) BY DEF Applied
<1>2. \A c \in Turns : Stage(c)' = Stage(c) BY <1>1, StageKept
<1> QED BY <1>2 DEF Promise!promise

\* One change moves to another stage.
LEMMA StageMoves ==
  ASSUME NEW c \in Turns, NEW from, NEW to, Stage(c) = from, Stage(c)' = to,
         \A d \in Turns \ {c} : Stage(d)' = Stage(d)
  PROVE  Promise!Move(c, from, to)
BY DEF Promise!Move

\* The row of one change moves, before it is applied.
LEMMA RowMovesStage ==
  ASSUME Inductive, Inductive', NEW c \in Turns, UNCHANGED <<line, admitted>>,
         \A d \in Turns \ {c} : changes'[d] = changes[d]
  PROVE  /\ Promise!Move(c, Stage(c), Stage(c)')
         /\ changes'[c].base = changes[c].base =>
              UNCHANGED <<[k \in Turns |-> changes[k].base], line, admitted>>
<1>1. \A d \in Turns : Applied(d)' <=> Applied(d) BY DEF Applied
<1>2. \A d \in Turns \ {c} : Stage(d)' = Stage(d) BY <1>1, StageKept
<1> QED BY <1>2, StageMoves

LEMMA AllKept ==
  ASSUME Inductive, Inductive', UNCHANGED <<line, admitted, changes>>
  PROVE  UNCHANGED Promise!promise
<1>1. \A c \in Turns : /\ changes'[c].state = changes[c].state
                       /\ changes'[c].base = changes[c].base
  OBVIOUS
<1> QED BY <1>1, NothingToSee

LEMMA TurnStepRefines ==
  ASSUME Inductive, Inductive', NEW x \in Exchanges, TurnStep(x)
  PROVE  [Promise!Next]_(Promise!promise)
<1>1. CASE Propose(x)
  <2> DEFINE row == [NoChange EXCEPT !.state = "Proposed", !.base = Len(line),
                                     !.expires = exchange[x].expires]
  <2>1. PICK c \in Turns : c = Invocation(x) BY <1>1, InvocationIsTurn DEF Propose, Turn
  <2>2. /\ changes[c].state = "none" /\ changes' = [changes EXCEPT ![c] = row]
        /\ UNCHANGED <<line, admitted>>
    BY <1>1, <2>1 DEF Propose
  <2>3. row.state = "Proposed" /\ row.base = Len(line) BY DEF NoChange
  <2> HIDE DEF row
  <2>4. /\ changes'[c].state = "Proposed" /\ changes'[c].base = Len(line)
        /\ \A d \in Turns \ {c} : changes'[d] = changes[d]
    BY <2>2, <2>3 DEF Inductive, Types
  <2>5. Stage(c) = "none" /\ Stage(c)' = "proposed" BY <2>2, <2>4, StageOfRow, StageOfRowNext
  <2>6. Promise!Move(c, "none", "proposed") BY <2>2, <2>4, <2>5, RowMovesStage
  <2>7. [k \in Turns |-> changes[k].base]' = [[k \in Turns |-> changes[k].base] EXCEPT ![c] = Len(line)]
    BY <2>4
  <2>8. Promise!Propose(c) BY <2>2, <2>6, <2>7 DEF Promise!Propose
  <2> QED BY <2>8 DEF Promise!Next
<1>2. CASE AcceptVerdict(x)
  <2>1. PICK c \in Turns : c = exchange[x].pending
    BY <1>2 DEF AcceptVerdict, Inductive, ExchangeOK
  <2>2. /\ changes[c].state = "Proposed" /\ NoneAwaits(c) /\ UNCHANGED <<line, admitted>>
        /\ changes' = [changes EXCEPT ![c].state = "AwaitingApproval", ![c].verdict = "Pass",
                                      ![c].cont = Invocation(x)]
    BY <1>2, <2>1 DEF AcceptVerdict, Accepted, Reviewable
  <2>3. changes \in [Turns -> Rows] BY DEF Inductive, Types
  <2>4. /\ changes'[c].state = "AwaitingApproval" /\ changes'[c].base = changes[c].base
        /\ \A d \in Turns \ {c} : changes'[d] = changes[d]
    BY <2>2, <2>3 DEF Rows
  <2>5. Stage(c) = "proposed" /\ Stage(c)' = "awaiting" BY <2>2, <2>4, StageOfRow, StageOfRowNext
  <2>6. Promise!Move(c, "proposed", "awaiting")
        /\ UNCHANGED <<[k \in Turns |-> changes[k].base], line, admitted>>
    BY <2>2, <2>4, <2>5, RowMovesStage
  <2>7. \A d \in Turns : [k \in Turns |-> Stage(k)][d] # "awaiting"
    BY <2>2, <2>5, StageOfRow DEF NoneAwaits
  <2>8. Promise!Review(c) BY <2>6, <2>7 DEF Promise!Review
  <2> QED BY <2>8 DEF Promise!Next
<1>3. ASSUME NEW c \in Turns, RejectVerdict(x, c) PROVE [Promise!Next]_(Promise!promise)
  <2>1. /\ changes[c].state = "Proposed" /\ UNCHANGED <<line, admitted>>
        /\ changes' = [changes EXCEPT ![c].state = "ReviewRejected", ![c].verdict = "Reject"]
    BY <1>3 DEF RejectVerdict, Reviewable
  <2>2. changes \in [Turns -> Rows] BY DEF Inductive, Types
  <2>3. /\ changes'[c].state = "ReviewRejected" /\ changes'[c].base = changes[c].base
        /\ \A d \in Turns \ {c} : changes'[d] = changes[d]
    BY <2>1, <2>2 DEF Rows
  <2>4. Stage(c) = "proposed" /\ Stage(c)' = "refused" BY <2>1, <2>3, StageOfRow, StageOfRowNext
  <2>5. Promise!Move(c, "proposed", "refused")
        /\ UNCHANGED <<[k \in Turns |-> changes[k].base], line, admitted>>
    BY <2>1, <2>3, <2>4, RowMovesStage
  <2>6. Promise!Review(c) BY <2>5 DEF Promise!Review
  <2> QED BY <2>6 DEF Promise!Next
<1>4. ASSUME LoadPlan(x) \/ SavePlan(x) \/ \E c \in Turns : Fetch(x, c) \/ StoreEnvelope(x, c)
      PROVE  [Promise!Next]_(Promise!promise)
  <2>1. UNCHANGED <<line, admitted, changes>> BY <1>4 DEF LoadPlan, SavePlan, Fetch, StoreEnvelope, rows
  <2> QED BY <2>1, AllKept
<1> QED BY <1>1, <1>2, <1>3, <1>4 DEF TurnStep

LEMMA DecisionStepRefines ==
  ASSUME Inductive, Inductive', NEW d \in Decisions, DecisionStep(d)
  PROVE  [Promise!Next]_(Promise!promise)
<1>1. CASE DecideCommits(d)
  <2>1. PICK c \in Turns : c = decision[d].change
    BY <1>1 DEF DecideCommits, Inductive, DecisionOK
  <2>2. UNCHANGED <<line, admitted>> BY <1>1 DEF DecideCommits
  <2>3. CASE changes[c].state # "AwaitingApproval"
    BY <1>1, <2>1, <2>2, <2>3, AllKept DEF DecideCommits
  <2>4. CASE changes[c].state = "AwaitingApproval"
    <3> DEFINE to == IF d = "Approve" THEN "Applying" ELSE "Rejected"
    <3>1. changes' = [changes EXCEPT ![c].state = to] BY <1>1, <2>1, <2>4 DEF DecideCommits
    <3>2. changes \in [Turns -> Rows] BY DEF Inductive, Types
    <3>3. /\ changes'[c].state = to /\ changes'[c].base = changes[c].base
          /\ \A k \in Turns \ {c} : changes'[k] = changes[k]
      BY <3>1, <3>2 DEF Rows
    <3>4. Stage(c) = "awaiting" /\ ~Applied(c)
      BY <2>4, StageOfRow DEF Inductive, LineOK, Applied, Range, Decided
    <3>5. ~Applied(c)' BY <2>2, <3>4 DEF Applied
    <3>6. Stage(c)' = (IF d = "Approve" THEN "approved" ELSE "declined")
      BY <3>3, <3>5, StageOfRowNext
    <3>7. Promise!Move(c, "awaiting", Stage(c)')
          /\ UNCHANGED <<[k \in Turns |-> changes[k].base], line, admitted>>
      BY <2>2, <3>3, <3>4, RowMovesStage
    <3>8. CASE d = "Approve" BY <3>6, <3>7, <3>8 DEF Promise!Next, Promise!Decide
    <3>9. CASE d # "Approve" BY <3>6, <3>7, <3>9 DEF Promise!Next, Promise!Decide
    <3> QED BY <3>8, <3>9
  <2> QED BY <2>3, <2>4
<1>2. CASE DecideConsumes(d) \/ DecideFails(d) \/ \E c \in Turns : DecideLoads(d, c)
  <2>1. UNCHANGED <<line, admitted, changes>> BY <1>2 DEF DecideConsumes, DecideFails, DecideLoads, rows
  <2> QED BY <2>1, AllKept
<1> QED BY <1>1, <1>2 DEF DecisionStep

LEMMA EffectStepRefines ==
  ASSUME Inductive, Inductive', NEW c \in Turns, EffectStep(c)
  PROVE  [Promise!Next]_(Promise!promise)
<1>1. CASE ApplyMutation(c)
  <2>1. UNCHANGED <<changes, admitted>> /\ step[c] = "apply" BY <1>1 DEF ApplyMutation
  <2>2. changes[c].state = "Applying" /\ RowOK(c) BY <2>1 DEF Inductive, StepOK
  <2>3. admitted[c] = 0 BY <2>2 DEF RowOK
  <2>4. CASE UNCHANGED line BY <2>1, <2>4, AllKept
  <2>5. CASE line' = Append(line, c) /\ Len(line) = changes[c].base /\ ~Applied(c)
    <3>1. Stage(c) = "approved" BY <2>2, <2>5, StageOfRow
    <3>2. line \in Seq(Turns \cup {User}) BY DEF Inductive, Types
    <3>3. Range(line') = Range(line) \cup {c} BY <2>5, <3>2, AppendProperties DEF Range
    <3>4. Applied(c)' /\ \A d \in Turns \ {c} : Applied(d)' <=> Applied(d) BY <3>3 DEF Applied
    <3>5. Stage(c)' = "applied" BY <2>1, <2>3, <3>4, StageOfRowNext
    <3>6. \A d \in Turns \ {c} : Stage(d)' = Stage(d) BY <2>1, <3>4, StageKept
    <3>7. Promise!Move(c, "approved", "applied") BY <3>1, <3>5, <3>6, StageMoves
    <3>8. Promise!Apply(c) BY <2>1, <2>5, <3>7 DEF Promise!Apply
    <3> QED BY <3>8 DEF Promise!Next
  <2> QED BY <1>1, <2>4, <2>5 DEF ApplyMutation
<1>2. CASE MarkApplied(c)
  <2>1. /\ step[c] = "mark" /\ UNCHANGED <<line, admitted>>
        /\ \E r : changes' = [changes EXCEPT ![c].state = "Applied", ![c].receipt = r]
    BY <1>2 DEF MarkApplied
  <2>2. changes[c].state = "Applying" /\ RowOK(c) /\ Applied(c) BY <2>1 DEF Inductive, StepOK
  <2>3. admitted[c] = 0 /\ admitted'[c] = 0 BY <2>1, <2>2 DEF RowOK
  <2>4. Stage(c) = "applied" BY <2>2, <2>3, StageOfRow
  <2>5. Applied(c)' BY <2>1, <2>2 DEF Applied
  <2>6. Stage(c)' = "applied" BY <2>3, <2>5, StageOfRowNext
  <2>7. changes \in [Turns -> Rows] BY DEF Inductive, Types
  <2>8. /\ changes'[c].base = changes[c].base
        /\ \A d \in Turns \ {c} : changes'[d] = changes[d]
    BY <2>1, <2>7 DEF Rows
  <2> QED BY <2>1, <2>4, <2>6, <2>8, NothingToSee
<1>3. CASE CommitOutcome(c) \/ LinkRun(c)
  <2>1. /\ UNCHANGED <<line, admitted>>
        /\ \E v : \/ changes' = [changes EXCEPT ![c].outcome = v]
                  \/ changes' = [changes EXCEPT ![c].run = v]
    BY <1>3 DEF CommitOutcome, LinkRun
  <2>2. changes \in [Turns -> Rows] BY DEF Inductive, Types
  <2>3. \A d \in Turns : changes'[d].state = changes[d].state /\ changes'[d].base = changes[d].base
    BY <2>1, <2>2 DEF Rows
  <2> QED BY <2>1, <2>3, NothingToSee
<1>4. CASE AdmitRun(c)
  <2>1. /\ step[c] = "admit" /\ admitted' = [admitted EXCEPT ![c] = changes[c].receipt]
        /\ UNCHANGED <<line, changes>>
    BY <1>4 DEF AdmitRun
  <2>2. changes[c].state = "Applied" /\ RowOK(c) /\ admitted[c] = 0 BY <2>1 DEF Inductive, StepOK
  <2>3. changes[c].receipt # 0 /\ changes[c].receipt \in DOMAIN line /\ line[changes[c].receipt] = c
    BY <2>2 DEF RowOK, Restores
  <2>4. changes[c].receipt = changes[c].base + 1 BY <2>3 DEF Inductive, LineOK
  <2>5. Stage(c) = "applied" BY <2>2, StageOfRow
  <2>6. /\ admitted'[c] = changes[c].base + 1 /\ admitted'[c] # 0
        /\ \A d \in Turns \ {c} : admitted'[d] = admitted[d]
    BY <2>1, <2>3, <2>4 DEF Inductive, Types
  <2>7. Stage(c)' = "running" BY <2>6, StageOfRowNext
  <2>8. \A d \in Turns : Applied(d)' <=> Applied(d) BY <2>1 DEF Applied
  <2>9. \A d \in Turns \ {c} : Stage(d)' = Stage(d) BY <2>1, <2>6, <2>8, StageKept
  <2>10. Promise!Move(c, "applied", "running") BY <2>5, <2>7, <2>9, StageMoves
  <2>11. Promise!Run(c)
    BY <2>1, <2>4, <2>10 DEF Promise!Run
  <2> QED BY <2>11 DEF Promise!Next
<1>5. CASE Claim(c) \/ ConsumeContinuation(c) \/ FreezePlan(c) \/ Finish(c)
  <2>1. UNCHANGED <<line, admitted, changes>>
    BY <1>5 DEF Claim, ConsumeContinuation, FreezePlan, Finish
  <2> QED BY <2>1, AllKept
<1> QED BY <1>1, <1>2, <1>3, <1>4, <1>5 DEF EffectStep

LEMMA UserEditRefines ==
  ASSUME Inductive, Inductive', UserEdit
  PROVE  [Promise!Next]_(Promise!promise)
<1>1. line' = Append(line, User) /\ UNCHANGED <<changes, admitted>> BY DEF UserEdit
<1>2. line \in Seq(Turns \cup {User}) /\ User \notin Turns BY ConstantFacts DEF Inductive, Types
<1>3. Range(line') = Range(line) \cup {User} BY <1>1, <1>2, AppendProperties DEF Range
<1>4. \A c \in Turns : Applied(c)' <=> Applied(c) BY <1>2, <1>3 DEF Applied
<1>5. \A c \in Turns : Stage(c)' = Stage(c) BY <1>1, <1>4, StageKept
<1>6. Promise!Edit BY <1>1, <1>5 DEF Promise!Edit
<1> QED BY <1>6 DEF Promise!Next

(***************************************************************************)
(* One proposal awaits the user at a time, a decision is taken once, and   *)
(* an approved change makes one revision of the Workflow, out of the one   *)
(* it was evaluated against, and starts one Run, of the revision it made.  *)
(***************************************************************************)
THEOREM ChangeRefinesPromise == Spec => ImplementsPromise
<1>1. Init => Promise!Init
  <2> SUFFICES ASSUME Init PROVE Promise!Init OBVIOUS
  <2>1. Inductive BY InitKeeps
  <2>2. \A c \in Turns : changes[c].state = "none" /\ changes[c].base = 0
    BY DEF Init, NoChange
  <2>3. \A c \in Turns : Stage(c) = "none" BY <2>1, <2>2, StageOfRow
  <2> QED BY <2>2, <2>3 DEF Init, Promise!Init
<1>2. ASSUME Inductive, [Next]_vars PROVE [Promise!Next]_(Promise!promise)
  <2>1. Inductive' BY <1>2, NextKeeps
  <2>2. ASSUME NEW x \in Exchanges, TurnStep(x) PROVE [Promise!Next]_(Promise!promise)
    BY <1>2, <2>1, <2>2, TurnStepRefines
  <2>3. ASSUME NEW d \in Decisions, DecisionStep(d) PROVE [Promise!Next]_(Promise!promise)
    BY <1>2, <2>1, <2>3, DecisionStepRefines
  <2>4. ASSUME NEW c \in Turns, EffectStep(c) PROVE [Promise!Next]_(Promise!promise)
    BY <1>2, <2>1, <2>4, EffectStepRefines
  <2>5. CASE UserEdit BY <1>2, <2>1, <2>5, UserEditRefines
  <2>6. CASE UNCHANGED <<line, admitted, changes>> BY <1>2, <2>1, <2>6, AllKept
  <2>7. CASE Next
    <3>1. \/ \E x \in Exchanges : TurnStep(x)
          \/ \E d \in Decisions : DecisionStep(d)
          \/ \E c \in Turns : EffectStep(c)
          \/ UserEdit
          \/ UNCHANGED <<line, admitted, changes>>
      BY <2>7 DEF Next, SendMessage, Completes, Fails, WorkerFails, WorkerDrops, Tick, Crash, rows
    <3> QED BY <2>2, <2>3, <2>4, <2>5, <2>6, <3>1
  <2> QED BY <1>2, <2>6, <2>7 DEF vars
<1> QED BY <1>1, <1>2, ChangeInvariant, PTL DEF Spec, ImplementsPromise, Promise!Spec

----------------------------------------------------------------------------
(***************************************************************************)
(* AssistantExchange: what the runner accepts was vouched for, and neither *)
(* side waits for ever.                                                    *)
(*                                                                         *)
(* The two properties rest on the shape of the conversation.  Tool calls   *)
(* are serial: at any time a call is a frame on its way to the runner, or  *)
(* in the runner's hands, or answered by a frame on its way back, and      *)
(* never two of these (Serial).  On that rests the history of the change:  *)
(* which reads may have been recorded for it, and what the verdict that is *)
(* on its way says (Reviewed).                                             *)
(***************************************************************************)

----------------------------------------------------------------------------
(* The inductive invariant.                                                *)

Subjects == {Nothing, Own, Other, "Pass", "Reject", "ContinuationIncompatible", "SdkFailure",
             "ProtocolViolation"}
PythonFrame ==
  {f \in [kind : PythonKinds, call : CallIds \cup {Nothing}, tool : CoauthorTools \cup {Nothing},
          of : Subjects, sound : BOOLEAN] :
     /\ f.kind = "ToolCall" =>
          f.call \in CallIds /\ f.tool \in CoauthorTools /\ f.of \in {Own, Other}
     /\ f.kind = "ReviewerVerdict" => f.of \in {"Pass", "Reject"}}
RustFrame ==
  [kind : RustKinds, call : CallIds \cup {Nothing}, tool : {Nothing}, of : Subjects, sound : BOOLEAN]

SidecarPc ==
  {"boot", "model", "waiting", "proposing", "review", "fetching", "interrupted", "paused",
   "closing", "done"}
RunnerPc == Waiting \cup {"launch", "abort", "completed", "failed"}
Errors ==
  {"ModelUnavailable", "ProtocolViolation", "BudgetExceeded", "ReviewEvidenceInvalid",
   "ContinuationIncompatible", "ExternalBoundaryFailed", "StorageFailed", "DeadlineExceeded"}
Handling == {"record", "execute"}
ExchangeTypes ==
  /\ turn \in {"start", "resume"}
  /\ runner \in [pc : RunnerPc, call : PythonFrame \cup {Frame("none")},
                 verdict : {Nothing, "Pass", "Reject"}, error : Errors \cup {Nothing}]
  /\ runner.pc \in Handling => runner.call.kind = "ToolCall"
  /\ protocol \in [state : {"Initial", "AwaitingAcceptance", "Active", "AwaitingToolResult",
                            "Terminal"},
                   events : 0..MaxEvents, calls : SUBSET CallIds]
  /\ IsFiniteSet(protocol.calls) /\ Cardinality(protocol.calls) <= MaxCalls
  /\ sidecar \in [pc : SidecarPc, deltas : Nat, reviewed : {Nothing, "Pass", "Reject"},
                  evidence : Seq(Subjects), mine : SUBSET CallIds]
  /\ child \in {"none", "alive", "exited", "broken", "killed"}
  /\ toPython \in Seq(RustFrame) /\ Len(toPython) <= 1
  /\ toRust \in Seq(PythonFrame)
  /\ change \in [state : {"none", "Proposed", "ReviewRejected", "AwaitingApproval", "Applied"},
                 receipt : CallIds \cup {Nothing}]
  /\ fact \in [call : CallIds \cup {Nothing}, of : {Own, Other, Nothing}]
  /\ stored \in BOOLEAN

\* Where the two sides are between exchanges, and before the first frame.
Between ==
  /\ runner.pc \in {"launch", "completed", "failed"} => ~Alive
  /\ runner.pc \in {"launch", "first"} =>
       toPython = <<>> /\ toRust = <<>> /\ runner.verdict = Nothing
  /\ runner.pc = "launch" /\ turn = "start" =>
       sidecar = FreshSidecar /\ change.state = "none" /\ fact = NoFact
  /\ runner.pc = "first" => sidecar.pc = "boot"
  /\ sidecar.pc = "boot" =>
       /\ toRust = <<>>
       /\ runner.pc \in {"launch", "first", "read", "abort", "completed", "failed"}
       /\ runner.pc = "read" => toPython # <<>>

Calling == {"waiting", "proposing", "fetching"}
\* The call f is the one that the sidecar waits for.
Awaited(f) ==
  /\ sidecar.pc = "waiting" => f.tool # "propose"
  /\ sidecar.pc = "proposing" => f.tool = "propose"
  /\ sidecar.pc = "fetching" => f.tool = "get"
Sent(i) == i \in DOMAIN toRust /\ toRust[i].kind = "ToolCall"
Serial ==
  /\ \A i \in DOMAIN toRust : Sent(i) =>
       /\ toPython = <<>> /\ runner.pc \notin Handling
       /\ sidecar.pc \in Calling \cup {"done"} /\ Awaited(toRust[i])
       /\ sidecar.pc \in Calling => i = Len(toRust)
       /\ \A j \in DOMAIN toRust : Sent(j) => i = j
  /\ runner.pc \in Handling =>
       toPython = <<>> /\ sidecar.pc \in Calling \cup {"done"} /\ Awaited(runner.call)
  /\ toPython # <<>> => sidecar.pc \in {"boot", "done"} \cup Calling
  /\ sidecar.pc \in Calling /\ runner.pc \in Waiting =>
       (\E i \in DOMAIN toRust : Sent(i)) \/ runner.pc \in Handling \/ toPython # <<>>

\* The Reviewer is at work, or its start is on its way.
Reviewing ==
  sidecar.pc \in {"review", "fetching"} \/ (sidecar.pc = "proposing" /\ toPython # <<>>)
\* Before the Reviewer's first fetch is recorded, only its calls are about.
Unread ==
  change.state = "Proposed" /\ fact = NoFact =>
    /\ sidecar.evidence = <<>> /\ sidecar.pc \in {"proposing", "review", "fetching", "done"}
    /\ sidecar.pc = "fetching" => toPython = <<>>
    /\ \A i \in DOMAIN toRust :
         Sent(i) /\ toRust[i].tool = "get" => toRust[i].call \in sidecar.mine
    /\ runner.pc = "record" => runner.call.call \in sidecar.mine
Verdicts ==
  /\ runner.verdict # Nothing => runner.verdict = sidecar.reviewed
  /\ \A i \in DOMAIN toRust :
       toRust[i].kind = "ReviewerVerdict" => toRust[i].of = sidecar.reviewed
  /\ runner.pc = "store" => runner.verdict = "Pass"
  /\ runner.pc = "accept" => runner.verdict # Nothing /\ (runner.verdict = "Pass" => stored)
Recorded == runner.pc = "execute" /\ runner.call.tool = "get" => fact # NoFact
Gets == runner.pc = "record" => runner.call.tool = "get"
Reviewed ==
  /\ change.state = "none" => sidecar.reviewed = Nothing /\ sidecar.evidence = <<>>
  /\ Reviewing => change.state = "Proposed" /\ sidecar.reviewed = Nothing
  /\ Unread /\ Verdicts
  /\ fact.of = Own => fact.call \in sidecar.mine

ExchangeInductive ==
  /\ ExchangeTypes /\ Between /\ Serial /\ Recorded /\ Gets
  /\ turn = "start" => Reviewed
  /\ ReviewerVouches

LEMMA ExchangeConstants ==
  /\ Own # Other /\ Nothing \notin {Own, Other, "Pass", "Reject"} /\ Nothing \notin CallIds
  /\ MaxCalls \in Nat /\ MaxEvents \in Nat /\ MaxDeltas \in Nat
BY ExchangeAssumption

----------------------------------------------------------------------------
(* The pipes.                                                              *)

(***************************************************************************)
(* What a pipe holds after the sidecar said f: what it held, and f last.   *)
(***************************************************************************)
LEMMA SayFacts ==
  ASSUME ExchangeTypes, NEW f \in PythonFrame, Say(f)
  PROVE  /\ toRust' \in Seq(PythonFrame) /\ toRust' # <<>>
         /\ Len(toRust') \in DOMAIN toRust' /\ toRust'[Len(toRust')] = f
         /\ \A i \in DOMAIN toRust :
              i # Len(toRust') /\ i \in DOMAIN toRust' /\ toRust'[i] = toRust[i]
         /\ \A i \in DOMAIN toRust' : i \in DOMAIN toRust \/ i = Len(toRust')
<1>1. toRust \in Seq(PythonFrame) BY DEF ExchangeTypes
<1>2. toRust' = Append(toRust, f) BY DEF Say
<1>3. /\ toRust' \in Seq(PythonFrame) /\ toRust' # <<>> /\ Len(toRust') = Len(toRust) + 1
      /\ \A i \in 1..Len(toRust) : toRust'[i] = toRust[i]
      /\ toRust'[Len(toRust) + 1] = f
  BY <1>1, <1>2, AppendProperties
<1>4. /\ Len(toRust) \in Nat /\ DOMAIN toRust = 1..Len(toRust)
      /\ DOMAIN toRust' = 1..Len(toRust')
  BY <1>1, <1>3, LenProperties
<1> QED BY <1>3, <1>4

(***************************************************************************)
(* What it holds after the runner read a frame: the rest, one place nearer.*)
(***************************************************************************)
LEMMA ReadFacts ==
  ASSUME ExchangeTypes, toRust # <<>>, toRust' = Tail(toRust)
  PROVE  /\ toRust' \in Seq(PythonFrame) /\ Head(toRust) \in PythonFrame
         /\ Head(toRust) = toRust[1] /\ 1 \in DOMAIN toRust
         /\ DOMAIN toRust' \subseteq Nat \ {0} /\ DOMAIN toRust \subseteq Nat
         /\ Len(toRust) = Len(toRust') + 1 /\ Len(toRust') \in Nat
         /\ \A i \in DOMAIN toRust' : i + 1 \in DOMAIN toRust /\ toRust'[i] = toRust[i + 1]
         /\ \A i \in DOMAIN toRust :
              i # 1 => i - 1 \in DOMAIN toRust' /\ toRust'[i - 1] = toRust[i]
<1>1. toRust \in Seq(PythonFrame) BY DEF ExchangeTypes
<1>2. /\ Head(toRust) \in PythonFrame /\ toRust' \in Seq(PythonFrame)
      /\ Len(toRust') = Len(toRust) - 1
      /\ \A i \in 1..Len(toRust') : toRust'[i] = toRust[i + 1]
  BY <1>1, HeadTailProperties
<1>3. /\ Len(toRust) \in Nat /\ DOMAIN toRust = 1..Len(toRust) /\ Len(toRust) # 0
      /\ DOMAIN toRust' = 1..Len(toRust') /\ Len(toRust') \in Nat
  BY <1>1, <1>2, LenProperties, EmptySeq
<1>4. Head(toRust) = toRust[1] BY <1>1, <1>3
<1> QED BY <1>2, <1>3, <1>4

(***************************************************************************)
(* The pipe to the sidecar holds one frame at most: it is empty again once *)
(* that one is taken.                                                      *)
(***************************************************************************)
LEMMA TakeFacts ==
  ASSUME ExchangeTypes, NEW kinds, Take(kinds)
  PROVE  toPython # <<>> /\ toPython' = <<>> /\ Head(toPython) \in RustFrame
<1>1. toPython \in Seq(RustFrame) /\ Len(toPython) <= 1 /\ toPython # <<>>
  BY DEF ExchangeTypes, Take
<1>e. Len(toPython) \in Nat \ {0}
  BY <1>1, EmptySeq
<1>2. Len(toPython) = 1
  <2> DEFINE n == Len(toPython)
  <2>1. n \in Nat /\ n # 0 /\ n <= 1 BY <1>1, <1>e
  <2> HIDE DEF n
  <2>2. n = 1 BY <2>1
  <2> QED BY <2>2 DEF n
<1>3. Head(toPython) \in RustFrame /\ toPython' \in Seq(RustFrame) /\ Len(toPython') = 0
  BY <1>1, <1>2, HeadTailProperties DEF Take
<1> QED BY <1>1, <1>3, EmptySeq

(***************************************************************************)
(* The frames the two sides make.                                          *)
(***************************************************************************)
LEMMA PlainFrames ==
  ASSUME NEW kind \in PythonKinds \ {"ToolCall", "ReviewerVerdict"}, NEW sound \in BOOLEAN
  PROVE  [Frame(kind) EXCEPT !.sound = sound] \in PythonFrame /\ Frame(kind) \in PythonFrame
BY ExchangeConstants DEF Frame, PythonFrame, PythonKinds, Subjects

LEMMA FailedFrames ==
  ASSUME NEW of \in {"ContinuationIncompatible", "SdkFailure", "ProtocolViolation"}
  PROVE  FailedFrame(of) \in PythonFrame /\ FailedFrame(of).kind = "InvocationFailed"
BY ExchangeConstants DEF Frame, PythonFrame, PythonKinds, Subjects, FailedFrame

LEMMA VerdictFrames ==
  ASSUME NEW v \in {"Pass", "Reject"}
  PROVE  [Frame("ReviewerVerdict") EXCEPT !.of = v] \in PythonFrame
BY ExchangeConstants DEF Frame, PythonFrame, PythonKinds, Subjects

LEMMA CallFrames ==
  ASSUME NEW call \in CallIds, NEW tool \in CoauthorTools, NEW of \in {Own, Other}
  PROVE  [Frame("ToolCall") EXCEPT !.call = call, !.tool = tool, !.of = of] \in PythonFrame
BY ExchangeConstants DEF Frame, PythonFrame, PythonKinds, Subjects

LEMMA FirstFrames ==
  ASSUME NEW kind \in RustKinds
  PROVE  Frame(kind) \in RustFrame
BY ExchangeConstants DEF Frame, RustFrame, RustKinds, Subjects

----------------------------------------------------------------------------
(* Steps in which the runner gives up, or comes to its end.                *)

Stops ==
  /\ UNCHANGED <<turn, protocol, change, fact, stored, sidecar, pipes>>
  /\ runner' \in [pc : {"abort", "completed", "failed"}, call : {runner.call},
                   verdict : {runner.verdict}, error : Errors \cup {Nothing}]
  /\ child' \in {child, "killed"}
  /\ runner'.pc \in {"completed", "failed"} => child' # "alive"

(***************************************************************************)
(* Nothing that the invariant speaks of is lost when the runner stops.     *)
(***************************************************************************)
LEMMA StopsKeep ==
  ASSUME ExchangeInductive, Stops
  PROVE  ExchangeInductive'
<1> USE DEF ExchangeInductive, Stops, pipes
<1>1. ExchangeTypes' BY DEF ExchangeTypes, RunnerPc, Handling
<1>2. Between' BY DEF Between, Alive
<1>3. Serial' BY DEF Serial, Sent, Awaited, Handling, Waiting
<1>4. Recorded' /\ Gets' BY DEF Recorded, Gets
<1>5. (turn = "start" => Reviewed)'
  BY DEF Reviewed, Reviewing, Unread, Verdicts, Sent
<1>6. ReviewerVouches' BY DEF ReviewerVouches
<1> QED BY <1>1, <1>2, <1>3, <1>4, <1>5, <1>6

LEMMA RaiseStops ==
  ASSUME ExchangeTypes, NEW error \in Errors, Raise(error),
         UNCHANGED <<turn, protocol, change, fact, stored, sidecar, child, pipes>>
  PROVE  Stops
BY DEF ExchangeTypes, Raise, Stops

----------------------------------------------------------------------------
(* The runner's other steps.                                               *)

LaunchOk ==
  /\ runner.pc = "launch" /\ Goto("first") /\ child' = "alive" /\ sidecar' = FreshSidecar
  /\ UNCHANGED <<turn, protocol, change, fact, stored, pipes>>
LEMMA LaunchKeeps ==
  ASSUME ExchangeInductive, LaunchOk
  PROVE  ExchangeInductive'
<1> USE DEF ExchangeInductive, LaunchOk, Goto, FreshSidecar, pipes
<1>1. ExchangeTypes' BY ExchangeConstants, EmptySeq, ZenonT(60) DEF ExchangeTypes, RunnerPc, Waiting, Handling, SidecarPc
<1>2. Between' BY <1>1 DEF ExchangeTypes, Between, Alive
<1>3. Serial' BY DEF ExchangeTypes, Between, Serial, Sent, Awaited, Handling, Waiting, Calling
<1>4. Recorded' /\ Gets' BY DEF ExchangeTypes, Recorded, Gets
<1>5. (turn = "start" => Reviewed)'
  BY DEF ExchangeTypes, Between, Reviewed, Reviewing, Unread, Verdicts, Sent
<1>6. ReviewerVouches' BY DEF ExchangeTypes, Between, ReviewerVouches
<1> QED BY <1>1, <1>2, <1>3, <1>4, <1>5, <1>6

WriteOk ==
  /\ runner.pc = "first" /\ Alive
  /\ toPython' = <<FirstFrame>>
  /\ protocol' = [protocol EXCEPT !.state = "AwaitingAcceptance"]
  /\ Goto("read")
  /\ UNCHANGED <<turn, change, fact, stored, python, toRust>>
LEMMA WriteKeeps ==
  ASSUME ExchangeInductive, WriteOk
  PROVE  ExchangeInductive'
<1> USE DEF ExchangeInductive, WriteOk, Goto, python
<1>1. toPython' \in Seq(RustFrame) /\ Len(toPython') = 1 /\ toPython' # <<>>
  <2>1. FirstFrame \in RustFrame BY FirstFrames DEF FirstFrame, RustKinds
  <2>2. toPython' = <<FirstFrame>> OBVIOUS
  <2> HIDE DEF WriteOk, ExchangeInductive
  <2> QED BY <2>1, <2>2
<1>2. ExchangeTypes'
  <2>1. protocol' \in [state : {"Initial", "AwaitingAcceptance", "Active", "AwaitingToolResult",
                               "Terminal"},
                      events : 0..MaxEvents, calls : SUBSET CallIds]
    BY DEF ExchangeTypes
  <2>2. runner' = [runner EXCEPT !.pc = "read"] /\ protocol'.calls = protocol.calls
    BY DEF ExchangeTypes
  <2>3. UNCHANGED <<turn, change, fact, stored, sidecar, child, toRust>>
    OBVIOUS
  <2>4. /\ runner' \in [pc : RunnerPc, call : PythonFrame \cup {Frame("none")},
                        verdict : {Nothing, "Pass", "Reject"}, error : Errors \cup {Nothing}]
        /\ runner'.pc \notin Handling
    BY <2>2 DEF ExchangeTypes, RunnerPc, Waiting, Handling
  <2> HIDE DEF WriteOk
  <2> QED BY <1>1, <2>1, <2>2, <2>3, <2>4 DEF ExchangeTypes
<1>3. Between' BY <1>1 DEF ExchangeTypes, Between, Alive
<1>4. Serial' BY <1>1 DEF ExchangeTypes, Between, Serial, Sent, Awaited, Handling, Waiting, Calling
<1>5. Recorded' /\ Gets' BY DEF ExchangeTypes, Recorded, Gets
<1>6. (turn = "start" => Reviewed)'
  BY DEF ExchangeTypes, Between, Reviewed, Reviewing, Unread, Verdicts, Sent
<1>7. ReviewerVouches' BY DEF ExchangeTypes, ReviewerVouches
<1> QED BY <1>2, <1>3, <1>4, <1>5, <1>6, <1>7

RecordOk ==
  /\ runner.pc = "record" /\ MayBeProposed(runner.call.of) /\ fact = NoFact
  /\ fact' = CalledFact /\ Goto("execute")
  /\ UNCHANGED <<turn, protocol, change, stored, python, pipes>>
LEMMA RecordKeeps ==
  ASSUME ExchangeInductive, RecordOk
  PROVE  ExchangeInductive'
<1> USE DEF ExchangeInductive, RecordOk, Goto, python, pipes
<1>1. runner.call \in PythonFrame /\ runner.call.kind = "ToolCall"
  BY DEF ExchangeTypes, Handling, Frame
<1>2. fact'.call = runner.call.call /\ fact'.of = runner.call.of /\ fact' # NoFact
  BY <1>1, ExchangeConstants DEF CalledFact, PythonFrame, NoFact
<1>3. fact' \in [call : CallIds \cup {Nothing}, of : {Own, Other, Nothing}]
  BY <1>1 DEF CalledFact, PythonFrame
<1>9. ExchangeTypes' BY <1>1, <1>3, SMTT(40) DEF ExchangeTypes, RunnerPc, Waiting, Handling
<1>4. Between' BY DEF ExchangeTypes, Between, Alive
<1>5. Serial' BY DEF ExchangeTypes, Serial, Sent, Awaited, Handling, Waiting, Calling
<1>6. Recorded' /\ Gets' BY <1>2 DEF ExchangeTypes, Recorded, Gets
<1>7. (turn = "start" => Reviewed)'
  BY <1>2 DEF ExchangeTypes, Reviewed, Reviewing, Unread, Verdicts, Sent, MayBeProposed
<1>8. ReviewerVouches' BY DEF ExchangeTypes, ReviewerVouches
<1> QED BY <1>4, <1>5, <1>6, <1>7, <1>8, <1>9

ExecuteOk ==
  /\ runner.pc = "execute" /\ Effect /\ Alive
  /\ toPython' = Append(toPython, Answer)
  /\ protocol' = [protocol EXCEPT !.state = "Active"]
  /\ Goto("read")
  /\ UNCHANGED <<turn, fact, stored, python, toRust>>
LEMMA ExecuteKeeps ==
  ASSUME ExchangeInductive, ExecuteOk
  PROVE  ExchangeInductive'
<1> USE DEF ExchangeInductive, ExecuteOk, Goto, python
<1>1. runner.call \in PythonFrame /\ runner.call.kind = "ToolCall"
  BY DEF ExchangeTypes, Handling, Frame
<1>2. Answer \in RustFrame
  <2>1. runner.call.call \in CallIds /\ runner.call.of \in {Own, Other}
    BY <1>1 DEF PythonFrame
  <2> HIDE DEF ExecuteOk, ExchangeInductive
  <2> QED BY <2>1, ExchangeConstants DEF Answer, Frame, RustFrame, RustKinds, Subjects
<1>3. toPython = <<>> BY DEF Serial, Handling
<1>4. toPython' \in Seq(RustFrame) /\ Len(toPython') = 1 /\ toPython' # <<>>
  BY <1>2, <1>3, EmptySeq, AppendProperties
<1>5. change' \in {change, [change EXCEPT !.state = "Proposed"]}
  BY DEF Effect
<1>6. ExchangeTypes' BY <1>4, <1>5 DEF ExchangeTypes, RunnerPc, Waiting, Handling
<1>7. Between' BY <1>4 DEF ExchangeTypes, Between, Alive
<1>8. Serial' BY <1>4 DEF ExchangeTypes, Serial, Sent, Awaited, Handling, Waiting, Calling
<1>9. Recorded' /\ Gets' BY DEF ExchangeTypes, Recorded, Gets
<1>10. (turn = "start" => Reviewed)'
  <2> SUFFICES ASSUME turn = "start" PROVE Reviewed'
    OBVIOUS
  <2>1. CASE runner.call.tool = "propose"
    BY <2>1, <1>4 DEF Effect, ExchangeTypes, Serial, Sent, Awaited, Handling, Calling, Reviewed,
       Reviewing, Unread, Verdicts
  <2>2. CASE runner.call.tool # "propose"
    BY <2>2, <1>1, <1>4 DEF Effect, ExchangeTypes, Serial, Sent, Awaited, Handling, Calling, Reviewed,
       Reviewing, Unread, Verdicts, Recorded
  <2> QED BY <2>1, <2>2
<1>11. ReviewerVouches' BY DEF ExchangeTypes, ReviewerVouches, Effect
<1> QED BY <1>6, <1>7, <1>8, <1>9, <1>10, <1>11

StoreOk ==
  /\ runner.pc = "store" /\ stored' = TRUE /\ Goto("accept")
  /\ UNCHANGED <<turn, protocol, change, fact, python, pipes>>
LEMMA StoreKeeps ==
  ASSUME ExchangeInductive, StoreOk
  PROVE  ExchangeInductive'
<1> USE DEF ExchangeInductive, StoreOk, Goto, python, pipes
<1>1. ExchangeTypes' BY DEF ExchangeTypes, RunnerPc, Waiting, Handling
<1>2. Between' BY DEF ExchangeTypes, Between, Alive
<1>3. Serial' BY DEF ExchangeTypes, Serial, Sent, Awaited, Handling, Waiting, Calling
<1>4. Recorded' /\ Gets' BY DEF ExchangeTypes, Recorded, Gets
<1>5. (turn = "start" => Reviewed)'
  BY ExchangeConstants DEF ExchangeTypes, Reviewed, Reviewing, Unread, Verdicts, Sent
<1>6. ReviewerVouches' BY DEF ExchangeTypes, ReviewerVouches
<1> QED BY <1>1, <1>2, <1>3, <1>4, <1>5, <1>6

AcceptOk ==
  /\ runner.pc = "accept" /\ fact.of = Own /\ change.state = "Proposed"
  /\ change' = [receipt |-> fact.call,
                state |-> IF runner.verdict = "Pass" THEN "AwaitingApproval"
                          ELSE "ReviewRejected"]
  /\ fact' = NoFact
  /\ runner' = [runner EXCEPT !.pc = "read", !.verdict = Nothing]
  /\ UNCHANGED <<turn, protocol, stored, python, pipes>>
LEMMA AcceptKeeps ==
  ASSUME ExchangeInductive, AcceptOk
  PROVE  ExchangeInductive'
<1> USE DEF ExchangeInductive, AcceptOk, python, pipes
<1>1. ExchangeTypes' BY ZenonT(60) DEF ExchangeTypes, RunnerPc, Waiting, Handling, NoFact
<1>2. Between' BY DEF ExchangeTypes, Between, Alive
<1>3. Serial' BY DEF ExchangeTypes, Serial, Sent, Awaited, Handling, Waiting, Calling
<1>4. Recorded' /\ Gets' BY DEF ExchangeTypes, Recorded, Gets
<1>5. (turn = "start" => Reviewed)'
  BY ExchangeConstants DEF ExchangeTypes, Reviewed, Reviewing, Unread, Verdicts, Sent, NoFact
<1>6. ReviewerVouches' BY DEF ExchangeTypes, ReviewerVouches, Reviewed, Verdicts
<1> QED BY <1>1, <1>2, <1>3, <1>4, <1>5, <1>6

----------------------------------------------------------------------------
(* Reading a frame.                                                        *)

(***************************************************************************)
(* The validator counts a frame within both budgets.                       *)
(***************************************************************************)
LEMMA RecordCounts ==
  ASSUME ExchangeInductive, NEW f \in PythonFrame, Admitted(f), Record(f)
  PROVE  /\ protocol' \in [state : {"Initial", "AwaitingAcceptance", "Active",
                                   "AwaitingToolResult", "Terminal"},
                          events : 0..MaxEvents, calls : SUBSET CallIds]
         /\ IsFiniteSet(protocol'.calls) /\ Cardinality(protocol'.calls) <= MaxCalls
<1> DEFINE new == IF f.kind = "ToolCall" THEN {f.call} ELSE {}
<1>1. /\ protocol.events \in 0..MaxEvents /\ protocol.calls \subseteq CallIds
      /\ IsFiniteSet(protocol.calls) /\ Cardinality(protocol.calls) <= MaxCalls
      /\ protocol.events # MaxEvents
      /\ f.kind = "ToolCall" =>
           f.call \in CallIds /\ f.call \notin protocol.calls
             /\ Cardinality(protocol.calls) # MaxCalls
  BY DEF ExchangeInductive, ExchangeTypes, Admitted, OverBudget, Repeated, PythonFrame
<1>2. protocol' = [state |-> Follows(f), events |-> protocol.events + 1,
                   calls |-> protocol.calls \cup new]
  BY DEF Record
<1>3. Follows(f) \in {"Active", "AwaitingToolResult", "Terminal"}
  BY DEF Follows
<1>4. protocol.events + 1 \in 0..MaxEvents
  BY <1>1, ExchangeConstants
<1>5. Cardinality(protocol.calls) \in Nat BY <1>1, FS_CardinalityType
<1>6. IsFiniteSet(protocol.calls \cup new) /\ Cardinality(protocol.calls \cup new) <= MaxCalls
  <2>1. CASE f.kind = "ToolCall"
    <3>1. /\ IsFiniteSet(protocol.calls \cup {f.call})
          /\ Cardinality(protocol.calls \cup {f.call}) = Cardinality(protocol.calls) + 1
      BY <1>1, <2>1, FS_AddElement
    <3> QED BY <1>1, <1>5, <2>1, <3>1, ExchangeConstants
  <2>2. CASE f.kind # "ToolCall"
    <3>1. protocol.calls \cup new = protocol.calls BY <2>2
    <3> QED BY <1>1, <3>1
  <2> QED BY <2>1, <2>2
<1>7. protocol.calls \cup new \subseteq CallIds BY <1>1
<1> HIDE DEF new
<1> QED BY <1>2, <1>3, <1>4, <1>6, <1>7

Refuses ==
  /\ runner.pc = "read" /\ toRust # <<>> /\ toRust' = Tail(toRust)
  /\ \E error \in Errors : Raise(error)
  /\ UNCHANGED <<turn, change, fact, stored, python, toPython>>
  /\ protocol' \in [state : {"Initial", "AwaitingAcceptance", "Active", "AwaitingToolResult",
                            "Terminal"},
                   events : 0..MaxEvents, calls : SUBSET CallIds]
  /\ IsFiniteSet(protocol'.calls) /\ Cardinality(protocol'.calls) <= MaxCalls
\* The frame is read and its handling begins.
ReadOk(f) ==
  /\ runner.pc = "read" /\ toRust # <<>> /\ toRust' = Tail(toRust) /\ f = Head(toRust)
  /\ runner' \in [pc : {"read", "record", "execute", "accept", "store", "shutdown"},
                   call : {runner.call, f}, verdict : {Nothing, "Pass", "Reject"},
                   error : {runner.error}]
  /\ f.kind = "ToolCall" =>
       /\ runner'.call = f /\ runner'.verdict = runner.verdict
       /\ runner'.pc = IF f.tool = "get" THEN "record" ELSE "execute"
  /\ f.kind = "ReviewerVerdict" =>
       runner'.verdict = f.of /\ runner'.pc = IF f.of = "Pass" THEN "read" ELSE "accept"
  /\ f.kind \notin {"ToolCall", "ReviewerVerdict"} =>
       /\ runner'.verdict = runner.verdict /\ runner'.pc \in {"read", "store", "shutdown"}
       /\ runner'.pc = "store" => runner.verdict = "Pass"
  /\ UNCHANGED <<turn, change, fact, stored, python, toPython>>
  /\ protocol' \in [state : {"Initial", "AwaitingAcceptance", "Active", "AwaitingToolResult",
                            "Terminal"},
                   events : 0..MaxEvents, calls : SUBSET CallIds]
  /\ IsFiniteSet(protocol'.calls) /\ Cardinality(protocol'.calls) <= MaxCalls

(***************************************************************************)
(* Read is one of the two.                                                 *)
(***************************************************************************)
LEMMA ReadCases ==
  ASSUME ExchangeInductive, Read
  PROVE  Refuses \/ ReadOk(Head(toRust))
<1> DEFINE f == Head(toRust)
<1>1. f \in PythonFrame
  BY ReadFacts DEF Read, ExchangeInductive
<1>2. CASE ~Admitted(f)
  <2>1. Raise(Refusal(f)) /\ Refusal(f) \in Errors /\ UNCHANGED protocol
    BY <1>2 DEF Read, Refusal, Errors
  <2> QED BY <2>1 DEF Read, Refuses, ExchangeInductive, ExchangeTypes
<1>3. CASE Admitted(f) /\ Record(f) /\ Handle(f)
  <2>1. /\ protocol' \in [state : {"Initial", "AwaitingAcceptance", "Active",
                                  "AwaitingToolResult", "Terminal"},
                         events : 0..MaxEvents, calls : SUBSET CallIds]
        /\ IsFiniteSet(protocol'.calls) /\ Cardinality(protocol'.calls) <= MaxCalls
    BY <1>1, <1>3, RecordCounts
  <2>2. /\ runner.pc = "read" /\ toRust # <<>> /\ toRust' = Tail(toRust)
        /\ UNCHANGED <<turn, change, fact, stored, python, toPython>>
    BY DEF Read
  <2>3. f.kind \in PythonKinds BY <1>1 DEF PythonFrame
  <2>4. runner \in [pc : RunnerPc, call : PythonFrame \cup {Frame("none")},
                   verdict : {Nothing, "Pass", "Reject"}, error : Errors \cup {Nothing}]
    BY DEF ExchangeInductive, ExchangeTypes
  <2> HIDE DEF f
  <2>5. CASE f.kind \in {"InvocationAccepted", "ModelOutputDelta"}
    BY <1>3, <2>1, <2>2, <2>4, <2>5 DEF Handle, Goto, ReadOk, f
  <2>6. CASE f.kind = "ToolCall"
    BY <1>3, <2>1, <2>2, <2>4, <2>6 DEF Handle, Goto, ReadOk, f
  <2>7. CASE f.kind = "ReviewerVerdict"
    <3>1. f.of \in {"Pass", "Reject"} BY <1>1, <2>7 DEF PythonFrame
    <3>2. CASE runner.verdict # Nothing
      BY <1>3, <2>1, <2>2, <2>7, <3>2 DEF Handle, Refuses, Errors
    <3>3. CASE runner.verdict = Nothing
      BY <1>3, <2>1, <2>2, <2>4, <2>7, <3>1, <3>3 DEF Handle, ReadOk, f
    <3> QED BY <3>2, <3>3
  <2>8. CASE f.kind = "ContinuationEnvelopeReady"
    <3>1. CASE runner.verdict = "Pass"
      BY <1>3, <2>1, <2>2, <2>4, <2>8, <3>1 DEF Handle, Goto, ReadOk, f
    <3>2. CASE runner.verdict # "Pass"
      BY <1>3, <2>1, <2>2, <2>8, <3>2 DEF Handle, Refuses, Errors
    <3> QED BY <3>1, <3>2
  <2>9. CASE f.kind = "InvocationCompleted"
    <3>1. CASE runner.verdict = Nothing
      BY <1>3, <2>1, <2>2, <2>4, <2>9, <3>1 DEF Handle, Goto, ReadOk, f
    <3>2. CASE runner.verdict # Nothing
      BY <1>3, <2>1, <2>2, <2>9, <3>2 DEF Handle, Refuses, Errors
    <3> QED BY <3>1, <3>2
  <2>10. CASE f.kind = "InvocationFailed"
    BY <1>3, <2>1, <2>2, <2>10 DEF Handle, Refuses, Errors
  <2> QED BY <2>3, <2>5, <2>6, <2>7, <2>8, <2>9, <2>10 DEF PythonKinds
<1> QED BY <1>2, <1>3 DEF Read

LEMMA RefusesKeep ==
  ASSUME ExchangeInductive, Refuses
  PROVE  ExchangeInductive'
<1> USE DEF ExchangeInductive, python
<1>1. /\ toRust' \in Seq(PythonFrame)
      /\ \A i \in DOMAIN toRust' : i + 1 \in DOMAIN toRust /\ toRust'[i] = toRust[i + 1]
      /\ DOMAIN toRust' \subseteq Nat \ {0} /\ Len(toRust) = Len(toRust') + 1
      /\ Len(toRust') \in Nat
  BY ReadFacts DEF Refuses
<1>2. PICK error \in Errors : Raise(error) BY DEF Refuses
<1>3. /\ runner' \in [pc : {"abort"}, call : {runner.call}, verdict : {runner.verdict},
                     error : Errors]
      /\ runner.pc = "read" /\ toRust # <<>>
      /\ UNCHANGED <<turn, change, fact, stored, sidecar, child, toPython>>
  BY <1>2 DEF Raise, Refuses, ExchangeTypes
<1>4. ExchangeTypes' BY <1>1, <1>3 DEF ExchangeTypes, RunnerPc, Handling, Refuses
<1>5. Between' BY <1>3 DEF Between, Alive
<1>6. Serial' BY <1>1, <1>3 DEF Serial, Sent, Awaited, Handling, Waiting, Calling
<1>7. Recorded' /\ Gets' BY <1>3 DEF Recorded, Gets
<1>8. (turn = "start" => Reviewed)'
  BY <1>1, <1>3 DEF Reviewed, Reviewing, Unread, Verdicts, Sent
<1>9. ReviewerVouches' BY <1>3 DEF ReviewerVouches
<1> QED BY <1>4, <1>5, <1>6, <1>7, <1>8, <1>9

LEMMA ReadKeeps ==
  ASSUME ExchangeInductive, NEW f \in PythonFrame, ReadOk(f)
  PROVE  ExchangeInductive'
<1> USE DEF ExchangeInductive, python
<1>1. /\ toRust' \in Seq(PythonFrame)
      /\ f = toRust[1] /\ 1 \in DOMAIN toRust
      /\ DOMAIN toRust' \subseteq Nat \ {0} /\ DOMAIN toRust \subseteq Nat
      /\ Len(toRust) = Len(toRust') + 1 /\ Len(toRust') \in Nat
      /\ \A i \in DOMAIN toRust' : i + 1 \in DOMAIN toRust /\ toRust'[i] = toRust[i + 1]
      /\ \A i \in DOMAIN toRust :
           i # 1 => i - 1 \in DOMAIN toRust' /\ toRust'[i - 1] = toRust[i]
  BY ReadFacts DEF ReadOk
<1>2. /\ runner.pc = "read" /\ toRust # <<>> /\ sidecar.pc # "boot"
      /\ runner'.pc \in {"read", "record", "execute", "accept", "store", "shutdown"}
      /\ UNCHANGED <<turn, change, fact, stored, sidecar, child, toPython>>
  BY DEF ReadOk, Between
<1>3. ExchangeTypes'
  <2>1. runner' \in [pc : RunnerPc, call : PythonFrame \cup {Frame("none")},
                    verdict : {Nothing, "Pass", "Reject"}, error : Errors \cup {Nothing}]
    BY DEF ReadOk, ExchangeTypes, RunnerPc, Waiting
  <2>2. runner'.pc \in Handling => runner'.call.kind = "ToolCall"
    BY DEF ReadOk, Handling
  <2> QED BY <1>1, <1>2, <2>1, <2>2 DEF ExchangeTypes, ReadOk
<1>4. Between' BY <1>2 DEF Between, Alive
<1>5. CASE f.kind = "ToolCall"
  <2>1. /\ runner'.call = f /\ runner'.verdict = runner.verdict
        /\ runner'.pc = IF f.tool = "get" THEN "record" ELSE "execute"
    BY <1>5 DEF ReadOk
  <2>2. /\ Sent(1) /\ toPython = <<>> /\ sidecar.pc \in Calling \cup {"done"} /\ Awaited(f)
        /\ \A j \in DOMAIN toRust : Sent(j) => j = 1
    BY <1>1, <1>5 DEF Serial, Sent
  <2>3. \A i \in DOMAIN toRust' : ~ Sent(i)'
    BY <1>1, <2>2 DEF Sent
  <2>4. Serial'
    BY <1>2, <2>1, <2>2, <2>3 DEF Serial, Awaited, Handling, Waiting, Calling
  <2>5. Recorded' /\ Gets' BY <2>1 DEF Recorded, Gets
  <2>6. (turn = "start" => Reviewed)'
    BY <1>1, <1>2, <2>1, <2>2, <2>3 DEF Reviewed, Reviewing, Unread, Verdicts
  <2>7. ReviewerVouches' BY <1>2 DEF ReviewerVouches
  <2> QED BY <1>3, <1>4, <2>4, <2>5, <2>6, <2>7
<1>6. CASE f.kind # "ToolCall"
  <2>1. runner'.pc \in {"read", "accept", "store", "shutdown"}
    BY <1>6 DEF ReadOk
  <2>2. \A i \in DOMAIN toRust : Sent(i) => i # 1
    BY <1>1, <1>6 DEF Sent
  <2>3. \A i \in DOMAIN toRust' : Sent(i)' => Sent(i + 1)
    BY <1>1 DEF Sent
  <2>4. \A i \in DOMAIN toRust : Sent(i) => i - 1 \in DOMAIN toRust' /\ Sent(i - 1)'
    BY <1>1, <2>2 DEF Sent
  <2>5. Serial'
    <3>1. \A i \in DOMAIN toRust' : Sent(i)' =>
            /\ toPython = <<>> /\ sidecar.pc \in Calling \cup {"done"} /\ Awaited(toRust'[i])
            /\ sidecar.pc \in Calling => i = Len(toRust')
            /\ \A j \in DOMAIN toRust' : Sent(j)' => i = j
      BY <1>1, <2>3 DEF Serial
    <3>2. \A i \in DOMAIN toRust' : Awaited(toRust'[i]) <=> Awaited(toRust[i])'
      BY <1>2 DEF Awaited
    <3> QED BY <1>2, <2>1, <2>4, <3>1, <3>2 DEF Serial, Handling, Waiting, Awaited
  <2>6. Recorded' /\ Gets' BY <2>1 DEF Recorded, Gets
  <2>7. (turn = "start" => Reviewed)'
    <3> SUFFICES ASSUME turn = "start" PROVE Reviewed'
      BY <1>2
    <3>1. Unread'
      BY <1>1, <1>2, <2>1 DEF Reviewed, Unread, Sent
    <3>2. Verdicts'
      <4>1. \A i \in DOMAIN toRust' :
              toRust'[i].kind = "ReviewerVerdict" => toRust'[i].of = sidecar'.reviewed
        BY <1>1, <1>2 DEF Reviewed, Verdicts
      <4>2. CASE f.kind = "ReviewerVerdict"
        <5>1. f.of = sidecar.reviewed /\ f.of \in {"Pass", "Reject"}
          BY <1>1, <4>2 DEF Reviewed, Verdicts, PythonFrame
        <5>2. runner'.verdict = f.of /\ runner'.pc = IF f.of = "Pass" THEN "read" ELSE "accept"
          BY <4>2 DEF ReadOk
        <5> QED BY <1>2, <4>1, <5>1, <5>2, ExchangeConstants DEF Verdicts
      <4>3. CASE f.kind # "ReviewerVerdict"
        BY <1>2, <1>6, <4>1, <4>3 DEF Verdicts, ReadOk, Reviewed
      <4> QED BY <4>2, <4>3
    <3> QED BY <1>2, <3>1, <3>2 DEF Reviewed, Reviewing
  <2>8. ReviewerVouches' BY <1>2 DEF ReviewerVouches
  <2> QED BY <1>3, <1>4, <2>5, <2>6, <2>7, <2>8
<1> QED BY <1>5, <1>6

----------------------------------------------------------------------------
(* The sidecar's steps.                                                    *)

Plain == {"InvocationAccepted", "ModelOutputDelta", "ContinuationEnvelopeReady",
          "InvocationCompleted", "InvocationFailed"}
SidecarTyped ==
  sidecar \in [pc : SidecarPc, deltas : Nat, reviewed : {Nothing, "Pass", "Reject"},
              evidence : Seq(Subjects), mine : SUBSET CallIds]
\* It says something that is no call and no verdict, and goes on from a place
\* where no call is open, or ends.
Talks(f) ==
  /\ Alive /\ Say(f) /\ f.kind \in Plain
  /\ UNCHANGED <<turn, rust, child>>
  /\ SidecarTyped' /\ UNCHANGED <<sidecar.reviewed, sidecar.evidence, sidecar.mine>>
  /\ sidecar'.pc \in {"model", "paused", "closing", "done"}
  /\ \/ sidecar.pc = "boot" /\ toPython # <<>> /\ toPython' = <<>>
     \/ sidecar.pc # "boot" /\ UNCHANGED toPython
  /\ sidecar'.pc # "done" => sidecar.pc \in {"boot", "model", "interrupted", "paused"}
LEMMA TalksKeep ==
  ASSUME ExchangeInductive, NEW f \in PythonFrame, Talks(f)
  PROVE  ExchangeInductive'
<1> USE DEF ExchangeInductive, rust
<1>1. /\ toRust' \in Seq(PythonFrame) /\ toRust' # <<>>
      /\ toRust'[Len(toRust')] = f
      /\ \A i \in DOMAIN toRust : i \in DOMAIN toRust' /\ toRust'[i] = toRust[i]
      /\ \A i \in DOMAIN toRust' : i \in DOMAIN toRust \/ i = Len(toRust')
  BY SayFacts DEF Talks
<1>2. \A i \in DOMAIN toRust' :
        toRust'[i].kind \in {"ToolCall", "ReviewerVerdict"} =>
          i \in DOMAIN toRust /\ toRust'[i] = toRust[i]
  BY <1>1 DEF Talks, Plain
<1>3. /\ UNCHANGED <<turn, runner, protocol, change, fact, stored, child>>
      /\ sidecar'.reviewed = sidecar.reviewed /\ sidecar'.evidence = sidecar.evidence
      /\ sidecar'.mine = sidecar.mine
      /\ sidecar'.pc \in {"model", "paused", "closing", "done"}
      /\ sidecar.pc = "boot" => toPython # <<>> /\ toPython' = <<>>
      /\ sidecar.pc # "boot" => toPython' = toPython
      /\ sidecar'.pc # "done" => sidecar.pc \in {"boot", "model", "interrupted", "paused"}
  BY DEF Talks
<1>4. ExchangeTypes'
  <2>1. toPython' \in Seq(RustFrame) /\ Len(toPython') <= 1
    <3>1. CASE sidecar.pc = "boot" BY <1>3, <3>1, EmptySeq
    <3>2. CASE sidecar.pc # "boot" BY <1>3, <3>2 DEF ExchangeTypes
    <3> QED BY <3>1, <3>2
  <2>2. SidecarTyped' BY DEF Talks
  <2> QED BY <1>1, <1>3, <2>1, <2>2 DEF ExchangeTypes, SidecarTyped
<1>5. runner.pc \notin {"launch", "first"}
  BY <1>3 DEF Between, Talks, Alive
<1>6. Between' BY <1>3, <1>5 DEF Between, Alive
<1>7. Serial'
  <2>1. CASE sidecar'.pc = "done"
    BY <1>2, <1>3, <2>1 DEF Serial, Sent, Awaited, Handling, Waiting, Calling, Between
  <2>2. CASE sidecar'.pc # "done"
    BY <1>2, <1>3, <2>2 DEF Serial, Sent, Awaited, Handling, Waiting, Calling, Between
  <2> QED BY <2>1, <2>2
<1>8. Recorded' /\ Gets' BY <1>3 DEF Recorded, Gets
<1>9. (turn = "start" => Reviewed)'
  BY <1>2, <1>3 DEF Reviewed, Reviewing, Unread, Verdicts, Sent
<1>10. ReviewerVouches' BY <1>3 DEF ReviewerVouches
<1> QED BY <1>4, <1>6, <1>7, <1>8, <1>9, <1>10

\* It asks for a tool.
Asks(f) ==
  /\ Alive /\ Say(f) /\ f.kind = "ToolCall"
  /\ UNCHANGED <<turn, rust, child, toPython>>
  /\ SidecarTyped' /\ UNCHANGED <<sidecar.reviewed, sidecar.evidence>>
  /\ \/ /\ sidecar.pc = "model" /\ sidecar'.mine = sidecar.mine
        /\ sidecar'.pc = IF f.tool = "propose" THEN "proposing" ELSE "waiting"
     \/ /\ sidecar.pc = "review" /\ sidecar'.pc = "fetching" /\ f.tool = "get"
        /\ sidecar'.mine = sidecar.mine \cup {f.call}
LEMMA AsksKeep ==
  ASSUME ExchangeInductive, NEW f \in PythonFrame, Asks(f)
  PROVE  ExchangeInductive'
<1> USE DEF ExchangeInductive, rust
<1>1. /\ toRust' \in Seq(PythonFrame) /\ toRust' # <<>>
      /\ Len(toRust') \in DOMAIN toRust' /\ toRust'[Len(toRust')] = f
      /\ \A i \in DOMAIN toRust :
           i # Len(toRust') /\ i \in DOMAIN toRust' /\ toRust'[i] = toRust[i]
      /\ \A i \in DOMAIN toRust' : i \in DOMAIN toRust \/ i = Len(toRust')
  BY SayFacts DEF Asks
<1>2. /\ UNCHANGED <<turn, runner, protocol, change, fact, stored, child, toPython>>
      /\ sidecar'.reviewed = sidecar.reviewed /\ sidecar'.evidence = sidecar.evidence
      /\ sidecar.mine \subseteq sidecar'.mine
      /\ f.kind = "ToolCall"
      /\ \/ /\ sidecar.pc = "model" /\ sidecar'.mine = sidecar.mine
            /\ sidecar'.pc = IF f.tool = "propose" THEN "proposing" ELSE "waiting"
         \/ /\ sidecar.pc = "review" /\ sidecar'.pc = "fetching" /\ f.tool = "get"
            /\ f.call \in sidecar'.mine
  BY DEF Asks
<1>3. /\ \A i \in DOMAIN toRust : ~ Sent(i)
      /\ toPython = <<>> /\ runner.pc \notin Handling
  BY <1>2 DEF Serial, Calling
<1> PICK last : last = Len(toRust') OBVIOUS
<1>4. /\ last \in DOMAIN toRust' /\ Sent(last)' /\ toRust'[last] = f /\ Awaited(f)'
      /\ \A i \in DOMAIN toRust' : Sent(i)' => i = last
  BY <1>1, <1>2, <1>3 DEF Sent, Awaited
<1>5. ExchangeTypes'
  <2>1. SidecarTyped' BY DEF Asks
  <2> QED BY <1>1, <1>2, <2>1 DEF ExchangeTypes, SidecarTyped
<1>6. Between' BY <1>2 DEF Between, Alive, Asks
<1>7. Serial'
  <2>1. sidecar'.pc \in Calling BY <1>2 DEF Calling
  <2>2. \A i \in DOMAIN toRust' : Sent(i)' => Awaited(toRust[i])' BY <1>4 DEF Awaited
  <2> QED BY <1>2, <1>3, <1>4, <2>1, <2>2 DEF Serial, Handling
<1>8. Recorded' /\ Gets' BY <1>2 DEF Recorded, Gets
<1>9. (turn = "start" => Reviewed)'
  <2> SUFFICES ASSUME turn = "start" PROVE Reviewed' BY <1>2
  <2>1. Unread' BY <1>1, <1>2, <1>3, <1>4 DEF Reviewed, Unread, Handling
  <2>2. Verdicts' BY <1>1, <1>2 DEF Reviewed, Verdicts
  <2> QED BY <1>2, <1>3, <2>1, <2>2 DEF Reviewed, Reviewing
<1>10. ReviewerVouches' BY <1>2 DEF ReviewerVouches
<1> QED BY <1>5, <1>6, <1>7, <1>8, <1>9, <1>10

LEMMA InterruptKeeps ==
  ASSUME ExchangeInductive, Alive, sidecar.pc = "model", Become("interrupted"),
         UNCHANGED <<turn, rust, child, pipes>>
  PROVE  ExchangeInductive'
<1> USE DEF ExchangeInductive, rust, pipes, Become
<1>1. ExchangeTypes'
  <2>1. SidecarTyped' BY DEF ExchangeTypes, SidecarTyped, SidecarPc
  <2> QED BY <2>1 DEF ExchangeTypes, SidecarTyped
<1>2. sidecar'.pc = "interrupted" /\ sidecar'.reviewed = sidecar.reviewed
      /\ sidecar'.evidence = sidecar.evidence /\ sidecar'.mine = sidecar.mine
  BY DEF ExchangeTypes
<1>3. Between'
  <2>1. runner.pc \notin {"launch", "first"} BY DEF Between
  <2> QED BY <1>2, <2>1 DEF Between, Alive
<1>4. Serial' BY <1>2 DEF Serial, Sent, Awaited, Calling
<1>5. Recorded' /\ Gets' BY DEF Recorded, Gets
<1>6. (turn = "start" => Reviewed)'
  BY <1>2 DEF Reviewed, Reviewing, Unread, Verdicts, Sent
<1>7. ReviewerVouches' BY <1>2 DEF ReviewerVouches
<1> QED BY <1>1, <1>3, <1>4, <1>5, <1>6, <1>7

(***************************************************************************)
(* A result is read: the call is over.  A change that was just proposed    *)
(* now has its Reviewer; a change that was fetched was recorded before.    *)
(***************************************************************************)
LEMMA ReadResultKeeps ==
  ASSUME ExchangeInductive, ReadResult
  PROVE  ExchangeInductive'
<1> USE DEF ExchangeInductive, rust
<1>1. /\ toPython # <<>> /\ toPython' = <<>> /\ Head(toPython) \in RustFrame
  BY TakeFacts DEF ReadResult
<1>2. /\ UNCHANGED <<turn, runner, protocol, change, fact, stored, child, toRust>>
      /\ sidecar.pc \in Calling
      /\ sidecar'.pc = IF sidecar.pc = "waiting" THEN "model" ELSE "review"
      /\ sidecar'.reviewed = sidecar.reviewed /\ sidecar'.mine = sidecar.mine
      /\ sidecar.pc = "proposing" => sidecar'.evidence = <<>>
      /\ sidecar.pc = "fetching" =>
           sidecar'.evidence = Append(sidecar.evidence, Head(toPython).of)
      /\ sidecar.pc = "waiting" => sidecar'.evidence = sidecar.evidence
  BY DEF ReadResult, SidecarOnly, ExchangeTypes, Calling
<1>3. sidecar'.evidence \in Seq(Subjects)
  <2>1. sidecar.evidence \in Seq(Subjects) /\ Head(toPython).of \in Subjects
    BY <1>1 DEF ExchangeTypes, RustFrame
  <2>2. Append(sidecar.evidence, Head(toPython).of) \in Seq(Subjects)
    BY <2>1, AppendProperties
  <2> QED BY <1>2, <2>1, <2>2, EmptySeq DEF Calling
<1>4. ExchangeTypes'
  <2>1. SidecarTyped'
    BY <1>2, <1>3 DEF SidecarTyped, ExchangeTypes, ReadResult, SidecarPc
  <2>2. toPython' \in Seq(RustFrame) /\ Len(toPython') <= 1
    BY <1>1, EmptySeq
  <2> QED BY <1>2, <2>1, <2>2 DEF ExchangeTypes, SidecarTyped
<1>5. runner.pc \notin {"launch", "first"} BY <1>1 DEF Between
<1>6. Between' BY <1>2, <1>5 DEF Between, Alive
<1>7. Serial' BY <1>1, <1>2 DEF Serial, Sent, Awaited, Calling
<1>8. Recorded' /\ Gets' BY <1>2 DEF Recorded, Gets
<1>9. (turn = "start" => Reviewed)'
  <2> SUFFICES ASSUME turn = "start" PROVE Reviewed' BY <1>2
  <2>1. \A i \in DOMAIN toRust : ~ Sent(i) BY <1>1 DEF Serial
  <2>2. Unread' BY <1>1, <1>2, <2>1 DEF Reviewed, Unread, Calling, Sent
  <2>3. Verdicts' BY <1>2 DEF Reviewed, Verdicts
  <2> QED BY <1>1, <1>2, <2>2, <2>3 DEF Reviewed, Reviewing, Calling
<1>10. ReviewerVouches' BY <1>2 DEF ReviewerVouches
<1> QED BY <1>4, <1>6, <1>7, <1>8, <1>9, <1>10

(***************************************************************************)
(* The Reviewer's verdict is the first of its turn, and rests on a fetch.  *)
(***************************************************************************)
LEMMA VerdictKeeps ==
  ASSUME ExchangeInductive, Verdict
  PROVE  ExchangeInductive'
<1> USE DEF ExchangeInductive, rust
<1>1. PICK v \in {"Pass", "Reject"} :
        /\ Say([Frame("ReviewerVerdict") EXCEPT !.of = v])
        /\ sidecar' = [sidecar EXCEPT !.pc = "model", !.reviewed = v]
  BY DEF Verdict
<1> DEFINE f == [Frame("ReviewerVerdict") EXCEPT !.of = v]
<1>2. f \in PythonFrame /\ f.kind = "ReviewerVerdict" /\ f.of = v
  BY VerdictFrames DEF Frame
<1> HIDE DEF f
<1>3. /\ toRust' \in Seq(PythonFrame) /\ toRust' # <<>>
      /\ Len(toRust') \in DOMAIN toRust' /\ toRust'[Len(toRust')] = f
      /\ \A i \in DOMAIN toRust :
           i # Len(toRust') /\ i \in DOMAIN toRust' /\ toRust'[i] = toRust[i]
      /\ \A i \in DOMAIN toRust' : i \in DOMAIN toRust \/ i = Len(toRust')
  BY <1>1, <1>2, SayFacts DEF f
<1>4. /\ UNCHANGED <<turn, runner, protocol, change, fact, stored, child, toPython>>
      /\ sidecar.pc = "review" /\ sidecar'.pc = "model" /\ sidecar.evidence # <<>>
      /\ sidecar'.reviewed = v
      /\ sidecar'.evidence = sidecar.evidence /\ sidecar'.mine = sidecar.mine
      /\ Alive
  <2>1. /\ UNCHANGED <<turn, runner, protocol, change, fact, stored, child, toPython>>
        /\ sidecar.pc = "review" /\ sidecar.evidence = <<Own>> /\ Alive
    BY DEF Verdict, SidecarOnly
  <2>2. <<Own>> # <<>> OBVIOUS
  <2>3. /\ sidecar'.pc = "model" /\ sidecar'.reviewed = v
        /\ sidecar'.evidence = sidecar.evidence /\ sidecar'.mine = sidecar.mine
    BY <1>1 DEF ExchangeTypes
  <2> QED BY <2>1, <2>2, <2>3
<1>5. /\ \A i \in DOMAIN toRust : ~ Sent(i)
      /\ toPython = <<>> /\ runner.pc \notin Handling
  BY <1>4 DEF Serial, Calling
<1>6. \A i \in DOMAIN toRust' : ~ Sent(i)'
  BY <1>2, <1>3, <1>5 DEF Sent
<1>7. ExchangeTypes'
  <2>1. SidecarTyped' BY <1>1 DEF SidecarTyped, ExchangeTypes, SidecarPc
  <2> QED BY <1>3, <1>4, <2>1 DEF ExchangeTypes, SidecarTyped
<1>8. Between' BY <1>4 DEF Between, Alive
<1>9. Serial' BY <1>4, <1>5, <1>6 DEF Serial, Calling
<1>10. Recorded' /\ Gets' BY <1>4 DEF Recorded, Gets
<1>11. (turn = "start" => Reviewed)'
  <2> SUFFICES ASSUME turn = "start" PROVE Reviewed' BY <1>4
  <2>1. change.state = "Proposed" /\ sidecar.reviewed = Nothing /\ fact # NoFact
    BY <1>4 DEF Reviewed, Reviewing, Unread
  <2>2. runner.verdict = Nothing /\ \A i \in DOMAIN toRust : toRust[i].kind # "ReviewerVerdict"
    <3>1. \A i \in DOMAIN toRust : toRust[i] \in PythonFrame
      BY ElementOfSeq, LenProperties DEF ExchangeTypes
    <3> QED BY <2>1, <3>1, ExchangeConstants DEF Reviewed, Verdicts, PythonFrame
  <2>3. Verdicts' BY <1>2, <1>3, <1>4, <2>2 DEF Verdicts, Reviewed
  <2>4. Unread' BY <1>4, <2>1 DEF Unread
  <2> QED BY <1>4, <2>1, <2>3, <2>4 DEF Reviewed, Reviewing
<1>12. ReviewerVouches'
  BY <1>4 DEF ReviewerVouches, Reviewed, Reviewing
<1> QED BY <1>7, <1>8, <1>9, <1>10, <1>11, <1>12

LEMMA LeaveKeeps ==
  ASSUME ExchangeInductive, Leave
  PROVE  ExchangeInductive'
<1> USE DEF ExchangeInductive, Leave, rust, pipes
<1>1. ExchangeTypes' BY DEF ExchangeTypes
<1>2. Between' BY DEF Between, Alive
<1>3. Serial' BY DEF Serial, Sent, Awaited
<1>4. Recorded' /\ Gets' BY DEF Recorded, Gets
<1>5. (turn = "start" => Reviewed)' BY DEF Reviewed, Reviewing, Unread, Verdicts, Sent
<1>6. ReviewerVouches' BY DEF ReviewerVouches
<1> QED BY <1>1, <1>2, <1>3, <1>4, <1>5, <1>6

(***************************************************************************)
(* A resumed turn starts with empty pipes, a new runner and no process.    *)
(***************************************************************************)
LEMMA ApproveKeeps ==
  ASSUME ExchangeInductive, Approve
  PROVE  ExchangeInductive'
<1> USE DEF ExchangeInductive, Approve, python
<1>1. ExchangeTypes'
  <2>1. /\ IsFiniteSet({}) /\ Cardinality({}) = 0 BY FS_EmptySet
  <2>2. protocol' \in [state : {"Initial", "AwaitingAcceptance", "Active",
                              "AwaitingToolResult", "Terminal"},
                     events : 0..MaxEvents, calls : SUBSET CallIds]
    BY ExchangeConstants DEF FreshProtocol
  <2>3. protocol'.calls = {} BY DEF FreshProtocol
  <2>4. /\ runner' \in [pc : RunnerPc, call : PythonFrame \cup {Frame("none")},
                      verdict : {Nothing, "Pass", "Reject"}, error : Errors \cup {Nothing}]
        /\ runner'.pc \notin Handling
    BY DEF FreshRunner, RunnerPc, Handling
  <2>5. /\ toPython' \in Seq(RustFrame) /\ Len(toPython') <= 1 /\ toRust' \in Seq(PythonFrame)
    BY EmptySeq
  <2>6. /\ change' \in [state : {"none", "Proposed", "ReviewRejected", "AwaitingApproval",
                                "Applied"}, receipt : CallIds \cup {Nothing}]
        /\ turn' \in {"start", "resume"} /\ stored' \in BOOLEAN
        /\ UNCHANGED <<fact, sidecar, child>>
    BY DEF ExchangeTypes
  <2>7. IsFiniteSet(protocol'.calls) /\ Cardinality(protocol'.calls) <= MaxCalls
    BY <2>1, <2>3, ExchangeConstants
  <2> HIDE DEF Approve
  <2> QED BY <2>2, <2>4, <2>5, <2>6, <2>7 DEF ExchangeTypes
<1>2. runner'.pc = "launch" /\ runner'.verdict = Nothing BY DEF FreshRunner
<1>3. Between' BY <1>2 DEF Between, Alive, Over
<1>4. Serial' BY <1>2 DEF Serial, Sent, Handling, Waiting
<1>5. Recorded' /\ Gets' BY <1>2 DEF Recorded, Gets
<1>6. turn' # "start" OBVIOUS
<1> QED BY <1>1, <1>3, <1>4, <1>5, <1>6 DEF ReviewerVouches

(***************************************************************************)
(* The change is stored although its answer finds no one.                  *)
(***************************************************************************)
LEMMA ProposedUnanswered ==
  ASSUME ExchangeInductive, runner.pc = "execute", change.state = "none",
         runner.call.tool = "propose", change' = [change EXCEPT !.state = "Proposed"],
         Raise("ModelUnavailable"), UNCHANGED <<turn, fact, stored, python, protocol, pipes>>
  PROVE  ExchangeInductive'
<1> USE DEF ExchangeInductive, Raise, python, pipes
<1>1. ExchangeTypes'
  <2>1. /\ runner' \in [pc : RunnerPc, call : PythonFrame \cup {Frame("none")},
                      verdict : {Nothing, "Pass", "Reject"}, error : Errors \cup {Nothing}]
        /\ runner'.pc \notin Handling
    BY DEF ExchangeTypes, RunnerPc, Handling, Errors
  <2>2. change' \in [state : {"none", "Proposed", "ReviewRejected", "AwaitingApproval",
                             "Applied"}, receipt : CallIds \cup {Nothing}]
    BY DEF ExchangeTypes
  <2> QED BY <2>1, <2>2 DEF ExchangeTypes
<1>2. Between' BY DEF ExchangeTypes, Between, Alive
<1>3. Serial' BY DEF ExchangeTypes, Serial, Sent, Awaited, Handling, Waiting
<1>4. Recorded' /\ Gets' BY DEF ExchangeTypes, Recorded, Gets
<1>5. (turn = "start" => Reviewed)'
  <2> SUFFICES ASSUME turn = "start" PROVE Reviewed' OBVIOUS
  <2>1. /\ toPython = <<>> /\ sidecar.pc \in {"proposing", "done"}
        /\ \A i \in DOMAIN toRust : ~ Sent(i)
    BY DEF Serial, Handling, Awaited, Reviewed, Reviewing, Calling
  <2> QED BY <2>1 DEF ExchangeTypes, Reviewed, Reviewing, Unread, Verdicts, Sent
<1>6. ReviewerVouches' BY DEF ExchangeTypes, ReviewerVouches
<1> QED BY <1>1, <1>2, <1>3, <1>4, <1>5, <1>6

----------------------------------------------------------------------------
(* Every step.                                                             *)

LEMMA RunnerKeeps ==
  ASSUME ExchangeInductive, RunnerStep \/ Deadline
  PROVE  ExchangeInductive'
<1>1. ExchangeTypes BY DEF ExchangeInductive
<1>2. CASE Launch
  <2>1. CASE LaunchOk BY <2>1, LaunchKeeps
  <2>2. CASE ~ LaunchOk
    <3>1. /\ runner' = [runner EXCEPT !.pc = "failed", !.error = "ModelUnavailable"]
          /\ runner.pc = "launch"
          /\ UNCHANGED <<turn, protocol, change, fact, stored, sidecar, child, pipes>>
      BY <1>2, <2>2 DEF Launch, LaunchOk, python
    <3>2. child' # "alive" BY <3>1 DEF ExchangeInductive, Between, Alive
    <3>3. Stops BY <1>1, <3>1, <3>2 DEF Stops, ExchangeTypes, Errors
    <3> QED BY <3>3, StopsKeep
  <2> QED BY <2>1, <2>2
<1>3. CASE WriteFirst
  <2>1. CASE Alive BY <1>3, <2>1, WriteKeeps DEF WriteFirst, WriteOk
  <2>2. CASE ~ Alive
    <3>1. Stops BY <1>1, <1>3, <2>2, RaiseStops DEF WriteFirst, Errors, python, pipes
    <3> QED BY <3>1, StopsKeep
  <2> QED BY <2>1, <2>2
<1>4. CASE Read
  <2>1. Head(toRust) \in PythonFrame BY <1>1, <1>4, ReadFacts DEF Read
  <2> QED BY <1>4, <2>1, ReadCases, RefusesKeep, ReadKeeps
<1>5. CASE ReadEof
  BY <1>1, <1>5, RaiseStops, StopsKeep DEF ReadEof, Errors, python
<1>6. CASE RecordFetch
  <2>1. CASE RecordOk BY <2>1, RecordKeeps
  <2>2. CASE ~ RecordOk
    <3>1. Raise("ReviewEvidenceInvalid") /\ UNCHANGED fact
      BY <1>6, <2>2 DEF RecordFetch, RecordOk
    <3>2. Stops BY <1>1, <1>6, <3>1, RaiseStops DEF RecordFetch, Errors, python
    <3> QED BY <3>2, StopsKeep
  <2> QED BY <2>1, <2>2
<1>7. CASE ToolSucceeds
  <2>1. CASE Alive BY <1>7, <2>1, ExecuteKeeps DEF ToolSucceeds, ExecuteOk
  <2>2. CASE ~ Alive /\ UNCHANGED change
    <3>1. Stops BY <1>1, <1>7, <2>2, RaiseStops DEF ToolSucceeds, Errors, python, pipes
    <3> QED BY <3>1, StopsKeep
  <2>3. CASE ~ Alive /\ ~ UNCHANGED change
    <3>1. /\ runner.pc = "execute" /\ change.state = "none" /\ runner.call.tool = "propose"
          /\ change' = [change EXCEPT !.state = "Proposed"]
      BY <1>7, <2>3 DEF ToolSucceeds, Effect
    <3>2. Raise("ModelUnavailable") /\ UNCHANGED <<turn, fact, stored, python, protocol, pipes>>
      BY <1>7, <2>3 DEF ToolSucceeds, pipes
    <3> QED BY <3>1, <3>2, ProposedUnanswered
  <2> QED BY <2>1, <2>2, <2>3
<1>8. CASE ToolFails
  BY <1>1, <1>8, RaiseStops, StopsKeep DEF ToolFails, Errors, python
<1>9. CASE StoreContinuation
  <2>1. CASE StoreOk BY <2>1, StoreKeeps
  <2>2. CASE ~ StoreOk
    <3>1. Stops
      BY <1>1, <1>9, <2>2, RaiseStops DEF StoreContinuation, StoreOk, Errors, python
    <3> QED BY <3>1, StopsKeep
  <2> QED BY <2>1, <2>2
<1>10. CASE AcceptReview
  <2>1. CASE AcceptOk BY <2>1, AcceptKeeps
  <2>2. CASE ~ AcceptOk
    <3>1. Stops
      BY <1>1, <1>10, <2>2, RaiseStops DEF AcceptReview, AcceptOk, Errors, python
    <3> QED BY <3>1, StopsKeep
  <2> QED BY <2>1, <2>2
<1>11. CASE Shutdown
  <2>1. CASE Goto("completed")
    <3>1. child' # "alive" /\ child' = child BY <1>11 DEF Shutdown, Alive, python
    <3>2. Stops BY <1>1, <1>11, <2>1, <3>1 DEF Shutdown, Goto, Stops, ExchangeTypes, python
    <3> QED BY <3>2, StopsKeep
  <2>2. CASE ~ Goto("completed")
    <3>1. Raise("ProtocolViolation") \/ Raise("ModelUnavailable")
      BY <1>11, <2>2 DEF Shutdown
    <3>2. Stops BY <1>1, <1>11, <3>1, RaiseStops DEF Shutdown, Errors, python
    <3> QED BY <3>2, StopsKeep
  <2> QED BY <2>1, <2>2
<1>12. CASE Abort
  <2>1. Stops BY <1>1, <1>12 DEF Abort, Goto, Stops, ExchangeTypes
  <2> QED BY <2>1, StopsKeep
<1>13. CASE Deadline
  BY <1>1, <1>13, RaiseStops, StopsKeep DEF Deadline, Errors, python
<1> QED BY <1>2, <1>3, <1>4, <1>5, <1>6, <1>7, <1>8, <1>9, <1>10, <1>11, <1>12, <1>13
     DEF RunnerStep

LEMMA SidecarKeeps ==
  ASSUME ExchangeInductive, SidecarStep
  PROVE  ExchangeInductive'
<1>1. ExchangeTypes BY DEF ExchangeInductive
<1>2. Frame("InvocationAccepted") \in PythonFrame /\ Envelope \in PythonFrame
  BY PlainFrames DEF PythonKinds, Envelope
<1>3. ASSUME NEW kinds, Alive, sidecar.pc = "boot", Take(kinds), NEW f \in PythonFrame,
             f.kind \in Plain, Say(f), SidecarOnly, NEW pc \in {"model", "done"}, Become(pc)
      PROVE  ExchangeInductive'
  <2>1. toPython # <<>> /\ toPython' = <<>> BY <1>1, <1>3, TakeFacts
  <2>2. SidecarTyped' /\ UNCHANGED <<sidecar.reviewed, sidecar.evidence, sidecar.mine>>
        /\ sidecar'.pc = pc
    BY <1>1, <1>3 DEF ExchangeTypes, SidecarTyped, SidecarPc, Become
  <2>3. Talks(f) BY <1>3, <2>1, <2>2 DEF Talks, SidecarOnly
  <2> QED BY <2>3, TalksKeep
<1>4. ASSUME Alive, NEW f \in PythonFrame, f.kind \in Plain, Say(f), SidecarOnly,
             UNCHANGED toPython, sidecar.pc # "boot",
             NEW pc \in {"model", "paused", "closing", "done"},
             pc # "done" => sidecar.pc \in {"model", "interrupted", "paused"},
             SidecarTyped', UNCHANGED <<sidecar.reviewed, sidecar.evidence, sidecar.mine>>,
             sidecar'.pc = pc
      PROVE  ExchangeInductive'
  <2>1. Talks(f) BY <1>4 DEF Talks, SidecarOnly
  <2> QED BY <2>1, TalksKeep
<1>5. ASSUME NEW pc \in SidecarPc, Become(pc)
      PROVE  /\ SidecarTyped' /\ UNCHANGED <<sidecar.reviewed, sidecar.evidence, sidecar.mine>>
             /\ sidecar'.pc = pc
  BY <1>1, <1>5 DEF Become, ExchangeTypes, SidecarTyped
<1>6. CASE AcceptStart
  BY <1>2, <1>3, <1>6 DEF AcceptStart, Frame, Plain
<1>7. CASE AcceptResume
  BY <1>2, <1>3, <1>7 DEF AcceptResume, Frame, Plain
<1>8. CASE RefuseResume
  <2>1. /\ FailedFrame("ContinuationIncompatible") \in PythonFrame
        /\ FailedFrame("ContinuationIncompatible").kind \in Plain
    BY FailedFrames DEF Plain
  <2> QED BY <1>3, <1>8, <2>1 DEF RefuseResume
<1>9. CASE Delta
  <2>1. PICK sound \in BOOLEAN : Say([Frame("ModelOutputDelta") EXCEPT !.sound = sound])
    BY <1>9 DEF Delta
  <2> DEFINE f == [Frame("ModelOutputDelta") EXCEPT !.sound = sound]
  <2>2. f \in PythonFrame /\ f.kind \in Plain
    BY PlainFrames DEF PythonKinds, Frame, Plain
  <2>3. /\ Alive /\ SidecarOnly /\ UNCHANGED toPython /\ sidecar.pc = "model"
        /\ sidecar' = [sidecar EXCEPT !.deltas = @ + 1]
    BY <1>9 DEF Delta
  <2>4. /\ SidecarTyped' /\ UNCHANGED <<sidecar.reviewed, sidecar.evidence, sidecar.mine>>
        /\ sidecar'.pc = "model"
    BY <1>1, <2>3 DEF ExchangeTypes, SidecarTyped
  <2> HIDE DEF f
  <2> QED BY <1>4, <2>1, <2>2, <2>3, <2>4 DEF f
<1>10. CASE CallTool
  <2>1. PICK call \in CallIds, tool \in CoauthorTools, of \in {Own, Other} :
          /\ Call(call, tool, of)
          /\ Become(IF tool = "propose" THEN "proposing" ELSE "waiting")
    BY <1>10 DEF CallTool
  <2> DEFINE f == [Frame("ToolCall") EXCEPT !.call = call, !.tool = tool, !.of = of]
  <2>2. f \in PythonFrame /\ f.kind = "ToolCall" /\ f.tool = tool
    BY CallFrames DEF Frame
  <2>3. /\ Alive /\ SidecarOnly /\ UNCHANGED toPython /\ sidecar.pc = "model"
    BY <1>10 DEF CallTool
  <2>4. /\ SidecarTyped' /\ UNCHANGED <<sidecar.reviewed, sidecar.evidence, sidecar.mine>>
        /\ sidecar'.pc = IF tool = "propose" THEN "proposing" ELSE "waiting"
    BY <1>1, <2>1 DEF ExchangeTypes, SidecarTyped, SidecarPc, Become
  <2>5. Say(f) BY <2>1 DEF Call
  <2> HIDE DEF f
  <2>6. Asks(f) BY <2>2, <2>3, <2>4, <2>5 DEF Asks, SidecarOnly
  <2> QED BY <2>2, <2>6, AsksKeep
<1>11. CASE RequestApply
  <2>1. CASE Become("interrupted") /\ UNCHANGED toRust
    BY <1>11, <2>1, InterruptKeeps DEF RequestApply, SidecarOnly, pipes
  <2>2. CASE ~ (Become("interrupted") /\ UNCHANGED toRust)
    <3>1. Become("done") /\ Say(FailedFrame("ProtocolViolation"))
      BY <1>11, <2>2 DEF RequestApply
    <3>2. /\ FailedFrame("ProtocolViolation") \in PythonFrame
          /\ FailedFrame("ProtocolViolation").kind \in Plain
      BY FailedFrames DEF Plain
    <3>3. Alive /\ SidecarOnly /\ UNCHANGED toPython /\ sidecar.pc = "model"
      BY <1>11 DEF RequestApply
    <3> QED BY <1>4, <1>5, <3>1, <3>2, <3>3 DEF SidecarPc
  <2> QED BY <2>1, <2>2
<1>12. CASE CallFetch
  <2>1. PICK call \in CallIds, of \in {Own, Other} :
          /\ Call(call, "get", of)
          /\ sidecar' = [sidecar EXCEPT !.pc = "fetching", !.mine = @ \cup {call}]
    BY <1>12, ZenonT(60) DEF CallFetch
  <2> DEFINE f == [Frame("ToolCall") EXCEPT !.call = call, !.tool = "get", !.of = of]
  <2>2. f \in PythonFrame /\ f.kind = "ToolCall" /\ f.tool = "get" /\ f.call = call
    BY CallFrames DEF Frame, CoauthorTools
  <2>3. /\ Alive /\ SidecarOnly /\ UNCHANGED toPython /\ sidecar.pc = "review"
    BY <1>12 DEF CallFetch
  <2>4. /\ SidecarTyped' /\ UNCHANGED <<sidecar.reviewed, sidecar.evidence>>
        /\ sidecar'.pc = "fetching" /\ sidecar'.mine = sidecar.mine \cup {call}
    BY <1>1, <2>1 DEF ExchangeTypes, SidecarTyped, SidecarPc
  <2>5. Say(f) BY <2>1 DEF Call
  <2> HIDE DEF f
  <2>6. Asks(f) BY <2>2, <2>3, <2>4, <2>5 DEF Asks, SidecarOnly
  <2> QED BY <2>2, <2>6, AsksKeep
<1>13. CASE ReadResult BY <1>13, ReadResultKeeps
<1>14. CASE Verdict BY <1>14, VerdictKeeps
<1>15. CASE Pause
  <2>1. Envelope.kind \in Plain BY DEF Envelope, Frame, Plain
  <2> QED BY <1>2, <1>4, <1>5, <1>15, <2>1 DEF Pause, SidecarPc
<1>16. CASE Complete
  <2>1. PICK sound \in BOOLEAN : Say([Frame("InvocationCompleted") EXCEPT !.sound = sound])
    BY <1>16 DEF Complete
  <2> DEFINE f == [Frame("InvocationCompleted") EXCEPT !.sound = sound]
  <2>2. f \in PythonFrame /\ f.kind \in Plain
    BY PlainFrames DEF PythonKinds, Frame, Plain
  <2>3. /\ Alive /\ SidecarOnly /\ UNCHANGED toPython /\ sidecar.pc \in {"paused", "model"}
        /\ Become("closing")
    BY <1>16 DEF Complete
  <2> HIDE DEF f
  <2> QED BY <1>4, <1>5, <2>1, <2>2, <2>3 DEF f, SidecarPc
<1>17. CASE Fail
  <2>1. /\ FailedFrame("SdkFailure") \in PythonFrame
        /\ FailedFrame("SdkFailure").kind \in Plain
    BY FailedFrames DEF Plain
  <2>2. /\ Alive /\ SidecarOnly /\ UNCHANGED toPython /\ sidecar.pc # "boot"
        /\ Become("done") /\ Say(FailedFrame("SdkFailure"))
    BY <1>17 DEF Fail
  <2> QED BY <1>4, <1>5, <2>1, <2>2 DEF SidecarPc
<1>18. CASE Leave BY <1>18, LeaveKeeps
<1> QED BY <1>6, <1>7, <1>8, <1>9, <1>10, <1>11, <1>12, <1>13, <1>14, <1>15, <1>16, <1>17, <1>18
     DEF SidecarStep

(***************************************************************************)
(* The invariant that the properties of the exchange follow from.          *)
(***************************************************************************)
THEOREM ExchangeInvariant == ExchangeSpec => []ExchangeInductive
<1>1. ExchangeInit => ExchangeInductive
  <2> SUFFICES ASSUME ExchangeInit PROVE ExchangeInductive OBVIOUS
  <2> USE DEF ExchangeInit
  <2>1. ExchangeTypes
    <3>1. IsFiniteSet({}) /\ Cardinality({}) = 0 BY FS_EmptySet
    <3>2. /\ protocol \in [state : {"Initial", "AwaitingAcceptance", "Active",
                                   "AwaitingToolResult", "Terminal"},
                          events : 0..MaxEvents, calls : SUBSET CallIds]
          /\ protocol.calls = {}
      BY ExchangeConstants DEF FreshProtocol
    <3>3. /\ runner \in [pc : RunnerPc, call : PythonFrame \cup {Frame("none")},
                        verdict : {Nothing, "Pass", "Reject"}, error : Errors \cup {Nothing}]
          /\ runner.pc \notin Handling
      BY DEF FreshRunner, RunnerPc, Handling
    <3>4. /\ toPython \in Seq(RustFrame) /\ Len(toPython) <= 1 /\ toRust \in Seq(PythonFrame)
      BY EmptySeq
    <3>5. SidecarTyped BY EmptySeq DEF SidecarTyped, FreshSidecar, SidecarPc
    <3>6. IsFiniteSet(protocol.calls) /\ Cardinality(protocol.calls) <= MaxCalls
      BY <3>1, <3>2, ExchangeConstants
    <3> QED BY <3>2, <3>3, <3>4, <3>5, <3>6 DEF ExchangeTypes, SidecarTyped, NoFact
  <2>2. runner.pc = "launch" /\ runner.verdict = Nothing BY DEF FreshRunner
  <2>3. /\ sidecar.pc = "boot" /\ sidecar.reviewed = Nothing /\ sidecar.evidence = <<>>
    BY DEF FreshSidecar
  <2>4. Between BY <2>2, <2>3 DEF Between, Alive
  <2>5. Serial BY <2>2, <2>3 DEF Serial, Sent, Handling, Calling
  <2>6. Recorded /\ Gets BY <2>2 DEF Recorded, Gets
  <2>7. Reviewed
    BY <2>2, <2>3, ExchangeConstants DEF Reviewed, Reviewing, Unread, Verdicts, NoFact
  <2>8. ReviewerVouches BY DEF ReviewerVouches
  <2> QED BY <2>1, <2>4, <2>5, <2>6, <2>7, <2>8 DEF ExchangeInductive
<1>2. ExchangeInductive /\ [ExchangeNext]_exchangeVars => ExchangeInductive'
  <2> SUFFICES ASSUME ExchangeInductive, [ExchangeNext]_exchangeVars PROVE ExchangeInductive' OBVIOUS
  <2>1. CASE RunnerStep \/ Deadline BY <2>1, RunnerKeeps
  <2>2. CASE SidecarStep BY <2>2, SidecarKeeps
  <2>3. CASE Approve BY <2>3, ApproveKeeps
  <2>4. CASE UNCHANGED exchangeVars
    BY <2>4 DEF exchangeVars, rust, python, pipes, ExchangeInductive, ExchangeTypes, Between, Alive, Serial, Sent, Awaited,
       Recorded, Gets, Reviewed, Reviewing, Unread, Verdicts, ReviewerVouches
  <2> QED BY <2>1, <2>2, <2>3, <2>4 DEF ExchangeNext
<1> QED BY <1>1, <1>2, PTL DEF ExchangeSpec

----------------------------------------------------------------------------

(***************************************************************************)
(* The exchange keeps its types: no more calls and events are counted than *)
(* the budgets allow, one frame at most waits for the sidecar, and each    *)
(* pipe carries the frames of its own direction.                           *)
(***************************************************************************)
THEOREM ExchangeTypeCorrect == ExchangeSpec => []ExchangeTypeOK
<1>1. ExchangeInductive => ExchangeTypeOK
  <2> SUFFICES ASSUME ExchangeTypes PROVE ExchangeTypeOK BY DEF ExchangeInductive
  <2>1. /\ runner.pc \in Waiting \cup {"launch", "abort", "completed", "failed"}
        /\ runner.verdict \in {Nothing, "Pass", "Reject"}
        /\ protocol.calls \subseteq CallIds /\ Cardinality(protocol.calls) <= MaxCalls
        /\ protocol.events \in 0..MaxEvents
        /\ change.state \in {"none", "Proposed", "ReviewRejected", "AwaitingApproval", "Applied"}
        /\ fact.of \in {Own, Other, Nothing}
    BY DEF ExchangeTypes, RunnerPc
  <2>2. \A i \in DOMAIN toPython : toPython[i] \in RustFrame
    BY ElementOfSeq, LenProperties DEF ExchangeTypes
  <2>3. \A i \in DOMAIN toRust : toRust[i] \in PythonFrame
    BY ElementOfSeq, LenProperties DEF ExchangeTypes
  <2>4. /\ \A i \in DOMAIN toPython : toPython[i].kind \in RustKinds
        /\ \A i \in DOMAIN toRust : toRust[i].kind \in PythonKinds
    BY <2>2, <2>3 DEF RustFrame, PythonFrame
  <2> QED BY <2>1, <2>4 DEF ExchangeTypeOK, ExchangeTypes
<1> QED BY <1>1, ExchangeInvariant, PTL

(***************************************************************************)
(* A verdict is accepted only on the Reviewer's own fetch of the change it *)
(* is about, and as the Reviewer gave it; what awaits approval has its     *)
(* continuation stored.                                                    *)
(***************************************************************************)
THEOREM VerdictsAreVouchedFor == ExchangeSpec => []ReviewerVouches
<1>1. ExchangeInductive => ReviewerVouches BY DEF ExchangeInductive
<1> QED BY <1>1, ExchangeInvariant, PTL

(***************************************************************************)
(* When the sidecar waits for the runner, and the runner reads, a frame is *)
(* under way.                                                              *)
(***************************************************************************)
THEOREM NeverBothWait == ExchangeSpec => []NoMutualWait
<1>1. ExchangeInductive => NoMutualWait
  <2> SUFFICES ASSUME ExchangeInductive, runner.pc = "read", toRust = <<>>, toPython = <<>>,
                      sidecar.pc \in {"boot"} \cup Calling
               PROVE  FALSE
    BY DEF NoMutualWait, Calling
  <2>1. sidecar.pc # "boot" BY DEF ExchangeInductive, Between
  <2>2. PICK i \in DOMAIN toRust : Sent(i)
    BY <2>1 DEF ExchangeInductive, Serial, Waiting, Handling
  <2>3. DOMAIN toRust = 1..Len(toRust) /\ Len(toRust) = 0
    BY EmptySeq, LenProperties DEF ExchangeInductive, ExchangeTypes
  <2> QED BY <2>2, <2>3
<1> QED BY <1>1, ExchangeInvariant, PTL
=============================================================================
