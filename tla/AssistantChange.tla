-------------------------- MODULE AssistantChange ---------------------------
(***************************************************************************)
(* The Assistant of one Project: model turns that propose, review and plan *)
(* through the tool dispatcher, the user's decision over a proposal, and   *)
(* the post-commit effect that applies an approved change, resumes the     *)
(* turn that reviewed it and starts the Run.  A change's identity is       *)
(* derived from the invocation it was proposed in, so one set names both.  *)
(* The content of proposals, frames, envelopes and snapshots is left out;  *)
(* the Workflow is the line of its revisions, its storage transactions     *)
(* those of WorkflowEditing.                                               *)
(***************************************************************************)
EXTENDS ProductionPlan, FiniteSets, SequencesExt

CONSTANTS
  Turns,        \* AssistantModelInvocationId, and AssistantWorkflowChangeId
  Scenarios,    \* [tools, edits, ticks]: what the models, the user and the clock may do
  Lifetime,     \* approval_expiry_ms
  MaxPlan,      \* bound on the plan's revisions
  None, User

ASSUME AssistantAssumption ==
  /\ {None, User} \cap Turns = {} /\ None # User
  /\ Scenarios \subseteq [tools : [Turns -> SUBSET {"change", "plan"}], edits : Nat, ticks : Nat]
  /\ Lifetime \in Nat \ {0} /\ MaxPlan \in Nat

Starts == {<<"start", t>> : t \in Turns}
Resumes == {<<"resume", c>> : c \in Turns}
Exchanges == Starts \cup Resumes

VARIABLES
  scene,     \* the scenario: bounds on what may happen
  changes,   \* rows of assistant_workflow_changes
  files,     \* continuation files: <<reviewing invocation, change>>
  plan,      \* row of assistant_production_plans
  line,      \* who made each revision of the Workflow; a change's entry is its receipt
  admitted,  \* Run request receipt of a change: the revision its Run was frozen from
  effect,    \* outbox row of a change
  exchange,  \* model exchange in progress, a start or a resume
  active,    \* AssistantActiveInvocationRegistry holds the session
  facts,     \* AssistantReviewEvidenceRegistry: invocation -> change it fetched
  decision,  \* commands in progress, one of each choice
  step,      \* what the worker is doing for a change's effect
  now,
  resumes    \* how often the turn that reviewed a change was resumed

vars == <<scene, changes, files, plan, line, admitted, effect, exchange, active, facts,
          decision, step, now, resumes>>
rows == <<changes, files, plan, line, admitted, effect>>

NoChange == [state |-> "none", base |-> 0, expires |-> 0, verdict |-> "none", cont |-> None,
             receipt |-> 0, run |-> 0, outcome |-> "Pending"]
NoDraft == [revision |-> 0, items |-> <<>>]
\* pending: the change a Pass verdict waits for its envelope; draft: a loaded plan, edited.
Closed(state) == [state |-> state, expires |-> 0, pending |-> None, draft |-> NoDraft]
NoDecision == [pc |-> "idle", change |-> None]
Decisions == {"Approve", "Reject"}

Init ==
  /\ scene \in Scenarios
  /\ changes = [c \in Turns |-> NoChange]
  /\ files = {} /\ plan = NoPlan /\ line = <<User>>
  /\ admitted = [c \in Turns |-> 0]
  /\ effect = [c \in Turns |-> "none"]
  /\ exchange = [x \in Exchanges |-> Closed("new")]
  /\ active = FALSE
  /\ facts = [t \in Turns |-> None]
  /\ decision = [d \in Decisions |-> NoDecision]
  /\ step = [c \in Turns |-> "idle"]
  /\ now = 0
  /\ resumes = [c \in Turns |-> 0]

----------------------------------------------------------------------------
(* A model exchange: the sidecar's frames, one at a time.                  *)

\* A resumed turn runs under the invocation that stored the continuation.
Invocation(x) == IF x \in Starts THEN x[2] ELSE changes[x[2]].cont
Opened == [Closed("open") EXCEPT !.expires = now + Lifetime]

\* Between two frames of x, whose model uses the tool.
Turn(x, tool) ==
  /\ exchange[x].state = "open" /\ exchange[x].draft = NoDraft
  /\ tool \in scene.tools[Invocation(x)]
\* A started turn's result goes to the user; a resumed one's to its effect.
Ends(x, state) ==
  /\ exchange' = [exchange EXCEPT ![x] = Closed(IF x \in Starts THEN "over" ELSE state)]
  /\ active' = (active /\ x \notin Starts)

\* AssistantSendMessageUseCase claims the session and starts the exchange.
SendMessage(t) ==
  LET x == <<"start", t>>
  IN /\ exchange[x].state = "new" /\ ~active
     /\ exchange' = [exchange EXCEPT ![x] = Opened]
     /\ active' = TRUE
     /\ UNCHANGED <<scene, rows, facts, decision, step, now, resumes>>

\* complete_invocation.
Completes(x) ==
  /\ exchange[x].state = "open" /\ exchange[x].draft = NoDraft
  /\ Ends(x, "completed")
  /\ UNCHANGED <<scene, rows, facts, decision, step, now, resumes>>
\* The model, the process, a refused tool call, a violated protocol or the deadline.
Fails(x) ==
  /\ exchange[x].state \in {"open", "storing"}
  /\ Ends(x, "failed")
  /\ UNCHANGED <<scene, rows, facts, decision, step, now, resumes>>

\* assistant.workflow.propose_change@1; a second one of the invocation is refused.
Propose(x) ==
  LET c == Invocation(x)
  IN /\ Turn(x, "change")
     /\ changes[c].state = "none"
     /\ changes' = [changes EXCEPT ![c] = [NoChange EXCEPT !.state = "Proposed",
                      !.base = Len(line), !.expires = exchange[x].expires]]
     /\ UNCHANGED <<scene, files, plan, line, admitted, effect, exchange, active, facts,
                    decision, step, now, resumes>>

\* assistant.workflow.get_change@1: the runner takes any call for a reviewer's fetch.
Fetch(x, c) ==
  LET v == Invocation(x)
  IN /\ Turn(x, "change")
     /\ changes[c].state = "Proposed" /\ facts[v] = None
     /\ facts' = [facts EXCEPT ![v] = c]
     /\ UNCHANGED <<scene, rows, exchange, active, decision, step, now, resumes>>

\* matching_fact and validate_review.
Reviewable(x, c) ==
  /\ facts[Invocation(x)] = c
  /\ changes[c].state = "Proposed" /\ now < changes[c].expires
RejectVerdict(x, c) ==
  /\ Turn(x, "change")
  /\ Reviewable(x, c)
  /\ changes' = [changes EXCEPT ![c].state = "ReviewRejected", ![c].verdict = "Reject"]
  /\ facts' = [facts EXCEPT ![Invocation(x)] = None]
  /\ UNCHANGED <<scene, files, plan, line, admitted, effect, exchange, active, decision,
                 step, now, resumes>>
\* A Pass is held until the continuation envelope follows, and the envelope's
\* file is written before the verdict is accepted.  It is named by its content:
\* when the change has been reviewed already, by a name that no row will hold,
\* and such files are left out.  A Pass without its fetch would be refused when
\* it is accepted, one without its envelope when the turn completes: Fails.
StoreEnvelope(x, c) ==
  /\ Turn(x, "change")
  /\ facts[Invocation(x)] = c
  /\ files' = IF changes[c].state = "Proposed" THEN files \cup {<<Invocation(x), c>>} ELSE files
  /\ exchange' = [exchange EXCEPT ![x].state = "storing", ![x].pending = c]
  /\ UNCHANGED <<scene, changes, plan, line, admitted, effect, active, facts, decision, step,
                 now, resumes>>
\* The index assistant_one_pending_approval.
NoneAwaits(c) == \A d \in Turns \ {c} : changes[d].state # "AwaitingApproval"
Accepted(x, c) ==
  /\ Reviewable(x, c)
  /\ changes' = [changes EXCEPT ![c].state = "AwaitingApproval", ![c].verdict = "Pass",
                                ![c].cont = Invocation(x)]
  /\ facts' = [facts EXCEPT ![Invocation(x)] = None]
  /\ exchange' = [exchange EXCEPT ![x].state = "open", ![x].pending = None]
  /\ UNCHANGED <<scene, files, plan, line, admitted, effect, active, decision, step, now,
                 resumes>>
\* Mutant: no index.
AcceptUnindexed(x) == exchange[x].state = "storing" /\ Accepted(x, exchange[x].pending)
AcceptVerdict(x) ==
  /\ exchange[x].state = "storing"
  /\ NoneAwaits(exchange[x].pending)
  /\ Accepted(x, exchange[x].pending)

----------------------------------------------------------------------------
(* The plan tools: a load, then a compare-and-swap on the revision.        *)

LoadPlan(x) ==
  /\ Turn(x, "plan")
  /\ plan.revision < MaxPlan
  /\ \E draft \in IF plan = NoPlan THEN {NewPlan(items) : items \in ItemLists}
                  ELSE Moved(plan) \cup {Replaced(plan, items) : items \in ItemLists} :
       /\ ValidItems(draft.items)
       /\ exchange' = [exchange EXCEPT ![x].draft = draft]
  /\ UNCHANGED <<scene, rows, active, facts, decision, step, now, resumes>>

\* Mutant: the row is written whatever its revision has become.
SaveBlindly(x) ==
  /\ exchange[x].draft # NoDraft
  /\ plan' = exchange[x].draft
  /\ exchange' = [exchange EXCEPT ![x].draft = NoDraft]
  /\ UNCHANGED <<scene, changes, files, line, admitted, effect, active, facts, decision,
                 step, now, resumes>>
SavePlan(x) ==
  /\ exchange[x].draft # NoDraft
  /\ IF plan.revision + 1 = exchange[x].draft.revision
     THEN /\ plan' = exchange[x].draft
          /\ exchange' = [exchange EXCEPT ![x].draft = NoDraft]
          /\ UNCHANGED active
     ELSE Ends(x, "failed") /\ UNCHANGED plan
  /\ UNCHANGED <<scene, changes, files, line, admitted, effect, facts, decision, step, now,
                 resumes>>

----------------------------------------------------------------------------
(* AssistantDecideWorkflowChangeUseCase, for a change the user was shown.  *)

Decide(d, pc) == decision' = [decision EXCEPT ![d].pc = pc]
DecisionDone(d) == decision' = [decision EXCEPT ![d] = NoDecision]

\* An expired change is neither approved nor rejected; a repeated rejection
\* goes on to the file, a repeated approval has nothing left to do.
DecideLoads(d, c) ==
  /\ decision[d].pc = "idle"
  /\ \E pc \in {"commit", "consume"} :
       /\ IF pc = "commit"
          THEN changes[c].state = "AwaitingApproval" /\ now < changes[c].expires
          ELSE d = "Reject" /\ changes[c].state = "Rejected"
       /\ decision' = [decision EXCEPT ![d] = [pc |-> pc, change |-> c]]
  /\ UNCHANGED <<scene, rows, exchange, active, facts, step, now, resumes>>

\* Mutant: the row's state is not asked for again.
DecideOver(d) ==
  LET c == decision[d].change
  IN /\ decision[d].pc = "commit"
     /\ IF d = "Approve"
        THEN /\ changes' = [changes EXCEPT ![c].state = "Applying"]
             /\ effect' = [effect EXCEPT ![c] = "ready"]
             /\ DecisionDone(d)
        ELSE /\ changes' = [changes EXCEPT ![c].state = "Rejected"]
             /\ Decide(d, "consume")
             /\ UNCHANGED effect
     /\ UNCHANGED <<scene, files, plan, line, admitted, exchange, active, facts, step, now,
                    resumes>>
\* Applying and its effect in one transaction, or Rejected.
DecideCommits(d) ==
  LET c == decision[d].change
  IN /\ decision[d].pc = "commit"
     /\ IF changes[c].state # "AwaitingApproval"
        THEN DecisionDone(d) /\ UNCHANGED <<changes, effect>>
        ELSE IF d = "Approve"
        THEN /\ changes' = [changes EXCEPT ![c].state = "Applying"]
             /\ effect' = [effect EXCEPT ![c] = "ready"]
             /\ DecisionDone(d)
        ELSE /\ changes' = [changes EXCEPT ![c].state = "Rejected"]
             /\ Decide(d, "consume")
             /\ UNCHANGED effect
     /\ UNCHANGED <<scene, files, plan, line, admitted, exchange, active, facts, step, now,
                    resumes>>
FileOf(c) == <<changes[c].cont, c>>
DecideConsumes(d) ==
  /\ decision[d].pc = "consume"
  /\ files' = files \ {FileOf(decision[d].change)}
  /\ DecisionDone(d)
  /\ UNCHANGED <<scene, changes, plan, line, admitted, effect, exchange, active, facts, step,
                 now, resumes>>
DecideFails(d) ==
  /\ decision[d].pc # "idle" /\ DecisionDone(d)
  /\ UNCHANGED <<scene, rows, exchange, active, facts, step, now, resumes>>

----------------------------------------------------------------------------
(* AssistantApplyWorkflowChangeEffectUseCase, under the worker's claim.    *)

Go(c, pc) == step' = [step EXCEPT ![c] = pc]
\* A transient failure releases the claim; a second later it is taken again.
Release(c) == Go(c, "idle") /\ effect' = [effect EXCEPT ![c] = "ready"]
Applied(c) == c \in Range(line)

\* The row of a decided change is the worker's alone, so it is loaded here.
\* Mutant: an Applied change goes straight on to its Run.
ClaimHastily(c) ==
  /\ effect[c] = "ready"
  /\ effect' = [effect EXCEPT ![c] = "claimed"]
  /\ Go(c, CASE changes[c].run # 0 -> "finish"
             [] changes[c].state = "Applying" -> "apply"
             [] OTHER -> "start")
  /\ UNCHANGED <<scene, changes, files, plan, line, admitted, exchange, active, facts,
                 decision, now, resumes>>
Claim(c) ==
  /\ effect[c] = "ready"
  /\ effect' = [effect EXCEPT ![c] = "claimed"]
  /\ Go(c, CASE changes[c].run # 0 -> "finish"
             [] changes[c].state = "Applying" -> "apply"
             [] changes[c].state = "Applied" /\ changes[c].outcome = "Pending" -> "consume"
             [] OTHER -> "start")
  /\ UNCHANGED <<scene, changes, files, plan, line, admitted, exchange, active, facts,
                 decision, now, resumes>>

\* The request identity is the change's: a mutation already made is answered
\* from its receipt, and one out of another revision is a conflict.
ApplyMutation(c) ==
  /\ step[c] = "apply"
  /\ IF Applied(c) THEN Go(c, "mark") /\ UNCHANGED <<line, effect>>
     ELSE IF Len(line) = changes[c].base
     THEN Go(c, "mark") /\ line' = Append(line, c) /\ UNCHANGED effect
     ELSE Release(c) /\ UNCHANGED line
  /\ UNCHANGED <<scene, changes, files, plan, admitted, exchange, active, facts, decision,
                 now, resumes>>
MarkApplied(c) ==
  /\ step[c] = "mark"
  /\ changes' = [changes EXCEPT ![c].state = "Applied",
                                ![c].receipt = CHOOSE r \in DOMAIN line : line[r] = c]
  /\ Go(c, "consume")
  /\ UNCHANGED <<scene, files, plan, line, admitted, effect, exchange, active, facts,
                 decision, now, resumes>>

\* The file is found, and the turn that stored it goes on; or the turn is over.
Found(c) ==
  IF FileOf(c) \in files
  THEN /\ exchange' = [exchange EXCEPT ![<<"resume", c>>] = Opened]
       /\ resumes' = [resumes EXCEPT ![c] = @ + 1]
       /\ Go(c, "resuming")
  ELSE Go(c, "interrupt") /\ UNCHANGED <<exchange, resumes>>
\* Mutant: the continuation is loaded and left where it is.
LoadOnly(c) ==
  /\ step[c] = "consume" /\ Found(c)
  /\ UNCHANGED <<scene, rows, active, facts, decision, now>>
ConsumeContinuation(c) ==
  /\ step[c] = "consume" /\ Found(c)
  /\ files' = files \ {FileOf(c)}
  /\ UNCHANGED <<scene, changes, plan, line, admitted, effect, active, facts, decision, now>>
\* Whether the resumed turn ended well is all that is kept of it.
CommitOutcome(c) ==
  LET ended == exchange[<<"resume", c>>].state
  IN /\ \/ step[c] = "interrupt"
        \/ step[c] = "resuming" /\ ended \in {"completed", "failed"}
     /\ changes' = [changes EXCEPT ![c].outcome =
          IF step[c] = "resuming" /\ ended = "completed" THEN "Resumed" ELSE "Interrupted"]
     /\ Go(c, "start")
     /\ UNCHANGED <<scene, files, plan, line, admitted, effect, exchange, active, facts,
                    decision, now, resumes>>

\* start_assistant_workflow_run compares the current revision with the
\* receipt's; only then does WorkflowStartRunUseCase look for the Run of the
\* request, whose identity is the change's, and freeze a plan if there is none.
FreezePlan(c) ==
  /\ step[c] = "start"
  /\ IF Len(line) # changes[c].receipt THEN Release(c)
     ELSE Go(c, IF admitted[c] # 0 THEN "link" ELSE "admit") /\ UNCHANGED effect
  /\ UNCHANGED <<scene, changes, files, plan, line, admitted, exchange, active, facts,
                 decision, now, resumes>>
AdmitRun(c) ==
  /\ step[c] = "admit"
  /\ admitted' = [admitted EXCEPT ![c] = changes[c].receipt]
  /\ Go(c, "link")
  /\ UNCHANGED <<scene, changes, files, plan, line, effect, exchange, active, facts, decision,
                 now, resumes>>
LinkRun(c) ==
  /\ step[c] = "link"
  /\ changes' = [changes EXCEPT ![c].run = admitted[c]]
  /\ Go(c, "finish")
  /\ UNCHANGED <<scene, files, plan, line, admitted, effect, exchange, active, facts,
                 decision, now, resumes>>
Finish(c) ==
  /\ step[c] = "finish"
  /\ effect' = [effect EXCEPT ![c] = "completed"]
  /\ Go(c, "idle")
  /\ UNCHANGED <<scene, changes, files, plan, line, admitted, exchange, active, facts,
                 decision, now, resumes>>

\* A repository, bridge or file operation fails.
WorkerFails(c) ==
  /\ step[c] \notin {"idle", "dropped", "finish"}
  /\ exchange[<<"resume", c>>].state \notin {"open", "storing"}
  /\ Release(c)
  /\ UNCHANGED <<scene, changes, files, plan, line, admitted, exchange, active, facts,
                 decision, now, resumes>>
\* A claim or a completion of the batch fails: its other slots are dropped,
\* with the model processes they drive, and their claims stay.
WorkerDrops(c) ==
  LET x == <<"resume", c>>
  IN /\ step[c] \notin {"idle", "dropped"}
     /\ Go(c, "dropped")
     /\ exchange' = IF exchange[x].state \in {"open", "storing"}
                    THEN [exchange EXCEPT ![x] = Closed("failed")] ELSE exchange
     /\ UNCHANGED <<scene, rows, active, facts, decision, now, resumes>>

----------------------------------------------------------------------------
(* The surroundings.                                                       *)

UserEdit ==
  /\ Cardinality({r \in DOMAIN line : line[r] = User}) <= scene.edits
  /\ line' = Append(line, User)
  /\ UNCHANGED <<scene, changes, files, plan, admitted, effect, exchange, active, facts,
                 decision, step, now, resumes>>
Tick ==
  /\ now < scene.ticks /\ now' = now + 1
  /\ UNCHANGED <<scene, rows, exchange, active, facts, decision, step, resumes>>
\* Memory is lost; recovery at the next start resets the claims.
\* Mutant: it does not.
CrashKeepingClaims ==
  /\ exchange' = [x \in Exchanges |->
       IF exchange[x].state \notin {"open", "storing"} THEN exchange[x]
       ELSE Closed(IF x \in Starts THEN "over" ELSE "failed")]
  /\ active' = FALSE /\ facts' = [t \in Turns |-> None]
  /\ decision' = [d \in Decisions |-> NoDecision]
  /\ step' = [c \in Turns |-> "idle"]
  /\ UNCHANGED <<scene, rows, now, resumes>>
Crash ==
  /\ exchange' = [x \in Exchanges |->
       IF exchange[x].state \notin {"open", "storing"} THEN exchange[x]
       ELSE Closed(IF x \in Starts THEN "over" ELSE "failed")]
  /\ active' = FALSE /\ facts' = [t \in Turns |-> None]
  /\ decision' = [d \in Decisions |-> NoDecision]
  /\ step' = [c \in Turns |-> "idle"]
  /\ effect' = [c \in Turns |-> IF effect[c] = "claimed" THEN "ready" ELSE effect[c]]
  /\ UNCHANGED <<scene, changes, files, plan, line, admitted, now, resumes>>

TurnStep(x) ==
  \/ Propose(x) \/ AcceptVerdict(x) \/ LoadPlan(x) \/ SavePlan(x)
  \/ \E c \in Turns : Fetch(x, c) \/ RejectVerdict(x, c) \/ StoreEnvelope(x, c)
DecisionStep(d) ==
  \/ DecideCommits(d) \/ DecideConsumes(d) \/ DecideFails(d)
  \/ \E c \in Turns : DecideLoads(d, c)
EffectStep(c) ==
  \/ Claim(c) \/ ApplyMutation(c) \/ MarkApplied(c)
  \/ ConsumeContinuation(c) \/ CommitOutcome(c)
  \/ FreezePlan(c) \/ AdmitRun(c) \/ LinkRun(c) \/ Finish(c)

Next ==
  \/ \E t \in Turns : SendMessage(t)
  \/ \E x \in Exchanges : TurnStep(x) \/ Completes(x) \/ Fails(x)
  \/ \E d \in Decisions : DecisionStep(d)
  \/ \E c \in Turns : EffectStep(c) \/ WorkerFails(c) \/ WorkerDrops(c)
  \/ UserEdit \/ Tick \/ Crash

Spec == Init /\ [][Next]_vars

\* The worker's loop runs, and a turn ends within its deadline.
Fairness ==
  /\ \A c \in Turns : WF_vars(EffectStep(c))
  /\ \A x \in Exchanges : WF_vars(Completes(x) \/ Fails(x))
FairSpec == Spec /\ Fairness

----------------------------------------------------------------------------
(* Properties.                                                             *)

States == {"none", "Proposed", "ReviewRejected", "AwaitingApproval", "Rejected", "Applying",
           "Applied"}

\* Rows, memory and program counters have their types, and what a change
\* stands for is there: an effect only under a decided change, a turn to
\* resume only of a reviewed one.
TypeOK ==
  /\ \A c \in Turns :
       /\ changes[c].state \in States /\ changes[c].expires \in 0 .. scene.ticks + Lifetime
       /\ changes[c].cont \in Turns \cup {None} /\ facts[c] \in Turns \cup {None}
       /\ effect[c] # "none" <=> changes[c].state \in {"Applying", "Applied"}
       /\ step[c] # "idle" => effect[c] = "claimed"
       /\ exchange[<<"resume", c>>].state # "new" => changes[c].state = "Applied"
  /\ files \subseteq Turns \X Turns
  /\ plan.revision \in 0 .. MaxPlan /\ ValidItems(plan.items)

\* Every row that is written can be read back: try_restore's checks on the
\* evidence of a state hold after any interleaving of turns, decisions and
\* effect.
StoredChangesRestore ==
  \A c \in Turns :
    LET row == changes[c]
    IN /\ IF row.state = "Applied"
          THEN row.receipt # 0 /\ (row.run # 0 => row.outcome # "Pending")
          ELSE row.receipt = 0 /\ row.run = 0 /\ row.outcome = "Pending"
       /\ CASE row.state \in {"none", "Proposed"} -> row.verdict = "none" /\ row.cont = None
            [] row.state = "ReviewRejected" -> row.verdict = "Reject" /\ row.cont = None
            [] OTHER -> row.verdict = "Pass" /\ row.cont # None

\* The turn that reviewed a change is resumed at most once, however often its
\* effect is retried or the program restarted, and only when the change is in
\* the Workflow; what a rejected change's turn left behind is never resumed.
ResumedOnce ==
  \A c \in Turns :
    /\ resumes[c] <= 1
    /\ resumes[c] = 1 => Applied(c)
    /\ changes[c].outcome = "Resumed" => resumes[c] = 1
    /\ changes[c].state \in {"AwaitingApproval", "Rejected"} => resumes[c] = 0

\* Two turns may work on the plan at once, one started and one resumed: no
\* write of the plan is lost or built on a plan that has been replaced.
PlanLine ==
  [][plan' # plan =>
       IF plan = NoPlan THEN plan' \in {NewPlan(items) : items \in ItemLists}
       ELSE plan' \in Moved(plan) \cup {Replaced(plan, items) : items \in ItemLists}]_vars

\* How far the promise sees a change.
Stage(c) ==
  IF admitted[c] # 0 THEN "running"
  ELSE IF Applied(c) THEN "applied"
  ELSE CASE changes[c].state = "none" -> "none"
         [] changes[c].state = "Proposed" -> "proposed"
         [] changes[c].state = "ReviewRejected" -> "refused"
         [] changes[c].state = "AwaitingApproval" -> "awaiting"
         [] changes[c].state = "Rejected" -> "declined"
         [] changes[c].state \in {"Applying", "Applied"} -> "approved"
Promise == INSTANCE AssistantPromise
  WITH Changes <- Turns, stage <- [c \in Turns |-> Stage(c)],
       base <- [c \in Turns |-> changes[c].base], ran <- admitted
\* One proposal awaits the user at a time, a decision is taken once, and an
\* approved change makes one revision, out of the one it was evaluated
\* against, and starts one Run, of the revision it made: across retries,
\* restarts, edits of the user and other proposals.
ImplementsPromise == Promise!Spec

\* An edit of the user has taken the place of the revision the change needs.
Superseded(c) ==
  IF Applied(c) THEN Last(line) # c ELSE Len(line) # changes[c].base
\* The worker let go of the effect and only a restart will take it up.
Dropped(c) == step[c] = "dropped"
\* An approved change ends with its Run linked, unless the user's edits
\* overtake it: when crashes and storage failures are over, and no claim has
\* been dropped since the last start.
Settled(c) ==
  changes[c].state \in {"Applying", "Applied"} => changes[c].run # 0 \/ Superseded(c)
ApprovedSettles ==
  /\ <>[][~(Crash \/ \E c \in Turns : WorkerFails(c))]_vars
  /\ <>[](\A c \in Turns : ~Dropped(c))
  => []<>(\A c \in Turns : Settled(c))
=============================================================================
