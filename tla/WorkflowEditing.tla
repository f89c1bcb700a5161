-------------------------- MODULE WorkflowEditing ---------------------------
(***************************************************************************)
(* The life of a Project's Workflow document: idempotent creation,         *)
(* mutations with a base revision, and Run admission, as several callers   *)
(* issue and retry them.  Each await of a use case is a step; a storage    *)
(* operation is one transaction under the connection's mutex.  A call may  *)
(* fail at any await with nothing said of what it did; a crash is the      *)
(* failure of every call at once, for the rows are all that lasts.         *)
(***************************************************************************)
EXTENDS WorkflowGraph

CONSTANTS
  Creations,    \* request identities of WorkflowCreateCommand
  Edits,        \* of WorkflowApplyMutationCommand
  Starts,       \* of WorkflowStartRunCommand
  Menus,        \* the commands that may be sent, a menu for each behaviour
  Callers,      \* menu -> calls that may be in flight
  Outages,      \* sets of contracts whose profile or Asset may be unavailable
  Clock         \* what the clock may show

Requests == Creations \cup Edits \cup Starts
AllCallers == UNION {Callers[m] : m \in Menus}

ASSUME EditingAssumption ==
  /\ Creations \cap Edits = {} /\ (Creations \cup Edits) \cap Starts = {}
  /\ Callers \in [Menus -> SUBSET AllCallers]
  /\ \A menu \in Menus :
       /\ DOMAIN menu = Requests
       /\ \A r \in Edits : \A m \in menu[r] :
            \A i \in 1 .. Len(m.actions) : IsAction(m.actions[i])
  /\ Clock \subseteq Nat

VARIABLES
  menu,       \* the commands of this behaviour: request -> set
  workflow,   \* row of workflows, or NoDocument
  receipts,   \* creation and mutation receipts: command and snapshot
  admissions, \* Run request receipts: command and Run
  runs,       \* admitted Runs: their identity and frozen plan
  call,       \* what each caller's call is doing
  told        \* [request, command, answer] that callers have received

vars == <<menu, workflow, receipts, admissions, runs, call, told>>
rows == <<workflow, receipts, admissions, runs>>

NoDocument == [revision |-> 0]
NoReceipt == [command |-> "none"]
Receipt(m, result) == [command |-> m, result |-> result]
\* The hash of a command's canonical bytes stands for the command.
SameCommand(found, m) == found.command = m
\* The row is decoded into the aggregate it restores, or the load fails.
Restored == {d \in {workflow} : d # NoDocument /\ DraftValid(d)}

\* Answers other than a document or a plan.
PlanRefused == [refused |-> "plan"]
RunMissing == [refused |-> "run"]

\* seen: the document it holds; plan: the Run it is about to admit.
Idle == [pc |-> "idle", request |-> "none", command |-> "none", seen |-> NoDocument,
         plan |-> "none"]

Init ==
  /\ menu \in Menus
  /\ workflow = NoDocument
  /\ receipts = [r \in Creations \cup Edits |-> NoReceipt]
  /\ admissions = [r \in Starts |-> NoReceipt]
  /\ runs = {}
  /\ call = [c \in AllCallers |-> Idle]
  /\ told = {}

At(c, pc, kind) == call[c].pc = pc /\ call[c].request \in kind
Go(c, pc) == call' = [call EXCEPT ![c].pc = pc]
Holding(c, pc, d) == call' = [call EXCEPT ![c].pc = pc, ![c].seen = d]

\* A failure the properties do not tell apart: conflict, not found, invalid.
Refuse(c) == call' = [call EXCEPT ![c] = Idle] /\ UNCHANGED told
Answer(c, answer) ==
  /\ call' = [call EXCEPT ![c] = Idle]
  /\ told' = told \cup {[request |-> call[c].request, command |-> call[c].command,
                          answer |-> answer]}

\* A caller names a revision it has been shown.
Known(r, m) == CASE r \in Creations -> TRUE
                 [] r \in Edits -> m.base <= workflow.revision
                 [] r \in Starts -> m.revision <= workflow.revision

Issue(c, r, pc) ==
  /\ c \in Callers[menu] /\ call[c].pc = "idle"
  /\ \E m \in menu[r] :
       /\ Known(r, m)
       /\ r \in Edits => ValidActions(m.actions)
       /\ call' = [call EXCEPT ![c] = [pc |-> pc, request |-> r, command |-> m,
                                       seen |-> NoDocument, plan |-> "none"]]
  /\ UNCHANGED <<menu, rows, told>>

WorkflowCreate(c) == \E r \in Creations : Issue(c, r, "receipt")
WorkflowApplyMutation(c) == \E r \in Edits : Issue(c, r, "receipt")
WorkflowStartRun(c) == \E r \in Starts : Issue(c, r, "load")

\* Storage or the clock fails an await: the caller learns nothing.
CallFails(c) ==
  /\ call[c].pc # "idle"
  /\ Refuse(c)
  /\ UNCHANGED <<menu, rows>>

----------------------------------------------------------------------------
(* WorkflowCreateUseCase.                                                  *)

LoadCreationReceipt(c) ==
  /\ At(c, "receipt", Creations)
  /\ LET found == receipts[call[c].request]
     IN IF found = NoReceipt THEN Go(c, "load") /\ UNCHANGED told
        ELSE IF SameCommand(found, call[c].command) THEN Answer(c, found.result)
        ELSE Refuse(c)
  /\ UNCHANGED <<menu, rows>>

LoadProjectWorkflow(c) ==
  /\ At(c, "load", Creations)
  /\ IF Restored # {} THEN Refuse(c)
     ELSE /\ \E t \in Clock : Holding(c, "commit", EmptyDocument(t))
          /\ UNCHANGED told
  /\ UNCHANGED <<menu, rows>>

\* commit_creation.
\* Mutant: no second look, and a second Workflow takes the place of the first.
InsertCreation(c) ==
  /\ At(c, "commit", Creations)
  /\ workflow' = call[c].seen
  /\ receipts' = [receipts EXCEPT ![call[c].request] = Receipt(call[c].command, call[c].seen)]
  /\ Answer(c, call[c].seen)
  /\ UNCHANGED <<menu, admissions, runs>>
CommitCreation(c) ==
  /\ At(c, "commit", Creations)
  /\ LET found == receipts[call[c].request]
     IN IF found # NoReceipt
        THEN /\ IF SameCommand(found, call[c].command) THEN Answer(c, found.result) ELSE Refuse(c)
             /\ UNCHANGED <<workflow, receipts>>
        ELSE IF workflow # NoDocument       \* project_id is UNIQUE
        THEN Refuse(c) /\ UNCHANGED <<workflow, receipts>>
        ELSE /\ workflow' = call[c].seen
             /\ receipts' = [receipts EXCEPT ![call[c].request] =
                               Receipt(call[c].command, call[c].seen)]
             /\ Answer(c, call[c].seen)
  /\ UNCHANGED <<menu, admissions, runs>>

----------------------------------------------------------------------------
(* WorkflowApplyMutationUseCase.                                           *)

LoadMutationReceipt(c) ==
  /\ At(c, "receipt", Edits)
  /\ LET found == receipts[call[c].request]
     IN IF found = NoReceipt THEN Go(c, "load")
        ELSE IF SameCommand(found, call[c].command) THEN Holding(c, "readiness", found.result)
        ELSE Refuse(c)
  /\ UNCHANGED <<menu, rows, told>>

\* The load, the revision check and the whole of apply_mutation_command.
LoadAndApply(c) ==
  /\ At(c, "load", Edits)
  /\ LET m == call[c].command
     IN \E t \in Clock :
          LET next == UNION {Apply(d, m.actions, t) : d \in {d \in Restored : d.revision = m.base}}
          IN IF next = {} THEN Refuse(c)
             ELSE Holding(c, "commit", CHOOSE d \in next : TRUE)
  /\ UNCHANGED <<menu, rows, told>>

\* commit_mutation.
\* Mutant: the update does not ask for the base revision.
Overwrite(c) ==
  /\ At(c, "commit", Edits)
  /\ IF receipts[call[c].request] # NoReceipt
     THEN Refuse(c) /\ UNCHANGED <<workflow, receipts>>
     ELSE /\ workflow' = call[c].seen
          /\ receipts' = [receipts EXCEPT ![call[c].request] =
                            Receipt(call[c].command, call[c].seen)]
          /\ Go(c, "readiness")
  /\ UNCHANGED <<menu, admissions, runs, told>>
CommitMutation(c) ==
  /\ At(c, "commit", Edits)
  /\ LET found == receipts[call[c].request]
     IN IF found # NoReceipt
        THEN /\ IF SameCommand(found, call[c].command) THEN Holding(c, "readiness", found.result)
                ELSE Refuse(c)
             /\ UNCHANGED <<workflow, receipts>>
        ELSE IF workflow.revision # call[c].command.base
        THEN Refuse(c) /\ UNCHANGED <<workflow, receipts>>
        ELSE /\ workflow' = call[c].seen
             /\ receipts' = [receipts EXCEPT ![call[c].request] =
                               Receipt(call[c].command, call[c].seen)]
             /\ Go(c, "readiness")
  /\ UNCHANGED <<menu, admissions, runs, told>>

\* check_readiness of the committed snapshot; its issues do not fail the call.
AnswerMutation(c) ==
  /\ At(c, "readiness", Edits)
  /\ Answer(c, call[c].seen)
  /\ UNCHANGED <<menu, rows>>

----------------------------------------------------------------------------
(* WorkflowStartRunUseCase.                                                *)

LoadWorkflowToRun(c) ==
  /\ At(c, "load", Starts)
  /\ IF Restored = {} THEN Refuse(c) ELSE Holding(c, "receipt", workflow)
  /\ UNCHANGED <<menu, rows, told>>

RunRow(id) == CHOOSE run \in runs : run.id = id
PlanOf(id) == RunRow(id).plan

\* A replay loads the admitted Run; otherwise the revision must be current.
LoadAdmissionReceipt(c) ==
  /\ At(c, "receipt", Starts)
  /\ LET found == admissions[call[c].request]
         m == call[c].command
     IN IF found # NoReceipt
        THEN IF SameCommand(found, m) THEN Answer(c, PlanOf(found.result)) ELSE Refuse(c)
        ELSE IF call[c].seen.revision = m.revision
                  /\ m.scope \in Scopes(call[c].seen)
        THEN Go(c, "readiness") /\ UNCHANGED told
        ELSE Refuse(c)
  /\ UNCHANGED <<menu, rows>>

\* The fresh readiness check of the scope, then the frozen plan.
CheckAndFreeze(c) ==
  /\ At(c, "readiness", Starts)
  /\ LET d == call[c].seen
         scope == call[c].command.scope
         plan == FreezePlan(d, scope)
     IN \E outages \in Outages :
          IF Issues(d, SelectedNodes(d, scope), outages) # {} THEN Refuse(c)
          ELSE IF ~ValidPlan(plan) THEN Answer(c, PlanRefused)
          ELSE /\ call' = [call EXCEPT ![c].pc = "admit", ![c].plan = plan]
               /\ UNCHANGED told
  /\ UNCHANGED <<menu, rows>>

\* A Run's identity is drawn by the call; this is the one it is given here.
RunId(c) == <<call[c].request, c>>
InsertRun(c) ==
  /\ runs' = runs \cup {[id |-> RunId(c), plan |-> call[c].plan]}
  /\ admissions' = [admissions EXCEPT ![call[c].request] = Receipt(call[c].command, RunId(c))]

\* admit_run: the Run and its receipt (and effect) in one transaction.  The
\* document's revision is not asked for again, and a receipt found here is
\* returned to a caller that does not use it.
AdmitRun(c) ==
  /\ At(c, "admit", Starts)
  /\ LET found == admissions[call[c].request]
     IN IF found # NoReceipt
        THEN /\ IF SameCommand(found, call[c].command) THEN Go(c, "reload") ELSE Refuse(c)
             /\ UNCHANGED <<admissions, runs>>
        ELSE /\ InsertRun(c)
             /\ Go(c, "reload")
  /\ UNCHANGED <<menu, workflow, receipts, told>>

ReloadRun(c) ==
  /\ At(c, "reload", Starts)
  /\ Answer(c, IF \E run \in runs : run.id = RunId(c) THEN PlanOf(RunId(c)) ELSE RunMissing)
  /\ UNCHANGED <<menu, rows>>

----------------------------------------------------------------------------
Next ==
  \E c \in AllCallers :
       \/ WorkflowCreate(c) \/ WorkflowApplyMutation(c) \/ WorkflowStartRun(c)
       \/ CallFails(c)
       \/ LoadCreationReceipt(c) \/ LoadProjectWorkflow(c) \/ CommitCreation(c)
       \/ LoadMutationReceipt(c) \/ LoadAndApply(c) \/ CommitMutation(c) \/ AnswerMutation(c)
       \/ LoadWorkflowToRun(c) \/ LoadAdmissionReceipt(c) \/ CheckAndFreeze(c)
       \/ AdmitRun(c) \/ ReloadRun(c)

Spec == Init /\ [][Next]_vars

----------------------------------------------------------------------------
(* Properties.                                                             *)

Snapshots == {receipts[r].result : r \in {r \in DOMAIN receipts : receipts[r] # NoReceipt}}

\* The rows have their types, and every receipt's snapshot is a revision the
\* document has had: the current one, once created, among them.
TypeOK ==
  /\ menu \in Menus
  /\ \A d \in Snapshots : d.revision \in 1 .. workflow.revision
  /\ workflow # NoDocument => workflow \in Snapshots
  /\ \A r \in Starts : admissions[r] # NoReceipt =>
       \E run \in runs : run.id = admissions[r].result
  /\ \A c \in AllCallers : call[c].pc # "idle" =>
       call[c].request \in Requests /\ c \in Callers[menu]

\* Acyclic, typed, within the limits of its contracts.
Sound(d) ==
  /\ \A S \in SUBSET NodeIds(d) : S # {} => \E n \in S : Sources(d, n) \cap S = {}
  /\ \A t \in DOMAIN d.bindings :
       LET input == ContractOf(d, t[1]).inputs[t[2]]
       IN /\ d.bindings[t].items # <<>> /\ Len(d.bindings[t].items) <= input.maximum
          /\ \A i \in Items(d.bindings[t]) :
               ContractOf(d, i.source).outputs[i.output] \in input.accepts[i.role]
          /\ \A u \in DOMAIN d.bindings : t # u =>
               {i.id : i \in Items(d.bindings[t])} \cap {i.id : i \in Items(d.bindings[u])} = {}
  /\ \A n \in NodeIds(d) :
       DOMAIN d.nodes[n].parameters \subseteq DOMAIN ContractOf(d, n).parameters

\* Whatever edits were sent, and in whatever order they were committed, every
\* revision is a well-formed acyclic graph: no set of nodes feeds only on
\* itself; every item reads an output that exists and has a type its input
\* takes; an input holds no more than its contract allows; one item has one
\* identity; every parameter is one its contract declares
\* (WorkflowAggregate::try_restore, WorkflowAggregate::apply_mutation_command).
SoundDocuments == \A d \in Snapshots : Sound(d)

\* Every node's inputs come from nodes before it, nothing it requires is
\* missing, and its profile serves it.
Runnable(p) ==
  \A i \in DOMAIN p.order :
    LET n == p.order[i]
        contract == Registry[p.nodes[n].contract]
    IN /\ SourcesOf(p.nodes[n].bindings, n) \subseteq {p.order[j] : j \in 1 .. i - 1}
       /\ \A k \in DOMAIN contract.inputs : contract.inputs[k].minimum > 0 =>
            <<n, k>> \in DOMAIN p.nodes[n].bindings
       /\ ProfileCompatible(p.nodes[n].contract, p.nodes[n].parameters)

\* An admitted plan can be executed to its end in its order, although the
\* document was read two awaits before the Run was written
\* (WorkflowStartRunUseCase).  And the plan's own check
\* (WorkflowExecutionPlan::try_new, written independently of the freeze) never
\* refuses what the freeze made of a ready document that has a node.
AdmittedPlansRunnable ==
  /\ \A t \in told : t.answer = PlanRefused =>
       \E d \in Snapshots : d.revision = t.command.revision /\ NodeIds(d) = {}
  /\ \A run \in runs : Runnable(run.plan)

\* Stale is what running through the node now would not freeze again.
StaleIsDifferent(d, p, n) ==
  LET needed == Upward(PlanBindings(p), DOMAIN p.nodes, n)
  IN IsStale(d, p, n) <=>
       n \notin NodeIds(d) \/ FreezePlan(d, n).nodes # [m \in needed |-> p.nodes[m]]

\* A Run's result for a node is shown as fresh exactly when running through
\* that node now would freeze the same work again (WorkflowStaleResultPolicy).
FreshMeansReproducible ==
  \A run \in runs : \A n \in DOMAIN run.plan.nodes : StaleIsDifferent(workflow, run.plan, n)

\* With calls, retries, conflicts and crashes left out, this is a line of
\* revisions, each made by one request out of the one before it, one plan for
\* each admitted request, and answers that say what the request did.
Revisions ==
  [v \in 1 .. workflow.revision |->
     LET found == {d \in Snapshots : d.revision = v}
     IN IF found = {} THEN NoDocument ELSE CHOOSE d \in found : TRUE]
Done(t) == t.answer \notin {PlanRefused, RunMissing}

Promise == INSTANCE EditingPromise WITH
  Commands <- [r \in Requests |-> UNION {m[r] : m \in Menus}],
  revisions <- Revisions,
  made <- [r \in Requests |->
             IF r \notin Starts THEN receipts[r]
             ELSE IF admissions[r] = NoReceipt THEN NoReceipt
             ELSE Receipt(admissions[r].command, PlanOf(admissions[r].result))],
  told <- {t \in told : Done(t)}
ImplementsPromise == Promise!Spec
=============================================================================
