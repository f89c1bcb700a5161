---------------------------- MODULE WorkflowRun ----------------------------
(***************************************************************************)
(* One Workflow Run and everything that drives it: the Run aggregate, its  *)
(* rows of the Desktop post-commit outbox, the worker slots that execute   *)
(* them, the node capabilities they call, the cancellation registry, the   *)
(* Generation Tasks that complete waiting nodes, and startup recovery.     *)
(*                                                                         *)
(* Several of them load the Run, decide, and commit the changed copy with  *)
(* an optimistic check of its event count.  Every await is a separate      *)
(* action.  The inside of a Generation Task is module GenerationTask; here *)
(* a task is created, settles and notifies.                                *)
(***************************************************************************)
EXTENDS Naturals, FiniteSets

CONSTANTS
  Nodes,            \* Node Executions of the frozen plan
  Upstream,         \* the source nodes a node's input bindings name
  TaskNodes,        \* nodes of provider-backed capabilities
  Slots,            \* post_commit_effect_concurrency workers of one batch
  MaximumConcurrency, \* nodes one executor starts at a time
  MaxRestarts,      \* process crashes in one behaviour (bound)
  MayCancel,        \* WorkflowCancelRunUseCase is called
  MayFail,          \* publishing, storage or the clock may fail a step
  PromptHandoff     \* no task expires before its executor commits the wait

Admission == "admission"
ASSUME PlanAssumption ==
  /\ Upstream \in [Nodes -> SUBSET Nodes]
  /\ TaskNodes \subseteq Nodes /\ Admission \notin Nodes

ASSUME BoundAssumption ==
  /\ MaximumConcurrency \in Nat \ {0} /\ MaxRestarts \in Nat
  /\ MayCancel \in BOOLEAN /\ MayFail \in BOOLEAN /\ PromptHandoff \in BOOLEAN

VARIABLES
  run,        \* the durable WorkflowRunAggregate
  effects,    \* state of each Workflow effect of the Run in the outbox
  ex,         \* what each worker slot is doing
  call,       \* the capability call of a node, or its result until joined
  executions, \* capability calls each node has received
  registry,   \* WorkflowExecutionCancellationRegistry, for this Run
  canceller,  \* the caller of WorkflowCancelRunUseCase
  task,       \* Generation Task of a node
  notice,     \* its NotifyWorkflow effect
  host,       \* "Up", "Down", "Recovering", or why startup was refused
  restarts    \* crashes so far

vars == <<run, effects, ex, call, executions, registry, canceller, task,
          notice, host, restarts>>

----------------------------------------------------------------------------
(* The aggregate.  An operation returns the set of Runs it may produce:    *)
(* one, or none when the code returns an error.  "Interrupted" is Failed   *)
(* with InterruptedByRestart; "Waiting" is WaitingForExternalCompletion.   *)

NodeTerminal == {"Succeeded", "Failed", "Blocked", "Cancelled"}
NodeStates == {"Pending", "Running", "Waiting"} \cup NodeTerminal
RunTerminal == {"Succeeded", "Failed", "Interrupted", "Cancelled"}
RunStates == {"Queued", "Running"} \cup RunTerminal

Live(r) == r.state \notin RunTerminal

\* The state change and its events: only equality of counts is ever asked.
Record(r, state, nodes) == [state |-> state, nodes |-> nodes, events |-> r.events + 1]
Move(r, moved, to) == [n \in Nodes |-> IF n \in moved THEN to ELSE r.nodes[n]]

Start(r) == IF r.state = "Queued" THEN {Record(r, "Running", r.nodes)} ELSE {}

StartNodes(r, batch) ==
  IF r.state = "Running" /\ \A n \in batch : r.nodes[n] = "Pending"
  THEN {Record(r, r.state, Move(r, batch, "Running"))} ELSE {}

WaitNode(r, n) ==
  IF r.state = "Running" /\ r.nodes[n] = "Running"
  THEN {Record(r, r.state, Move(r, {n}, "Waiting"))} ELSE {}

\* succeed_node and fail_node: whatever the state of the Run.
EndNode(r, n, outcome) ==
  IF r.nodes[n] \in {"Running", "Waiting"}
  THEN {Record(r, r.state, Move(r, {n}, outcome))} ELSE {}

BlockNodes(r, blocked) == {Record(r, r.state, Move(r, blocked, "Blocked"))}

\* Mutant: a Run is a success once no node has anything left to do.
SucceedWhenSettled(r) ==
  IF r.state # "Running" \/ \E n \in Nodes : r.nodes[n] \notin NodeTerminal
  THEN {} ELSE {Record(r, "Succeeded", r.nodes)}

Finish(r) ==
  IF r.state # "Running" \/ \E n \in Nodes : r.nodes[n] \notin NodeTerminal THEN {}
  ELSE IF \E n \in Nodes : r.nodes[n] = "Failed" THEN {Record(r, "Failed", r.nodes)}
  ELSE IF \A n \in Nodes : r.nodes[n] = "Succeeded" THEN {Record(r, "Succeeded", r.nodes)}
  ELSE {}

InterruptByRestart(r) ==
  IF Live(r) THEN {Record(r, "Interrupted", r.nodes)} ELSE {}

CancelRun(r) ==
  IF Live(r)
  THEN {Record(r, "Cancelled",
               [n \in Nodes |-> IF r.nodes[n] \in NodeTerminal THEN r.nodes[n] ELSE "Cancelled"])}
  ELSE {}

Ready(r) ==
  {n \in Nodes : r.nodes[n] = "Pending" /\ \A u \in Upstream[n] : r.nodes[u] = "Succeeded"}

Ancestors[n \in Nodes] == Upstream[n] \cup UNION {Ancestors[u] : u \in Upstream[n]}

\* Mutant: only a direct source blocks.
BlockedByParent(r) ==
  {n \in Nodes : r.nodes[n] = "Pending" /\ \E u \in Upstream[n] : r.nodes[u] = "Failed"}
Blockable(r) ==
  {n \in Nodes : r.nodes[n] = "Pending"
     /\ \E u \in Nodes : u \in Ancestors[n] /\ r.nodes[u] = "Failed"}

Batches(ready) ==
  {b \in SUBSET ready : b # {} /\ Cardinality(b) <= MaximumConcurrency
     /\ (b = ready \/ Cardinality(b) = MaximumConcurrency)}

----------------------------------------------------------------------------
EffectIds == {Admission} \cup TaskNodes   \* a completion's effect has the task's ID
NewRun == [state |-> "Queued", nodes |-> [n \in Nodes |-> "Pending"], events |-> 1]
Slot(pc) == [pc |-> pc, effect |-> Admission, copy |-> NewRun, batch |-> {}, node |-> {}]

\* Admission commits the Run and its first effect in one transaction.
Init ==
  /\ run = NewRun
  /\ effects = [f \in EffectIds |-> IF f = Admission THEN "Ready" ELSE "Absent"]
  /\ ex = [e \in Slots |-> Slot("idle")]
  /\ call = [n \in Nodes |-> "None"]
  /\ executions = [n \in Nodes |-> 0]
  /\ registry = [cancelled |-> FALSE, registered |-> {}, signalled |-> {}]
  /\ canceller = [pc |-> "idle", events |-> 0]
  /\ task = [n \in TaskNodes |-> "Absent"]
  /\ notice = [n \in TaskNodes |-> [state |-> "None", events |-> 0]]
  /\ host = "Up" /\ restarts = 0

At(e, pc) == host = "Up" /\ ex[e].pc = pc
Goto(e, pc) == ex' = [ex EXCEPT ![e].pc = pc]
World == <<task, notice, host, restarts, canceller>>

\* An Err drops the JoinSet: the calls in flight are aborted.
Aborted(nodes) == [n \in Nodes |-> IF n \in nodes THEN "None" ELSE call[n]]
Fails(e) ==
  /\ ex' = [ex EXCEPT ![e] = [Slot("release") EXCEPT !.effect = ex[e].effect]]
  /\ call' = IF ex[e].pc = "launch" THEN call ELSE Aborted(ex[e].batch)

\* Mutant: the last writer wins.
AnyCount(r) == TRUE
CurrentCount(r) == r.events = run.events

Commit(e, proposals, next) ==
  IF proposals = {} \/ ~CurrentCount(ex[e].copy)
  THEN Fails(e) /\ UNCHANGED run
  ELSE \E r \in proposals :
         /\ run' = r /\ UNCHANGED call
         /\ ex' = [ex EXCEPT ![e] = [next EXCEPT !.effect = ex[e].effect, !.copy = r]]

----------------------------------------------------------------------------
(* The worker: a batch of slots, each of which claims at most one effect.  *)

ClaimNext(e) ==
  /\ At(e, "idle")
  /\ \E f \in EffectIds :
       /\ effects[f] = "Ready"
       /\ effects' = [effects EXCEPT ![f] = "Claimed"]
       /\ ex' = [ex EXCEPT ![e] = [Slot("load") EXCEPT !.effect = f]]
  /\ UNCHANGED <<run, call, executions, registry, World>>

NothingReady(e) ==
  /\ At(e, "idle") /\ \A f \in EffectIds : effects[f] # "Ready"
  /\ Goto(e, "done")
  /\ UNCHANGED <<run, effects, call, executions, registry, World>>

NextBatch ==
  /\ host = "Up" /\ \A e \in Slots : ex[e].pc = "done"
  /\ ex' = [e \in Slots |-> Slot("idle")]
  /\ UNCHANGED <<run, effects, call, executions, registry, World>>

LoadRun(e) ==
  /\ At(e, "load")
  /\ ex' = [ex EXCEPT ![e].pc = "drive", ![e].copy = run]
  /\ UNCHANGED <<run, effects, call, executions, registry, World>>

\* One turn of the loop of execute_workflow_run, up to its next commit.
Drive(e) ==
  /\ At(e, "drive")
  /\ LET r == ex[e].copy
         stopped == ~Live(r)
         blockable == IF r.state = "Running" THEN Blockable(r) ELSE {}
         ready == IF r.state = "Running" THEN Ready(r) ELSE {}
     IN \/ /\ stopped
           /\ Goto(e, "complete")
           /\ registry' = [registry EXCEPT !.cancelled = FALSE, !.registered = {}]
           /\ UNCHANGED <<run, call>>
        \/ /\ r.state = "Queued"
           /\ Commit(e, Start(r), Slot("drive")) /\ UNCHANGED registry
        \/ /\ blockable # {}
           /\ Commit(e, BlockNodes(r, blockable), Slot("drive")) /\ UNCHANGED registry
        \/ /\ blockable = {} /\ ready # {}
           /\ \E b \in Batches(ready) :
                Commit(e, StartNodes(r, b), [Slot("launch") EXCEPT !.batch = b])
           /\ UNCHANGED registry
        \/ /\ r.state = "Running" /\ blockable = {} /\ ready = {}
           /\ IF \E n \in Nodes : r.nodes[n] = "Waiting"
              THEN Goto(e, "complete") /\ UNCHANGED <<run, call>>
              ELSE Commit(e, Finish(r), Slot("complete"))
           /\ UNCHANGED registry
  /\ UNCHANGED <<effects, executions, World>>

\* execute_batch: register the signals, spawn the calls.
LaunchBatch(e) ==
  /\ At(e, "launch")
  /\ Goto(e, "join")
  /\ call' = [n \in Nodes |-> IF n \in ex[e].batch THEN "Calling" ELSE call[n]]
  /\ executions' = [n \in Nodes |-> IF n \in ex[e].batch THEN executions[n] + 1
                                                         ELSE executions[n]]
  /\ registry' = [registry EXCEPT !.registered = @ \cup ex[e].batch,
                    !.signalled = IF registry.cancelled THEN @ \cup ex[e].batch ELSE @]
  /\ UNCHANGED <<run, effects, World>>

\* A capability answers.  A provider-backed one creates its task first.
CapabilityReturns(n) ==
  /\ host = "Up" /\ call[n] = "Calling"
  /\ \/ /\ call' = [call EXCEPT ![n] = "Failed"] /\ UNCHANGED task
     \/ /\ n \notin TaskNodes
        /\ call' = [call EXCEPT ![n] = "Succeeded"] /\ UNCHANGED task
     \/ /\ n \in TaskNodes
        /\ call' = [call EXCEPT ![n] = "Waiting"]
        /\ task' = [task EXCEPT ![n] = IF @ = "Absent" THEN "Queued" ELSE @]
  /\ UNCHANGED <<run, effects, ex, executions, registry, canceller, notice, host, restarts>>

\* join_next and the load of commit_execution_result.
JoinResult(e) ==
  /\ At(e, "join")
  /\ \E n \in ex[e].batch :
       /\ call[n] \in {"Succeeded", "Failed", "Waiting"}
       /\ registry' = [registry EXCEPT !.registered = @ \ {n}, !.signalled = @ \ {n}]
       /\ IF run.state = "Cancelled"
          THEN /\ ex' = [ex EXCEPT ![e].batch = @ \ {n}]
               /\ call' = [call EXCEPT ![n] = "None"]
          ELSE /\ ex' = [ex EXCEPT ![e].pc = "result", ![e].copy = run, ![e].node = {n}]
               /\ UNCHANGED call
  /\ UNCHANGED <<run, effects, executions, World>>

CommitResult(e) ==
  /\ At(e, "result")
  /\ \E n \in ex[e].node :
       LET r == ex[e].copy
           changed == IF call[n] = "Waiting" THEN WaitNode(r, n) ELSE EndNode(r, n, call[n])
       IN IF changed = {} \/ ~CurrentCount(r)
          THEN Fails(e) /\ UNCHANGED run
          ELSE /\ run' \in changed
               /\ ex' = [ex EXCEPT ![e].pc = "join", ![e].batch = @ \ {n}, ![e].node = {}]
               /\ call' = [call EXCEPT ![n] = "None"]
  /\ UNCHANGED <<effects, executions, registry, World>>

BatchDone(e) ==
  /\ At(e, "join") /\ ex[e].batch = {}
  /\ Goto(e, "load")
  /\ UNCHANGED <<run, effects, call, executions, registry, World>>

FinishClaim(e) ==
  /\ host = "Up" /\ ex[e].pc \in {"complete", "release"}
  /\ effects' = [effects EXCEPT ![ex[e].effect] =
                   IF ex[e].pc = "complete" THEN "Completed" ELSE "Ready"]
  /\ ex' = [ex EXCEPT ![e] = Slot("done")]
  /\ UNCHANGED <<run, call, executions, registry, World>>

\* An event that cannot be published (after its commit), a storage or a
\* clock error aborts the effect.
StepFails(e) ==
  /\ MayFail /\ host = "Up"
  /\ ex[e].pc \in {"load", "drive", "launch", "join", "result"}
  /\ Fails(e)
  /\ UNCHANGED <<run, effects, executions, registry, World>>

\* finish_claim, or the event delivery before and after an effect, fails:
\* run_effect_batch returns and drops the other slots; their claims stay.
BatchFails(e) ==
  /\ MayFail /\ host = "Up" /\ ex[e].pc \in {"idle", "complete", "release"}
  /\ \/ UNCHANGED effects
     \/ /\ ex[e].pc = "complete"
        /\ effects' = [effects EXCEPT ![ex[e].effect] = "Completed"]
  /\ ex' = [s \in Slots |-> Slot("idle")]
  /\ call' = [n \in Nodes |-> "None"]
  /\ UNCHANGED <<run, executions, registry, World>>

----------------------------------------------------------------------------
(* WorkflowCancelRunUseCase: commit first, signal the active calls after.  *)

SignalCalls == [registry EXCEPT !.cancelled = TRUE, !.signalled = @ \cup registry.registered]

CancelLoads ==
  /\ MayCancel /\ host = "Up" /\ canceller.pc = "idle"
  /\ IF run.state = "Cancelled"
     THEN registry' = SignalCalls /\ UNCHANGED canceller
     ELSE /\ canceller' = [pc |-> "loaded", events |-> run.events]
          /\ UNCHANGED registry
  /\ UNCHANGED <<run, effects, ex, call, executions, task, notice, host, restarts>>

CancelCommits ==
  /\ host = "Up" /\ canceller.pc = "loaded"
  /\ IF canceller.events = run.events /\ Live(run)
     THEN /\ run' \in CancelRun(run)
          /\ canceller' = [pc |-> "committed", events |-> 0]
     ELSE canceller' = [pc |-> "idle", events |-> 0] /\ UNCHANGED run
  /\ UNCHANGED <<effects, ex, call, executions, registry, task, notice, host, restarts>>

\* Publishing the events comes between the commit and the signals.
CancelSignals ==
  /\ host = "Up" /\ canceller.pc = "committed"
  /\ canceller' = [pc |-> "idle", events |-> 0]
  /\ \/ registry' = SignalCalls
     \/ MayFail /\ UNCHANGED registry
  /\ UNCHANGED <<run, effects, ex, call, executions, task, notice, host, restarts>>

----------------------------------------------------------------------------
(* Generation Tasks: module GenerationTask in four steps.                  *)

Engine == <<ex, executions, registry, canceller, host, restarts>>
Settled(t) == t \in {"Succeeded", "Failed"}
Executing(n) == call[n] # "None" \/ \E e \in Slots : ex[e].pc = "launch" /\ n \in ex[e].batch

\* Mutant: an accepted job is already reported to the Workflow.
TaskReportsEarly(n) ==
  /\ host = "Up" /\ task[n] = "Queued" /\ run.nodes[n] = "Waiting"
  /\ task' = [task EXCEPT ![n] = "Active"]
  /\ notice' = [notice EXCEPT ![n].state = "Pending"]
  /\ UNCHANGED <<run, effects, call, Engine>>

\* The provider is called only for a node that has committed its wait.
TaskSubmits(n) ==
  /\ host = "Up" /\ task[n] = "Queued" /\ run.nodes[n] = "Waiting"
  /\ task' = [task EXCEPT ![n] = "Active"]
  /\ UNCHANGED <<run, effects, call, notice, Engine>>

TaskSettles(n) ==
  /\ host = "Up"
  /\ \/ task[n] = "Active" /\ \E o \in {"Succeeded", "Failed"} : task' = [task EXCEPT ![n] = o]
     \/ /\ task[n] = "Queued" /\ (PromptHandoff => ~Executing(n))
        /\ task' = [task EXCEPT ![n] = "Failed"]
  /\ notice' = [notice EXCEPT ![n].state = "Pending"]
  /\ UNCHANGED <<run, effects, call, Engine>>

\* complete_generation_task: AlreadyApplied and OriginTerminal consume the
\* notification, a node still Running in a live Run is a permanent conflict.
NotifyLoads(n) ==
  /\ host = "Up" /\ notice[n].state = "Pending"
  /\ notice' = [notice EXCEPT ![n] =
       CASE run.nodes[n] = "Waiting" -> [state |-> "Loaded", events |-> run.events]
         [] run.nodes[n] # "Waiting" /\ (run.nodes[n] \in NodeTerminal \/ ~Live(run)) ->
              [state |-> "Consumed", events |-> 0]
         [] OTHER -> [state |-> "Stuck", events |-> 0]]
  /\ UNCHANGED <<run, effects, call, task, Engine>>

\* Mutant: the completion commits without the effect that continues the Run.
NoWake(n) == effects
Wake(n) == [effects EXCEPT ![n] = "Ready"]

\* The node's outcome and the next Workflow effect in one transaction; a lost
\* race reschedules.  Consuming follows as a new look at the settled node.
NotifyCommits(n) ==
  /\ host = "Up" /\ notice[n].state = "Loaded"
  /\ IF notice[n].events = run.events
     THEN /\ run' \in EndNode(run, n, task[n])
          /\ effects' = Wake(n)
     ELSE UNCHANGED <<run, effects>>
  /\ notice' = [notice EXCEPT ![n] = [state |-> "Pending", events |-> 0]]
  /\ UNCHANGED <<call, task, Engine>>

----------------------------------------------------------------------------
(* Crash and startup recovery.                                             *)

Crash ==
  /\ host \in {"Up", "Recovering"} /\ restarts < MaxRestarts
  /\ host' = "Down" /\ restarts' = restarts + 1
  /\ ex' = [e \in Slots |-> Slot("idle")]
  /\ call' = [n \in Nodes |-> "None"]
  /\ registry' = [cancelled |-> FALSE, registered |-> {}, signalled |-> {}]
  /\ canceller' = [pc |-> "idle", events |-> 0]
  /\ UNCHANGED <<run, effects, executions, task, notice>>

Rest == <<ex, call, executions, registry, canceller, task, restarts>>

\* classify_workflow_run_after_restart, node by node.
Recoverable(n) ==
  IF run.nodes[n] = "Running"
  THEN n \notin TaskNodes \/ task[n] \in {"Absent", "Queued"}
  ELSE run.nodes[n] = "Waiting" =>
         task[n] = "Active" \/ (Settled(task[n]) /\ notice[n].state # "Consumed")

Unsafe(n) == run.nodes[n] = "Running" /\ (n \in TaskNodes => task[n] = "Absent")

ClassifyRun ==
  /\ host \notin {"Up", "Recovering"}
  /\ notice' = [n \in TaskNodes |->
       IF notice[n].state \in {"Loaded", "Stuck"} THEN [state |-> "Pending", events |-> 0]
                                                 ELSE notice[n]]
  /\ IF run.state = "Running" /\ \E n \in Nodes : ~Recoverable(n)
     THEN host' = "RefusedByRun" /\ UNCHANGED run
     ELSE /\ host' = "Recovering"
          /\ IF run.state = "Running" /\ \E n \in Nodes : Unsafe(n)
             THEN run' \in InterruptByRestart(run) ELSE UNCHANGED run
  /\ UNCHANGED <<effects, Rest>>

\* recover_record: the adapter's replay statement matches Asset and Assistant
\* effects only, so a claimed effect of a live Run is a StateConflict.
RecoverEffect(f) ==
  /\ host = "Recovering" /\ effects[f] \in {"Ready", "Claimed"}
  /\ IF Live(run)
     THEN effects[f] = "Claimed" /\ host' = "RefusedByOutbox" /\ UNCHANGED effects
     ELSE effects' = [effects EXCEPT ![f] = "Abandoned"] /\ UNCHANGED host
  /\ UNCHANGED <<run, notice, Rest>>

AcceptCommands ==
  /\ host = "Recovering"
  /\ \A f \in EffectIds : effects[f] # "Claimed" /\ (effects[f] = "Ready" => Live(run))
  /\ host' = "Up"
  /\ UNCHANGED <<run, effects, notice, Rest>>

----------------------------------------------------------------------------
SlotStep(e) ==
  \/ ClaimNext(e) \/ NothingReady(e) \/ LoadRun(e) \/ Drive(e) \/ LaunchBatch(e)
  \/ JoinResult(e) \/ CommitResult(e) \/ BatchDone(e) \/ FinishClaim(e)
Cancelling == CancelLoads \/ CancelCommits \/ CancelSignals
TaskStep(n) == TaskSubmits(n) \/ TaskSettles(n) \/ NotifyLoads(n) \/ NotifyCommits(n)
Startup == ClassifyRun \/ AcceptCommands \/ \E f \in EffectIds : RecoverEffect(f)

Next ==
  \/ \E e \in Slots : SlotStep(e) \/ StepFails(e) \/ BatchFails(e)
  \/ NextBatch
  \/ \E n \in Nodes : CapabilityReturns(n)
  \/ \E n \in TaskNodes : TaskStep(n)
  \/ Cancelling \/ Crash \/ Startup

\* The worker loop runs every slot, calls return (they have a deadline), the
\* Generation Task workers run every task.
Fairness ==
  /\ \A e \in Slots : WF_vars(SlotStep(e))
  /\ WF_vars(NextBatch)
  /\ \A n \in Nodes : WF_vars(CapabilityReturns(n))
  /\ \A n \in TaskNodes : WF_vars(TaskStep(n))
  /\ WF_vars(Startup)

Spec == Init /\ [][Next]_vars
FairSpec == Spec /\ Fairness

----------------------------------------------------------------------------
(* Properties.                                                             *)

RunType == [state : RunStates, nodes : [Nodes -> NodeStates], events : Nat]
SlotType ==
  [pc : {"idle", "load", "drive", "launch", "join", "result", "complete", "release", "done"},
   effect : EffectIds, copy : RunType, batch : SUBSET Nodes, node : SUBSET Nodes]

\* The shape of every variable.
TypeOK ==
  /\ run \in RunType
  /\ effects \in [EffectIds -> {"Absent", "Ready", "Claimed", "Completed", "Abandoned"}]
  /\ ex \in [Slots -> SlotType]
  /\ call \in [Nodes -> {"None", "Calling", "Succeeded", "Failed", "Waiting"}]
  /\ executions \in [Nodes -> Nat]
  /\ registry \in [cancelled : BOOLEAN, registered : SUBSET Nodes, signalled : SUBSET Nodes]
  /\ canceller \in [pc : {"idle", "loaded", "committed"}, events : Nat]
  /\ task \in [TaskNodes -> {"Absent", "Queued", "Active", "Succeeded", "Failed"}]
  /\ notice \in [TaskNodes ->
       [state : {"None", "Pending", "Loaded", "Stuck", "Consumed"}, events : Nat]]
  /\ host \in {"Up", "Down", "Recovering", "RefusedByRun", "RefusedByOutbox"}
  /\ restarts \in Nat

Started == {"Running", "Waiting", "Succeeded", "Failed"}

\* No node starts on an input that does not exist (run_execution/input.rs:89).
UpstreamFirst ==
  \A n \in Nodes : run.nodes[n] \in Started =>
    \A u \in Upstream[n] : run.nodes[u] = "Succeeded"

\* Nobody pays for a node twice: two executors of one Run, a retried effect or
\* a restart never call its capability again (run_execution.rs:150).
ExecutedOnce == \A n \in Nodes : executions[n] <= 1

\* The verdict of a Run is that of its nodes: all succeeded, or some failed
\* and what is Blocked depends on a failed one (transition.rs:206).
VerdictOfNodes ==
  /\ run.state = "Succeeded" => \A n \in Nodes : run.nodes[n] = "Succeeded"
  /\ run.state = "Failed" =>
       /\ \E n \in Nodes : run.nodes[n] = "Failed"
       /\ \A n \in Nodes :
            \/ run.nodes[n] \in {"Succeeded", "Failed"}
            \/ run.nodes[n] = "Blocked"
               /\ \E u \in Nodes : u \in Ancestors[n] /\ run.nodes[u] = "Failed"

\* Terminal states are immutable: late results, completions and executors
\* with an old copy change nothing but the waiting nodes of an interrupted
\* Run (generation_task_completion.rs:171).
TerminalRunIsFinal ==
  [][~Live(run) =>
       /\ run'.state = run.state
       /\ \A n \in Nodes :
            \/ run'.nodes[n] = run.nodes[n]
            \/ run.state = "Interrupted" /\ run.nodes[n] = "Waiting"]_vars

Held(f) == \E e \in Slots : ex[e].effect = f /\ ex[e].pc \notin {"idle", "done"}
Stranded(f) == effects[f] = "Claimed" /\ ~Held(f)
Deciding(e) == ex[e].pc \in {"load", "drive", "launch", "join", "result", "release"}

\* No wake-up is lost: a live Run has an effect to execute, an executor that
\* has not made up its mind, or a node whose task will still report; unless a
\* failed batch has stranded a claim (run_execution.rs:139).
RunIsDriven ==
  host = "Up" /\ Live(run) =>
    \/ \E f \in EffectIds : effects[f] = "Ready" \/ Stranded(f)
    \/ \E e \in Slots : Deciding(e)
    \/ \E n \in TaskNodes : run.nodes[n] = "Waiting" /\ notice[n].state # "Consumed"

\* A node that runs with nobody running it: its result lost the commit race,
\* or was dropped with the batch of a sibling that lost it.
Orphaned(n) == run.nodes[n] = "Running" /\ ~Executing(n)

\* In a process that stays up every Run ends, or one of its nodes is orphaned.
RunEnds ==
  <>[](host = "Up") => <>(~Live(run) \/ \E n \in Nodes : Orphaned(n))

\* The Run and its nodes move only as RunPromise allows.
Promise == INSTANCE RunPromise WITH state <- run.state, nodes <- run.nodes
ImplementsPromise == Promise!Spec

(* What makes the promise inductive.                                       *)

Active == {"launch", "join", "result"}

\* A copy with the Run's event count is the Run.
CopyIsCurrent ==
  \A e \in Slots : ex[e].pc \in {"drive", "result"} =>
    /\ ex[e].copy.events <= run.events
    /\ ex[e].copy.events = run.events => ex[e].copy = run

\* A node is in the batch of one slot, which alone joins its call, and is not
\* Pending any more when its capability is called.
OneOwner ==
  /\ \A e \in Slots :
       /\ ex[e].pc \in Active => host = "Up" /\ run.state \notin {"Queued", "Interrupted"}
       /\ ex[e].pc \notin Active => ex[e].batch = {}
       /\ \A n \in ex[e].batch : run.nodes[n] # "Pending"
       /\ ex[e].pc = "launch" => \A n \in ex[e].batch : executions[n] = 0
       /\ ex[e].pc = "result" =>
            \A n \in ex[e].node : n \in ex[e].batch /\ call[n] \in {"Succeeded", "Failed", "Waiting"}
  /\ \A e, f \in Slots : e # f => ex[e].batch \cap ex[f].batch = {}
  /\ \A n \in Nodes : executions[n] # 0 => executions[n] = 1 /\ run.nodes[n] # "Pending"

\* What the state of the Run says of its nodes.
NodesOfState ==
  /\ run.state = "Queued" => \A n \in Nodes : run.nodes[n] = "Pending"
  /\ run.state \in {"Succeeded", "Failed", "Cancelled"} =>
       \A n \in Nodes : run.nodes[n] \in NodeTerminal
  /\ run.state # "Cancelled" => \A n \in Nodes : run.nodes[n] # "Cancelled"
  /\ \A n \in Nodes : run.nodes[n] = "Blocked" =>
       \E u \in Nodes : u \in Ancestors[n] /\ run.nodes[u] = "Failed"

\* A task that notifies has settled, and a completion whose count is current
\* completes a waiting node.
CompletionIsCurrent ==
  \A n \in TaskNodes :
    /\ notice[n].state # "None" => Settled(task[n])
    /\ notice[n].state = "Loaded" =>
         /\ notice[n].events <= run.events
         /\ notice[n].events = run.events => run.nodes[n] = "Waiting"

Inductive ==
  /\ TypeOK /\ UpstreamFirst /\ VerdictOfNodes
  /\ NodesOfState /\ CopyIsCurrent /\ OneOwner /\ CompletionIsCurrent

(* A statement of the documentation that the code does not keep.           *)

\* BACKEND_APPLICATION.md:387: a Workflow effect is restored to Ready for a Run
\* that is safe to replay.
SafeEffectsAreReplayed == host # "RefusedByOutbox"
=============================================================================
