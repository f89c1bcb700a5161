--------------------------- MODULE GenerationTask ---------------------------
(***************************************************************************)
(* One provider-backed generation: the Generation Task aggregate, its row  *)
(* of the generation_task_outbox, the effect handlers (submit, poll,       *)
(* cancel, notify) that one worker runs between awaits, the provider, the  *)
(* Asset sink and the Workflow node that waits for the result.             *)
(*                                                                         *)
(* A handler loads a copy of the task, reads the clock once, awaits other  *)
(* components and finally saves a changed copy with an optimistic revision *)
(* check.  Each await is a separate action here, so a cancellation, a      *)
(* crash or the clock can slip in between.                                 *)
(***************************************************************************)
EXTENDS Integers

CONSTANTS
  Deadline,        \* provider_deadline_at; the task is created at time 0
  PollInterval,    \* the route policy's poll_interval_milliseconds
  NotifyRetry,     \* the fixed delay of a transiently failed notification
  MaxTime,         \* the clock stands still here (bound)
  MaxRestarts,     \* process crashes in one behaviour (bound)
  ProgressReports, \* what a poll may report as progress; NoProgress is None
  RequestKinds,    \* subset of {"Text", "Media"}
  Routes,          \* subset of {"Immediate", "Remote", "CancellableRemote"}
  TaskCommand,     \* GenerationTaskCancelUseCase is offered to callers
  HandlersMayFail, \* permanent boundary and storage errors abort handlers
  PromptHandoff    \* the executor commits the wait well before the deadline

NoProgress == -1
NoHandle == 0

ASSUME TimeAssumption ==
  /\ Deadline \in Nat /\ PollInterval \in Nat /\ NotifyRetry \in Nat
  /\ MaxTime \in Nat /\ MaxRestarts \in Nat
  /\ Deadline > 0 /\ PollInterval > 0 /\ NotifyRetry > 0
  /\ MaxTime >= Deadline

ASSUME ShapeAssumption ==
  /\ ProgressReports \subseteq (0 .. 100) \cup {NoProgress}
  /\ RequestKinds \subseteq {"Text", "Media"}
  /\ Routes \subseteq {"Immediate", "Remote", "CancellableRemote"}
  /\ TaskCommand \in BOOLEAN
  /\ HandlersMayFail \in BOOLEAN
  /\ PromptHandoff \in BOOLEAN

VARIABLES
  request,   \* immutable request kind and the route resolved for its target
  task,      \* the durable GenerationTaskAggregate
  outbox,    \* its rows of generation_task_outbox that are not Completed
  notified,  \* a NotifyWorkflow row is Completed
  worker,    \* the execution that owns the claimed effect
  node,      \* state of the origin Node Execution
  run,       \* "Running", or "Interrupted" by restart recovery
  asset,     \* content state of the Asset under the node-output key
  provider,  \* calls the provider has received
  now,       \* the task-owned clock
  host,      \* "Up", "Down", or "Refused" by startup recovery
  restarts   \* crashes so far

vars == <<request, task, outbox, notified, worker, node, run, asset,
          provider, now, host, restarts>>

----------------------------------------------------------------------------
(* The aggregate.  An operation returns the set of tasks it may produce:   *)
(* one task, or none when the code returns an error.                       *)

TerminalStates == {"Succeeded", "Failed", "Cancelled"}
States == {"Queued", "Submitting", "Running", "CancelRequested"}
            \cup TerminalStates
Failures == {"None", "Timeout", "Ambiguous", "Provider"}

IsTerminal(t) == t.state \in TerminalStates

\* commit_transition: never back in time, revision + 1.  Handle and progress
\* belong to the state payload, so a new state carries what it is given.
Commit(t, state, handle, progress, failure, at) ==
  IF at < t.updated THEN {}
  ELSE {[state |-> state, handle |-> handle, progress |-> progress,
         failure |-> failure, updated |-> at, revision |-> t.revision + 1]}

Plain(t, state, at) == Commit(t, state, NoHandle, NoProgress, "None", at)

BeginSubmission(t, at) ==
  IF t.state = "Queued" THEN Plain(t, "Submitting", at) ELSE {}

AcceptRemoteSubmission(t, handle, at) ==
  CASE t.state = "Submitting" ->
         Commit(t, "Running", handle, NoProgress, "None", at)
    [] t.state = "CancelRequested" /\ t.handle = NoHandle ->
         Commit(t, "CancelRequested", handle, NoProgress, "None", at)
    [] t.state = "CancelRequested" /\ t.handle = handle -> {t}
    [] OTHER -> {}

RecordProgress(t, progress, at) ==
  IF t.state = "Running" /\ progress >= t.progress
  THEN Commit(t, "Running", t.handle, progress, "None", at) ELSE {}

RequestCancellation(t, at) ==
  CASE t.state = "Queued" -> Plain(t, "Cancelled", at)
    [] t.state \in {"Submitting", "Running"} ->
         Commit(t, "CancelRequested", t.handle, NoProgress, "None", at)
    [] t.state = "CancelRequested" -> {t}
    [] OTHER -> {}

MarkCancelled(t, at) ==
  IF t.state \in {"Running", "CancelRequested"}
  THEN Plain(t, "Cancelled", at) ELSE {}

Complete(t, at) ==
  IF t.state \in {"Submitting", "Running"}
  THEN Plain(t, "Succeeded", at) ELSE {}

Fail(t, failure, at) ==
  IF t.state \in {"Queued", "Submitting", "Running"}
  THEN Commit(t, "Failed", NoHandle, NoProgress, failure, at) ELSE {}

----------------------------------------------------------------------------
(* Effects and the claim.                                                  *)

Kinds == {"SubmitTask", "PollTask", "CancelRemoteTask", "NotifyWorkflow"}
Effect(kind, at) == [kind |-> kind, at |-> at, state |-> "Ready"]

Claimed(e) == [e EXCEPT !.state = "Claimed"]

\* Mutant: startup leaves the claims of the dead process alone.
KeepClaims(rows) == rows
ResetClaims(rows) == {[e EXCEPT !.state = "Ready"] : e \in rows}

NoEffect == [kind |-> "None", at |-> 0, state |-> "Ready"]
NewTask == [state |-> "Queued", handle |-> NoHandle, progress |-> NoProgress,
            failure |-> "None", updated |-> 0, revision |-> 1]

\* base: the revision the next save expects; outcome: what the provider's
\* submit answered; after: where a successful save leads.
IdleWorker == [pc |-> "idle", effect |-> NoEffect, task |-> NewTask, now |-> 0,
               base |-> 1, outcome |-> "None", consume |-> FALSE,
               enqueue |-> {}, after |-> "idle"]

Init ==
  /\ request \in [kind : RequestKinds, route : Routes]
  /\ task = NewTask
  /\ outbox = {Effect("SubmitTask", 0)}
  /\ notified = FALSE
  /\ worker = IdleWorker
  /\ node = "Running" /\ run = "Running"
  /\ asset = "None"
  /\ provider = [creates |-> 0, cancelAsked |-> FALSE, cancelled |-> FALSE]
  /\ now = 0
  /\ host = "Up" /\ restarts = 0

At(pc) == host = "Up" /\ worker.pc = pc
Goto(pc) == worker' = [worker EXCEPT !.pc = pc]
Abandon == worker' = IdleWorker      \* an Err: the effect stays Claimed
Untouched == UNCHANGED <<request, task, outbox, notified, now, host, restarts, run>>

\* The handler hands a save to the repository, or returns the domain error.
Propose(tasks, consume, enqueue, after) ==
  IF tasks = {} THEN Abandon
  ELSE \E t \in tasks :
         worker' = [worker EXCEPT !.pc = "save", !.task = t, !.after = after,
                                  !.consume = consume, !.enqueue = enqueue]

\* Mutant: the terminal task is saved without its notification.
SaveTerminalSilently(tasks) == Propose(tasks, TRUE, {}, "idle")

SaveTerminal(tasks) ==
  Propose(tasks, TRUE, {Effect("NotifyWorkflow", worker.now)}, "idle")

Timeout(t) == IF t.state = "CancelRequested"
              THEN MarkCancelled(t, worker.now)
              ELSE Fail(t, "Timeout", worker.now)

RescheduleBeforeDeadline(at) ==
  IF at < Deadline
  THEN Propose({worker.task}, TRUE, {Effect(worker.effect.kind, at)}, "idle")
  ELSE SaveTerminal(Timeout(worker.task))

NextPoll == worker.now + PollInterval
Reschedule == RescheduleBeforeDeadline(NextPoll)
RetryTimes == (worker.now + 1) .. Deadline

CancelRemotely(tasks) ==
  Propose(tasks, TRUE, {Effect("CancelRemoteTask", worker.now)}, "idle")

----------------------------------------------------------------------------
(* The worker claims one effect and its handler loads the task.            *)

ClaimNext ==
  /\ At("idle")
  /\ \A e \in outbox : e.state = "Ready"
  /\ \E e \in outbox :
       /\ e.at <= now
       /\ \A f \in outbox : e.at <= f.at
       /\ outbox' = (outbox \ {e}) \cup {Claimed(e)}
       /\ worker' = [IdleWorker EXCEPT !.pc = "claimed", !.effect = e]
  /\ UNCHANGED <<request, task, notified, node, run, asset, provider, now, host, restarts>>

LoadTask ==
  /\ At("claimed")
  /\ LET loaded == [worker EXCEPT !.task = task, !.base = task.revision,
                                  !.now = now]
     IN IF worker.effect.kind = "NotifyWorkflow"
        THEN worker' = IF IsTerminal(task) THEN [loaded EXCEPT !.pc = "notify"]
                                           ELSE IdleWorker
        ELSE worker' = [loaded EXCEPT !.pc = "origin"]
  /\ UNCHANGED <<node, asset, provider>> /\ Untouched

----------------------------------------------------------------------------
(* Origin read.  The adapter reports Cancelled, Terminal, Running or       *)
(* Waiting; a repository error is Transient.                               *)

CancelWithoutSubmission(t) ==
  CASE t.state = "Queued" -> RequestCancellation(t, worker.now)
    [] t.state = "Submitting" ->
         UNION {MarkCancelled(u, worker.now) :
                  u \in RequestCancellation(t, worker.now)}
    [] t.state \in {"Running", "CancelRequested"} -> MarkCancelled(t, worker.now)
    [] OTHER -> {t}

\* Mutant: the running remote job is cancelled locally on every route.
CancelLocally(t) ==
  SaveTerminal(UNION {MarkCancelled(u, worker.now) : u \in RequestCancellation(t, worker.now)})

CancelFromOrigin(t) ==
  LET requested == RequestCancellation(t, worker.now)
  IN IF request.route = "CancellableRemote" THEN CancelRemotely(requested)
     ELSE SaveTerminal(UNION {MarkCancelled(u, worker.now) : u \in requested})

OriginOver == node \in {"Cancelled", "Succeeded", "Failed"}

OriginWaiting == node = "Waiting"

ReadOrigin ==
  /\ At("origin")
  /\ \/ Reschedule                \* still Running, or a transient read error
     \/ /\ worker.effect.kind = "CancelRemoteTask" /\ node # "Running"
        /\ Goto("cancel")
     \/ /\ worker.effect.kind # "CancelRemoteTask" /\ OriginWaiting
        /\ Goto("recover")
     \/ /\ worker.effect.kind = "SubmitTask" /\ OriginOver
        /\ SaveTerminal(CancelWithoutSubmission(worker.task))
     \/ /\ worker.effect.kind = "PollTask" /\ OriginOver
        /\ CancelFromOrigin(worker.task)
  /\ UNCHANGED <<node, asset, provider>> /\ Untouched

----------------------------------------------------------------------------
(* Asset recovery by the deterministic node-output key, before any call.   *)

CompleteRecovered(t) ==
  IF worker.effect.kind = "SubmitTask" /\ t.state = "Queued"
  THEN UNION {Complete(u, worker.now) : u \in BeginSubmission(t, worker.now)}
  ELSE Complete(t, worker.now)

\* Mutant: a Submitting task left by a crash is submitted again.
ResubmitAfterCrash ==
  CASE worker.effect.kind = "PollTask" ->
         IF worker.task.handle = NoHandle THEN Abandon ELSE Goto("call")
    [] worker.effect.kind = "SubmitTask" /\ worker.task.state = "Submitting" -> Goto("call")
    [] OTHER -> Propose(BeginSubmission(worker.task, worker.now), FALSE, {}, "call")

SourceRequired ==
  CASE worker.effect.kind = "PollTask" ->
         IF worker.task.handle = NoHandle THEN Abandon ELSE Goto("call")
    [] worker.effect.kind = "SubmitTask" /\ worker.task.state = "Submitting" ->
         SaveTerminal(Fail(worker.task, "Ambiguous", worker.now))
    [] OTHER -> Propose(BeginSubmission(worker.task, worker.now), FALSE, {}, "call")

Recovered == asset = "Available"

RecoverAsset ==
  /\ At("recover")
  /\ \/ /\ request.kind = "Media" /\ Recovered
        /\ SaveTerminal(CompleteRecovered(worker.task))
     \/ request.kind = "Media" /\ Reschedule  \* Pending, or a transient error
     \/ /\ request.kind = "Text" \/ asset \in {"None", "Missing"}
        /\ SourceRequired
  /\ UNCHANGED <<node, asset, provider>> /\ Untouched

----------------------------------------------------------------------------
(* Submit: the create call and what its answer is turned into.             *)

SubmitCall ==
  /\ At("call") /\ worker.effect.kind = "SubmitTask"
  /\ provider' = [provider EXCEPT !.creates = @ + 1]
  /\ Goto("answer")
  /\ UNCHANGED <<node, asset>> /\ Untouched

Answered(outcome) == worker' = [worker EXCEPT !.pc = "apply", !.outcome = outcome]

SubmitAnswer ==
  /\ At("answer")
  /\ \/ \E outcome \in {"Completed", "Rejected", "CallError"} : Answered(outcome)
     \/ request.route # "Immediate" /\ Answered("Accepted")
  /\ UNCHANGED <<node, asset, provider>> /\ Untouched

Accepted == AcceptRemoteSubmission(worker.task, provider.creates, worker.now)

ApplySubmit ==
  /\ At("apply") /\ worker.effect.kind = "SubmitTask"
  /\ \/ /\ worker.outcome = "Accepted" /\ NextPoll < Deadline
        /\ Propose(Accepted, TRUE, {Effect("PollTask", NextPoll)}, "idle")
     \/ /\ worker.outcome = "Accepted" /\ NextPoll >= Deadline
        /\ SaveTerminal(UNION {Fail(t, "Timeout", worker.now) : t \in Accepted})
     \/ /\ worker.outcome = "Rejected"
        /\ SaveTerminal(Fail(worker.task, "Provider", worker.now))
     \/ /\ worker.outcome = "CallError"
        /\ SaveTerminal(Fail(worker.task, "Ambiguous", worker.now))
  /\ UNCHANGED <<node, asset, provider>> /\ Untouched

----------------------------------------------------------------------------
(* Poll: an observation of the accepted handle.                            *)

SavePending(progress) ==
  LET recorded == RecordProgress(worker.task, progress, worker.now)
  IN IF NextPoll >= Deadline
     THEN SaveTerminal(UNION {Fail(t, "Timeout", worker.now) : t \in recorded})
     ELSE Propose(recorded, TRUE, {Effect("PollTask", NextPoll)}, "idle")

PollAnswer ==
  /\ At("call") /\ worker.effect.kind = "PollTask"
  /\ \/ \E progress \in ProgressReports : SavePending(progress)
     \/ Answered("Completed")
     \/ SaveTerminal(Fail(worker.task, "Provider", worker.now))
     \/ \E at \in RetryTimes : RescheduleBeforeDeadline(at)
  /\ UNCHANGED <<node, asset, provider>> /\ Untouched

PollFindsCancelled ==
  /\ At("call") /\ worker.effect.kind = "PollTask"
  /\ provider' = [provider EXCEPT !.cancelled = TRUE]
  /\ SaveTerminal(MarkCancelled(worker.task, worker.now))
  /\ UNCHANGED <<node, asset>> /\ Untouched

\* A completed Text is inline; media is first stored under the output key.
\* The store gives up at the deadline, may leave the Asset Pending behind a
\* transient error, and refuses a Missing Asset for good.
StoreResult ==
  /\ At("apply") /\ worker.outcome = "Completed"
  /\ \/ /\ request.kind = "Text"
        /\ SaveTerminal(Complete(worker.task, worker.now))
        /\ UNCHANGED asset
     \/ /\ request.kind = "Media" /\ worker.now < Deadline /\ asset # "Missing"
        /\ asset' = "Available"
        /\ SaveTerminal(Complete(worker.task, worker.now))
     \/ /\ request.kind = "Media"
        /\ \/ UNCHANGED asset
           \/ worker.now < Deadline /\ asset = "None" /\ asset' = "Pending"
        /\ Reschedule
     \/ /\ request.kind = "Media" /\ worker.now < Deadline
        /\ asset # "Available" /\ asset' = "Missing"
        /\ HandlersMayFail /\ Abandon
  /\ UNCHANGED <<node, provider>> /\ Untouched

----------------------------------------------------------------------------
(* CancelRemoteTask and NotifyWorkflow.                                    *)

CancelRemote ==
  /\ At("cancel")
  /\ IF worker.task.handle = NoHandle \/ request.route # "CancellableRemote"
     THEN Abandon /\ UNCHANGED provider
     ELSE /\ provider' = [provider EXCEPT !.cancelAsked = TRUE]
          /\ \/ SaveTerminal(MarkCancelled(worker.task, worker.now))
             \/ \E at \in RetryTimes : RescheduleBeforeDeadline(at)
  /\ UNCHANGED <<node, asset>> /\ Untouched

SaveNotified == Propose({worker.task}, TRUE, {}, "idle")

NodeOutcome == IF worker.task.state = "Succeeded" THEN "Succeeded" ELSE "Failed"

\* complete_generation_task: Applied, AlreadyApplied or OriginTerminal; a
\* node that is still Running in a live Run is a permanent conflict.
OriginTerminal == OriginOver \/ (node = "Running" /\ run = "Interrupted")

CompleteOrigin ==
  /\ At("notify")
  /\ \/ /\ node = "Waiting"
        /\ node' = NodeOutcome
        /\ SaveNotified
     \/ /\ OriginTerminal
        /\ SaveNotified /\ UNCHANGED node
     \/ /\ node # "Waiting" /\ ~OriginTerminal
        /\ Abandon /\ UNCHANGED node
  /\ UNCHANGED <<asset, provider>> /\ Untouched

NotifyLater ==
  /\ At("notify")
  /\ LET at == now + NotifyRetry
     IN Propose({worker.task}, TRUE,
                {Effect("NotifyWorkflow", IF at > MaxTime THEN MaxTime ELSE at)},
                "idle")
  /\ UNCHANGED <<node, asset, provider>> /\ Untouched

----------------------------------------------------------------------------
(* save_generation_task, and the reconciliation of a submit that lost to a *)
(* concurrent cancellation.                                                *)

CurrentRevision == task.revision = worker.base
ClaimHeld == worker.consume => Claimed(worker.effect) \in outbox

SaveTask ==
  /\ At("save") /\ CurrentRevision /\ ClaimHeld
  /\ task' = worker.task
  /\ outbox' = (IF worker.consume THEN outbox \ {Claimed(worker.effect)} ELSE outbox)
                 \cup worker.enqueue
  /\ notified' = (notified \/ (worker.consume /\ worker.effect.kind = "NotifyWorkflow"))
  /\ worker' = IF worker.after = "idle" THEN IdleWorker
               ELSE [worker EXCEPT !.pc = worker.after, !.base = worker.task.revision]
  /\ UNCHANGED <<request, node, run, asset, provider, now, host, restarts>>

SaveConflict ==
  /\ At("save") /\ ~(CurrentRevision /\ ClaimHeld)
  /\ IF ~CurrentRevision /\ worker.effect.kind = "SubmitTask" /\ worker.outcome # "None"
     THEN Goto("reconcile") ELSE Abandon
  /\ UNCHANGED <<node, asset, provider>> /\ Untouched

ReconcileCancelledSubmit ==
  /\ At("reconcile")
  /\ LET cancelled(t) == IF IsTerminal(t) THEN {t} ELSE MarkCancelled(t, worker.now)
         attached == AcceptRemoteSubmission(task, provider.creates, worker.now)
         fresh == [worker EXCEPT !.base = task.revision, !.outcome = "None",
                                 !.pc = "save", !.consume = TRUE, !.after = "idle"]
         remotely == worker.outcome = "Accepted" /\ request.route = "CancellableRemote"
         found == CASE remotely -> attached
                    [] worker.outcome = "Accepted" /\ ~remotely ->
                         UNION {cancelled(t) : t \in attached}
                    [] OTHER -> cancelled(task)
     IN IF task.state \notin {"CancelRequested", "Cancelled"} \/ found = {}
        THEN Abandon
        ELSE \E t \in found :
               worker' = [fresh EXCEPT !.task = t,
                 !.enqueue = {Effect(IF remotely THEN "CancelRemoteTask"
                                                 ELSE "NotifyWorkflow", worker.now)}]
  /\ UNCHANGED <<node, asset, provider>> /\ Untouched

\* Unresolvable route, permanent boundary error or failed transaction: the
\* worker drops the execution and the effect stays Claimed.
HandlerFails ==
  /\ HandlersMayFail /\ host = "Up" /\ worker.pc # "idle"
  /\ Abandon
  /\ UNCHANGED <<node, asset, provider>> /\ Untouched

----------------------------------------------------------------------------
(* Everybody else.                                                         *)

\* The Workflow executor commits the wait after the capability has returned.
HandOff ==
  /\ host = "Up" /\ node = "Running" /\ run = "Running"
  /\ node' = "Waiting"
  /\ UNCHANGED <<request, task, outbox, notified, worker, run, asset, provider, now, host, restarts>>

CancelRun ==
  /\ host = "Up" /\ node \in {"Running", "Waiting"} /\ run = "Running"
  /\ node' = "Cancelled"
  /\ UNCHANGED <<request, task, outbox, notified, worker, run, asset, provider, now, host, restarts>>

\* GenerationTaskCancelUseCase: the task changes, the outbox does not.
CancelTask ==
  /\ TaskCommand /\ host = "Up"
  /\ \E t \in RequestCancellation(task, now) : task' = t
  /\ UNCHANGED <<request, outbox, notified, worker, node, run, asset, provider, now, host, restarts>>

\* The post-commit worker finalizes the Pending Asset, or finds it Missing.
FinalizeAsset ==
  /\ host = "Up" /\ asset = "Pending"
  /\ asset' \in {"Available", "Missing"}
  /\ UNCHANGED <<request, task, outbox, notified, worker, node, run, provider, now, host, restarts>>

Tick ==
  /\ now < MaxTime
  /\ PromptHandoff /\ node = "Running" /\ run = "Running" => now + 1 + PollInterval < Deadline
  /\ now' = now + 1
  /\ UNCHANGED <<request, task, outbox, notified, worker, node, run, asset, provider, host, restarts>>

Crash ==
  /\ host = "Up" /\ restarts < MaxRestarts
  /\ host' = "Down" /\ restarts' = restarts + 1
  /\ Abandon
  /\ UNCHANGED <<request, task, outbox, notified, node, run, asset, provider, now>>

----------------------------------------------------------------------------
(* Startup recovery: reset the claims, then ask of every node of a live    *)
(* Run whether its task and outbox prove a safe handoff.                   *)

Observation(rows) ==
  LET Only(kind) == \E e \in rows : rows = {e} /\ e.kind = kind /\ e.state = "Ready"
  IN CASE IsTerminal(task) /\ Only("NotifyWorkflow") -> "NotificationPending"
       [] IsTerminal(task) /\ rows = {} /\ notified -> "NotificationCompleted"
       [] task.state = "Queued" /\ Only("SubmitTask") -> "QueuedPreHandoff"
       [] \/ task.state = "Submitting" /\ Only("SubmitTask")
          \/ task.state = "Running" /\ Only("PollTask")
          \/ /\ task.state = "CancelRequested"
             /\ IF task.handle = NoHandle THEN Only("SubmitTask")
                                          ELSE Only("CancelRemoteTask") -> "Active"
       [] OTHER -> "Corrupt"

\* Mutant: a task that has ended is no safe handoff.
SafeWhileActive(observed) ==
  CASE node = "Running" -> observed = "QueuedPreHandoff"
    [] node = "Waiting" -> observed = "Active"
    [] OTHER -> TRUE

SafeAfterRestart(observed) ==
  CASE node = "Running" -> observed = "QueuedPreHandoff"
    [] node = "Waiting" -> observed \in {"Active", "NotificationPending"}
    [] OTHER -> TRUE

\* The Run is interrupted when a node of it outside this model is unsafe.
Startup ==
  /\ host # "Up"
  /\ outbox' = ResetClaims(outbox)
  /\ IF run = "Running" /\ ~SafeAfterRestart(Observation(ResetClaims(outbox)))
     THEN host' = "Refused" /\ UNCHANGED run
     ELSE /\ host' = "Up"
          /\ \/ UNCHANGED run
             \/ node \in {"Running", "Waiting"} /\ run' = "Interrupted"
  /\ UNCHANGED <<request, task, notified, worker, node, asset, provider, now, restarts>>

WorkerStep ==
  \/ ClaimNext \/ LoadTask \/ ReadOrigin \/ RecoverAsset
  \/ SubmitCall \/ SubmitAnswer \/ ApplySubmit
  \/ PollAnswer \/ PollFindsCancelled \/ StoreResult \/ CancelRemote
  \/ CompleteOrigin \/ NotifyLater
  \/ SaveTask \/ SaveConflict \/ ReconcileCancelledSubmit

Next ==
  \/ WorkerStep \/ HandlerFails
  \/ HandOff \/ CancelRun \/ CancelTask \/ FinalizeAsset \/ Tick
  \/ Crash \/ Startup

\* The loops of lib.rs run the worker for as long as the process lives; time
\* passes; the executor commits its batch; the Asset effect is delivered; a
\* completion is not refused transiently forever.
Fairness ==
  /\ WF_vars(WorkerStep) /\ WF_vars(Tick) /\ WF_vars(HandOff)
  /\ WF_vars(FinalizeAsset) /\ WF_vars(Startup) /\ SF_vars(CompleteOrigin)

Spec == Init /\ [][Next]_vars
FairSpec == Spec /\ Fairness

----------------------------------------------------------------------------
(* Properties.                                                             *)

TaskType == [state : States, handle : Nat, progress : (0 .. 100) \cup {NoProgress},
             failure : Failures, updated : Nat, revision : Nat \ {0}]
EffectType == [kind : Kinds, at : Nat, state : {"Ready", "Claimed"}]
WorkerType == [pc : {"idle", "claimed", "origin", "recover", "call", "answer",
                     "apply", "cancel", "notify", "save", "reconcile"},
               effect : EffectType \cup {NoEffect}, task : TaskType, now : Nat,
               base : Nat, consume : BOOLEAN, enqueue : SUBSET EffectType,
               outcome : {"None", "Accepted", "Completed", "Rejected", "CallError"},
               after : {"idle", "call"}]

\* The shape of every variable.
TypeOK ==
  /\ request \in [kind : RequestKinds, route : Routes]
  /\ task \in TaskType
  /\ outbox \in SUBSET EffectType
  /\ notified \in BOOLEAN
  /\ worker \in WorkerType
  /\ node \in {"Running", "Waiting", "Cancelled", "Succeeded", "Failed"}
  /\ run \in {"Running", "Interrupted"}
  /\ asset \in {"None", "Pending", "Available", "Missing"}
  /\ provider \in [creates : Nat, cancelAsked : BOOLEAN, cancelled : BOOLEAN]
  /\ now \in Nat
  /\ restarts \in Nat
  /\ host \in {"Up", "Down", "Refused"}

\* The create call is never repeated, whatever crashes, retries or conflicts
\* come between the call and its recorded outcome (submit_effect.rs:51).
AtMostOneCreate == provider.creates <= 1

\* No provider is called for a node that has not committed its wait: a crash
\* could otherwise orphan paid work (BACKEND_TASK.md, durable execution 4).
NoCreateBeforeHandoff == provider.creates > 0 => node # "Running"

\* What is stored always agrees: whenever the process dies, the task and its
\* outbox rows are a pair that the recovery reader recognises (recovery.rs:58),
\* and a media task has succeeded over an Available Asset.  Only
\* GenerationTaskCancelUseCase, which leaves the outbox alone, breaks the first.
NeverCorrupt ==
  /\ Observation(ResetClaims(outbox)) = "Corrupt" =>
       TaskCommand /\ task.state \in {"CancelRequested", "Cancelled"}
  /\ task.state = "Succeeded" /\ request.kind = "Media" => asset = "Available"

\* Startup refuses a crash state only where the two halves of a handoff are
\* apart: the wait is committed and the submission has not begun, or the task
\* has moved although the wait is not committed (restart_recovery.rs:66).
\* Whatever else was under way, an answer that got lost or a notification that
\* was not delivered, it starts.  The cancel command is the other exception.
OnlyHalfHandoffsRefused ==
  host = "Refused" =>
    \/ node = "Waiting" /\ task.state = "Queued"
    \/ node = "Running" /\ task.state # "Queued"
    \/ TaskCommand /\ task.state \in {"CancelRequested", "Cancelled"}

\* The last notification row is consumed (a retried one leaves a newer row).
Reported == notified /\ outbox = {}

\* The node's outcome is the task's outcome.
NodeTellsTaskOutcome ==
  /\ node = "Succeeded" => task.state = "Succeeded"
  /\ node = "Failed" => task.state \in {"Failed", "Cancelled"}

\* An accepted cancellation is never forgotten or turned into a failure.
CancellationConverges ==
  [][task.state = "CancelRequested" =>
       task'.state \in {"CancelRequested", "Cancelled"}]_vars

\* A terminal task is never rewritten, whoever still holds an older copy.
TerminalIsFinal == [][IsTerminal(task) => task' = task]_vars

\* Accepted work on a cancellable route is not given up silently: before its
\* task is Cancelled the provider was asked to stop, had stopped by itself, or
\* the deadline left no room for another attempt (cancel_effect.rs:39).
CancellableIsAsked ==
  [][request.route = "CancellableRemote" /\ task.handle # NoHandle
       /\ task'.state = "Cancelled" =>
       \/ provider.cancelAsked \/ provider.cancelled
       \/ worker.now + PollInterval >= Deadline]_vars

\* The effect handlers keep the promise of GenerationPromise: one create, one
\* outcome, delivered to the node that waits for it.
Promise == INSTANCE GenerationPromise WITH
  creates <- provider.creates,
  outcome <- IF IsTerminal(task) THEN task.state ELSE "Open"
ImplementsPromise == Promise!Spec

\* In a process that stays up the Workflow node eventually hears of the task.
EventuallyNotified == <>[](host = "Up") => <>Reported

(* What makes the promise inductive.                                       *)

Loaded == {"origin", "recover", "call", "answer", "apply", "cancel", "notify"}
Submitted(pcs) == worker.pc \in pcs /\ worker.effect.kind = "SubmitTask"

\* A handler whose expected revision is still current holds the current task.
CopyIsCurrent ==
  /\ worker.base <= task.revision
  /\ worker.pc \in Loaded /\ worker.base = task.revision => worker.task = task
  /\ worker.pc = "notify" => IsTerminal(task) /\ worker.task = task

\* Nothing was created for a Queued task; what is remembered of a job, and
\* what came out of it, proves that it was created.
Fence ==
  /\ provider.creates \in {0, 1}
  /\ task.state = "Queued" => provider.creates = 0
  /\ \/ asset # "None" \/ worker.outcome # "None" \/ worker.pc \in {"answer", "apply"}
     \/ \E t \in {task, worker.task} : t.handle # NoHandle \/ t.state = "Succeeded"
     => provider.creates = 1
  /\ provider.creates = 1 \/ worker.pc = "recover" => node # "Running"

\* A submit handler on its way to the provider and back.
SubmitInFlight ==
  /\ Submitted({"call", "answer", "apply"}) =>
       task.state \in {"Submitting", "CancelRequested"} /\ worker.task.state = "Submitting"
  /\ Submitted({"call"}) => provider.creates = 0 /\ node # "Running"
  /\ worker.pc = "answer" => worker.effect.kind = "SubmitTask"
  /\ worker.pc = "origin" => worker.effect.kind # "NotifyWorkflow"
  /\ worker.pc \in {"recover", "call"} => worker.effect.kind \in {"SubmitTask", "PollTask"}
  /\ worker.pc = "call" /\ worker.effect.kind = "PollTask" => worker.task.handle # NoHandle

\* A save that passes the revision check never leaves a terminal state and
\* never returns to Queued.
SaveIsLegal ==
  worker.pc = "save" =>
    /\ worker.after = "call" =>
         /\ worker.effect.kind = "SubmitTask" /\ node # "Running"
         /\ worker.task.state = "Submitting"
    /\ worker.base = task.revision =>
         /\ worker.after = "call" => task.state = "Queued"
         /\ worker.task.state = "Queued" => task.state = "Queued"
         /\ IsTerminal(task) => worker.task = task

Inductive ==
  /\ TypeOK /\ (worker.pc # "idle" => worker.effect \in EffectType)
  /\ CopyIsCurrent /\ Fence /\ SubmitInFlight /\ SaveIsLegal
  /\ NodeTellsTaskOutcome
=============================================================================
