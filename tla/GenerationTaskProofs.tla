------------------------ MODULE GenerationTaskProofs ------------------------
(***************************************************************************)
(* Proofs about GenerationTask for every deadline, interval, number of     *)
(* crashes and clock bound.  The main line is: Inductive is an inductive   *)
(* invariant, and under it every step of the effect handlers is a step of  *)
(* GenerationPromise or leaves its variables alone.                        *)
(***************************************************************************)
EXTENDS GenerationTask, TLAPS

USE TimeAssumption, ShapeAssumption

HeldEffect == worker.pc # "idle" => worker.effect \in EffectType
WorkerOK == worker \in WorkerType /\ HeldEffect

----------------------------------------------------------------------------
(* The aggregate: results are tasks, and no operation leaves a terminal    *)
(* state or returns to Queued.                                             *)

\* Every operation of the aggregate yields well-formed tasks.
LEMMA OperationTypes ==
  ASSUME NEW t \in TaskType, NEW at \in Nat
  PROVE  /\ BeginSubmission(t, at) \subseteq TaskType
         /\ \A handle \in Nat : AcceptRemoteSubmission(t, handle, at) \subseteq TaskType
         /\ \A p \in ProgressReports : RecordProgress(t, p, at) \subseteq TaskType
         /\ RequestCancellation(t, at) \subseteq TaskType
         /\ MarkCancelled(t, at) \subseteq TaskType
         /\ Complete(t, at) \subseteq TaskType
         /\ \A f \in Failures : Fail(t, f, at) \subseteq TaskType
<1>1. ASSUME NEW state \in States, NEW handle \in Nat, NEW f \in Failures,
             NEW p \in (0 .. 100) \cup {NoProgress}
      PROVE  Commit(t, state, handle, p, f, at) \subseteq TaskType
  BY DEF Commit, TaskType
<1>2. ASSUME NEW state \in States
      PROVE  Plain(t, state, at) \subseteq TaskType
  BY <1>1 DEF Plain, NoHandle, Failures
<1>3. t.handle \in Nat /\ NoProgress \in (0 .. 100) \cup {NoProgress}
  BY DEF TaskType
<1>4. "None" \in Failures /\ NoHandle \in Nat
  BY DEF Failures, NoHandle
<1>5. /\ BeginSubmission(t, at) \subseteq TaskType
      /\ MarkCancelled(t, at) \subseteq TaskType
      /\ Complete(t, at) \subseteq TaskType
  BY <1>2 DEF BeginSubmission, MarkCancelled, Complete, States, TerminalStates
<1>6. RequestCancellation(t, at) \subseteq TaskType
  BY <1>1, <1>2, <1>3, <1>4 DEF RequestCancellation, States, TerminalStates
<1>7. ASSUME NEW handle \in Nat
      PROVE  AcceptRemoteSubmission(t, handle, at) \subseteq TaskType
  BY <1>1, <1>3, <1>4 DEF AcceptRemoteSubmission, States, TerminalStates
<1>8. ASSUME NEW p \in ProgressReports
      PROVE  RecordProgress(t, p, at) \subseteq TaskType
  BY <1>1, <1>3, <1>4 DEF RecordProgress, States, TerminalStates
<1>9. ASSUME NEW f \in Failures
      PROVE  Fail(t, f, at) \subseteq TaskType
  BY <1>1, <1>3, <1>4 DEF Fail, States, TerminalStates
<1> QED BY <1>5, <1>6, <1>7, <1>8, <1>9

\* What an operation returns for t: never Queued again, never another version of a
\* terminal task, a handle that was known before or is given now.
LEMMA OperationEffects ==
  ASSUME NEW t \in TaskType, NEW at \in Nat, NEW u
  PROVE  /\ u \in BeginSubmission(t, at) =>
              t.state = "Queued" /\ u.state = "Submitting" /\ u.handle = NoHandle
         /\ \A handle \in Nat : u \in AcceptRemoteSubmission(t, handle, at) =>
              /\ t.state \in {"Submitting", "CancelRequested"}
              /\ u.state \in {"Running", "CancelRequested"} /\ u.handle = handle
         /\ \A p \in ProgressReports : u \in RecordProgress(t, p, at) =>
              t.state = "Running" /\ u.state = "Running" /\ u.handle = t.handle
         /\ u \in RequestCancellation(t, at) =>
              /\ ~IsTerminal(t) /\ u.state \in {"CancelRequested", "Cancelled"}
              /\ t.state # "Queued" => u.state = "CancelRequested"
              /\ u.handle \in {NoHandle, t.handle}
              /\ u = t \/ u.revision = t.revision + 1
         /\ u \in MarkCancelled(t, at) =>
              /\ t.state \in {"Running", "CancelRequested"}
              /\ u.state = "Cancelled" /\ u.handle = NoHandle
         /\ u \in Complete(t, at) =>
              /\ t.state \in {"Submitting", "Running"}
              /\ u.state = "Succeeded" /\ u.handle = NoHandle
         /\ \A f \in Failures : u \in Fail(t, f, at) =>
              /\ t.state \in {"Queued", "Submitting", "Running"}
              /\ u.state = "Failed" /\ u.handle = NoHandle
<1> USE DEF Commit, Plain, NoHandle
<1>1. u \in BeginSubmission(t, at) =>
        t.state = "Queued" /\ u.state = "Submitting" /\ u.handle = NoHandle
  BY DEF BeginSubmission
<1>2. ASSUME NEW handle \in Nat, u \in AcceptRemoteSubmission(t, handle, at)
      PROVE  /\ t.state \in {"Submitting", "CancelRequested"}
             /\ u.state \in {"Running", "CancelRequested"} /\ u.handle = handle
  BY <1>2 DEF AcceptRemoteSubmission
<1>3. ASSUME NEW p \in ProgressReports, u \in RecordProgress(t, p, at)
      PROVE  t.state = "Running" /\ u.state = "Running" /\ u.handle = t.handle
  BY <1>3 DEF RecordProgress
<1>4. ASSUME u \in RequestCancellation(t, at)
      PROVE  /\ ~IsTerminal(t) /\ u.state \in {"CancelRequested", "Cancelled"}
             /\ t.state # "Queued" => u.state = "CancelRequested"
             /\ u.handle \in {NoHandle, t.handle}
             /\ u = t \/ u.revision = t.revision + 1
  BY <1>4 DEF RequestCancellation, IsTerminal, TerminalStates
<1>5. u \in MarkCancelled(t, at) =>
        /\ t.state \in {"Running", "CancelRequested"}
        /\ u.state = "Cancelled" /\ u.handle = NoHandle
  BY DEF MarkCancelled
<1>6. u \in Complete(t, at) =>
        /\ t.state \in {"Submitting", "Running"}
        /\ u.state = "Succeeded" /\ u.handle = NoHandle
  BY DEF Complete
<1>7. ASSUME NEW f \in Failures, u \in Fail(t, f, at)
      PROVE  /\ t.state \in {"Queued", "Submitting", "Running"}
             /\ u.state = "Failed" /\ u.handle = NoHandle
  BY <1>7 DEF Fail
<1> QED BY <1>1, <1>2, <1>3, <1>4, <1>5, <1>6, <1>7

----------------------------------------------------------------------------
(* Type correctness.                                                       *)

\* The idle worker is well-formed, so giving up is always type-correct.
LEMMA IdleType == IdleWorker \in WorkerType /\ IdleWorker.pc = "idle"
<1>1. NewTask \in TaskType
  BY DEF NewTask, TaskType, States, TerminalStates, Failures, NoHandle, NoProgress
<1>2. {} \in SUBSET EffectType
  OBVIOUS
<1> QED BY <1>1, <1>2 DEF IdleWorker, WorkerType

\* Giving up keeps the worker well-formed.
LEMMA AbandonType == Abandon => WorkerOK'
BY IdleType DEF Abandon, WorkerOK, HeldEffect

\* A proposed save keeps the worker well-formed.
LEMMA ProposeType ==
  ASSUME WorkerOK, worker.pc # "idle",
         NEW tasks \in SUBSET TaskType, NEW consume \in BOOLEAN,
         NEW enqueue \in SUBSET EffectType, NEW after \in {"idle", "call"},
         Propose(tasks, consume, enqueue, after)
  PROVE  WorkerOK'
<1>1. CASE tasks = {}
  BY <1>1, AbandonType DEF Propose
<1>2. CASE tasks # {}
  <2>1. PICK t \in tasks :
          worker' = [worker EXCEPT !.pc = "save", !.task = t, !.after = after,
                                   !.consume = consume, !.enqueue = enqueue]
    BY <1>2 DEF Propose
  <2>2. worker \in WorkerType /\ worker.effect \in EffectType
    BY DEF WorkerOK, HeldEffect
  <2>3. worker' \in WorkerType
    BY <2>1, <2>2 DEF WorkerType
  <2>4. worker'.effect = worker.effect
    BY <2>1, <2>2 DEF WorkerType
  <2> QED BY <2>2, <2>3, <2>4 DEF WorkerOK, HeldEffect
<1> QED BY <1>1, <1>2

\* Going on to the next await keeps the worker well-formed.
LEMMA GotoType ==
  ASSUME WorkerOK, worker.pc # "idle", NEW pc \in {"recover", "call", "answer", "cancel", "reconcile"},
         Goto(pc)
  PROVE  WorkerOK'
BY DEF Goto, WorkerOK, HeldEffect, WorkerType

\* A fresh outbox row is well-formed.
LEMMA EffectTypes ==
  ASSUME NEW kind \in Kinds, NEW at \in Nat
  PROVE  Effect(kind, at) \in EffectType
BY DEF Effect, EffectType

\* Facts about a worker that is busy.
LEMMA BusyWorker ==
  ASSUME WorkerOK, worker.pc # "idle"
  PROVE  /\ worker.now \in Nat /\ worker.task \in TaskType /\ worker.base \in Nat
         /\ worker.effect \in EffectType /\ worker.effect.kind \in Kinds
         /\ NextPoll \in Nat /\ RetryTimes \subseteq Nat
BY DEF WorkerOK, HeldEffect, WorkerType, EffectType, NextPoll, RetryTimes

\* So does saving a terminal task with its notification.
LEMMA SaveTerminalType ==
  ASSUME WorkerOK, worker.pc # "idle", NEW tasks \in SUBSET TaskType, SaveTerminal(tasks)
  PROVE  WorkerOK'
<1>1. {Effect("NotifyWorkflow", worker.now)} \in SUBSET EffectType
  BY BusyWorker, EffectTypes DEF Kinds
<1> QED BY <1>1, ProposeType DEF SaveTerminal

\* So does a retry, or the timeout that takes its place at the deadline.
LEMMA RescheduleType ==
  ASSUME WorkerOK, worker.pc # "idle", NEW at \in Nat, RescheduleBeforeDeadline(at)
  PROVE  WorkerOK'
<1>1. {Effect(worker.effect.kind, at)} \in SUBSET EffectType
  BY BusyWorker, EffectTypes
<1>2. {worker.task} \in SUBSET TaskType
  BY BusyWorker
<1>3. Timeout(worker.task) \in SUBSET TaskType
  <2>1. "Timeout" \in Failures  BY DEF Failures
  <2> QED BY <2>1, BusyWorker, OperationTypes DEF Timeout
<1>4. CASE at < Deadline
  BY <1>1, <1>2, <1>4, ProposeType DEF RescheduleBeforeDeadline
<1>5. CASE ~(at < Deadline)
  BY <1>3, <1>5, SaveTerminalType DEF RescheduleBeforeDeadline
<1> QED BY <1>4, <1>5

\* The worker's part of type correctness, action by action.
LEMMA WorkerStepType ==
  ASSUME TypeOK, HeldEffect, Next
  PROVE  WorkerOK'
<1> USE DEF At
<1>0. WorkerOK /\ task \in TaskType /\ now \in Nat
  BY DEF TypeOK, WorkerOK
<1>t. ASSUME worker.pc # "idle"
      PROVE  /\ BeginSubmission(worker.task, worker.now) \in SUBSET TaskType
             /\ \A h \in Nat : AcceptRemoteSubmission(worker.task, h, worker.now) \in SUBSET TaskType
             /\ \A p \in ProgressReports : RecordProgress(worker.task, p, worker.now) \in SUBSET TaskType
             /\ RequestCancellation(worker.task, worker.now) \in SUBSET TaskType
             /\ MarkCancelled(worker.task, worker.now) \in SUBSET TaskType
             /\ Complete(worker.task, worker.now) \in SUBSET TaskType
             /\ \A f \in Failures : Fail(worker.task, f, worker.now) \in SUBSET TaskType
  BY <1>0, <1>t, BusyWorker, OperationTypes
<1>f. {"Ambiguous", "Timeout", "Provider"} \subseteq Failures
  BY DEF Failures
<1>1. CASE ClaimNext
  <2>1. PICK e \in outbox : worker' = [IdleWorker EXCEPT !.pc = "claimed", !.effect = e]
    BY <1>1 DEF ClaimNext
  <2>2. e \in EffectType
    BY DEF TypeOK
  <2>3. worker' \in WorkerType /\ worker'.effect = e
    BY <2>1, <2>2, IdleType DEF WorkerType
  <2> QED BY <2>2, <2>3 DEF WorkerOK, HeldEffect
<1>2. CASE LoadTask
  <2>1. CASE worker' = IdleWorker
    BY <2>1, AbandonType DEF Abandon
  <2>2. ASSUME NEW pc \in {"notify", "origin"},
               worker' = [[worker EXCEPT !.task = task, !.base = task.revision, !.now = now]
                            EXCEPT !.pc = pc]
        PROVE  WorkerOK'
    <3>1. worker \in WorkerType /\ worker.effect \in EffectType /\ task.revision \in Nat
      BY <1>0, <1>2 DEF LoadTask, WorkerOK, HeldEffect, TaskType
    <3>2. worker' \in WorkerType /\ worker'.effect = worker.effect
      BY <1>0, <2>2, <3>1 DEF WorkerType
    <3> QED BY <3>1, <3>2 DEF WorkerOK, HeldEffect
  <2> QED BY <1>2, <2>1, <2>2 DEF LoadTask
<1>3. CASE ReadOrigin
  <2>1. worker.pc # "idle"
    BY <1>3 DEF ReadOrigin
  <2>2. CancelWithoutSubmission(worker.task) \in SUBSET TaskType
    <3>1. \A u \in RequestCancellation(worker.task, worker.now) :
             MarkCancelled(u, worker.now) \in SUBSET TaskType
      BY <1>0, <1>t, <2>1, BusyWorker, OperationTypes
    <3>2. worker.task \in TaskType
      BY <1>0, <2>1, BusyWorker
    <3> QED BY <1>t, <2>1, <3>1, <3>2 DEF CancelWithoutSubmission
  <2>3. UNION {MarkCancelled(u, worker.now) : u \in RequestCancellation(worker.task, worker.now)}
          \in SUBSET TaskType
    BY <1>0, <1>t, <2>1, BusyWorker, OperationTypes
  <2>4. CASE Reschedule
    BY <1>0, <2>1, <2>4, RescheduleType, BusyWorker DEF Reschedule
  <2>5. CASE Goto("cancel") \/ Goto("recover")
    BY <1>0, <2>1, <2>5, GotoType
  <2>6. CASE SaveTerminal(CancelWithoutSubmission(worker.task))
    BY <1>0, <2>1, <2>2, <2>6, SaveTerminalType
  <2>7. CASE CancelFromOrigin(worker.task)
    <3>1. {Effect("CancelRemoteTask", worker.now)} \in SUBSET EffectType
      BY <1>0, <2>1, BusyWorker, EffectTypes DEF Kinds
    <3>2. CASE CancelRemotely(RequestCancellation(worker.task, worker.now))
      BY <1>0, <1>t, <2>1, <3>1, <3>2, ProposeType DEF CancelRemotely
    <3> QED BY <1>0, <2>1, <2>3, <2>7, <3>2, SaveTerminalType DEF CancelFromOrigin
  <2> QED BY <1>3, <2>4, <2>5, <2>6, <2>7 DEF ReadOrigin
<1>4. CASE RecoverAsset
  <2>1. worker.pc # "idle"
    BY <1>4 DEF RecoverAsset
  <2>2. CompleteRecovered(worker.task) \in SUBSET TaskType
    <3>1. \A u \in BeginSubmission(worker.task, worker.now) :
             Complete(u, worker.now) \in SUBSET TaskType
      BY <1>0, <1>t, <2>1, BusyWorker, OperationTypes
    <3> QED BY <1>t, <2>1, <3>1 DEF CompleteRecovered
  <2>3. CASE SaveTerminal(CompleteRecovered(worker.task))
    BY <1>0, <2>1, <2>2, <2>3, SaveTerminalType
  <2>4. CASE Reschedule
    BY <1>0, <2>1, <2>4, RescheduleType, BusyWorker DEF Reschedule
  <2>5. CASE SourceRequired
    <3>1. CASE Abandon
      BY <3>1, AbandonType
    <3>2. CASE Goto("call")
      BY <1>0, <2>1, <3>2, GotoType
    <3>3. CASE SaveTerminal(Fail(worker.task, "Ambiguous", worker.now))
      BY <1>0, <1>t, <1>f, <2>1, <3>3, SaveTerminalType
    <3>4. CASE Propose(BeginSubmission(worker.task, worker.now), FALSE, {}, "call")
      BY <1>0, <1>t, <2>1, <3>4, ProposeType
    <3> QED BY <2>5, <3>1, <3>2, <3>3, <3>4 DEF SourceRequired
  <2> QED BY <1>4, <2>3, <2>4, <2>5 DEF RecoverAsset
<1>5. CASE SubmitCall
  BY <1>0, <1>5, GotoType DEF SubmitCall
<1>6. CASE SubmitAnswer
  BY <1>0, <1>6 DEF SubmitAnswer, Answered, WorkerOK, HeldEffect, WorkerType
<1>7. CASE ApplySubmit
  <2>1. worker.pc # "idle"
    BY <1>7 DEF ApplySubmit
  <2>2. Accepted \in SUBSET TaskType
    <3>1. provider.creates \in Nat
      BY DEF TypeOK
    <3> QED BY <1>t, <2>1, <3>1 DEF Accepted
  <2>3. UNION {Fail(t, "Timeout", worker.now) : t \in Accepted} \in SUBSET TaskType
    BY <1>0, <1>f, <2>1, <2>2, BusyWorker, OperationTypes
  <2>4. {Effect("PollTask", NextPoll)} \in SUBSET EffectType
    BY <1>0, <2>1, BusyWorker, EffectTypes DEF Kinds
  <2>5. CASE Propose(Accepted, TRUE, {Effect("PollTask", NextPoll)}, "idle")
    BY <1>0, <2>1, <2>2, <2>4, <2>5, ProposeType
  <2>6. CASE SaveTerminal(UNION {Fail(t, "Timeout", worker.now) : t \in Accepted})
    BY <1>0, <2>1, <2>3, <2>6, SaveTerminalType
  <2>7. CASE \/ SaveTerminal(Fail(worker.task, "Provider", worker.now))
             \/ SaveTerminal(Fail(worker.task, "Ambiguous", worker.now))
    BY <1>0, <1>t, <1>f, <2>1, <2>7, SaveTerminalType
  <2> QED BY <1>7, <2>5, <2>6, <2>7 DEF ApplySubmit
<1>8. CASE PollAnswer \/ PollFindsCancelled
  <2>1. worker.pc # "idle"
    BY <1>8 DEF PollAnswer, PollFindsCancelled
  <2>2. ASSUME NEW p \in ProgressReports, SavePending(p)
        PROVE  WorkerOK'
    <3>1. RecordProgress(worker.task, p, worker.now) \in SUBSET TaskType
      BY <1>t, <2>1
    <3>2. UNION {Fail(t, "Timeout", worker.now) : t \in RecordProgress(worker.task, p, worker.now)}
            \in SUBSET TaskType
      BY <1>0, <1>f, <2>1, <3>1, BusyWorker, OperationTypes
    <3>3. {Effect("PollTask", NextPoll)} \in SUBSET EffectType
      BY <1>0, <2>1, BusyWorker, EffectTypes DEF Kinds
    <3>4. CASE Propose(RecordProgress(worker.task, p, worker.now), TRUE,
                       {Effect("PollTask", NextPoll)}, "idle")
      BY <1>0, <2>1, <3>1, <3>3, <3>4, ProposeType
    <3> QED BY <1>0, <2>1, <2>2, <3>2, <3>4, SaveTerminalType DEF SavePending
  <2>3. CASE Answered("Completed")
    BY <1>0, <2>1, <2>3 DEF Answered, WorkerOK, HeldEffect, WorkerType
  <2>4. CASE \/ SaveTerminal(Fail(worker.task, "Provider", worker.now))
             \/ SaveTerminal(MarkCancelled(worker.task, worker.now))
    BY <1>0, <1>t, <1>f, <2>1, <2>4, SaveTerminalType
  <2>5. ASSUME NEW at \in RetryTimes, RescheduleBeforeDeadline(at)
        PROVE  WorkerOK'
    BY <1>0, <2>1, <2>5, BusyWorker, RescheduleType
  <2> QED BY <1>8, <2>2, <2>3, <2>4, <2>5 DEF PollAnswer, PollFindsCancelled
<1>9. CASE StoreResult
  <2>1. worker.pc # "idle"
    BY <1>9 DEF StoreResult
  <2>2. CASE SaveTerminal(Complete(worker.task, worker.now))
    BY <1>0, <1>t, <2>1, <2>2, SaveTerminalType
  <2>3. CASE Reschedule
    BY <1>0, <2>1, <2>3, RescheduleType, BusyWorker DEF Reschedule
  <2>4. CASE Abandon
    BY <2>4, AbandonType
  <2> QED BY <1>9, <2>2, <2>3, <2>4 DEF StoreResult
<1>10. CASE CancelRemote
  <2>1. worker.pc # "idle"
    BY <1>10 DEF CancelRemote
  <2>2. CASE Abandon
    BY <2>2, AbandonType
  <2>3. CASE SaveTerminal(MarkCancelled(worker.task, worker.now))
    BY <1>0, <1>t, <2>1, <2>3, SaveTerminalType
  <2>4. ASSUME NEW at \in RetryTimes, RescheduleBeforeDeadline(at)
        PROVE  WorkerOK'
    BY <1>0, <2>1, <2>4, BusyWorker, RescheduleType
  <2> QED BY <1>10, <2>2, <2>3, <2>4 DEF CancelRemote
<1>11. CASE CompleteOrigin \/ NotifyLater
  <2>1. worker.pc # "idle"
    BY <1>11 DEF CompleteOrigin, NotifyLater
  <2>2. {worker.task} \in SUBSET TaskType
    BY <1>0, <2>1, BusyWorker
  <2>3. CASE SaveNotified
    BY <1>0, <2>1, <2>2, <2>3, ProposeType DEF SaveNotified
  <2>4. CASE Abandon
    BY <2>4, AbandonType
  <2>5. CASE NotifyLater
    <3> DEFINE at == IF now + NotifyRetry > MaxTime THEN MaxTime ELSE now + NotifyRetry
    <3>1. {Effect("NotifyWorkflow", at)} \in SUBSET EffectType
      BY <1>0, EffectTypes DEF Kinds
    <3> QED BY <1>0, <2>1, <2>2, <2>5, <3>1, ProposeType DEF NotifyLater
  <2> QED BY <1>11, <2>3, <2>4, <2>5 DEF CompleteOrigin
<1>12. CASE SaveTask
  <2>1. CASE worker.after = "idle"
    BY <1>12, <2>1, AbandonType DEF SaveTask, Abandon
  <2>2. CASE worker.after # "idle"
    BY <1>0, <1>12, <2>2 DEF SaveTask, WorkerOK, HeldEffect, WorkerType, TaskType
  <2> QED BY <2>1, <2>2
<1>13. CASE SaveConflict
  BY <1>0, <1>13, GotoType, AbandonType DEF SaveConflict
<1>14. CASE ReconcileCancelledSubmit
  <2>1. worker.pc # "idle"
    BY <1>14 DEF ReconcileCancelledSubmit
  <2>2. CASE Abandon
    BY <2>2, AbandonType
  <2>3. CASE ~Abandon
    <3> DEFINE cancelled(t) == IF IsTerminal(t) THEN {t} ELSE MarkCancelled(t, worker.now)
               attached == AcceptRemoteSubmission(task, provider.creates, worker.now)
    <3>1. \A t \in TaskType : cancelled(t) \in SUBSET TaskType
      BY <1>0, <2>1, BusyWorker, OperationTypes
    <3>2. attached \in SUBSET TaskType
      BY <1>0, <2>1, BusyWorker, OperationTypes DEF TypeOK
    <3>3. UNION {cancelled(t) : t \in attached} \in SUBSET TaskType
      BY <3>1, <3>2
    <3>4. \A kind \in {"CancelRemoteTask", "NotifyWorkflow"} :
             {Effect(kind, worker.now)} \in SUBSET EffectType
      BY <1>0, <2>1, BusyWorker, EffectTypes DEF Kinds
    <3>5. PICK t \in TaskType, kind \in {"CancelRemoteTask", "NotifyWorkflow"} :
             worker' = [worker EXCEPT !.base = task.revision, !.outcome = "None",
                                 !.pc = "save", !.consume = TRUE, !.after = "idle",
                                 !.task = t, !.enqueue = {Effect(kind, worker.now)}]
      <4> HIDE DEF cancelled, attached
      <4> QED BY <1>0, <1>14, <2>3, <3>1, <3>2, <3>3 DEF ReconcileCancelledSubmit, cancelled, attached
    <3> QED BY <1>0, <2>1, <3>4, <3>5 DEF WorkerOK, HeldEffect, WorkerType, TaskType
  <2> QED BY <2>2, <2>3
<1>15. CASE HandlerFails \/ Crash
  BY <1>15, AbandonType DEF HandlerFails, Crash
<1>16. CASE HandOff \/ CancelRun \/ CancelTask \/ FinalizeAsset \/ Tick \/ Startup
  BY <1>0, <1>16 DEF HandOff, CancelRun, CancelTask, FinalizeAsset, Tick, Startup,
                     WorkerOK, HeldEffect
<1> QED BY <1>1, <1>2, <1>3, <1>4, <1>5, <1>6, <1>7, <1>8, <1>9, <1>10, <1>11, <1>12,
           <1>13, <1>14, <1>15, <1>16 DEF Next, WorkerStep

\* The rows of the outbox stay well-formed.
LEMMA OutboxStepType ==
  ASSUME TypeOK, HeldEffect, Next
  PROVE  outbox' \in SUBSET EffectType
<1> USE DEF At
<1>1. CASE ClaimNext
  <2>1. \A e \in EffectType : Claimed(e) \in EffectType
    BY DEF Claimed, EffectType
  <2> QED BY <1>1, <2>1 DEF ClaimNext, TypeOK
<1>2. CASE SaveTask
  BY <1>2 DEF SaveTask, TypeOK, WorkerType
<1>3. CASE Startup
  <2>1. \A e \in EffectType : [e EXCEPT !.state = "Ready"] \in EffectType
    BY DEF EffectType
  <2> QED BY <1>3, <2>1 DEF Startup, ResetClaims, TypeOK
<1>4. CASE UNCHANGED outbox
  BY <1>4 DEF TypeOK
<1>5. CASE \/ LoadTask \/ ReadOrigin \/ RecoverAsset \/ SubmitCall \/ SubmitAnswer
           \/ ApplySubmit \/ PollAnswer \/ PollFindsCancelled \/ StoreResult
           \/ CancelRemote \/ CompleteOrigin \/ NotifyLater \/ SaveConflict
           \/ ReconcileCancelledSubmit \/ HandlerFails
  <2>1. Untouched
    BY <1>5 DEF LoadTask, ReadOrigin, RecoverAsset, SubmitCall, SubmitAnswer, ApplySubmit,
      PollAnswer, PollFindsCancelled, StoreResult, CancelRemote, CompleteOrigin, NotifyLater,
      SaveConflict, ReconcileCancelledSubmit, HandlerFails
  <2> QED BY <1>4, <2>1 DEF Untouched
<1>6. CASE HandOff \/ CancelRun \/ CancelTask \/ FinalizeAsset \/ Tick \/ Crash
  BY <1>4, <1>6 DEF HandOff, CancelRun, CancelTask, FinalizeAsset, Tick, Crash
<1> QED BY <1>1, <1>2, <1>3, <1>5, <1>6 DEF Next, WorkerStep

\* So does everything a step changes beside the worker and the outbox.
LEMMA OtherStepType ==
  ASSUME TypeOK, HeldEffect, Next
  PROVE  /\ request' \in [kind : RequestKinds, route : Routes]
         /\ task' \in TaskType /\ notified' \in BOOLEAN
         /\ node' \in {"Running", "Waiting", "Cancelled", "Succeeded", "Failed"}
         /\ run' \in {"Running", "Interrupted"}
         /\ asset' \in {"None", "Pending", "Available", "Missing"}
         /\ provider' \in [creates : Nat, cancelAsked : BOOLEAN, cancelled : BOOLEAN]
         /\ now' \in Nat /\ restarts' \in Nat /\ host' \in {"Up", "Down", "Refused"}
<1> USE DEF At, TypeOK
<1>1. CASE LoadTask \/ ReadOrigin \/ RecoverAsset \/ SubmitAnswer \/ ApplySubmit
           \/ PollAnswer \/ NotifyLater \/ SaveConflict \/ ReconcileCancelledSubmit
           \/ HandlerFails
  BY <1>1, ZenonT(40) DEF LoadTask, ReadOrigin, RecoverAsset, SubmitAnswer, ApplySubmit, PollAnswer,
    NotifyLater, SaveConflict, ReconcileCancelledSubmit, HandlerFails, Untouched
<1>2. CASE SubmitCall \/ PollFindsCancelled \/ CancelRemote
  <2>0. \/ provider' = [provider EXCEPT !.creates = @ + 1]
        \/ provider' = [provider EXCEPT !.cancelAsked = TRUE]
        \/ provider' = [provider EXCEPT !.cancelled = TRUE]
        \/ provider' = provider
    BY <1>2 DEF SubmitCall, PollFindsCancelled, CancelRemote
  <2>1. provider' \in [creates : Nat, cancelAsked : BOOLEAN, cancelled : BOOLEAN]
    <3> HIDE DEF TypeOK
    <3>1. provider \in [creates : Nat, cancelAsked : BOOLEAN, cancelled : BOOLEAN]
      BY DEF TypeOK
    <3>2. CASE provider' = [provider EXCEPT !.creates = @ + 1]
      BY <3>1, <3>2
    <3>3. CASE provider' = [provider EXCEPT !.cancelAsked = TRUE]
      BY <3>1, <3>3
    <3>4. CASE provider' = [provider EXCEPT !.cancelled = TRUE]
      BY <3>1, <3>4
    <3> QED BY <2>0, <3>1, <3>2, <3>3, <3>4
  <2>2. UNCHANGED <<request, task, notified, node, run, asset, now, restarts, host>>
    BY <1>2 DEF SubmitCall, PollFindsCancelled, CancelRemote, Untouched
  <2> QED BY <2>1, <2>2
<1>3. CASE StoreResult
  BY <1>3 DEF StoreResult, Untouched
<1>4. CASE CompleteOrigin
  BY <1>4 DEF CompleteOrigin, NodeOutcome, Untouched
<1>5. CASE ClaimNext
  BY <1>5 DEF ClaimNext
<1>6. CASE SaveTask
  <2>1. task' \in TaskType
    BY <1>6 DEF SaveTask, WorkerType
  <2>2. notified' = (notified \/ (worker.consume /\ worker.effect.kind = "NotifyWorkflow"))
    BY <1>6 DEF SaveTask
  <2>3. notified' \in BOOLEAN
    BY <2>2, Zenon
  <2> QED BY <1>6, <2>1, <2>3 DEF SaveTask
<1>7. CASE CancelTask
  <2>1. task' \in TaskType
    BY <1>7, OperationTypes DEF CancelTask
  <2> QED BY <1>7, <2>1 DEF CancelTask
<1>8. CASE HandOff \/ CancelRun \/ FinalizeAsset \/ Tick
  BY <1>8 DEF HandOff, CancelRun, FinalizeAsset, Tick
<1>9. CASE Crash \/ Startup
  BY <1>9 DEF Crash, Startup
<1> QED BY <1>1, <1>2, <1>3, <1>4, <1>5, <1>6, <1>7, <1>8, <1>9 DEF Next, WorkerStep

\* The initial state is well-formed, and nothing is claimed in it.
LEMMA TypeInit == Init => TypeOK /\ HeldEffect
<1> SUFFICES ASSUME Init PROVE TypeOK /\ HeldEffect
  OBVIOUS
<1>1. worker \in WorkerType /\ HeldEffect
  BY IdleType DEF Init, HeldEffect
<1>2. task \in TaskType
  BY DEF Init, NewTask, TaskType, States, TerminalStates, Failures, NoHandle, NoProgress
<1>3. outbox \in SUBSET EffectType
  BY EffectTypes DEF Init, Kinds
<1> QED BY <1>1, <1>2, <1>3 DEF Init, TypeOK

\* Every step keeps the state well-formed.
LEMMA TypeStep ==
  ASSUME TypeOK, HeldEffect, [Next]_vars
  PROVE  TypeOK' /\ HeldEffect'
<1>1. CASE Next
  BY <1>1, WorkerStepType, OutboxStepType, OtherStepType DEF TypeOK, WorkerOK
<1>2. CASE UNCHANGED vars
  BY <1>2 DEF vars, TypeOK, HeldEffect
<1> QED BY <1>1, <1>2

\* Every reachable state is well-formed: the task, its outbox rows and whatever a
\* handler holds between two awaits.
THEOREM TypeCorrect == Spec => []TypeOK
<1>1. Init => TypeOK /\ HeldEffect
  BY TypeInit
<1>2. TypeOK /\ HeldEffect /\ [Next]_vars => (TypeOK /\ HeldEffect)'
  BY TypeStep
<1> QED BY <1>1, <1>2, PTL DEF Spec

----------------------------------------------------------------------------
(* The inductive invariant.  Most steps are quiet: they leave the task and *)
(* the number of creates alone and only move the worker.                   *)

Core == CopyIsCurrent /\ Fence /\ SubmitInFlight /\ SaveIsLegal /\ NodeTellsTaskOutcome

Quiet ==
  /\ task' = task /\ provider'.creates = provider.creates
  /\ asset' # "None" => provider.creates = 1
  /\ node' = "Running" => node = "Running"
  /\ NodeTellsTaskOutcome'

\* What a handler may hand to the repository, given the copy it loaded.
Legal(tasks) ==
  \A t \in tasks :
    /\ t.state = "Queued" => worker.task.state = "Queued"
    /\ IsTerminal(worker.task) => t = worker.task
    /\ t.state = "Succeeded" \/ t.handle # NoHandle => provider.creates = 1

\* Who gives up, or never started, breaks nothing.
LEMMA QuietAbandon ==
  ASSUME Inductive, Quiet, Abandon
  PROVE  Core'
<1>1. worker'.pc = "idle" /\ worker'.outcome = "None" /\ worker'.base = 1
  BY DEF Abandon, IdleWorker
<1>2. worker'.task.handle = NoHandle /\ worker'.task.state = "Queued"
  BY DEF Abandon, IdleWorker, NewTask
<1>3. CopyIsCurrent'
  BY <1>1 DEF Inductive, TypeOK, TaskType, Quiet, CopyIsCurrent, Loaded
<1>4. Fence'
  BY <1>1, <1>2 DEF Inductive, Quiet, Fence
<1>5. SubmitInFlight' /\ SaveIsLegal'
  BY <1>1 DEF SubmitInFlight, SaveIsLegal, Submitted
<1> QED BY <1>3, <1>4, <1>5 DEF Core, Quiet

\* A step of somebody else that leaves the worker alone breaks nothing.
LEMMA QuietStutter ==
  ASSUME Inductive, Quiet, UNCHANGED worker
  PROVE  Core'
BY DEF Inductive, Quiet, Core, CopyIsCurrent, Fence, SubmitInFlight, SaveIsLegal,
       Submitted, IsTerminal

\* A legal save may be proposed.
LEMMA QuietPropose ==
  ASSUME Inductive, Quiet, worker.pc \in Loaded, NEW tasks, Legal(tasks),
         NEW consume, NEW enqueue, Propose(tasks, consume, enqueue, "idle")
  PROVE  Core'
<1>1. CASE tasks = {}
  BY <1>1, QuietAbandon DEF Propose
<1>2. CASE tasks # {}
  <2>1. PICK t \in tasks :
          worker' = [worker EXCEPT !.pc = "save", !.task = t, !.after = "idle",
                                   !.consume = consume, !.enqueue = enqueue]
    BY <1>2 DEF Propose
  <2>2. /\ worker'.pc = "save" /\ worker'.task = t /\ worker'.after = "idle"
        /\ worker'.base = worker.base /\ worker'.outcome = worker.outcome
        /\ worker'.effect = worker.effect
    BY <2>1 DEF Inductive, TypeOK, WorkerType
  <2>3. CopyIsCurrent'
    BY <2>2 DEF Inductive, Quiet, CopyIsCurrent, Loaded
  <2>4. Fence'
    BY <2>2 DEF Inductive, Quiet, Fence, Legal
  <2>5. SubmitInFlight'
    BY <2>2 DEF SubmitInFlight, Submitted
  <2>6. SaveIsLegal'
    BY <2>2 DEF Inductive, Quiet, SaveIsLegal, CopyIsCurrent, Legal, IsTerminal
  <2> QED BY <2>3, <2>4, <2>5, <2>6 DEF Core, Quiet
<1> QED BY <1>1, <1>2

\* The copy itself, and the deadline's outcome for it, may always be saved.
LEMMA LegalCopy ==
  ASSUME Inductive, worker.pc \in Loaded
  PROVE  Legal({worker.task}) /\ Legal(Timeout(worker.task))
<1>1. worker.task \in TaskType /\ worker.now \in Nat
  BY DEF Inductive, TypeOK, WorkerType
<1>2. worker.task.state = "Succeeded" \/ worker.task.handle # NoHandle => provider.creates = 1
  BY DEF Inductive, Fence
<1>3. Legal({worker.task})
  BY <1>2 DEF Legal
<1>4. Legal(Timeout(worker.task))
  BY <1>1, OperationEffects DEF Legal, Timeout, Failures, IsTerminal, TerminalStates
<1> QED BY <1>3, <1>4

\* A retry, or its timeout, may be proposed.
LEMMA QuietReschedule ==
  ASSUME Inductive, Quiet, worker.pc \in Loaded, NEW at, RescheduleBeforeDeadline(at)
  PROVE  Core'
BY LegalCopy, QuietPropose DEF RescheduleBeforeDeadline, SaveTerminal

\* The operations the handlers use give legal saves.
LEMMA LegalOperations ==
  ASSUME Inductive, worker.pc \in Loaded
  PROVE  /\ Legal(RequestCancellation(worker.task, worker.now))
         /\ Legal(MarkCancelled(worker.task, worker.now))
         /\ Legal(UNION {MarkCancelled(u, worker.now) :
                           u \in RequestCancellation(worker.task, worker.now)})
         /\ Legal(CancelWithoutSubmission(worker.task))
         /\ \A f \in Failures : Legal(Fail(worker.task, f, worker.now))
         /\ \A p \in ProgressReports :
              /\ Legal(RecordProgress(worker.task, p, worker.now))
              /\ Legal(UNION {Fail(u, "Timeout", worker.now) :
                                u \in RecordProgress(worker.task, p, worker.now)})
         /\ provider.creates = 1 =>
              /\ Legal(Complete(worker.task, worker.now))
              /\ Legal(CompleteRecovered(worker.task))
              /\ Legal(Accepted)
              /\ Legal(UNION {Fail(u, "Timeout", worker.now) : u \in Accepted})
<1>1. worker.task \in TaskType /\ worker.now \in Nat /\ provider.creates \in Nat
  BY DEF Inductive, TypeOK, WorkerType
<1>2. worker.task.state = "Succeeded" \/ worker.task.handle # NoHandle => provider.creates = 1
  BY DEF Inductive, Fence
<1> USE DEF IsTerminal, TerminalStates
<1>3. Legal(RequestCancellation(worker.task, worker.now))
  BY <1>1, <1>2, OperationEffects DEF Legal
<1>4. Legal(MarkCancelled(worker.task, worker.now))
  BY <1>1, OperationEffects DEF Legal
<1>5. Legal(UNION {MarkCancelled(u, worker.now) :
                     u \in RequestCancellation(worker.task, worker.now)})
  <2>1. ASSUME NEW u \in RequestCancellation(worker.task, worker.now),
               NEW v \in MarkCancelled(u, worker.now)
        PROVE  ~IsTerminal(worker.task) /\ v.state = "Cancelled" /\ v.handle = NoHandle
    <3>1. u \in TaskType
      BY <1>1, OperationTypes
    <3>2. ~IsTerminal(worker.task)
      BY <1>1, OperationEffects
    <3>3. v.state = "Cancelled" /\ v.handle = NoHandle
      BY <1>1, <3>1, OperationEffects
    <3> QED BY <3>2, <3>3
  <2> QED BY <2>1 DEF Legal
<1>6. Legal(CancelWithoutSubmission(worker.task))
  <2>1. Legal({worker.task})
    BY LegalCopy
  <2> QED BY <1>3, <1>4, <1>5, <2>1 DEF CancelWithoutSubmission
<1>7. ASSUME NEW f \in Failures
      PROVE  Legal(Fail(worker.task, f, worker.now))
  BY <1>1, OperationEffects DEF Legal
<1>t. "Timeout" \in Failures
  BY DEF Failures
<1>8. ASSUME NEW p \in ProgressReports
      PROVE  /\ Legal(RecordProgress(worker.task, p, worker.now))
             /\ Legal(UNION {Fail(u, "Timeout", worker.now) :
                               u \in RecordProgress(worker.task, p, worker.now)})
  <2>1. Legal(RecordProgress(worker.task, p, worker.now))
    BY <1>1, <1>2, OperationEffects DEF Legal
  <2>2. ASSUME NEW u \in RecordProgress(worker.task, p, worker.now),
               NEW v \in Fail(u, "Timeout", worker.now)
        PROVE  ~IsTerminal(worker.task) /\ v.state = "Failed" /\ v.handle = NoHandle
    <3>1. u \in TaskType
      BY <1>1, OperationTypes
    <3>2. worker.task.state = "Running"
      BY <1>1, OperationEffects
    <3>3. v.state = "Failed" /\ v.handle = NoHandle
      BY <1>1, <1>t, <3>1, OperationEffects
    <3> QED BY <3>2, <3>3
  <2> QED BY <2>1, <2>2 DEF Legal
<1>9. ASSUME provider.creates = 1
      PROVE  /\ Legal(Complete(worker.task, worker.now))
             /\ Legal(CompleteRecovered(worker.task))
  <2>1. Legal(Complete(worker.task, worker.now))
    BY <1>1, <1>9, OperationEffects DEF Legal
  <2>2. ASSUME NEW u \in BeginSubmission(worker.task, worker.now),
               NEW v \in Complete(u, worker.now)
        PROVE  ~IsTerminal(worker.task) /\ v.state = "Succeeded"
    <3>1. u \in TaskType
      BY <1>1, OperationTypes
    <3>2. worker.task.state = "Queued"
      BY <1>1, OperationEffects
    <3>3. v.state = "Succeeded"
      BY <1>1, <3>1, OperationEffects
    <3> QED BY <3>2, <3>3
  <2> QED BY <1>9, <2>1, <2>2 DEF Legal, CompleteRecovered
<1>10. ASSUME provider.creates = 1
       PROVE  /\ Legal(Accepted)
              /\ Legal(UNION {Fail(u, "Timeout", worker.now) : u \in Accepted})
  <2>1. Legal(Accepted)
    BY <1>1, <1>10, OperationEffects, SMTT(40) DEF Legal, Accepted
  <2>2. ASSUME NEW u \in Accepted, NEW v \in Fail(u, "Timeout", worker.now)
        PROVE  ~IsTerminal(worker.task) /\ v.state = "Failed" /\ v.handle = NoHandle
    <3>1. u \in TaskType
      BY <1>1, OperationTypes DEF Accepted
    <3>2. worker.task.state \in {"Submitting", "CancelRequested"}
      BY <1>1, OperationEffects DEF Accepted
    <3>3. v.state = "Failed" /\ v.handle = NoHandle
      BY <1>1, <1>t, <3>1, OperationEffects
    <3> QED BY <3>2, <3>3
  <2> QED BY <2>1, <2>2 DEF Legal
<1> QED BY <1>3, <1>4, <1>5, <1>6, <1>7, <1>8, <1>9, <1>10

\* A handler that awaits and leaves everything else alone is quiet.
LEMMA HandlerIsQuiet ==
  ASSUME Inductive, Untouched, UNCHANGED <<node, asset>>, provider'.creates = provider.creates
  PROVE  Quiet
BY DEF Inductive, Untouched, Quiet, Fence, NodeTellsTaskOutcome

\* The handler steps before the provider is called.
LEMMA PreparingSteps ==
  ASSUME Inductive, ClaimNext \/ LoadTask \/ ReadOrigin \/ RecoverAsset
  PROVE  Core'
<1> USE DEF At
<1>1. CASE ClaimNext
  <2>1. Quiet
    BY <1>1 DEF ClaimNext, Inductive, Quiet, Fence, NodeTellsTaskOutcome
  <2>2. PICK e \in outbox : worker' = [IdleWorker EXCEPT !.pc = "claimed", !.effect = e]
    BY <1>1 DEF ClaimNext
  <2>3. /\ worker'.pc = "claimed" /\ worker'.outcome = "None" /\ worker'.base = 1
        /\ worker'.task.handle = NoHandle /\ worker'.task.state = "Queued"
    BY <2>2 DEF IdleWorker, NewTask
  <2>4. CopyIsCurrent'
    BY <2>1, <2>3 DEF Inductive, TypeOK, TaskType, Quiet, CopyIsCurrent, Loaded
  <2>5. Fence'
    BY <2>1, <2>3 DEF Inductive, Quiet, Fence
  <2>6. SubmitInFlight' /\ SaveIsLegal'
    BY <2>3 DEF SubmitInFlight, SaveIsLegal, Submitted
  <2> QED BY <2>1, <2>4, <2>5, <2>6 DEF Core, Quiet
<1>2. CASE LoadTask
  <2>1. Quiet
    BY <1>2, HandlerIsQuiet DEF LoadTask
  <2>2. CASE worker' = IdleWorker
    BY <2>1, <2>2, QuietAbandon DEF Abandon
  <2>3. ASSUME NEW pc \in {"notify", "origin"},
               pc = "notify" => IsTerminal(task),
               pc = "origin" => worker.effect.kind # "NotifyWorkflow",
               worker' = [[worker EXCEPT !.task = task, !.base = task.revision, !.now = now]
                            EXCEPT !.pc = pc]
        PROVE  Core'
    <3>1. /\ worker'.pc = pc /\ worker'.task = task /\ worker'.base = task.revision
          /\ worker'.outcome = worker.outcome /\ worker'.effect = worker.effect
      BY <2>3 DEF Inductive, TypeOK, WorkerType
    <3>2. CopyIsCurrent'
      BY <2>1, <2>3, <3>1 DEF Inductive, TypeOK, TaskType, Quiet, CopyIsCurrent, IsTerminal
    <3>3. Fence'
      BY <2>1, <3>1 DEF Inductive, Quiet, Fence
    <3>4. SubmitInFlight' /\ SaveIsLegal'
      BY <2>3, <3>1 DEF SubmitInFlight, SaveIsLegal, Submitted
    <3> QED BY <2>1, <3>2, <3>3, <3>4 DEF Core, Quiet
  <2> QED BY <1>2, <2>2, <2>3 DEF LoadTask
<1>3. CASE ReadOrigin
  <2>1. Quiet /\ worker.pc = "origin" /\ worker.pc \in Loaded
    BY <1>3, HandlerIsQuiet DEF ReadOrigin, Loaded
  <2>2. CASE Reschedule
    BY <2>1, <2>2, QuietReschedule DEF Reschedule
  <2>3. CASE /\ \/ Goto("cancel")
                \/ Goto("recover") /\ worker.effect.kind # "CancelRemoteTask" /\ node # "Running"
    <3>1. /\ worker'.pc \in {"cancel", "recover"} /\ worker'.task = worker.task
          /\ worker'.base = worker.base /\ worker'.outcome = worker.outcome
          /\ worker'.effect = worker.effect
          /\ worker'.pc = "recover" => node' # "Running" /\ worker.effect.kind # "CancelRemoteTask"
      BY <1>3, <2>1, <2>3 DEF Goto, Inductive, TypeOK, WorkerType, ReadOrigin
    <3>2. worker.effect.kind \in Kinds \ {"NotifyWorkflow"}
      BY <2>1 DEF Inductive, SubmitInFlight, EffectType
    <3>3. CopyIsCurrent'
      BY <2>1, <3>1 DEF Inductive, Quiet, CopyIsCurrent, Loaded
    <3>4. Fence'
      BY <2>1, <3>1 DEF Inductive, Quiet, Fence
    <3>5. SubmitInFlight' /\ SaveIsLegal'
      BY <3>1, <3>2 DEF SubmitInFlight, SaveIsLegal, Submitted, Kinds
    <3> QED BY <2>1, <3>3, <3>4, <3>5 DEF Core, Quiet
  <2>4. CASE SaveTerminal(CancelWithoutSubmission(worker.task))
    BY <2>1, <2>4, LegalOperations, QuietPropose DEF SaveTerminal
  <2>5. CASE CancelFromOrigin(worker.task)
    BY <2>1, <2>5, LegalOperations, QuietPropose DEF CancelFromOrigin, SaveTerminal, CancelRemotely
  <2> QED BY <1>3, <2>2, <2>3, <2>4, <2>5 DEF ReadOrigin, OriginWaiting
<1>4. CASE RecoverAsset
  <2>1. Quiet /\ worker.pc = "recover" /\ worker.pc \in Loaded /\ node # "Running"
    BY <1>4, HandlerIsQuiet DEF RecoverAsset, Loaded, Inductive, Fence
  <2>2. CASE Recovered /\ SaveTerminal(CompleteRecovered(worker.task))
    <3>1. provider.creates = 1
      BY <2>2 DEF Recovered, Inductive, Fence
    <3> QED BY <2>1, <2>2, <3>1, LegalOperations, QuietPropose DEF SaveTerminal
  <2>3. CASE Reschedule
    BY <2>1, <2>3, QuietReschedule DEF Reschedule
  <2>4. CASE Abandon
    BY <2>1, <2>4, QuietAbandon
  <2>5. CASE worker.effect.kind = "PollTask" /\ worker.task.handle # NoHandle /\ Goto("call")
    <3>1. /\ worker'.pc = "call" /\ worker'.task = worker.task
          /\ worker'.base = worker.base /\ worker'.outcome = worker.outcome
          /\ worker'.effect = worker.effect
      BY <2>5 DEF Goto, Inductive, TypeOK, WorkerType
    <3>2. CopyIsCurrent'
      BY <2>1, <3>1 DEF Inductive, Quiet, CopyIsCurrent, Loaded
    <3>3. Fence'
      BY <2>1, <3>1 DEF Inductive, Quiet, Fence
    <3>4. SubmitInFlight' /\ SaveIsLegal'
      BY <2>5, <3>1 DEF SubmitInFlight, SaveIsLegal, Submitted
    <3> QED BY <2>1, <3>2, <3>3, <3>4 DEF Core, Quiet
  <2>6. CASE SaveTerminal(Fail(worker.task, "Ambiguous", worker.now))
    <3>1. "Ambiguous" \in Failures  BY DEF Failures
    <3> QED BY <2>1, <2>6, <3>1, LegalOperations, QuietPropose DEF SaveTerminal
  <2>7. CASE /\ worker.effect.kind = "SubmitTask"
             /\ Propose(BeginSubmission(worker.task, worker.now), FALSE, {}, "call")
    <3>1. CASE BeginSubmission(worker.task, worker.now) = {}
      BY <2>1, <2>7, <3>1, QuietAbandon DEF Propose
    <3>2. CASE BeginSubmission(worker.task, worker.now) # {}
      <4>1. PICK t \in BeginSubmission(worker.task, worker.now) :
              worker' = [worker EXCEPT !.pc = "save", !.task = t, !.after = "call",
                                       !.consume = FALSE, !.enqueue = {}]
        BY <2>7, <3>2 DEF Propose
      <4>2. /\ worker'.pc = "save" /\ worker'.task = t /\ worker'.after = "call"
            /\ worker'.base = worker.base /\ worker'.outcome = worker.outcome
            /\ worker'.effect = worker.effect
        BY <4>1 DEF Inductive, TypeOK, WorkerType
      <4>3. worker.task.state = "Queued" /\ t.state = "Submitting" /\ t.handle = NoHandle
        BY OperationEffects DEF Inductive, TypeOK, WorkerType
      <4>4. CopyIsCurrent'
        BY <2>1, <4>2 DEF Inductive, Quiet, CopyIsCurrent, Loaded
      <4>5. Fence'
        BY <2>1, <4>2, <4>3 DEF Inductive, Quiet, Fence
      <4>6. SubmitInFlight'
        BY <4>2 DEF SubmitInFlight, Submitted
      <4>7. node' # "Running"
        BY <2>1 DEF Quiet
      <4>8. SaveIsLegal'
        BY <2>1, <2>7, <4>2, <4>3, <4>7 DEF Inductive, Quiet, SaveIsLegal, CopyIsCurrent,
          IsTerminal, TerminalStates
      <4> QED BY <2>1, <4>4, <4>5, <4>6, <4>8 DEF Core, Quiet
    <3> QED BY <3>1, <3>2
  <2>8. worker.effect.kind \in {"SubmitTask", "PollTask"}
    BY <2>1 DEF Inductive, SubmitInFlight
  <2> QED BY <1>4, <2>2, <2>3, <2>4, <2>5, <2>6, <2>7, <2>8 DEF RecoverAsset, SourceRequired
<1> QED BY <1>1, <1>2, <1>3, <1>4

\* The create call and the way back from the provider.
LEMMA ProviderSteps ==
  ASSUME Inductive,
         SubmitCall \/ SubmitAnswer \/ ApplySubmit \/ PollAnswer \/ PollFindsCancelled \/ StoreResult
  PROVE  Core'
<1> USE DEF At
<1>f. {"Ambiguous", "Timeout", "Provider"} \subseteq Failures
  BY DEF Failures
<1>1. CASE SubmitCall
  <2>1. provider.creates = 0 /\ node # "Running" /\ worker.task.state = "Submitting"
        /\ task.state \in {"Submitting", "CancelRequested"}
    BY <1>1 DEF SubmitCall, Inductive, SubmitInFlight, Submitted
  <2>2. provider'.creates = 1 /\ task' = task /\ node' = node /\ asset' = asset
    BY <1>1, <2>1 DEF SubmitCall, Untouched, Inductive, TypeOK
  <2>3. /\ worker'.pc = "answer" /\ worker'.task = worker.task
        /\ worker'.base = worker.base /\ worker'.effect = worker.effect
        /\ worker'.effect.kind = "SubmitTask"
    BY <1>1 DEF SubmitCall, Goto, Inductive, TypeOK, WorkerType
  <2>4. CopyIsCurrent'
    BY <1>1, <2>2, <2>3 DEF SubmitCall, Inductive, CopyIsCurrent, Loaded
  <2>5. Fence'
    BY <2>1, <2>2, <2>3 DEF Fence
  <2>6. SubmitInFlight' /\ SaveIsLegal'
    BY <2>1, <2>2, <2>3 DEF SubmitInFlight, SaveIsLegal, Submitted
  <2>7. NodeTellsTaskOutcome'
    BY <2>2 DEF Inductive, NodeTellsTaskOutcome
  <2> QED BY <2>4, <2>5, <2>6, <2>7 DEF Core
<1>2. CASE SubmitAnswer \/ (PollAnswer /\ Answered("Completed"))
  <2>1. Quiet /\ worker.pc \in {"answer", "call"} /\ (worker.pc = "call" => worker.effect.kind = "PollTask")
    BY <1>2, HandlerIsQuiet DEF SubmitAnswer, PollAnswer
  <2>2. provider.creates = 1
    BY <2>1 DEF Inductive, Fence, SubmitInFlight
  <2>3. PICK outcome : Answered(outcome)
    BY <1>2 DEF SubmitAnswer
  <2>4. /\ worker'.pc = "apply" /\ worker'.task = worker.task
        /\ worker'.base = worker.base /\ worker'.effect = worker.effect
    BY <2>3 DEF Answered, Inductive, TypeOK, WorkerType
  <2>5. CopyIsCurrent'
    BY <2>1, <2>4 DEF Inductive, Quiet, CopyIsCurrent, Loaded
  <2>6. Fence'
    BY <2>1, <2>2, <2>4 DEF Inductive, Quiet, Fence
  <2>7. SubmitInFlight' /\ SaveIsLegal'
    BY <2>1, <2>4 DEF Inductive, Quiet, SubmitInFlight, SaveIsLegal, Submitted
  <2> QED BY <2>1, <2>5, <2>6, <2>7 DEF Core, Quiet
<1>3. CASE ApplySubmit
  <2>1. Quiet /\ worker.pc \in Loaded /\ provider.creates = 1
    BY <1>3, HandlerIsQuiet DEF ApplySubmit, Loaded, Inductive, Fence
  <2>2. \/ Propose(Accepted, TRUE, {Effect("PollTask", NextPoll)}, "idle")
        \/ SaveTerminal(UNION {Fail(t, "Timeout", worker.now) : t \in Accepted})
        \/ SaveTerminal(Fail(worker.task, "Provider", worker.now))
        \/ SaveTerminal(Fail(worker.task, "Ambiguous", worker.now))
    BY <1>3 DEF ApplySubmit
  <2> QED BY <1>f, <2>1, <2>2, LegalOperations, QuietPropose DEF SaveTerminal
<1>4. CASE PollAnswer /\ ~Answered("Completed")
  <2>1. Quiet /\ worker.pc \in Loaded
    BY <1>4, HandlerIsQuiet DEF PollAnswer, Loaded
  <2>2. CASE \E p \in ProgressReports : SavePending(p)
    BY <2>1, <2>2, LegalOperations, QuietPropose DEF SavePending, SaveTerminal
  <2>3. CASE SaveTerminal(Fail(worker.task, "Provider", worker.now))
    BY <1>f, <2>1, <2>3, LegalOperations, QuietPropose DEF SaveTerminal
  <2>4. CASE \E at \in RetryTimes : RescheduleBeforeDeadline(at)
    BY <2>1, <2>4, QuietReschedule
  <2> QED BY <1>4, <2>2, <2>3, <2>4 DEF PollAnswer
<1>5. CASE PollFindsCancelled
  <2>1. provider'.creates = provider.creates
    BY <1>5 DEF PollFindsCancelled, Inductive, TypeOK
  <2>2. Quiet /\ worker.pc \in Loaded
    BY <1>5, <2>1, HandlerIsQuiet DEF PollFindsCancelled, Loaded
  <2> QED BY <1>5, <2>2, LegalOperations, QuietPropose DEF PollFindsCancelled, SaveTerminal
<1>6. CASE StoreResult
  <2>1. provider.creates = 1 /\ worker.pc \in Loaded
    BY <1>6 DEF StoreResult, Inductive, Fence, Loaded
  <2>2. Quiet
    BY <1>6, <2>1 DEF StoreResult, Untouched, Inductive, Quiet, NodeTellsTaskOutcome
  <2>3. \/ SaveTerminal(Complete(worker.task, worker.now)) \/ Reschedule \/ Abandon
    BY <1>6 DEF StoreResult
  <2> QED BY <2>1, <2>2, <2>3, LegalOperations, QuietPropose, QuietReschedule, QuietAbandon
      DEF SaveTerminal, Reschedule
<1> QED BY <1>1, <1>2, <1>3, <1>4, <1>5, <1>6

\* Cancellation of the remote job and delivery of the notification.
LEMMA DeliverySteps ==
  ASSUME Inductive, CancelRemote \/ CompleteOrigin \/ NotifyLater
  PROVE  Core'
<1> USE DEF At
<1>1. CASE CancelRemote
  <2>1. provider'.creates = provider.creates
    BY <1>1 DEF CancelRemote, Inductive, TypeOK
  <2>2. Quiet /\ worker.pc \in Loaded
    BY <1>1, <2>1, HandlerIsQuiet DEF CancelRemote, Loaded
  <2>3. \/ Abandon \/ SaveTerminal(MarkCancelled(worker.task, worker.now))
        \/ \E at \in RetryTimes : RescheduleBeforeDeadline(at)
    BY <1>1 DEF CancelRemote
  <2> QED BY <2>2, <2>3, LegalOperations, QuietPropose, QuietReschedule, QuietAbandon
      DEF SaveTerminal
<1>2. CASE CompleteOrigin
  <2>1. worker.pc \in Loaded /\ IsTerminal(task) /\ worker.task = task
    BY <1>2 DEF CompleteOrigin, Loaded, Inductive, CopyIsCurrent
  <2>2. node' = node \/ node' = NodeOutcome
    BY <1>2 DEF CompleteOrigin
  <2>3. NodeTellsTaskOutcome'
    BY <1>2, <2>1, <2>2 DEF CompleteOrigin, Untouched, NodeOutcome, Inductive,
      NodeTellsTaskOutcome, IsTerminal, TerminalStates
  <2>4. Quiet
    BY <1>2, <2>2, <2>3 DEF CompleteOrigin, Untouched, Quiet, Inductive, Fence, NodeOutcome
  <2> QED BY <1>2, <2>1, <2>4, LegalCopy, QuietPropose, QuietAbandon DEF CompleteOrigin, SaveNotified
<1>3. CASE NotifyLater
  <2>1. Quiet /\ worker.pc \in Loaded
    BY <1>3, HandlerIsQuiet DEF NotifyLater, Loaded
  <2> QED BY <1>3, <2>1, LegalCopy, QuietPropose DEF NotifyLater
<1> QED BY <1>1, <1>2, <1>3

\* The save itself, a refused save, and the reconciliation of a refused submit.
LEMMA SaveSteps ==
  ASSUME Inductive, SaveTask \/ SaveConflict \/ ReconcileCancelledSubmit
  PROVE  Core'
<1> USE DEF At
<1>1. CASE SaveTask
  <2>1. /\ worker.pc = "save" /\ task.revision = worker.base /\ task' = worker.task
        /\ provider' = provider /\ asset' = asset /\ node' = node
    BY <1>1 DEF SaveTask, CurrentRevision
  <2>2. /\ worker.after = "call" => /\ worker.effect.kind = "SubmitTask" /\ node # "Running"
                                    /\ worker.task.state = "Submitting" /\ task.state = "Queued"
        /\ worker.task.state = "Queued" => task.state = "Queued"
        /\ IsTerminal(task) => worker.task = task
    BY <2>1 DEF Inductive, SaveIsLegal
  <2>3. task' \in TaskType
    BY <2>1 DEF Inductive, TypeOK, WorkerType
  <2>4. NodeTellsTaskOutcome'
    BY <2>1, <2>2 DEF Inductive, NodeTellsTaskOutcome, IsTerminal, TerminalStates
  <2>5. CASE worker.after = "idle"
    <3>1. /\ worker'.pc = "idle" /\ worker'.outcome = "None" /\ worker'.base = 1
          /\ worker'.task.handle = NoHandle /\ worker'.task.state = "Queued"
      BY <1>1, <2>5 DEF SaveTask, IdleWorker, NewTask
    <3>2. CopyIsCurrent'
      BY <2>3, <3>1 DEF CopyIsCurrent, Loaded, TaskType
    <3>3. Fence'
      BY <2>1, <2>2, <3>1 DEF Inductive, Fence
    <3>4. SubmitInFlight' /\ SaveIsLegal'
      BY <3>1 DEF SubmitInFlight, SaveIsLegal, Submitted
    <3> QED BY <2>4, <3>2, <3>3, <3>4 DEF Core
  <2>6. CASE worker.after # "idle"
    <3>1. worker.after = "call"
      BY <2>6 DEF Inductive, TypeOK, WorkerType
    <3>2. /\ worker'.pc = "call" /\ worker'.task = worker.task
          /\ worker'.base = worker.task.revision /\ worker'.outcome = worker.outcome
          /\ worker'.effect = worker.effect
      BY <1>1, <3>1 DEF SaveTask, Inductive, TypeOK, WorkerType
    <3>3. CopyIsCurrent'
      BY <2>1, <2>3, <3>2 DEF CopyIsCurrent, Loaded, TaskType
    <3>4. Fence'
      BY <2>1, <2>2, <3>1, <3>2 DEF Inductive, Fence
    <3>5. provider'.creates = 0
      BY <2>1, <2>2, <3>1 DEF Inductive, Fence
    <3>6. SubmitInFlight' /\ SaveIsLegal'
      BY <2>1, <2>2, <3>1, <3>2, <3>5 DEF SubmitInFlight, SaveIsLegal, Submitted
    <3> QED BY <2>4, <3>3, <3>4, <3>6 DEF Core
  <2> QED BY <2>5, <2>6
<1>2. CASE SaveConflict
  <2>1. Quiet
    BY <1>2, HandlerIsQuiet DEF SaveConflict
  <2>2. CASE Goto("reconcile")
    <3>1. /\ worker'.pc = "reconcile" /\ worker'.task = worker.task
          /\ worker'.base = worker.base /\ worker'.outcome = worker.outcome
          /\ worker'.effect = worker.effect
      BY <2>2 DEF Goto, Inductive, TypeOK, WorkerType
    <3>2. CopyIsCurrent'
      BY <2>1, <3>1 DEF Inductive, Quiet, CopyIsCurrent, Loaded
    <3>3. Fence'
      BY <2>1, <3>1 DEF Inductive, Quiet, Fence
    <3>4. SubmitInFlight' /\ SaveIsLegal'
      BY <3>1 DEF SubmitInFlight, SaveIsLegal, Submitted
    <3> QED BY <2>1, <3>2, <3>3, <3>4 DEF Core, Quiet
  <2> QED BY <1>2, <2>1, <2>2, QuietAbandon DEF SaveConflict
<1>3. CASE ReconcileCancelledSubmit
  <2>1. Quiet
    BY <1>3, HandlerIsQuiet DEF ReconcileCancelledSubmit
  <2>2. CASE ~Abandon
    <3> DEFINE cancelled(t) == IF IsTerminal(t) THEN {t} ELSE MarkCancelled(t, worker.now)
               attached == AcceptRemoteSubmission(task, provider.creates, worker.now)
    <3>0. /\ task \in TaskType /\ worker.now \in Nat /\ provider.creates \in Nat
          /\ task.state = "Succeeded" \/ task.handle # NoHandle => provider.creates = 1
      BY DEF Inductive, TypeOK, WorkerType, Fence
    <3>1. \A t \in attached : /\ t \in TaskType /\ ~IsTerminal(task)
                              /\ t.state \in {"Running", "CancelRequested"}
                              /\ t.handle = provider.creates
      BY <3>0, OperationTypes, OperationEffects, SMTT(40) DEF IsTerminal, TerminalStates
    <3>2. \A t \in TaskType : \A u \in cancelled(t) :
             \/ IsTerminal(t) /\ u = t
             \/ ~IsTerminal(t) /\ u.state = "Cancelled" /\ u.handle = NoHandle
      BY <3>0, OperationEffects
    <3>3. /\ task.state \in {"CancelRequested", "Cancelled"}
          /\ \E t \in attached \cup cancelled(task)
                       \cup UNION {cancelled(u) : u \in attached},
                enqueue \in {{Effect("CancelRemoteTask", worker.now)},
                             {Effect("NotifyWorkflow", worker.now)}} :
             worker' = [worker EXCEPT !.base = task.revision, !.outcome = "None",
                                 !.pc = "save", !.consume = TRUE, !.after = "idle",
                                 !.task = t, !.enqueue = enqueue]
      <4> HIDE DEF cancelled, attached
      <4> QED BY <1>3, <2>2 DEF ReconcileCancelledSubmit, cancelled, attached
    <3>4. PICK t \in attached \cup cancelled(task) \cup UNION {cancelled(u) : u \in attached},
               enqueue \in {{Effect("CancelRemoteTask", worker.now)},
                            {Effect("NotifyWorkflow", worker.now)}} :
             worker' = [worker EXCEPT !.base = task.revision, !.outcome = "None",
                                 !.pc = "save", !.consume = TRUE, !.after = "idle",
                                 !.task = t, !.enqueue = enqueue]
      BY <3>3
    <3>5. /\ t.state # "Queued" /\ (IsTerminal(task) => t = task)
          /\ t.state = "Succeeded" \/ t.handle # NoHandle => provider.creates = 1
      <4>1. CASE t \in attached
        <5>1. provider.creates # NoHandle => provider.creates = 1
          BY DEF Inductive, Fence, NoHandle
        <5> QED BY <3>1, <4>1, <5>1
      <4>2. CASE t \in cancelled(task)
        BY <3>0, <3>2, <3>3, <4>2
      <4>3. ASSUME NEW u \in attached, t \in cancelled(u)
            PROVE  <3>5!1 /\ <3>5!2
        <5>1. ~IsTerminal(u) /\ ~IsTerminal(task)
          BY <3>1 DEF IsTerminal, TerminalStates
        <5>2. t.state = "Cancelled" /\ t.handle = NoHandle
          BY <3>1, <3>2, <4>3, <5>1
        <5> QED BY <5>1, <5>2
      <4> QED BY <3>4, <4>1, <4>2, <4>3
    <3>6. /\ worker'.pc = "save" /\ worker'.task = t /\ worker'.after = "idle"
          /\ worker'.base = task.revision /\ worker'.outcome = "None"
      BY <3>4 DEF Inductive, TypeOK, WorkerType
    <3>7. CopyIsCurrent'
      BY <2>1, <3>0, <3>6 DEF Quiet, CopyIsCurrent, Loaded, TaskType
    <3>8. Fence'
      BY <2>1, <3>5, <3>6 DEF Inductive, Quiet, Fence
    <3>9. SubmitInFlight' /\ SaveIsLegal'
      BY <2>1, <3>5, <3>6 DEF Quiet, SubmitInFlight, SaveIsLegal, Submitted, IsTerminal
    <3> QED BY <2>1, <3>7, <3>8, <3>9 DEF Core, Quiet
  <2> QED BY <2>1, <2>2, QuietAbandon
<1> QED BY <1>1, <1>2, <1>3

\* Everybody else: only the cancel command touches the task.
LEMMA OtherSteps ==
  ASSUME Inductive,
         \/ HandlerFails \/ HandOff \/ CancelRun \/ CancelTask \/ FinalizeAsset \/ Tick
         \/ Crash \/ Startup
  PROVE  Core'
<1>1. CASE HandlerFails
  BY <1>1, HandlerIsQuiet, QuietAbandon DEF HandlerFails
<1>2. CASE Crash
  <2>1. Quiet
    BY <1>2 DEF Crash, Quiet, Inductive, Fence, NodeTellsTaskOutcome
  <2> QED BY <1>2, <2>1, QuietAbandon DEF Crash
<1>3. CASE HandOff \/ CancelRun \/ FinalizeAsset \/ Tick \/ Startup
  <2>1. Quiet /\ UNCHANGED worker
    BY <1>3 DEF HandOff, CancelRun, FinalizeAsset, Tick, Startup, Quiet, Inductive, Fence,
      NodeTellsTaskOutcome
  <2> QED BY <2>1, QuietStutter
<1>4. CASE CancelTask
  <2>1. /\ task' \in RequestCancellation(task, now) /\ task \in TaskType /\ now \in Nat
        /\ UNCHANGED <<worker, node, asset, provider>>
    BY <1>4 DEF CancelTask, Inductive, TypeOK
  <2>2. /\ ~IsTerminal(task) /\ task'.state \in {"CancelRequested", "Cancelled"}
        /\ task.state # "Queued" => task'.state = "CancelRequested"
        /\ task'.handle \in {NoHandle, task.handle}
        /\ task' = task \/ task'.revision = task.revision + 1
    BY <2>1, OperationEffects
  <2>3. task.revision \in Nat /\ worker.base \in Nat /\ worker.base <= task.revision
    BY DEF Inductive, TypeOK, TaskType, WorkerType, CopyIsCurrent
  <2>4. CopyIsCurrent'
    BY <2>1, <2>2, <2>3 DEF Inductive, CopyIsCurrent
  <2>5. Fence'
    BY <2>1, <2>2 DEF Inductive, Fence
  <2>6. SubmitInFlight'
    BY <2>1, <2>2 DEF Inductive, SubmitInFlight, Submitted
  <2>7. SaveIsLegal'
    <3>1. CASE task' = task
      BY <2>1, <3>1 DEF Inductive, SaveIsLegal, IsTerminal
    <3>2. CASE task'.revision = task.revision + 1
      BY <2>1, <2>3, <3>2 DEF Inductive, SaveIsLegal
    <3> QED BY <2>2, <3>1, <3>2
  <2>8. NodeTellsTaskOutcome'
    BY <2>1, <2>2 DEF Inductive, NodeTellsTaskOutcome, IsTerminal, TerminalStates
  <2> QED BY <2>4, <2>5, <2>6, <2>7, <2>8 DEF Core
<1> QED BY <1>1, <1>2, <1>3, <1>4

\* The strengthened invariant holds initially ...
LEMMA InductiveInit == Init => Inductive
<1> SUFFICES ASSUME Init PROVE Inductive
  OBVIOUS
<1>1. TypeOK /\ HeldEffect
  BY TypeInit
<1>2. CopyIsCurrent /\ SubmitInFlight /\ SaveIsLegal
  BY DEF Init, IdleWorker, NewTask, CopyIsCurrent, SubmitInFlight, SaveIsLegal, Submitted, Loaded
<1>3. Fence
  BY DEF Init, IdleWorker, NewTask, Fence, NoHandle
<1>4. NodeTellsTaskOutcome
  BY DEF Init, NodeTellsTaskOutcome
<1> QED BY <1>1, <1>2, <1>3, <1>4 DEF Inductive, HeldEffect

\* ... is kept by every step, one lemma per group of actions ...
LEMMA InductiveStep ==
  ASSUME Inductive, [Next]_vars
  PROVE  Inductive'
<1>1. TypeOK' /\ HeldEffect'
  BY TypeStep DEF Inductive, HeldEffect
<1>2. Core'
  <2>1. CASE Next
    BY <2>1, PreparingSteps, ProviderSteps, DeliverySteps, SaveSteps, OtherSteps
       DEF Next, WorkerStep
  <2>2. CASE UNCHANGED vars
    <3>1. Quiet /\ UNCHANGED worker
      BY <2>2 DEF vars, Quiet, Inductive, Fence, NodeTellsTaskOutcome
    <3> QED BY <3>1, QuietStutter
  <2> QED BY <2>1, <2>2
<1> QED BY <1>1, <1>2 DEF Inductive, Core, HeldEffect

\* ... and so always holds.
LEMMA InductiveInvariant == Spec => []Inductive
<1>1. Inductive /\ [Next]_vars => Inductive'
  BY InductiveStep
<1> QED BY <1>1, InductiveInit, PTL DEF Spec

----------------------------------------------------------------------------
(* The results.                                                            *)

\* Whatever crashes, conflicts or retries happen, the provider's create call is
\* made once at most for a task (submit_effect.rs:68-75).
THEOREM CreatesAtMostOnce == Spec => []AtMostOneCreate
<1>1. Inductive => AtMostOneCreate
  BY DEF Inductive, Fence, AtMostOneCreate
<1> QED BY <1>1, InductiveInvariant, PTL

\* The provider is not called before the Run has committed the node's wait
\* (submit_effect.rs:227-248).
THEOREM HandoffFirst == Spec => []NoCreateBeforeHandoff
<1>1. Inductive => NoCreateBeforeHandoff
  BY DEF Inductive, Fence, NoCreateBeforeHandoff
<1> QED BY <1>1, InductiveInvariant, PTL

\* A node that the notification ended carries its task's outcome.
THEOREM OutcomeIsTold == Spec => []NodeTellsTaskOutcome
<1>1. Inductive => NodeTellsTaskOutcome
  BY DEF Inductive
<1> QED BY <1>1, InductiveInvariant, PTL

\* Only saves and the cancel command change the task.
LEMMA TaskFrame ==
  ASSUME Inductive, Next, task' # task
  PROVE  SaveTask \/ CancelTask
<1>1. CASE \/ LoadTask \/ ReadOrigin \/ RecoverAsset \/ SubmitCall \/ SubmitAnswer
           \/ ApplySubmit \/ PollAnswer \/ PollFindsCancelled \/ StoreResult
           \/ CancelRemote \/ CompleteOrigin \/ NotifyLater \/ SaveConflict
           \/ ReconcileCancelledSubmit \/ HandlerFails
  BY <1>1 DEF LoadTask, ReadOrigin, RecoverAsset, SubmitCall, SubmitAnswer, ApplySubmit,
    PollAnswer, PollFindsCancelled, StoreResult, CancelRemote, CompleteOrigin, NotifyLater,
    SaveConflict, ReconcileCancelledSubmit, HandlerFails, Untouched
<1>2. CASE \/ ClaimNext \/ HandOff \/ CancelRun \/ FinalizeAsset \/ Tick \/ Crash \/ Startup
  BY <1>2 DEF ClaimNext, HandOff, CancelRun, FinalizeAsset, Tick, Crash, Startup
<1> QED BY <1>1, <1>2 DEF Next, WorkerStep

\* No step changes a terminal task: a save that still may would write the same task.
LEMMA TerminalStep ==
  ASSUME Inductive, [Next]_vars, IsTerminal(task)
  PROVE  task' = task
<1>1. CASE SaveTask
  BY <1>1 DEF SaveTask, At, CurrentRevision, Inductive, SaveIsLegal
<1>2. CASE CancelTask
  BY <1>2, OperationEffects DEF CancelTask, Inductive, TypeOK
<1> QED BY <1>1, <1>2, TaskFrame DEF vars

\* The first terminal commit wins: nobody who still holds an older copy of a
\* terminal task can overwrite it (repository.rs:105-145).
THEOREM TerminalForever == Spec => TerminalIsFinal
<1>1. Inductive /\ [Next]_vars => [IsTerminal(task) => task' = task]_vars
  BY TerminalStep
<1> QED BY <1>1, InductiveInvariant, PTL DEF Spec, TerminalIsFinal

\* Every step of the component is a step of the promise or changes none of
\* its variables.
LEMMA PromiseStep ==
  ASSUME Inductive, [Next]_vars
  PROVE  [Promise!Next]_(Promise!pvars)
<1> USE DEF At
<1>t. provider.creates \in {0, 1} /\ node \in {"Running", "Waiting", "Cancelled", "Succeeded", "Failed"}
  BY DEF Inductive, Fence, TypeOK
<1>q. ASSUME task' = task, provider'.creates = provider.creates, node' = node
      PROVE  UNCHANGED Promise!pvars
  BY <1>q DEF Promise!pvars, IsTerminal
<1>1. CASE SubmitCall
  <2>1. provider.creates = 0 /\ node # "Running" /\ task.state \in {"Submitting", "CancelRequested"}
    BY <1>1 DEF SubmitCall, Inductive, SubmitInFlight, Submitted
  <2>2. provider'.creates = 1 /\ task' = task /\ node' = node
    BY <1>1, <2>1 DEF SubmitCall, Untouched, Inductive, TypeOK
  <2>3. Promise!Create
    BY <2>1, <2>2 DEF Promise!Create, IsTerminal, TerminalStates
  <2> QED BY <2>3 DEF Promise!Next
<1>2. CASE SaveTask
  <2>1. provider' = provider /\ node' = node /\ task' = worker.task
    BY <1>2 DEF SaveTask
  <2>2. CASE IsTerminal(task)
    BY <1>q, <2>1, <2>2, TerminalStep
  <2>3. CASE ~IsTerminal(task) /\ ~IsTerminal(worker.task)
    BY <2>1, <2>3 DEF Promise!pvars, IsTerminal
  <2>4. CASE ~IsTerminal(task) /\ IsTerminal(worker.task)
    <3>1. worker.task.state = "Succeeded" => provider.creates = 1
      BY DEF Inductive, Fence
    <3>2. Promise!Settle
      BY <2>1, <2>4, <3>1 DEF Promise!Settle, IsTerminal, TerminalStates
    <3> QED BY <3>2 DEF Promise!Next
  <2> QED BY <2>2, <2>3, <2>4
<1>3. CASE CompleteOrigin
  <2>1. IsTerminal(task) /\ worker.task = task /\ task' = task /\ provider' = provider
    BY <1>3 DEF CompleteOrigin, Untouched, Inductive, CopyIsCurrent
  <2>2. CASE node = "Waiting" /\ node' = NodeOutcome
    <3>1. Promise!Deliver
      BY <2>1, <2>2 DEF Promise!Deliver, NodeOutcome, IsTerminal, TerminalStates
    <3> QED BY <3>1 DEF Promise!Next
  <2> QED BY <1>3, <1>q, <2>1, <2>2 DEF CompleteOrigin
<1>4. CASE HandOff
  <2>1. Promise!Wait
    BY <1>4 DEF HandOff, Promise!Wait, IsTerminal
  <2> QED BY <2>1 DEF Promise!Next
<1>5. CASE CancelRun
  <2>1. Promise!CancelNode
    BY <1>5 DEF CancelRun, Promise!CancelNode, IsTerminal
  <2> QED BY <2>1 DEF Promise!Next
<1>6. CASE CancelTask
  <2>1. /\ task' \in RequestCancellation(task, now) /\ task \in TaskType /\ now \in Nat
        /\ UNCHANGED <<node, provider>>
    BY <1>6 DEF CancelTask, Inductive, TypeOK
  <2>2. ~IsTerminal(task) /\ task'.state \in {"CancelRequested", "Cancelled"}
    BY <2>1, OperationEffects
  <2>3. CASE task'.state = "CancelRequested"
    BY <2>1, <2>2, <2>3 DEF Promise!pvars, IsTerminal, TerminalStates
  <2>4. CASE task'.state = "Cancelled"
    <3>1. Promise!Settle
      BY <2>1, <2>2, <2>4 DEF Promise!Settle, IsTerminal, TerminalStates
    <3> QED BY <3>1 DEF Promise!Next
  <2> QED BY <2>2, <2>3, <2>4
<1>7. CASE PollFindsCancelled \/ CancelRemote
  <2>1. provider'.creates = provider.creates
    BY <1>7 DEF PollFindsCancelled, CancelRemote, Inductive, TypeOK
  <2> QED BY <1>7, <1>q, <2>1 DEF PollFindsCancelled, CancelRemote, Untouched
<1>8. CASE \/ LoadTask \/ ReadOrigin \/ RecoverAsset \/ SubmitAnswer \/ ApplySubmit
           \/ PollAnswer \/ StoreResult \/ NotifyLater \/ SaveConflict
           \/ ReconcileCancelledSubmit \/ HandlerFails
  BY <1>8, <1>q DEF LoadTask, ReadOrigin, RecoverAsset, SubmitAnswer, ApplySubmit,
    PollAnswer, StoreResult, NotifyLater, SaveConflict, ReconcileCancelledSubmit,
    HandlerFails, Untouched
<1>9. CASE ClaimNext \/ FinalizeAsset \/ Tick \/ Crash \/ Startup
  BY <1>9, <1>q DEF ClaimNext, FinalizeAsset, Tick, Crash, Startup
<1>10. CASE UNCHANGED vars
  BY <1>10, <1>q DEF vars
<1> QED BY <1>1, <1>2, <1>3, <1>4, <1>5, <1>6, <1>7, <1>8, <1>9, <1>10 DEF Next, WorkerStep

\* The component implements GenerationPromise: seen through the create count,
\* the final outcome and the node, every behaviour of the handlers under crashes
\* and cancellation is one of the promise.
THEOREM PromiseKept == Spec => ImplementsPromise
<1>1. Init => Promise!Init
  BY DEF Init, NewTask, Promise!Init, IsTerminal, TerminalStates
<1>2. Inductive /\ [Next]_vars => [Promise!Next]_(Promise!pvars)
  BY PromiseStep
<1> QED BY <1>1, <1>2, InductiveInvariant, PTL DEF Spec, ImplementsPromise, Promise!Spec

----------------------------------------------------------------------------
(* The task and its outbox rows.  As long as nobody used the cancel        *)
(* command, the stored task has exactly the row that takes it on, and a    *)
(* busy worker holds both; a step keeps this because it either leaves them *)
(* aside, or proposes a task together with the row that fits it.           *)

\* The one effect that takes a task on.
NextEffect(t) ==
  CASE IsTerminal(t) -> "NotifyWorkflow"
    [] t.state \in {"Queued", "Submitting"} -> "SubmitTask"
    [] t.state = "Running" -> "PollTask"
    [] t.state = "CancelRequested" ->
         IF t.handle = NoHandle THEN "SubmitTask" ELSE "CancelRemoteTask"

\* What is stored of a task and its rows; told: its notification was consumed.
Agree(t, rows, told) ==
  /\ \/ \E e \in rows : rows = {e} /\ e.kind = NextEffect(t)
     \/ IsTerminal(t) /\ rows = {} /\ told
  /\ t.state = "Running" => t.handle # NoHandle
  /\ t.handle # NoHandle => t.state \in {"Running", "CancelRequested"}

\* GenerationTaskCancelUseCase may have left the outbox behind the task.
Excused == TaskCommand /\ task.state \in {"CancelRequested", "Cancelled"}

Told == notified \/ (worker.consume /\ worker.effect.kind = "NotifyWorkflow")

RowsAgree ==
  /\ Agree(task, outbox, notified)
  /\ worker.pc # "idle" => outbox = {Claimed(worker.effect)}
  /\ worker.pc \notin {"idle", "claimed"} => worker.base = task.revision
  /\ worker.pc # "reconcile"
  /\ worker.pc = "save" =>
       /\ worker.consume => Agree(worker.task, worker.enqueue, Told)
       /\ ~worker.consume => Agree(worker.task, outbox, notified) /\ worker.enqueue = {}
       /\ worker.after = "call" <=> ~worker.consume

\* A cancellation in a current copy is not lost; a cancellable job was asked to stop.
SaveConverges ==
  worker.pc = "save" /\ worker.base = task.revision =>
    /\ task.state = "CancelRequested" => worker.task.state \in {"CancelRequested", "Cancelled"}
    /\ ~TaskCommand /\ request.route = "CancellableRemote" /\ task.handle # NoHandle
         /\ worker.task.state = "Cancelled" =>
       provider.cancelAsked \/ provider.cancelled \/ NextPoll >= Deadline

MediaIsThere ==
  \A t \in {task, worker.task} :
    t.state = "Succeeded" /\ request.kind = "Media" => asset = "Available"

Stored ==
  /\ Excused \/ RowsAgree
  /\ SaveConverges /\ MediaIsThere
  /\ host # "Up" => worker.pc = "idle"

Stopping == provider'.cancelAsked \/ provider'.cancelled \/ NextPoll >= Deadline
Notice == {Effect("NotifyWorkflow", worker.now)}

\* What a handler that holds its claim may save with the row it enqueues.
Fits(t, rows) ==
  /\ ~Excused => Agree(t, rows, notified \/ worker.effect.kind = "NotifyWorkflow")
  /\ worker.base = task.revision =>
       /\ task.state = "CancelRequested" => t.state \in {"CancelRequested", "Cancelled"}
       /\ ~TaskCommand /\ request.route = "CancellableRemote" /\ task.handle # NoHandle
            /\ t.state = "Cancelled" => Stopping
  /\ t.state = "Succeeded" /\ request.kind = "Media" => asset' = "Available"

\* A step that leaves alone what is stored of the task.
Aside ==
  /\ UNCHANGED <<request, task, outbox, notified, host>>
  /\ asset = "Available" => asset' = "Available"
  /\ provider.cancelAsked => provider'.cancelAsked
  /\ provider.cancelled => provider'.cancelled

\* What else the operations say of a task that is being cancelled or carries a handle.
LEMMA OperationDetails ==
  ASSUME NEW t \in TaskType, NEW at \in Nat, NEW u
  PROVE  /\ \A handle \in Nat : u \in AcceptRemoteSubmission(t, handle, at) =>
              u.state = IF t.state = "Submitting" THEN "Running" ELSE "CancelRequested"
         /\ u \in RequestCancellation(t, at) =>
              /\ t.state = "CancelRequested" => u = t
              /\ t.state \in {"Submitting", "Running"} => u.handle = t.handle
              /\ t.state = "Queued" => u.handle = NoHandle /\ u.state = "Cancelled"
<1> USE DEF Commit, Plain
<1>1. ASSUME NEW handle \in Nat, u \in AcceptRemoteSubmission(t, handle, at)
      PROVE  u.state = IF t.state = "Submitting" THEN "Running" ELSE "CancelRequested"
  BY <1>1 DEF AcceptRemoteSubmission
<1>2. ASSUME u \in RequestCancellation(t, at)
      PROVE  /\ t.state = "CancelRequested" => u = t
             /\ t.state \in {"Submitting", "Running"} => u.handle = t.handle
             /\ t.state = "Queued" => u.handle = NoHandle /\ u.state = "Cancelled"
  BY <1>2 DEF RequestCancellation
<1> QED BY <1>1, <1>2

\* One row of the right kind proves a task.
LEMMA OneRowAgrees ==
  ASSUME NEW t, NEW at, NEW told, NEW kind, kind = NextEffect(t),
         t.state = "Running" => t.handle # NoHandle,
         t.handle # NoHandle => t.state \in {"Running", "CancelRequested"}
  PROVE  Agree(t, {Effect(kind, at)}, told)
BY DEF Agree, Effect

\* A handler that holds the current copy holds the task's next effect.
LEMMA Held ==
  ASSUME Inductive, Stored, worker.pc \in Loaded
  PROVE  /\ worker.base = task.revision => worker.task = task
         /\ ~Excused => /\ worker.base = task.revision /\ worker.task = task
                        /\ worker.effect.kind = NextEffect(task)
                        /\ task.state = "Running" => task.handle # NoHandle
                        /\ task.handle # NoHandle => task.state \in {"Running", "CancelRequested"}
<1>1. worker.base = task.revision => worker.task = task
  BY DEF Inductive, CopyIsCurrent
<1>2. ASSUME ~Excused
      PROVE  /\ worker.base = task.revision /\ outbox = {Claimed(worker.effect)}
             /\ Agree(task, outbox, notified)
  BY <1>2 DEF Stored, RowsAgree, Loaded
<1>3. Claimed(worker.effect).kind = worker.effect.kind
  <2>1. worker.effect \in EffectType
    BY DEF Inductive, Loaded
  <2> QED BY <2>1 DEF Claimed, EffectType
<1>4. ASSUME ~Excused PROVE worker.effect.kind = NextEffect(task)
  BY <1>2, <1>3, <1>4 DEF Agree
<1> QED BY <1>1, <1>2, <1>4 DEF Agree

\* Giving up leaves what is stored as it was.
LEMMA StoredAbandon ==
  ASSUME Inductive, Stored, Aside, Abandon
  PROVE  Stored'
<1>1. worker'.pc = "idle" /\ worker'.task.state = "Queued"
  BY DEF Abandon, IdleWorker, NewTask
<1>2. Excused' <=> Excused
  BY DEF Aside, Excused
<1>3. ASSUME RowsAgree PROVE RowsAgree'
  BY <1>1, <1>3 DEF RowsAgree, Aside
<1>4. SaveConverges'
  BY <1>1 DEF SaveConverges
<1>5. MediaIsThere'
  BY <1>1 DEF Stored, MediaIsThere, Aside
<1> QED BY <1>1, <1>2, <1>3, <1>4, <1>5 DEF Stored

\* So does going on to the next await.
LEMMA StoredGoto ==
  ASSUME Inductive, Stored, Aside, host = "Up", worker.pc \in Loaded, worker'.pc \in Loaded,
         worker'.task = worker.task, worker'.base = worker.base, worker'.effect = worker.effect
  PROVE  Stored'
<1>1. Excused' <=> Excused
  BY DEF Aside, Excused
<1>2. ASSUME RowsAgree PROVE RowsAgree'
  BY <1>2 DEF RowsAgree, Aside, Loaded
<1>3. SaveConverges'
  BY DEF SaveConverges, Loaded
<1>4. MediaIsThere'
  BY DEF Stored, MediaIsThere, Aside
<1>5. host' = "Up"
  BY DEF Aside
<1> QED BY <1>1, <1>2, <1>3, <1>4, <1>5 DEF Stored

\* A save that fits may be proposed.
LEMMA StoredPropose ==
  ASSUME Inductive, Stored, Aside, host = "Up", worker.pc \in Loaded, NEW tasks,
         NEW rows, \A t \in tasks : Fits(t, rows), Propose(tasks, TRUE, rows, "idle")
  PROVE  Stored'
<1>1. CASE tasks = {}
  BY <1>1, StoredAbandon DEF Propose
<1>2. CASE tasks # {}
  <2>1. PICK t \in tasks :
          worker' = [worker EXCEPT !.pc = "save", !.task = t, !.after = "idle",
                                   !.consume = TRUE, !.enqueue = rows]
    BY <1>2 DEF Propose
  <2>2. /\ worker'.pc = "save" /\ worker'.task = t /\ worker'.after = "idle"
        /\ worker'.base = worker.base /\ worker'.effect = worker.effect
        /\ worker'.now = worker.now /\ worker'.consume = TRUE /\ worker'.enqueue = rows
    BY <2>1 DEF Inductive, TypeOK, WorkerType
  <2>3. Fits(t, rows)
    BY <2>1
  <2>4. Excused' <=> Excused
    BY DEF Aside, Excused
  <2>5. ASSUME ~Excused, RowsAgree PROVE RowsAgree'
    <3>1. Told' <=> notified \/ worker.effect.kind = "NotifyWorkflow"
      BY <2>2 DEF Told, Aside
    <3>2. Agree(t, rows, notified \/ worker.effect.kind = "NotifyWorkflow")
      BY <2>3, <2>5 DEF Fits
    <3>3. Agree(worker'.task, worker'.enqueue, Told')
      BY <2>2, <3>1, <3>2 DEF Agree
    <3>4. /\ Agree(task, outbox, notified)' /\ outbox' = {Claimed(worker'.effect)}
          /\ worker'.base = task'.revision
      BY <2>2, <2>5 DEF RowsAgree, Aside, Loaded
    <3> QED BY <2>2, <3>3, <3>4 DEF RowsAgree
  <2>6. SaveConverges'
    <3>1. NextPoll' = NextPoll
      BY <2>2 DEF NextPoll
    <3> QED BY <2>2, <2>3, <3>1 DEF SaveConverges, Fits, Aside, Stopping
  <2>7. MediaIsThere'
    BY <2>2, <2>3 DEF Stored, MediaIsThere, Aside, Fits
  <2> QED BY <2>4, <2>5, <2>6, <2>7 DEF Stored, Aside
<1> QED BY <1>1, <1>2

\* What a handler may save as the end of the task.
LEMMA FitsEnd ==
  ASSUME Inductive, Stored, Aside, worker.pc \in Loaded, NEW u,
         u.state \in TerminalStates, u.handle = NoHandle,
         u.state = "Cancelled" => Stopping \/ TaskCommand \/ request.route # "CancellableRemote"
                                    \/ worker.task.handle = NoHandle,
         u.state \in {"Succeeded", "Failed"} => worker.task.state # "CancelRequested",
         u.state = "Succeeded" /\ request.kind = "Media" => asset' = "Available"
  PROVE  Fits(u, Notice)
<1>1. NextEffect(u) = "NotifyWorkflow"
  BY DEF NextEffect, IsTerminal, TerminalStates
<1>2. Agree(u, Notice, notified \/ worker.effect.kind = "NotifyWorkflow")
  BY <1>1, OneRowAgrees DEF Notice, TerminalStates
<1>3. worker.base = task.revision => worker.task = task BY Held
<1> QED BY <1>2, <1>3 DEF Fits, TerminalStates

\* The copy itself may be saved with the effect that was claimed for it.
LEMMA FitsCopy ==
  ASSUME Inductive, Stored, Aside, worker.pc \in Loaded, NEW at
  PROVE  Fits(worker.task, {Effect(worker.effect.kind, at)})
<1>1. ASSUME ~Excused
      PROVE  Agree(worker.task, {Effect(worker.effect.kind, at)},
                   notified \/ worker.effect.kind = "NotifyWorkflow")
  BY <1>1, Held, OneRowAgrees
<1>2. worker.base = task.revision => worker.task = task BY Held
<1>3. ~TaskCommand => ~Excused BY DEF Excused
<1>4. ~TaskCommand /\ task.handle # NoHandle => task.state # "Cancelled" BY <1>3, Held
<1>5. worker.task.state = "Succeeded" /\ request.kind = "Media" => asset' = "Available"
  BY DEF Stored, MediaIsThere, Aside
<1> QED BY <1>1, <1>2, <1>4, <1>5 DEF Fits

\* A retry, or the timeout that takes its place.
LEMMA StoredReschedule ==
  ASSUME Inductive, Stored, Aside, host = "Up", worker.pc \in Loaded, NEW at,
         RescheduleBeforeDeadline(at),
         ~(at < Deadline) => Stopping \/ TaskCommand \/ worker.task.state # "CancelRequested"
  PROVE  Stored'
<1>1. CASE at < Deadline
  <2> DEFINE rows == {Effect(worker.effect.kind, at)}
             copies == {worker.task}
  <2>1. \A t \in copies : Fits(t, rows) BY FitsCopy
  <2>2. Propose(copies, TRUE, rows, "idle") BY <1>1 DEF RescheduleBeforeDeadline
  <2> HIDE DEF rows, copies
  <2> QED BY <2>1, <2>2, StoredPropose
<1>2. CASE ~(at < Deadline)
  <2>0. worker.task \in TaskType /\ worker.now \in Nat /\ "Timeout" \in Failures
    BY DEF Inductive, TypeOK, WorkerType, Failures
  <2>1. ASSUME NEW u \in Timeout(worker.task) PROVE Fits(u, Notice)
    <3>1. CASE worker.task.state = "CancelRequested"
      <4>1. u.state = "Cancelled" /\ u.handle = NoHandle
        BY <2>0, <2>1, <3>1, OperationEffects DEF Timeout
      <4>2. Stopping \/ TaskCommand BY <1>2, <3>1
      <4> QED BY <4>1, <4>2, FitsEnd DEF TerminalStates
    <3>2. CASE worker.task.state # "CancelRequested"
      <4>1. u.state = "Failed" /\ u.handle = NoHandle
        BY <2>0, <2>1, <3>2, OperationEffects DEF Timeout
      <4> QED BY <3>2, <4>1, FitsEnd DEF TerminalStates
    <3> QED BY <3>1, <3>2
  <2>2. Propose(Timeout(worker.task), TRUE, Notice, "idle")
    BY <1>2 DEF RescheduleBeforeDeadline, SaveTerminal, Notice
  <2> QED BY <2>1, <2>2, StoredPropose
<1> QED BY <1>1, <1>2

\* The next poll leaves the deadline no room for another attempt, or comes before it.
LEMMA NextPollIsLast ==
  ASSUME worker.now \in Nat, ~(NextPoll < Deadline)
  PROVE  Stopping
BY DEF Stopping, NextPoll

\* The failure of a task that is not being cancelled.
LEMMA FailureFits ==
  ASSUME Inductive, Stored, Aside, worker.pc \in Loaded, NEW f \in Failures,
         NEW u \in Fail(worker.task, f, worker.now)
  PROVE  Fits(u, Notice)
<1>1. worker.task \in TaskType /\ worker.now \in Nat BY DEF Inductive, TypeOK, WorkerType
<1>2. /\ u.state = "Failed" /\ u.handle = NoHandle
      /\ worker.task.state \in {"Queued", "Submitting", "Running"}
  BY <1>1, OperationEffects
<1> QED BY <1>2, FitsEnd DEF TerminalStates

\* A cancellation before anything was accepted.
LEMMA CancelledFits ==
  ASSUME Inductive, Stored, Aside, worker.pc \in Loaded, worker.effect.kind = "SubmitTask",
         NEW u \in CancelWithoutSubmission(worker.task)
  PROVE  Fits(u, Notice)
<1>1. worker.task \in TaskType /\ worker.now \in Nat BY DEF Inductive, TypeOK, WorkerType
<1>2. ~Excused => ~IsTerminal(worker.task) /\ worker.task.handle = NoHandle
  BY <1>1, Held DEF NextEffect, IsTerminal, TerminalStates, TaskType, States
<1>3. ~TaskCommand => ~Excused BY DEF Excused
<1>4. CASE IsTerminal(worker.task)
  <2>1. u = worker.task BY <1>4, OperationEffects, <1>1 DEF CancelWithoutSubmission, IsTerminal, TerminalStates
  <2> QED BY <1>2, <1>3, <1>4, <2>1, FitsCopy DEF Fits
<1>5. CASE ~IsTerminal(worker.task)
  <2>1. \/ u \in MarkCancelled(worker.task, worker.now)
        \/ worker.task.state = "Queued" /\ u \in RequestCancellation(worker.task, worker.now)
        \/ \E v \in RequestCancellation(worker.task, worker.now) : u \in MarkCancelled(v, worker.now)
    BY <1>1, <1>5 DEF CancelWithoutSubmission, IsTerminal, TerminalStates, TaskType, States
  <2>2. u.state = "Cancelled" /\ u.handle = NoHandle
    <3>1. ASSUME NEW v \in RequestCancellation(worker.task, worker.now),
                 u \in MarkCancelled(v, worker.now)
          PROVE  u.state = "Cancelled" /\ u.handle = NoHandle
      <4>1. v \in TaskType BY <1>1, OperationTypes
      <4> QED BY <1>1, <3>1, <4>1, OperationEffects
    <3>2. u \in MarkCancelled(worker.task, worker.now) => u.state = "Cancelled" /\ u.handle = NoHandle
      BY <1>1, OperationEffects
    <3>3. worker.task.state = "Queued" /\ u \in RequestCancellation(worker.task, worker.now) =>
            u.state = "Cancelled" /\ u.handle = NoHandle
      BY <1>1, OperationDetails
    <3> QED BY <2>1, <3>1, <3>2, <3>3
  <2> QED BY <1>2, <1>3, <2>2, FitsEnd DEF TerminalStates
<1> QED BY <1>4, <1>5

\* The request to cancel a job that runs.
LEMMA RemotelyFits ==
  ASSUME Inductive, Stored, Aside, worker.pc \in Loaded, worker.effect.kind = "PollTask",
         NEW u \in RequestCancellation(worker.task, worker.now)
  PROVE  Fits(u, {Effect("CancelRemoteTask", worker.now)})
<1>1. worker.task \in TaskType /\ worker.now \in Nat BY DEF Inductive, TypeOK, WorkerType
<1>2. ~Excused => worker.task.state = "Running" /\ worker.task.handle # NoHandle
  BY <1>1, Held DEF NextEffect, IsTerminal, TerminalStates, TaskType, States
<1>3. u.state \in {"CancelRequested", "Cancelled"} BY <1>1, OperationEffects
<1>4. ASSUME ~Excused
      PROVE  /\ u.state = "CancelRequested" /\ u.handle # NoHandle
             /\ Agree(u, {Effect("CancelRemoteTask", worker.now)},
                      notified \/ worker.effect.kind = "NotifyWorkflow")
  <2>1. u.state = "CancelRequested" /\ u.handle # NoHandle
    BY <1>1, <1>2, <1>4, OperationEffects, OperationDetails
  <2>2. NextEffect(u) = "CancelRemoteTask"
    BY <2>1 DEF NextEffect, IsTerminal, TerminalStates
  <2> QED BY <2>1, <2>2, OneRowAgrees
<1>5. ~TaskCommand => ~Excused BY DEF Excused
<1> QED BY <1>3, <1>4, <1>5 DEF Fits

\* The save that opens the submission leaves the claim where it is.
LEMMA StoredBegin ==
  ASSUME Inductive, Stored, Aside, host = "Up", worker.pc \in Loaded,
         Propose(BeginSubmission(worker.task, worker.now), FALSE, {}, "call")
  PROVE  Stored'
<1> DEFINE begun == BeginSubmission(worker.task, worker.now)
<1>1. CASE begun = {}
  BY <1>1, StoredAbandon DEF Propose
<1>2. CASE begun # {}
  <2>1. PICK t \in begun :
          worker' = [worker EXCEPT !.pc = "save", !.task = t, !.after = "call",
                                   !.consume = FALSE, !.enqueue = {}]
    BY <1>2 DEF Propose
  <2>2. /\ worker'.pc = "save" /\ worker'.task = t /\ worker'.after = "call"
        /\ worker'.base = worker.base /\ worker'.effect = worker.effect
        /\ worker'.consume = FALSE /\ worker'.enqueue = {}
    BY <2>1 DEF Inductive, TypeOK, WorkerType
  <2>3. worker.task.state = "Queued" /\ t.state = "Submitting" /\ t.handle = NoHandle
    <3>1. worker.task \in TaskType /\ worker.now \in Nat BY DEF Inductive, TypeOK, WorkerType
    <3> QED BY <3>1, OperationEffects
  <2>4. Excused' <=> Excused BY DEF Aside, Excused
  <2>5. ASSUME ~Excused, RowsAgree PROVE RowsAgree'
    <3>1. worker.task = task BY <2>5, Held
    <3>2. \E e \in outbox : outbox = {e} /\ e.kind = "SubmitTask"
      BY <2>3, <2>5, <3>1 DEF RowsAgree, Agree, NextEffect, IsTerminal, TerminalStates
    <3>3. NextEffect(t) = "SubmitTask"
      BY <2>3 DEF NextEffect, IsTerminal, TerminalStates
    <3>4. Agree(t, outbox, notified) BY <2>3, <3>2, <3>3 DEF Agree
    <3>5. /\ Agree(task, outbox, notified)' /\ outbox' = {Claimed(worker'.effect)}
          /\ worker'.base = task'.revision
      BY <2>2, <2>5 DEF RowsAgree, Aside, Loaded
    <3>6. Agree(worker'.task, outbox', notified') BY <2>2, <3>4 DEF Aside
    <3> QED BY <2>2, <3>5, <3>6 DEF RowsAgree
  <2>6. SaveConverges'
    <3>1. worker.base = task.revision => worker.task = task BY Held
    <3> QED BY <2>2, <2>3, <3>1 DEF SaveConverges, Aside
  <2>7. MediaIsThere'
    BY <2>2, <2>3 DEF Stored, MediaIsThere, Aside
  <2> QED BY <2>4, <2>5, <2>6, <2>7 DEF Stored, Aside
<1> QED BY <1>1, <1>2

\* The handler steps before the provider is called.
LEMMA StoredPreparing ==
  ASSUME Inductive, Stored, ClaimNext \/ LoadTask \/ ReadOrigin \/ RecoverAsset
  PROVE  Stored'
<1> USE DEF At
<1>t. worker.pc # "idle" => worker.task \in TaskType /\ worker.now \in Nat
  BY DEF Inductive, TypeOK, WorkerType
<1>s. ASSUME NEW tasks, SaveTerminal(tasks)
      PROVE  Propose(tasks, TRUE, Notice, "idle")
  BY <1>s DEF SaveTerminal, Notice
<1>1. CASE ClaimNext
  <2>1. PICK e \in outbox :
          /\ worker' = [IdleWorker EXCEPT !.pc = "claimed", !.effect = e]
          /\ outbox' = (outbox \ {e}) \cup {Claimed(e)}
    BY <1>1 DEF ClaimNext
  <2>2. /\ worker'.pc = "claimed" /\ worker'.task.state = "Queued" /\ worker'.effect = e
    BY <2>1 DEF IdleWorker, NewTask
  <2>3. e \in EffectType BY DEF Inductive, TypeOK
  <2>4. Claimed(e).kind = e.kind BY <2>3 DEF Claimed, EffectType
  <2>5. UNCHANGED <<request, task, notified, asset, host>> /\ host = "Up"
    BY <1>1 DEF ClaimNext
  <2>6. ASSUME RowsAgree PROVE RowsAgree'
    <3>1. outbox = {e} /\ e.kind = NextEffect(task) BY <2>6 DEF RowsAgree, Agree
    <3>2. outbox' = {Claimed(e)} BY <2>1, <3>1
    <3>3. Agree(task, outbox, notified)'
      BY <2>4, <2>5, <2>6, <3>1, <3>2 DEF RowsAgree, Agree
    <3> QED BY <2>2, <3>2, <3>3 DEF RowsAgree
  <2>7. Excused' <=> Excused BY <2>5 DEF Excused
  <2>8. SaveConverges' BY <2>2 DEF SaveConverges
  <2>9. MediaIsThere' BY <2>2, <2>5 DEF Stored, MediaIsThere
  <2> QED BY <2>5, <2>6, <2>7, <2>8, <2>9 DEF Stored
<1>2. CASE LoadTask
  <2>1. Aside /\ host = "Up" /\ worker.pc = "claimed" BY <1>2 DEF LoadTask, Untouched, Aside
  <2>2. CASE worker' = IdleWorker BY <2>1, <2>2, StoredAbandon DEF Abandon
  <2>3. ASSUME NEW pc \in {"notify", "origin"},
               worker' = [[worker EXCEPT !.task = task, !.base = task.revision, !.now = now]
                            EXCEPT !.pc = pc]
        PROVE  Stored'
    <3>1. /\ worker'.pc = pc /\ worker'.task = task /\ worker'.base = task.revision
          /\ worker'.effect = worker.effect
      BY <2>3 DEF Inductive, TypeOK, WorkerType
    <3>2. Excused' <=> Excused BY <2>1 DEF Aside, Excused
    <3>3. ASSUME RowsAgree PROVE RowsAgree'
      BY <2>1, <3>1, <3>3 DEF RowsAgree, Aside
    <3>4. SaveConverges' BY <3>1 DEF SaveConverges
    <3>5. MediaIsThere' BY <2>1, <3>1 DEF Stored, MediaIsThere, Aside
    <3> QED BY <2>1, <3>2, <3>3, <3>4, <3>5 DEF Stored, Aside
  <2> QED BY <1>2, <2>2, <2>3 DEF LoadTask
<1>3. CASE ReadOrigin
  <2>1. Aside /\ host = "Up" /\ worker.pc = "origin" /\ worker.pc \in Loaded
    BY <1>3 DEF ReadOrigin, Untouched, Aside, Loaded
  <2>2. CASE Reschedule
    BY <1>t, <2>1, <2>2, StoredReschedule, NextPollIsLast DEF Reschedule
  <2>3. CASE Goto("cancel") \/ Goto("recover")
    <3>1. /\ worker'.pc \in Loaded /\ worker'.task = worker.task
          /\ worker'.base = worker.base /\ worker'.effect = worker.effect
      BY <2>3 DEF Goto, Inductive, TypeOK, WorkerType, Loaded
    <3> QED BY <2>1, <3>1, StoredGoto
  <2>4. CASE worker.effect.kind = "SubmitTask" /\ SaveTerminal(CancelWithoutSubmission(worker.task))
    <3>1. ASSUME NEW u \in CancelWithoutSubmission(worker.task) PROVE Fits(u, Notice)
      BY <1>t, <2>1, <2>4, CancelledFits
    <3> QED BY <1>s, <2>1, <2>4, <3>1, StoredPropose
  <2>5. CASE worker.effect.kind = "PollTask" /\ CancelFromOrigin(worker.task)
    <3> DEFINE requested == RequestCancellation(worker.task, worker.now)
    <3>1. CASE request.route = "CancellableRemote"
      <4> DEFINE rows == {Effect("CancelRemoteTask", worker.now)}
      <4>1. ASSUME NEW u \in requested PROVE Fits(u, rows)
        BY <1>t, <2>1, <2>5, RemotelyFits
      <4>2. Propose(requested, TRUE, rows, "idle")
        BY <2>5, <3>1 DEF CancelFromOrigin, CancelRemotely
      <4> HIDE DEF rows, requested
      <4> QED BY <2>1, <4>1, <4>2, StoredPropose
    <3>2. CASE request.route # "CancellableRemote"
      <4> DEFINE cancelled == UNION {MarkCancelled(u, worker.now) : u \in requested}
      <4>1. ASSUME NEW u \in cancelled PROVE Fits(u, Notice)
        <5>1. PICK v \in requested : u \in MarkCancelled(v, worker.now) OBVIOUS
        <5>2. v \in TaskType BY <1>t, <2>1, OperationTypes
        <5>3. u.state = "Cancelled" /\ u.handle = NoHandle
          BY <1>t, <2>1, <5>1, <5>2, OperationEffects
        <5> QED BY <2>1, <3>2, <5>3, FitsEnd DEF TerminalStates
      <4>2. SaveTerminal(cancelled) BY <2>5, <3>2 DEF CancelFromOrigin
      <4> HIDE DEF cancelled
      <4> QED BY <1>s, <2>1, <4>1, <4>2, StoredPropose
    <3> QED BY <3>1, <3>2
  <2> QED BY <1>3, <2>2, <2>3, <2>4, <2>5 DEF ReadOrigin
<1>4. CASE RecoverAsset
  <2>1. Aside /\ host = "Up" /\ worker.pc = "recover" /\ worker.pc \in Loaded
    BY <1>4 DEF RecoverAsset, Untouched, Aside, Loaded
  <2>2. CASE request.kind = "Media" /\ Recovered /\ SaveTerminal(CompleteRecovered(worker.task))
    <3>1. asset' = "Available" BY <1>4, <2>2 DEF RecoverAsset, Recovered
    <3>2. ASSUME NEW u \in CompleteRecovered(worker.task) PROVE Fits(u, Notice)
      <4>1. /\ u.state = "Succeeded" /\ u.handle = NoHandle
            /\ worker.task.state \in {"Queued", "Submitting", "Running"}
        <5>1. CASE u \in Complete(worker.task, worker.now)
          BY <1>t, <2>1, <5>1, OperationEffects
        <5>2. CASE \E v \in BeginSubmission(worker.task, worker.now) : u \in Complete(v, worker.now)
          <6>1. PICK v \in BeginSubmission(worker.task, worker.now) : u \in Complete(v, worker.now)
            BY <5>2
          <6>2. v \in TaskType /\ worker.task.state = "Queued"
            BY <1>t, <2>1, OperationTypes, OperationEffects
          <6> QED BY <1>t, <2>1, <6>1, <6>2, OperationEffects
        <5> QED BY <5>1, <5>2 DEF CompleteRecovered
      <4> QED BY <2>1, <3>1, <4>1, FitsEnd DEF TerminalStates
    <3> QED BY <1>s, <2>1, <2>2, <3>2, StoredPropose
  <2>3. CASE Reschedule
    BY <1>t, <2>1, <2>3, StoredReschedule, NextPollIsLast DEF Reschedule
  <2>4. CASE Abandon BY <2>1, <2>4, StoredAbandon
  <2>5. CASE Goto("call")
    <3>1. /\ worker'.pc \in Loaded /\ worker'.task = worker.task
          /\ worker'.base = worker.base /\ worker'.effect = worker.effect
      BY <2>5 DEF Goto, Inductive, TypeOK, WorkerType, Loaded
    <3> QED BY <2>1, <3>1, StoredGoto
  <2>6. CASE SaveTerminal(Fail(worker.task, "Ambiguous", worker.now))
    <3>1. "Ambiguous" \in Failures BY DEF Failures
    <3> QED BY <1>s, <1>t, <2>1, <2>6, <3>1, FailureFits, StoredPropose
  <2>7. CASE Propose(BeginSubmission(worker.task, worker.now), FALSE, {}, "call")
    BY <1>t, <2>1, <2>7, StoredBegin
  <2> QED BY <1>4, <2>2, <2>3, <2>4, <2>5, <2>6, <2>7 DEF RecoverAsset, SourceRequired
<1> QED BY <1>1, <1>2, <1>3, <1>4

\* The create call and the way back from the provider.
LEMMA StoredProvider ==
  ASSUME Inductive, Stored,
         SubmitCall \/ SubmitAnswer \/ ApplySubmit \/ PollAnswer \/ PollFindsCancelled \/ StoreResult
  PROVE  Stored'
<1> USE DEF At
<1>f. {"Ambiguous", "Timeout", "Provider"} \subseteq Failures BY DEF Failures
<1>t. /\ worker.task \in TaskType /\ worker.now \in Nat /\ provider.creates \in Nat
      /\ provider \in [creates : Nat, cancelAsked : BOOLEAN, cancelled : BOOLEAN]
  BY DEF Inductive, TypeOK, WorkerType
<1>s. ASSUME NEW tasks, SaveTerminal(tasks)
      PROVE  Propose(tasks, TRUE, Notice, "idle")
  BY <1>s DEF SaveTerminal, Notice
<1>p. ~TaskCommand => ~Excused BY DEF Excused
<1>q. ~Excused /\ worker.pc \in Loaded /\ worker.effect.kind = "PollTask" => worker.task.state = "Running"
  BY <1>t, Held DEF NextEffect, IsTerminal, TerminalStates, TaskType, States
<1>1. CASE SubmitCall \/ SubmitAnswer \/ (PollAnswer /\ Answered("Completed"))
  <2>1. Aside /\ host = "Up" /\ worker.pc \in Loaded
    BY <1>1, <1>t DEF SubmitCall, SubmitAnswer, PollAnswer, Untouched, Aside, Loaded
  <2>2. /\ worker'.pc \in Loaded /\ worker'.task = worker.task
        /\ worker'.base = worker.base /\ worker'.effect = worker.effect
    BY <1>1 DEF SubmitCall, SubmitAnswer, Answered, Goto, Inductive, TypeOK, WorkerType, Loaded
  <2> QED BY <2>1, <2>2, StoredGoto
<1>2. CASE ApplySubmit
  <2>1. /\ Aside /\ host = "Up" /\ worker.pc = "apply" /\ worker.pc \in Loaded
        /\ worker.effect.kind = "SubmitTask"
    BY <1>2 DEF ApplySubmit, Untouched, Aside, Loaded
  <2>2. worker.task.state = "Submitting" /\ provider.creates = 1
    BY <2>1 DEF Inductive, SubmitInFlight, Submitted, Fence
  <2>3. CASE Propose(Accepted, TRUE, {Effect("PollTask", NextPoll)}, "idle")
    <3> DEFINE rows == {Effect("PollTask", NextPoll)}
    <3>1. ASSUME NEW u \in Accepted PROVE Fits(u, rows)
      <4>1. u.state = "Running" /\ u.handle = 1
        BY <1>t, <2>2, OperationDetails, OperationEffects DEF Accepted
      <4>2. NextEffect(u) = "PollTask" BY <4>1 DEF NextEffect, IsTerminal, TerminalStates
      <4>3. Agree(u, rows, notified \/ worker.effect.kind = "NotifyWorkflow")
        BY <4>1, <4>2, OneRowAgrees DEF NoHandle
      <4>4. worker.base = task.revision => worker.task = task BY <2>1, Held
      <4> QED BY <2>2, <4>1, <4>3, <4>4 DEF Fits
    <3> HIDE DEF rows
    <3>2. Propose(Accepted, TRUE, rows, "idle") BY <2>3 DEF rows
    <3> QED BY <2>1, <3>1, <3>2, StoredPropose
  <2>4. CASE SaveTerminal(UNION {Fail(t, "Timeout", worker.now) : t \in Accepted})
    <3> DEFINE failed == UNION {Fail(t, "Timeout", worker.now) : t \in Accepted}
    <3>1. ASSUME NEW u \in failed PROVE Fits(u, Notice)
      <4>1. PICK v \in Accepted : u \in Fail(v, "Timeout", worker.now) OBVIOUS
      <4>2. v \in TaskType BY <1>t, OperationTypes DEF Accepted
      <4>3. u.state = "Failed" /\ u.handle = NoHandle BY <1>f, <1>t, <4>1, <4>2, OperationEffects
      <4> QED BY <2>1, <2>2, <4>3, FitsEnd DEF TerminalStates
    <3>2. SaveTerminal(failed) BY <2>4
    <3> HIDE DEF failed
    <3> QED BY <1>s, <2>1, <3>1, <3>2, StoredPropose
  <2>5. CASE \/ SaveTerminal(Fail(worker.task, "Provider", worker.now))
             \/ SaveTerminal(Fail(worker.task, "Ambiguous", worker.now))
    BY <1>f, <1>s, <2>1, <2>5, FailureFits, StoredPropose
  <2> QED BY <1>2, <2>3, <2>4, <2>5 DEF ApplySubmit
<1>3. CASE PollAnswer /\ ~Answered("Completed")
  <2>1. /\ Aside /\ host = "Up" /\ worker.pc = "call" /\ worker.pc \in Loaded
        /\ worker.effect.kind = "PollTask"
    BY <1>3 DEF PollAnswer, Untouched, Aside, Loaded
  <2>2. ASSUME NEW p \in ProgressReports, SavePending(p) PROVE Stored'
    <3> DEFINE recorded == RecordProgress(worker.task, p, worker.now)
    <3>1. ASSUME NEW u \in recorded
          PROVE  /\ u \in TaskType /\ worker.task.state = "Running" /\ u.state = "Running"
                 /\ u.handle = worker.task.handle
      BY <1>t, OperationTypes, OperationEffects
    <3>2. CASE NextPoll >= Deadline
      <4> DEFINE failed == UNION {Fail(t, "Timeout", worker.now) : t \in recorded}
      <4>1. ASSUME NEW u \in failed PROVE Fits(u, Notice)
        <5>1. PICK v \in recorded : u \in Fail(v, "Timeout", worker.now) OBVIOUS
        <5>2. v \in TaskType /\ worker.task.state = "Running" BY <3>1
        <5>3. u.state = "Failed" /\ u.handle = NoHandle BY <1>f, <1>t, <5>1, <5>2, OperationEffects
        <5> QED BY <2>1, <5>2, <5>3, FitsEnd DEF TerminalStates
      <4>2. SaveTerminal(failed) BY <2>2, <3>2 DEF SavePending
      <4> HIDE DEF failed
      <4> QED BY <1>s, <2>1, <4>1, <4>2, StoredPropose
    <3>3. CASE ~(NextPoll >= Deadline)
      <4> DEFINE rows == {Effect("PollTask", NextPoll)}
      <4>1. ASSUME NEW u \in recorded PROVE Fits(u, rows)
        <5>1. NextEffect(u) = "PollTask" BY <3>1 DEF NextEffect, IsTerminal, TerminalStates
        <5>2. ASSUME ~Excused
              PROVE  Agree(u, rows, notified \/ worker.effect.kind = "NotifyWorkflow")
          <6>1. worker.task.handle # NoHandle BY <2>1, <3>1, <5>2, Held
          <6> QED BY <3>1, <5>1, <6>1, OneRowAgrees
        <5>3. worker.base = task.revision => worker.task = task BY <2>1, Held
        <5> QED BY <3>1, <5>2, <5>3 DEF Fits
      <4>2. Propose(recorded, TRUE, rows, "idle") BY <2>2, <3>3 DEF SavePending
      <4> HIDE DEF recorded, rows
      <4> QED BY <2>1, <4>1, <4>2, StoredPropose
    <3> QED BY <3>2, <3>3
  <2>3. CASE SaveTerminal(Fail(worker.task, "Provider", worker.now))
    BY <1>f, <1>s, <2>1, <2>3, FailureFits, StoredPropose
  <2>4. ASSUME NEW at \in RetryTimes, RescheduleBeforeDeadline(at) PROVE Stored'
    <3>1. TaskCommand \/ worker.task.state # "CancelRequested" BY <1>p, <1>q, <2>1
    <3> QED BY <2>1, <2>4, <3>1, StoredReschedule
  <2> QED BY <1>3, <2>2, <2>3, <2>4 DEF PollAnswer
<1>4. CASE PollFindsCancelled
  <2>1. provider'.cancelled /\ Aside /\ host = "Up" /\ worker.pc \in Loaded
    BY <1>4, <1>t DEF PollFindsCancelled, Untouched, Aside, Loaded
  <2>2. ASSUME NEW u \in MarkCancelled(worker.task, worker.now) PROVE Fits(u, Notice)
    <3>1. u.state = "Cancelled" /\ u.handle = NoHandle BY <1>t, OperationEffects
    <3> QED BY <2>1, <3>1, FitsEnd DEF TerminalStates, Stopping
  <2>3. SaveTerminal(MarkCancelled(worker.task, worker.now)) BY <1>4 DEF PollFindsCancelled
  <2> QED BY <1>s, <2>1, <2>2, <2>3, StoredPropose
<1>5. CASE StoreResult
  <2>1. Aside /\ host = "Up" /\ worker.pc = "apply" /\ worker.pc \in Loaded
    BY <1>5 DEF StoreResult, Untouched, Aside, Loaded
  <2>2. CASE /\ request.kind = "Media" => asset' = "Available"
             /\ SaveTerminal(Complete(worker.task, worker.now))
    <3>1. ASSUME NEW u \in Complete(worker.task, worker.now) PROVE Fits(u, Notice)
      <4>1. /\ u.state = "Succeeded" /\ u.handle = NoHandle
            /\ worker.task.state \in {"Submitting", "Running"}
        BY <1>t, OperationEffects
      <4> QED BY <2>1, <2>2, <4>1, FitsEnd DEF TerminalStates
    <3> QED BY <1>s, <2>1, <2>2, <3>1, StoredPropose
  <2>3. CASE Reschedule
    BY <1>t, <2>1, <2>3, StoredReschedule, NextPollIsLast DEF Reschedule
  <2>4. CASE Abandon BY <2>1, <2>4, StoredAbandon
  <2>5. request.kind \in {"Text", "Media"} BY DEF Inductive, TypeOK
  <2> QED BY <1>5, <2>2, <2>3, <2>4 DEF StoreResult
<1> QED BY <1>1, <1>2, <1>3, <1>4, <1>5

\* Cancellation of the remote job and delivery of the notification.
LEMMA StoredDelivery ==
  ASSUME Inductive, Stored, CancelRemote \/ CompleteOrigin \/ NotifyLater
  PROVE  Stored'
<1> USE DEF At
<1>t. /\ worker.task \in TaskType /\ worker.now \in Nat
      /\ provider \in [creates : Nat, cancelAsked : BOOLEAN, cancelled : BOOLEAN]
  BY DEF Inductive, TypeOK, WorkerType
<1>1. CASE CancelRemote
  <2>1. Aside /\ host = "Up" /\ worker.pc \in Loaded
    BY <1>1, <1>t DEF CancelRemote, Untouched, Aside, Loaded
  <2>2. CASE Abandon BY <2>1, <2>2, StoredAbandon
  <2>3. CASE ~Abandon
    <3>1. Stopping /\ \/ SaveTerminal(MarkCancelled(worker.task, worker.now))
                      \/ \E at \in RetryTimes : RescheduleBeforeDeadline(at)
      BY <1>1, <1>t, <2>3 DEF CancelRemote, Stopping
    <3>2. ASSUME NEW u \in MarkCancelled(worker.task, worker.now) PROVE Fits(u, Notice)
      <4>1. u.state = "Cancelled" /\ u.handle = NoHandle BY <1>t, OperationEffects
      <4> QED BY <2>1, <3>1, <4>1, FitsEnd DEF TerminalStates
    <3>3. CASE SaveTerminal(MarkCancelled(worker.task, worker.now))
      <4>1. Propose(MarkCancelled(worker.task, worker.now), TRUE, Notice, "idle")
        BY <3>3 DEF SaveTerminal, Notice
      <4> QED BY <2>1, <3>2, <4>1, StoredPropose
    <3>4. ASSUME NEW at \in RetryTimes, RescheduleBeforeDeadline(at) PROVE Stored'
      BY <2>1, <3>1, <3>4, StoredReschedule
    <3> QED BY <3>1, <3>3, <3>4
  <2> QED BY <2>2, <2>3
<1>2. CASE CompleteOrigin
  <2>1. /\ Aside /\ host = "Up" /\ worker.pc = "notify" /\ worker.pc \in Loaded
        /\ SaveNotified \/ Abandon
    BY <1>2 DEF CompleteOrigin, Untouched, Aside, Loaded
  <2>2. CASE Abandon BY <2>1, <2>2, StoredAbandon
  <2>3. CASE SaveNotified
    <3> DEFINE copies == {worker.task}
               rows == {}
    <3>1. worker.task = task /\ IsTerminal(task) BY <2>1 DEF Inductive, CopyIsCurrent
    <3>2. ASSUME ~Excused
          PROVE  Agree(task, {}, notified \/ worker.effect.kind = "NotifyWorkflow")
      <4>1. worker.effect.kind = "NotifyWorkflow"
        BY <2>1, <3>1, <3>2, Held DEF NextEffect, IsTerminal, TerminalStates
      <4>2. task.handle = NoHandle /\ task.state # "Running"
        BY <2>1, <3>1, <3>2, Held DEF IsTerminal, TerminalStates
      <4> QED BY <3>1, <4>1, <4>2 DEF Agree
    <3>3. \A t \in copies : Fits(t, rows)
      <4>1. Fits(task, {Effect(worker.effect.kind, 0)}) BY <2>1, <3>1, FitsCopy
      <4> QED BY <3>1, <3>2, <4>1 DEF Fits
    <3>4. Propose(copies, TRUE, rows, "idle") BY <2>3 DEF SaveNotified
    <3> HIDE DEF copies, rows
    <3> QED BY <2>1, <3>3, <3>4, StoredPropose
  <2> QED BY <2>1, <2>2, <2>3
<1>3. CASE NotifyLater
  <2>1. Aside /\ host = "Up" /\ worker.pc = "notify" /\ worker.pc \in Loaded
    BY <1>3 DEF NotifyLater, Untouched, Aside, Loaded
  <2>2. PICK at : Propose({worker.task}, TRUE, {Effect("NotifyWorkflow", at)}, "idle")
    BY <1>3 DEF NotifyLater
  <2> DEFINE copies == {worker.task}
             rows == {Effect("NotifyWorkflow", at)}
  <2>3. \A t \in copies : Fits(t, rows)
    <3>1. worker.task = task /\ IsTerminal(task) BY <2>1 DEF Inductive, CopyIsCurrent
    <3>2. NextEffect(task) = "NotifyWorkflow"
      BY <3>1 DEF NextEffect, IsTerminal, TerminalStates
    <3>3. ASSUME ~Excused
          PROVE  Agree(task, rows, notified \/ worker.effect.kind = "NotifyWorkflow")
      BY <2>1, <3>2, <3>3, Held, OneRowAgrees
    <3>4. Fits(task, {Effect(worker.effect.kind, at)}) BY <2>1, <3>1, FitsCopy
    <3> HIDE DEF rows
    <3> QED BY <3>1, <3>3, <3>4 DEF Fits
  <2>4. Propose(copies, TRUE, rows, "idle") BY <2>2
  <2> HIDE DEF copies, rows
  <2> QED BY <2>1, <2>3, <2>4, StoredPropose
<1> QED BY <1>1, <1>2, <1>3

\* The save itself, a refused save, and the reconciliation of a refused submit.
LEMMA StoredSave ==
  ASSUME Inductive, Stored, SaveTask \/ SaveConflict \/ ReconcileCancelledSubmit
  PROVE  Stored'
<1> USE DEF At
<1>t. worker.task \in TaskType /\ task \in TaskType /\ worker.effect \in EffectType
  BY DEF Inductive, TypeOK, WorkerType, SaveTask, SaveConflict, ReconcileCancelledSubmit
<1>1. CASE SaveTask
  <2>1. /\ worker.pc = "save" /\ task.revision = worker.base /\ task' = worker.task
        /\ outbox' = (IF worker.consume THEN outbox \ {Claimed(worker.effect)} ELSE outbox)
                       \cup worker.enqueue
        /\ notified' = Told
        /\ UNCHANGED <<request, asset, provider, host>> /\ host = "Up"
        /\ worker.after \in {"idle", "call"}
    BY <1>1 DEF SaveTask, CurrentRevision, Told, Inductive, TypeOK, WorkerType
  <2>2. /\ worker'.pc \in {"idle", "call"}
        /\ worker'.pc = "call" =>
             /\ worker.after = "call" /\ worker'.effect = worker.effect
             /\ worker'.base = worker.task.revision
        /\ worker'.task.state = "Queued" \/ worker'.task = worker.task
    BY <1>1 DEF SaveTask, IdleWorker, NewTask, Inductive, TypeOK, WorkerType
  <2>3. ASSUME Excused PROVE Excused'
    <3>1. IsTerminal(task) => worker.task = task BY <2>1 DEF Inductive, SaveIsLegal
    <3> QED BY <2>1, <2>3, <3>1 DEF Excused, Stored, SaveConverges, IsTerminal, TerminalStates
  <2>4. ASSUME ~Excused PROVE RowsAgree'
    <3>1. /\ outbox = {Claimed(worker.effect)}
          /\ worker.consume => Agree(worker.task, worker.enqueue, Told)
          /\ ~worker.consume => Agree(worker.task, outbox, notified) /\ worker.enqueue = {}
          /\ worker.after = "call" <=> ~worker.consume
      BY <2>1, <2>4 DEF Stored, RowsAgree
    <3>2. CASE worker.consume
      <4>1. outbox' = worker.enqueue /\ worker'.pc = "idle" BY <2>1, <2>2, <3>1, <3>2
      <4> QED BY <2>1, <3>1, <3>2, <4>1 DEF RowsAgree
    <3>3. CASE ~worker.consume
      <4>0. notified \in BOOLEAN BY DEF Inductive, TypeOK
      <4>1. outbox' = outbox /\ notified' = notified BY <2>1, <3>1, <3>3, <4>0, Zenon DEF Told
      <4>2. worker.after = "call" BY <3>1, <3>3
      <4>3. worker'.pc = "call" BY <1>1, <4>2 DEF SaveTask, Inductive, TypeOK, WorkerType
      <4>4. Agree(task', outbox', notified') BY <2>1, <3>1, <3>3, <4>1
      <4> QED BY <2>1, <2>2, <3>1, <4>1, <4>3, <4>4 DEF RowsAgree
    <3> QED BY <3>2, <3>3
  <2>5. SaveConverges' BY <2>2 DEF SaveConverges
  <2>6. MediaIsThere' BY <2>1, <2>2 DEF Stored, MediaIsThere
  <2> QED BY <2>1, <2>3, <2>4, <2>5, <2>6 DEF Stored
<1>2. CASE SaveConflict
  <2>1. Aside /\ host = "Up" BY <1>2 DEF SaveConflict, Untouched, Aside
  <2>2. CASE Abandon BY <2>1, <2>2, StoredAbandon
  <2>3. CASE ~CurrentRevision /\ Goto("reconcile")
    <3>1. Excused
      BY <1>2, <2>3 DEF SaveConflict, CurrentRevision, Stored, RowsAgree
    <3>2. worker'.pc = "reconcile" /\ worker'.task = worker.task
      BY <2>3 DEF Goto, Inductive, TypeOK, WorkerType
    <3>3. Excused' BY <2>1, <3>1 DEF Aside, Excused
    <3>4. SaveConverges' BY <3>2 DEF SaveConverges
    <3>5. MediaIsThere' BY <2>1, <3>2, SMTT(40) DEF Stored, MediaIsThere, Aside
    <3> QED BY <2>1, <3>3, <3>4, <3>5 DEF Stored, Aside
  <2> QED BY <1>2, <2>2, <2>3 DEF SaveConflict
<1>3. CASE ReconcileCancelledSubmit
  <2>1. Aside /\ host = "Up" /\ Excused
    BY <1>3 DEF ReconcileCancelledSubmit, Untouched, Aside, Stored, RowsAgree
  <2>2. CASE Abandon BY <2>1, <2>2, StoredAbandon
  <2>3. CASE ~Abandon
    <3> DEFINE cancelled(t) == IF IsTerminal(t) THEN {t} ELSE MarkCancelled(t, worker.now)
               attached == AcceptRemoteSubmission(task, provider.creates, worker.now)
    <3>0. worker.now \in Nat /\ provider.creates \in Nat BY DEF Inductive, TypeOK, WorkerType
    <3>1. \A t \in attached : t \in TaskType /\ t.state = "CancelRequested"
      <4>1. task.state \in {"CancelRequested", "Cancelled"} BY <2>1 DEF Excused
      <4> QED BY <1>t, <3>0, <4>1, OperationTypes, OperationDetails
    <3>2. \A t \in TaskType : t.state \in {"CancelRequested", "Cancelled"} =>
             \A u \in cancelled(t) : u.state = "Cancelled"
      BY <3>0, OperationEffects, SMTT(40) DEF IsTerminal, TerminalStates
    <3>3. \E t \in attached \cup cancelled(task) \cup UNION {cancelled(u) : u \in attached},
             enqueue \in {{Effect("CancelRemoteTask", worker.now)},
                          {Effect("NotifyWorkflow", worker.now)}} :
             worker' = [worker EXCEPT !.base = task.revision, !.outcome = "None",
                                 !.pc = "save", !.consume = TRUE, !.after = "idle",
                                 !.task = t, !.enqueue = enqueue]
      <4> HIDE DEF cancelled, attached
      <4> QED BY <1>3, <2>3 DEF ReconcileCancelledSubmit, cancelled, attached
    <3>4. PICK t \in attached \cup cancelled(task) \cup UNION {cancelled(u) : u \in attached},
               enqueue \in {{Effect("CancelRemoteTask", worker.now)},
                            {Effect("NotifyWorkflow", worker.now)}} :
             worker' = [worker EXCEPT !.base = task.revision, !.outcome = "None",
                                 !.pc = "save", !.consume = TRUE, !.after = "idle",
                                 !.task = t, !.enqueue = enqueue]
      BY <3>3
    <3>5. t.state \in {"CancelRequested", "Cancelled"}
      <4>1. task.state \in {"CancelRequested", "Cancelled"} BY <2>1 DEF Excused
      <4>2. \A v \in cancelled(task) : v.state = "Cancelled" BY <1>t, <3>2, <4>1
      <4>3. \A u \in attached : \A v \in cancelled(u) : v.state = "Cancelled" BY <3>1, <3>2
      <4> HIDE DEF cancelled, attached
      <4> QED BY <3>1, <4>2, <4>3
    <3>6. worker'.pc = "save" /\ worker'.task = t
      BY <3>4 DEF Inductive, TypeOK, WorkerType
    <3>7. Excused' /\ TaskCommand BY <2>1 DEF Aside, Excused
    <3>8. SaveConverges' BY <3>5, <3>6, <3>7 DEF SaveConverges
    <3>9. MediaIsThere' BY <2>1, <3>5, <3>6 DEF Stored, MediaIsThere, Aside
    <3> QED BY <2>1, <3>7, <3>8, <3>9 DEF Stored, Aside
  <2> QED BY <2>2, <2>3
<1> QED BY <1>1, <1>2, <1>3

\* Everybody else.
LEMMA StoredOther ==
  ASSUME Inductive, Stored,
         \/ HandlerFails \/ HandOff \/ CancelRun \/ CancelTask \/ FinalizeAsset \/ Tick
         \/ Crash \/ Startup \/ UNCHANGED vars
  PROVE  Stored'
<1>1. CASE HandlerFails
  <2>1. Aside BY <1>1 DEF HandlerFails, Untouched, Aside
  <2> QED BY <1>1, <2>1, StoredAbandon DEF HandlerFails
<1>2. CASE Crash
  <2>1. worker'.pc = "idle" /\ worker'.task.state = "Queued"
    BY <1>2 DEF Crash, Abandon, IdleWorker, NewTask
  <2>2. UNCHANGED <<request, task, outbox, notified, asset>> BY <1>2 DEF Crash
  <2>3. Excused' <=> Excused BY <2>2 DEF Excused
  <2>4. RowsAgree => RowsAgree' BY <2>1, <2>2 DEF RowsAgree
  <2>5. SaveConverges' BY <2>1 DEF SaveConverges
  <2>6. MediaIsThere' BY <2>1, <2>2 DEF Stored, MediaIsThere
  <2> QED BY <2>1, <2>3, <2>4, <2>5, <2>6 DEF Stored
<1>3. CASE HandOff \/ CancelRun \/ FinalizeAsset \/ Tick \/ UNCHANGED vars
  <2>1. /\ UNCHANGED <<request, task, outbox, notified, worker, provider, host>>
        /\ asset = "Available" => asset' = "Available"
    BY <1>3 DEF HandOff, CancelRun, FinalizeAsset, Tick, vars
  <2>2. (Excused' <=> Excused) /\ NextPoll' = NextPoll BY <2>1 DEF Excused, NextPoll
  <2>3. RowsAgree => RowsAgree' BY <2>1 DEF RowsAgree, Told
  <2>4. SaveConverges' BY <2>1, <2>2 DEF Stored, SaveConverges
  <2>5. MediaIsThere' BY <2>1 DEF Stored, MediaIsThere
  <2> QED BY <2>1, <2>2, <2>3, <2>4, <2>5 DEF Stored
<1>4. CASE CancelTask
  <2>1. /\ task' \in RequestCancellation(task, now) /\ task \in TaskType /\ now \in Nat
        /\ TaskCommand /\ UNCHANGED <<request, worker, asset, provider, host>>
    BY <1>4 DEF CancelTask, Inductive, TypeOK
  <2>2. /\ task'.state \in {"CancelRequested", "Cancelled"}
        /\ task' = task \/ task'.revision = task.revision + 1
        /\ task.state = "CancelRequested" => task' = task
    BY <2>1, OperationEffects, OperationDetails
  <2>3. Excused' BY <2>1, <2>2 DEF Excused
  <2>4. SaveConverges'
    <3>1. CASE task' = task BY <2>1, <3>1 DEF Stored, SaveConverges
    <3>2. CASE task'.revision = task.revision + 1
      <4>1. worker.base <= task.revision /\ task.revision \in Nat /\ worker.base \in Nat
        BY DEF Inductive, TypeOK, TaskType, WorkerType, CopyIsCurrent
      <4> QED BY <2>1, <3>2, <4>1 DEF SaveConverges
    <3> QED BY <2>2, <3>1, <3>2
  <2>5. MediaIsThere' BY <2>1, <2>2 DEF Stored, MediaIsThere
  <2> QED BY <2>1, <2>3, <2>4, <2>5 DEF Stored
<1>5. CASE Startup
  <2>1. /\ UNCHANGED <<request, task, notified, worker, asset>> /\ worker.pc = "idle"
        /\ outbox' = ResetClaims(outbox)
    BY <1>5 DEF Startup, Stored
  <2>2. Excused' <=> Excused BY <2>1 DEF Excused
  <2>3. ASSUME RowsAgree PROVE RowsAgree'
    <3>1. ASSUME NEW e \in outbox, outbox = {e}, e.kind = NextEffect(task)
          PROVE  \E f \in outbox' : outbox' = {f} /\ f.kind = NextEffect(task)
      <4>1. e \in EffectType BY DEF Inductive, TypeOK
      <4>2. [e EXCEPT !.state = "Ready"].kind = e.kind BY <4>1 DEF EffectType
      <4>3. outbox' = {[e EXCEPT !.state = "Ready"]} BY <2>1, <3>1 DEF ResetClaims
      <4> QED BY <3>1, <4>2, <4>3
    <3>2. outbox = {} => outbox' = {} BY <2>1 DEF ResetClaims
    <3>3. Agree(task, outbox, notified)' BY <2>1, <2>3, <3>1, <3>2 DEF RowsAgree, Agree
    <3> QED BY <2>1, <3>3 DEF RowsAgree
  <2>4. SaveConverges' BY <2>1 DEF SaveConverges
  <2>5. MediaIsThere' BY <2>1 DEF Stored, MediaIsThere
  <2> QED BY <2>1, <2>2, <2>3, <2>4, <2>5 DEF Stored
<1> QED BY <1>1, <1>2, <1>3, <1>4, <1>5

\* What is stored keeps fitting together.
LEMMA StoredInvariant == Spec => [](Inductive /\ Stored)
<1>1. Init => Stored
  <2> SUFFICES ASSUME Init PROVE Stored OBVIOUS
  <2>1. /\ worker.pc = "idle" /\ worker.task = NewTask /\ task = NewTask /\ host = "Up"
        /\ outbox = {Effect("SubmitTask", 0)}
    BY DEF Init, IdleWorker
  <2>2. NewTask.state = "Queued" /\ NewTask.handle = NoHandle BY DEF NewTask
  <2>3. NextEffect(task) = "SubmitTask"
    BY <2>1, <2>2 DEF NextEffect, IsTerminal, TerminalStates
  <2>4. Agree(task, outbox, notified) BY <2>1, <2>2, <2>3, OneRowAgrees
  <2>5. RowsAgree BY <2>1, <2>4 DEF RowsAgree
  <2>6. SaveConverges /\ MediaIsThere BY <2>1, <2>2 DEF SaveConverges, MediaIsThere
  <2> QED BY <2>1, <2>5, <2>6 DEF Stored
<1>2. Inductive /\ Stored /\ [Next]_vars => Stored'
  BY StoredPreparing, StoredProvider, StoredDelivery, StoredSave, StoredOther
     DEF Next, WorkerStep
<1>3. Spec => []Inductive BY InductiveInvariant
<1> QED BY <1>1, <1>2, <1>3, PTL DEF Spec

\* Whenever the process dies, the stored task and its rows are a pair the recovery
\* reader recognises (recovery.rs:58-131), unless the cancel command, which leaves the
\* outbox alone, came between; a media task has succeeded over an Available Asset.
THEOREM RecoveryRecognises == Spec => []NeverCorrupt
<1>1. ASSUME Inductive, Stored PROVE NeverCorrupt
  <2>1. task \in TaskType BY <1>1 DEF Inductive, TypeOK
  <2>2. ASSUME ~Excused PROVE Observation(ResetClaims(outbox)) # "Corrupt"
    <3>1. Agree(task, outbox, notified) BY <1>1, <2>2 DEF Stored, RowsAgree
    <3>2. CASE outbox = {}
      <4>1. ResetClaims(outbox) = {} BY <3>2 DEF ResetClaims
      <4>2. IsTerminal(task) /\ notified BY <3>1, <3>2 DEF Agree
      <4> QED BY <4>1, <4>2 DEF Observation, IsTerminal, TerminalStates
    <3>3. ASSUME NEW e \in outbox, outbox = {e}, e.kind = NextEffect(task)
          PROVE  Observation(ResetClaims(outbox)) # "Corrupt"
      <4> DEFINE ready == [e EXCEPT !.state = "Ready"]
      <4>1. e \in EffectType BY <1>1 DEF Inductive, TypeOK
      <4>2. ready.kind = e.kind /\ ready.state = "Ready" BY <4>1 DEF EffectType
      <4>3. ResetClaims(outbox) = {ready} BY <3>3 DEF ResetClaims
      <4> HIDE DEF ready
      <4>4. \A kind : (\E f \in {ready} : {ready} = {f} /\ f.kind = kind /\ f.state = "Ready")
                        <=> kind = e.kind
        BY <4>2
      <4>5. task.state \in States /\ task.handle \in Nat BY <2>1 DEF TaskType
      <4> QED BY <3>3, <4>3, <4>4, <4>5, ZenonT(60) DEF Observation, NextEffect, IsTerminal, TerminalStates,
            States
    <3> QED BY <3>1, <3>2, <3>3 DEF Agree
  <2> QED BY <1>1, <2>2 DEF NeverCorrupt, Excused, Stored, MediaIsThere
<1> QED BY <1>1, StoredInvariant, PTL

\* An accepted cancellation is never forgotten or turned into a failure, whoever
\* holds an older copy of the task (aggregate.rs:150-196).
THEOREM CancellationIsKept == Spec => CancellationConverges
<1>1. ASSUME Inductive, Stored, [Next]_vars, task.state = "CancelRequested"
      PROVE  task'.state \in {"CancelRequested", "Cancelled"}
  <2>1. CASE SaveTask
    BY <1>1, <2>1 DEF SaveTask, At, CurrentRevision, Stored, SaveConverges
  <2>2. CASE CancelTask
    <3>1. task' \in RequestCancellation(task, now) /\ task \in TaskType /\ now \in Nat
      BY <1>1, <2>2 DEF CancelTask, Inductive, TypeOK
    <3> QED BY <1>1, <3>1, OperationDetails
  <2>3. CASE task' = task BY <1>1, <2>3
  <2> QED BY <1>1, <2>1, <2>2, <2>3, TaskFrame DEF vars
<1>2. Inductive /\ Stored /\ [Next]_vars =>
        [task.state = "CancelRequested" =>
           task'.state \in {"CancelRequested", "Cancelled"}]_vars
  BY <1>1
<1> QED BY <1>2, StoredInvariant, PTL DEF Spec, CancellationConverges

\* Where only the Workflow cancels (no command of the task itself), accepted work on a
\* cancellable route is Cancelled only after the provider was asked to stop, had
\* stopped, or at the deadline (cancel_effect.rs:39-92).
THEOREM RemoteWorkIsStopped == ASSUME ~TaskCommand PROVE Spec => CancellableIsAsked
<1>1. ASSUME Inductive, Stored, [Next]_vars, request.route = "CancellableRemote",
             task.handle # NoHandle, task'.state = "Cancelled"
      PROVE  provider.cancelAsked \/ provider.cancelled \/ worker.now + PollInterval >= Deadline
  <2>1. CASE SaveTask
    BY <1>1, <2>1 DEF SaveTask, At, CurrentRevision, Stored, SaveConverges, NextPoll
  <2>2. CASE CancelTask BY <2>2 DEF CancelTask
  <2>3. CASE task' = task
    <3>1. Agree(task, outbox, notified) BY <1>1 DEF Stored, RowsAgree, Excused
    <3> QED BY <1>1, <2>3, <3>1 DEF Agree
  <2> QED BY <1>1, <2>1, <2>2, <2>3, TaskFrame DEF vars
<1>2. Inductive /\ Stored /\ [Next]_vars =>
        [request.route = "CancellableRemote" /\ task.handle # NoHandle
           /\ task'.state = "Cancelled" =>
           \/ provider.cancelAsked \/ provider.cancelled
           \/ worker.now + PollInterval >= Deadline]_vars
  BY <1>1
<1> QED BY <1>2, StoredInvariant, PTL DEF Spec, CancellableIsAsked

----------------------------------------------------------------------------
(* Startup.  A task whose last notification was consumed has a node that   *)
(* heard of it, so the recovery finds no waiting node beside an empty      *)
(* outbox, and what it refuses is a handoff of which one half is missing.  *)

\* The node waits for nothing any more.
Settled == node \notin {"Running", "Waiting"} \/ run = "Interrupted"

\* Only the answer of a settled node empties the outbox.
Empties == worker.pc = "save" /\ worker.consume /\ worker.enqueue = {}

Heard == /\ outbox = {} \/ Empties => Settled
         /\ OnlyHalfHandoffsRefused

\* A step of the worker that does not empty the outbox, or finds the node settled.
Replaces == (Empties' => Settled') /\ UNCHANGED <<outbox, run>> /\ (Settled => Settled')
            /\ host' = "Up"

\* No handler but the one of the notification saves without a row.
LEMMA NothingEmpties ==
  ASSUME WorkerOK
  PROVE  /\ Abandon => ~Empties'
         /\ \A pc : pc # "save" /\ Goto(pc) => ~Empties'
         /\ \A outcome : Answered(outcome) => ~Empties'
         /\ \A tasks, row : Propose(tasks, TRUE, {row}, "idle") => ~Empties'
         /\ \A tasks : Propose(tasks, FALSE, {}, "call") => ~Empties'
         /\ \A tasks : SaveTerminal(tasks) => ~Empties'
         /\ \A at : RescheduleBeforeDeadline(at) => ~Empties'
<1>1. Abandon => ~Empties' BY DEF Abandon, IdleWorker, Empties
<1>2. ASSUME NEW pc, pc # "save", Goto(pc) PROVE ~Empties'
  BY <1>2 DEF Goto, Empties, WorkerOK, WorkerType
<1>3. ASSUME NEW outcome, Answered(outcome) PROVE ~Empties'
  BY <1>3 DEF Answered, Empties, WorkerOK, WorkerType
<1>4. ASSUME NEW tasks, NEW consume, NEW enqueue, NEW after, ~consume \/ enqueue # {},
             Propose(tasks, consume, enqueue, after)
      PROVE  ~Empties'
  <2>1. CASE tasks = {} BY <1>1, <1>4, <2>1 DEF Propose
  <2>2. CASE tasks # {}
    <3>1. PICK t \in tasks :
            worker' = [worker EXCEPT !.pc = "save", !.task = t, !.after = after,
                                     !.consume = consume, !.enqueue = enqueue]
      BY <1>4, <2>2 DEF Propose
    <3>2. worker'.consume = consume /\ worker'.enqueue = enqueue
      BY <3>1 DEF WorkerOK, WorkerType
    <3> QED BY <1>4, <3>2 DEF Empties
  <2> QED BY <2>1, <2>2
<1>5. ASSUME NEW tasks, NEW row, Propose(tasks, TRUE, {row}, "idle") PROVE ~Empties'
  BY <1>4, <1>5
<1>6. ASSUME NEW tasks, Propose(tasks, FALSE, {}, "call") PROVE ~Empties'
  BY <1>4, <1>6
<1>7. ASSUME NEW tasks, SaveTerminal(tasks) PROVE ~Empties'
  BY <1>5, <1>7 DEF SaveTerminal
<1>8. ASSUME NEW at, RescheduleBeforeDeadline(at) PROVE ~Empties'
  BY <1>5, <1>7, <1>8 DEF RescheduleBeforeDeadline
<1> QED BY <1>1, <1>2, <1>3, <1>5, <1>6, <1>7, <1>8

LEMMA HandlersReplace ==
  ASSUME Inductive,
         \/ LoadTask \/ ReadOrigin \/ RecoverAsset \/ SubmitCall \/ SubmitAnswer \/ ApplySubmit
         \/ PollAnswer \/ PollFindsCancelled \/ StoreResult \/ CancelRemote \/ NotifyLater
         \/ CompleteOrigin \/ SaveConflict \/ ReconcileCancelledSubmit \/ HandlerFails
  PROVE  Replaces
<1> USE DEF At
<1>1. WorkerOK BY SMTT(40) DEF Inductive, TypeOK, WorkerOK, HeldEffect
<1>2. UNCHANGED <<outbox, run>> /\ host = "Up" /\ host' = "Up"
  BY DEF LoadTask, ReadOrigin, RecoverAsset, SubmitCall, SubmitAnswer, ApplySubmit, PollAnswer,
         PollFindsCancelled, StoreResult, CancelRemote, NotifyLater, CompleteOrigin,
         SaveConflict, ReconcileCancelledSubmit, HandlerFails, Untouched
<1>3. CASE CompleteOrigin
  <2>1. CASE node = "Waiting" /\ node' = NodeOutcome
    BY <1>2, <2>1 DEF Replaces, Settled, NodeOutcome
  <2>2. CASE OriginTerminal /\ node' = node
    BY <1>2, <2>2 DEF Replaces, Settled, OriginTerminal, OriginOver
  <2>3. CASE Abandon /\ node' = node
    BY <1>1, <1>2, <2>3, NothingEmpties DEF Replaces, Settled
  <2> QED BY <1>3, <2>1, <2>2, <2>3 DEF CompleteOrigin
<1>4. ASSUME node' = node, ~Empties' PROVE Replaces
  BY <1>2, <1>4 DEF Replaces, Settled
<1>5. CASE LoadTask
  <2>1. ~Empties'
    <3>1. CASE worker' = IdleWorker BY <3>1 DEF IdleWorker, Empties
    <3>2. ASSUME NEW pc \in {"notify", "origin"},
                 worker' = [[worker EXCEPT !.task = task, !.base = task.revision, !.now = now]
                              EXCEPT !.pc = pc]
          PROVE  ~Empties'
      <4>1. worker'.pc = pc BY <1>1, <3>2 DEF WorkerOK, WorkerType
      <4> QED BY <4>1 DEF Empties
    <3> QED BY <1>5, <3>1, <3>2 DEF LoadTask
  <2> QED BY <1>4, <1>5, <2>1 DEF LoadTask
<1>6. CASE ReadOrigin
  <2>1. ~Empties'
    BY <1>1, <1>6, NothingEmpties
       DEF ReadOrigin, Reschedule, CancelFromOrigin, CancelRemotely
  <2> QED BY <1>4, <1>6, <2>1 DEF ReadOrigin
<1>7. CASE RecoverAsset
  <2>1. SourceRequired => ~Empties' BY <1>1, NothingEmpties DEF SourceRequired
  <2>2. ~Empties' BY <1>1, <1>7, <2>1, NothingEmpties DEF RecoverAsset, Reschedule
  <2> QED BY <1>4, <1>7, <2>2 DEF RecoverAsset
<1>8. CASE SubmitCall \/ SubmitAnswer
  <2>1. ~Empties' BY <1>1, <1>8, NothingEmpties DEF SubmitCall, SubmitAnswer
  <2> QED BY <1>4, <1>8, <2>1 DEF SubmitCall, SubmitAnswer
<1>9. CASE ApplySubmit
  <2>1. ~Empties' BY <1>1, <1>9, NothingEmpties DEF ApplySubmit
  <2> QED BY <1>4, <1>9, <2>1 DEF ApplySubmit
<1>10. CASE PollAnswer
  <2>1. ASSUME NEW progress, SavePending(progress) PROVE ~Empties'
    BY <1>1, <2>1, NothingEmpties DEF SavePending
  <2>2. ~Empties' BY <1>1, <1>10, <2>1, NothingEmpties DEF PollAnswer
  <2> QED BY <1>4, <1>10, <2>2 DEF PollAnswer
<1>11. CASE PollFindsCancelled
  BY <1>1, <1>4, <1>11, NothingEmpties DEF PollFindsCancelled
<1>12. CASE StoreResult
  <2>1. ~Empties' BY <1>1, <1>12, NothingEmpties DEF StoreResult, Reschedule
  <2> QED BY <1>4, <1>12, <2>1 DEF StoreResult
<1>13. CASE CancelRemote
  <2>1. ~Empties' BY <1>1, <1>13, NothingEmpties DEF CancelRemote
  <2> QED BY <1>4, <1>13, <2>1 DEF CancelRemote
<1>14. CASE NotifyLater
  <2>1. ~Empties' BY <1>1, <1>14, NothingEmpties DEF NotifyLater
  <2> QED BY <1>4, <1>14, <2>1 DEF NotifyLater
<1>15. CASE SaveConflict
  <2>1. ~Empties' BY <1>1, <1>15, NothingEmpties DEF SaveConflict
  <2> QED BY <1>4, <1>15, <2>1 DEF SaveConflict
<1>16. CASE ReconcileCancelledSubmit
  <2>1. CASE Abandon BY <1>1, <1>4, <1>16, <2>1, NothingEmpties DEF ReconcileCancelledSubmit
  <2>2. CASE ~Abandon
    <3>1. PICK t, row :
            worker' = [[worker EXCEPT !.base = task.revision, !.outcome = "None",
                                      !.pc = "save", !.consume = TRUE, !.after = "idle"]
                         EXCEPT !.task = t, !.enqueue = {row}]
      BY <1>16, <2>2 DEF ReconcileCancelledSubmit
    <3>2. worker'.enqueue = {row} BY <1>1, <3>1 DEF WorkerOK, WorkerType
    <3> QED BY <1>4, <1>16, <3>2 DEF ReconcileCancelledSubmit, Empties
  <2> QED BY <2>1, <2>2
<1>17. CASE HandlerFails
  BY <1>1, <1>4, <1>17, NothingEmpties DEF HandlerFails
<1> QED BY <1>3, <1>5, <1>6, <1>7, <1>8, <1>9, <1>10, <1>11, <1>12, <1>13, <1>14, <1>15,
           <1>16, <1>17

\* Of a recognised pair of task and rows, startup refuses the two halves of a handoff.
LEMMA RefusesHalfHandoffs ==
  ASSUME Inductive, Stored, Heard, Startup
  PROVE  OnlyHalfHandoffsRefused'
<1> SUFFICES ASSUME host' = "Refused", ~Excused, node = "Waiting" => task.state # "Queued",
                    node = "Running" => task.state = "Queued"
             PROVE  FALSE
  BY DEF Startup, OnlyHalfHandoffsRefused, Excused
<1>1. run = "Running" /\ ~SafeAfterRestart(Observation(ResetClaims(outbox)))
  BY DEF Startup
<1>2. Agree(task, outbox, notified) BY DEF Stored, RowsAgree
<1>3. CASE outbox = {}
  <2>1. node \notin {"Running", "Waiting"} BY <1>1, <1>3 DEF Heard, Settled
  <2> QED BY <1>1, <2>1 DEF SafeAfterRestart
<1>4. ASSUME NEW e \in outbox, outbox = {e}, e.kind = NextEffect(task) PROVE FALSE
  <2>1. PICK ready : ready = [e EXCEPT !.state = "Ready"] OBVIOUS
  <2>2. e \in EffectType BY DEF Inductive, TypeOK
  <2>3. ready.kind = e.kind /\ ready.state = "Ready" BY <2>1, <2>2 DEF EffectType
  <2>4. ResetClaims(outbox) = {ready} BY <1>4, <2>1 DEF ResetClaims
  <2>5. \A kind : (\E f \in {ready} : {ready} = {f} /\ f.kind = kind /\ f.state = "Ready")
                    <=> kind = e.kind
    BY <2>3
  <2>6. task.state \in States /\ task.handle \in Nat BY DEF Inductive, TypeOK, TaskType
  <2>7. CASE task.state = "Queued"
    <3>1. Observation(ResetClaims(outbox)) = "QueuedPreHandoff"
      BY <1>4, <2>4, <2>5, <2>7 DEF Observation, NextEffect, IsTerminal, TerminalStates
    <3> QED BY <1>1, <2>7, <3>1 DEF SafeAfterRestart
  <2>8. CASE IsTerminal(task)
    <3>1. Observation(ResetClaims(outbox)) = "NotificationPending"
      BY <1>4, <2>4, <2>5, <2>8 DEF Observation, NextEffect, IsTerminal, TerminalStates
    <3> QED BY <1>1, <2>8, <3>1 DEF SafeAfterRestart, IsTerminal, TerminalStates
  <2>9. CASE task.state \in {"Submitting", "Running", "CancelRequested"}
    <3>1. Observation(ResetClaims(outbox)) = "Active"
      BY <1>4, <2>4, <2>5, <2>9 DEF Observation, NextEffect, IsTerminal, TerminalStates
    <3> QED BY <1>1, <2>9, <3>1 DEF SafeAfterRestart
  <2> QED BY <2>6, <2>7, <2>8, <2>9 DEF States, IsTerminal, TerminalStates
<1> QED BY <1>2, <1>3, <1>4 DEF Agree

LEMMA HeardStep ==
  ASSUME Inductive, Stored, Heard, [Next]_vars
  PROVE  Heard'
<1> USE DEF At
<1>1. CASE Replaces BY <1>1 DEF Heard, Replaces, OnlyHalfHandoffsRefused
<1>2. CASE ClaimNext
  <2>1. /\ outbox' # {} /\ worker'.pc = "claimed" /\ host = "Up" /\ host' = "Up"
        /\ UNCHANGED <<node, run>>
    BY <1>2 DEF ClaimNext, IdleWorker
  <2> QED BY <2>1 DEF Heard, Empties, OnlyHalfHandoffsRefused
<1>3. CASE SaveTask
  <2>1. /\ worker.pc = "save" /\ UNCHANGED <<node, run, host>> /\ host = "Up"
        /\ outbox' = (IF worker.consume THEN outbox \ {Claimed(worker.effect)} ELSE outbox)
                       \cup worker.enqueue
    BY <1>3 DEF SaveTask
  <2>2. worker'.pc \in {"idle", "call"}
    BY <1>3 DEF SaveTask, IdleWorker, Inductive, TypeOK, WorkerType
  <2>3. outbox' = {} => worker.enqueue = {} /\ (worker.consume \/ outbox = {})
    BY <2>1
  <2>4. outbox' = {} => Settled BY <2>1, <2>3 DEF Heard, Empties
  <2>5. Settled' <=> Settled BY <2>1 DEF Settled
  <2> QED BY <2>1, <2>2, <2>4, <2>5 DEF Heard, Empties, OnlyHalfHandoffsRefused
<1>4. CASE HandOff \/ CancelRun
  <2>1. /\ host = "Up" /\ UNCHANGED <<outbox, worker, run, host>> /\ (Settled => Settled')
    BY <1>4 DEF HandOff, CancelRun, Settled
  <2> QED BY <2>1 DEF Heard, Empties, OnlyHalfHandoffsRefused
<1>5. CASE CancelTask \/ FinalizeAsset
  <2>1. host = "Up" /\ UNCHANGED <<outbox, worker, node, run, host>>
    BY <1>5 DEF CancelTask, FinalizeAsset
  <2>2. Settled' <=> Settled BY <2>1 DEF Settled
  <2> QED BY <2>1, <2>2 DEF Heard, Empties, OnlyHalfHandoffsRefused
<1>6. CASE Tick \/ UNCHANGED vars
  <2>1. UNCHANGED <<outbox, worker, node, run, host, task>> BY <1>6 DEF Tick, vars
  <2>2. (Settled' <=> Settled) /\ (Empties' <=> Empties) BY <2>1 DEF Settled, Empties
  <2> QED BY <2>1, <2>2 DEF Heard, OnlyHalfHandoffsRefused
<1>7. CASE Crash
  <2>1. UNCHANGED <<outbox, node, run>> /\ worker'.pc = "idle" /\ host' = "Down"
    BY <1>7 DEF Crash, Abandon, IdleWorker
  <2>2. Settled' <=> Settled BY <2>1 DEF Settled
  <2> QED BY <2>1, <2>2 DEF Heard, Empties, OnlyHalfHandoffsRefused
<1>8. CASE Startup
  <2>1. /\ UNCHANGED <<node, worker>> /\ outbox' = ResetClaims(outbox)
        /\ run' = run \/ run' = "Interrupted"
    BY <1>8 DEF Startup
  <2>2. (Settled => Settled') /\ (Empties' <=> Empties) BY <2>1 DEF Settled, Empties
  <2>3. outbox' = {} => outbox = {} BY <2>1 DEF ResetClaims
  <2> QED BY <1>8, <2>2, <2>3, RefusesHalfHandoffs DEF Heard
<1> QED BY <1>1, <1>2, <1>3, <1>4, <1>5, <1>6, <1>7, <1>8, HandlersReplace DEF Next, WorkerStep

\* Startup refuses a state the process died in only where the wait is committed and the
\* submission has not begun, or the task has moved and the wait is not committed, and
\* after the cancel command (restart_recovery.rs:66): no answer, save or notification
\* that was lost stops it.
THEOREM StartupRefusesLittle == Spec => []OnlyHalfHandoffsRefused
<1>1. Init => Heard
  <2> SUFFICES ASSUME Init PROVE Heard OBVIOUS
  <2>1. outbox # {} /\ worker.pc = "idle" /\ host = "Up" BY DEF Init, IdleWorker
  <2> QED BY <2>1 DEF Heard, Empties, OnlyHalfHandoffsRefused
<1>2. Inductive /\ Stored /\ Heard /\ [Next]_vars => Heard' BY HeardStep
<1>3. Heard => OnlyHalfHandoffsRefused BY DEF Heard
<1> QED BY <1>1, <1>2, <1>3, StoredInvariant, PTL DEF Spec
=============================================================================
