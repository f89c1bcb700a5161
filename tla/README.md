# Formal models of Oh My Dream

Oh My Dream is a local desktop application for AI-assisted creation: a Rust
workspace behind a Tauri shell, with SQLite as its only durable state. A user
(or the Assistant) edits a Workflow graph, starts a Run of it, and the Run calls
node capabilities, some of which are backed by a remote generation provider that
takes minutes and costs money.

The models cover what is hard there: a Run, its Generation Tasks, its Assets and
the Assistant's changes are advanced by several independent workers that load,
await, and save with an optimistic check; the process may die between any two
steps; a provider call must never be repeated; nothing may be forgotten; and the
window must show the truth although what it is told is late, repeated or lost.

## 1. Inventory

| Component | Source | State | Operations | Hard, and what makes it correct |
|---|---|---|---|---|
| Project | `crates/projects`, `src-tauri/src/project_adapters.rs` | Project rows, receipts | create, rename, open, list by pages | retries, two clients, a list that moves while it is read: one effect per request, nothing missing |
| Workflow graph | `crates/engine/src/workflow_graph`, `workflow/use_case.rs` | one graph with a revision, receipts | create, ten mutations, readiness | concurrent callers, retries: one line of sound revisions |
| Run admission | `crates/engine/src/workflow/run_admission.rs`, `plan.rs` | frozen plan, admission receipt | start Run | stale reads over awaits: an admitted plan can run to its end |
| Workflow Run | `crates/engine/src/workflow/run*`, `generation_task_completion.rs`, `restart_recovery.rs` | Run and Node Executions, event log, cancellation registry | execute, cancel, complete by a task, classify after restart | two executors, lost commits, crashes: each node once, every Run ends |
| Node capabilities | `crates/engine/src/node_capability`, `crates/nodes`, `src-tauri/src/desktop_node_capability_asset_bridge.rs`, `generation_task_start_adapter.rs` | contracts, registry, the calls of a batch | normalize, readiness, execute, start a task | deadlines and cancellations between five looks, inputs checked by four layers: node and task agree, an admitted plan is not refused |
| Generation Task | `crates/tasks` | task with a revision | start, submit, poll, cancel remotely, notify, cancel | crashes and timeouts: one create, the node is told |
| Providers | `crates/backends` | route registry, mocks | create, observe, cancel | external answers |
| Assets | `crates/assets`, `src-tauri/src/asset_storage_adapters` | Asset rows, staging and managed files, finalizations | import, record node output, finalize, reconcile, list, lease | three finalizers, deadlines, two stores: no accepted byte is lost |
| Previews | `src-tauri/src/asset_preview_protocol` | a signing key; else none | issue a lease, answer a request | token, row, hash and bytes are looked at in steps: an answer fits all of them |
| Library (UI) | `ui/src/assets/useAssets.ts` | the Assets shown, the generation of refreshes | refresh, import | overlapping refreshes: what is shown is as new as the last one |
| Assistant | `crates/assistant`, `src-tauri/src/assistant_*` | changes, continuations, production plan | send, propose, review, decide, apply, resume | turns, user and worker at once: a change is applied once, a turn resumed once |
| Assistant process | `assistant/`, `crates/assistant/src/protocol_v1`, `src-tauri/src/assistant_adapters/runner*` | the exchange of a turn: two processes, two pipes, a continuation file | launch, frames, tool calls, review, pause, resume, abort | a process that may hang, lie or die: what it says is believed only if checked, and every exchange ends |
| Generation Task outbox and worker | `src-tauri/src/generation_task_storage_adapter`, `generation_task_effect_worker.rs` | `generation_task_outbox` | claim, consume, enqueue, reset | claims that outlive their handler |
| Post-commit outbox and worker | `src-tauri/src/post_commit_effect`, `post_commit_worker` | `desktop_post_commit_effects` | claim, execute, finish, recover | the same, for three owners |
| Event delivery | `src-tauri/src/post_commit_worker/event_delivery.rs` | delivery record per event | deliver, record attempt | at least once, in order, blocking failures |
| Startup recovery | `src-tauri/src/post_commit_worker/startup_recovery.rs` | none | reset claims, classify Runs, recover effects | must know every pair of states a crash can leave |
| Run controller (UI) | `ui/src/workflow/useRunController.ts` | followed Run, last sequence, seen events, status | run, repair, accept, cancel, invalidate | late answers, lost emissions |
| Workspace (UI) | `ui/src/workflow/useProjectWorkspace.ts`, `useWorkflowPersistence.ts`, `canonicalWorkspaceController.ts`, `canonical.ts` | open Project, draft, save queue, accepted document | edit, note, save, barrier, open, create, rename | timers, queued drafts, the Assistant's commits, another Project: what is stored was shown, a barrier releases what is stored |
| Settings | `crates/backends/src/generation_provider_settings`, `src-tauri/src/assistant_provider_settings*`, `backend_settings_adapter*`, `ui/src/components/SettingsDialog.tsx` | one configuration row, one key | view, set and remove a route, test and apply, disable, launch | a test outside the process between a read and a write: what is enabled was tested, what is stored can be read |
| DTOs, composition, canvas and panels | `src-tauri/src`, `ui` | | translation, wiring, presentation | |

How they interact:

```
 UI / Assistant --start--> admission --Run + effect--> post-commit outbox
                                                             | claim
      cancel ----commit, then signal----+                    v
                                        v            executor (per effect)
                                  Workflow Run <--- load / commit copies
                                        ^                    | capability call
               NotifyWorkflow: complete | node               v
               + next Workflow effect   |            Generation Task (Queued)
                                        |                    | SubmitTask row
                                  effect handlers <----------+
                                        |  submit / poll / cancel
                                        v
                                  provider, Asset sink --> staging, Asset row,
                                                           finalization effect
 committed events --emit at once, and again by the delivery worker--> window
 window --list events, start, cancel--> backend
 Assistant turn --propose, review--> change --user approves--> effect:
     mutate the Workflow, resume the turn, start the Run
```

No lock is held across an await. A Run is guarded by its event count
(`run_repository.rs:361-386`), a task by its revision (`task_sql.rs:141-176`), an
effect by its claim. What makes it hard, and which properties are about it, is
the list `hazards` of `PROJECT.json`, each entry at its line.

## 2. Modules

| Module | What it is |
|---|---|
| `GenerationPromise` | abstract: one create, one outcome, told to the node that waits |
| `GenerationTask` | the task aggregate, its outbox, the handlers, recovery |
| `GenerationTaskProofs` | theorems about `GenerationTask` |
| `RunPromise` | abstract: how a Run and its nodes may move |
| `WorkflowRun` | the Run aggregate, executors, outbox, registry, canceller, recovery |
| `WorkflowRunProofs` | theorems about `WorkflowRun` |
| `AssetPromise` | abstract: accepted bytes stay obtainable until the environment destroys them |
| `AssetContent` | staging, metadata, publication, finalization by three actors, reconciliation |
| `AssetLibrary` | the window's library of Assets, its refreshes, leases and preview requests |
| `AssetProofs` | theorems about `AssetContent` and `AssetLibrary` |
| `NodeCapability` | contracts, the built-in ones, normalization of parameters, profiles |
| `WorkflowGraph` | documents, mutations, validation, readiness, frozen plans, staleness, as operators |
| `EditingPromise` | abstract: one line of revisions, one plan for each admitted request |
| `WorkflowEditing` | creation, mutation and Run admission commands of several callers |
| `WorkflowEditingProofs` | theorems about `WorkflowEditing` |
| `AssistantPromise` | abstract: reviewed, decided, applied to its revision, run once |
| `ProductionPlan` | the plan aggregate of the Assistant |
| `AssistantChange` | turns, decisions, the apply effect, continuations, the plan |
| `AssistantExchange` | one turn as frames between the runner and the sidecar |
| `AssistantProofs` | theorems about `AssistantChange` and `AssistantExchange` |
| `EventDelivery` | event logs, publication, the delivery worker |
| `RunController` | the window that follows a Run, on top of `EventDelivery` |
| `RunControllerProofs` | theorems about `RunController` |
| `NodeOutcome` | runtime values, the closed set of errors, outcomes as a Run's row keeps them |
| `NodeExecution` | the calls of a Run's nodes, from the frozen plan to committed outcomes and started tasks |
| `NodeExecutionProofs` | theorems about `NodeExecution` |
| `Projects` | Project rows and receipts, commands of several callers, the list by pages |
| `EditorDocument` | the editor's document, its edits, the mutations that carry them to the backend |
| `Workspace` | the window's workspace on top of both: autosave, barriers, opening |
| `ProviderSettings` | the settings row, its commands, the dialog, the launch of a sidecar |
| `WindowProofs` | theorems about `Workspace` with its `Projects`, about `EditorDocument` and about `ProviderSettings` |
| `MCGenerationTask`, `MCWorkflowRun`, `MCAssetContent`, `MCWorkflowEditing`, `MCAssistantChange`, `MCRunController`, `MCNodeExecution`, `MCWorkspace` | instances for TLC |

### 2.1 GenerationTask

One task, its outbox rows, and the handler that owns the claimed effect. The
worker runs many tasks at once, but the claim excludes a second handler of the
same task (`outbox.rs:24`), so one `worker` record is enough. A handler is a
program counter (`worker.pc`) with one action per await:

| pc | action | code |
|---|---|---|
| `idle` | `ClaimNext` | `claim_next_generation_task_effect` |
| `claimed` | `LoadTask` | `load_task`, clock read |
| `origin` | `ReadOrigin` | `handle_origin`, `cancel_from_origin` |
| `recover` | `RecoverAsset` | `handle_recovery`, `recover` |
| `call`, `answer`, `apply` | `SubmitCall`, `SubmitAnswer`, `ApplySubmit`, `PollAnswer`, `PollFindsCancelled`, `StoreResult` | `execute_submit`, `apply_outcome`, `apply_poll_outcome`, `save_pending`, `complete_result` |
| `cancel` | `CancelRemote` | the CancelRemoteTask handler |
| `notify` | `CompleteOrigin`, `NotifyLater` | the NotifyWorkflow handler |
| `save` | `SaveTask`, `SaveConflict` | `save_generation_task` |
| `reconcile` | `ReconcileCancelledSubmit` | `reconcile_cancelled_submit` |

`worker.task` is the loaded copy and `worker.base` the revision the save expects.
An aggregate operation returns the set of tasks it may produce, empty when the
code returns an error; an error drops the handler and leaves the effect Claimed
(`Abandon`). Around the worker: `HandOff` and `CancelRun` (the Run), `CancelTask`
(the use case no command exposes yet, switched by `TaskCommand`), `FinalizeAsset`,
`Tick`, `Crash`, and `Startup` (claim reset and classification).

Abstractions: prompts, results and handles are data, a handle is the number of
the create call it answers; `transient` and `permanent` boundary errors are
nondeterministic; the recovery observation keeps its four cases.

### 2.2 WorkflowRun

One Run with a frozen plan. `run` is the durable aggregate (state, nodes, number
of events), `ex[e]` what worker slot `e` is doing, with its copy of the Run, and
`call[n]` the capability call of a node until its result is joined. Each slot
walks `load -> drive -> launch -> join -> result -> join -> load`, which are the
awaits of `execute_workflow_run`, `execute_batch` and `commit_execution_result`;
`Drive` is one turn of the loop up to its next commit. Two slots may execute two
effects of the same Run at once, as in the code. `CancelLoads`, `CancelCommits`,
`CancelSignals` are `cancel_workflow_run`; `NotifyLoads`, `NotifyCommits` are
`complete_generation_task`; `Crash`, `ClassifyRun`, `RecoverEffect`,
`AcceptCommands` are the end of a process and startup recovery.

A Generation Task is four steps here (created, submitted, settled, notifies); its
inside is `GenerationTask`. The two models meet in the node: what `WorkflowRun`
assumes of a task (it submits only for a waiting node, settles once, notifies
until told otherwise) is what `GenerationPromise` promises and
`GenerationTask` is shown to implement.

Abstractions: event payloads are dropped, only their count is compared
(`CurrentCount`); node outputs and failures are data; the readiness check is part
of the capability's answer; a storage, clock or publish error is `StepFails`.

### 2.3 AssetContent

Requests (`Imports`, and attempts to record one node output, `Outputs`), the
post-commit worker and reconciliation are actors with a program counter;
`FinalizerSteps(a)` is `finalize_content.rs` for whichever of them runs it. State:
Asset rows, finalizations and effects in SQLite; staging copies, staging files
and managed contents in the file system; and `late`, the transactions whose
caller gave up. `run_asset_operation_before_deadline` drops a future, but what was
handed to the blocking pool still runs: a step `GiveUpWaiting` moves the commit to
`late`, `RunLate` performs it at any later time. `Crash` empties `late` and every
actor; `Startup` resets claims; `LoseFile` is a file deleted outside the program.

`AssetPromise` sees of this a phase per Asset: unknown, accepted, readable, given
up. An Asset may be given up only when its bytes were destroyed.

Abstractions: digests are `Contents`; staging is a copy that may end or fail;
media inspection accepts or refuses; identities are fresh, so a request names its
Asset, finalization, effect and staging file. A file operation whose future was
dropped is taken not to run; only transactions are late.

### 2.4 NodeCapability, WorkflowGraph, WorkflowEditing

`NodeCapability` and `WorkflowGraph` hold no state: an operation that may fail
returns the set of its results, empty for an error. A document has nodes and
bindings; the ten actions, their validation in a draft and when stored, readiness,
the plan a Run freezes and its own check, and staleness of a result are operators
of the same names as in the code, for the built-in contracts and one with ordered
references. `WorkflowEditing` adds what has state: rows of workflows, receipts,
admissions and Runs, and calls, one step per await. A call may fail anywhere and be
sent again with the same request; that is also what a crash does, since nothing
but the rows lasts. A receipt, that of a creation too, answers only the command it was
made by; any other with its request is refused. `EditingPromise` has no calls:
revisions come one after the other, each from one request. What one edit makes of a
document, and what a Run freezes of it, are its constants.

Abstractions: a command stands for the hash of its canonical bytes; a parameter
value is one of the few its constraint tells apart; positions are two values; nodes
have positive numbers, for 0 is the scope of a whole Workflow.

### 2.5 ProductionPlan, AssistantChange

A turn (`exchange`) is the sidecar's frames one at a time through the tool
dispatcher: propose, fetch, pass or reject, load and save the plan. A Pass stores
the continuation envelope and moves the change to AwaitingApproval; the user
approves or rejects (`DecideLoads`, `DecideCommits`, `DecideConsumes`); the effect
(`Claim`, `ApplyMutation`, `MarkApplied`, `ConsumeContinuation`, `CommitOutcome`,
`FreezePlan`, `AdmitRun`, `LinkRun`, `Finish`) is
`apply_workflow_change_effect.rs` await by await. The Workflow is the line of its
revisions and who made them, its transactions those of `WorkflowEditing`.

Merged steps: the claim and the load of the change, since nothing else moves an
Applying change; a verdict and the frame that carries it; the read of the current
Workflow and the checks of the start command (`FreezePlan`). A Pass that has no
fetched evidence ends the turn as `Fails` does. Envelope files without a change
are left out.

### 2.6 EventDelivery, RunController

`EventDelivery` has the log of each Run, how many of its events are recorded as
delivered, and the emissions the window has not handled (`wire`). `RunController`
is `useRunController.ts`: `ui` is what it remembers and shows, `call[q]` the `run()`
of request `q` (observe, start, first page, further pages), `gap` the repair that
the event chain awaits, `cancelling` the cancel command. The chain of promises and
the channel before it are one FIFO. A use case emits what it commits at once, but
the worker emits every event again as late as one likes, so only the first of its
emissions is a choice of the commit. Whether events between `unlisten` and its
effect are seen is nondeterministic. The query for a next page reads the page and
whether more exists in one step.

### 2.7 AssistantExchange

A closer look at what `AssistantChange` takes for one step each: the runner
(`runner`, one frame at a time), its decoder and conversation validator
(`protocol`), the Python process (`sidecar`, and `child` for the operating system),
and the two pipes. A turn may pause for an approval; `Approve` resumes it with a
fresh process. What the models say, and whether they say anything, is free: every
tool call with any call ID, any verdict after a fetch, a death at any time. The
deadline may fire wherever the runner waits. Names it would share with `AssistantChange`
begin with `Exchange` (`ExchangeSpec`, `ExchangeTypeOK`).

Abstractions: a frame is its kind, its call and what it is about; `sound` stands
for the checks of its content; the sequence numbers of a pipe are its order.

### 2.8 NodeOutcome, NodeExecution

`WorkflowRun` says that a node is called once; here is what the call does.
`NodeOutcome` holds the runtime values, the fixed constructors of errors and the
codec of a Run's row, as operators. In `NodeExecution` the executor (`Loop`,
`BuildCall`, `CollectResult`) freezes inputs from the outputs so far, calls a batch,
and commits each outcome; a call (`Step(n)`) is readiness, then the reads of managed
media, then the start of a Generation Task, with a look at its deadline and its
cancellation before each (`generation_task_start_adapter.rs:115`). What is optional, an
output or a failure, is a set of at most one; `tasks` is a function of the nodes that
have one; `Produced` is the fresh Asset that a task's output is recorded as; a batch is a
set, since the order of its calls is theirs.

Scope: one executor at a time, its read and commit one step (the competition is
`WorkflowRun`'s). An aborted call stops only at its awaits: a synchronous poll may
still create the task after the executor has failed. A start is never replayed with
the identity of an earlier one, since a Run does not call a node twice. A restart is
not modelled here. Errors of providers and of written media have no producer yet,
but are in the check of the codec. Texts are model values; limits are not reached.

### 2.9 Projects, EditorDocument, Workspace

`Projects` is a call per caller (`calls`), with an await between the receipt's
lookup, the load and the transaction, and the list that the window reads page by
page, each a set of identities behind the cursor. `EditorDocument` is the document the canvas shows and `EditorMutationActions`
(`canonical.ts:43`), the difference between it and the accepted document.
`Workspace` puts the window around them: `window` (the Project, the view, the
drawn head), `control` (the canonical controller: queue, accepted document, failure),
the backend's `store`, and `waits`, the barriers under way (open, Run, turn, close).
`made` is a history variable: the draft that the user made last. A Project can be opened
when it is listed, or when a command about it has just been answered (`Known`,
`ProjectSwitcher.tsx:51`). JavaScript runs one task and then its microtasks, so that
edits, timers, answers and renderings wait until `Settled`; the backend does not.

Scope: a rendering precedes the next edit; an answer that is lost is one its caller
asks for again; built-in contracts only, which have no ordered references. Not
modelled: the order of nodes on the canvas, changes of the selection, the flushes
of `beforeunload`, `pagehide` and unmounting, discarding in the close dialog, a
list of Projects that cannot be read at boot, a rename whose late answer meets
another open Project. The check of the generation between two microtasks of
`enqueueDraft` is left out.

### 2.10 ProviderSettings

One row (`config`) holds the provider routes and the Assistant's connection under one
revision, the key is a row of its own (`credential`). A command (`pending`) is a
record with its stage: a route is changed in one transaction; a connection first
resolves its key (`ResolveKey`, the given one or the stored one), is tested by the
provider (`Probe`, any answer), and then compares the revision and writes
(`ApplyConnection`). `dialog` and `panel` are the two components, which mount, load,
send and show; `Launch` reads the connection for a sidecar; `Start` reads the row.

Abstractions: two commands alike in everything are one; the provider's list of models
is whole; addresses are model values. A profile has one route, as in the contracts.

### 2.11 AssetLibrary

`refreshes[n]` is the call of `refresh` with generation `n` (`useAssets.ts:34`): it asks for
the list (`ReadList`, or `ListFails`), for a lease of each Asset that is Available
(`ReadLease`, in any order, with a failure that leaves that Asset without a preview), and
then shows the page unless a newer one was begun (`Publish`, `Latest`). What begins one is
a switch of Projects, a Run that succeeds and an import; the import's refresh is that of the
render in which it was asked for (`ImportReturns`). `fetch` is one request of the web view
with a signed URI: `Ask` looks at the method and the token, `ResolveAsset` at the row,
`VerifyFile` hashes the file, `OpenFile` and `ReadBytes` take the bytes and the Range. The
clock may be set; a file may be altered, cut or removed between any two of them.

`AssetContent` has the life of a row in full; here it is Pending and then Available or
Missing. The desktop reconciles nothing, so that an Available row stays so, though its
file may not. Abstractions: HEAD is like GET, for it opens and reads the file as well; the
token is the lease it signs, since its key dies with the window; an Asset without a lease
is shown too. The hash is taken before the file is opened for reading: what is sent was
whole at some moment of the request, which is all that `PreviewAnswers` claims.

## 3. Runs

| Run | Shows | Distinct states |
|---|---|---|
| `GenerationTask_safety` | the promise of submission and notification, for every request kind and route, two crashes, failing boundaries, the task's own cancel command; what startup refuses | 1.9 M |
| `GenerationTask_liveness` | the node hears of the task's end; a job that can be cancelled is asked to stop | 0.4 M |
| `WorkflowRun_safety` | two executors, cancellation, failing steps, a crash, a join of two roots | 0.9 M |
| `WorkflowRun_liveness` | every Run ends, or a node of it is orphaned | 43 k |
| `AssetContent` | no accepted byte lost, one Asset per output, nothing Pending forgotten, and everything Pending settles; a library as new as its last refresh, previews that fit lease, file and Range | 0.57 M |
| `WorkflowEditing` | sound documents, runnable plans, staleness that means what it says, one line of revisions | 0.26 M |
| `AssistantChange` | changes that can be read back, one application, one resumption, no lost plan write; an approved change ends | 0.7 M |
| `RunController` | a window that shows a prefix of the committed events, only committed outcomes, and learns the end | 1.1 M |
| `AssistantExchange` | a review rests on the Reviewer's own fetch, no mutual wait, every exchange and its process end | 0.28 M |
| `NodeExecution` | outcomes that can be read back, tasks that are what the plan asks for, no refusal of an admitted plan, every call ends | 0.11 M |
| `Workspace` | what is stored was shown; and, of a user who waits while a Project is opened: a barrier releases what is stored, and the last draft is stored or its failure told, unless an older draft has overtaken it (section 5); Project requests take effect once, a list misses nothing | 0.45 M |
| `ProviderSettings_order` | finding, section 5 | |

Bounds of `GenerationTask`: `Deadline` 4 with `PollInterval` 1 gives a task
room for a submission, at least two polls and the timeout in place of a
reschedule, `MaxTime` is one beyond it so that expired effects are still handled;
the clock then stands still, which the guards only compare. One task suffices
because tasks share nothing but the pool. Two crashes allow one during recovery
from the other. Progress is `None` or, where its regression matters, `None` and
50. The number of creates is not bounded: that it stays at 1 is a result.

Bounds of `WorkflowRun`: three nodes, the least plan with a join of two sources
(`JoinUpstream`) and with a failure two edges away (`ChainUpstream`); two slots,
since a third effect of one Run needs a third concurrently completing task;
batches of two; one crash. Symmetry is not used: the nodes differ by the plan.
`CHECK_DEADLOCK FALSE`: a finished task and a finished Run really stop.

Bounds of `AssetContent`: two attempts at one output (with the same bytes and with
others), an import and an output that share their bytes, and either alone while
reconciliation runs; one crash or lost file in a behaviour. Two of anything is the
least that races; a third request meets the other two in rows and files that are
keyed by content or by output, where two already meet. The pair that shares bytes
goes without a crash: it is independent in everything else. Other behaviours of the run are
of `AssetLibrary`. Some have two refreshes, the least that overlap, of two Projects with
three Assets and pages of one; leases, which no refresh reads, are left out of these, and a
row whose content is missing, which they treat as Pending. The others have one refresh and
requests for an image or a video, with Ranges on both sides of every bound.

Bounds of `WorkflowEditing`: a menu of commands per behaviour instead of all of them:
a film (text, image, video: a chain with its profiles), a board (two images in
ordered references of a collage), and two callers who create, edit and start the
same. The menus hold each kind of action, each reason to refuse one, and an outage
of a profile. Revisions end with the menu.

Bounds of `AssistantChange`: two turns that propose; a turn whose resumption meets
another over the plan; one turn with edits of the user and the clock past the
approval's lifetime. Turns are model values; they differ by their scenario.
Crashes are not bounded.

Bounds of `RunController`: two Runs, so that a window that has moved on meets late
answers of the first; five events are a Run of one node from its admission to its
end; pages of three make the first Run two pages; one unhandled emission, one
cancel command, and one edit or failing call. The second Run's executor is slow
(`FullThenSlow`): it serves to be followed, not to end.

Bounds of `AssistantExchange`: three tool calls and IDs are a proposal, the
Reviewer's fetch and one more; six events and one text delta reach every budget
from either side.

Bounds of `NodeExecution`: three documents of three nodes that between them use every
contract and every way an output meets an input; batches of two; time in two stages,
within the deadline and past it; one cancellation; each Asset may be lost once.

Bounds of `Workspace`: eight scenarios instead of everything at once. Writing and
Linking: up to three edits of one film, a Run in between. Failing: an outage, a commit
of the Assistant, a turn, closing. Switching: drafts made before any Project is open
and while another is opened. Impatient: the same by a user who also edits, or opens
another Project, during `hydrate`. Hurrying: three Projects are opened one upon the
other, so that an opening that was superseded ends after the next one has begun; it
releases nothing (`Releases`), for its answer is thrown away. Managing: two callers
create and rename while the window lists pages of one row. Creating: a Project is opened
as soon as it is created. Three edits are one accepted, one in flight, one that waits
for its timer: enough for an older draft to overtake a newer one.

Two premises of these properties are weaker than one would wish of the code, which breaks
them otherwise (section 5). `scenario.patient` says that the user neither edits nor opens
a Project during `hydrate`; `BarrierSaves`, `RunIsWhatWasShown`, `EditsReachTheStore` and
the half of `SavedIsShown` about which Project a draft goes to have it, and TLC finds
each of them violated in Impatient without it. The other half of `SavedIsShown`, that
what is stored is a draft the window has shown, holds of every user. The second premise
is `made # <<>>` in `EditsReachTheStore`: the last draft was not replaced by the answer
to an older one that counted as the latest because its save had noted it again
(`Overtaken`). Only the draft so overtaken is exempt; the next one the user makes is not.

Bounds of `ProviderSettings`: one address, one model, two keys, two mounts of a
section, two commands. The proofs of section 4 need none of them.

`PromptHandoff` separates one disagreement from the rest: when it is TRUE no task
ends before the executor has committed the wait of its node. It is FALSE in both
safety runs and TRUE where it (section 5) would otherwise hide what else can go
wrong.

Fairness. `GenerationTask`: the worker loop of `lib.rs:194` runs until shutdown, so
`WF(WorkerStep)`; time passes; the executor commits its batch; the post-commit
worker finalizes Assets; startup is retried; and completion, which may be refused
transiently any number of times, is not refused forever (`SF(CompleteOrigin)`).
`WorkflowRun`: the loop of `lib.rs:210` runs every slot, capability calls carry a
deadline, and task workers run every task. `AssetContent`: the same loop, and
startup; requests, reconciliation and their deadlines are under no fairness.
`AssistantChange`: the same loop for each change, and a turn ends within its
deadline. `RunController`: the loop emits an event again until that is recorded
(`SF(Delivers)`, since room on the channel comes and goes); the window handles what
it is sent and its commands are answered. `AssistantExchange`: the runtime polls the
runner and its timers fire; nothing is assumed of the sidecar or of the models.
`NodeExecution`: the runtime polls the executor and every call. `Workspace`: the window
boots, renders, fires its timers and runs its queue and its barriers, and the backend
answers a mutation. No fairness is assumed of a cancellation, a crash, an edit, a
command, a decision or an error. The runs of the first two
exclude permanent errors (`HandlersMayFail`, `MayFail`), which strand effects by
design until a restart; `PendingSettles` and `ApprovedSettles` state instead, as a
premise, that the worker's failures come to an end.

Every property has a mutant in `PROJECT.json`: a plausible bug, put in place of a
mapped definition, that makes TLC report it violated under the same cfg.

## 4. Proofs

`GenerationTaskProofs` proves, for every deadline, interval, number of crashes and
set of routes:

| Theorem | States |
|---|---|
| `TypeCorrect` | `Spec => []TypeOK` |
| `CreatesAtMostOnce` | the provider's create call is made at most once |
| `HandoffFirst` | and not before the node's wait is committed |
| `OutcomeIsTold` | the node's outcome is the task's |
| `TerminalForever` | a terminal task is never rewritten |
| `PromiseKept` | `GenerationTask` implements `GenerationPromise` |
| `RecoveryRecognises` | the recovery reader knows every task and row a crash can leave |
| `CancellationIsKept` | a cancellation that was asked for is not forgotten |
| `RemoteWorkIsStopped` | a job that its Run no longer wants is asked to stop (without the task's own cancel command) |
| `StartupRefusesLittle` | all that startup refuses is half a handoff |

None is inductive by itself. `CreatesAtMostOnce` needs to know that a handler that
is about to create holds a task that was Queued when it began, and that this is
still so for the durable task. The strengthening `Inductive` says:

- `CopyIsCurrent`: a handler whose expected revision is the task's revision holds
  the task itself. This is what the optimistic check buys.
- `Fence`: a Queued task has no create; a handle, an answer, an Asset or a success
  proves exactly one; once there is one the node has left Running.
- `SubmitInFlight`: between Submitting and the answer nobody else submits.
- `SaveIsLegal`: a save that can pass the check neither leaves a terminal state nor
  returns to Queued.

The proof has one lemma per group of actions (`PreparingSteps`, `ProviderSteps`,
`DeliverySteps`, `SaveSteps`, `OtherSteps`) on top of two about the aggregate's
operations (`OperationTypes`, `OperationEffects`), and lemmas for what most
handlers do: `QuietAbandon`, `QuietPropose`, `QuietReschedule`. The only assumptions
are `TimeAssumption` and `ShapeAssumption` on the constants, which the runs evaluate.

`RecoveryRecognises` needs a second invariant, `Stored`: the outbox holds exactly the
row that takes the task on from its state (`NextEffect`, `Agree`), and what a handler
is about to save is a task with the row that fits it (`Fits`). A handler's step then
either leaves the rows aside (`Aside`) or proposes such a pair. From `Stored` follow
also what happens to a cancellation: once it is asked for, the only rows are those
of its end. `RemoteWorkIsStopped` assumes `~TaskCommand`, since with the task's own
cancel command TLC finds a task cancelled locally whose job goes on; no command of
the application calls it. `StartupRefusesLittle` adds `Heard`: only the answer of a
node that is settled, or of a Run that was interrupted, empties the outbox of a task.

`WorkflowRunProofs` proves, for every plan (cyclic ones included), number of slots,
batch size and number of crashes:

| Theorem | States |
|---|---|
| `TypeCorrect` | `Spec => []TypeOK` |
| `StartsInOrder` | a node starts only on inputs that exist |
| `CalledOnce` | the capability of a node is called at most once |
| `VerdictIsOfNodes` | the verdict of a Run is that of its nodes |
| `TerminalForever` | a Run that has ended changes no more |
| `PromiseKept` | `WorkflowRun` implements `RunPromise` |
| `NoWakeUpIsLost` | a Run that has not ended has somebody who drives it on |

The argument has two halves. `RunChanges` reduces every step of every actor to
eight changes of the Run itself (`Begins`, `Starts`, ..., `Interrupts`); it is where
the event count is used. What the changes keep (`UpstreamFirst`, `NodesOfState`,
`VerdictOfNodes`, the promise) then needs no look at slots, calls or tasks. The
other half keeps what `RunChanges` rests on:

- `CopyIsCurrent`: a copy with the Run's event count is the Run.
- `OneOwner`: the batches of two slots are disjoint, a node in a batch is not
  Pending, and one about to be called has never been called. Two executors cannot
  start one node because the second finds its copy stale, and later it is not
  Pending any more; after a crash it is not Pending either.
- `NodesOfState`: a Queued Run has only Pending nodes, an ended one (other than an
  interrupted one) only terminal nodes, a Blocked node a failed ancestor.
- `CompletionIsCurrent`: only a settled task notifies, and a completion whose event
  count is current completes a node that still waits.

`SlotMoves` and `NoticeMoves` say what a step does to a slot or a notice, so that
each action is opened once. The assumptions are `PlanAssumption` and
`BoundAssumption`.

`NoWakeUpIsLost` is the hardest of them to state inductively. `Driven` says that a Run
that has not ended has a claimable effect, a node whose task will still notify, or a
slot that is `Fresh`: busy, and with a copy that will make it look again or commit. A
slot with a stale copy is not who drives the Run; its commit is refused and it comes
back. `ClaimsAreHeld` ties a claimed row to the slot that works on it, and `WakesOnce`
says that effects and notices are used up once, so that a completion's effect cannot
be the one that was given up.

`AssetProofs` proves of `AssetContent`, for all requests, productions and incidents:

| Theorem | States |
|---|---|
| `AssetInvariant` | `Spec => []Inductive` |
| `BytesAreKept` | accepted bytes are staged or managed until the environment destroys them |
| `OutputIsOneAsset` | one node output is one Asset |
| `ContentRefinesPromise` | `AssetContent` implements `AssetPromise` |

What an actor has read may be old when it acts. `Inductive` says of each actor what of
it is still true (`RequestHolds`, `FinalizerHolds`, `StaleHolds`, `LateHolds`): rows only
move forward (`RowsMove`), files only from staging to managed storage while a row
refers to them (`FilesMove`), and what was read is closed under both (`Monotone`). An
actor moves by itself or not at all (`ActorsMove`), and a commit joins `late` only from an
actor that was entitled to it (`LateGrows`).

Of `AssetLibrary` it proves, for any number of Assets, Projects and refreshes, any page, any
lifetime of a lease and any Range:

| Theorem | States |
|---|---|
| `LibraryIsFresh` | at rest the library is no older than its last refresh |
| `PreviewsAnswer` | what a request is told fits its lease, the file and the Range |

`LibraryFits` says that a list, once read, misses an Asset that was there when its refresh
began only for want of room (`Covers`), and that this stays true while others arrive:
what is newer stays newer, so a full page stays full. While the newest refresh is under way
the library is loading; so what is shown at rest was shown by that one. `PreviewFits`
adds that every lease is of an Available row (`LeasesFit`) and what a request has passed
(`RequestFits`). The arithmetic of `ParseRange` against the bytes asked for is a lemma for
each form of a Range.

`AssistantProofs` proves of `AssistantExchange`, for all sets of call IDs and budgets:

| Theorem | States |
|---|---|
| `ExchangeInvariant`, `ExchangeTypeCorrect` | the invariant, and the types it implies |
| `VerdictsAreVouchedFor` | a verdict is of a change the Reviewer fetched |
| `NeverBothWait` | runner and sidecar never wait for each other |

Both rest on `Serial`: a tool call is a frame on its way, or in the runner's hands, or
answered by a frame on its way back, and never two of these. `Reviewed` adds which reads
were recorded for the change and what the verdict on its way says. The steps are those
of the runner (`Stops`, `ReadCases`) and of the sidecar (`Talks`, `Asks`).

Of `AssistantChange` it proves, for all turns, scenarios and lifetimes:

| Theorem | States |
|---|---|
| `ChangeInvariant`, `TypeCorrect` | the invariant, and the types it implies |
| `RowsRestore` | a stored change has the evidence of its state |
| `TurnResumesOnce` | a paused turn is resumed at most once |
| `PlanIsOneLine` | each write of the plan was made from the plan it replaces |
| `ChangeRefinesPromise` | `AssistantChange` implements `AssistantPromise` |

`StepOK` is the centre: the worker's place in its effect agrees with the row, so that a
step taken again after a release, a lost claim or a crash finds what the attempt
before it left. `ResumeOK` says that a continuation file is gone once its turn was
resumed and that no turn can write it again; `LineOK` that an applied change is the
receipt of its own revision; `ExchangeOK` and `DraftOK` what a turn holds of changes and
plan. Actions are reduced to a row written (`RowMoves`), a turn moved
(`ExchangeMoves`), a decision (`DecisionMoves`) or a place in the effect (`PlaceMoves`).

`WindowProofs` proves of Projects `ProjectsInvariant` and
`RequestsTakeEffectOnce`, for every set of callers and requests and whatever the window does. A transaction asks again what was
read before it: the receipt, which keeps a request from a second effect, and the
revision, which makes a version out of the newest one (`Fresh`, `Versions`). The rows
and receipts of the initial state are assumed to be what earlier commands made
(`ProjectsAssumption`).

`ListingsAreComplete`: a list that was read to its end has every Project that was there when it
began and was not renamed while it was read. `ListingFits` says that such a Project is among those
found or its row comes after the cursor (`NotMissed`). A page moves the cursor to its last
row; a row after the old cursor that is not on the page comes after that one, since fewer
rows than a page holds would otherwise precede it. A commit meanwhile moves a Project in
front of the cursor, but that one is no longer looked for (`CommitKeepsListing`).

Of the settings it proves, for all addresses, models, keys and numbers of commands:

| Theorem | States |
|---|---|
| `SettingsInvariant` | `SettingsSpec => []SettingsInductive` |
| `ConnectionsAreTested` | an enabled connection was tested as a whole, key included |
| `RevisionIsWhatWasSeen` | who has seen a revision has seen what is stored under it |

A connection is tested with a key that was read before the test and may be replaced
during it. `CallHolds` says why this is harmless: what a command holds is of an earlier
revision, and then it will change nothing, or it is still what is stored. Both theorems
state properties that no run repeats; TLC was given them, and `SettingsInductive`, before
they were proved.

Of the workspace it proves, for all contracts, Projects, edits, scenarios and barriers:

| Theorem | States |
|---|---|
| `SavedAsDrawn` | a mutation made from a document and a draft makes the whole draft of the document |
| `WindowIsSound` | `Spec => []WindowInvariant`, whatever the user does during an opening |
| `WorkspaceIsSound` | `Spec => [](scenario.patient => WorkspaceInvariant)` |
| `WindowStoresWhatItShows` | the window stores only drafts it has shown; if the user is patient, of that Project |
| `BarriersSave` | if the user is patient, a barrier lets go of what is on the canvas, accepted, and the last the window stored |
| `AdmittedRunsAreShown` | if the user is patient, a Run that is admitted as the newest revision is of what its barrier stored |

`SavedAsDrawn` is about the actions alone. `Apply` folds them, and the order in which the
window sends them is not the point: each node and each input has its own actions, none of
which disturbs another's (`SingleInputKinds`), so that what the last step holds of a node is
what its own actions have made of it. A least step that broke this would follow one that did
not (`LeastNumber`); this takes the place of an induction over the list. It needs that an
item is bound with an identity that no earlier one has (`IsBinding`). A mutation that the
backend refuses makes no document, and the theorem says nothing of it.

`WindowInvariant` needs no premise. What is queued has been shown, of some Project
(`ShownIsSound`); what the controller has accepted, and what an opening has loaded, is a
revision of its Project (`AcceptedIsStored`, `LoadsStored`); and the mutation in flight was
made from a revision of the Project it is sent to, and the draft at the head of the queue
(`SentIsSound`), even if another Project has been activated since. The backend applies it
to that very revision or refuses it, and then `SavedAsDrawn` says that it stores the whole
of that draft. `SentIsSound` speaks of any revision and not of the accepted one, because an
activation replaces the accepted document under a mutation in flight.

`WorkspaceInvariant`, of a patient user, has ten parts besides the forms of values (`Shaped`)
and `SavedIsShown` itself:

- `HistoriesAreSound`, `AcceptedIsSound`: what the controller has accepted is a revision of
  the store, followed only by the Assistant's (the mutation in flight counts once it is
  committed), and its view is marked as saved.
- `ShownIsSound`, `DraftsAreSafe`: what is drawn or queued has been shown, and is of the
  Project the controller is on or already saved. So a save that is left from a Project that
  was closed does nothing.
- `FlightIsSound`: the mutation in flight was made from the accepted document and the draft
  at the head of the queue; it keeps `latest` exactly while nothing newer is on the canvas.
- `SavingIsSound`, `BarrierIsSound`: a save that a barrier waits for is followed by
  nothing but what is drawn; when it has ended, and nothing moved, all is saved (`Still`),
  and remains so while the barrier asks once more and while a Project is loaded.
- `OpeningIsSound`, `OneIsCurrent`: at most one opening is current; the document it has
  loaded is no older than the accepted one. An opening that was superseded may end with
  anything, which is why `Releases` leaves it out: an attempt to prove `BarrierSaves`
  without that failed, and TLC confirmed it with three openings (Hurrying).
- `HeadsAreSound`: a head that a Run may ask for is an accepted revision.

TLC checked both invariants on the run's states before they were proved. Assumed are the
forms of the inputs (`WorkspaceAssumption`): Workflows stored before are revisions in order
that the window can show (`StoredBefore`, which is what `WorkflowEditing`'s theorems and the
built-in contracts give: single inputs only), the library adds nodes with parameters of
their contract (`IsEdit`), and the Assistant's changes are of single inputs (`AreChanges`).
Of an impatient user `WorkspaceInvariant` is false (section 5): an edit made while a Project
is opened belongs to neither of the two.

`WorkflowEditingProofs` proves, for every registry of contracts, every menu of commands
and every number of callers:

| Theorem | States |
|---|---|
| `EditingInvariantHolds` | `Spec => []EditingInvariant` |
| `DocumentsAreSound` | every committed revision is well formed and acyclic |
| `EditingRefinesPromise` | `WorkflowEditing` implements `EditingPromise` |
| `PlansInvariantHolds` | what is admitted was frozen from a committed document found ready |
| `AdmittedPlansRun` | an admitted plan can be executed to its end in its order, and the plan's own check refuses only an empty document |
| `FreshIsReproducible` | fresh is exactly what would be frozen again |

`EditingInvariant` says that the receipts are one line of documents, numbered by
their revisions, of which the row is the last; that a Run has one admission; and, of each
call, what its step may rely on after an await: it holds a document that some receipt
still has, and what it will commit is the result of `Apply` on that. No lock makes this
so: receipts are never rewritten (`Kept`), hence what a call was told stays true whatever
the others commit (`CallKeeps`), and the check of revision and receipt inside its own
transaction makes it the newest (`EditIsNext`, `CreationIsFirst`) or refuses it. For
the refinement the line of revisions is read off the receipts, and each commit appends
one (`LineGrows`); every other step changes nothing a caller can tell.

`DocumentsAreSound` needs that a command, however long, ends in a document that was
validated; `StepsDefined` and `StepsWork` follow its actions one by one. The
recursive functions (`Applied`, `Visit`, `Grow`, `Placed`) are unfolded by the least number
or smallest set for which a claim would fail (`LeastNumber`, `SmallestSubset`), not by
the library's induction. `NoCycles` is the search that rejects cycles: a set of nodes
each with a source in it cannot be visited to an end. `AdmittedPlansRun` uses that twice:
whatever is left unplaced has a least ready node, so placing ends with all selected
(`PlaceOneMore`, `OrderIs`), and so the check the plan makes of itself finds nothing
(`FrozenPlansAreValid`). `FreshIsReproducible` compares two closures, in the frozen
bindings and in today's document: each is the least closed set (`UpwardIs`), and they
are the same while the nodes in it agree (`SameUpward`).

The proof found an error of the model: a creation whose request was known was answered
without comparing its command, which the code does
(`workflow/use_case.rs`, `WorkflowCreateUseCase`). With it the promise that an
answer is of the caller's own command had no proof.

`RunControllerProofs` proves, for any number of Runs and events, any size of a page and
any capacity of the channel:

| Theorem | States |
|---|---|
| `WindowInvariantHolds` | `Spec => []WindowInvariant` |
| `TypeCorrect` | the types; a repair holds back the emission it is for |
| `WindowShowsPrefix` | the window shows the first events of the Run it follows, each once, in order |
| `OutcomesAreCommitted` | it shows no outcome but the committed one |

A log is `WellOrdered`: an end is the last event, and the outcome of a node follows its
start and comes right before the end. Every commit leaves it so, and only continues it
(`Grows`); so what was emitted or read stays true. The window's set of seen events is an
initial segment, and an event that it has or the next one keeps it one (`AcceptFits`);
`PageFits` unfolds the acceptance of a page by the least event for which this would fail.
That nothing hands the window more than the next event is the rest. A page begins behind
the cursor of its call, and the cursor is not beyond what the window has as long as it
still follows that Run; it never follows a Run again, so a late page is ignored
(`CallFits`). A repair's last page contains the emission it holds back (`GapFits`), which
is why the emission may be accepted after it. `CancelFits` says that an answer
`cancelled` is of a Run that has ended so.

`NodeExecutionProofs` proves, for every set of stored and ready documents over the built-in
contracts, every catalogue of profiles, every Library and every concurrency:

| Theorem | States |
|---|---|
| `CallsAreSound` | `Spec => []Inductive` |
| `OutcomesAreReadBack` | every outcome a call can come to is read back from its row as it was |
| `NodesAndTasksAgree` | a task is for what the plan froze; a node waits only for a task that exists, and one whose capability failed has left none |
| `AdmittedIsNeverRefused` | a plan that was ready is not refused by the checks its execution repeats |

The checks of admission and of execution are different code over different data: a
document before, a plan, inputs and routes after. `PlanFits` says what freezing a ready
document yields: for each node a registered contract, parameters within their
constraints, bindings whose sources come before and have the type and count the input
asks for. `RowFits` has for each node what its state says of its outcome, `ExecutorFits`
what the executor is about to do with it, `CallsFit` for each place of a call the
contracts that have such a place and what it holds there, `TasksFit` and `AssetsFit` what
was left behind. An input is built from outputs that are all there (a node begins when its
sources have succeeded) and of the types `PlanFits` promised, so that every check finds
what it looks for; the proof goes contract by contract (`TextContract` to
`SpeechContract`). Assumed are what the composition root registers and routes
(`CompositionAssumption`), that the documents were stored and found ready
(`ExecutionAssumption`, which is what `AdmittedPlansRun` and `DocumentsAreSound` give), and
that recorded Assets have fresh identities (`IdentityAssumption`).

Some theorems state properties that no run repeats: `CreatesAtMostOnce`, `HandoffFirst`,
`OutcomeIsTold`, both `TerminalForever`, `VerdictIsOfNodes`, `StartsInOrder` and the
`TypeCorrect`s, since what they say is in the refinements, or types; and
`CancellationIsKept`, a plain consequence of the same invariants.

Proving showed some `CASE`s of the models to overlap: TLC takes the first arm
that is true, the logic any. They are disjoint now, as the code's early returns are.

Only model-checked:

- Liveness, which the prover does not reach under fairness: `EventuallyNotified`,
  `RunEnds`, `PendingSettles`, `ApprovedSettles`, `WindowLearnsTheEnd`, `ExchangeEnds`,
  `CallsSettle`, `EditsReachTheStore`.

## 5. Where code and documentation disagree

One is a run that TLC must find violated; the quotes are in `PROJECT.json`.

`ProviderSettings_order` - a route that is set again goes to the end of the list
(`provider_settings.rs:181`) and the list is stored as it is, but every reader refuses
one that is not in the order of its profiles (`current_config.rs:176`). Switching the
image or the speech profile off and on in the settings dialog makes the configuration
unreadable: all settings commands fail, no sidecar is launched, and the next start is
refused (`backend_settings_adapter.rs:163`).

The models contain the following too. The runs above do not single them out; where
one would hide other errors, a constant or a premise keeps it out of a run.

Generation Task and Run:

- A crash while a Workflow effect of a healthy Run is Claimed makes the next startup
  fail: the adapter's replay statement matches Asset and Assistant effects only
  (`sqlite.rs:183`, against `docs/BACKEND_APPLICATION.md:387`). TLC finds
  `SafeEffectsAreReplayed` of `WorkflowRun` violated.
- A task that ends before its node has committed the wait loses its notification
  until the next restart (`generation_task_completion.rs:190`, against
  `docs/BACKEND_TASK.md:829-830`). TLC finds `EventuallyNotified` violated in
  `GenerationTask_liveness` with `PromptHandoff = FALSE`.
- A crash between the committed wait and the first submission makes startup fail: the
  classification knows (Running, Queued), (Waiting, Active or to be notified) and
  (Running, none), not a waiting node with a Queued task (`restart_recovery.rs:66`,
  against `docs/BACKEND_TASK.md:812-814` and `BACKEND_WORKFLOW.md:387-389`).
  `OnlyHalfHandoffsRefused`, checked and proved, says that this pair is all that is
  refused.
- Progress that vanishes strands the poll effect, and the task never expires
  (`aggregate.rs:150`, against `BACKEND_TASK.md:366` and `:299`); the same with
  `ProgressReports <- VanishingProgress`.
- A task claimed after its deadline is still submitted (`submit_effect.rs:71`, against
  `BACKEND_TASK.md:324`).
- An active call is never told of a cancellation when a second executor of the Run
  has cleared the registry (`run_execution.rs:84`, against
  `docs/BACKEND_WORKFLOW.md:329-330`); two executors exist because the claim does not
  exclude them (`sqlite.rs:207`, against `docs/BACKEND_APPLICATION.md:355`).
- An executor whose commit loses the race drops its batch, and the nodes of the
  batch stay Running with nobody to run them: the effect is retried, `finish` is
  refused, and so forever. `RunEnds` holds only up to such nodes (`Orphaned`). A batch
  that fails strands the claims of its other slots until a restart (`Stranded`).

Assets:

- `BACKEND_APPLICATION.md:403` says that inline requests "claim their just-committed
  finalization immediately". They run it unclaimed, beside the worker, and a caller
  may be told `ContentMissing` of an Asset that is Available.
- A finalization whose staging file is deleted between the worker's open and its
  hash is abandoned although another actor has published the content
  (`PendingSettles` excludes `touched` Assets).
- Reconciliation is wired in tests only: a staging file orphaned by a crash or a
  deadline is never removed in production. `restore_missing_content` has no caller.
- `importAsset` awaits the import and then calls the refresh of the render it was called in
  (`useAssets.ts:57`). If another Project was opened meanwhile, this refresh of the one that
  was left is the newest, and its Assets stay in the library of the other, against
  `useAssets.ts:35` ("A newer refresh (for example after a project switch) supersedes this
  one.") and `docs/ROADMAP.md:211` (UI-38), which lists the effect as fixed. TLC finds
  `LibraryIsOfProject` violated in the run `AssetContent` with `MaxRefreshes = 3`.
- Against `docs/BACKEND_ASSETS.md:459-505`: HEAD opens, hashes and reads the file like GET, the
  handler holds the whole file instead of streaming it, and its deadline does not bound the
  reading.

Editing and admission:

- The admission transaction does not look at the Workflow's revision again. The
  plan is of the revision that was asked for, which may not be the latest.
- Of two starts with one request identity in flight, the second is told
  `WorkflowPersistenceFailure`: it ignores the receipt it gets back and loads its
  own Run (`run_admission.rs:200`), against `BACKEND_WORKFLOW.md:208-209`. Likewise a
  concurrent duplicate of a mutation or a creation may be told of a conflict
  although its own request was committed.
- A draft is validated with `normalize_node_parameters` (`aggregate.rs:145-160`), so a
  node that lacks a required parameter is refused, against
  `BACKEND_WORKFLOW.md:76-88` and `:100-103`; the minimum of ordered references is
  enforced in drafts as well.
- Any storage error of a creation is reported as AlreadyExists; a Workflow with a
  node of an unregistered contract cannot be loaded.

Assistant:

- Nothing calls `mark_apply_failed` or `expire`. An approved change that an edit of the
  user has overtaken stays Applying and is retried every second for good
  (`executor.rs:160`, against `docs/BACKEND_ASSISTANT.md:212-213`); one that is
  AwaitingApproval past its expiry keeps the index `assistant_one_pending_approval`
  taken, and later reviews of the session fail.
- A consumed continuation and a crash end as Interrupted; a Reject and a crash leave
  the file; a resumed turn runs outside the registry of active turns (against
  `BACKEND_ASSISTANT.md:269`) and holds a slot of the worker.
- A start blocked by readiness is retried for good; the approval is checked against
  a time sampled before the load.
- InvocationCompleted is published to the window before the process is seen to leave
  with success; a launch that fails publishes no InvocationFailed.
- The runner never sends InvocationCancel; the Rust side counts only starts and
  resumptions as model turns, so that its budget of 16 is never reached.
- A continuation of another model route is refused before the invocation is accepted
  (`protocol_v1_app.py:82`), where the runner's validator admits nothing but the
  acceptance (`state.rs:87`): the turn ends as ProtocolViolation, against
  `BACKEND_ASSISTANT.md:460-461` (`ContinuationIncompatible`). The test
  (`assistant_model_runner/tests.rs:210`) has a scripted sidecar that accepts first.
- The co-author's `get_change` ends the turn unless it is the first fetch of a
  Proposed change: the dispatcher cannot tell it from the Reviewer's.

Window, the Run it follows:

- A page of events that was requested before a cancellation and arrives after its
  answer makes the window show a Run that goes on: the answer has stopped the
  listener, and Cancel does nothing any more (`useRunController.ts:134`).
- A page request that fails during a repair rejects the event chain, and nothing
  resets it: later emissions are not handled (`useRunController.ts:92`, against
  `BACKEND_APPLICATION.md:462`). A first repair that fails shows "failed" while the Run
  goes on.
- A refused cancel overwrites "succeeded" with a failed cancel, whose retry does
  nothing; a late failure of a cancel command overwrites the status of a newer Run.

Window, the Workflow it edits:

- A queued save of an older draft notes that draft again when it starts
  (`canonicalWorkspaceController.ts:68`): with one save in flight, its draft queued and
  a third edit waiting for its timer, the answer replaces the third on the canvas, and it
  is lost without a failure (against `docs/DESKTOP_UI.md:795`). Without `made # <<>>`
  TLC finds `EditsReachTheStore` violated by this.
- The asset picker of the inspector stores an object (`InspectorPanel.tsx:23`, pinned by
  its test at `:43`), which `canonical.ts:187` refuses: every later save fails. An
  asset node "may start empty from the palette" (`App.tsx:221`), but the backend refuses
  a node that lacks a required parameter.
- Deleting a node whose output is used sends its removal before that of the binding
  (`canonical.ts:99-105`), which the backend refuses: saving fails for good.
- A Project that is being opened is checked before its document is loaded, not after
  (`useProjectWorkspace.ts`): of two that are opened the slower one wins, and edits
  made meanwhile are sent to the one that arrives, or lost; a Run or another barrier may
  go ahead of them. Of a user who is not patient TLC finds violated that a draft is
  stored in its own Project (`SavedIsShown`), `BarrierSaves`, `RunIsWhatWasShown` and
  `EditsReachTheStore`. A late answer of a rename shows its Project again.
- The first draft of a window without a Project replaces the Workflow of the Project
  that is then opened; two opens of a fresh Project both create its Workflow, and the
  second one is told of an error.
- Editing back to the draft in flight leaves the drawn head old, and a Run right after
  a barrier's save may use the head before it: both are refused by the backend.
- A revision conflict with a commit of the Assistant is never followed by a reload
  (against `DESKTOP_UI.md:432`); after a failed save, going back to the saved draft
  leaves barriers failing; a save that fails at a barrier restores the head of when the
  barrier was asked for; edits made while a close waits for its save are lost.
- Images with a profile and an aspect ratio always send a replacement of parameters.

Settings: disabling the Assistant with an old revision shows the conflict without the
reload that `DESKTOP_UI.md:659` promises.

## 6. Not modelled, and why

- DTOs, canonical hashes, codecs of persisted rows (but that of node outcomes) and
  composition are data and wiring. Panels and canvas are I/O. Credentials of
  generation providers have no user: the mocks take none.
- Providers: the mocks are deterministic; the models allow every answer of the
  provider interface instead.
- The legacy graph executor, its registry, cache and patches
  (`crates/engine/src/executor.rs`, `workflow_patch`, `crates/assets/src/store.rs`) are
  not reached from the desktop's commands.
- Several tasks in the worker's pool: they share the pool and the clock only, and the
  product of two tasks is out of TLC's reach. What a failing handler does to its
  neighbours is listed as a hazard.
- Wall clocks that go back between two processes; the order of Runs by wall clock
  (`load_latest_run_for_node`).
- Activation of a repair by the Assistant (`repair_activation.rs`) has no caller.

## 7. Plan

Done: `GenerationTask`, `WorkflowRun`, `AssetContent`, `WorkflowEditing`,
`AssistantChange` with their promises and the proofs of both their invariants and
refinements; `AssistantExchange`, `RunController` with `EventDelivery`, `NodeExecution`,
`AssetLibrary`, `ProviderSettings`, `Projects` and `Workspace` with proofs. Left:

1. The restore checks of a stored Run (`run/restore.rs`) as an invariant of `WorkflowRun`.
2. Later pages of the library, once the window asks for them.
3. The theorems about `Workspace` that say `scenario.patient` without it, once section 5's
   edits during an opening are prevented by the code.
