----------------------------- MODULE Workspace ------------------------------
(***************************************************************************)
(* The window's workspace: the Project that is open, the draft on the      *)
(* canvas, the autosave that carries the draft to the backend, and the     *)
(* barriers that hold a Run, an Assistant turn, the opening of another     *)
(* Project or the closing of the window until the draft is saved.          *)
(*                                                                         *)
(* JavaScript runs one task at a time and then the continuations it has    *)
(* made ready: an edit, a timer, an answer of the backend and a rendering  *)
(* wait until Settled, the steps of the save queue and of the barriers do  *)
(* not.  The backend commits on its own.                                   *)
(***************************************************************************)
EXTENDS Projects, EditorDocument

CONSTANTS
  Scenarios,          \* what may happen, one per behaviour
  Waits               \* the barriers that may be waited for: name -> kind

\* What a Workflow's history, and a change of the Assistant's, is made of.
IsList(s) == s \in Seq(ToSet(s))
Revisions(h) ==
  /\ \A i \in DOMAIN h : Showable(h[i].document)
  /\ \A i, j \in DOMAIN h : i < j => h[i].document.revision < h[j].document.revision
StoredBefore(workflows) ==
  /\ DOMAIN workflows = ProjectIds /\ IsMap(workflows)
  /\ \A p \in ProjectIds :
       /\ IsList(workflows[p]) /\ Revisions(workflows[p])
       /\ \A i \in DOMAIN workflows[p] : workflows[p][i].by = "earlier"
AreChanges(actions) == IsList(actions) /\ \A i \in DOMAIN actions : IsChange(actions[i], 0)

(* A scenario is [committed, workflows, callers, edits, most, waits,       *)
(* opens, assistant, outages, patient]: the receipts and Workflows there    *)
(* are, the callers of Project commands, the edits and how many, the       *)
(* barriers, the Projects they open, the Assistant's changes, how often    *)
(* the backend fails, whether the user waits while a Workflow is loaded.   *)
ASSUME WorkspaceAssumption ==
  /\ \A w \in DOMAIN Waits : Waits[w] \in {"run", "assistant", "close", "open"}
  /\ \A s \in Scenarios :
       /\ s.waits \subseteq DOMAIN Waits /\ s.opens \subseteq ProjectIds
       /\ s.callers \subseteq Callers /\ MadeBefore(s.committed) /\ s.patient \in BOOLEAN
       /\ StoredBefore(s.workflows)
       /\ \A e \in s.edits : IsEdit(e)
       /\ \A actions \in s.assistant : AreChanges(actions)

VARIABLES
  scenario,
  store,      \* Project -> the revisions of its Workflow: [document, by]
  shown,      \* Project -> the drafts the window has shown of it, in order
  window,     \* the state React keeps
  drawn,      \* what is rendered of it
  made,       \* history: the draft last made or opened, if no older one has replaced it
  allowance,  \* how many edits and failures of the backend there may still be
  timer,      \* the autosave timer: no draft or one
  persisted,  \* persistedWorkflows: Project -> the draft known to be saved
  saves,      \* saveQueue: drafts; the first is begun when there is a flight
  flight,     \* the mutation the controller waits for, if any
  control,    \* CanonicalWorkspaceController
  waits       \* runAfterBarrier and openProject calls

windowVars == <<window, drawn, made, shown, allowance, timer, control, waits>>
workspaceVars == <<scenario, store, persisted, saves, flight, windowVars>>
vars == <<projectVars, workspaceVars>>

NoOne == 0
Kind(w) == Waits[w]
Draft(p, view) == [project |-> p, view |-> view]
View(document) == CanonicalToEditor(document)
Newest(p) == Last(store[p]).document
Saved(draft) == draft.project \in DOMAIN persisted /\ persisted[draft.project] = draft.view

\* getWorkflow: a Run takes the head only while the workspace is ready.
Draw(w) == [project |-> w.project, view |-> w.view,
            head |-> IF w.phase = "ready" THEN w.head ELSE <<>>]
Hydrating == \E w \in DOMAIN Waits : waits[w].pc \in {"loading", "loaded", "refused"}
Settled ==
  /\ saves = <<>> \/ flight # <<>>
  /\ \A w \in DOMAIN Waits : ~(waits[w].pc \in {"saving", "flushing"} /\ waits[w].left = 0)

----------------------------------------------------------------------------
(* Drafts.                                                                 *)

\* Mutant: the answer to an older draft is taken for the latest one.
NotedLast(draft, fl, ctl) == flight' = fl /\ control' = [ctl EXCEPT !.noted = <<draft>>]
\* noteDraft: a draft that differs makes the answer to an older one late.
Note(draft, fl, ctl) ==
  /\ flight' = IF fl = <<>> THEN <<>>
               ELSE <<[fl[1] EXCEPT !.latest = @ /\ ctl.noted = <<draft>>]>>
  /\ control' = [ctl EXCEPT !.noted = <<draft>>]

\* A rendering: the workflow is a new object to the timer and to saveCurrent.
Redraw(w) ==
  LET draft == Draft(w.project, w.view)
      Adds(views) == IF views # <<>> /\ Last(views) = w.view THEN views ELSE Append(views, w.view)
  IN /\ window' = w /\ drawn' = Draw(w)
     /\ IF w.project = NoOne THEN UNCHANGED <<shown, timer, flight, control, waits>>
        ELSE /\ Note(draft, flight, control)
             /\ timer' = <<draft>>
             /\ shown' = [shown EXCEPT ![w.project] = Adds(@)]
             /\ waits' = [v \in DOMAIN Waits |-> [waits[v] EXCEPT !.moved = TRUE]]

\* The actions of the user that edit; a parameter is edited whatever the phase.
CanEdit(e) ==
  /\ window.phase \in {"no_project", "ready"} \/ (e.kind = "param" /\ window.phase # "closed")
  /\ scenario.patient => ~Hydrating
Edit(e) ==
  /\ Settled /\ drawn = Draw(window) /\ CanEdit(e) /\ allowance.edits > 0
  /\ Applicable(window.view, e) /\ Edited(window.view, e) # window.view
  /\ allowance' = [allowance EXCEPT !.edits = @ - 1]
  /\ Redraw([window EXCEPT !.view = Edited(@, e),
                           !.unassigned = @ \/ window.project = NoOne])
  /\ made' = <<Draft(window.project, Edited(window.view, e))>>
  /\ UNCHANGED <<projectVars, scenario, store, persisted, saves>>

Render ==
  /\ Settled /\ window.phase # "closed" /\ drawn # Draw(window)
  /\ Redraw(window)
  /\ UNCHANGED <<projectVars, scenario, store, persisted, saves, allowance, made>>

----------------------------------------------------------------------------
(* The save queue and the controller's mutation.                           *)

\* Waiting ends for the operation at the head of the queue; queue are the others.
\* Mutant: a save that fails is one that has ended.
FinishedAnyhow(queue, ok, ws) ==
  /\ saves' = queue
  /\ waits' = [w \in DOMAIN Waits |->
       IF ws[w].pc \in {"saving", "flushing"} /\ ws[w].left > 0
       THEN [ws[w] EXCEPT !.left = @ - 1, !.ok = TRUE] ELSE ws[w]]
Finished(queue, ok, ws) ==
  /\ saves' = queue
  /\ waits' = [w \in DOMAIN Waits |->
       IF ws[w].pc \in {"saving", "flushing"} /\ ws[w].left > 0
       THEN [ws[w] EXCEPT !.left = @ - 1, !.ok = ok] ELSE ws[w]]

TimerFires ==
  /\ Settled /\ timer # <<>> /\ window.phase # "closed"
  /\ saves' = Append(saves, timer[1]) /\ timer' = <<>>
  /\ UNCHANGED <<projectVars, scenario, store, persisted, flight, window, drawn, made, shown,
                 allowance, control, waits>>

\* persist, and enqueueDraft on an idle controller.
BeginSave ==
  LET draft == Head(saves)
      Changes == IF control.project = NoOne THEN {}
                 ELSE EditorMutationActions(control.accepted, draft.view)
      Sent(actions) == [project |-> control.project, base |-> control.accepted.revision,
                        actions |-> actions, draft |-> draft, latest |-> TRUE,
                        current |-> TRUE, reply |-> "none", document |-> control.accepted]
  IN /\ saves # <<>> /\ flight = <<>>
     /\ IF Saved(draft) \/ Changes \in {{}, {<<>>}}
        THEN /\ Finished(Tail(saves), Saved(draft) \/ Changes # {}, waits)
             /\ UNCHANGED flight
             /\ control' = IF Saved(draft) THEN control ELSE [control EXCEPT !.noted = <<draft>>]
             /\ persisted' = IF Saved(draft) \/ Changes = {} THEN persisted
                             ELSE Put(persisted, draft.project, draft.view)
        ELSE /\ \E actions \in Changes : flight' = <<Sent(actions)>>
             /\ control' = [control EXCEPT !.noted = <<draft>>]
             /\ UNCHANGED <<persisted, saves, waits>>
     /\ UNCHANGED <<projectVars, scenario, store, window, drawn, made, shown, allowance, timer>>

\* The command fails for a reason of the backend's own, before it commits.
Outage == allowance.outages > 0 /\ allowance' = [allowance EXCEPT !.outages = @ - 1]

\* workflow_apply_mutation: one transaction, refused for another revision.
CommitMutation ==
  LET f == flight[1]
      newest == Newest(f.project)
      results == IF newest.revision = f.base THEN Apply(newest, f.actions, 0) ELSE {}
      Reply(reply, document) ==
        flight' = <<[f EXCEPT !.reply = reply, !.document = document]>>
  IN /\ flight # <<>> /\ f.reply = "none"
     /\ \/ /\ \E d \in results :
                /\ store' = [store EXCEPT ![f.project] = Append(@, [document |-> d, by |-> "window"])]
                /\ Reply("ok", d)
           /\ UNCHANGED allowance
        \/ results = {} /\ Reply("refused", f.document) /\ UNCHANGED <<store, allowance>>
        \/ results # {} /\ Outage /\ Reply("refused", f.document) /\ UNCHANGED store
     /\ UNCHANGED <<projectVars, scenario, persisted, saves, window, drawn, made, shown, timer,
                    control, waits>>

\* workflowChanged, for the answer to the latest draft.
Published(w, document, project) ==
  [w EXCEPT !.view = View(document),
            !.phase = IF w.of = project THEN "ready" ELSE @,
            !.head = IF w.of = project THEN <<document>> ELSE @]
\* The save of a queued draft notes it again when it begins, although the user has
\* made another since: it counts as the latest.
Overtaken(f) == control.noted = <<f.draft>> /\ made # <<f.draft>>
AnswerMutation ==
  LET f == flight[1]
      ok == f.reply = "ok"
      published == IF f.latest THEN Put(persisted, f.project, View(f.document)) ELSE persisted
  IN /\ Settled /\ flight # <<>> /\ f.reply # "none" /\ window.phase # "closed"
     /\ flight' = <<>>
     /\ control' = IF ~f.current THEN control
                   ELSE IF ok THEN [control EXCEPT !.accepted = f.document, !.failure = FALSE]
                   ELSE [control EXCEPT !.failure = TRUE]
     /\ window' = IF ok /\ f.latest THEN Published(window, f.document, f.project) ELSE window
     /\ made' = IF ok /\ f.latest /\ Overtaken(f) THEN <<>> ELSE made
     /\ persisted' = IF ok THEN Put(published, f.draft.project, f.draft.view) ELSE persisted
     /\ Finished(Tail(saves), ok, waits)
     /\ UNCHANGED <<projectVars, scenario, store, drawn, shown, allowance, timer>>

\* The Assistant's change of the Workflow of an open or another Project.
AssistantCommits(p, actions) ==
  /\ \A i \in DOMAIN store[p] : store[p][i].by # "assistant"
  /\ store[p] # <<>>
  /\ \E d \in Apply(Newest(p), actions, 0) :
       store' = [store EXCEPT ![p] = Append(@, [document |-> d, by |-> "assistant"])]
  /\ UNCHANGED <<projectVars, scenario, persisted, saves, flight, windowVars>>

----------------------------------------------------------------------------
(* Barriers: saveCurrent, then the controller's flush, then the action.    *)

\* again: it opens the Project that is open; before, head: what it returns to.
Asleep ==
  [pc |-> "new", left |-> 0, ok |-> TRUE, moved |-> FALSE, since |-> 1, of |-> NoOne,
   target |-> NoOne, again |-> FALSE, before |-> NoOne, head |-> <<>>, started |-> FALSE,
   current |-> FALSE, keep |-> FALSE, fresh |-> FALSE, document |-> EmptyDocument(0)]

\* saveCurrent has returned: the barrier awaits what the controller is doing.
Flushing(wait) ==
  [wait EXCEPT !.pc = "flushing", !.left = Len(flight), !.of = drawn.project,
               !.since = IF drawn.project = NoOne THEN 1 ELSE Len(shown[drawn.project])]
\* persist(current), or nothing when no Project is open; ws are the other barriers.
SaveCurrent(w, wait, ws) ==
  IF drawn.project = NoOne
  THEN waits' = [ws EXCEPT ![w] = Flushing(wait)] /\ UNCHANGED saves
  ELSE /\ saves' = Append(saves, Draft(drawn.project, drawn.view))
       /\ waits' = [ws EXCEPT ![w] = [wait EXCEPT !.pc = "saving", !.moved = FALSE,
                                                  !.left = Len(saves) + 1]]

\* Run, an Assistant turn, or closing the window.
Ask(w) ==
  /\ Settled /\ drawn = Draw(window) /\ w \in scenario.waits /\ waits[w].pc = "new"
  /\ \/ Kind(w) \in {"run", "assistant"} /\ window.phase = "ready"
     \/ Kind(w) = "close" /\ window.phase # "closed"
  /\ SaveCurrent(w, Asleep, waits)
  /\ UNCHANGED <<projectVars, scenario, store, persisted, flight, window, drawn, made, shown,
                 allowance, timer, control>>

\* A Project whose command has been answered can be opened without a listing.
Known == {calls[c].answer.id : c \in {c \in Callers : calls[c].pc = "done"}}
\* openProject: a Project that is open and ready is only saved.
OpenProject(w, p) ==
  LET same == p = window.project /\ window.phase = "ready"
      asked == [Asleep EXCEPT !.target = p, !.again = same, !.before = window.project,
                              !.head = window.head, !.current = TRUE]
      others == [v \in DOMAIN Waits |-> [waits[v] EXCEPT !.current = FALSE]]
  IN /\ Settled /\ drawn = Draw(window)
     /\ w \in scenario.waits /\ Kind(w) = "open" /\ waits[w].pc = "new"
     /\ window.phase \notin {"booting", "closed"} /\ (scenario.patient => ~Hydrating)
     /\ p \in scenario.opens /\ p \in listing.found \cup Known
     /\ window' = IF same THEN window
                  ELSE [window EXCEPT !.phase = "opening", !.of = window.project]
     /\ SaveCurrent(w, asked, others)
     /\ UNCHANGED <<projectVars, scenario, store, persisted, flight, drawn, made, shown,
                    allowance, timer, control>>

Over(w, pc) == waits' = [waits EXCEPT ![w].pc = pc]
\* What the catch of openProject does: back to what was there, or blocked.
GivenUp(wait) ==
  [window EXCEPT !.phase = IF wait.started THEN "blocked"
                           ELSE IF wait.before = NoOne THEN "no_project" ELSE "ready",
                 !.of = wait.before, !.head = wait.head]
Fails(w) ==
  /\ Over(w, "failed")
  /\ window' = IF waits[w].current THEN GivenUp(waits[w]) ELSE window

\* Mutant: an edit made during the save is left to its timer.
SavedOnce(w) ==
  /\ waits[w].pc = "saving" /\ waits[w].left = 0
  /\ IF waits[w].ok THEN /\ waits' = [waits EXCEPT ![w] = Flushing(@)]
                         /\ UNCHANGED <<saves, window>>
     ELSE Fails(w) /\ UNCHANGED saves
  /\ UNCHANGED <<projectVars, scenario, store, persisted, flight, drawn, made, shown,
                 allowance, timer, control>>
\* The loop of saveCurrent: a draft that has changed meanwhile is saved as well.
SaveEnds(w) ==
  /\ waits[w].pc = "saving" /\ waits[w].left = 0
  /\ \/ waits[w].moved /\ SaveCurrent(w, waits[w], waits) /\ UNCHANGED window
     \/ /\ ~waits[w].moved /\ waits[w].ok
        /\ waits' = [waits EXCEPT ![w] = Flushing(@)] /\ UNCHANGED <<saves, window>>
     \/ ~waits[w].moved /\ ~waits[w].ok /\ Fails(w) /\ UNCHANGED saves
  /\ UNCHANGED <<projectVars, scenario, store, persisted, flight, drawn, made, shown,
                 allowance, timer, control>>

\* The action behind the barrier; opening a Project has a barrier before the
\* question and one after the answer.
Release(w) ==
  CASE Kind(w) = "close" -> Over(w, "over") /\ window' = [window EXCEPT !.phase = "closed"]
    [] Kind(w) = "open" /\ ~waits[w].again /\ ~waits[w].started ->
         waits' = [waits EXCEPT ![w].pc = "asking", ![w].started = TRUE] /\ UNCHANGED window
    [] Kind(w) = "open" /\ waits[w].started /\ waits[w].current ->
         /\ waits' = [waits EXCEPT ![w].pc = "loading",
                        ![w].keep = waits[w].before = NoOne /\ window.unassigned]
         /\ UNCHANGED window
    [] OTHER -> Over(w, "over") /\ UNCHANGED window
FlushEnds(w) ==
  /\ waits[w].pc = "flushing" /\ waits[w].left = 0
  /\ IF control.failure THEN Fails(w) ELSE Release(w)
  /\ UNCHANGED <<projectVars, scenario, store, persisted, saves, flight, drawn, made, shown,
                 allowance, timer, control>>

\* api.openProject tells whether the Project has a Workflow.
AnswerOpen(w) ==
  /\ Settled /\ waits[w].pc = "asking" /\ window.phase # "closed"
  /\ \/ /\ SaveCurrent(w, [waits[w] EXCEPT !.fresh = store[waits[w].target] = <<>>], waits)
        /\ UNCHANGED <<window, allowance>>
     \/ Outage /\ Fails(w) /\ UNCHANGED saves
  /\ UNCHANGED <<projectVars, scenario, store, persisted, flight, drawn, made, shown, timer, control>>

\* hydrate asks for the capabilities and then for the Workflow: it creates the one
\* there was not, and is refused if there is one by now.
LoadWorkflow(w) ==
  LET p == waits[w].target
      created == EmptyDocument(0)
      Loaded(d) == waits' = [waits EXCEPT ![w].pc = "loaded", ![w].document = d]
  IN /\ waits[w].pc = "loading"
     /\ \/ ~waits[w].fresh /\ Loaded(Newest(p)) /\ UNCHANGED <<store, allowance>>
        \/ /\ waits[w].fresh /\ store[p] = <<>> /\ Loaded(created)
           /\ store' = [store EXCEPT ![p] = <<[document |-> created, by |-> "window"]>>]
           /\ UNCHANGED allowance
        \/ waits[w].fresh /\ store[p] # <<>> /\ Over(w, "refused") /\ UNCHANGED <<store, allowance>>
        \/ Outage /\ Over(w, "refused") /\ UNCHANGED store
     /\ UNCHANGED <<projectVars, scenario, persisted, saves, flight, window, drawn, made, shown,
                    timer, control>>
Refusal(w) ==
  /\ Settled /\ waits[w].pc = "refused" /\ window.phase # "closed" /\ Fails(w)
  /\ UNCHANGED <<projectVars, scenario, store, persisted, saves, flight, drawn, made, shown,
                 allowance, timer, control>>

\* The rest of hydrate: nobody asks again whether another Project was selected.
Activate(w) ==
  LET p == waits[w].target
      d == waits[w].document
  IN /\ Settled /\ waits[w].pc = "loaded" /\ window.phase # "closed"
     /\ flight' = IF flight = <<>> THEN <<>>
                  ELSE <<[flight[1] EXCEPT !.latest = FALSE, !.current = FALSE]>>
     /\ control' = [project |-> p, accepted |-> d, noted |-> <<>>, failure |-> FALSE]
     /\ persisted' = Put(persisted, p, View(d))
     /\ window' = [phase |-> "ready", of |-> p, head |-> <<d>>, project |-> p,
                   view |-> IF waits[w].keep THEN window.view ELSE View(d),
                   unassigned |-> FALSE]
     /\ made' = <<Draft(p, window'.view)>>
     /\ Over(w, "over")
     /\ UNCHANGED <<projectVars, scenario, store, saves, drawn, shown, allowance, timer>>

\* useInitialWorkspace, once the Projects are listed.
Boot ==
  /\ Settled /\ window.phase = "booting" /\ listing.pc = "done"
  /\ window' = [window EXCEPT !.phase = "no_project"]
  /\ UNCHANGED <<projectVars, scenario, store, persisted, saves, flight, drawn, made, shown,
                 allowance, timer, control, waits>>

----------------------------------------------------------------------------
NoWindow == [phase |-> "booting", of |-> NoOne, head |-> <<>>, project |-> NoOne,
             view |-> EmptyView, unassigned |-> FALSE]
Init ==
  /\ scenario \in Scenarios
  /\ ProjectsInit(scenario.committed)
  /\ store = scenario.workflows
  /\ shown = [p \in ProjectIds |-> <<>>]
  /\ window = NoWindow /\ drawn = Draw(NoWindow) /\ made = <<>>
  /\ allowance = [edits |-> scenario.most, outages |-> scenario.outages]
  /\ timer = <<>> /\ persisted = <<>> /\ saves = <<>> /\ flight = <<>>
  /\ control = [project |-> NoOne, accepted |-> EmptyDocument(0), noted |-> <<>>,
                failure |-> FALSE]
  /\ waits = [w \in DOMAIN Waits |-> Asleep]

ProjectsStep ==
  /\ \/ \E c \in scenario.callers : ProjectStep(c)
     \/ (scenario.callers # {} \/ window.phase = "booting") /\ StartListing
     \/ ReadPage
  /\ UNCHANGED workspaceVars
WaitStep(w) ==
  \/ SaveEnds(w) \/ FlushEnds(w) \/ AnswerOpen(w) \/ LoadWorkflow(w) \/ Refusal(w) \/ Activate(w)
Next ==
  \/ ProjectsStep
  \/ Boot \/ Render \/ TimerFires \/ BeginSave \/ CommitMutation \/ AnswerMutation
  \/ \E e \in scenario.edits : Edit(e)
  \/ \E w \in DOMAIN Waits : Ask(w) \/ WaitStep(w) \/ \E p \in ProjectIds : OpenProject(w, p)
  \/ \E p \in ProjectIds, actions \in scenario.assistant : AssistantCommits(p, actions)

Fairness ==
  /\ WF_vars(Boot) /\ WF_vars(Render) /\ WF_vars(TimerFires) /\ WF_vars(BeginSave)
  /\ WF_vars(CommitMutation) /\ WF_vars(AnswerMutation)
  /\ \A w \in DOMAIN Waits : WF_vars(WaitStep(w))
Spec == Init /\ [][Next]_vars /\ Fairness

----------------------------------------------------------------------------
\* The barrier of an opening that another has replaced lets nothing go.
Releases(w) ==
  /\ waits[w].pc = "flushing" /\ waits'[w].pc \notin {"flushing", "failed"}
  /\ Kind(w) = "open" /\ waits'[w].pc = "over" => waits[w].again
  /\ drawn.project # NoOne /\ waits[w].of = drawn.project
ShownSince(w, d) ==
  \E i \in waits[w].since .. Len(shown[drawn.project]) : shown[drawn.project][i] = View(d)

\* While the user waits for a Workflow that is being loaded (scenario.patient): when a
\* barrier lets its action go, the Workflow of the open Project is stored as the window
\* has shown it since the barrier's last save ended, and the window has stored nothing
\* later, whatever was queued, in flight, refused or edited meanwhile
\* (useWorkflowPersistence.ts:72, canonicalWorkspaceController.ts:79).
BarrierSaves ==
  [][\A w \in DOMAIN Waits : scenario.patient /\ Releases(w) =>
       /\ ShownSince(w, control.accepted)
       /\ \E i \in DOMAIN store[drawn.project] :
            /\ store[drawn.project][i].document = control.accepted
            /\ \A j \in DOMAIN store[drawn.project] :
                 j > i => store[drawn.project][j].by = "assistant"]_vars

\* While the user waits for a Workflow that is being loaded: a Run that the backend
\* admits, because the head it is asked for is the newest revision, is a Run of what was
\* on the canvas since the save (App.tsx:194).
RunIsWhatWasShown ==
  [][\A w \in DOMAIN Waits :
       scenario.patient /\ Releases(w) /\ Kind(w) = "run" /\ drawn.head # <<>>
         /\ drawn.head[1].revision = Newest(drawn.project).revision
       => ShownSince(w, drawn.head[1])]_vars

\* What the window stores of a Project is, whole, a draft it has shown (canonical.ts:43),
\* and one of that Project while the user waits for a Workflow that is being loaded; an
\* edit made meanwhile may be sent to the Project that comes (useProjectWorkspace.ts:205).
SavedIsShown ==
  \A p \in ProjectIds : \A i \in DOMAIN store[p] :
    store[p][i].by = "window" /\ store[p][i].document.revision > 1 =>
      \E q \in ProjectIds :
        /\ View(store[p][i].document) \in ToSet(shown[q])
        /\ scenario.patient => q = p

\* In the end the draft that the user made last is the accepted document, and what the
\* canvas shows, or the window tells of a failure (an edit that cannot be translated is
\* told as one): timers, late answers, barriers and other Projects do not lose it.
\* Exempt, by made # <<>>, is exactly a draft that an older one has overtaken: one that
\* was queued, was noted again when its save began (canonicalWorkspaceController.ts:68),
\* and whose answer then replaced the canvas.  That draft may be lost without a failure.
\* Exempt, by scenario.patient, is what is edited or opened during hydrate.
EditsReachTheStore ==
  scenario.patient =>
    <>[](/\ window.phase = "ready" /\ made # <<>> /\ ~control.failure
         /\ EditorMutationActions(control.accepted, made[1].view) # {}
         => /\ Draft(control.project, View(control.accepted)) = made[1]
            /\ Draft(window.project, window.view) = made[1])
=============================================================================
