--------------------------- MODULE RunController ---------------------------
(***************************************************************************)
(* What the window shows of a Run (ui/src/workflow/useRunController.ts)    *)
(* against what the backend has committed of it (EventDelivery).           *)
(*                                                                         *)
(* The window learns of a Run's events twice: from the emissions, one at a *)
(* time through a chain of promises, and from the durable log, page by     *)
(* page, once when the Run is admitted and again when an emission skips a  *)
(* sequence.  Every await is a separate action; an answer that arrives     *)
(* after an invalidation finds another request current.                    *)
(***************************************************************************)
EXTENDS EventDelivery

CONSTANTS
  PageSize,     \* events per workflow_list_run_events (500 in the code)
  MaxTroubles   \* edits and failing calls in one behaviour (bound)

ASSUME WindowAssumption ==
  PageSize \in Nat \ {0} /\ MaxTroubles \in Nat

VARIABLES
  ui,         \* what the controller remembers and shows
  call,       \* the run() of each request: what it awaits
  gap,        \* the repair the event chain awaits; "broken" once it was rejected
  cancelling, \* the cancel command of each Run
  troubles    \* edits and failed calls so far

window == <<ui, call, gap, cancelling, troubles>>
vars == <<log, delivered, wire, ui, call, gap, cancelling, troubles>>

\* The request that runs the Workflow and the Run it admits share a number.
None == 0
Requests == Runs
Statuses == {"idle", "running", "cancelling", "cancel_failed", "call_failed",
             "succeeded", "failed", "cancelled"}
Blank == [request |-> None, active |-> None, listening |-> FALSE, seen |-> {}, last |-> 0,
          shown |-> "none", status |-> "idle"]
NoPage == [from |-> 1, to |-> 0, more |-> FALSE]
Call(pc) == [pc |-> pc, cursor |-> 0, page |-> NoPage]
NoGap == [pc |-> "none", run |-> None, cursor |-> 0, page |-> NoPage]

Init ==
  /\ InitDelivery
  /\ ui = Blank /\ call = [q \in Requests |-> Call("none")] /\ gap = NoGap
  /\ cancelling = [r \in Runs |-> "none"] /\ troubles = 0

----------------------------------------------------------------------------
(* acceptEvent and settle.                                                 *)

\* useRunProjection's settle: only a node shown as running changes.
SettleNode(shown, status) ==
  IF shown # "running" THEN shown
  ELSE CASE status = "succeeded" -> "done"
         [] status = "failed" -> "error"
         [] status = "cancelled" -> "none"

Settle(u, status) ==
  [u EXCEPT !.active = None, !.listening = FALSE, !.status = status,
            !.shown = SettleNode(@, status)]

\* The runtime a node event gives the node; node_cancelled counts as running.
ShownAfter(kind) ==
  CASE kind \in {"node_failed"} -> "error" [] kind = "node_succeeded" -> "done"
    [] OTHER -> "running"

Outcome(kind) ==
  CASE kind = "run_succeeded" -> "succeeded" [] kind = "run_failed" -> "failed"
    [] kind = "run_cancelled" -> "cancelled"

Show(u, kind) ==
  IF kind \in {"node_started", "node_succeeded", "node_failed", "node_cancelled"}
  THEN [u EXCEPT !.shown = ShownAfter(kind), !.status = "running"]
  ELSE IF kind \in Finals THEN Settle(u, Outcome(kind)) ELSE u

Larger(a, b) == IF a > b THEN a ELSE b

Accept(u, r, n) ==
  IF u.request # r \/ n \in u.seen THEN u
  ELSE Show([u EXCEPT !.seen = @ \cup {n}, !.last = Larger(@, n)], log[r][n])

AcceptPage(u, r, page) ==
  LET Accepted[n \in page.from - 1 .. page.to] ==
        IF n < page.from THEN u ELSE Accept(Accepted[n - 1], r, n)
  IN Accepted[page.to]

\* workflow_list_run_events: a full page names its last event when more exist.
Page(r, cursor) ==
  LET to == IF cursor + PageSize < Len(log[r]) THEN cursor + PageSize ELSE Len(log[r])
  IN [from |-> cursor + 1, to |-> to, more |-> to < Len(log[r])]

----------------------------------------------------------------------------
(* run: invalidate, observe, start, repair.                                *)

UnchangedBackend == UNCHANGED backend

RunPressed(q) ==
  /\ call[q].pc = "none" /\ \A p \in Requests : p < q => call[p].pc # "none"
  /\ ui' = [Blank EXCEPT !.request = q, !.status = "running"]
  /\ call' = [call EXCEPT ![q] = Call("observing")]
  /\ UnchangedBackend /\ UNCHANGED <<gap, cancelling, troubles>>

Trouble == troubles < MaxTroubles /\ troubles' = troubles + 1

\* invalidateRun, from an edit of the Workflow or another Project.
Edit ==
  /\ ui # Blank /\ ui' = Blank /\ Trouble
  /\ UnchangedBackend /\ UNCHANGED <<call, gap, cancelling>>

Current(q) == ui.request = q
Await(q, pc) == call' = [call EXCEPT ![q] = Call(pc)]

ObserveReturns(q) ==
  /\ call[q].pc = "observing"
  /\ IF Current(q) THEN Await(q, "admitting") /\ ui' = [ui EXCEPT !.listening = TRUE]
                   ELSE Await(q, "done") /\ UNCHANGED ui
  /\ UnchangedBackend /\ UNCHANGED <<gap, cancelling, troubles>>

AdmissionCommits(q) ==
  /\ call[q].pc = "admitting" /\ Admit(q) /\ Await(q, "admitted")
  /\ UNCHANGED <<delivered, wire, ui, gap, cancelling, troubles>>

\* Mutant: the answer of a superseded request is taken for the current one.
AdmissionReturnsLate(q) ==
  /\ call[q].pc = "admitted" /\ Await(q, "reading") /\ ui' = [ui EXCEPT !.active = q]
  /\ UnchangedBackend /\ UNCHANGED <<gap, cancelling, troubles>>
AdmissionReturns(q) ==
  /\ call[q].pc = "admitted"
  /\ IF Current(q) THEN Await(q, "reading") /\ ui' = [ui EXCEPT !.active = q]
                   ELSE Await(q, "done") /\ UNCHANGED ui
  /\ UnchangedBackend /\ UNCHANGED <<gap, cancelling, troubles>>

PageRead(q) ==
  /\ call[q].pc = "reading"
  /\ call' = [call EXCEPT ![q].pc = "reply", ![q].page = Page(q, call[q].cursor)]
  /\ UnchangedBackend /\ UNCHANGED <<ui, gap, cancelling, troubles>>

PageReturns(q) ==
  /\ call[q].pc = "reply"
  /\ ui' = AcceptPage(ui, q, call[q].page)
  /\ call' = [call EXCEPT ![q] = IF call[q].page.more /\ Current(q)
                                 THEN [Call("reading") EXCEPT !.cursor = call[q].page.to]
                                 ELSE Call("done")]
  /\ UnchangedBackend /\ UNCHANGED <<gap, cancelling, troubles>>

\* The catch of run: whichever of its calls failed.
CallFails(q) ==
  /\ call[q].pc \in {"observing", "admitting", "admitted", "reading"}
  /\ Await(q, "done") /\ Trouble
  /\ ui' = IF Current(q) THEN [ui EXCEPT !.listening = FALSE, !.status = "call_failed"] ELSE ui
  /\ UnchangedBackend /\ UNCHANGED <<gap, cancelling>>

----------------------------------------------------------------------------
(* processEvent, one emission at a time.                                   *)

Consume == wire' = Tail(wire)
UnchangedLog == UNCHANGED <<log, delivered>>

\* An emission of a Run the window does not follow, or behind a rejected one.
Ignore ==
  /\ wire # <<>> /\ gap.pc \in {"none", "broken"} /\ Consume
  /\ \/ gap.pc = "broken" \/ Head(wire).run # ui.active \/ ~ui.listening
  /\ UnchangedLog /\ UNCHANGED window

\* Mutant: an emission that skips a sequence is applied at once.
SkipsNothing(n) == FALSE
Skips(n) == n > ui.last + 1

Handle ==
  /\ wire # <<>> /\ gap.pc = "none" /\ Head(wire).run = ui.active
  /\ LET event == Head(wire)
     IN IF Skips(event.sequence)
        THEN /\ gap' = [NoGap EXCEPT !.pc = "reading", !.run = event.run, !.cursor = ui.last]
             /\ UNCHANGED <<ui, wire>>
        ELSE /\ ui' = Accept(ui, event.run, event.sequence)
             /\ Consume /\ UNCHANGED gap
  /\ UnchangedLog /\ UNCHANGED <<call, cancelling, troubles>>

GapRead ==
  /\ gap.pc = "reading"
  /\ gap' = [gap EXCEPT !.pc = "reply", !.page = Page(gap.run, gap.cursor)]
  /\ UnchangedBackend /\ UNCHANGED <<ui, call, cancelling, troubles>>

\* After the last page the event that found the gap is accepted.
GapReturns ==
  LET repaired == AcceptPage(ui, gap.run, gap.page)
  IN /\ gap.pc = "reply"
     /\ IF gap.page.more /\ ui.request = gap.run
        THEN /\ ui' = repaired /\ UNCHANGED wire
             /\ gap' = [gap EXCEPT !.pc = "reading", !.cursor = gap.page.to, !.page = NoPage]
        ELSE /\ ui' = Accept(repaired, gap.run, Head(wire).sequence)
             /\ gap' = NoGap /\ Consume
     /\ UnchangedLog /\ UNCHANGED <<call, cancelling, troubles>>

\* Nothing catches the rejection, and nothing resets the chain.
GapFails ==
  /\ gap.pc = "reading" /\ gap' = [NoGap EXCEPT !.pc = "broken"]
  /\ Consume /\ Trouble
  /\ UnchangedLog /\ UNCHANGED <<ui, call, cancelling>>

----------------------------------------------------------------------------
(* cancel                                                                  *)

CancelPressed ==
  /\ ui.active # None /\ cancelling[ui.active] = "none"
  /\ Cardinality({r \in Runs : cancelling[r] # "none"}) < MaxCancels
  /\ cancelling' = [cancelling EXCEPT ![ui.active] = "asked"]
  /\ ui' = [ui EXCEPT !.status = "cancelling"]
  /\ UnchangedBackend /\ UNCHANGED <<call, gap, troubles>>

\* A Run that is over cannot be cancelled.  Otherwise the command is refused when
\* its commit loses a race, or when it has committed and the publication fails.
CancelCommits(r) ==
  /\ cancelling[r] = "asked"
  /\ \/ /\ ~Over(r) /\ CommitEvents(r, CancellationEvents(r))
        /\ \/ cancelling' = [cancelling EXCEPT ![r] = "cancelled"] /\ UNCHANGED troubles
           \/ cancelling' = [cancelling EXCEPT ![r] = "refused"] /\ Trouble
     \/ /\ IF Over(r) THEN UNCHANGED troubles ELSE Trouble
        /\ cancelling' = [cancelling EXCEPT ![r] = "refused"] /\ UNCHANGED <<log, wire>>
  /\ UNCHANGED <<delivered, ui, call, gap>>

\* Mutant: the answer settles whatever Run the window shows by then.
CancelSettlesAny(r) ==
  /\ cancelling[r] \in {"cancelled", "refused"}
  /\ cancelling' = [cancelling EXCEPT ![r] = "answered"]
  /\ ui' = IF cancelling[r] = "refused" THEN [ui EXCEPT !.status = "cancel_failed"]
           ELSE Settle(ui, "cancelled")
  /\ UnchangedBackend /\ UNCHANGED <<call, gap, troubles>>
CancelReturns(r) ==
  /\ cancelling[r] \in {"cancelled", "refused"}
  /\ cancelling' = [cancelling EXCEPT ![r] = "answered"]
  /\ ui' = IF cancelling[r] = "refused" THEN [ui EXCEPT !.status = "cancel_failed"]
           ELSE IF ui.active = r THEN Settle(ui, "cancelled") ELSE ui
  /\ UnchangedBackend /\ UNCHANGED <<call, gap, troubles>>

----------------------------------------------------------------------------
Backend ==
  (\E r \in Runs : Commits(r) \/ Delivers(r) \/ DeliveryFails(r)) /\ UNCHANGED window
Requesting(q) ==
  \/ ObserveReturns(q) \/ AdmissionCommits(q) \/ AdmissionReturns(q)
  \/ PageRead(q) \/ PageReturns(q)
Listening == Ignore \/ Handle \/ GapRead \/ GapReturns

Next ==
  \/ Backend \/ Edit \/ CancelPressed \/ GapFails \/ Listening
  \/ \E q \in Requests : RunPressed(q) \/ Requesting(q) \/ CallFails(q)
  \/ \E r \in Runs : CancelCommits(r) \/ CancelReturns(r)

\* The worker's loop tries again until an emission is made and recorded; the
\* window handles what it is sent, and every command is answered.
Fairness ==
  /\ SF_vars((\E r \in Runs : Delivers(r)) /\ UNCHANGED window)
  /\ WF_vars(Listening \/ \E q \in Requests : Requesting(q))

Spec == Init /\ [][Next]_vars
FairSpec == Spec /\ Fairness

----------------------------------------------------------------------------
(* What is checked.                                                        *)

PageType == [from : Nat, to : Nat, more : BOOLEAN]

\* Type correctness; the window follows no Run but the one of its request, and a
\* repair of the event chain belongs to the emission it holds back.
TypeOK ==
  /\ DeliveryType
  /\ ui \in [request : Requests \cup {None}, active : Runs \cup {None}, listening : BOOLEAN,
            seen : SUBSET Nat, last : Nat, shown : {"none", "running", "done", "error"},
            status : Statuses]
  /\ call \in [Requests -> [pc : {"none", "observing", "admitting", "admitted", "reading",
                                 "reply", "done"}, cursor : Nat, page : PageType]]
  /\ gap \in [pc : {"none", "reading", "reply", "broken"}, run : Runs \cup {None},
             cursor : Nat, page : PageType]
  /\ cancelling \in [Runs -> {"none", "asked", "cancelled", "refused", "answered"}]
  /\ troubles \in 0..MaxTroubles
  /\ ui.active \in {None, ui.request}
  /\ gap.pc \in {"reading", "reply"} =>
       wire # <<>> /\ Head(wire).run = gap.run

\* Whatever the order in which emissions and pages arrive, lost or repeated, the
\* window has applied exactly the first events of the Run it follows, each once,
\* and its node shows what those say: useRunController deduplicates and repairs.
ShowsPrefix ==
  LET applied(kind) == \E n \in 1..ui.last : log[ui.request][n] = kind
  IN ui.request # None =>
       /\ ui.last <= Len(log[ui.request]) /\ ui.seen = 1..ui.last
       /\ (ui.shown = "done") = applied("node_succeeded")
       /\ ui.active # None => /\ (ui.shown = "error") = applied("node_failed")
                              /\ (ui.shown = "none") =
                                   ~(applied("node_started") \/ applied("node_cancelled"))

\* An outcome the window shows is the outcome the Run it follows has committed:
\* never that of an earlier Run, and never before the commit.
OutcomeIsCommitted ==
  \A kind \in Finals :
    ui.status = Outcome(kind) =>
      ui.request # None /\ Over(ui.request) /\ Last(log[ui.request]) = kind

\* A window that listens to a Run that is over lets go of it, showing its
\* outcome, unless one of its page requests failed: whatever emissions were lost,
\* the outbox, the worker and the repair between them lose no outcome.
BehindTheEnd ==
  ui.active # None /\ Over(ui.active) /\ ui.listening /\ gap.pc # "broken"
WindowLearnsTheEnd == []<>~BehindTheEnd
=============================================================================
