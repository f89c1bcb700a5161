-------------------------- MODULE AssistantExchange -------------------------
(***************************************************************************)
(* One Assistant invocation: the Rust runner and the Python sidecar, two   *)
(* processes that talk in frames over two pipes.  The turn may pause for   *)
(* an approval and is then resumed, under the same invocation, by a second *)
(* exchange with a fresh sidecar.                                          *)
(*                                                                         *)
(* A frame is its kind and what the two sides tell apart: the call, the    *)
(* tool, and what it is about.  A pipe keeps the order, so the contiguous  *)
(* sequence numbers of each direction are left out; a frame whose content  *)
(* the other side refuses (its text, JSON or size) is not sound.  What the *)
(* models answer, and whether they answer at all, is free.                 *)
(***************************************************************************)
EXTENDS Naturals, Sequences, FiniteSets

CONSTANTS
  CallIds,     \* tool call IDs the model provider makes up
  MaxCalls,    \* MAX_ASSISTANT_PROTOCOL_TOOL_CALLS
  MaxEvents,   \* MAX_ASSISTANT_PROTOCOL_INBOUND_EVENTS
  MaxDeltas,   \* bound on the text deltas of an exchange
  Own, Other,  \* the change this invocation may propose; one proposed before it
  Nothing

ASSUME ExchangeAssumption ==
  /\ IsFiniteSet(CallIds) /\ Nothing \notin CallIds
  /\ {MaxCalls, MaxEvents, MaxDeltas} \subseteq Nat
  /\ Own # Other /\ Nothing \notin {Own, Other, "Pass", "Reject"}

VARIABLES
  turn,      \* the exchange: the started turn, or the resumed one
  runner,    \* the runner's exchange
  protocol,  \* its decoder and conversation validator
  sidecar,   \* the Python process
  child,     \* as the operating system sees it
  toPython, toRust,
  change,    \* row of Own
  fact,      \* AssistantReviewEvidenceRegistry: the call that fetched, and what
  stored     \* the continuation file

rust == <<runner, protocol, change, fact, stored>>
python == <<sidecar, child>>
pipes == <<toPython, toRust>>
exchangeVars == <<turn, rust, python, pipes>>

RustKinds == {"InvocationStart", "ContinuationResume", "ToolResult"}
PythonKinds ==
  {"InvocationAccepted", "ModelOutputDelta", "ToolCall", "ReviewerVerdict",
   "ContinuationEnvelopeReady", "InvocationCompleted", "InvocationFailed"}
Frame(kind) == [kind |-> kind, call |-> Nothing, tool |-> Nothing, of |-> Nothing, sound |-> TRUE]
FailedFrame(category) == [Frame("InvocationFailed") EXCEPT !.of = category]

NoFact == [call |-> Nothing, of |-> Nothing]
FreshRunner == [pc |-> "launch", call |-> Frame("none"), verdict |-> Nothing, error |-> Nothing]
FreshProtocol == [state |-> "Initial", events |-> 0, calls |-> {}]
\* evidence: what the Reviewer's fetches returned; mine: the calls it made.
FreshSidecar == [pc |-> "boot", deltas |-> 0, reviewed |-> Nothing, evidence |-> <<>>,
                 mine |-> {}]

ExchangeInit ==
  /\ turn = "start"
  /\ runner = FreshRunner /\ protocol = FreshProtocol
  /\ sidecar = FreshSidecar /\ child = "none"
  /\ toPython = <<>> /\ toRust = <<>>
  /\ change = [state |-> "none", receipt |-> Nothing]
  /\ fact = NoFact /\ stored = FALSE

----------------------------------------------------------------------------
(* The runner.  It handles one frame at a time; the deadline may drop it   *)
(* wherever it waits.                                                      *)

Waiting == {"first", "read", "record", "execute", "store", "accept", "shutdown"}
Alive == child = "alive"

Goto(pc) == runner' = [runner EXCEPT !.pc = pc]
\* exchange() returns an error; the process is then aborted.
Raise(error) == runner' = [runner EXCEPT !.pc = "abort", !.error = error]

Launch ==
  /\ runner.pc = "launch"
  /\ \/ /\ Goto("first") /\ child' = "alive" /\ sidecar' = FreshSidecar
     \/ /\ runner' = [runner EXCEPT !.pc = "failed", !.error = "ModelUnavailable"]
        /\ UNCHANGED python
  /\ UNCHANGED <<turn, protocol, change, fact, stored, pipes>>

FirstFrame == Frame(IF turn = "start" THEN "InvocationStart" ELSE "ContinuationResume")
WriteFirst ==
  /\ runner.pc = "first"
  /\ IF Alive
     THEN /\ toPython' = <<FirstFrame>>
          /\ protocol' = [protocol EXCEPT !.state = "AwaitingAcceptance"]
          /\ Goto("read")
     ELSE Raise("ModelUnavailable") /\ UNCHANGED <<toPython, protocol>>
  /\ UNCHANGED <<turn, change, fact, stored, python, toRust>>

\* AssistantProtocolConversationValidator::transition, for a frame of Python.
Legal(f) ==
  \/ protocol.state = "AwaitingAcceptance" /\ f.kind = "InvocationAccepted"
  \/ protocol.state = "Active" /\ f.kind # "InvocationAccepted"
\* AssistantProtocolDecoder::decode and record.
\* Mutant: the last event is counted too late.
OverBudgetLate(f) ==
  \/ protocol.events > MaxEvents
  \/ f.kind = "ToolCall" /\ Cardinality(protocol.calls) = MaxCalls
OverBudget(f) ==
  \/ protocol.events = MaxEvents
  \/ f.kind = "ToolCall" /\ Cardinality(protocol.calls) = MaxCalls
Repeated(f) == f.kind = "ToolCall" /\ f.call \in protocol.calls
\* validate_payload, and the strict reading of the frame before it.
ValidPayload(f) == f.sound
Admitted(f) == ValidPayload(f) /\ ~OverBudget(f) /\ ~Repeated(f) /\ Legal(f)
Refusal(f) == IF ValidPayload(f) /\ OverBudget(f) THEN "BudgetExceeded" ELSE "ProtocolViolation"
Follows(f) == CASE f.kind = "ToolCall" -> "AwaitingToolResult"
                [] f.kind \in {"InvocationCompleted", "InvocationFailed"} -> "Terminal"
                [] OTHER -> "Active"
Record(f) ==
  protocol' = [state |-> Follows(f), events |-> protocol.events + 1,
               calls |-> protocol.calls \cup IF f.kind = "ToolCall" THEN {f.call} ELSE {}]

\* handle_payload, up to its first wait.
Handle(f) ==
  CASE f.kind \in {"InvocationAccepted", "ModelOutputDelta"} -> Goto("read")
    [] f.kind = "ToolCall" ->
         runner' = [runner EXCEPT !.pc = IF f.tool = "get" THEN "record" ELSE "execute",
                                  !.call = f]
    [] f.kind = "ReviewerVerdict" ->
         IF runner.verdict # Nothing THEN Raise("ReviewEvidenceInvalid")
         ELSE runner' = [runner EXCEPT !.pc = IF f.of = "Pass" THEN "read" ELSE "accept",
                                       !.verdict = f.of]
    [] f.kind = "ContinuationEnvelopeReady" ->
         IF runner.verdict = "Pass" THEN Goto("store") ELSE Raise("ContinuationIncompatible")
    [] f.kind = "InvocationCompleted" ->
         IF runner.verdict = Nothing THEN Goto("shutdown") ELSE Raise("ContinuationIncompatible")
    [] f.kind = "InvocationFailed" ->
         Raise(IF f.of = "ContinuationIncompatible" THEN f.of ELSE "ModelUnavailable")

Read ==
  /\ runner.pc = "read" /\ toRust # <<>>
  /\ LET f == Head(toRust)
     IN /\ toRust' = Tail(toRust)
        /\ IF Admitted(f) THEN Record(f) /\ Handle(f)
           ELSE Raise(Refusal(f)) /\ UNCHANGED protocol
  /\ UNCHANGED <<turn, change, fact, stored, python, toPython>>
\* A closed pipe ends the exchange, once what was written to it is read.
ReadEof ==
  /\ runner.pc = "read" /\ toRust = <<>> /\ ~Alive
  /\ Raise("ProtocolViolation")
  /\ UNCHANGED <<turn, protocol, change, fact, stored, python, pipes>>

----------------------------------------------------------------------------
(* A tool call.  Any get_change call is taken for the Reviewer's fetch and *)
(* is recorded before the tool runs; a tool that fails, fails the exchange.*)

\* The other change is in whatever state it was left in.
MayBeProposed(of) == of = Own => change.state = "Proposed"
CalledFact == [call |-> runner.call.call, of |-> runner.call.of]
\* Mutant: a later fetch replaces the recorded one.
RecordLatestFetch ==
  /\ runner.pc = "record"
  /\ \/ /\ MayBeProposed(runner.call.of)
        /\ fact' = CalledFact /\ Goto("execute")
     \/ Raise("ReviewEvidenceInvalid") /\ UNCHANGED fact
  /\ UNCHANGED <<turn, protocol, change, stored, python, pipes>>
RecordFetch ==
  /\ runner.pc = "record"
  /\ \/ /\ MayBeProposed(runner.call.of) /\ fact = NoFact
        /\ fact' = CalledFact /\ Goto("execute")
     \/ Raise("ReviewEvidenceInvalid") /\ UNCHANGED fact
  /\ UNCHANGED <<turn, protocol, change, stored, python, pipes>>

\* AssistantToolDispatcherImpl::execute.  The identity of a change is derived
\* from the invocation, so that only one can be proposed in it.
Effect ==
  IF runner.call.tool = "propose"
  THEN change.state = "none" /\ change' = [change EXCEPT !.state = "Proposed"]
  ELSE UNCHANGED change
Answer == [Frame("ToolResult") EXCEPT !.call = runner.call.call, !.of = runner.call.of]
ToolSucceeds ==
  /\ runner.pc = "execute"
  /\ Effect
  /\ IF Alive THEN /\ toPython' = Append(toPython, Answer)
                   /\ protocol' = [protocol EXCEPT !.state = "Active"]
                   /\ Goto("read")
     ELSE Raise("ModelUnavailable") /\ UNCHANGED <<toPython, protocol>>
  /\ UNCHANGED <<turn, fact, stored, python, toRust>>
\* Mutant: the failure is shown to the user and the exchange goes on.
ToolFailsQuietly ==
  /\ runner.pc = "execute"
  /\ Goto("read")
  /\ UNCHANGED <<turn, protocol, change, fact, stored, python, pipes>>
ToolFails ==
  /\ runner.pc = "execute"
  /\ Raise("ExternalBoundaryFailed")
  /\ UNCHANGED <<turn, protocol, change, fact, stored, python, pipes>>

----------------------------------------------------------------------------
(* A verdict: a Pass is held until its envelope comes, and the envelope is *)
(* stored before the verdict is accepted.                                  *)

StoreContinuation ==
  /\ runner.pc = "store"
  /\ \/ stored' = TRUE /\ Goto("accept")
     \/ UNCHANGED stored /\ Raise("StorageFailed")
  /\ UNCHANGED <<turn, protocol, change, fact, python, pipes>>

\* accept_reviewer_verdict: the evidence names the change; an expired change,
\* or another one awaiting approval, refuses it as well.
AcceptReview ==
  /\ runner.pc = "accept"
  /\ \/ /\ fact.of = Own /\ change.state = "Proposed"
        /\ change' = [receipt |-> fact.call,
                      state |-> IF runner.verdict = "Pass" THEN "AwaitingApproval"
                                ELSE "ReviewRejected"]
        /\ fact' = NoFact
        /\ runner' = [runner EXCEPT !.pc = "read", !.verdict = Nothing]
     \/ Raise("ReviewEvidenceInvalid") /\ UNCHANGED <<change, fact>>
  /\ UNCHANGED <<turn, protocol, stored, python, pipes>>

----------------------------------------------------------------------------
(* The end of an exchange.                                                 *)

\* Mutant: the process is given all the time it takes to leave.
DeadlineOfExchange ==
  /\ runner.pc \in Waiting \ {"shutdown"}
  /\ Raise("DeadlineExceeded")
  /\ UNCHANGED <<turn, protocol, change, fact, stored, python, pipes>>
\* timeout(INVOCATION_DEADLINE, ...) of the exchange, and of the shutdown.
Deadline ==
  /\ runner.pc \in Waiting
  /\ Raise("DeadlineExceeded")
  /\ UNCHANGED <<turn, protocol, change, fact, stored, python, pipes>>

\* shutdown_assistant_protocol_process: nothing may follow the last frame, and
\* the process leaves with success.
Shutdown ==
  /\ runner.pc = "shutdown" /\ ~Alive
  /\ IF toRust # <<>> THEN Raise("ProtocolViolation")
     ELSE IF child = "exited" THEN Goto("completed") ELSE Raise("ModelUnavailable")
  /\ UNCHANGED <<turn, protocol, change, fact, stored, python, pipes>>
Abort ==
  /\ runner.pc = "abort"
  /\ child' = "killed" /\ Goto("failed")
  /\ UNCHANGED <<turn, protocol, change, fact, stored, sidecar, pipes>>

Over == runner.pc \in {"completed", "failed"}

----------------------------------------------------------------------------
(* The sidecar: ProtocolV1App.run_once over the Agents SDK.  Tool calls    *)
(* are serial, and the Reviewer runs inside the call that proposed.        *)

Become(pc) == sidecar' = [sidecar EXCEPT !.pc = pc]
Say(f) == toRust' = Append(toRust, f)
\* The other process and the turn stay as they are.
SidecarOnly == UNCHANGED <<turn, rust, child>>

\* ProtocolChannel.read, of one of the kinds that are expected.
Take(kinds) ==
  /\ toPython # <<>> /\ Head(toPython).kind \in kinds
  /\ toPython' = Tail(toPython)

AcceptStart ==
  /\ Alive /\ sidecar.pc = "boot" /\ Take({"InvocationStart"})
  /\ Say(Frame("InvocationAccepted")) /\ Become("model")
  /\ SidecarOnly
AcceptResume ==
  /\ Alive /\ sidecar.pc = "boot" /\ Take({"ContinuationResume"})
  /\ Say(Frame("InvocationAccepted")) /\ Become("model")
  /\ SidecarOnly
\* _opaque_bundle: a continuation of another model route is refused before the
\* invocation is accepted.
RefuseResume ==
  /\ Alive /\ sidecar.pc = "boot" /\ Take({"ContinuationResume"})
  /\ Say(FailedFrame("ContinuationIncompatible"))
  /\ Become("done")
  /\ SidecarOnly
Delta ==
  /\ Alive /\ sidecar.pc = "model" /\ sidecar.deltas < MaxDeltas
  /\ \E sound \in BOOLEAN : Say([Frame("ModelOutputDelta") EXCEPT !.sound = sound])
  /\ sidecar' = [sidecar EXCEPT !.deltas = @ + 1]
  /\ SidecarOnly /\ UNCHANGED toPython

Call(call, tool, of) == Say([Frame("ToolCall") EXCEPT !.call = call, !.tool = tool, !.of = of])
CoauthorTools == {"read", "propose", "get"}
\* The co-author calls a tool other than request_apply.
CallTool ==
  /\ Alive /\ sidecar.pc = "model"
  /\ \E call \in CallIds, tool \in CoauthorTools, of \in {Own, Other} :
       /\ of = Other => tool = "get"
       /\ Call(call, tool, of)
       /\ Become(IF tool = "propose" THEN "proposing" ELSE "waiting")
  /\ SidecarOnly /\ UNCHANGED toPython
\* needs_approval: a Pass of this turn pauses it; a resumed turn asks again.
RequestApply ==
  /\ Alive /\ sidecar.pc = "model"
  /\ IF turn = "resume" \/ sidecar.reviewed = "Pass"
     THEN Become("interrupted") /\ UNCHANGED toRust
     ELSE Become("done") /\ Say(FailedFrame("ProtocolViolation"))
  /\ SidecarOnly /\ UNCHANGED toPython
CallFetch ==
  /\ Alive /\ sidecar.pc = "review"
  /\ \E call \in CallIds, of \in {Own, Other} :
       /\ Call(call, "get", of)
       /\ sidecar' = [sidecar EXCEPT !.pc = "fetching", !.mine = @ \cup {call}]
  /\ SidecarOnly /\ UNCHANGED toPython
ReadResult ==
  /\ Alive /\ sidecar.pc \in {"waiting", "proposing", "fetching"}
  /\ Take({"ToolResult"})
  /\ sidecar' = [sidecar EXCEPT
       !.pc = IF @ = "waiting" THEN "model" ELSE "review",
       !.evidence = CASE sidecar.pc = "proposing" -> <<>>
                      [] sidecar.pc = "fetching" -> Append(@, Head(toPython).of)
                      [] OTHER -> @]
  /\ SidecarOnly /\ UNCHANGED toRust
\* review_workflow_change: exactly one fetch, of exactly the proposed change.
Verdict ==
  /\ Alive /\ sidecar.pc = "review"
  /\ sidecar.evidence = <<Own>>
  /\ \E v \in {"Pass", "Reject"} :
       /\ Say([Frame("ReviewerVerdict") EXCEPT !.of = v])
       /\ sidecar' = [sidecar EXCEPT !.pc = "model", !.reviewed = v]
  /\ SidecarOnly /\ UNCHANGED toPython

\* _settle: of a paused turn, or of one that ended in a text.
Envelope == Frame("ContinuationEnvelopeReady")
Pause ==
  /\ Alive /\ sidecar.pc = "interrupted"
  /\ Say(Envelope) /\ Become("paused")
  /\ SidecarOnly /\ UNCHANGED toPython
Complete ==
  /\ Alive /\ sidecar.pc \in {"paused", "model"}
  /\ \E sound \in BOOLEAN : Say([Frame("InvocationCompleted") EXCEPT !.sound = sound])
  /\ Become("closing")
  /\ SidecarOnly /\ UNCHANGED toPython
\* _fail: the SDK, a model or the protocol; also what is closed afterwards.
Fail ==
  /\ Alive /\ sidecar.pc \notin {"boot", "done"}
  /\ Say(FailedFrame("SdkFailure")) /\ Become("done")
  /\ SidecarOnly /\ UNCHANGED toPython
\* The process leaves, or dies anywhere.
Leave ==
  /\ Alive
  /\ \/ child' = "broken"
     \/ sidecar.pc \in {"closing", "done"} /\ child' = "exited"
  /\ UNCHANGED <<turn, rust, sidecar, pipes>>

----------------------------------------------------------------------------

\* The user approves; the effect applies the change, takes the continuation
\* and resumes the turn.
Approve ==
  /\ change.state = "AwaitingApproval" /\ Over /\ turn = "start"
  /\ turn' = "resume"
  /\ change' = [change EXCEPT !.state = "Applied"]
  /\ stored' = FALSE
  /\ runner' = FreshRunner /\ protocol' = FreshProtocol
  /\ toPython' = <<>> /\ toRust' = <<>>
  /\ UNCHANGED <<fact, python>>

RunnerStep ==
  \/ Launch \/ WriteFirst \/ Read \/ ReadEof \/ RecordFetch \/ ToolSucceeds \/ ToolFails
  \/ StoreContinuation \/ AcceptReview \/ Shutdown \/ Abort
SidecarStep ==
  \/ AcceptStart \/ AcceptResume \/ RefuseResume \/ Delta \/ CallTool \/ RequestApply \/ CallFetch
  \/ ReadResult \/ Verdict \/ Pause \/ Complete \/ Fail \/ Leave

ExchangeNext == RunnerStep \/ Deadline \/ SidecarStep \/ Approve

ExchangeSpec == ExchangeInit /\ [][ExchangeNext]_exchangeVars
\* Tokio polls what can go on and its timers fire.  Nothing is assumed of the
\* models or of the sidecar.
FairExchangeSpec == ExchangeSpec /\ WF_exchangeVars(RunnerStep) /\ WF_exchangeVars(Deadline)

----------------------------------------------------------------------------

\* Type invariant of the exchange.
ExchangeTypeOK ==
  /\ turn \in {"start", "resume"}
  /\ runner.pc \in Waiting \cup {"launch", "abort", "completed", "failed"}
  /\ runner.verdict \in {Nothing, "Pass", "Reject"}
  /\ protocol.calls \subseteq CallIds /\ Cardinality(protocol.calls) <= MaxCalls
  /\ protocol.events \in 0..MaxEvents
  /\ child \in {"none", "alive", "exited", "broken", "killed"}
  /\ Len(toPython) <= 1 /\ \A i \in DOMAIN toPython : toPython[i].kind \in RustKinds
  /\ \A i \in DOMAIN toRust : toRust[i].kind \in PythonKinds
  /\ change.state \in {"none", "Proposed", "ReviewRejected", "AwaitingApproval", "Applied"}
  /\ fact.of \in {Own, Other, Nothing} /\ stored \in BOOLEAN

\* A change is reviewed on the Reviewer's own fetch of it, never on a read of
\* the co-author's, and as the Reviewer found; what awaits approval can be
\* resumed.  The runner cannot tell the two agents apart.
ReviewerVouches ==
  turn = "start" /\ change.state \in {"AwaitingApproval", "ReviewRejected"} =>
    /\ change.receipt \in sidecar.mine
    /\ (change.state = "AwaitingApproval") = (sidecar.reviewed = "Pass")
    /\ change.state = "AwaitingApproval" => stored

\* The runner and the sidecar never wait for each other with both pipes empty.
NoMutualWait ==
  ~ /\ runner.pc = "read" /\ toRust = <<>> /\ toPython = <<>> /\ Alive
    /\ sidecar.pc \in {"boot", "waiting", "proposing", "fetching"}

\* Every exchange ends, and its process with it, whatever the model does.
ExchangeEnds == runner.pc = "launch" ~> Over /\ child # "alive"
=============================================================================
