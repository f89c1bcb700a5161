---------------------------- MODULE NodeExecution -----------------------------
(***************************************************************************)
(* The calls of node capabilities in a Run: the batch the executor builds  *)
(* from the frozen plan and the outputs so far, each call through its      *)
(* readiness check, its reads of managed media and the start of its        *)
(* Generation Task, and the outcome the executor commits.  Calls of a      *)
(* batch run at the same time; each has a deadline and a signal that the   *)
(* canceller of the Run sets at any moment.                                *)
(*                                                                         *)
(* WorkflowRun models how executors, canceller and completion compete for  *)
(* the Run's row; here one executor runs at a time, its read and commit of *)
(* the row are one step, and the content of the calls is what is modelled. *)
(***************************************************************************)
EXTENDS NodeOutcome

CONSTANTS
  Documents,       \* ready Workflow documents: the Run is a whole one of these
  Library,         \* imported Assets: id -> media type
  MaxConcurrency,  \* of a batch
  Produced         \* node -> the Asset its task's output is recorded as

\* The routes of the registry: profile -> request kind.
Routes ==
  [p \in {"image.high_quality_general", "video.cinematic_image_animation",
          "speech.multilingual_narration"} |->
     CASE p = "image.high_quality_general" -> "Image"
       [] p = "video.cinematic_image_animation" -> "Video"
       [] p = "speech.multilingual_narration" -> "Voice"]

\* Request kind of the generating contracts.
RequestKinds ==
  [ref \in {"image.generate_from_text", "video.generate_from_image",
            "audio.synthesize_speech_from_text"} |->
     CASE ref = "image.generate_from_text" -> "Image"
       [] ref = "video.generate_from_image" -> "Video"
       [] ref = "audio.synthesize_speech_from_text" -> "Voice"]
Generating == DOMAIN RequestKinds
Reading == {"image.read_asset", "video.read_asset", "audio.read_asset"}

AnyDigest == <<"any">>
Digest(a) == <<"digest of", a>>

NodesOfDocuments == UNION {NodeIds(d) : d \in Documents}

VARIABLES
  plan,       \* frozen plan of the Run
  row,        \* [state, nodes]: as stored, outcomes encoded
  executor,   \* [pc, batch, error]
  canceller,  \* cancel_workflow_run: idle, committed, signalled
  call,       \* node -> its call
  woken,      \* a Workflow effect of the Run is pending
  assets,     \* id -> [type, content, digest]
  tasks       \* node execution -> request of its Generation Task

vars == <<plan, row, executor, canceller, call, woken, assets, tasks>>

Nodes == DOMAIN plan.nodes
Node(n) == plan.nodes[n]
Ref(n) == Node(n).contract
ContractOfNode(n) == Registry[Ref(n)]
OutputKey(n) == CHOOSE k \in DOMAIN ContractOfNode(n).outputs : TRUE
OutputType(n) == ContractOfNode(n).outputs[OutputKey(n)]

\* The registry is that of the composition, whose profiles have routes.
ASSUME CompositionAssumption ==
  /\ Registry = BuiltIn
  /\ \A ref \in Generating : \A p \in ActiveFor(ref) :
       p \in DOMAIN Routes /\ Routes[p] = RequestKinds[ref]

\* The documents are stored and ready, and read what the Project has.
ASSUME ExecutionAssumption ==
  /\ MaxConcurrency \in 1 .. 64
  /\ \A d \in Documents :
       /\ DraftValid(d) /\ Issues(d, NodeIds(d), {}) = {}
       /\ \A t \in DOMAIN d.bindings :
            t = <<t[1], t[2]>> /\ Items(d.bindings[t]) # {}
                /\ d.bindings[t].items \in Seq(Items(d.bindings[t]))
       /\ \A n \in NodeIds(d) : "asset_id" \in DOMAIN d.nodes[n].parameters =>
            /\ d.nodes[n].parameters["asset_id"] \in DOMAIN Library
            /\ Library[d.nodes[n].parameters["asset_id"]]
                 \in {ContractOf(d, n).outputs[k] : k \in DOMAIN ContractOf(d, n).outputs}

\* The Asset of an output has an identity of its own.
ASSUME IdentityAssumption ==
  /\ NodesOfDocuments \subseteq DOMAIN Produced /\ IsInjective(Produced)
  /\ \A n \in DOMAIN Produced : Produced[n] \notin DOMAIN Library

\* What is optional is a set, or a tuple, of at most one thing.
CallAt(pc, inputs, cancelled) ==
  [pc |-> pc, inputs |-> inputs, held |-> <<>>, outcome |-> <<>>,
   cancelled |-> cancelled, aborted |-> FALSE, elapsed |-> "nothing"]
NoCall == CallAt("none", <<>>, FALSE)
PendingNode == [state |-> "Pending", started |-> FALSE, finished |-> FALSE,
                outputs |-> {}, failure |-> {}, blockedBy |-> {}]

Init ==
  /\ plan \in {FreezePlan(d, Whole) : d \in Documents}
  /\ row = [state |-> "Queued", nodes |-> [n \in Nodes |-> PendingNode]]
  /\ executor = [pc |-> "loop", batch |-> {}, error |-> "none"]
  /\ canceller = "idle"
  /\ call = [n \in Nodes |-> NoCall]
  /\ woken = FALSE
  /\ assets = [a \in DOMAIN Library |->
                 [type |-> Library[a], content |-> "Available", digest |-> Digest(a)]]
  /\ tasks = <<>>

----------------------------------------------------------------------------
(* The Run's row.                                                          *)

Terminal == {"Succeeded", "Failed", "Cancelled"}
Active == {"Pending", "Running", "Waiting"}
In(r, states) == {n \in Nodes : r.nodes[n].state \in states}

\* node_shape_is_valid, the outcomes being decoded.
ShapeIsValid(s) ==
  /\ CASE s.state = "Pending" -> ~s.started /\ ~s.finished
       [] s.state \in {"Running", "Waiting"} -> s.started /\ ~s.finished
       [] s.state \in {"Succeeded", "Failed"} -> s.started /\ s.finished
       [] s.state = "Blocked" -> ~s.started /\ s.finished
       [] s.state = "Cancelled" -> s.finished
  /\ (s.outputs # {}) = (s.state = "Succeeded")
  /\ (s.failure # {}) = (s.state = "Failed")
  /\ (s.blockedBy # {}) = (s.state = "Blocked")
Decodes(s) ==
  /\ \A o \in s.outputs : DecodeOutputs(o) # {}
  /\ \A f \in s.failure : DecodeFailure(f) # {}
\* validate_run_shape.
Restores(r) ==
  /\ \A n \in Nodes : ShapeIsValid(r.nodes[n]) /\ Decodes(r.nodes[n])
  /\ r.state = "Queued" => In(r, {"Pending"}) = Nodes
  /\ r.state = "Succeeded" => In(r, {"Succeeded"}) = Nodes
  /\ r.state \in {"Cancelled", "Failed"} => In(r, Active) = {}
  /\ r.state = "Failed" => In(r, {"Failed"}) # {}

SetNode(n, state) == [row.nodes[n] EXCEPT !.state = state]
OutputsOf(n) == CHOOSE o \in UNION {DecodeOutputs(p) : p \in row.nodes[n].outputs} : TRUE

----------------------------------------------------------------------------
(* The executor.                                                           *)

\* The effect fails, and with it goes the set of its calls.
Abort(error) ==
  /\ executor' = [pc |-> "failed", batch |-> {}, error |-> error]
  /\ call' = [n \in Nodes |-> [call[n] EXCEPT !.aborted = @ \/ call[n].pc # "none"]]

\* A node is ready when everything it takes from has succeeded.
Ready == {n \in In(row, {"Pending"}) :
            SourcesOf(Node(n).bindings, n) \subseteq In(row, {"Succeeded"})}
FailedAncestors(n) ==
  Upward(PlanBindings(plan), Nodes, n) \cap In(row, {"Failed"})
ToBlock == {n \in In(row, {"Pending"}) : FailedAncestors(n) # {}}
Before(m, n) ==
  \E i, j \in DOMAIN plan.order : i < j /\ plan.order[i] = m /\ plan.order[j] = n
\* The first of the ready nodes, in the order of the plan.
Batch == {n \in Ready : Cardinality({m \in Ready : Before(m, n)}) < MaxConcurrency}

\* One turn of execute_workflow_run's loop, up to the batch.
Loop ==
  /\ executor.pc = "loop"
  /\ IF ~Restores(row) THEN Abort("unreadable") /\ UNCHANGED row
     ELSE IF row.state \in Terminal
     THEN executor' = [executor EXCEPT !.pc = "done"] /\ UNCHANGED <<row, call>>
     ELSE IF row.state = "Queued"
     THEN row' = [row EXCEPT !.state = "Running"] /\ UNCHANGED <<executor, call>>
     ELSE IF ToBlock # {}
     THEN /\ row' = [row EXCEPT !.nodes = [n \in Nodes |-> IF n \notin ToBlock THEN @[n]
                       ELSE [@[n] EXCEPT !.state = "Blocked", !.finished = TRUE,
                                         !.blockedBy = FailedAncestors(n)]]]
          /\ UNCHANGED <<executor, call>>
     ELSE IF Ready # {}
     THEN /\ row' = [row EXCEPT !.nodes = [n \in Nodes |-> IF n \notin Batch THEN @[n]
                       ELSE [@[n] EXCEPT !.state = "Running", !.started = TRUE]]]
          /\ executor' = [executor EXCEPT !.pc = "build", !.batch = Batch]
          /\ UNCHANGED call
     ELSE IF In(row, {"Waiting"}) # {}
     THEN executor' = [executor EXCEPT !.pc = "done"] /\ UNCHANGED <<row, call>>
     ELSE IF In(row, Active) # {}      \* finish refuses: a node was left Running
     THEN Abort("transition") /\ UNCHANGED row
     ELSE /\ row' = [row EXCEPT !.state = IF In(row, {"Failed"}) # {} THEN "Failed"
                                          ELSE "Succeeded"]
          /\ executor' = [executor EXCEPT !.pc = "done"]
          /\ UNCHANGED call
  /\ UNCHANGED <<plan, canceller, woken, assets, tasks>>

\* resolve_inputs: the outputs of the nodes it takes from, as runtime inputs.
ResolveInputs(n) ==
  LET bindings == Node(n).bindings
      Value(k) == [ordered |-> bindings[<<n, k>>].ordered,
                   items |-> [i \in DOMAIN bindings[<<n, k>>].items |->
                     LET item == bindings[<<n, k>>].items[i]
                     IN [id |-> item.id, role |-> item.role,
                         value |-> OutputsOf(item.source)[item.output]]]]
  IN InputSet(Ref(n), [k \in {t[2] : t \in DOMAIN bindings} |-> Value(k)])

\* register, build_execution_request and spawn, for the next of the batch.
BuildCall(n) ==
  /\ executor.pc = "build" /\ n \in executor.batch
  /\ \A m \in executor.batch : ~Before(m, n)
  /\ LET rest == executor.batch \ {n}
         inputs == ResolveInputs(n)
     IN IF inputs = {} THEN Abort("inputs")
        ELSE /\ call' = [call EXCEPT ![n] = CallAt("readiness", CHOOSE i \in inputs : TRUE,
                                                   canceller = "signalled")]
             /\ executor' = [executor EXCEPT !.batch = rest,
                               !.pc = IF rest = {} THEN "collect" ELSE "build"]
  /\ UNCHANGED <<plan, row, canceller, woken, assets, tasks>>

\* The node's next row for an outcome: succeed_node, fail_node and
\* wait_node_for_external_completion.
Settled(n, outcome) ==
  CASE outcome[1] = "Completed" ->
         [SetNode(n, "Succeeded") EXCEPT !.outputs = {EncodeOutputs(outcome[2])}, !.finished = TRUE]
    [] outcome[1] = "Failed" ->
         [SetNode(n, "Failed") EXCEPT !.failure = {EncodeFailure(outcome[2])}, !.finished = TRUE]
    [] outcome[1] = "Waiting" -> SetNode(n, "Waiting")

\* join_next and commit_execution_result; the commit may be lost.
CollectResult(n) ==
  /\ executor.pc = "collect" /\ call[n].pc = "ended" /\ ~call[n].aborted
  /\ IF ~Restores(row) THEN Abort("unreadable") /\ UNCHANGED row
     ELSE \/ /\ row' = IF row.state = "Cancelled" THEN row
                       ELSE [row EXCEPT !.nodes[n] = Settled(n, call[n].outcome)]
             /\ call' = [call EXCEPT ![n].pc = "committed"]
             /\ executor' = [executor EXCEPT !.pc =
                  IF \A m \in Nodes : call'[m].pc \in {"none", "committed"} \/ call'[m].aborted
                  THEN "loop" ELSE "collect"]
          \/ Abort("storage") /\ UNCHANGED row
  /\ UNCHANGED <<plan, canceller, woken, assets, tasks>>

\* The worker takes up the Workflow effect a completion has added.
TakeEffect ==
  /\ woken /\ executor.pc \in {"done", "failed"}
  /\ executor' = [pc |-> "loop", batch |-> {}, error |-> executor.error]
  /\ woken' = FALSE
  /\ UNCHANGED <<plan, row, canceller, call, assets, tasks>>

----------------------------------------------------------------------------
(* What every call checks.                                                 *)

Cancelled(n) == call[n].cancelled
\* The readiness deadline is set after the execution deadline, and later.
PastDeadline(n) == call[n].elapsed # "nothing"
PastReadinessDeadline(n) == call[n].elapsed = "both"

At(n, pc) == call[n].pc = pc
Go(n, pc) == call' = [call EXCEPT ![n].pc = pc]
EndWith(n, outcome) == call' = [call EXCEPT ![n].pc = "ended", ![n].outcome = outcome]
Fail(n, error) == EndWith(n, <<"Failed", CapabilityFailed(error)>>)
FailResolving(n, failure, target) == Fail(n, ResolutionError(Ref(n), n, failure, target))
Interrupted(n) == Cancelled(n) \/ PastDeadline(n)
Interruption(n) == IF Cancelled(n) THEN "Cancelled" ELSE "DeadlineExceeded"
FailInterrupted(n, target) == FailResolving(n, <<Interruption(n)>>, target)
InvalidCall(n) == FailResolving(n, InvalidInvocation, OfCapability)
\* The declared output set, or the error of one that does not fit.
Complete(n, value) ==
  LET outputs == OutputSet(Ref(n), Only(OutputKey(n), value))
  IN IF outputs = {}
     THEN Fail(n, Error(Ref(n), n, "AssembleOutputs", InvalidResult, OfOutput(OutputKey(n))))
     ELSE EndWith(n, <<"Completed", CHOOSE o \in outputs : TRUE>>)

others == <<plan, row, executor, canceller, woken, assets, tasks>>

----------------------------------------------------------------------------
(* Managed media, through the desktop bridge to the Asset use case.        *)

Selection(asset, type, digest) == [asset |-> asset, type |-> type, digest |-> digest]

\* read_managed_media, past the deadline or before it: storage may fail, the
\* content may be gone, and an exact reference asks for its digest.
ReadResults(s) ==
  {<<"Media", <<"StorageFailed">>>>,
   IF s.asset \notin DOMAIN assets THEN <<"Media", <<"Unavailable">>>>
   ELSE IF assets[s.asset].type # s.type
   THEN <<"Media", <<"KindMismatch", s.type, assets[s.asset].type>>>>
   ELSE IF assets[s.asset].content # "Available" THEN <<"Media", <<"Unavailable">>>>
   ELSE IF s.digest \notin {AnyDigest, assets[s.asset].digest}
   THEN <<"Media", <<"DigestMismatch">>>>
   ELSE <<"Readable", ManagedRef(s.type, s.asset, assets[s.asset].digest)>>}
\* Mutant: the read has no timeout of its own.
ReadsInTime(s, past) == IF past THEN {} ELSE ReadResults(s)
Reads(s, past) == IF past THEN {<<"DeadlineExceeded">>} ELSE ReadResults(s)

InputOf(n, key) == call[n].inputs[key].items[1].value
\* A reader selects its Asset, a video its input image.
SelectionOf(n) ==
  IF Ref(n) \in Reading THEN Selection(Node(n).parameters["asset_id"], OutputType(n), AnyDigest)
  ELSE LET image == InputOf(n, "image") IN Selection(image.asset, image.type, image.digest)
MediaTarget(n) == IF Ref(n) \in Reading THEN OfParameter("asset_id") ELSE OfInput("image")

----------------------------------------------------------------------------
(* check_node_external_readiness of the capabilities.                      *)

HasParameters(n, keys) == DOMAIN Node(n).parameters = keys
GenerationKeys(n) ==
  {ProfileKey} \cup (CASE Ref(n) = "image.generate_from_text" -> {"aspect_ratio"}
                       [] Ref(n) = "video.generate_from_image" -> {"duration_seconds"}
                       [] OTHER -> {})
ProfileOf(n) == Node(n).parameters[ProfileKey]

\* generation_profile_readiness: the clock of the reader may fail.
ProfileIssues(n) ==
  IF ~HasParameters(n, GenerationKeys(n)) THEN {{InvalidReadinessCall}}
  ELSE IF ProfileOf(n) \notin ActiveFor(Ref(n))
  THEN {{ProfileIssue("GenerationProfileIncompatible", ProfileOf(n))}}
  ELSE {{ProfileIssue("GenerationProfileAvailabilityIndeterminate", ProfileOf(n))}}
    \cup (IF PastReadinessDeadline(n) THEN {}
          ELSE IF ProfileOf(n) \in DOMAIN Routes /\ Routes[ProfileOf(n)] = RequestKinds[Ref(n)]
          THEN {{}} ELSE {{ProfileIssue("GenerationProfileUnavailable", ProfileOf(n))}})

\* readiness_issues_for_asset_read.
AssetIssueOf(n, read) ==
  LET asset == SelectionOf(n).asset
  IN CASE read[1] = "Readable" -> {}
       [] read[1] = "Media" /\ read[2][1] = "Unavailable" ->
            {AssetIssue("ManagedAssetUnavailable", "asset_id", asset)}
       [] read[1] = "Media" /\ read[2][1] = "KindMismatch" ->
            {AssetKindIssue("asset_id", asset, read[2][2], read[2][3])}
       [] OTHER -> {AssetIssue("ManagedAssetReadinessIndeterminate", "asset_id", asset)}

ReadinessIssues(n) ==
  IF Ref(n) \in Generating THEN ProfileIssues(n)
  ELSE IF Ref(n) \in Reading
  THEN IF HasParameters(n, {"asset_id"})
       THEN {AssetIssueOf(n, read) : read \in Reads(SelectionOf(n), PastReadinessDeadline(n))}
       ELSE {{InvalidReadinessCall}}
  ELSE IF HasParameters(n, {"text"}) THEN {{}} ELSE {{InvalidReadinessCall}}

CheckReadiness(n) ==
  /\ At(n, "readiness") /\ ~call[n].aborted
  /\ \E issues \in ReadinessIssues(n) :
       IF issues = {} THEN Go(n, "execute")
       ELSE Fail(n, ReadinessError(Ref(n), n, CHOOSE i \in issues : TRUE))
  /\ UNCHANGED others

----------------------------------------------------------------------------
(* execute_node_capability of the capabilities.                            *)

ProvideText(n) ==
  /\ At(n, "execute") /\ Ref(n) = "text.provide_literal"
  /\ IF ~HasParameters(n, {"text"}) \/ DOMAIN call[n].inputs # {} THEN InvalidCall(n)
     ELSE IF Interrupted(n) THEN FailInterrupted(n, OfCapability)
     ELSE \E text \in TextValue(<<Literal(Node(n).parameters["text"])>>) : Complete(n, text)
  /\ UNCHANGED others

\* The call is checked before the interruption is looked for.
SelectAsset(n) ==
  /\ At(n, "execute") /\ Ref(n) \in Reading
  /\ IF ~HasParameters(n, {"asset_id"}) \/ DOMAIN call[n].inputs # {} THEN InvalidCall(n)
     ELSE IF Interrupted(n) THEN FailInterrupted(n, MediaTarget(n))
     ELSE Go(n, "reading")
  /\ UNCHANGED others

\* The inputs a generating capability takes: a text, for a video an image too.
TextInput(n) == IF Ref(n) = "audio.synthesize_speech_from_text" THEN "text" ELSE "prompt"
InputsParse(n) ==
  LET keys == DOMAIN call[n].inputs
      Is(k, type) == k \in keys => InputOf(n, k).type = type
                       /\ call[n].inputs[k].items[1].role = NoRole
  IN /\ Is(TextInput(n), "Text") /\ Is("image", "Image")
     /\ IF Ref(n) = "video.generate_from_image" THEN "image" \in keys /\ keys \subseteq {"image", "prompt"}
        ELSE keys = {TextInput(n)}

BeginGeneration(n) ==
  /\ At(n, "execute") /\ Ref(n) \in Generating
  /\ IF Interrupted(n) THEN FailInterrupted(n, OfCapability)
     ELSE IF ~HasParameters(n, GenerationKeys(n)) \/ ~InputsParse(n) THEN InvalidCall(n)
     ELSE Go(n, IF Ref(n) = "video.generate_from_image" THEN "image" ELSE "start")
  /\ UNCHANGED others

CheckImage(n) ==
  /\ At(n, "image")
  /\ IF Interrupted(n) THEN FailInterrupted(n, MediaTarget(n)) ELSE Go(n, "reading")
  /\ UNCHANGED others

\* The await of read_managed_media.
ReadMedia(n) ==
  /\ At(n, "reading") /\ ~call[n].aborted
  /\ \E read \in Reads(SelectionOf(n), PastDeadline(n)) :
       call' = [call EXCEPT ![n].pc = "read", ![n].held = read]
  /\ UNCHANGED others

\* Interruption first, whatever was read; then its error, then the media.
UseMedia(n) ==
  /\ At(n, "read")
  /\ IF Interrupted(n) THEN FailInterrupted(n, MediaTarget(n))
     ELSE IF call[n].held[1] # "Readable" THEN FailResolving(n, call[n].held, MediaTarget(n))
     ELSE IF Ref(n) \in Reading THEN Complete(n, call[n].held[2])
     ELSE IF call[n].held[2] # InputOf(n, "image")
     THEN FailResolving(n, <<"Media", <<"DigestMismatch">>>>, MediaTarget(n))
     ELSE Go(n, "start")
  /\ UNCHANGED others

----------------------------------------------------------------------------
(* The start of a Generation Task.                                         *)

FailStart(n, failure) == Fail(n, StartError(Ref(n), n, failure))

\* NodeCapabilityGenerationTaskStartRequest: text, image and choice as given.
StartRequest(n) ==
  [kind |-> RequestKinds[Ref(n)], profile |-> ProfileOf(n),
   text |-> IF TextInput(n) \in DOMAIN call[n].inputs THEN InputOf(n, TextInput(n)).parts ELSE <<>>,
   image |-> IF "image" \in DOMAIN call[n].inputs THEN {call[n].held[2]} ELSE {},
   choice |-> {Node(n).parameters[k] : k \in GenerationKeys(n) \ {ProfileKey}},
   output |-> OutputKey(n)]
OutputOf == [Image |-> "image", Video |-> "video", Voice |-> "audio"]

\* try_new of the request, then the capability's own look at the interruption.
StartTask(n) ==
  /\ At(n, "start")
  /\ LET r == StartRequest(n)
     IN IF r.output # OutputOf[r.kind] \/ (r.image # {}) # (r.kind = "Video")
        THEN FailStart(n, "InvalidRequest")
        ELSE IF Interrupted(n) THEN FailStart(n, Interruption(n))
        ELSE Go(n, "translate")
  /\ UNCHANGED others

\* The starter's command, between its two looks at the interruption.
IsOneLiteral(parts) == Len(parts) = 1 /\ parts[1][1] = "Literal"
TranslateStart(n) ==
  /\ At(n, "translate")
  /\ LET r == StartRequest(n)
     IN IF Interrupted(n) THEN FailStart(n, Interruption(n))
        ELSE IF ~IsOneLiteral(r.text) /\ ~(r.kind = "Video" /\ r.text = <<>>)
        THEN FailStart(n, "InvalidRequest")
        ELSE IF r.profile \notin DOMAIN Routes \/ Routes[r.profile] # r.kind
        THEN FailStart(n, "Unavailable")
        ELSE Go(n, "create")
  /\ UNCHANGED others

\* What the task is asked for.
TaskRequest(n) ==
  LET r == StartRequest(n)
  IN [kind |-> r.kind, profile |-> r.profile, choice |-> r.choice,
      text |-> IF r.text = <<>> THEN {} ELSE {r.text[1][2]},
      image |-> {<<i.asset, i.digest>> : i \in r.image}]

\* start_generation_task: the clock, then one transaction.  The task's key is
\* its node execution, so an earlier one is found and compared.
\* Mutant: the failing commit comes after the task's row is written.
CreateThenFail(n) ==
  /\ At(n, "create")
  /\ tasks' = Put(tasks, n, TaskRequest(n))
  /\ \/ FailStart(n, "Persistence")
     \/ EndWith(n, <<"Waiting">>)
  /\ UNCHANGED <<plan, row, executor, canceller, woken, assets>>
CreateTask(n) ==
  /\ At(n, "create")
  /\ \/ \E failure \in {"Unavailable", "Persistence"} : FailStart(n, failure) /\ UNCHANGED tasks
     \/ /\ n \in DOMAIN tasks => tasks[n] = TaskRequest(n)
        /\ tasks' = Put(tasks, n, TaskRequest(n))
        /\ EndWith(n, <<"Waiting">>)
     \/ n \in DOMAIN tasks /\ tasks[n] # TaskRequest(n) /\ FailStart(n, "Conflict") /\ UNCHANGED tasks
  /\ UNCHANGED <<plan, row, executor, canceller, woken, assets>>

----------------------------------------------------------------------------
(* What happens around the calls.                                          *)

\* Time passes a call by; so it does for those that wait for nothing.
TimePasses(n) ==
  /\ call[n].pc \notin {"none", "ended", "committed"} /\ call[n].elapsed # "both"
  /\ call' = [call EXCEPT ![n].elapsed = IF @ = "nothing" THEN "execution" ELSE "both"]
  /\ UNCHANGED others

\* The row of the Run first, then the signals of its calls.
CommitCancel ==
  /\ canceller = "idle" /\ row.state \notin Terminal /\ Restores(row)
  /\ row' = [state |-> "Cancelled",
             nodes |-> [n \in Nodes |-> IF row.nodes[n].state \notin Active THEN row.nodes[n]
                          ELSE [row.nodes[n] EXCEPT !.state = "Cancelled", !.finished = TRUE]]]
  /\ canceller' = "committed"
  /\ UNCHANGED <<plan, executor, call, woken, assets, tasks>>
SignalCancel ==
  /\ canceller = "committed"
  /\ canceller' = "signalled"
  /\ call' = [n \in Nodes |-> IF call[n].pc \in {"none", "committed"} THEN call[n]
                              ELSE [call[n] EXCEPT !.cancelled = TRUE]]
  /\ UNCHANGED <<plan, row, executor, woken, assets, tasks>>

\* The bytes of an Asset are found to be missing.
ContentIsLost(a) ==
  /\ assets[a].content = "Available"
  /\ assets' = [assets EXCEPT ![a].content = "Missing"]
  /\ UNCHANGED <<plan, row, executor, canceller, call, woken, tasks>>

\* complete_generation_task of a task that ended, its output recorded as an
\* Asset of the type its request was for.
TypeOf == [Image |-> "Image", Video |-> "Video", Voice |-> "Audio"]
CompleteTask(n) ==
  /\ row.nodes[n].state = "Waiting" /\ n \in DOMAIN tasks /\ Restores(row)
  /\ LET type == TypeOf[tasks[n].kind]
         digest == Digest(Produced[n])
         value == ManagedRef(type, Produced[n], digest)
     IN \/ \E outputs \in OutputSet(Ref(n), Only(OutputKey(n), value)) :
             /\ row' = [row EXCEPT !.nodes[n] = Settled(n, <<"Completed", outputs>>)]
             /\ assets' = Put(assets, Produced[n], [type |-> type, content |-> "Available",
                                                    digest |-> digest])
        \/ /\ \E f \in {<<"GenerationTask", "ProviderRejected">>} :
                row' = [row EXCEPT !.nodes[n] = Settled(n, <<"Failed", f>>)]
           /\ UNCHANGED assets
  /\ woken' = TRUE
  /\ UNCHANGED <<plan, executor, canceller, call, tasks>>

Step(n) ==
  \/ CheckReadiness(n) \/ ProvideText(n) \/ SelectAsset(n) \/ BeginGeneration(n) \/ CheckImage(n)
  \/ ReadMedia(n) \/ UseMedia(n) \/ StartTask(n) \/ TranslateStart(n) \/ CreateTask(n)

Next ==
  \/ Loop \/ TakeEffect \/ CommitCancel \/ SignalCancel
  \/ \E n \in Nodes : BuildCall(n) \/ Step(n) \/ CollectResult(n) \/ TimePasses(n) \/ CompleteTask(n)
  \/ \E a \in DOMAIN assets : ContentIsLost(a)

Spec == Init /\ [][Next]_vars
FairSpec ==
  /\ Spec
  /\ WF_vars(Loop) /\ WF_vars(\E n \in Nodes : BuildCall(n))
  /\ \A n \in NodesOfDocuments : WF_vars(n \in Nodes /\ Step(n)) /\ WF_vars(n \in Nodes /\ CollectResult(n))

----------------------------------------------------------------------------
(* Properties.                                                             *)

\* Of an outcome, as the code keeps it and reads it back.
ReadsBack(outcome) ==
  CASE outcome[1] = "Completed" -> DecodeOutputs(EncodeOutputs(outcome[2])) = {outcome[2]}
    [] outcome[1] = "Failed" -> DecodeFailure(EncodeFailure(outcome[2])) = {outcome[2]}
    [] outcome[1] = "Waiting" -> TRUE
ConstructedErrorsReadBack ==
  /\ \A ref \in DOMAIN Registry : \A e \in ConstructedErrors(ref, 1) :
       ReadsBack(<<"Failed", CapabilityFailed(e)>>)
  /\ \A f \in TaskFailures : ReadsBack(<<"Failed", f>>)

\* Whatever a call comes to can be read back as it was: the error constructors
\* bypass the check that decoding applies (error.rs, failure.rs), and a row
\* that cannot be read could be neither driven nor cancelled again.
OutcomesReadBack ==
  /\ ConstructedErrorsReadBack
  /\ \A n \in Nodes : call[n].outcome # <<>> => ReadsBack(call[n].outcome)
  /\ Restores(row)

\* What the frozen plan asks of a generating node's task: the text of the
\* literal and the image, by exact content, of the nodes it takes from.
SourceOf(n, key) == Node(n).bindings[<<n, key>>].items[1].source
Bound(n, key) == <<n, key>> \in DOMAIN Node(n).bindings
ImageOf(s) ==
  LET asset == IF Ref(s) \in Reading THEN Node(s).parameters["asset_id"] ELSE Produced[s]
  IN <<asset, Digest(asset)>>
Wanted(n) ==
  [kind |-> RequestKinds[Ref(n)], profile |-> Node(n).parameters[ProfileKey],
   choice |-> {Node(n).parameters[k] : k \in DOMAIN Node(n).parameters \ {ProfileKey}},
   text |-> IF Bound(n, TextInput(n)) THEN {Node(SourceOf(n, TextInput(n))).parameters["text"]}
            ELSE {},
   image |-> IF Bound(n, "image") THEN {ImageOf(SourceOf(n, "image"))} ELSE {}]

\* Through batches, cancellation, deadlines and lost commits, a task is for
\* exactly what the plan froze for its node; a node waits only for a task that
\* exists, and one whose capability failed has left no task behind
\* (generation_task_start.rs, generation_task_start_adapter.rs).
NodeAndTaskAgree ==
  \A n \in Nodes :
    /\ n \in DOMAIN tasks => Ref(n) \in Generating /\ tasks[n] = Wanted(n)
    /\ row.nodes[n].state = "Waiting" => n \in DOMAIN tasks
    /\ \A f \in row.nodes[n].failure : (f.kind = "Capability") = (n \notin DOMAIN tasks)

\* Failures that only a plan, or a result, the code has admitted wrongly has.
Refusals ==
  {InvalidInvocation, InvalidResult, <<"Media", <<"DigestMismatch">>>>}
    \cup {<<"GenerationTaskStart", f>> : f \in {"InvalidRequest", "Conflict"}}
    \cup {<<"Media", <<"KindMismatch", x, y>>>> : x, y \in DataTypes}
RefusedIssues ==
  {"InvalidCapabilityInvocation", "ManagedAssetKindMismatch", "GenerationProfileIncompatible",
   "GenerationProfileUnavailable"}

\* A plan that was ready when it was frozen is not refused by what executes it:
\* every check made again downstream (input.rs, runtime_value.rs, the
\* capabilities, the start adapter) agrees with the ones made at admission, so
\* a call fails only for what has happened since.
AdmittedNeverRefused ==
  /\ executor.error \notin {"inputs", "unreadable"}
  /\ \A n \in Nodes : call[n].outcome # <<>> /\ call[n].outcome[1] = "Failed" =>
       LET failure == call[n].outcome[2][2].failure
       IN failure \notin Refusals
            /\ (failure[1] = "Readiness" => failure[2].category \notin RefusedIssues)

\* A call that was begun comes to an end that is committed, however its
\* deadlines, its canceller and its reads fall, unless the executor itself
\* fails and drops it.
CallsSettle ==
  \A n \in NodesOfDocuments :
    (n \in Nodes /\ call[n].pc = "readiness") ~> (call[n].pc = "committed" \/ call[n].aborted)
=============================================================================
