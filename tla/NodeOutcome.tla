----------------------------- MODULE NodeOutcome -----------------------------
(***************************************************************************)
(* What a call of a node capability is given and what it comes to: runtime *)
(* values, input and output sets, the closed set of errors, and the form   *)
(* in which a Run's row keeps an outcome and reads it back.                *)
(*                                                                         *)
(* A construction or a decoding that may fail returns the set of its       *)
(* results: one, or none for an error.  A failure, a target or an outcome  *)
(* is a tuple that starts with its variant.                                *)
(***************************************************************************)
EXTENDS WorkflowGraph

(* Runtime values.  Literals stand for their text; a literal parameter and *)
(* a text value have the same byte limit, and no text has two literals, so *)
(* neither the limit nor the merging of literals is modelled.  EmptyText   *)
(* is the literal that try_new drops.                                      *)

Literal(text) == <<"Literal", text>>
EmptyText == "empty"
PartLimit == 1024
TextValue(parts) ==
  LET Kept[i \in 0 .. Len(parts)] ==
        IF i = 0 THEN <<>>
        ELSE IF parts[i] = Literal(EmptyText) THEN Kept[i - 1] ELSE Append(Kept[i - 1], parts[i])
      kept == Kept[Len(parts)]
  IN IF Len(parts) > PartLimit \/ kept = <<>> THEN {} ELSE {[type |-> "Text", parts |-> kept]}
ManagedRef(type, asset, digest) == [type |-> type, asset |-> asset, digest |-> digest]

\* values: key -> [ordered, items]; an item is [id, role, value].
InputMatches(input, v) ==
  /\ v.ordered = input.ordered
  /\ v.items # <<>> /\ Len(v.items) \in input.minimum .. input.maximum
  /\ \A i \in Items(v) : i.role \in DOMAIN input.accepts
                           /\ i.value.type \in input.accepts[i.role]
\* Mutant: an optional input must be given too.
CompleteInputSet(ref, values) ==
  LET inputs == Registry[ref].inputs
  IN IF DOMAIN values = DOMAIN inputs /\ \A k \in DOMAIN inputs : InputMatches(inputs[k], values[k])
     THEN {values} ELSE {}
InputSet(ref, values) ==
  LET inputs == Registry[ref].inputs
  IN IF /\ DOMAIN values \subseteq DOMAIN inputs
        /\ \A k \in DOMAIN inputs : IF k \in DOMAIN values THEN InputMatches(inputs[k], values[k])
                                    ELSE inputs[k].minimum = 0
     THEN {values} ELSE {}

OutputSet(ref, values) ==
  LET outputs == Registry[ref].outputs
  IN IF DOMAIN values = DOMAIN outputs /\ \A k \in DOMAIN outputs : values[k].type = outputs[k]
     THEN {values} ELSE {}

EncodeOutputs(values) == [expected |-> [k \in DOMAIN values |-> values[k].type], values |-> values]
DecodeValue(v) == IF v.type = "Text" THEN TextValue(v.parts) ELSE {v}
DecodeOutputs(p) ==
  IF /\ DOMAIN p.values # {} /\ DOMAIN p.values = DOMAIN p.expected
     /\ \A k \in DOMAIN p.values : DecodeValue(p.values[k]) = {p.values[k]}
                                     /\ p.values[k].type = p.expected[k]
  THEN {p.values} ELSE {}

----------------------------------------------------------------------------
(* Readiness issues: [category, target, mismatch], a mismatch being the    *)
(* media kinds expected and observed.                                      *)

NoMismatch == <<>>
OfCapability == <<"Capability">>
Issue(category, target) == [category |-> category, target |-> target, mismatch |-> NoMismatch]
InvalidReadinessCall == Issue("InvalidCapabilityInvocation", OfCapability)
AssetIssue(category, key, asset) == Issue(category, <<"ManagedAsset", key, asset>>)
ProfileIssue(category, profile) == Issue(category, <<"GenerationProfile", ProfileKey, profile>>)

AssetCategories ==
  {"ManagedAssetUnavailable", "ManagedAssetKindMismatch", "ManagedAssetReadinessIndeterminate"}
ProfileCategories ==
  {"GenerationProfileIncompatible", "GenerationProfileUnavailable",
   "GenerationProfileAvailabilityIndeterminate"}

ValidIssue(i) ==
  /\ i.target[1] = CASE i.category \in AssetCategories -> "ManagedAsset"
                     [] i.category \in ProfileCategories -> "GenerationProfile"
                     [] OTHER -> "Capability"
  /\ IF i.category = "ManagedAssetKindMismatch"
     THEN /\ i.mismatch # NoMismatch /\ i.mismatch[1] # i.mismatch[2]
          /\ {i.mismatch[1], i.mismatch[2]} \subseteq Media
     ELSE i.mismatch = NoMismatch

\* The one fallible constructor has a fallback.
AssetKindIssue(key, asset, expected, observed) ==
  LET i == [AssetIssue("ManagedAssetKindMismatch", key, asset)
              EXCEPT !.mismatch = <<expected, observed>>]
  IN IF ValidIssue(i) THEN i
     ELSE AssetIssue("ManagedAssetReadinessIndeterminate", key, asset)

----------------------------------------------------------------------------
(* Failures and errors.                                                    *)

Interruptions == {<<"Cancelled">>, <<"DeadlineExceeded">>}
InvalidInvocation == <<"InvalidCapabilityInvocation">>
InvalidResult == <<"InvalidCapabilityResult">>
MediaFailures ==
  {<<"Media", <<f>>>> : f \in {"Unavailable", "InvalidMedia", "SizeLimitExceeded",
     "DigestMismatch", "OutputConflict", "StorageFailed", "InspectionFailed",
     "FinalizationFailed"}}
    \cup {<<"Media", <<"KindMismatch", x, y>>>> : x, y \in DataTypes}
StartFailures ==
  {<<"GenerationTaskStart", f>> : f \in
     {"InvalidRequest", "Conflict", "Unavailable", "Cancelled", "DeadlineExceeded",
      "Persistence"}}

\* A provider's failure: its category, whether a new Run may retry it, and
\* whether it says when.
AlwaysRetryable == {"RateLimited", "ProviderUnavailable"}
ProviderCategories ==
  AlwaysRetryable \cup
  {"InvalidSemanticRequest", "AuthenticationFailed", "PermissionDenied",
   "ContentPolicyRejected", "DeadlineExceeded", "ProviderRejected", "InvalidResponse",
   "DownloadRejected", "AmbiguousSubmission"}
ProviderFailure(category, accepted, delayed) ==
  LET retryable == category \in AlwaysRetryable \/ (category = "DeadlineExceeded" /\ ~accepted)
  IN IF delayed /\ ~retryable THEN {} ELSE {<<"Provider", category, retryable, delayed>>}
RestoreProvider(category, retryable, delayed) ==
  IF /\ category \in AlwaysRetryable => retryable
     /\ category \notin AlwaysRetryable \cup {"DeadlineExceeded"} => ~retryable
     /\ delayed => retryable
  THEN {<<"Provider", category, retryable, delayed>>} ELSE {}
ProviderFailures ==
  UNION {ProviderFailure(c, accepted, delayed) :
           c \in ProviderCategories, accepted, delayed \in BOOLEAN}

OfParameter(key) == <<"Parameter", key>>
OfInput(key) == <<"Input", key>>
OfOutput(key) == <<"Output", key>>
Error(ref, n, stage, failure, target) ==
  [contract |-> ref, execution |-> n, stage |-> stage, failure |-> failure, target |-> target]

TargetsOf ==
  [ResolveInputs |-> {"Capability", "Parameter", "Input"},
   StartGenerationTask |-> {"Capability"}, CallProvider |-> {"Capability"},
   ValidateProviderResult |-> {"Capability", "Output"},
   WriteManagedMedia |-> {"Capability", "Output"}, AssembleOutputs |-> {"Output"}]

\* NodeCapabilityExecutionError::try_new.
ValidError(e) ==
  LET source == e.failure[1]
      target == e.target[1]
  IN /\ target \in TargetsOf[e.stage]
     /\ source = "Readiness" => /\ target = "Parameter"
                                /\ e.failure[2].target[1] # "Capability"
                                /\ e.failure[2].target[2] = e.target[2]
     /\ source = "InvalidCapabilityInvocation" =>
          e.stage = "ResolveInputs" /\ target = "Capability"
     /\ source = "InvalidCapabilityResult" =>
          e.stage \in {"ValidateProviderResult", "AssembleOutputs"} /\ target = "Output"
     /\ e.stage = "AssembleOutputs" => source = "InvalidCapabilityResult"
     /\ (source = "GenerationTaskStart") = (e.stage = "StartGenerationTask")

\* What the fixed constructors make: none of them goes through the check.
ErrorsAt(ref, n, stage, failures, targets) ==
  {Error(ref, n, stage, f, t) : f \in failures, t \in targets}
ResolutionErrors(ref, n) ==
  ErrorsAt(ref, n, "ResolveInputs", Interruptions \cup {InvalidInvocation}, {OfCapability})
    \cup ErrorsAt(ref, n, "ResolveInputs", Interruptions \cup MediaFailures,
                  {OfParameter(k) : k \in DOMAIN Registry[ref].parameters}
                    \cup {OfInput(k) : k \in DOMAIN Registry[ref].inputs})
CallErrors(ref, n) ==
  ErrorsAt(ref, n, "CallProvider", Interruptions \cup ProviderFailures, {OfCapability})
    \cup ErrorsAt(ref, n, "StartGenerationTask", StartFailures, {OfCapability})
OutputErrors(ref, n) ==
  LET outputs == {OfOutput(k) : k \in DOMAIN Registry[ref].outputs}
  IN ErrorsAt(ref, n, "WriteManagedMedia", Interruptions \cup MediaFailures, outputs)
       \cup ErrorsAt(ref, n, "ValidateProviderResult", {InvalidResult}, outputs)
       \cup ErrorsAt(ref, n, "AssembleOutputs", {InvalidResult}, outputs)
ConstructedErrors(ref, n) ==
  ResolutionErrors(ref, n) \cup CallErrors(ref, n) \cup OutputErrors(ref, n)

ResolutionError(ref, n, failure, target) == Error(ref, n, "ResolveInputs", failure, target)
StartError(ref, n, failure) ==
  Error(ref, n, "StartGenerationTask", <<"GenerationTaskStart", failure>>, OfCapability)

\* Mutant: the target of the issue is not carried over.
ReadinessOfCapability(ref, n, issue) ==
  Error(ref, n, "ResolveInputs", <<"Readiness", issue>>, OfCapability)
\* readiness_execution_error: what the check refuses becomes an invalid call.
ReadinessError(ref, n, issue) ==
  LET target == IF issue.target[1] = "Capability" THEN OfCapability
                ELSE OfParameter(issue.target[2])
      e == Error(ref, n, "ResolveInputs", <<"Readiness", issue>>, target)
  IN IF ValidError(e) THEN e ELSE ResolutionError(ref, n, InvalidInvocation, OfCapability)

----------------------------------------------------------------------------
(* The failure of a node as its row keeps it: of the capability's call, or *)
(* of the task that took it over.                                          *)

CapabilityFailed(e) == <<"Capability", e>>
TaskFailures ==
  {<<"GenerationTask", f>> : f \in
     {"InvalidRequest", "Authentication", "PermissionDenied", "ContentPolicy", "RateLimited",
      "ProviderUnavailable", "Timeout", "ProviderRejected", "InvalidProviderResponse",
      "AmbiguousSubmission", "InputAssetUnavailable", "OutputAssetImport", "Internal",
      "GenerationTaskCancelled"}}

EncodeFailure(f) ==
  IF f[1] = "GenerationTask" THEN [kind |-> "GenerationTask", failure |-> f[2]]
  ELSE [kind |-> "Capability", contract |-> f[2].contract, execution |-> f[2].execution,
        stage |-> f[2].stage, failure |-> f[2].failure, target |-> f[2].target]

DecodeReadiness(i) == IF ValidIssue(i) THEN {<<"Readiness", i>>} ELSE {}
DecodeSource(s) ==
  CASE s[1] = "Provider" -> RestoreProvider(s[2], s[3], s[4])
    [] s[1] = "Readiness" -> DecodeReadiness(s[2])
    [] OTHER -> {s}
DecodeFailure(p) ==
  IF p.kind = "GenerationTask" THEN {<<"GenerationTask", p.failure>>}
  ELSE {CapabilityFailed(e) : e \in
          {e \in {Error(p.contract, p.execution, p.stage, s, p.target) :
                    s \in DecodeSource(p.failure)} : ValidError(e)}}
=============================================================================
