---------------------------- MODULE AssetContent ----------------------------
(***************************************************************************)
(* Managed Asset content: two-phase ingest (stage a file, then commit the  *)
(* Asset, its finalization and its effect in one transaction), publication *)
(* of the staged bytes under their digest, and recovery.                   *)
(*                                                                         *)
(* A finalization may be run by three actors at once: the request that     *)
(* just committed it (inline, without a claim), the post-commit worker     *)
(* that claimed its effect, and reconciliation.  Every await is a step; a  *)
(* deadline may end an actor at any await, and a transaction that was      *)
(* already handed to the blocking pool still runs after its caller is gone *)
(* (`late`).                                                               *)
(*                                                                         *)
(* The Asset, finalization, effect and staging file of a request carry the *)
(* request's name: each request draws fresh identities.                    *)
(***************************************************************************)
EXTENDS FiniteSets, Naturals

CONSTANTS
  Imports,        \* import requests
  Outputs,        \* attempts to record one node output (one output key)
  Contents,       \* digests
  Productions,    \* the content of each request that is made: partial functions
  MaxIncidents,   \* crashes and deleted files, at most, with each production
  Reconciled      \* the productions during which reconciliation is run

Requests == Imports \cup Outputs
Actors == Requests \cup {"worker", "reconciler"}
NoAsset == "none"

ASSUME RequestAssumption ==
  /\ Imports \cap Outputs = {}
  /\ {"worker", "reconciler", NoAsset} \cap Requests = {}
  /\ \A p \in Productions : p \in [DOMAIN p -> Contents] /\ DOMAIN p \subseteq Requests
  /\ MaxIncidents \in [Productions -> Nat]
  /\ Reconciled \subseteq Productions

VARIABLES
  content,   \* the bytes of each request that is made
  asset,     \* content state of each Asset row, "Absent" before the commit
  completed, \* finalizations with completed = 1
  effect,    \* row of desktop_post_commit_effects of each finalization
  binding,   \* asset_node_output_bindings: the Asset of the output key
  temps,     \* staging files still being copied (*.tmp)
  staged,    \* complete staging files
  managed,   \* published contents
  actor,     \* what each actor is doing
  late,      \* transactions that outlived their caller
  answer,    \* what each request was told
  lost,      \* requests whose bytes the environment destroyed
  touched,   \* requests with a file the environment deleted
  incidents, up

vars == <<content, asset, completed, effect, binding, temps, staged, managed,
          actor, late, answer, lost, touched, incidents, up>>
files == <<temps, staged, managed>>
rows == <<asset, completed, effect, binding>>
outside == <<content, lost, touched, incidents, up>>

----------------------------------------------------------------------------
(* Errors, as callers and the effect executor tell them apart.             *)

TransientErrors == {"StorageFailed", "DeadlineExceeded"}
PermanentErrors == {"ContentMissing", "NodeOutputConflict", "IdentityConflict",
                    "FinalizationFailed", "InvalidMedia"}
MissingStates == {"SourceMissing", "ManagedMissing"}
ContentStates == {"Pending", "Available"} \cup MissingStates

\* pc: where the actor awaits; on: the Asset it works on; seen: the content
\* state of the copy it loaded.
Idle == [pc |-> "idle", on |-> NoAsset, seen |-> "Absent"]
At(pc, on, seen) == [pc |-> pc, on |-> on, seen |-> seen]

Init ==
  /\ content \in Productions
  /\ asset = [r \in Requests |-> "Absent"]
  /\ completed = {}
  /\ effect = [r \in Requests |-> "None"]
  /\ binding = NoAsset
  /\ temps = {} /\ staged = {} /\ managed = {}
  /\ actor = [a \in Actors |-> Idle]
  /\ late = {}
  /\ answer = [r \in Requests |-> "None"]
  /\ lost = {} /\ touched = {}
  /\ incidents = 0 /\ up = TRUE

Go(a, pc) == actor' = [actor EXCEPT ![a].pc = pc]
IsAt(a, pc) == up /\ actor[a].pc = pc
Active(r) == actor[r].pc # "idle"

\* How a request ends; the executor and reconciliation end elsewhere.
Tell(r, result) ==
  /\ actor' = [actor EXCEPT ![r] = Idle]
  /\ answer' = [answer EXCEPT ![r] = result]

\* map_asset_error of the sink: the task tries a transient failure again.
Refuse(r, error) ==
  Tell(r, IF r \in Outputs /\ error \in TransientErrors THEN "ContentPending" ELSE error)

----------------------------------------------------------------------------
(* Staging.                                                                *)

\* recover_asset_node_output: an attempt to record an output looks first for
\* what an earlier attempt has left, and needs its source only otherwise.
Recovery ==
  IF binding = NoAsset \/ asset[binding] \in MissingStates THEN "SourceRequired"
  ELSE asset[binding]

\* One attempt of the output at a time; a transient answer is tried again.
MayBegin(r) ==
  /\ up /\ ~Active(r) /\ r \in DOMAIN content
  /\ answer[r] \in {"None", "ContentPending"}
  /\ r \in Outputs => \A o \in Outputs : ~Active(o)

RecoverFirst(r) ==
  /\ MayBegin(r) /\ r \in Outputs /\ Recovery # "SourceRequired"
  /\ Tell(r, IF Recovery = "Available" THEN "Available" ELSE "ContentPending")
  /\ UNCHANGED <<files, rows, late, outside>>

\* A repeated attempt draws a new staging name; the model's names are one per
\* request, so it waits until the old file is gone.
StageContent(r) ==
  /\ MayBegin(r) /\ r \notin staged \cup temps /\ asset[r] = "Absent"
  /\ \A t \in late : t.on # r
  /\ r \in Outputs => Recovery = "SourceRequired"
  /\ temps' = temps \cup {r}
  /\ actor' = [actor EXCEPT ![r] = At("copy", r, "Absent")]
  /\ answer' = [answer EXCEPT ![r] = "None"]
  /\ UNCHANGED <<staged, managed, rows, late, outside>>

\* The copy ends with a rename; an import goes on to its inspection, a node
\* output first looks for an Asset under its key.
FinishCopy(r) ==
  /\ IsAt(r, "copy")
  /\ temps' = temps \ {r} /\ staged' = staged \cup {r}
  /\ Go(r, IF r \in Outputs THEN "lookup" ELSE "inspect")
  /\ UNCHANGED <<managed, rows, late, answer, outside>>

FailCopy(r) ==
  /\ IsAt(r, "copy")
  /\ temps' = temps \ {r}
  /\ \E e \in {"StorageFailed", "InvalidMedia"} : Refuse(r, e)
  /\ UNCHANGED <<staged, managed, rows, late, outside>>

FindExistingOutput(r) ==
  /\ IsAt(r, "lookup")
  /\ IF binding = NoAsset THEN Go(r, "inspect")
     ELSE actor' = [actor EXCEPT ![r] = At("replay", binding, asset[binding])]
  /\ UNCHANGED <<files, rows, late, answer, outside>>

\* Opens and inspects the staged bytes; a failure is cleaned up.
InspectStaged(r) ==
  /\ IsAt(r, "inspect")
  /\ \/ r \in staged /\ actor' = [actor EXCEPT ![r].pc = "commitPending"]
     \/ actor' = [actor EXCEPT ![r] = At("cleanup", r, "InvalidMedia")]
     \/ r \notin staged /\ actor' = [actor EXCEPT ![r] = At("cleanup", r, "ContentMissing")]
  /\ UNCHANGED <<files, rows, late, answer, outside>>

RemoveUncommittedStaging(r) ==
  /\ IsAt(r, "cleanup")
  /\ staged' = staged \ {r} \/ UNCHANGED staged
  /\ Refuse(r, actor[r].seen)
  /\ UNCHANGED <<temps, managed, rows, late, outside>>

----------------------------------------------------------------------------
(* The ingest transactions.                                                *)

\* commit_pending: Asset, finalization, key and Ready effect, all or nothing.
\* Mutant: the key is not looked up again inside the transaction.
BlindInsert(r) ==
  /\ asset' = [asset EXCEPT ![r] = "Pending"]
  /\ effect' = [effect EXCEPT ![r] = "Ready"]
  /\ binding' = IF r \in Outputs THEN r ELSE binding
  /\ UNCHANGED completed

\* Mutant: an import is bound to the key too.
BindEvery(r) ==
  /\ asset' = [asset EXCEPT ![r] = "Pending"]
  /\ effect' = [effect EXCEPT ![r] = "Ready"]
  /\ binding' = r
  /\ UNCHANGED completed

InsertPending(r) ==
  IF r \in Outputs /\ binding # NoAsset THEN UNCHANGED rows
  ELSE /\ asset' = [asset EXCEPT ![r] = "Pending"]
       /\ effect' = [effect EXCEPT ![r] = "Ready"]
       /\ binding' = IF r \in Outputs THEN r ELSE binding
       /\ UNCHANGED completed

\* commit_available accepts the Pending Asset of an unfinished finalization,
\* or finds that someone else has committed exactly this.
AvailableAccepted(r) ==
  \/ asset[r] = "Available" /\ r \in completed
  \/ asset[r] = "Pending" /\ r \notin completed

WriteAvailable(r) ==
  IF asset[r] = "Pending" /\ r \notin completed
  THEN /\ asset' = [asset EXCEPT ![r] = "Available"]
       /\ completed' = completed \cup {r}
       /\ UNCHANGED <<effect, binding>>
  ELSE UNCHANGED rows

\* commit_missing: `from` is the state of the copy the change was made to; a
\* Pending one brings the finalization it completes.
MissingFrom(from) == IF from = "Pending" THEN "SourceMissing" ELSE "ManagedMissing"

MissingAccepted(r, from) ==
  \/ asset[r] = MissingFrom(from)
  \/ asset[r] = from /\ (from = "Pending" => r \notin completed)

WriteMissing(r, from) ==
  IF asset[r] = from /\ (from = "Pending" => r \notin completed)
  THEN /\ asset' = [asset EXCEPT ![r] = MissingFrom(from)]
       /\ completed' = IF from = "Pending" THEN completed \cup {r} ELSE completed
       /\ UNCHANGED <<effect, binding>>
  ELSE UNCHANGED rows

CommitPending(r) ==
  /\ IsAt(r, "commitPending")
  /\ InsertPending(r)
  /\ actor' = [actor EXCEPT ![r] =
       IF r \in Outputs /\ binding # NoAsset
       THEN At("replay", binding, asset[binding]) ELSE At("load", r, "Absent")]
  /\ UNCHANGED <<files, late, answer, outside>>

\* The transaction rolls back: the caller removes what it has staged.
CommitPendingFails(r) ==
  /\ IsAt(r, "commitPending")
  /\ actor' = [actor EXCEPT ![r] = At("cleanup", r, "StorageFailed")]
  /\ UNCHANGED <<files, rows, late, answer, outside>>

SameOutput(existing, r) == content[existing] = content[r]

\* The same output again: its own staging goes, and the existing Asset is the
\* answer if the bytes are the same.
ReplayExistingOutput(r) ==
  LET existing == actor[r].on IN
  /\ IsAt(r, "replay")
  /\ staged' = staged \ {r} \/ UNCHANGED staged
  /\ CASE ~SameOutput(existing, r) -> Tell(r, "NodeOutputConflict")
       [] SameOutput(existing, r) /\ actor[r].seen = "Available" -> Tell(r, "Available")
       [] SameOutput(existing, r) /\ actor[r].seen \in MissingStates ->
            Tell(r, "ContentMissing")
       [] OTHER -> Go(r, "load") /\ UNCHANGED answer
  /\ UNCHANGED <<temps, managed, rows, late, outside>>

----------------------------------------------------------------------------
(* Finalization, the same for every actor.                                 *)

\* attempt_inline_finalization defers what may work later; a node output is
\* answered only with an Available Asset.
InlineAnswer(r, result) ==
  CASE r \in Imports /\ result \in TransientErrors -> "Pending"
    [] r \in Outputs /\ result \in TransientErrors -> "ContentPending"
    [] r \in Outputs /\ result \in MissingStates -> "ContentMissing"
    [] OTHER -> result

\* execute_asset_effect and finish_claim.
EffectOutcome(result) ==
  CASE result \in TransientErrors -> "Ready"
    [] result \in ContentStates -> "Completed"
    [] OTHER -> "Abandoned"

\* Reconciliation goes on to its next item, or stops at an error.
Finish(a, result) ==
  CASE a \in Requests -> Tell(a, InlineAnswer(a, result))
    [] a = "worker" ->
         /\ actor' = [actor EXCEPT ![a] = At("finish", actor[a].on, result)]
         /\ UNCHANGED answer
    [] OTHER -> actor' = [actor EXCEPT ![a] = Idle] /\ UNCHANGED answer

Proceed(a, pc) == Go(a, pc) /\ UNCHANGED answer

LoadFinalization(a) ==
  /\ IsAt(a, "load")
  /\ IF asset[actor[a].on] = "Pending"
     THEN /\ actor' = [actor EXCEPT ![a] = At("open", actor[a].on, "Pending")]
          /\ UNCHANGED answer
     ELSE Finish(a, asset[actor[a].on])
  /\ UNCHANGED <<files, rows, late, outside>>

OpenStaged(a) ==
  /\ IsAt(a, "open")
  /\ Proceed(a, IF actor[a].on \in staged THEN "verifyStaged" ELSE "verifyManaged")
  /\ UNCHANGED <<files, rows, late, outside>>

\* publish_staged_asset_content hashes the source, then links it.
VerifyStaged(a) ==
  /\ IsAt(a, "verifyStaged")
  /\ IF actor[a].on \in staged THEN Proceed(a, "link") ELSE Finish(a, "ContentMissing")
  /\ UNCHANGED <<files, rows, late, outside>>

\* Content that is already there is verified instead of linked.
LinkManaged(a) ==
  LET found == content[actor[a].on] \in managed \/ actor[a].on \in staged IN
  /\ IsAt(a, "link")
  /\ IF found THEN Proceed(a, "commitAvailable") ELSE Finish(a, "StorageFailed")
  /\ managed' = IF found THEN managed \cup {content[actor[a].on]} ELSE managed
  /\ UNCHANGED <<temps, staged, rows, late, outside>>

\* Mutant: what has no staging is given up at once.
GiveUpUnstaged(a) ==
  /\ IsAt(a, "verifyManaged")
  /\ Proceed(a, "commitMissing")
  /\ UNCHANGED <<files, rows, late, outside>>

\* Without a source the exact published content decides.
VerifyManaged(a) ==
  /\ IsAt(a, "verifyManaged")
  /\ Proceed(a, IF content[actor[a].on] \in managed THEN "commitRecovered"
                ELSE "commitMissing")
  /\ UNCHANGED <<files, rows, late, outside>>

CommitAvailable(a) ==
  LET r == actor[a].on IN
  /\ IsAt(a, "commitAvailable") \/ IsAt(a, "commitRecovered")
  /\ WriteAvailable(r)
  /\ CASE ~AvailableAccepted(r) -> Finish(a, "IdentityConflict")
       [] AvailableAccepted(r) /\ actor[a].pc = "commitAvailable" -> Proceed(a, "unstage")
       [] OTHER -> Finish(a, "Available")
  /\ UNCHANGED <<files, late, outside>>

CommitMissing(a) ==
  LET r == actor[a].on IN
  /\ IsAt(a, "commitMissing")
  /\ WriteMissing(r, actor[a].seen)
  /\ Finish(a, IF MissingAccepted(r, actor[a].seen) THEN MissingFrom(actor[a].seen)
               ELSE "IdentityConflict")
  /\ UNCHANGED <<files, late, outside>>

\* Best effort: a failed removal is only logged.
RemovePublishedStaging(a) ==
  /\ IsAt(a, "unstage")
  /\ \/ staged' = staged \ {actor[a].on}
     \/ UNCHANGED staged
  /\ Finish(a, "Available")
  /\ UNCHANGED <<temps, managed, rows, late, outside>>

\* A storage error of any step before the removal.
FinalizerFails(a) ==
  /\ up /\ actor[a].pc \in {"load", "open", "verifyStaged", "link", "verifyManaged",
                            "commitAvailable", "commitRecovered", "commitMissing"}
  /\ Finish(a, "StorageFailed")
  /\ UNCHANGED <<files, rows, late, outside>>

FinalizerSteps(a) ==
  \/ LoadFinalization(a) \/ OpenStaged(a) \/ VerifyStaged(a) \/ LinkManaged(a)
  \/ VerifyManaged(a) \/ CommitAvailable(a) \/ CommitMissing(a)
  \/ RemovePublishedStaging(a)

----------------------------------------------------------------------------
(* The worker's claim.                                                     *)

ClaimEffect(r) ==
  /\ up /\ ~Active("worker")
  /\ effect[r] = "Ready"
  /\ effect' = [effect EXCEPT ![r] = "Claimed"]
  /\ actor' = [actor EXCEPT !["worker"] = At("load", r, "Absent")]
  /\ UNCHANGED <<files, asset, completed, binding, late, answer, outside>>

FinishClaim ==
  /\ IsAt("worker", "finish")
  /\ effect' = [effect EXCEPT ![actor["worker"].on] = EffectOutcome(actor["worker"].seen)]
  /\ actor' = [actor EXCEPT !["worker"] = Idle]
  /\ UNCHANGED <<files, asset, completed, binding, late, answer, outside>>

----------------------------------------------------------------------------
(* Reconciliation: unfinished finalizations, published content, staging    *)
(* older than a day that no unfinished finalization refers to.             *)

ReconcileFinalization ==
  /\ content \in Reconciled /\ up /\ ~Active("reconciler")
  /\ \E r \in Requests :
       /\ asset[r] # "Absent" /\ r \notin completed
       /\ actor' = [actor EXCEPT !["reconciler"] = At("load", r, "Absent")]
  /\ UNCHANGED <<files, rows, late, answer, outside>>

ReconcileAvailable ==
  /\ content \in Reconciled /\ up /\ ~Active("reconciler")
  /\ \E r \in Requests :
       /\ asset[r] = "Available" /\ content[r] \notin managed
       /\ actor' = [actor EXCEPT !["reconciler"] = At("commitMissing", r, "Available")]
  /\ UNCHANGED <<files, rows, late, answer, outside>>

\* Mutant: references are not looked up.
AnyStaging(r) == TRUE
IsUnreferenced(r) == asset[r] = "Absent" \/ r \in completed

\* No request lives for a day: its deadline ends it, and what it left behind
\* in the blocking pool runs long before.
IsStale(r) == r \in staged /\ ~Active(r) /\ \A t \in late : t.on # r

FindStaleStaging ==
  /\ content \in Reconciled /\ up /\ ~Active("reconciler")
  /\ \E r \in Requests :
       /\ IsStale(r) /\ IsUnreferenced(r)
       /\ actor' = [actor EXCEPT !["reconciler"] = At("removeStale", r, "Absent")]
  /\ UNCHANGED <<files, rows, late, answer, outside>>

RemoveStaleStaging ==
  /\ IsAt("reconciler", "removeStale")
  /\ staged' = staged \ {actor["reconciler"].on}
  /\ actor' = [actor EXCEPT !["reconciler"] = Idle]
  /\ UNCHANGED <<temps, managed, rows, late, answer, outside>>

----------------------------------------------------------------------------
(* Deadlines, and transactions that outlive them.                          *)

CommitPoints == {"commitPending", "commitAvailable", "commitRecovered", "commitMissing"}

\* What the blocking pool still holds when an actor gives up waiting.
Outlives(a) ==
  IF actor[a].pc \in CommitPoints
  THEN {[kind |-> actor[a].pc, on |-> IF actor[a].pc = "commitPending" THEN a ELSE actor[a].on,
         seen |-> actor[a].seen]}
  ELSE {}

\* The removals are excepted: they are best effort, and their steps may fail.
CanElapse(a) ==
  up /\ Active(a) /\ actor[a].pc \notin {"finish", "unstage", "removeStale", "replay", "cleanup"}

BeforeCommit == {"copy", "lookup", "inspect", "commitPending"}

GiveUpWaiting(a) ==
  IF a \in Requests /\ actor[a].pc \in BeforeCommit THEN Refuse(a, "DeadlineExceeded")
  ELSE Finish(a, "DeadlineExceeded")

\* Before the commit a request fails, and the removal of its staging is refused
\* because the same deadline is over.  An elapsed copy leaves its *.tmp, or
\* the renamed file.  After the commit the finalization is left to the worker.
DeadlineElapses(a) ==
  /\ CanElapse(a)
  /\ \/ UNCHANGED <<temps, staged>>
     \/ actor[a].pc = "copy" /\ temps' = temps \ {a} /\ staged' = staged \cup {a}
  /\ GiveUpWaiting(a)
  /\ late' = late \cup Outlives(a)
  /\ UNCHANGED <<managed, rows, outside>>

RunLate ==
  /\ up
  /\ \E t \in late :
       /\ late' = late \ {t}
       /\ CASE t.kind = "commitPending" -> InsertPending(t.on)
            [] t.kind = "commitMissing" -> WriteMissing(t.on, t.seen)
            [] OTHER -> WriteAvailable(t.on)
  /\ UNCHANGED <<files, actor, answer, outside>>

----------------------------------------------------------------------------
(* The environment: a crash, the next start, files deleted behind the      *)
(* program's back.                                                         *)

Crash ==
  /\ up /\ incidents < MaxIncidents[content]
  /\ up' = FALSE /\ incidents' = incidents + 1
  /\ actor' = [a \in Actors |-> Idle]
  /\ late' = {}
  /\ answer' = [r \in Requests |->
       IF Active(r) THEN IF r \in Outputs THEN "ContentPending" ELSE "Crashed"
       ELSE answer[r]]
  /\ UNCHANGED <<files, rows, content, lost, touched>>

\* The store removes *.tmp files, startup recovery makes Asset effects that
\* the dead process had claimed Ready.
\* Mutant: claims of the dead process stay.
KeepClaimed(rows_) == rows_
ResetClaimed(rows_) == [r \in Requests |-> IF rows_[r] = "Claimed" THEN "Ready" ELSE rows_[r]]

Startup ==
  /\ ~up
  /\ up' = TRUE
  /\ temps' = {}
  /\ effect' = ResetClaimed(effect)
  /\ UNCHANGED <<staged, managed, asset, completed, binding, actor, late, answer,
                 content, lost, touched, incidents>>

\* A deleted published file is lost to everyone with that content, a deleted
\* staging file to its request, unless its content is published already.
LoseFile ==
  /\ incidents < MaxIncidents[content]
  /\ incidents' = incidents + 1
  /\ \/ \E r \in staged :
          /\ staged' = staged \ {r} /\ UNCHANGED managed
          /\ lost' = IF content[r] \in managed THEN lost ELSE lost \cup {r}
          /\ touched' = touched \cup {r}
     \/ \E c \in managed :
          /\ managed' = managed \ {c} /\ UNCHANGED staged
          /\ LET bytes == {r \in DOMAIN content : content[r] = c} IN
             lost' = lost \cup bytes /\ touched' = touched \cup bytes
  /\ UNCHANGED <<temps, rows, actor, late, answer, content, up>>

----------------------------------------------------------------------------
RequestSteps(r) ==
  \/ RecoverFirst(r) \/ StageContent(r) \/ FinishCopy(r) \/ FailCopy(r)
  \/ FindExistingOutput(r) \/ InspectStaged(r) \/ CommitPending(r)
  \/ CommitPendingFails(r) \/ ReplayExistingOutput(r) \/ RemoveUncommittedStaging(r)

Reconciliation ==
  ReconcileFinalization \/ ReconcileAvailable \/ FindStaleStaging \/ RemoveStaleStaging

Next ==
  \/ \E r \in Requests : RequestSteps(r) \/ ClaimEffect(r)
  \/ \E a \in Actors : FinalizerSteps(a) \/ FinalizerFails(a) \/ DeadlineElapses(a)
  \/ FinishClaim \/ Reconciliation
  \/ RunLate \/ Crash \/ Startup \/ LoseFile

Spec == Init /\ [][Next]_vars

WorkerStep == FinishClaim \/ FinalizerSteps("worker") \/ \E r \in Requests : ClaimEffect(r)

\* The worker loop runs until shutdown and startup is retried.  Requests and
\* reconciliation may stop anywhere.
FairSpec == Spec /\ WF_vars(Startup) /\ WF_vars(WorkerStep)

----------------------------------------------------------------------------
(* Properties.                                                             *)

PCs == {"idle", "copy", "lookup", "inspect", "cleanup", "commitPending", "replay",
        "load", "open", "verifyStaged", "link", "verifyManaged", "commitAvailable",
        "commitRecovered", "commitMissing", "unstage", "finish", "removeStale"}
Results == ContentStates \cup TransientErrors \cup PermanentErrors

\* Every variable keeps to the states of its row, file or local.
TypeOK ==
  /\ content \in Productions
  /\ asset \in [Requests -> ContentStates \cup {"Absent"}]
  /\ completed \subseteq Requests
  /\ effect \in [Requests -> {"None", "Ready", "Claimed", "Completed", "Abandoned"}]
  /\ binding \in Outputs \cup {NoAsset}
  /\ temps \subseteq Requests /\ staged \subseteq Requests /\ managed \subseteq Contents
  /\ actor \in [Actors -> [pc : PCs, on : Requests \cup {NoAsset},
                           seen : Results \cup {"Absent"}]]
  /\ late \subseteq [kind : CommitPoints, on : Requests, seen : Results \cup {"Absent"}]
  /\ answer \in [Requests -> Results \cup {"None", "ContentPending", "Crashed"}]
  /\ lost \subseteq touched /\ touched \subseteq Requests
  /\ incidents \in 0 .. MaxIncidents[content] /\ up \in BOOLEAN

\* Bytes of a committed Asset are somewhere until the environment destroys
\* them: a Pending Asset has its staging file or its published content, an
\* Available one its published content.  Requests, worker and reconciliation
\* all remove staging files (finalize_content.rs:203, import_asset.rs:176,
\* reconcile_content.rs:166).
BytesSurvive ==
  \A r \in Requests \ lost :
    /\ asset[r] = "Pending" => r \in staged \/ content[r] \in managed
    /\ asset[r] = "Available" => content[r] \in managed

\* A node output is one Asset, however many attempts overlap with late commits
\* of earlier ones, and whoever is told it is available is told of that Asset
\* (record_node_output.rs:57, operations.rs:189).
OneAssetPerOutput ==
  /\ \A o \in Outputs : asset[o] # "Absent" => binding = o
  /\ \A o \in Outputs : answer[o] = "Available" =>
       binding # NoAsset /\ asset[binding] \in {"Available", "ManagedMissing"}

\* What those who hold an Asset ID can tell of it.
Phase(r) ==
  CASE asset[r] = "Absent" -> "Unknown" [] asset[r] = "Pending" -> "Accepted"
    [] asset[r] = "Available" -> "Readable" [] OTHER -> "GivenUp"
Promise == INSTANCE AssetPromise WITH
  Ids <- Requests,
  phase <- [r \in Requests |-> Phase(r)],
  destroyed <- lost

\* Content only moves forward, and no finalizer gives an Asset up whose bytes
\* nobody has destroyed, whatever it read before the others moved
\* (finalize_content.rs:137, operations.rs:254).
ImplementsPromise == Promise!Spec

\* Every accepted Asset is published or given up in the end, once storage errors
\* and deadlines spare the worker; until then it tries again (executor.rs:150).
WorkerFails == FinalizerFails("worker") \/ DeadlineElapses("worker")
PendingSettles ==
  <>[][~WorkerFails]_vars =>
    \A r \in Requests : asset[r] = "Pending" ~> (asset[r] # "Pending" \/ r \in touched)
=============================================================================
