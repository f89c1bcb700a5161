----------------------------- MODULE AssetProofs -----------------------------
(***************************************************************************)
(* Proofs about the Assets: AssetContent for every set of requests, every  *)
(* production and any number of incidents, then AssetLibrary for every     *)
(* gallery, clock and number of refreshes.  Inductive relates what an      *)
(* actor of AssetContent read when it last looked to the rows and files as *)
(* they are now; PreviewFits relates what the window has listed, been      *)
(* signed and asked for to the rows and files.                             *)
(***************************************************************************)
EXTENDS AssetContent, AssetLibrary, FiniteSetTheorems, TLAPS

USE RequestAssumption

----------------------------------------------------------------------------
(* The inductive invariant.                                                *)

\* The bytes of r are published, or the environment has destroyed them.
Published(r) == content[r] \in managed \/ r \in lost
\* The same, or they are still staged.
Kept(r) == r \in staged \/ Published(r)

\* The rows of a request are written together; only what is destroyed is missing.
RowsAgree ==
  \A r \in Requests :
    /\ r \in staged \/ asset[r] # "Absent" => r \in DOMAIN content
    /\ r \in completed <=> asset[r] \notin {"Absent", "Pending"}
    /\ asset[r] \in MissingStates => r \in lost
    /\ effect[r] # "None" => asset[r] # "Absent"

\* The key names the one Asset of the output.
KeyNamesAsset ==
  /\ \A o \in Outputs : asset[o] # "Absent" => binding = o
  /\ binding # NoAsset => asset[binding] # "Absent"

\* What an answer "Available" has been read from.
WasAvailable(r) == asset[r] \in {"Available", "ManagedMissing"}
AnswersHold == \A o \in Outputs : answer[o] = "Available" => binding # NoAsset /\ WasAvailable(binding)

\* A request that has not committed: its transaction runs at most once, here or late.
NotCommitted(r) ==
  r \in DOMAIN content /\ asset[r] = "Absent" /\ \A t \in late : t.on # r
RequestHolds(r) ==
  /\ actor[r].pc \in BeforeCommit \cup {"cleanup", "replay"} => NotCommitted(r)
  /\ actor[r].pc \in BeforeCommit => actor[r].on = r /\ actor[r].seen = "Absent"
  /\ actor[r].pc = "lookup" => r \in Outputs
  /\ actor[r].pc = "cleanup" => actor[r].seen \in TransientErrors \cup PermanentErrors
  /\ actor[r].pc = "commitPending" => Kept(r)
  /\ actor[r].pc = "replay" =>
       /\ r \in Outputs /\ binding # NoAsset /\ actor[r].on = binding
       /\ actor[r].seen = "Available" => WasAvailable(binding)

\* A finalizer: what it is about to write is (still) true of the bytes.
Finalizing == {"load", "open", "verifyStaged", "link", "verifyManaged", "commitAvailable",
               "commitRecovered", "commitMissing", "unstage", "finish"}
FinalizerHolds(a) ==
  LET r == actor[a].on IN
  /\ actor[a].pc \in Finalizing =>
       /\ r \in Requests /\ asset[r] # "Absent"
       /\ a \in Outputs => r = binding
  /\ actor[a].pc \in {"open", "verifyStaged", "verifyManaged"} => actor[a].seen = "Pending"
  /\ actor[a].pc \in {"verifyManaged", "commitAvailable", "commitRecovered"} => Published(r)
  /\ actor[a].pc = "commitMissing" => r \in lost /\ actor[a].seen \in {"Pending", "Available"}
  /\ actor[a].pc = "unstage" => WasAvailable(r)

\* Staging that was unreferenced when it was found is still not needed.
StaleHolds ==
  LET r == actor["reconciler"].on IN
  actor["reconciler"].pc = "removeStale" =>
    /\ r \in DOMAIN content
    /\ \/ Published(r) \/ r \in completed
       \/ r \in staged /\ actor[r].pc = "idle" /\ NotCommitted(r)

\* Transactions that outlived their callers, likewise.
LateHolds ==
  \A t \in late :
    /\ t.kind = "commitPending" =>
         /\ t.on \in DOMAIN content /\ asset[t.on] = "Absent" /\ Kept(t.on)
         /\ actor[t.on].pc = "idle" /\ \A u \in late : u.on = t.on => u = t
    /\ t.kind # "commitPending" => asset[t.on] # "Absent"
    /\ t.kind \in {"commitAvailable", "commitRecovered"} => Published(t.on)
    /\ t.kind = "commitMissing" => t.on \in lost /\ t.seen \in {"Pending", "Available"}

WhoIsWhere ==
  /\ \A a \in Actors \ Requests :
       actor[a].pc \notin BeforeCommit \cup {"cleanup", "replay"}
  /\ \A a \in Actors : actor[a].pc = "removeStale" => a = "reconciler"

Inductive ==
  /\ TypeOK /\ RowsAgree /\ KeyNamesAsset /\ AnswersHold /\ BytesSurvive
  /\ \A r \in Requests : RequestHolds(r)
  /\ \A a \in Actors : FinalizerHolds(a)
  /\ StaleHolds /\ LateHolds /\ WhoIsWhere
----------------------------------------------------------------------------
(* Type correctness.                                                       *)

\* How a finalizer ends, whatever it is: only its own state and answer change.
LEMMA FinishTypes ==
  ASSUME TypeOK, NEW a \in Actors, NEW result \in Results, Finish(a, result)
  PROVE  /\ actor' \in [Actors -> [pc : PCs, on : Requests \cup {NoAsset},
                                   seen : Results \cup {"Absent"}]]
         /\ answer' \in [Requests -> Results \cup {"None", "ContentPending", "Crashed"}]
         /\ \A b \in Actors \ {a} : actor'[b] = actor[b]
         /\ actor'[a].pc \in {"idle", "finish"}
         /\ actor'[a].pc = "finish" => a = "worker" /\ actor'[a].on = actor[a].on
         /\ \A r \in Requests \ {a} : answer'[r] = answer[r]
         /\ a \in Outputs /\ answer'[a] = "Available" => result = "Available"
BY DEF Finish, Tell, TypeOK, InlineAnswer, Results, ContentStates, MissingStates,
       TransientErrors, PermanentErrors, Idle, At, PCs, Actors, Requests

\* How a request is refused before its commit.
LEMMA RefuseTypes ==
  ASSUME TypeOK, NEW r \in Requests, NEW error \in TransientErrors \cup PermanentErrors,
         Refuse(r, error)
  PROVE  /\ actor' \in [Actors -> [pc : PCs, on : Requests \cup {NoAsset},
                                   seen : Results \cup {"Absent"}]]
         /\ answer' \in [Requests -> Results \cup {"None", "ContentPending", "Crashed"}]
         /\ \A b \in Actors \ {r} : actor'[b] = actor[b]
         /\ actor'[r].pc = "idle"
         /\ \A q \in Requests \ {r} : answer'[q] = answer[q]
         /\ answer'[r] # "Available"
BY DEF Refuse, Tell, TypeOK, Results, ContentStates, MissingStates,
       TransientErrors, PermanentErrors, Idle, PCs, Actors, Requests
\* The transactions keep the rows well-formed.
LEMMA WriteTypes ==
  ASSUME TypeOK, NEW r \in Requests, NEW from \in {"Pending", "Available"},
         InsertPending(r) \/ WriteAvailable(r) \/ WriteMissing(r, from)
  PROVE  /\ asset' \in [Requests -> ContentStates \cup {"Absent"}]
         /\ completed' \subseteq Requests
         /\ effect' \in [Requests -> {"None", "Ready", "Claimed", "Completed", "Abandoned"}]
         /\ binding' \in Outputs \cup {NoAsset}
BY DEF InsertPending, WriteAvailable, WriteMissing, MissingFrom, TypeOK, rows,
       ContentStates, MissingStates

\* A finalizer works on an Asset that is there.
LEMMA FinalizerAsset ==
  ASSUME Inductive, NEW a \in Actors, actor[a].pc \in Finalizing
  PROVE  /\ actor[a].on \in Requests /\ asset[actor[a].on] \in ContentStates
         /\ actor[a].on \in DOMAIN content /\ content[actor[a].on] \in Contents
         /\ actor[a].pc = "commitMissing" => actor[a].seen \in {"Pending", "Available"}
<1>1. FinalizerHolds(a)
  BY DEF Inductive
<1>2. actor[a].on \in Requests /\ asset[actor[a].on] # "Absent"
  BY <1>1 DEF FinalizerHolds
<1>3. asset[actor[a].on] \in ContentStates /\ actor[a].on \in DOMAIN content
  BY <1>2 DEF Inductive, TypeOK, RowsAgree
<1>4. content[actor[a].on] \in Contents
  BY <1>3 DEF Inductive, TypeOK
<1> QED BY <1>1, <1>2, <1>3, <1>4 DEF FinalizerHolds

\* Every variable keeps to the states of its row, file or local.
LEMMA TypeInit == Init => TypeOK
BY DEF Init, TypeOK, Idle, PCs, Requests, Actors, Results, ContentStates, MissingStates

LEMMA TypeStep == Inductive /\ [Next]_vars => TypeOK'
<1> SUFFICES ASSUME Inductive, [Next]_vars PROVE TypeOK'
  OBVIOUS
<1> USE DEF TypeOK, files, rows, outside, IsAt, Go, Proceed, PCs, Actors, Requests,
            Results, ContentStates, MissingStates, TransientErrors, PermanentErrors,
            CommitPoints, At, Idle
<1>0. TypeOK /\ \A r \in Requests : RequestHolds(r) /\ \A a \in Actors : FinalizerHolds(a)
  BY DEF Inductive
<1>1. ASSUME NEW r \in Requests, RecoverFirst(r) PROVE TypeOK'
  BY <1>0, <1>1 DEF RecoverFirst, Tell
<1>2. ASSUME NEW r \in Requests, StageContent(r) PROVE TypeOK'
  BY <1>0, <1>2 DEF StageContent
<1>3. ASSUME NEW r \in Requests, FinishCopy(r) PROVE TypeOK'
  BY <1>0, <1>3 DEF FinishCopy
<1>4. ASSUME NEW r \in Requests, FailCopy(r) PROVE TypeOK'
  BY <1>0, <1>4, RefuseTypes DEF FailCopy
<1>5. ASSUME NEW r \in Requests, FindExistingOutput(r) PROVE TypeOK'
  BY <1>0, <1>5 DEF FindExistingOutput
<1>6. ASSUME NEW r \in Requests, InspectStaged(r) PROVE TypeOK'
  BY <1>0, <1>6 DEF InspectStaged
<1>7. ASSUME NEW r \in Requests, CommitPending(r) PROVE TypeOK'
  BY <1>0, <1>7, WriteTypes DEF CommitPending
<1>8. ASSUME NEW r \in Requests, CommitPendingFails(r) PROVE TypeOK'
  BY <1>0, <1>8 DEF CommitPendingFails
<1>9. ASSUME NEW r \in Requests, ReplayExistingOutput(r) PROVE TypeOK'
  BY <1>0, <1>9 DEF ReplayExistingOutput, Tell
<1>10. ASSUME NEW r \in Requests, RemoveUncommittedStaging(r) PROVE TypeOK'
  <2>1. actor[r].seen \in TransientErrors \cup PermanentErrors
    BY <1>0, <1>10 DEF RemoveUncommittedStaging, RequestHolds
  <2> QED BY <1>0, <1>10, <2>1, RefuseTypes DEF RemoveUncommittedStaging
<1>11. ASSUME NEW r \in Requests, ClaimEffect(r) PROVE TypeOK'
  BY <1>0, <1>11 DEF ClaimEffect
<1>12. ASSUME NEW a \in Actors, LoadFinalization(a) PROVE TypeOK'
  <2>1. actor[a].on \in Requests /\ asset[actor[a].on] \in Results
    BY <1>12, FinalizerAsset DEF LoadFinalization, Finalizing
  <2>2. CASE asset[actor[a].on] = "Pending"
    BY <1>0, <1>12, <2>1, <2>2 DEF LoadFinalization
  <2>3. CASE asset[actor[a].on] # "Pending"
    BY <1>0, <1>12, <2>1, <2>3, FinishTypes DEF LoadFinalization
  <2> QED BY <2>2, <2>3
<1>13. ASSUME NEW a \in Actors, OpenStaged(a) PROVE TypeOK'
  BY <1>0, <1>13 DEF OpenStaged
<1>14. ASSUME NEW a \in Actors, VerifyStaged(a) PROVE TypeOK'
  BY <1>0, <1>14, FinishTypes DEF VerifyStaged
<1>15. ASSUME NEW a \in Actors, LinkManaged(a) PROVE TypeOK'
  <2>1. actor[a].on \in Requests /\ content[actor[a].on] \in Contents
    BY <1>15, FinalizerAsset DEF LinkManaged, Finalizing
  <2>2. \/ Go(a, "commitAvailable") /\ UNCHANGED answer
        \/ Finish(a, "StorageFailed")
    BY <1>15 DEF LinkManaged
  <2>3. managed' \subseteq Contents
    BY <1>0, <1>15, <2>1 DEF LinkManaged
  <2> QED BY <1>0, <1>15, <2>2, <2>3, FinishTypes DEF LinkManaged
<1>16. ASSUME NEW a \in Actors, VerifyManaged(a) PROVE TypeOK'
  BY <1>0, <1>16 DEF VerifyManaged
<1>17. ASSUME NEW a \in Actors, CommitAvailable(a) PROVE TypeOK'
  <2> DEFINE r == actor[a].on
  <2>1. r \in Requests
    BY <1>17, FinalizerAsset DEF CommitAvailable, Finalizing
  <2>2. \/ Finish(a, "IdentityConflict") \/ Finish(a, "Available")
        \/ Go(a, "unstage") /\ UNCHANGED answer
    BY <1>17, Zenon DEF CommitAvailable
  <2>3. WriteAvailable(r)
    BY <1>17 DEF CommitAvailable
  <2> QED BY <1>0, <1>17, <2>1, <2>2, <2>3, FinishTypes, WriteTypes DEF CommitAvailable
<1>18. ASSUME NEW a \in Actors, CommitMissing(a) PROVE TypeOK'
  <2> DEFINE r == actor[a].on
  <2>1. r \in Requests /\ actor[a].seen \in {"Pending", "Available"}
    BY <1>18, FinalizerAsset DEF CommitMissing, Finalizing
  <2>2. \E result \in Results : Finish(a, result)
    BY <1>18 DEF CommitMissing, MissingFrom
  <2>3. WriteMissing(r, actor[a].seen)
    BY <1>18 DEF CommitMissing
  <2> QED BY <1>0, <1>18, <2>1, <2>2, <2>3, FinishTypes, WriteTypes DEF CommitMissing
<1>19. ASSUME NEW a \in Actors, RemovePublishedStaging(a) PROVE TypeOK'
  BY <1>0, <1>19, FinishTypes DEF RemovePublishedStaging
<1>20. ASSUME NEW a \in Actors, FinalizerFails(a) PROVE TypeOK'
  BY <1>0, <1>20, FinishTypes DEF FinalizerFails
<1>21. ASSUME NEW a \in Actors, DeadlineElapses(a) PROVE TypeOK'
  <2>1. \/ Finish(a, "DeadlineExceeded")
        \/ a \in Requests /\ Refuse(a, "DeadlineExceeded")
    BY <1>21 DEF DeadlineElapses, GiveUpWaiting
  <2>2. /\ actor' \in [Actors -> [pc : PCs, on : Requests \cup {NoAsset},
                                   seen : Results \cup {"Absent"}]]
        /\ answer' \in [Requests -> Results \cup {"None", "ContentPending", "Crashed"}]
    BY <1>0, <2>1, FinishTypes, RefuseTypes
  <2>3. late' \subseteq [kind : CommitPoints, on : Requests, seen : Results \cup {"Absent"}]
    <3>1. actor[a].pc \in CommitPoints =>
            actor[a].on \in Requests /\ (actor[a].pc = "commitPending" => a \in Requests)
      BY <1>0 DEF Inductive, FinalizerHolds, Finalizing, WhoIsWhere, BeforeCommit,
         RequestHolds
    <3> QED BY <1>0, <1>21, <3>1 DEF DeadlineElapses, Outlives
  <2>4. temps' \subseteq Requests /\ staged' \subseteq Requests
    <3>1. actor[a].pc = "copy" => a \in Requests
      BY <1>0 DEF Inductive, WhoIsWhere, BeforeCommit
    <3> QED BY <1>0, <1>21, <3>1 DEF DeadlineElapses
  <2> QED BY <1>0, <1>21, <2>2, <2>3, <2>4 DEF DeadlineElapses
<1>22. CASE FinishClaim
  BY <1>0, <1>22 DEF FinishClaim, EffectOutcome
<1>23. CASE ReconcileFinalization
  BY <1>0, <1>23 DEF ReconcileFinalization
<1>24. CASE ReconcileAvailable
  BY <1>0, <1>24 DEF ReconcileAvailable
<1>25. CASE FindStaleStaging
  BY <1>0, <1>25 DEF FindStaleStaging
<1>26. CASE RemoveStaleStaging
  BY <1>0, <1>26 DEF RemoveStaleStaging
<1>27. CASE RunLate
  <2>1. PICK t \in late :
          /\ late' = late \ {t}
          /\ \/ InsertPending(t.on) \/ WriteAvailable(t.on)
             \/ t.kind = "commitMissing" /\ WriteMissing(t.on, t.seen)
    BY <1>27, Zenon DEF RunLate
  <2>2. t.on \in Requests /\ (t.kind = "commitMissing" => t.seen \in {"Pending", "Available"})
    BY <1>0, <2>1 DEF Inductive, LateHolds
  <2> QED BY <1>0, <1>27, <2>1, <2>2, WriteTypes DEF RunLate
<1>28. CASE Crash
  <2>1. answer' \in [Requests -> Results \cup {"None", "ContentPending", "Crashed"}]
    BY <1>0, <1>28 DEF Crash
  <2>2. incidents' \in 0 .. MaxIncidents[content]
    <3>1. MaxIncidents[content] \in Nat
      BY <1>0
    <3> QED BY <1>0, <1>28, <3>1 DEF Crash
  <2> QED BY <1>0, <1>28, <2>1, <2>2 DEF Crash
<1>29. CASE Startup
  BY <1>0, <1>29 DEF Startup, ResetClaimed
<1>30. CASE LoseFile
  BY <1>0, <1>30 DEF LoseFile
<1>31. CASE UNCHANGED vars
  BY <1>0, <1>31 DEF vars
<1> QED
  BY <1>1, <1>2, <1>3, <1>4, <1>5, <1>6, <1>7, <1>8, <1>9, <1>10, <1>11, <1>12, <1>13,
     <1>14, <1>15, <1>16, <1>17, <1>18, <1>19, <1>20, <1>21, <1>22, <1>23, <1>24, <1>25,
     <1>26, <1>27, <1>28, <1>29, <1>30, <1>31
  DEF Next, RequestSteps, FinalizerSteps, Reconciliation
----------------------------------------------------------------------------
(* What a step does to the rows and to the files.                          *)

\* The transactions of ingest and finalization, each when it has an effect.
Accepts(r) ==
  /\ asset[r] = "Absent" /\ r \in DOMAIN content /\ Kept(r)
  /\ asset' = [asset EXCEPT ![r] = "Pending"] /\ effect' = [effect EXCEPT ![r] = "Ready"]
  /\ completed' = completed
  /\ r \in Outputs => binding = NoAsset /\ binding' = r
  /\ r \notin Outputs => binding' = binding
  /\ actor[r].pc = "commitPending" \/ \E t \in late : t.on = r
  /\ actor'[r].pc \notin BeforeCommit \cup {"cleanup", "replay"}
  /\ \A t \in late' : t.on # r
Publishes(r) ==
  /\ asset[r] = "Pending" /\ Published(r)
  /\ asset' = [asset EXCEPT ![r] = "Available"]
  /\ completed' = completed \cup {r} /\ UNCHANGED <<effect, binding>>
GivesUp(r) ==
  /\ asset[r] \in {"Pending", "Available"} /\ r \in lost
  /\ asset' = [asset EXCEPT ![r] = MissingFrom(asset[r])]
  /\ completed' = completed \cup {r} /\ UNCHANGED <<effect, binding>>
RowsStay ==
  /\ UNCHANGED <<asset, completed, binding>>
  /\ \A r \in Requests : effect'[r] # "None" => asset[r] # "Absent"
RowStep ==
  \/ RowsStay
  \/ /\ UNCHANGED <<files, lost, content>>
     /\ \E r \in Requests : Accepts(r) \/ Publishes(r) \/ GivesUp(r)
\* Every step leaves the rows alone, or is one of those transactions.
LEMMA RowsMove == Inductive /\ [Next]_vars => RowStep
<1> SUFFICES ASSUME Inductive, [Next]_vars PROVE RowStep
  OBVIOUS
<1> USE DEF rows, files, outside
<1>0. TypeOK /\ RowsAgree /\ LateHolds
  BY DEF Inductive
<1>1. (UNCHANGED rows) => RowStep
  BY <1>0 DEF RowStep, RowsStay, RowsAgree
<1>2. ASSUME NEW r \in Requests, InsertPending(r), UNCHANGED <<files, outside>>,
             NotCommitted(r), Kept(r),
             actor[r].pc = "commitPending" \/ \E t \in late : t.on = r,
             binding = NoAsset \/ r \notin Outputs =>
               actor'[r].pc \notin BeforeCommit \cup {"cleanup", "replay"},
             \A t \in late' : t.on # r
      PROVE  RowStep
  <2>1. CASE r \in Outputs /\ binding # NoAsset
    BY <1>1, <1>2, <2>1 DEF InsertPending
  <2>2. CASE ~(r \in Outputs /\ binding # NoAsset)
    <3>1. Accepts(r)
      BY <1>2, <2>2 DEF InsertPending, Accepts, NotCommitted
    <3> QED BY <1>2, <3>1 DEF RowStep
  <2> QED BY <2>1, <2>2
<1>3. ASSUME NEW r \in Requests, WriteAvailable(r), UNCHANGED <<files, outside>>, Published(r)
      PROVE  RowStep
  <2>1. CASE asset[r] = "Pending" /\ r \notin completed
    BY <1>3, <2>1 DEF RowStep, Publishes, WriteAvailable
  <2>2. CASE ~(asset[r] = "Pending" /\ r \notin completed)
    BY <1>1, <1>3, <2>2 DEF WriteAvailable
  <2> QED BY <2>1, <2>2
<1>4. ASSUME NEW r \in Requests, NEW from \in {"Pending", "Available"},
             WriteMissing(r, from), UNCHANGED <<files, outside>>, r \in lost
      PROVE  RowStep
  <2>1. CASE asset[r] = from /\ (from = "Pending" => r \notin completed)
    <3>1. from = "Available" => r \in completed
      BY <1>0, <2>1 DEF RowsAgree
    <3>2. GivesUp(r)
      BY <1>4, <2>1, <3>1 DEF GivesUp, WriteMissing
    <3> QED BY <1>4, <3>2 DEF RowStep
  <2>2. CASE ~(asset[r] = from /\ (from = "Pending" => r \notin completed))
    BY <1>1, <1>4, <2>2 DEF WriteMissing
  <2> QED BY <2>1, <2>2
<1>5. ASSUME NEW r \in Requests, CommitPending(r) PROVE RowStep
  <2>1. RequestHolds(r)
    BY DEF Inductive
  <2>2. NotCommitted(r) /\ Kept(r)
    BY <1>5, <2>1 DEF RequestHolds, CommitPending, IsAt, BeforeCommit
  <2>3. binding = NoAsset \/ r \notin Outputs => actor'[r].pc = "load"
    BY <1>0, <1>5 DEF CommitPending, At, TypeOK, Actors
  <2> QED BY <1>2, <1>5, <2>2, <2>3 DEF CommitPending, IsAt, BeforeCommit, NotCommitted
<1>6. ASSUME NEW a \in Actors, CommitAvailable(a) PROVE RowStep
  <2>1. actor[a].on \in Requests
    BY <1>6, FinalizerAsset DEF CommitAvailable, IsAt, Finalizing
  <2>2. Published(actor[a].on)
    BY <1>6 DEF CommitAvailable, IsAt, Inductive, FinalizerHolds
  <2> QED BY <1>3, <1>6, <2>1, <2>2 DEF CommitAvailable
<1>7. ASSUME NEW a \in Actors, CommitMissing(a) PROVE RowStep
  <2>1. actor[a].on \in Requests /\ actor[a].seen \in {"Pending", "Available"}
    BY <1>7, FinalizerAsset DEF CommitMissing, IsAt, Finalizing
  <2>2. actor[a].on \in lost
    BY <1>7 DEF CommitMissing, IsAt, Inductive, FinalizerHolds
  <2> QED BY <1>4, <1>7, <2>1, <2>2 DEF CommitMissing
<1>8. CASE RunLate
  <2>1. PICK t \in late :
          /\ late' = late \ {t}
          /\ \/ t.kind = "commitPending" /\ InsertPending(t.on)
             \/ t.kind = "commitMissing" /\ WriteMissing(t.on, t.seen)
             \/ t.kind \in {"commitAvailable", "commitRecovered"} /\ WriteAvailable(t.on)
    <3>1. PICK t \in late :
            /\ late' = late \ {t}
            /\ CASE t.kind = "commitPending" -> InsertPending(t.on)
                 [] t.kind = "commitMissing" -> WriteMissing(t.on, t.seen)
                 [] OTHER -> WriteAvailable(t.on)
      BY <1>8 DEF RunLate
    <3>2. t.kind \in CommitPoints
      BY <1>0 DEF TypeOK
    <3> QED BY <3>1, <3>2 DEF CommitPoints
  <2>2. t.on \in Requests /\ UNCHANGED <<files, outside, actor>>
    BY <1>0, <1>8 DEF TypeOK, RunLate
  <2>3. CASE t.kind = "commitPending"
    <3>1. /\ t.on \in DOMAIN content /\ asset[t.on] = "Absent" /\ Kept(t.on)
          /\ actor[t.on].pc = "idle" /\ \A u \in late' : u.on # t.on
      BY <1>0, <2>1, <2>3 DEF LateHolds
    <3>2. actor'[t.on].pc \notin BeforeCommit \cup {"cleanup", "replay"}
      BY <2>2, <3>1 DEF BeforeCommit
    <3>3. \/ UNCHANGED rows
          \/ Accepts(t.on)
      BY <2>1, <2>2, <2>3, <3>1, <3>2 DEF InsertPending, Accepts
    <3> QED BY <1>1, <2>2, <3>3 DEF RowStep
  <2>4. CASE t.kind = "commitMissing"
    BY <1>0, <1>4, <2>1, <2>2, <2>4 DEF LateHolds
  <2>5. CASE t.kind \in {"commitAvailable", "commitRecovered"}
    BY <1>0, <1>3, <2>1, <2>2, <2>5 DEF LateHolds
  <2> QED BY <2>1, <2>3, <2>4, <2>5
<1>9. ASSUME NEW r \in Requests, ClaimEffect(r) PROVE RowStep
  BY <1>0, <1>9 DEF ClaimEffect, RowStep, RowsStay, RowsAgree, TypeOK
<1>10. CASE FinishClaim
  <2>1. asset[actor["worker"].on] # "Absent"
    BY <1>10, FinalizerAsset
    DEF FinishClaim, IsAt, Finalizing, Actors, ContentStates, MissingStates
  <2> QED BY <1>0, <1>10, <2>1 DEF FinishClaim, RowStep, RowsStay, RowsAgree, TypeOK
<1>11. CASE Startup
  BY <1>0, <1>11 DEF Startup, ResetClaimed, RowStep, RowsStay, RowsAgree
<1>12. ASSUME NEW r \in Requests,
              RequestSteps(r) /\ ~CommitPending(r)
       PROVE  RowStep
  BY <1>1, <1>12 DEF RequestSteps, RecoverFirst, StageContent, FinishCopy, FailCopy,
     FindExistingOutput, InspectStaged, CommitPendingFails, ReplayExistingOutput,
     RemoveUncommittedStaging
<1>13. ASSUME NEW a \in Actors,
              \/ LoadFinalization(a) \/ OpenStaged(a) \/ VerifyStaged(a) \/ LinkManaged(a)
              \/ VerifyManaged(a) \/ RemovePublishedStaging(a) \/ FinalizerFails(a)
              \/ DeadlineElapses(a)
       PROVE  RowStep
  BY <1>1, <1>13 DEF LoadFinalization, OpenStaged, VerifyStaged, LinkManaged, VerifyManaged,
     RemovePublishedStaging, FinalizerFails, DeadlineElapses
<1>14. CASE Reconciliation \/ Crash \/ LoseFile \/ UNCHANGED vars
  BY <1>1, <1>14 DEF Reconciliation, ReconcileFinalization, ReconcileAvailable,
     FindStaleStaging, RemoveStaleStaging, Crash, LoseFile, vars
<1> QED
  BY <1>5, <1>6, <1>7, <1>8, <1>9, <1>10, <1>11, <1>12, <1>13, <1>14
  DEF Next, FinalizerSteps
\* What a step does to the files: nothing is unpublished that is not destroyed, and
\* a staging file goes only when it is not, or no longer, needed.
Withdrawn(r) ==
  /\ NotCommitted(r)
  /\ \/ actor[r].pc \in {"cleanup", "replay"}
     \/ actor[r].pc = "idle" /\ actor'["reconciler"] # actor["reconciler"]
FileStep ==
  /\ content' = content /\ lost \subseteq lost'
  /\ \A r \in Requests : r \in DOMAIN content /\ Published(r) => Published(r)'
  /\ \A r \in staged' : r \in staged \/ NotCommitted(r)
  /\ \A r \in staged \ staged' :
       Published(r)' \/ asset[r] \notin {"Absent", "Pending"} \/ Withdrawn(r)

LEMMA FilesMove == Inductive /\ [Next]_vars => FileStep
<1> SUFFICES ASSUME Inductive, [Next]_vars PROVE FileStep
  OBVIOUS
<1> USE DEF rows, files, outside, FileStep, Published, IsAt
<1>0. TypeOK /\ RowsAgree /\ BytesSurvive /\ LateHolds
  BY DEF Inductive
<1>1. UNCHANGED <<content, managed, staged, lost>> => FileStep
  BY <1>0
<1>2. ASSUME NEW r \in Requests, UNCHANGED <<content, lost, managed>>,
             staged' = staged \ {r}, asset[r] \notin {"Absent", "Pending"} \/ Withdrawn(r)
      PROVE  FileStep
  BY <1>0, <1>2
<1>3. ASSUME NEW r \in Requests, FinishCopy(r) PROVE FileStep
  <2>1. NotCommitted(r)
    BY <1>3 DEF FinishCopy, Inductive, RequestHolds, BeforeCommit
  <2> QED BY <1>0, <1>3, <2>1 DEF FinishCopy
<1>4. ASSUME NEW r \in Requests, ReplayExistingOutput(r) \/ RemoveUncommittedStaging(r)
      PROVE  FileStep
  <2>1. Withdrawn(r)
    BY <1>4 DEF ReplayExistingOutput, RemoveUncommittedStaging, Inductive, RequestHolds,
       Withdrawn
  <2>2. staged' = staged \ {r} \/ UNCHANGED staged
    BY <1>4 DEF ReplayExistingOutput, RemoveUncommittedStaging
  <2> QED BY <1>1, <1>2, <1>4, <2>1, <2>2 DEF ReplayExistingOutput, RemoveUncommittedStaging
<1>5. ASSUME NEW a \in Actors, LinkManaged(a) PROVE FileStep
  BY <1>0, <1>5 DEF LinkManaged
<1>6. ASSUME NEW a \in Actors, RemovePublishedStaging(a) PROVE FileStep
  <2>1. actor[a].on \in Requests /\ asset[actor[a].on] \notin {"Absent", "Pending"}
    BY <1>6, FinalizerAsset
    DEF RemovePublishedStaging, Finalizing, Inductive, FinalizerHolds, WasAvailable
  <2>2. staged' = staged \ {actor[a].on} \/ UNCHANGED staged
    BY <1>6 DEF RemovePublishedStaging
  <2> QED BY <1>1, <1>2, <1>6, <2>1, <2>2 DEF RemovePublishedStaging
<1>7. ASSUME NEW a \in Actors, DeadlineElapses(a) PROVE FileStep
  <2>1. CASE UNCHANGED <<temps, staged>>
    BY <1>1, <1>7, <2>1 DEF DeadlineElapses
  <2>2. CASE actor[a].pc = "copy" /\ staged' = staged \cup {a}
    <3>1. a \in Requests
      BY <2>2 DEF Inductive, WhoIsWhere, BeforeCommit
    <3>2. NotCommitted(a)
      BY <2>2, <3>1 DEF Inductive, RequestHolds, BeforeCommit
    <3> QED BY <1>0, <1>7, <2>2, <3>2 DEF DeadlineElapses
  <2> QED BY <1>7, <2>1, <2>2 DEF DeadlineElapses
<1>8. CASE RemoveStaleStaging
  <2> DEFINE r == actor["reconciler"].on
  <2>1. r \in DOMAIN content /\ r \in Requests
    BY <1>0, <1>8 DEF RemoveStaleStaging, Inductive, StaleHolds, TypeOK
  <2>2. \/ Published(r) \/ r \in completed
        \/ r \in staged /\ actor[r].pc = "idle" /\ NotCommitted(r)
    BY <1>8 DEF RemoveStaleStaging, Inductive, StaleHolds
  <2>3. actor'["reconciler"] # actor["reconciler"]
    BY <1>0, <1>8 DEF RemoveStaleStaging, TypeOK, Idle, Actors
  <2> QED BY <1>0, <1>8, <2>1, <2>2, <2>3 DEF RemoveStaleStaging, RowsAgree, Withdrawn
<1>9. CASE LoseFile
  <2>1. \A r \in staged : r \in DOMAIN content
    BY <1>0 DEF RowsAgree, TypeOK
  <2> QED BY <1>0, <1>9, <2>1 DEF LoseFile
<1>10. ASSUME NEW r \in Requests,
              RequestSteps(r) \/ ClaimEffect(r), ~FinishCopy(r), ~ReplayExistingOutput(r),
              ~RemoveUncommittedStaging(r)
       PROVE  FileStep
  BY <1>1, <1>10 DEF RequestSteps, RecoverFirst, StageContent, FailCopy, FindExistingOutput,
     InspectStaged, CommitPending, CommitPendingFails, ClaimEffect
<1>11. ASSUME NEW a \in Actors,
              \/ LoadFinalization(a) \/ OpenStaged(a) \/ VerifyStaged(a) \/ VerifyManaged(a)
              \/ CommitAvailable(a) \/ CommitMissing(a) \/ FinalizerFails(a)
       PROVE  FileStep
  BY <1>1, <1>11 DEF LoadFinalization, OpenStaged, VerifyStaged, VerifyManaged,
     CommitAvailable, CommitMissing, FinalizerFails
<1>12. CASE FinishClaim \/ RunLate \/ Crash \/ Startup \/ UNCHANGED vars
  BY <1>1, <1>12 DEF FinishClaim, RunLate, Crash, Startup, vars
<1>13. CASE ReconcileFinalization \/ ReconcileAvailable \/ FindStaleStaging
  BY <1>1, <1>13 DEF ReconcileFinalization, ReconcileAvailable, FindStaleStaging
<1> QED
  BY <1>3, <1>4, <1>5, <1>6, <1>7, <1>8, <1>9, <1>10, <1>11, <1>12, <1>13
  DEF Next, RequestSteps, FinalizerSteps, Reconciliation

----------------------------------------------------------------------------
(* Rows, keys, bytes and answers.                                          *)

\* The transactions keep the rows of a request together.
LEMMA RowsAgreeStep == Inductive /\ [Next]_vars => RowsAgree'
<1> SUFFICES ASSUME Inductive, [Next]_vars PROVE RowsAgree'
  OBVIOUS
<1>0. TypeOK /\ RowsAgree /\ TypeOK' /\ FileStep /\ RowStep
  BY TypeStep, FilesMove, RowsMove DEF Inductive
<1>1. \A r \in Requests : r \in staged' => r \in DOMAIN content
  BY <1>0 DEF FileStep, RowsAgree, NotCommitted
<1>2. content' = content /\ lost \subseteq lost'
  BY <1>0 DEF FileStep
<1>3. CASE RowsStay
  BY <1>0, <1>1, <1>2, <1>3 DEF RowsAgree, RowsStay
<1>4. ASSUME NEW r \in Requests, Accepts(r) \/ Publishes(r) \/ GivesUp(r)
      PROVE  RowsAgree'
  BY <1>0, <1>1, <1>2, <1>4
  DEF RowsAgree, Accepts, Publishes, GivesUp, TypeOK, MissingFrom, MissingStates
<1> QED BY <1>0, <1>3, <1>4 DEF RowStep

\* The key keeps naming the one Asset of the output.
LEMMA KeyStep == Inductive /\ [Next]_vars => KeyNamesAsset'
<1> SUFFICES ASSUME Inductive, [Next]_vars PROVE KeyNamesAsset'
  OBVIOUS
<1>0. TypeOK /\ KeyNamesAsset /\ RowStep
  BY RowsMove DEF Inductive
<1>1. CASE RowsStay
  BY <1>0, <1>1 DEF KeyNamesAsset, RowsStay
<1>2. ASSUME NEW r \in Requests, Accepts(r) PROVE KeyNamesAsset'
  BY <1>0, <1>2 DEF KeyNamesAsset, Accepts, TypeOK, Requests
<1>3. ASSUME NEW r \in Requests, Publishes(r) \/ GivesUp(r) PROVE KeyNamesAsset'
  BY <1>0, <1>3 DEF KeyNamesAsset, Publishes, GivesUp, TypeOK, Requests, MissingFrom
<1> QED BY <1>0, <1>1, <1>2, <1>3 DEF RowStep

\* The bytes of a committed Asset survive every step but their destruction.
LEMMA BytesStep == Inductive /\ [Next]_vars => BytesSurvive'
<1> SUFFICES ASSUME Inductive, [Next]_vars PROVE BytesSurvive'
  OBVIOUS
<1>0. TypeOK /\ RowsAgree /\ BytesSurvive /\ RowStep /\ FileStep
  BY RowsMove, FilesMove DEF Inductive
<1>1. ASSUME NEW r \in Requests \ lost', RowsStay PROVE
        /\ asset'[r] = "Pending" => r \in staged' \/ content'[r] \in managed'
        /\ asset'[r] = "Available" => content'[r] \in managed'
  BY <1>0, <1>1 DEF RowsStay, FileStep, BytesSurvive, RowsAgree, Published, Withdrawn,
     NotCommitted
<1>2. ASSUME UNCHANGED <<files, lost, content>>,
             NEW q \in Requests, Accepts(q) \/ Publishes(q) \/ GivesUp(q)
      PROVE  BytesSurvive'
  BY <1>0, <1>2 DEF files, BytesSurvive, Accepts, Publishes, GivesUp, Kept, Published, TypeOK,
     MissingFrom
<1> QED BY <1>0, <1>1, <1>2 DEF RowStep, BytesSurvive
\* What holds of the rows and files once, holds for good.
LEMMA Monotone ==
  ASSUME Inductive, [Next]_vars
  PROVE  /\ \A r \in Requests :
              /\ asset[r] # "Absent" => asset'[r] # "Absent"
              /\ WasAvailable(r) => WasAvailable(r)'
              /\ r \in DOMAIN content /\ Published(r) => Published(r)'
         /\ binding # NoAsset => binding' = binding
         /\ lost \subseteq lost' /\ content' = content
<1>1. TypeOK /\ RowStep /\ FileStep
  BY RowsMove, FilesMove DEF Inductive
<1>2. CASE RowsStay
  BY <1>1, <1>2 DEF RowsStay, FileStep, WasAvailable
<1>3. ASSUME NEW q \in Requests, Accepts(q)
      PROVE  /\ \A r \in Requests : (asset[r] # "Absent" => asset'[r] # "Absent")
                                 /\ (WasAvailable(r) => WasAvailable(r)')
             /\ binding # NoAsset => binding' = binding
  BY <1>1, <1>3 DEF Accepts, TypeOK, WasAvailable
<1>4. ASSUME NEW q \in Requests, Publishes(q) \/ GivesUp(q)
      PROVE  /\ \A r \in Requests : (asset[r] # "Absent" => asset'[r] # "Absent")
                                 /\ (WasAvailable(r) => WasAvailable(r)')
             /\ binding # NoAsset => binding' = binding
  BY <1>1, <1>4 DEF Publishes, GivesUp, TypeOK, WasAvailable, MissingFrom
<1> QED BY <1>1, <1>2, <1>3, <1>4 DEF RowStep, FileStep

\* Whoever is told that an output is available is told of its one Asset.
LEMMA AnswersStep == Inductive /\ [Next]_vars => AnswersHold'
<1> SUFFICES ASSUME Inductive, [Next]_vars, NEW o \in Outputs, answer'[o] = "Available"
             PROVE  binding' # NoAsset /\ WasAvailable(binding)'
  BY DEF AnswersHold
<1> USE DEF rows, files, outside, IsAt, Go, Proceed
<1>0. TypeOK /\ KeyNamesAsset /\ AnswersHold /\ o \in Requests /\ o \in Actors
  BY DEF Inductive, Requests, Actors
<1>1. binding # NoAsset /\ WasAvailable(binding)
        => binding' # NoAsset /\ WasAvailable(binding)'
  BY <1>0, Monotone DEF TypeOK, Requests
<1>2. CASE answer[o] = "Available"
  BY <1>0, <1>1, <1>2 DEF AnswersHold
<1>3. ASSUME answer' = answer
      PROVE  binding' # NoAsset /\ WasAvailable(binding)'
  BY <1>2, <1>3
<1>4. ASSUME NEW a \in Actors, NEW result \in Results, Finish(a, result),
             actor[a].pc \in Finalizing, NEW r \in Requests, r = actor[a].on,
             result = "Available" => WasAvailable(r)'
      PROVE  binding' # NoAsset /\ WasAvailable(binding)'
  <2>1. CASE a # o
    BY <1>0, <1>2, <1>4, <2>1, FinishTypes
  <2>2. CASE a = o
    <3>1. result = "Available"
      BY <1>0, <1>4, <2>2, FinishTypes
    <3>2. r = binding
      BY <1>0, <1>4, <2>2 DEF Inductive, FinalizerHolds
    <3>3. binding # NoAsset /\ binding' = binding
      BY <3>2, Monotone DEF Requests
    <3> QED BY <1>4, <3>1, <3>2, <3>3
  <2> QED BY <2>1, <2>2
<1>5. ASSUME NEW r \in Requests, RecoverFirst(r)
      PROVE  binding' # NoAsset /\ WasAvailable(binding)'
  BY <1>0, <1>1, <1>2, <1>5
  DEF RecoverFirst, Recovery, Tell, TypeOK, WasAvailable, MissingStates
<1>6. ASSUME NEW r \in Requests, StageContent(r)
      PROVE  binding' # NoAsset /\ WasAvailable(binding)'
  BY <1>0, <1>2, <1>6 DEF StageContent, TypeOK
<1>7. ASSUME NEW r \in Requests, FailCopy(r) \/ RemoveUncommittedStaging(r)
      PROVE  binding' # NoAsset /\ WasAvailable(binding)'
  <2>1. \E e \in TransientErrors \cup PermanentErrors : Refuse(r, e)
    BY <1>7 DEF FailCopy, RemoveUncommittedStaging, TransientErrors, PermanentErrors,
       Inductive, RequestHolds
  <2> QED BY <1>0, <1>2, <2>1, RefuseTypes
<1>8. ASSUME NEW r \in Requests, ReplayExistingOutput(r)
      PROVE  binding' # NoAsset /\ WasAvailable(binding)'
  <2>1. binding # NoAsset /\ (actor[r].seen = "Available" => WasAvailable(binding))
    BY <1>8 DEF ReplayExistingOutput, Inductive, RequestHolds
  <2>2. \/ Tell(r, "NodeOutputConflict") \/ Tell(r, "ContentMissing")
        \/ UNCHANGED answer
        \/ actor[r].seen = "Available" /\ Tell(r, "Available")
    BY <1>8 DEF ReplayExistingOutput
  <2> QED BY <1>0, <1>1, <1>2, <2>1, <2>2 DEF Tell, TypeOK
<1>9. ASSUME NEW a \in Actors, LoadFinalization(a)
      PROVE  binding' # NoAsset /\ WasAvailable(binding)'
  <2>1. PICK r \in Requests : r = actor[a].on /\ asset[r] \in Results
    BY <1>9, FinalizerAsset DEF LoadFinalization, Finalizing, Results
  <2>2. actor[a].pc \in Finalizing /\ (asset[r] = "Available" => WasAvailable(r)')
    BY <1>9, <2>1 DEF LoadFinalization, WasAvailable, Finalizing
  <2>3. UNCHANGED answer \/ Finish(a, asset[r])
    BY <1>9, <2>1 DEF LoadFinalization
  <2> QED BY <1>3, <1>4, <2>1, <2>2, <2>3
<1>10. ASSUME NEW a \in Actors, CommitAvailable(a)
       PROVE  binding' # NoAsset /\ WasAvailable(binding)'
  <2>0. actor[a].pc \in Finalizing
    BY <1>10 DEF CommitAvailable, Finalizing
  <2>1. PICK r \in Requests : r = actor[a].on
    BY <2>0, FinalizerAsset
  <2>2. \/ Finish(a, "IdentityConflict") \/ UNCHANGED answer
        \/ AvailableAccepted(r) /\ Finish(a, "Available")
    BY <1>10, <2>1 DEF CommitAvailable
  <2>3. AvailableAccepted(r) => WasAvailable(r)'
    BY <1>0, <1>10, <2>1 DEF CommitAvailable, AvailableAccepted, WriteAvailable, WasAvailable,
       TypeOK
  <2>4. "IdentityConflict" \in Results /\ "Available" \in Results
    BY DEF Results, PermanentErrors, ContentStates
  <2> QED BY <1>3, <1>4, <2>0, <2>1, <2>2, <2>3, <2>4
<1>11. ASSUME NEW a \in Actors, RemovePublishedStaging(a)
       PROVE  binding' # NoAsset /\ WasAvailable(binding)'
  <2>1. PICK r \in Requests : r = actor[a].on /\ WasAvailable(r)
    BY <1>11, FinalizerAsset
    DEF RemovePublishedStaging, Finalizing, Inductive, FinalizerHolds
  <2>2. actor[a].pc \in Finalizing /\ WasAvailable(r)'
    BY <1>11, <2>1 DEF RemovePublishedStaging, WasAvailable, Finalizing
  <2> QED BY <1>4, <1>11, <2>1, <2>2 DEF RemovePublishedStaging, Results, ContentStates
<1>12. ASSUME NEW a \in Actors,
              VerifyStaged(a) \/ LinkManaged(a) \/ FinalizerFails(a) \/ CommitMissing(a)
       PROVE  binding' # NoAsset /\ WasAvailable(binding)'
  <2>1. actor[a].pc \in Finalizing /\ actor[a].on \in Requests
    BY <1>12, FinalizerAsset
    DEF VerifyStaged, LinkManaged, FinalizerFails, CommitMissing, Finalizing
  <2>2. \/ UNCHANGED answer
        \/ \E result \in Results \ {"Available"} : Finish(a, result)
    BY <1>12 DEF VerifyStaged, LinkManaged, FinalizerFails, CommitMissing, MissingFrom,
       Results, ContentStates, MissingStates, TransientErrors, PermanentErrors
  <2> QED BY <1>3, <1>4, <2>1, <2>2
<1>13. ASSUME NEW a \in Actors, DeadlineElapses(a)
       PROVE  binding' # NoAsset /\ WasAvailable(binding)'
  <2>1. \/ Finish(a, "DeadlineExceeded")
        \/ a \in Requests /\ Refuse(a, "DeadlineExceeded")
    BY <1>13 DEF DeadlineElapses, GiveUpWaiting
  <2> QED BY <1>0, <1>2, <2>1, FinishTypes, RefuseTypes DEF Results, TransientErrors
<1>14. CASE Crash
  BY <1>0, <1>2, <1>14 DEF Crash
<1>15. ASSUME NEW r \in Requests,
              \/ FinishCopy(r) \/ FindExistingOutput(r) \/ InspectStaged(r)
              \/ CommitPending(r) \/ CommitPendingFails(r) \/ ClaimEffect(r)
       PROVE  answer' = answer
  BY <1>15 DEF FinishCopy, FindExistingOutput, InspectStaged, CommitPending,
     CommitPendingFails, ClaimEffect
<1>16. ASSUME NEW a \in Actors, OpenStaged(a) \/ VerifyManaged(a) PROVE answer' = answer
  BY <1>16 DEF OpenStaged, VerifyManaged
<1>17. FinishClaim \/ RunLate \/ Startup \/ LoseFile \/ UNCHANGED vars => answer' = answer
  BY DEF FinishClaim, RunLate, Startup, LoseFile, vars
<1>18. Reconciliation => answer' = answer
  BY DEF Reconciliation, ReconcileFinalization, ReconcileAvailable, FindStaleStaging,
     RemoveStaleStaging
<1> QED
  BY <1>3, <1>5, <1>6, <1>7, <1>8, <1>9, <1>10, <1>11, <1>12, <1>13, <1>14, <1>15, <1>16,
     <1>17, <1>18
  DEF Next, RequestSteps, FinalizerSteps
----------------------------------------------------------------------------
(* Actors.                                                                 *)

\* What a finalizer relies on stays true while others move.
LEMMA FinalizerFrame ==
  ASSUME Inductive, [Next]_vars, NEW a \in Actors, actor'[a] = actor[a]
  PROVE  FinalizerHolds(a)'
<1>1. FinalizerHolds(a) /\ RowsAgree
  BY DEF Inductive
<1>2. CASE actor[a].pc \notin Finalizing
  BY <1>2 DEF FinalizerHolds, Finalizing
<1>3. CASE actor[a].pc \in Finalizing
  <2>1. PICK r \in Requests : r = actor[a].on /\ asset[r] # "Absent" /\ r \in DOMAIN content
    BY <1>1, <1>3 DEF FinalizerHolds, RowsAgree
  <2>2. r # NoAsset
    BY DEF Requests
  <2> QED BY <1>1, <1>3, <2>1, <2>2, Monotone DEF FinalizerHolds
<1> QED BY <1>2, <1>3

\* How the actor of a step moves, all others standing still.
Moves(a) ==
  /\ \A b \in Actors \ {a} : actor'[b] = actor[b]
  /\ FinalizerHolds(a)'
  /\ a \in Requests =>
       /\ RequestHolds(a)'
       /\ actor[a].pc = "idle" /\ actor'[a].pc # "idle" =>
            a \notin staged /\ \A t \in late : t.on # a
  /\ a \notin Requests => actor'[a].pc \notin BeforeCommit \cup {"cleanup", "replay"}
  /\ a = "reconciler" => StaleHolds'
  /\ actor'[a].pc = "removeStale" => a = "reconciler"

\* To be idle again is always sound.
LEMMA IdleMoves ==
  ASSUME NEW a \in Actors, actor'[a].pc = "idle",
         \A b \in Actors \ {a} : actor'[b] = actor[b]
  PROVE  Moves(a)
BY DEF Moves, FinalizerHolds, Finalizing, RequestHolds, BeforeCommit, StaleHolds

LEMMA RefuseMoves ==
  ASSUME Inductive, NEW r \in Requests,
         NEW error \in TransientErrors \cup PermanentErrors, Refuse(r, error)
  PROVE  Moves(r)
BY IdleMoves, RefuseTypes DEF Inductive, Actors

\* A finalizer that ends, well or not.
LEMMA FinishMoves ==
  ASSUME Inductive, [Next]_vars, NEW a \in Actors, actor[a].pc \in Finalizing \/ a \in Requests,
         NEW result \in Results, Finish(a, result)
  PROVE  Moves(a)
<1>1. TypeOK
  BY DEF Inductive
<1>2. CASE actor'[a].pc = "idle"
  BY <1>1, <1>2, IdleMoves, FinishTypes
<1>3. CASE actor'[a].pc # "idle"
  <2>1. /\ actor'[a].pc = "finish" /\ a = "worker" /\ actor'[a].on = actor[a].on
        /\ \A b \in Actors \ {a} : actor'[b] = actor[b]
    BY <1>1, <1>3, FinishTypes
  <2>2. a \notin Requests /\ a \notin Outputs /\ actor[a].pc \in Finalizing
    BY <2>1 DEF Requests
  <2>3. PICK r \in Requests : r = actor[a].on /\ asset[r] # "Absent"
    BY <2>2 DEF Inductive, FinalizerHolds
  <2>4. FinalizerHolds(a)'
    BY <2>1, <2>2, <2>3, Monotone DEF FinalizerHolds
  <2> QED BY <2>1, <2>2, <2>4 DEF Moves, BeforeCommit
<1> QED BY <1>2, <1>3

\* A finalizer that goes on, with what its next step relies on.
LEMMA GoMoves ==
  ASSUME Inductive, [Next]_vars, NEW a \in Actors, actor[a].pc \in Finalizing,
         NEW r \in Requests, r = actor[a].on,
         NEW pc \in Finalizing, Go(a, pc),
         pc \in {"open", "verifyStaged", "verifyManaged"} => actor[a].seen = "Pending",
         pc \in {"verifyManaged", "commitAvailable", "commitRecovered"} => Published(r)',
         pc = "commitMissing" => r \in lost /\ actor[a].seen = "Pending",
         pc = "unstage" => WasAvailable(r)'
  PROVE  Moves(a)
<1>1. TypeOK
  BY DEF Inductive
<1>2. /\ actor'[a].pc = pc /\ actor'[a].on = r /\ actor'[a].seen = actor[a].seen
      /\ \A b \in Actors \ {a} : actor'[b] = actor[b]
  BY <1>1 DEF Go, TypeOK
<1>3. asset[r] # "Absent" /\ (a \in Outputs => r = binding)
  BY DEF Inductive, FinalizerHolds
<1>4. asset'[r] # "Absent" /\ (a \in Outputs => r = binding') /\ lost \subseteq lost'
  BY <1>3, Monotone DEF Requests
<1>5. FinalizerHolds(a)'
  BY <1>2, <1>4 DEF FinalizerHolds, Finalizing
<1>6. a \in Requests => RequestHolds(a)' /\ actor[a].pc # "idle"
  BY <1>2 DEF RequestHolds, BeforeCommit, Finalizing
<1>7. actor'[a].pc \notin BeforeCommit \cup {"cleanup", "replay", "removeStale"}
  BY <1>2 DEF Finalizing, BeforeCommit
<1>8. a = "reconciler" => StaleHolds'
  BY <1>7 DEF StaleHolds
<1> QED BY <1>2, <1>5, <1>6, <1>7, <1>8 DEF Moves

\* A finalizer that begins on an Asset that is there.
LEMMA LoadMoves ==
  ASSUME Inductive, [Next]_vars, NEW a \in {"worker", "reconciler"},
         NEW r \in Requests, asset[r] # "Absent",
         actor' = [actor EXCEPT ![a] = At("load", r, "Absent")]
  PROVE  Moves(a)
<1>1. TypeOK /\ a \in Actors /\ a \notin Requests /\ a \notin Outputs
  BY DEF Inductive, Actors, Requests
<1>2. /\ actor'[a] = At("load", r, "Absent")
      /\ \A b \in Actors \ {a} : actor'[b] = actor[b]
  BY <1>1 DEF TypeOK
<1>3. asset'[r] # "Absent"
  BY Monotone
<1> QED
  BY <1>1, <1>2, <1>3 DEF Moves, FinalizerHolds, Finalizing, BeforeCommit, StaleHolds, At
\* In every step but a crash at most one actor moves.
ActorStep ==
  \/ UNCHANGED actor
  \/ \A a \in Actors : actor'[a].pc = "idle"
  \/ \E a \in Actors : Moves(a)

\* The steps of a request up to its commit.
LEMMA RequestMoves ==
  ASSUME Inductive, [Next]_vars, NEW r \in Requests, RequestSteps(r)
  PROVE  Moves(r)
<1> USE DEF rows, files, outside, IsAt, Go, Actors
<1>0. TypeOK /\ KeyNamesAsset /\ RequestHolds(r)
  BY DEF Inductive
<1>1. ASSUME \A b \in Actors \ {r} : actor'[b] = actor[b],
             actor[r].pc = "idle" => r \notin staged /\ \A t \in late : t.on # r,
             actor'[r].pc \in BeforeCommit \cup {"cleanup", "replay"}, RequestHolds(r)'
      PROVE  Moves(r)
  BY <1>1 DEF Moves, FinalizerHolds, Finalizing, BeforeCommit, Requests
<1>2. CASE RecoverFirst(r)
  BY <1>0, <1>2, IdleMoves DEF RecoverFirst, Tell, TypeOK, Idle
<1>3. CASE StageContent(r)
  <2>1. NotCommitted(r)' /\ actor'[r] = At("copy", r, "Absent")
    BY <1>0, <1>3 DEF StageContent, MayBegin, NotCommitted, TypeOK
  <2>2. RequestHolds(r)'
    BY <2>1 DEF RequestHolds, At
  <2> QED BY <1>0, <1>1, <1>3, <2>1, <2>2 DEF StageContent, TypeOK, At, BeforeCommit
<1>4. CASE FinishCopy(r)
  <2>1. NotCommitted(r)'
    BY <1>0, <1>4 DEF FinishCopy, RequestHolds, NotCommitted, BeforeCommit
  <2>2. RequestHolds(r)' /\ actor'[r].pc \in BeforeCommit
    BY <1>0, <1>4, <2>1 DEF FinishCopy, RequestHolds, BeforeCommit, TypeOK
  <2> QED BY <1>0, <1>1, <1>4, <2>2 DEF FinishCopy, TypeOK
<1>5. CASE FailCopy(r)
  BY <1>5, RefuseMoves DEF FailCopy, TransientErrors, PermanentErrors, Inductive
<1>6. CASE FindExistingOutput(r)
  <2>1. NotCommitted(r)' /\ r \in Outputs
    BY <1>0, <1>6 DEF FindExistingOutput, RequestHolds, NotCommitted, BeforeCommit
  <2>2. RequestHolds(r)' /\ actor'[r].pc \in BeforeCommit \cup {"replay"}
    <3>1. CASE binding = NoAsset
      BY <1>0, <1>6, <2>1, <3>1 DEF FindExistingOutput, RequestHolds, BeforeCommit, TypeOK
    <3>2. CASE binding # NoAsset
      BY <1>0, <1>6, <2>1, <3>2
      DEF FindExistingOutput, RequestHolds, BeforeCommit, TypeOK, At, WasAvailable
    <3> QED BY <3>1, <3>2
  <2> QED BY <1>0, <1>1, <1>6, <2>2 DEF FindExistingOutput, TypeOK
<1>7. CASE InspectStaged(r)
  <2>1. NotCommitted(r)'
    BY <1>0, <1>7 DEF InspectStaged, RequestHolds, NotCommitted, BeforeCommit
  <2>2. \/ /\ r \in staged /\ actor'[r] = [actor[r] EXCEPT !.pc = "commitPending"]
        \/ actor'[r] = At("cleanup", r, "InvalidMedia")
        \/ actor'[r] = At("cleanup", r, "ContentMissing")
    BY <1>0, <1>7 DEF InspectStaged, TypeOK
  <2>3. RequestHolds(r)' /\ actor'[r].pc \in {"cleanup", "commitPending"}
    BY <1>0, <1>7, <2>1, <2>2
    DEF InspectStaged, RequestHolds, BeforeCommit, TypeOK, At, Kept, PermanentErrors
  <2> QED BY <1>0, <1>1, <1>7, <2>3 DEF InspectStaged, TypeOK, BeforeCommit
<1>8. CASE CommitPending(r)
  <2>1. NotCommitted(r) /\ late' = late /\ content' = content
    BY <1>0, <1>8 DEF CommitPending, RequestHolds, BeforeCommit
  <2>2. CASE r \in Outputs /\ binding # NoAsset
    <3>1. UNCHANGED rows /\ actor'[r] = At("replay", binding, asset[binding])
      BY <1>0, <1>8, <2>2 DEF CommitPending, InsertPending, TypeOK
    <3>2. RequestHolds(r)'
      BY <2>1, <2>2, <3>1 DEF RequestHolds, BeforeCommit, At, NotCommitted, WasAvailable
    <3> QED BY <1>0, <1>1, <1>8, <3>1, <3>2 DEF CommitPending, TypeOK, At
  <2>3. CASE ~(r \in Outputs /\ binding # NoAsset)
    <3>1. /\ asset'[r] = "Pending" /\ (r \in Outputs => binding' = r)
          /\ actor'[r] = At("load", r, "Absent") /\ actor[r].pc # "idle"
          /\ \A b \in Actors \ {r} : actor'[b] = actor[b]
      BY <1>0, <1>8, <2>3 DEF CommitPending, InsertPending, TypeOK
    <3> QED BY <3>1 DEF Moves, FinalizerHolds, Finalizing, RequestHolds, BeforeCommit, At, Requests
  <2> QED BY <2>2, <2>3
<1>9. CASE CommitPendingFails(r)
  <2>1. NotCommitted(r)'
    BY <1>0, <1>9 DEF CommitPendingFails, RequestHolds, NotCommitted, BeforeCommit
  <2>2. actor'[r] = At("cleanup", r, "StorageFailed")
    BY <1>0, <1>9 DEF CommitPendingFails, TypeOK
  <2>3. RequestHolds(r)'
    BY <2>1, <2>2 DEF RequestHolds, BeforeCommit, At, TransientErrors
  <2> QED BY <1>0, <1>1, <1>9, <2>2, <2>3 DEF CommitPendingFails, TypeOK, At
<1>10. CASE ReplayExistingOutput(r)
  <2>1. /\ r \in Outputs /\ binding # NoAsset /\ actor[r].on = binding
        /\ asset[binding] # "Absent" /\ binding \in Requests /\ binding' = binding
        /\ asset' = asset
    BY <1>0, <1>10 DEF ReplayExistingOutput, RequestHolds, KeyNamesAsset, TypeOK, Requests
  <2>2. \/ \E result : Tell(r, result)
        \/ actor' = [actor EXCEPT ![r].pc = "load"]
    BY <1>10 DEF ReplayExistingOutput
  <2>3. CASE \E result : Tell(r, result)
    BY <1>0, <2>3, IdleMoves DEF Tell, TypeOK, Idle
  <2>4. CASE actor' = [actor EXCEPT ![r].pc = "load"]
    <3>1. /\ actor'[r].pc = "load" /\ actor'[r].on = binding /\ actor[r].pc # "idle"
          /\ \A b \in Actors \ {r} : actor'[b] = actor[b]
      BY <1>0, <1>10, <2>1, <2>4 DEF TypeOK, ReplayExistingOutput
    <3> QED
      BY <2>1, <3>1 DEF Moves, FinalizerHolds, Finalizing, RequestHolds, BeforeCommit, Requests
  <2> QED BY <2>2, <2>3, <2>4
<1>11. CASE RemoveUncommittedStaging(r)
  BY <1>0, <1>11, RefuseMoves DEF RemoveUncommittedStaging, RequestHolds, Inductive
<1> QED
  BY <1>2, <1>3, <1>4, <1>5, <1>6, <1>7, <1>8, <1>9, <1>10, <1>11 DEF RequestSteps

\* The steps of a finalizer.
LEMMA FinalizerMoves ==
  ASSUME Inductive, [Next]_vars, NEW a \in Actors, FinalizerSteps(a) \/ FinalizerFails(a)
  PROVE  Moves(a)
<1> USE DEF rows, files, outside, IsAt, Proceed
<1>1. actor[a].pc \in Finalizing
  BY DEF FinalizerSteps, FinalizerFails, LoadFinalization, OpenStaged, VerifyStaged,
     LinkManaged, VerifyManaged, CommitAvailable, CommitMissing, RemovePublishedStaging,
     Finalizing
<1>2. PICK r \in Requests :
        /\ r = actor[a].on /\ asset[r] \in ContentStates /\ asset[r] # "Absent"
        /\ r \in DOMAIN content
  BY <1>1, FinalizerAsset DEF ContentStates, MissingStates
<1>3. TypeOK /\ RowsAgree /\ BytesSurvive /\ FinalizerHolds(a)
  BY DEF Inductive
<1>4. /\ lost \subseteq lost' /\ content' = content /\ (Published(r) => Published(r)')
      /\ (WasAvailable(r) => WasAvailable(r)')
  BY <1>2, Monotone
<1>5. ASSUME NEW result \in Results, Finish(a, result) PROVE Moves(a)
  BY <1>1, <1>5, FinishMoves
<1> USE DEF Results, ContentStates, MissingStates, TransientErrors, PermanentErrors
<1>6. CASE LoadFinalization(a)
  <2>1. CASE asset[r] = "Pending"
    <3>1. /\ actor'[a] = At("open", r, "Pending")
          /\ \A b \in Actors \ {a} : actor'[b] = actor[b]
      BY <1>2, <1>3, <1>6, <2>1 DEF LoadFinalization, TypeOK
    <3>2. asset'[r] # "Absent" /\ (a \in Outputs => r = binding')
      BY <1>1, <1>2, <1>3, <1>6 DEF LoadFinalization, FinalizerHolds
    <3>3. actor[a].pc # "idle"
      BY <1>6 DEF LoadFinalization
    <3> QED
      BY <3>1, <3>2, <3>3
      DEF Moves, FinalizerHolds, Finalizing, RequestHolds, BeforeCommit, At, StaleHolds
  <2>2. CASE asset[r] # "Pending"
    BY <1>2, <1>5, <1>6, <2>2 DEF LoadFinalization
  <2> QED BY <2>1, <2>2
<1>7. CASE OpenStaged(a)
  <2>1. actor[a].seen = "Pending"
    BY <1>3, <1>7 DEF OpenStaged, FinalizerHolds
  <2>2. r \notin staged => Published(r)
    BY <1>2, <1>3 DEF Published, BytesSurvive, RowsAgree
  <2>3. Go(a, IF r \in staged THEN "verifyStaged" ELSE "verifyManaged")
    BY <1>2, <1>7 DEF OpenStaged
  <2> QED BY <1>1, <1>2, <1>4, <2>1, <2>2, <2>3, GoMoves DEF Finalizing
<1>8. CASE VerifyStaged(a)
  <2>1. CASE r \in staged
    <3>1. Go(a, "link")
      BY <1>2, <1>8, <2>1 DEF VerifyStaged
    <3> QED BY <1>1, <1>2, <3>1, GoMoves DEF Finalizing
  <2>2. CASE r \notin staged
    BY <1>2, <1>5, <1>8, <2>2 DEF VerifyStaged
  <2> QED BY <2>1, <2>2
<1>9. CASE LinkManaged(a)
  <2>1. CASE content[r] \in managed \/ r \in staged
    <3>1. Go(a, "commitAvailable") /\ managed' = managed \cup {content[r]}
      BY <1>2, <1>9, <2>1 DEF LinkManaged
    <3>2. Published(r)'
      BY <1>4, <3>1 DEF Published
    <3> QED BY <1>1, <1>2, <3>1, <3>2, GoMoves DEF Finalizing
  <2>2. CASE ~(content[r] \in managed \/ r \in staged)
    BY <1>2, <1>5, <1>9, <2>2 DEF LinkManaged
  <2> QED BY <2>1, <2>2
<1>10. CASE VerifyManaged(a)
  <2>1. Published(r) /\ actor[a].seen = "Pending"
    BY <1>2, <1>3, <1>10 DEF VerifyManaged, FinalizerHolds
  <2>2. CASE content[r] \in managed
    <3>1. Go(a, "commitRecovered")
      BY <1>2, <1>10, <2>2 DEF VerifyManaged
    <3> QED BY <1>1, <1>2, <1>4, <2>1, <3>1, GoMoves DEF Finalizing
  <2>3. CASE content[r] \notin managed
    <3>1. Go(a, "commitMissing") /\ r \in lost
      BY <1>2, <1>10, <2>1, <2>3 DEF VerifyManaged, Published
    <3> QED BY <1>1, <1>2, <2>1, <3>1, GoMoves DEF Finalizing
  <2> QED BY <2>2, <2>3
<1>11. CASE CommitAvailable(a)
  <2>1. \/ Finish(a, "IdentityConflict") \/ Finish(a, "Available")
        \/ AvailableAccepted(r) /\ Go(a, "unstage")
    BY <1>2, <1>11 DEF CommitAvailable
  <2>2. AvailableAccepted(r) => WasAvailable(r)'
    BY <1>2, <1>3, <1>11
    DEF CommitAvailable, AvailableAccepted, WriteAvailable, WasAvailable, TypeOK
  <2> QED BY <1>1, <1>2, <1>5, <2>1, <2>2, GoMoves DEF Finalizing
<1>12. CASE CommitMissing(a)
  BY <1>5, <1>12 DEF CommitMissing, MissingFrom
<1>13. CASE RemovePublishedStaging(a)
  BY <1>5, <1>13 DEF RemovePublishedStaging
<1>14. CASE FinalizerFails(a)
  BY <1>5, <1>14 DEF FinalizerFails
<1> QED
  BY <1>6, <1>7, <1>8, <1>9, <1>10, <1>11, <1>12, <1>13, <1>14 DEF FinalizerSteps
LEMMA ActorsMove == Inductive /\ [Next]_vars => ActorStep
<1> SUFFICES ASSUME Inductive, [Next]_vars PROVE ActorStep
  OBVIOUS
<1> USE DEF ActorStep, IsAt
<1>0. TypeOK /\ RowsAgree /\ BytesSurvive /\ "worker" \in Actors /\ "reconciler" \in Actors
  BY DEF Inductive, Actors
<1>1. ASSUME NEW r \in Requests, RequestSteps(r) PROVE ActorStep
  BY <1>1, RequestMoves DEF Actors
<1>2. ASSUME NEW a \in Actors, FinalizerSteps(a) \/ FinalizerFails(a) PROVE ActorStep
  BY <1>2, FinalizerMoves
<1>3. ASSUME NEW r \in Requests, ClaimEffect(r) PROVE ActorStep
  BY <1>0, <1>3, LoadMoves DEF ClaimEffect, RowsAgree
<1>4. ASSUME NEW a \in Actors, DeadlineElapses(a) PROVE ActorStep
  <2>1. CASE a \in Requests /\ actor[a].pc \in BeforeCommit
    <3>1. Refuse(a, "DeadlineExceeded")
      BY <1>4, <2>1 DEF DeadlineElapses, GiveUpWaiting
    <3> QED BY <2>1, <3>1, RefuseMoves DEF TransientErrors, Actors
  <2>2. CASE ~(a \in Requests /\ actor[a].pc \in BeforeCommit)
    <3>1. Finish(a, "DeadlineExceeded")
      BY <1>4, <2>2 DEF DeadlineElapses, GiveUpWaiting
    <3>2. actor[a].pc \in Finalizing \/ a \in Requests
      BY <1>0, <1>4, <2>2
      DEF DeadlineElapses, CanElapse, Active, Inductive, WhoIsWhere, BeforeCommit, Finalizing,
          TypeOK, PCs
    <3> QED BY <3>1, <3>2, FinishMoves DEF Results, TransientErrors
  <2> QED BY <2>1, <2>2
<1>5. CASE FinishClaim
  BY <1>0, <1>5, IdleMoves DEF FinishClaim, TypeOK, Idle
<1>6. CASE ReconcileFinalization
  BY <1>0, <1>6, LoadMoves DEF ReconcileFinalization
<1>7. CASE ReconcileAvailable
  <2>1. PICK r \in Requests :
          /\ asset[r] = "Available" /\ content[r] \notin managed
          /\ actor' = [actor EXCEPT !["reconciler"] = At("commitMissing", r, "Available")]
    BY <1>7 DEF ReconcileAvailable
  <2>2. r \in lost /\ UNCHANGED <<asset, lost>>
    BY <1>0, <1>7, <2>1 DEF BytesSurvive, ReconcileAvailable, rows, outside
  <2>3. /\ actor'["reconciler"] = At("commitMissing", r, "Available")
        /\ \A b \in Actors \ {"reconciler"} : actor'[b] = actor[b]
        /\ "reconciler" \notin Requests
    BY <1>0, <2>1 DEF TypeOK, Requests
  <2>4. Moves("reconciler")
    BY <2>1, <2>2, <2>3
    DEF Moves, FinalizerHolds, Finalizing, BeforeCommit, StaleHolds, At, Requests
  <2> QED BY <1>0, <2>4
<1>8. CASE FindStaleStaging
  <2>1. PICK r \in Requests :
          /\ IsStale(r) /\ IsUnreferenced(r)
          /\ actor' = [actor EXCEPT !["reconciler"] = At("removeStale", r, "Absent")]
    BY <1>8 DEF FindStaleStaging
  <2>2. /\ r \in staged /\ actor[r].pc = "idle" /\ \A t \in late : t.on # r
        /\ asset[r] = "Absent" \/ r \in completed
        /\ r \in DOMAIN content
    BY <1>0, <2>1 DEF IsStale, IsUnreferenced, Active, RowsAgree
  <2>3. UNCHANGED <<staged, asset, completed, late, content>>
    BY <1>8 DEF FindStaleStaging, files, rows, outside
  <2>4. /\ actor'["reconciler"] = At("removeStale", r, "Absent")
        /\ \A b \in Actors \ {"reconciler"} : actor'[b] = actor[b]
        /\ "reconciler" \notin Requests /\ actor'[r] = actor[r]
    BY <1>0, <2>1 DEF TypeOK, Requests, Actors
  <2>5. StaleHolds'
    BY <2>2, <2>3, <2>4 DEF StaleHolds, NotCommitted, At
  <2>6. Moves("reconciler")
    BY <2>4, <2>5 DEF Moves, FinalizerHolds, Finalizing, BeforeCommit, At
  <2> QED BY <1>0, <2>6
<1>9. CASE RemoveStaleStaging
  BY <1>0, <1>9, IdleMoves DEF RemoveStaleStaging, TypeOK, Idle
<1>10. CASE RunLate \/ Startup \/ LoseFile \/ UNCHANGED vars
  BY <1>10 DEF RunLate, Startup, LoseFile, vars
<1>11. CASE Crash
  BY <1>11 DEF Crash, Idle
<1> QED
  BY <1>1, <1>2, <1>3, <1>4, <1>5, <1>6, <1>7, <1>8, <1>9, <1>10, <1>11
  DEF Next, Reconciliation

\* A request that waits for its late transaction, or has staging left that
\* reconciliation looks at, stays as it is.
LEMMA IdleStays ==
  ASSUME Inductive, [Next]_vars, NEW r \in Requests, actor[r].pc = "idle",
         r \in staged \/ \E t \in late : t.on = r
  PROVE  actor'[r].pc = "idle"
BY ActorsMove DEF ActorStep, Moves, Actors

----------------------------------------------------------------------------
(* Transactions that outlive their callers.                                *)

\* What the pool is left with when a holds it no longer.
NewLate(t) ==
  /\ UNCHANGED <<rows, managed, content, lost>> /\ staged \subseteq staged'
  /\ t.kind = "commitPending" =>
       /\ t.on \in Requests /\ NotCommitted(t.on) /\ Kept(t.on)
       /\ actor[t.on].pc = "commitPending" /\ actor'[t.on].pc = "idle"
       /\ late' = late \cup {t}
  /\ t.kind # "commitPending" => asset[t.on] # "Absent"
  /\ t.kind \in {"commitAvailable", "commitRecovered"} => Published(t.on)
  /\ t.kind = "commitMissing" => t.on \in lost /\ t.seen \in {"Pending", "Available"}

LEMMA LateGrows == Inductive /\ [Next]_vars => \A t \in late' \ late : NewLate(t)
<1> SUFFICES ASSUME Inductive, [Next]_vars, NEW t \in late' \ late PROVE NewLate(t)
  OBVIOUS
<1> USE DEF outside
<1>1. PICK a \in Actors : DeadlineElapses(a)
  <2>1. ASSUME NEW r \in Requests, RequestSteps(r) \/ ClaimEffect(r) PROVE late' = late
    BY <2>1 DEF RequestSteps, RecoverFirst, StageContent, FinishCopy, FailCopy, ClaimEffect,
       FindExistingOutput, InspectStaged, CommitPending, CommitPendingFails,
       ReplayExistingOutput, RemoveUncommittedStaging
  <2>2. ASSUME NEW b \in Actors, FinalizerSteps(b) \/ FinalizerFails(b) PROVE late' = late
    BY <2>2 DEF FinalizerSteps, FinalizerFails, LoadFinalization, OpenStaged, VerifyStaged,
       LinkManaged, VerifyManaged, CommitAvailable, CommitMissing, RemovePublishedStaging
  <2>3. FinishClaim \/ Reconciliation \/ Startup \/ LoseFile \/ UNCHANGED vars => late' = late
    BY DEF FinishClaim, Reconciliation, ReconcileFinalization, ReconcileAvailable,
       FindStaleStaging, RemoveStaleStaging, Startup, LoseFile, vars
  <2>4. RunLate \/ Crash => late' \subseteq late
    BY DEF RunLate, Crash
  <2> QED BY <2>1, <2>2, <2>3, <2>4 DEF Next
<1>2. /\ t \in Outlives(a) /\ late' = late \cup Outlives(a)
      /\ UNCHANGED <<rows, managed, content, lost>> /\ staged \subseteq staged'
  BY <1>1 DEF DeadlineElapses
<1>3. /\ actor[a].pc \in CommitPoints /\ Outlives(a) = {t} /\ t.kind = actor[a].pc
      /\ t.on = IF actor[a].pc = "commitPending" THEN a ELSE actor[a].on
      /\ t.seen = actor[a].seen
  BY <1>2 DEF Outlives
<1>4. CASE t.kind = "commitPending"
  <2>1. a \in Requests /\ t.on = a
    BY <1>3, <1>4 DEF Inductive, WhoIsWhere, BeforeCommit
  <2>2. NotCommitted(a) /\ Kept(a)
    BY <1>3, <1>4, <2>1 DEF Inductive, RequestHolds, BeforeCommit
  <2>3. Refuse(a, "DeadlineExceeded")
    BY <1>1, <1>3, <1>4, <2>1 DEF DeadlineElapses, GiveUpWaiting, BeforeCommit
  <2>4. actor'[a].pc = "idle"
    BY <2>1, <2>3, RefuseTypes DEF Inductive, TransientErrors
  <2> QED BY <1>2, <1>3, <1>4, <2>1, <2>2, <2>4 DEF NewLate
<1>5. CASE t.kind # "commitPending"
  <2>1. t.on = actor[a].on /\ actor[a].pc \in Finalizing /\ FinalizerHolds(a)
    BY <1>3, <1>5 DEF CommitPoints, Finalizing, Inductive
  <2> QED BY <1>2, <1>3, <1>5, <2>1 DEF NewLate, FinalizerHolds
<1> QED BY <1>4, <1>5

\* A request whose transaction has not run is not overtaken by another's step.
LEMMA NotCommittedStays ==
  ASSUME Inductive, [Next]_vars, NEW r \in Requests, NotCommitted(r), actor'[r] = actor[r]
  PROVE  NotCommitted(r)'
<1>1. TypeOK /\ RowStep /\ FileStep
  BY RowsMove, FilesMove DEF Inductive
<1>2. asset'[r] = "Absent"
  <2>1. CASE RowsStay
    BY <2>1 DEF RowsStay, NotCommitted
  <2>2. ASSUME NEW q \in Requests, Accepts(q) \/ Publishes(q) \/ GivesUp(q)
        PROVE  asset'[r] = "Absent"
    <3>1. CASE q = r
      BY <2>2, <3>1 DEF Accepts, Publishes, GivesUp, NotCommitted, BeforeCommit
    <3>2. CASE q # r
      BY <1>1, <2>2, <3>2 DEF Accepts, Publishes, GivesUp, NotCommitted, TypeOK
    <3> QED BY <3>1, <3>2
  <2> QED BY <1>1, <2>1, <2>2 DEF RowStep
<1>3. ASSUME NEW t \in late' PROVE t.on # r
  <2>1. CASE t \in late
    BY <2>1 DEF NotCommitted
  <2>2. CASE t \notin late
    BY <2>2, LateGrows DEF NewLate, NotCommitted
  <2> QED BY <2>1, <2>2
<1> QED BY <1>1, <1>2, <1>3 DEF NotCommitted, FileStep

\* The staged bytes of a request that has not committed stay while it does not move.
LEMMA KeptStays ==
  ASSUME Inductive, [Next]_vars, NEW r \in Requests, r \in DOMAIN content,
         asset[r] = "Absent", Kept(r),
         actor[r].pc = "commitPending" \/ \E t \in late : t.on = r
  PROVE  Kept(r)'
BY FilesMove, Monotone DEF Kept, FileStep, Withdrawn, NotCommitted

LEMMA LateStep == Inductive /\ [Next]_vars => LateHolds'
<1> SUFFICES ASSUME Inductive, [Next]_vars, NEW t \in late' PROVE
        /\ t.kind = "commitPending" =>
             /\ t.on \in DOMAIN content' /\ asset'[t.on] = "Absent" /\ Kept(t.on)'
             /\ actor'[t.on].pc = "idle" /\ \A u \in late' : u.on = t.on => u = t
        /\ t.kind # "commitPending" => asset'[t.on] # "Absent"
        /\ t.kind \in {"commitAvailable", "commitRecovered"} => Published(t.on)'
        /\ t.kind = "commitMissing" => t.on \in lost' /\ t.seen \in {"Pending", "Available"}
  BY DEF LateHolds
<1>1. TypeOK /\ TypeOK' /\ LateHolds /\ RowStep /\ RowsAgree
  BY RowsMove, TypeStep DEF Inductive
<1>2. CASE t \in late
  <2>1. t.on \in Requests
    BY <1>1, <1>2 DEF TypeOK
  <2>2. CASE t.kind # "commitPending"
    BY <1>1, <1>2, <2>1, <2>2, Monotone DEF LateHolds, RowsAgree
  <2>3. CASE t.kind = "commitPending"
    <3>1. /\ t.on \in DOMAIN content /\ asset[t.on] = "Absent" /\ Kept(t.on)
          /\ actor[t.on].pc = "idle" /\ \A u \in late : u.on = t.on => u = t
      BY <1>1, <1>2, <2>3 DEF LateHolds
    <3>2. Kept(t.on)' /\ actor'[t.on].pc = "idle" /\ t.on \in DOMAIN content'
      BY <1>2, <2>1, <3>1, KeptStays, IdleStays, Monotone
    <3>3. asset'[t.on] = "Absent"
      BY <1>1, <2>1, <3>1 DEF RowStep, RowsStay, Accepts, Publishes, GivesUp, TypeOK
    <3>4. ASSUME NEW u \in late', u.on = t.on PROVE u = t
      <4>1. CASE u \in late
        BY <3>1, <3>4, <4>1
      <4>2. CASE u \notin late
        BY <1>2, <3>1, <3>4, <4>2, LateGrows DEF NewLate, NotCommitted
      <4> QED BY <4>1, <4>2
    <3> QED BY <2>3, <3>2, <3>3, <3>4
  <2> QED BY <2>2, <2>3
<1>3. CASE t \notin late
  <2>1. NewLate(t)
    BY <1>3, LateGrows
  <2>2. /\ UNCHANGED <<asset, managed, content, lost>> /\ staged \subseteq staged'
    BY <2>1 DEF NewLate, rows
  <2>3. CASE t.kind = "commitPending"
    BY <2>1, <2>2, <2>3 DEF NewLate, NotCommitted, Kept, Published
  <2>4. CASE t.kind # "commitPending"
    BY <2>1, <2>2, <2>4 DEF NewLate, Published
  <2> QED BY <2>3, <2>4
<1> QED BY <1>2, <1>3

----------------------------------------------------------------------------
(* The invariant is inductive.                                             *)

\* A request that stands still.
LEMMA RequestFrame ==
  ASSUME Inductive, [Next]_vars, NEW r \in Requests, actor'[r] = actor[r]
  PROVE  RequestHolds(r)'
<1>1. RequestHolds(r) /\ TypeOK
  BY DEF Inductive
<1>2. actor[r].pc \in BeforeCommit \cup {"cleanup", "replay"} => NotCommitted(r)'
  BY <1>1, NotCommittedStays DEF RequestHolds
<1>3. actor[r].pc = "commitPending" => Kept(r)'
  BY <1>1, KeptStays DEF RequestHolds, NotCommitted, BeforeCommit
<1>4. actor[r].pc = "replay" =>
        /\ r \in Outputs /\ binding' # NoAsset /\ actor[r].on = binding'
        /\ actor[r].seen = "Available" => WasAvailable(binding)'
  BY <1>1, Monotone DEF RequestHolds, TypeOK, Requests
<1> QED BY <1>1, <1>2, <1>3, <1>4 DEF RequestHolds

\* A reconciler that stands still before it removes stale staging.
LEMMA StaleFrame ==
  ASSUME Inductive, [Next]_vars, actor'["reconciler"] = actor["reconciler"]
  PROVE  StaleHolds'
<1> SUFFICES ASSUME actor["reconciler"].pc = "removeStale" PROVE StaleHolds'
  BY DEF StaleHolds
<1>1. TypeOK /\ StaleHolds /\ RowsAgree /\ RowsAgree'
  BY RowsAgreeStep DEF Inductive
<1>2. PICK r \in Requests : r = actor["reconciler"].on /\ r \in DOMAIN content
  BY <1>1 DEF TypeOK, StaleHolds
<1>3. r \in DOMAIN content' /\ r = actor'["reconciler"].on
  BY <1>2, Monotone
<1>4. CASE Published(r)
  BY <1>2, <1>3, <1>4, Monotone DEF StaleHolds
<1>5. CASE r \in completed
  <2>1. r \in completed'
    BY <1>5, RowsMove DEF RowStep, RowsStay, Accepts, Publishes, GivesUp
  <2> QED BY <1>2, <1>3, <2>1 DEF StaleHolds
<1>6. CASE r \in staged /\ actor[r].pc = "idle" /\ NotCommitted(r)
  <2>1. actor'[r].pc = "idle"
    BY <1>6, IdleStays
  <2>2. NotCommitted(r)'
    <3>1. CASE actor'[r] = actor[r]
      BY <1>6, <3>1, NotCommittedStays
    <3>2. CASE actor'[r] # actor[r]
      <4>1. asset'[r] = "Absent"
        BY <1>1, <1>6, RowsMove
        DEF RowStep, RowsStay, Accepts, Publishes, GivesUp, NotCommitted, TypeOK
      <4>2. \A t \in late' : t.on # r
        BY <1>6, LateGrows DEF NewLate, NotCommitted
      <4> QED BY <1>6, <4>1, <4>2, Monotone DEF NotCommitted
    <3> QED BY <3>1, <3>2
  <2>3. r \in staged' \/ Published(r)'
    BY <1>1, <1>2, <1>6, FilesMove DEF FileStep, Withdrawn, NotCommitted
  <2> QED BY <1>3, <2>1, <2>2, <2>3 DEF StaleHolds
<1> QED BY <1>1, <1>2, <1>4, <1>5, <1>6 DEF StaleHolds

LEMMA Initial == Init => Inductive
<1> SUFFICES ASSUME Init PROVE Inductive
  OBVIOUS
<1>1. TypeOK
  BY TypeInit
<1>2. RowsAgree /\ KeyNamesAsset /\ AnswersHold /\ BytesSurvive /\ LateHolds
  BY DEF Init, RowsAgree, KeyNamesAsset, AnswersHold, BytesSurvive, LateHolds, MissingStates,
     Requests
<1>3. \A a \in Actors : actor[a].pc = "idle"
  BY DEF Init, Idle
<1>4. /\ \A r \in Requests : RequestHolds(r)
      /\ \A a \in Actors : FinalizerHolds(a)
      /\ StaleHolds /\ WhoIsWhere
  BY <1>3 DEF RequestHolds, FinalizerHolds, Finalizing, BeforeCommit, StaleHolds, WhoIsWhere,
     Actors
<1> QED BY <1>1, <1>2, <1>4 DEF Inductive

LEMMA Step == Inductive /\ [Next]_vars => Inductive'
<1> SUFFICES ASSUME Inductive, [Next]_vars PROVE Inductive'
  OBVIOUS
<1>1. /\ TypeOK' /\ RowsAgree' /\ KeyNamesAsset' /\ AnswersHold' /\ BytesSurvive' /\ LateHolds'
  BY TypeStep, RowsAgreeStep, KeyStep, AnswersStep, BytesStep, LateStep
<1>2. ASSUME NEW a \in Actors,
             actor'[a] = actor[a] \/ actor'[a].pc = "idle" \/ Moves(a)
      PROVE  /\ FinalizerHolds(a)'
             /\ a \in Requests => RequestHolds(a)'
             /\ a = "reconciler" => StaleHolds'
             /\ a \notin Requests => actor'[a].pc \notin BeforeCommit \cup {"cleanup", "replay"}
             /\ actor'[a].pc = "removeStale" => a = "reconciler"
  <2>1. CASE actor'[a] = actor[a]
    BY <2>1, FinalizerFrame, RequestFrame, StaleFrame DEF Inductive, WhoIsWhere
  <2>2. CASE actor'[a].pc = "idle"
    BY <2>2 DEF FinalizerHolds, Finalizing, RequestHolds, BeforeCommit, StaleHolds
  <2>3. CASE Moves(a)
    BY <2>3 DEF Moves
  <2> QED BY <1>2, <2>1, <2>2, <2>3
<1>3. \A a \in Actors : actor'[a] = actor[a] \/ actor'[a].pc = "idle" \/ Moves(a)
  BY ActorsMove DEF ActorStep, Moves
<1>4. /\ \A r \in Requests : RequestHolds(r)'
      /\ \A a \in Actors : FinalizerHolds(a)'
      /\ StaleHolds' /\ WhoIsWhere'
  BY <1>2, <1>3 DEF WhoIsWhere, Actors
<1> QED BY <1>1, <1>4 DEF Inductive

THEOREM AssetInvariant == Spec => []Inductive
<1>1. Inductive /\ [Next]_vars => Inductive'
  BY Step
<1> QED BY <1>1, Initial, PTL DEF Spec

\* The bytes of every committed Asset are staged or published until the environment
\* destroys them, whichever of the three actors that finalize and remove files run,
\* fail or come too late (finalize_content.rs:203, reconcile_content.rs:166).
THEOREM BytesAreKept == Spec => []BytesSurvive
BY AssetInvariant, PTL DEF Inductive

\* A node output is one Asset, and "Available" is answered of that Asset, for any
\* number of attempts and of transactions that outlive them (operations.rs:189).
THEOREM OutputIsOneAsset == Spec => []OneAssetPerOutput
<1>1. Inductive => OneAssetPerOutput
  BY DEF Inductive, KeyNamesAsset, AnswersHold, WasAvailable, OneAssetPerOutput
<1> QED BY <1>1, AssetInvariant, PTL

----------------------------------------------------------------------------
(* Refinement.                                                             *)

\* The phase of an Asset is that of its row.
LEMMA PhaseOfRow ==
  ASSUME NEW r
  PROVE  /\ asset[r] = "Absent" => Phase(r) = "Unknown"
         /\ asset[r] = "Pending" => Phase(r) = "Accepted"
         /\ asset[r] = "Available" => Phase(r) = "Readable"
         /\ asset[r] \in MissingStates => Phase(r) = "GivenUp"
         /\ asset'[r] = "Pending" => Phase(r)' = "Accepted"
         /\ asset'[r] = "Available" => Phase(r)' = "Readable"
         /\ asset'[r] \in MissingStates => Phase(r)' = "GivenUp"
         /\ asset'[r] = asset[r] => Phase(r)' = Phase(r)
BY DEF Phase, MissingStates

\* Every step moves one Asset as AssetPromise allows, only destroys, or shows nothing.
THEOREM ContentRefinesPromise == Spec => ImplementsPromise
<1>1. Init => Promise!Init
  BY PhaseOfRow DEF Init, Promise!Init
<1>2. Inductive /\ [Next]_vars => [Promise!Next]_(Promise!promiseVars)
  <2> SUFFICES ASSUME Inductive, [Next]_vars PROVE [Promise!Next]_(Promise!promiseVars)
    OBVIOUS
  <2>1. TypeOK /\ TypeOK' /\ RowStep /\ FileStep
    BY RowsMove, FilesMove, TypeStep DEF Inductive
  <2>2. CASE RowsStay
    <3>1. \A r \in Requests : Phase(r)' = Phase(r)
      BY <2>2, PhaseOfRow DEF RowsStay
    <3>2. lost' = lost \cup lost' /\ lost' \in SUBSET Requests
      BY <2>1 DEF FileStep, TypeOK
    <3> QED BY <3>1, <3>2 DEF Promise!Next, Promise!Destroy, Promise!promiseVars
  <2>3. ASSUME UNCHANGED lost, NEW r \in Requests, Accepts(r) PROVE Promise!Next
    <3>1. /\ asset[r] = "Absent" /\ asset'[r] = "Pending"
          /\ \A q \in Requests \ {r} : asset'[q] = asset[q]
      BY <2>1, <2>3 DEF Accepts, TypeOK
    <3>2. Promise!Accept(r)
      BY <2>3, <3>1, PhaseOfRow DEF Promise!Accept
    <3> QED BY <3>2 DEF Promise!Next
  <2>4. ASSUME UNCHANGED lost, NEW r \in Requests, Publishes(r) PROVE Promise!Next
    <3>1. /\ asset[r] = "Pending" /\ asset'[r] = "Available"
          /\ \A q \in Requests \ {r} : asset'[q] = asset[q]
      BY <2>1, <2>4 DEF Publishes, TypeOK
    <3>2. Promise!Publish(r)
      BY <2>4, <3>1, PhaseOfRow DEF Promise!Publish
    <3> QED BY <3>2 DEF Promise!Next
  <2>5. ASSUME UNCHANGED lost, NEW r \in Requests, GivesUp(r) PROVE Promise!Next
    <3>1. /\ asset[r] \in {"Pending", "Available"} /\ asset'[r] \in MissingStates /\ r \in lost
          /\ \A q \in Requests \ {r} : asset'[q] = asset[q]
      BY <2>1, <2>5 DEF GivesUp, TypeOK, MissingFrom, MissingStates
    <3>2. Promise!GiveUp(r)
      BY <2>5, <3>1, PhaseOfRow DEF Promise!GiveUp
    <3> QED BY <3>2 DEF Promise!Next
  <2> QED BY <2>1, <2>2, <2>3, <2>4, <2>5 DEF RowStep
<1> QED BY <1>1, <1>2, AssetInvariant, PTL DEF Spec, ImplementsPromise, Promise!Spec

----------------------------------------------------------------------------
(* The window's library: its inductive invariant.                          *)

HIDE RequestAssumption

RefreshShapes ==
  [project : ProjectsOfLibrary, pc : {"listing", "leasing", "over"}, had : SUBSET Gallery,
   listed : SUBSET Gallery, waiting : SUBSET Gallery]
RowsFit ==
  /\ DOMAIN held \subseteq Gallery /\ IsFiniteSet(DOMAIN held)
  /\ \A a \in DOMAIN held : held[a] \in [created : Nat, state : {"Pending", "Available", "Missing"}]
  /\ now \in Nat /\ DOMAIN disk = Gallery
\* A list misses an Asset there was only for want of room.
Covers(shown, had) ==
  \A a \in had :
    \/ a \in shown
    \/ Cardinality(NewerThan(a)) >= LibraryPage /\ \A b \in shown : Newer(b, a)
RefreshFits(n) ==
  LET r == refreshes[n]
  IN /\ r.had \subseteq InProject(r.project) /\ r.listed \subseteq DOMAIN held
     /\ \A a \in r.waiting : IsPreviewable(r.project, a)
     /\ r.pc = "leasing" => Covers(r.listed, r.had)
ShownFits ==
  /\ library \in [project : ProjectsOfLibrary \cup {NoOne}, loading : BOOLEAN, failed : BOOLEAN,
                  shown : SUBSET Gallery]
  /\ library.shown \subseteq DOMAIN held
  /\ refreshes # <<>> =>
       /\ refreshes[Len(refreshes)].pc # "over" => library.loading
       /\ ~library.loading /\ ~library.failed =>
            Covers(library.shown, refreshes[Len(refreshes)].had)
  /\ importing.pc # "idle" => importing.project \in ProjectsOfLibrary
LibraryFits ==
  /\ RowsFit /\ refreshes \in Seq(RefreshShapes) /\ ShownFits
  /\ \A n \in DOMAIN refreshes : RefreshFits(n)

LEMMA GalleryFacts ==
  /\ Gallery \subseteq Nat /\ Times \subseteq Nat /\ Lifetime \in Nat /\ LibraryPage \in Nat
  /\ \A a \in Gallery : ByteLength[a] \in Nat \ {0} /\ Owner[a] \in ProjectsOfLibrary
BY LibraryAssumption DEF ProjectsOfLibrary

\* Rows are added and settled; their times stay.
RowsGrow ==
  /\ DOMAIN held \subseteq DOMAIN held'
  /\ \A a \in DOMAIN held : /\ held'[a].created = held[a].created
                            /\ held[a].state = "Available" => held'[a].state = "Available"

LEMMA NewerIsFinite ==
  ASSUME RowsFit, NEW a
  PROVE  IsFiniteSet(NewerThan(a)) /\ Cardinality(NewerThan(a)) \in Nat
<1>1. NewerThan(a) \subseteq DOMAIN held BY DEF NewerThan, InProject
<1> QED BY <1>1, FS_Subset, FS_CardinalityType DEF RowsFit

(***************************************************************************)
(* Rows that are added do not uncover what a list covers.                  *)
(***************************************************************************)
LEMMA CoverStays ==
  ASSUME RowsFit, RowsFit', RowsGrow, NEW shown \in SUBSET DOMAIN held,
         NEW had \in SUBSET DOMAIN held, Covers(shown, had)
  PROVE  Covers(shown, had)'
<1> SUFFICES ASSUME NEW a \in had, a \notin shown
             PROVE  /\ Cardinality(NewerThan(a)') >= LibraryPage
                    /\ \A b \in shown : Newer(b, a)'
  BY DEF Covers
<1>1. \A b \in DOMAIN held : Newer(b, a) => b \in DOMAIN held' /\ Newer(b, a)'
  BY DEF Newer, RowsGrow
<1>2. NewerThan(a) \subseteq NewerThan(a)'
  BY <1>1 DEF NewerThan, InProject
<1>3. IsFiniteSet(NewerThan(a)') /\ Cardinality(NewerThan(a)') \in Nat
  <2>1. NewerThan(a)' \subseteq DOMAIN held' BY DEF NewerThan, InProject
  <2> QED BY <2>1, FS_Subset, FS_CardinalityType DEF RowsFit
<1>4. Cardinality(NewerThan(a)) <= Cardinality(NewerThan(a)')
  BY <1>2, <1>3, FS_Subset
<1>5. Cardinality(NewerThan(a)) >= LibraryPage /\ \A b \in shown : Newer(b, a)
  BY DEF Covers
<1> QED BY <1>1, <1>3, <1>4, <1>5, NewerIsFinite, GalleryFacts

LEMMA CoverSame ==
  ASSUME UNCHANGED held, NEW shown, NEW had, Covers(shown, had)
  PROVE  Covers(shown, had)'
<1>1. \A a \in had : NewerThan(a)' = NewerThan(a)
  BY DEF NewerThan, Newer, InProject
<1>2. \A a \in had : \A b \in shown : Newer(b, a)' <=> Newer(b, a)
  BY DEF Newer
<1> QED BY <1>1, <1>2 DEF Covers

(***************************************************************************)
(* A page covers the Project: what is not on it has as many newer rows as  *)
(* a page may have, and so more than anything on the page.                 *)
(***************************************************************************)
LEMMA PageCovers ==
  ASSUME RowsFit, NEW p, NEW had \in SUBSET InProject(p)
  PROVE  Covers(FirstPage(p), had)
<1> SUFFICES ASSUME NEW a \in had, a \notin FirstPage(p)
             PROVE  /\ Cardinality(NewerThan(a)) >= LibraryPage
                    /\ \A b \in FirstPage(p) : Newer(b, a)
  BY DEF Covers
<1>1. Cardinality(NewerThan(a)) >= LibraryPage
  BY NewerIsFinite, GalleryFacts DEF FirstPage
<1>2. ASSUME NEW b \in FirstPage(p) PROVE Newer(b, a)
  <2>1. /\ a \in DOMAIN held /\ b \in DOMAIN held /\ Owner[a] = p /\ Owner[b] = p /\ a # b
        /\ Cardinality(NewerThan(b)) < LibraryPage
    BY DEF FirstPage, InProject
  <2>2. \A c \in DOMAIN held : c \in Nat /\ held[c].created \in Nat
    BY GalleryFacts DEF RowsFit
  <2>3. SUFFICES ASSUME ~Newer(b, a) PROVE FALSE
    OBVIOUS
  <2>4. Newer(a, b)
    BY <2>1, <2>2, <2>3 DEF Newer
  <2>5. \A c \in DOMAIN held : Newer(c, a) => Newer(c, b)
    BY <2>1, <2>2, <2>4 DEF Newer
  <2>6. NewerThan(a) \subseteq NewerThan(b)
    BY <2>1, <2>5 DEF NewerThan, InProject
  <2>7. Cardinality(NewerThan(a)) <= Cardinality(NewerThan(b))
    BY <2>6, NewerIsFinite, FS_Subset
  <2> QED BY <1>1, <2>1, <2>7, NewerIsFinite, GalleryFacts
<1> QED BY <1>1, <1>2

(***************************************************************************)
(* Steps on the rows, with the refreshes and the library as they are.      *)
(***************************************************************************)
LEMMA LibraryStays ==
  ASSUME LibraryFits, RowsFit', RowsGrow, UNCHANGED <<library, refreshes>>,
         importing'.pc # "idle" => importing'.project \in ProjectsOfLibrary
  PROVE  LibraryFits'
<1>1. ASSUME NEW n \in DOMAIN refreshes PROVE RefreshFits(n)'
  <2> DEFINE r == refreshes[n]
  <2>1. RefreshFits(n) /\ r \in RefreshShapes /\ r' = r BY DEF LibraryFits
  <2>2. r.had \subseteq DOMAIN held /\ r.listed \subseteq DOMAIN held
    BY <2>1 DEF RefreshFits, InProject
  <2>3. r.pc = "leasing" => Covers(r.listed, r.had)'
    BY <2>1, <2>2, CoverStays DEF RefreshFits, LibraryFits
  <2>4. \A a \in r.waiting : IsPreviewable(r.project, a)'
    BY <2>1 DEF RefreshFits, IsPreviewable, RowsGrow
  <2>5. r.had \subseteq InProject(r.project)'
    BY <2>1 DEF RefreshFits, InProject, RowsGrow
  <2>6. r.listed \subseteq DOMAIN held'
    BY <2>2 DEF RowsGrow
  <2> HIDE DEF r
  <2> QED BY <2>1, <2>3, <2>4, <2>5, <2>6 DEF RefreshFits, r
<1>2. ASSUME refreshes # <<>>, ~library.loading, ~library.failed
      PROVE  Covers(library.shown, refreshes[Len(refreshes)].had)'
  <2>1. Len(refreshes) \in DOMAIN refreshes
    BY <1>2 DEF LibraryFits
  <2>2. refreshes[Len(refreshes)].had \subseteq DOMAIN held
    BY <2>1 DEF LibraryFits, RefreshFits, InProject
  <2>3. Covers(library.shown, refreshes[Len(refreshes)].had) /\ library.shown \subseteq DOMAIN held
    BY <1>2 DEF LibraryFits, ShownFits
  <2> DEFINE shown == library.shown
             had == refreshes[Len(refreshes)].had
  <2>4. shown' = shown /\ had' = had OBVIOUS
  <2> HIDE DEF shown, had
  <2>5. Covers(shown, had)' BY <2>2, <2>3, <2>4, CoverStays DEF LibraryFits, shown, had
  <2> QED BY <2>4, <2>5 DEF shown, had
<1>3. ShownFits'
  BY <1>2 DEF LibraryFits, ShownFits, RowsGrow
<1> QED BY <1>1, <1>3 DEF LibraryFits

LEMMA NothingGrows ==
  ASSUME UNCHANGED held
  PROVE  RowsGrow
BY DEF RowsGrow

LEMMA InsertGrows ==
  ASSUME RowsFit, NEW a, InsertRow(a), UNCHANGED <<now, disk>>
  PROVE  RowsFit' /\ RowsGrow
<1>1. /\ a \in Gallery \ DOMAIN held /\ DOMAIN held' = DOMAIN held \cup {a}
      /\ held'[a] = [created |-> now, state |-> "Pending"]
      /\ \A b \in DOMAIN held : held'[b] = held[b]
  BY DEF InsertRow
<1>2. IsFiniteSet(DOMAIN held')
  BY <1>1, FS_AddElement DEF RowsFit
<1> QED BY <1>1, <1>2 DEF RowsFit, RowsGrow

LEMMA SettleGrows ==
  ASSUME RowsFit, NEW a, SettleContent(a)
  PROVE  RowsFit' /\ RowsGrow
<1>1. /\ a \in DOMAIN held /\ held[a].state = "Pending" /\ now' = now
      /\ \E s \in {"Available", "Missing"} : held' = [held EXCEPT ![a].state = s]
      /\ DOMAIN disk' = DOMAIN disk
  BY DEF SettleContent
<1>2. PICK s \in {"Available", "Missing"} : held' = [held EXCEPT ![a].state = s]
  BY <1>1
<1>3. /\ DOMAIN held' = DOMAIN held /\ held'[a] = [held[a] EXCEPT !.state = s]
      /\ \A b \in DOMAIN held \ {a} : held'[b] = held[b]
  BY <1>1, <1>2
<1>4. held[a] \in [created : Nat, state : {"Pending", "Available", "Missing"}]
  BY <1>1 DEF RowsFit
<1>5. /\ held'[a] \in [created : Nat, state : {"Pending", "Available", "Missing"}]
      /\ held'[a].created = held[a].created
  BY <1>3, <1>4
<1> QED BY <1>1, <1>3, <1>5 DEF RowsFit, RowsGrow

(***************************************************************************)
(* A refresh begins: it is the last, and the library is loading.           *)
(***************************************************************************)
LEMMA LibraryRowsStay ==
  ASSUME LibraryFits, UNCHANGED <<held, disk>>, now' \in Times
  PROVE  RowsFit' /\ RowsGrow
BY GalleryFacts, NothingGrows DEF LibraryFits, RowsFit

LEMMA BeginFits ==
  ASSUME LibraryFits, NEW p \in ProjectsOfLibrary, Begin(p), UNCHANGED <<held, disk, now>>,
         library' \in [project : ProjectsOfLibrary \cup {NoOne}, loading : {TRUE},
                       failed : BOOLEAN, shown : {library.shown}],
         importing'.pc # "idle" => importing'.project \in ProjectsOfLibrary
  PROVE  LibraryFits'
<1> DEFINE r == Refresh(p)
           m == Len(refreshes) + 1
<1>1. InProject(p) \subseteq Gallery BY DEF LibraryFits, RowsFit, InProject
<1>2. r \in RefreshShapes /\ r.had = InProject(p) /\ r.project = p /\ r.listed = {}
      /\ r.waiting = {} /\ r.pc = "listing"
  BY <1>1 DEF Refresh, RefreshShapes
<1> HIDE DEF r
<1>3. /\ refreshes' \in Seq(RefreshShapes) /\ Len(refreshes') = m /\ refreshes'[m] = r
      /\ \A n \in DOMAIN refreshes : refreshes'[n] = refreshes[n]
      /\ DOMAIN refreshes' = DOMAIN refreshes \cup {m}
  BY <1>2 DEF Begin, LibraryFits, r
<1>4. RowsFit' BY DEF LibraryFits, RowsFit
<1>5. ASSUME NEW n \in DOMAIN refreshes' PROVE RefreshFits(n)'
  <2>1. CASE n = m
    BY <1>2, <1>3, <2>1 DEF RefreshFits, InProject
  <2>2. CASE n \in DOMAIN refreshes
    <3>1. RefreshFits(n) /\ refreshes'[n] = refreshes[n] BY <1>3, <2>2 DEF LibraryFits
    <3> QED BY <3>1 DEF RefreshFits, InProject, Covers, NewerThan, Newer, IsPreviewable
  <2> QED BY <1>3, <2>1, <2>2
<1>6. ShownFits'
  <2>1. library'.loading /\ library'.shown = library.shown OBVIOUS
  <2>2. library' \in [project : ProjectsOfLibrary \cup {NoOne}, loading : BOOLEAN,
                      failed : BOOLEAN, shown : SUBSET Gallery]
    BY DEF LibraryFits, ShownFits
  <2> QED BY <2>1, <2>2 DEF LibraryFits, ShownFits
<1> QED BY <1>3, <1>4, <1>5, <1>6 DEF LibraryFits

(***************************************************************************)
(* The steps of a refresh.                                                 *)
(***************************************************************************)
LEMMA RefreshMoves ==
  ASSUME LibraryFits, NEW n \in DOMAIN refreshes, NEW r \in RefreshShapes,
         refreshes' = [refreshes EXCEPT ![n] = r], UNCHANGED <<held, disk, now, importing>>,
         r.had \subseteq InProject(r.project), r.listed \subseteq DOMAIN held,
         \A a \in r.waiting : IsPreviewable(r.project, a),
         r.pc = "leasing" => Covers(r.listed, r.had)
  PROVE  /\ refreshes' \in Seq(RefreshShapes) /\ Len(refreshes') = Len(refreshes)
         /\ refreshes'[n] = r /\ \A m \in DOMAIN refreshes : m # n => refreshes'[m] = refreshes[m]
         /\ RowsFit' /\ \A m \in DOMAIN refreshes' : RefreshFits(m)'
<1>1. /\ refreshes' \in Seq(RefreshShapes) /\ Len(refreshes') = Len(refreshes)
      /\ refreshes'[n] = r /\ DOMAIN refreshes' = DOMAIN refreshes
      /\ \A m \in DOMAIN refreshes : m # n => refreshes'[m] = refreshes[m]
  BY DEF LibraryFits
<1>2. ASSUME NEW m \in DOMAIN refreshes' PROVE RefreshFits(m)'
  <2>1. CASE m = n
    BY <1>1, <2>1 DEF RefreshFits, InProject, Covers, NewerThan, Newer, IsPreviewable
  <2>2. CASE m # n
    <3>1. RefreshFits(m) /\ refreshes'[m] = refreshes[m] BY <1>1, <2>2 DEF LibraryFits
    <3> QED BY <3>1 DEF RefreshFits, InProject, Covers, NewerThan, Newer, IsPreviewable
  <2> QED BY <2>1, <2>2
<1>3. RowsFit' BY DEF LibraryFits, RowsFit
<1> QED BY <1>1, <1>2, <1>3

\* A refresh that is not over keeps its Project and what it had, and goes on loading.
LEMMA GoesOn ==
  ASSUME LibraryFits, NEW n \in DOMAIN refreshes, NEW r \in RefreshShapes,
         refreshes' = [refreshes EXCEPT ![n] = r], UNCHANGED <<held, disk, now, importing, library>>,
         r.had \subseteq InProject(r.project), r.listed \subseteq DOMAIN held,
         \A a \in r.waiting : IsPreviewable(r.project, a),
         r.pc = "leasing" => Covers(r.listed, r.had),
         r.had = refreshes[n].had, refreshes[n].pc # "over"
  PROVE  LibraryFits'
<1>1. /\ refreshes' \in Seq(RefreshShapes) /\ Len(refreshes') = Len(refreshes)
      /\ refreshes'[n] = r /\ \A m \in DOMAIN refreshes : m # n => refreshes'[m] = refreshes[m]
      /\ RowsFit' /\ \A m \in DOMAIN refreshes' : RefreshFits(m)'
  BY RefreshMoves
<1> DEFINE last == Len(refreshes)
<1>2. refreshes # <<>> /\ refreshes' # <<>> /\ last \in DOMAIN refreshes
  BY <1>1 DEF LibraryFits
<1>3. /\ refreshes'[last].had = refreshes[last].had
      /\ refreshes'[last].pc # "over" => refreshes[last].pc # "over"
  BY <1>1, <1>2
<1>4. Len(refreshes') = last /\ ShownFits BY <1>1 DEF LibraryFits
<1> HIDE DEF last
<1>5. ASSUME ~library.loading, ~library.failed
      PROVE  Covers(library.shown, refreshes[Len(refreshes)].had)'
  <2> DEFINE shown == library.shown
             had == refreshes[Len(refreshes)].had
  <2>1. Covers(shown, had) BY <1>2, <1>4, <1>5 DEF ShownFits
  <2>2. shown' = shown /\ had' = had BY <1>3, <1>4 DEF last
  <2> HIDE DEF shown, had
  <2>3. Covers(shown, had)' BY <2>1, <2>2, CoverSame
  <2> QED BY <2>3 DEF shown, had
<1>6. /\ refreshes'[Len(refreshes')].pc # "over" => library.loading
      /\ importing.pc # "idle" => importing.project \in ProjectsOfLibrary
  BY <1>2, <1>3, <1>4 DEF ShownFits, last
<1>7. ShownFits'
  BY <1>4, <1>5, <1>6 DEF ShownFits
<1> QED BY <1>1, <1>7 DEF LibraryFits

LEMMA ReadListFits ==
  ASSUME LibraryFits, NEW n, ReadList(n)
  PROVE  LibraryFits'
<1> DEFINE s == refreshes[n]
           page == FirstPage(s.project)
           waiting == {a \in page : held[a].state = "Available"}
           r == [s EXCEPT !.pc = "leasing", !.listed = page, !.waiting = waiting]
<1>1. n \in DOMAIN refreshes /\ s \in RefreshShapes /\ s.pc = "listing" /\ RefreshFits(n)
  BY DEF ReadList, Awaits, LibraryFits
<1>2. page \subseteq DOMAIN held /\ page \subseteq Gallery /\ \A a \in page : Owner[a] = s.project
  BY DEF FirstPage, InProject, LibraryFits, RowsFit
<1>3. waiting \subseteq page /\ \A a \in waiting : IsPreviewable(s.project, a)
  BY <1>2 DEF IsPreviewable
<1>4. Covers(page, s.had)
  BY <1>1, PageCovers DEF LibraryFits, RefreshFits
<1>5. refreshes' = [refreshes EXCEPT ![n] = r]
  BY <1>1 DEF ReadList
<1> HIDE DEF waiting, page, s
<1>6. /\ r \in RefreshShapes /\ r.had = s.had /\ r.project = s.project /\ r.pc = "leasing"
      /\ r.listed = page /\ r.waiting = waiting
  BY <1>1, <1>2, <1>3 DEF RefreshShapes
<1>7. s.had \subseteq InProject(s.project) BY <1>1 DEF RefreshFits, s
<1>8. UNCHANGED <<held, disk, now, importing, library>> BY DEF ReadList
<1> HIDE DEF r
<1> QED BY <1>1, <1>2, <1>3, <1>4, <1>5, <1>6, <1>7, <1>8, GoesOn DEF s

LEMMA ReadLeaseFits ==
  ASSUME LibraryFits, NEW n, NEW a, ReadLease(n, a)
  PROVE  LibraryFits'
<1> DEFINE s == refreshes[n]
           r == [s EXCEPT !.waiting = s.waiting \ {a}]
<1>1. n \in DOMAIN refreshes /\ s \in RefreshShapes /\ s.pc = "leasing" /\ RefreshFits(n)
  BY DEF ReadLease, Awaits, LibraryFits
<1>2. refreshes' = [refreshes EXCEPT ![n] = r]
  BY <1>1 DEF ReadLease
<1>3. /\ s.had \subseteq InProject(s.project) /\ s.listed \subseteq DOMAIN held
      /\ \A b \in s.waiting : IsPreviewable(s.project, b)
      /\ Covers(s.listed, s.had)
  BY <1>1 DEF RefreshFits
<1>4. UNCHANGED <<held, disk, now, importing, library>> BY DEF ReadLease
<1> HIDE DEF s
<1>5. /\ r \in RefreshShapes /\ r.had = s.had /\ r.project = s.project /\ r.pc = s.pc
      /\ r.listed = s.listed /\ r.waiting = s.waiting \ {a}
  BY <1>1 DEF RefreshShapes
<1> HIDE DEF r
<1> QED BY <1>1, <1>2, <1>3, <1>4, <1>5, GoesOn DEF s

\* What a refresh that ends leaves; only the last is heard.
LEMMA EndsFits ==
  ASSUME LibraryFits, NEW n \in DOMAIN refreshes, refreshes[n].pc # "over", Over(n),
         UNCHANGED <<held, disk, now, importing>>, NEW failed \in BOOLEAN, NEW shown,
         shown = library.shown \/ (refreshes[n].pc = "leasing" /\ shown = refreshes[n].listed),
         ~failed => refreshes[n].pc = "leasing" /\ shown = refreshes[n].listed,
         library' = IF Latest(n) THEN [library EXCEPT !.shown = shown, !.failed = failed,
                                                      !.loading = FALSE] ELSE library
  PROVE  LibraryFits'
<1> DEFINE s == refreshes[n]
           r == [s EXCEPT !.pc = "over"]
           last == Len(refreshes)
<1>0. s \in RefreshShapes /\ RefreshFits(n)
  BY DEF LibraryFits
<1>2. refreshes' = [refreshes EXCEPT ![n] = r] BY DEF Over
<1>3. /\ s.had \subseteq InProject(s.project) /\ s.listed \subseteq DOMAIN held
      /\ \A a \in s.waiting : IsPreviewable(s.project, a)
      /\ s.pc = "leasing" => Covers(s.listed, s.had)
  BY <1>0 DEF RefreshFits
<1> HIDE DEF s
<1>1. s \in RefreshShapes /\ s.listed \subseteq Gallery
  BY <1>0 DEF RefreshShapes
<1>4. /\ r \in RefreshShapes /\ r.had = s.had /\ r.project = s.project /\ r.pc = "over"
      /\ r.listed = s.listed /\ r.waiting = s.waiting
  BY <1>1 DEF RefreshShapes
<1> HIDE DEF r
<1>5. /\ refreshes' \in Seq(RefreshShapes) /\ Len(refreshes') = last
      /\ refreshes'[n] = r /\ \A m \in DOMAIN refreshes : m # n => refreshes'[m] = refreshes[m]
      /\ RowsFit' /\ \A m \in DOMAIN refreshes' : RefreshFits(m)'
  BY <1>2, <1>3, <1>4, RefreshMoves
<1>6. last \in DOMAIN refreshes /\ refreshes # <<>> /\ refreshes' # <<>>
  BY <1>5 DEF LibraryFits
<1>7. CASE Latest(n)
  <2>1. n = last BY <1>7 DEF Latest
  <2>2. /\ library' \in [project : ProjectsOfLibrary \cup {NoOne}, loading : BOOLEAN,
                         failed : BOOLEAN, shown : SUBSET Gallery]
        /\ library'.shown = shown /\ library'.failed = failed /\ ~library'.loading
        /\ shown \subseteq DOMAIN held
    BY <1>1, <1>3, <1>7 DEF LibraryFits, ShownFits, s
  <2>3. ~failed => Covers(shown, s.had)
    BY <1>3 DEF s
  <2>4. refreshes'[Len(refreshes')] = r BY <1>5, <2>1
  <2>5. importing'.pc # "idle" => importing'.project \in ProjectsOfLibrary
    BY DEF LibraryFits, ShownFits
  <2> DEFINE sh == library.shown
             had == refreshes[Len(refreshes)].had
  <2>6. ASSUME ~failed PROVE Covers(library.shown, refreshes[Len(refreshes)].had)'
    <3> DEFINE old == s.had
    <3>1. Covers(shown, old) BY <2>3, <2>6
    <3> HIDE DEF old
    <3>2. sh' = shown /\ had' = old BY <1>4, <2>2, <2>4 DEF old
    <3> HIDE DEF sh, had
    <3>3. \A a \in old : NewerThan(a)' = NewerThan(a) BY DEF NewerThan, Newer, InProject
    <3>4. \A a \in old : \A b \in shown : Newer(b, a)' <=> Newer(b, a) BY DEF Newer
    <3>5. Covers(sh, had)' BY <3>1, <3>2, <3>3, <3>4 DEF Covers
    <3> QED BY <3>5 DEF sh, had
  <2>7. /\ library'.shown \subseteq DOMAIN held'
        /\ refreshes'[Len(refreshes')].pc = "over"
    BY <1>4, <2>2, <2>4
  <2>8. ShownFits' BY <2>2, <2>5, <2>6, <2>7 DEF ShownFits
  <2> QED BY <1>5, <2>8 DEF LibraryFits
<1>8. CASE ~Latest(n)
  <2>1. /\ refreshes'[Len(refreshes')] = refreshes[last] /\ library' = library /\ ShownFits
    BY <1>5, <1>6, <1>8 DEF Latest, LibraryFits
  <2> HIDE DEF last
  <2>2. ~library.loading /\ ~library.failed => Covers(library.shown, refreshes[last].had)'
    BY <1>6, <2>1, <1>5 DEF ShownFits, Covers, NewerThan, Newer, InProject, last
  <2>3. ShownFits' BY <1>6, <2>1, <2>2 DEF ShownFits, last
  <2> QED BY <1>5, <2>3 DEF LibraryFits
<1> QED BY <1>7, <1>8

LEMMA RefreshStepFits ==
  ASSUME LibraryFits, NEW n, RefreshStep(n)
  PROVE  LibraryFits'
<1>1. CASE ReadList(n) BY <1>1, ReadListFits
<1>2. CASE \E a \in Gallery : ReadLease(n, a) BY <1>2, ReadLeaseFits
<1> DEFINE lib == library
<1>3. lib = [project |-> lib.project, loading |-> lib.loading, failed |-> lib.failed,
             shown |-> lib.shown]
  BY DEF LibraryFits, ShownFits
<1>4. CASE Publish(n)
  <2>1. /\ n \in DOMAIN refreshes /\ refreshes[n].pc = "leasing" /\ Over(n)
        /\ UNCHANGED <<held, disk, now, importing>>
        /\ library' = IF Latest(n) THEN [library EXCEPT !.shown = refreshes[n].listed,
                                           !.failed = FALSE, !.loading = FALSE] ELSE library
    BY <1>4 DEF Publish, Awaits
  <2> QED BY <2>1, EndsFits
<1>5. CASE ListFails(n)
  <2>1. /\ n \in DOMAIN refreshes /\ refreshes[n].pc = "listing" /\ Over(n)
        /\ UNCHANGED <<held, disk, now, importing>>
        /\ library' = IF Latest(n) THEN [library EXCEPT !.failed = TRUE, !.loading = FALSE]
                      ELSE library
    BY <1>5 DEF ListFails, Awaits
  <2>2. [library EXCEPT !.failed = TRUE, !.loading = FALSE]
          = [library EXCEPT !.shown = library.shown, !.failed = TRUE, !.loading = FALSE]
    BY <1>3
  <2>3. library' = IF Latest(n) THEN [library EXCEPT !.shown = library.shown, !.failed = TRUE,
                                                      !.loading = FALSE] ELSE library
    BY <2>1, <2>2
  <2> QED BY <2>1, <2>3, EndsFits
<1> QED BY <1>1, <1>2, <1>4, <1>5 DEF RefreshStep

LEMMA LibraryNextFits ==
  ASSUME LibraryFits, [LibraryNext]_libraryVars
  PROVE  LibraryFits'
<1> USE DEF LibraryFits, ShownFits
<1>1. ASSUME NEW a \in Gallery, RecordOutput(a) \/ SettleContent(a) \/ DamageFile(a) \/ ImportInserts(a)
      PROVE  LibraryFits'
  <2>1. CASE RecordOutput(a)
    BY <2>1, InsertGrows, LibraryStays DEF RecordOutput
  <2>2. CASE SettleContent(a)
    <3>1. UNCHANGED <<library, refreshes, importing>> BY <2>2 DEF SettleContent
    <3> QED BY <2>2, <3>1, SettleGrows, LibraryStays
  <2>3. CASE DamageFile(a)
    <3>1. RowsFit' /\ RowsGrow BY <2>3, NothingGrows DEF DamageFile, RowsFit
    <3> QED BY <2>3, <3>1, LibraryStays DEF DamageFile
  <2>4. CASE ImportInserts(a)
    <3>1. Owner[a] \in ProjectsOfLibrary BY GalleryFacts
    <3>2. importing'.project \in ProjectsOfLibrary
      BY <2>4, <3>1 DEF ImportInserts
    <3> QED BY <2>4, <3>2, InsertGrows, LibraryStays DEF ImportInserts
  <2> QED BY <1>1, <2>1, <2>2, <2>3, <2>4
<1>2. CASE ClockMoves BY <1>2, LibraryRowsStay, LibraryStays DEF ClockMoves
<1>3. ASSUME NEW p \in ProjectsOfLibrary, ShowProject(p) PROVE LibraryFits'
  BY <1>3, BeginFits DEF ShowProject
<1>4. CASE RunSucceeds
  <2>1. library.project \in ProjectsOfLibrary BY <1>4 DEF RunSucceeds
  <2> QED BY <1>4, <2>1, BeginFits DEF RunSucceeds
<1>5. ASSUME NEW n \in 1 .. MaxRefreshes, RefreshStep(n) PROVE LibraryFits'
  BY <1>5, RefreshStepFits
<1>6. CASE StartImport
  <2>1. importing'.project \in ProjectsOfLibrary /\ RowsFit' /\ RowsGrow
    BY <1>6, NothingGrows DEF StartImport, RowsFit
  <2> QED BY <1>6, <2>1, LibraryStays DEF StartImport
<1>7. CASE ImportReturns
  <2>1. importing.project \in ProjectsOfLibrary /\ importing'.pc = "idle"
    BY <1>7 DEF ImportReturns, NoImport
  <2> QED BY <1>7, <2>1, BeginFits DEF ImportReturns
<1>8. CASE ImportEnds
  <2>1. importing'.pc = "idle" /\ RowsFit' /\ RowsGrow
    BY <1>8, NothingGrows DEF ImportEnds, NoImport, RowsFit
  <2> QED BY <1>8, <2>1, LibraryStays DEF ImportEnds
<1>9. CASE UNCHANGED <<now, held, disk, library, refreshes, signed, importing>>
  <2>1. RowsFit' /\ RowsGrow BY <1>9, NothingGrows DEF RowsFit
  <2> QED BY <1>9, <2>1, LibraryStays
<1>10. ASSUME NEW lease \in signed, NEW method \in Methods, NEW range \in Ranges,
              Ask(lease, method, range)
       PROVE  LibraryFits'
  BY <1>9, <1>10 DEF Ask
<1>11. CASE FetchStep
  BY <1>9, <1>11 DEF FetchStep, ResolveAsset, VerifyFile, OpenFile, ReadBytes, FetchFails
<1> QED
  BY <1>1, <1>2, <1>3, <1>4, <1>5, <1>6, <1>7, <1>8, <1>9, <1>10, <1>11 DEF LibraryNext, libraryVars

LEMMA InitFits == LibraryInit => LibraryFits
<1> SUFFICES ASSUME LibraryInit PROVE LibraryFits
  OBVIOUS
<1>1. DOMAIN held = {} /\ refreshes = <<>> /\ importing.pc = "idle" /\ now \in Nat
      /\ DOMAIN disk = Gallery
  BY GalleryFacts DEF LibraryInit, NoImport
<1>2. library \in [project : ProjectsOfLibrary \cup {NoOne}, loading : BOOLEAN,
                   failed : BOOLEAN, shown : SUBSET Gallery] /\ library.shown = {}
  BY DEF LibraryInit
<1>3. RowsFit BY <1>1, FS_EmptySet DEF RowsFit
<1> QED BY <1>1, <1>2, <1>3 DEF LibraryFits, ShownFits

\* For every number of Assets, Projects, refreshes and rows of a page, and whichever
\* answers come late or fail: what is shown, once nothing is loading, is no older than
\* the last refresh (useAssets.ts:34).
THEOREM LibraryIsFresh == LibrarySpec => []FreshLibrary
<1>1. LibraryInit => LibraryFits
  BY InitFits
<1>2. LibraryFits /\ [LibraryNext]_libraryVars => LibraryFits'
  BY LibraryNextFits
<1>3. LibraryFits => FreshLibrary
  BY DEF LibraryFits, ShownFits, FreshLibrary, Covers
<1> QED BY <1>1, <1>2, <1>3, PTL DEF LibrarySpec

(***************************************************************************)
(* The requests for a preview: a lease is of an Asset that is Available    *)
(* and stays so, and a request remembers what has let it go on.            *)
(***************************************************************************)
RequestFits ==
  LET f == fetch
  IN /\ f = [lease |-> f.lease, method |-> f.method, range |-> f.range, asked |-> f.asked,
             found |-> f.found, pc |-> f.pc, status |-> f.status, part |-> f.part]
     /\ f.lease \in signed /\ f.range \in Ranges /\ f.asked \in Nat
     /\ f.pc \in {"resolve", "verify", "open", "read", "done"}
     /\ disk[f.lease.asset] \in f.found
     /\ f.pc # "done" => /\ f.lease.issued <= f.asked /\ f.asked < Expiry(f.lease)
                         /\ f.method # "other"
     /\ f.pc \in {"open", "read"} => "whole" \in f.found
     /\ PreviewAnswers
LeasesFit ==
  \A lease \in signed : IsPreviewable(lease.project, lease.asset) /\ lease.issued \in Nat
PreviewFits == LibraryFits /\ LeasesFit /\ (fetch = NoFetch \/ RequestFits)

LEMMA NextGrows ==
  ASSUME LibraryFits, [LibraryNext]_libraryVars
  PROVE  RowsGrow
<1> USE DEF LibraryFits
<1>1. CASE UNCHANGED held BY <1>1, NothingGrows
<1>2. ASSUME NEW a \in Gallery, RecordOutput(a) \/ ImportInserts(a) PROVE RowsGrow
  BY <1>2, InsertGrows DEF RecordOutput, ImportInserts
<1>3. ASSUME NEW a \in Gallery, SettleContent(a) PROVE RowsGrow
  BY <1>3, SettleGrows
<1>4. ASSUME NEW n, RefreshStep(n) PROVE UNCHANGED held
  BY <1>4 DEF RefreshStep, ReadList, ReadLease, ListFails, Publish
<1>5. CASE FetchStep
  BY <1>1, <1>5 DEF FetchStep, ResolveAsset, VerifyFile, OpenFile, ReadBytes, FetchFails
<1> QED
  BY <1>1, <1>2, <1>3, <1>4, <1>5
     DEF LibraryNext, libraryVars, DamageFile, ClockMoves, RunSucceeds, ShowProject, StartImport,
         ImportReturns, ImportEnds, Ask

LEMMA LeaseStays ==
  ASSUME LeasesFit, RowsGrow, NEW lease \in signed
  PROVE  IsPreviewable(lease.project, lease.asset)'
BY DEF LeasesFit, RowsGrow, IsPreviewable

LEMMA LeasesStay ==
  ASSUME LibraryFits, LeasesFit, [LibraryNext]_libraryVars
  PROVE  LeasesFit' /\ signed \subseteq signed'
<1>1. RowsGrow BY NextGrows
<1>2. CASE UNCHANGED signed BY <1>1, <1>2, LeaseStays DEF LeasesFit
<1>3. ASSUME NEW n, NEW a \in Gallery, ReadLease(n, a) PROVE LeasesFit' /\ signed \subseteq signed'
  <2> DEFINE p == refreshes[n].project
             lease == Lease(p, a)
  <2>1. n \in DOMAIN refreshes /\ a \in refreshes[n].waiting /\ held' = held
        /\ (signed' = signed \/ signed' = signed \cup {lease})
    BY <1>3 DEF ReadLease, Awaits
  <2>2. IsPreviewable(p, a) /\ now \in Nat
    BY <2>1 DEF LibraryFits, RefreshFits, RowsFit
  <2> HIDE DEF p
  <2>3. lease.project = p /\ lease.asset = a /\ lease.issued = now
    BY DEF Lease
  <2>4. a \in DOMAIN held' /\ Owner[a] = p /\ held'[a].state = "Available"
    BY <2>1, <2>2 DEF IsPreviewable
  <2> HIDE DEF lease
  <2>5. ASSUME NEW l \in signed' PROVE IsPreviewable(l.project, l.asset)' /\ l.issued \in Nat
    <3>1. CASE l \in signed BY <1>1, <3>1, LeaseStays DEF LeasesFit
    <3>2. CASE l = lease
      BY <2>2, <2>3, <2>4, <3>2 DEF IsPreviewable
    <3> QED BY <2>1, <3>1, <3>2
  <2> QED BY <2>1, <2>5 DEF LeasesFit
<1>4. ASSUME NEW n, ReadList(n) \/ ListFails(n) \/ Publish(n) PROVE UNCHANGED signed
  BY <1>4 DEF ReadList, ListFails, Publish
<1>5. CASE FetchStep
  BY <1>2, <1>5 DEF FetchStep, ResolveAsset, VerifyFile, OpenFile, ReadBytes, FetchFails
<1> QED
  BY <1>2, <1>3, <1>4, <1>5
     DEF LibraryNext, libraryVars, RecordOutput, SettleContent, DamageFile, ImportInserts,
         ClockMoves, RunSucceeds, ShowProject, RefreshStep, StartImport, ImportReturns, ImportEnds,
         Ask

(***************************************************************************)
(* The part that is sent has just the bytes the header asks for.           *)
(***************************************************************************)
LEMMA PartIsWanted ==
  ASSUME NEW a \in Gallery, NEW r \in Ranges, NEW part \in Parts(a, r)
  PROVE  /\ part[1] .. part[2] = Wanted(r, ByteLength[a])
         /\ part[1] .. part[2] # {}
<1> DEFINE length == ByteLength[a]
           Sent == part[1] .. part[2]
<1>1. length \in Nat \ {0} BY GalleryFacts
<1> HIDE DEF length
<1>2. CASE r.form = "none"
  <2>1. part = <<0, length - 1>> BY <1>2 DEF Parts, length
  <2> QED BY <1>1, <1>2, <2>1 DEF Wanted, length
<1>3. CASE r.form # "none"
  <2>1. part \in ParseRange(r, length) BY <1>3 DEF Parts, length
  <2>2. CASE r.form = "suffix"
    <3>1. r.count \in Nat BY <2>2, LibraryAssumption
    <3>2. r.count > 0 /\ part = <<IF r.count < length THEN length - r.count ELSE 0, length - 1>>
      BY <2>1, <2>2 DEF ParseRange
    <3>3. Wanted(r, length) = {i \in 0 .. length - 1 : i + r.count >= length}
      BY <2>2 DEF Wanted
    <3> QED BY <1>1, <3>1, <3>2, <3>3 DEF length
  <2>3. CASE r.form = "from"
    <3>1. r.first \in Nat BY <2>3, LibraryAssumption
    <3>2. r.first < length /\ part = <<r.first, length - 1>>
      BY <2>1, <2>3 DEF ParseRange
    <3>3. Wanted(r, length) = {i \in 0 .. length - 1 : i >= r.first}
      BY <2>3 DEF Wanted
    <3> QED BY <1>1, <3>1, <3>2, <3>3 DEF length
  <2>4. CASE r.form = "between"
    <3>1. r.first \in Nat /\ r.last \in Nat BY <2>4, LibraryAssumption
    <3>2. r.first <= r.last /\ r.last < length /\ part = <<r.first, r.last>>
      BY <2>1, <2>4 DEF ParseRange
    <3>3. Wanted(r, length) = {i \in 0 .. length - 1 : r.first <= i /\ i <= r.last}
      BY <2>4 DEF Wanted
    <3> QED BY <1>1, <3>1, <3>2, <3>3 DEF length
  <2>5. r.form \in {"suffix", "from", "between"}
    BY <2>1 DEF ParseRange
  <2> QED BY <2>2, <2>3, <2>4, <2>5
<1> QED BY <1>2, <1>3

(***************************************************************************)
(* Its steps.                                                              *)
(***************************************************************************)
LEMMA AskFits ==
  ASSUME LeasesFit, NEW method, NEW range \in Ranges, NEW lease \in signed, now \in Nat,
         Ask(lease, method, range)
  PROVE  RequestFits'
<1> DEFINE status == Decoded(lease, method)
           f == [lease |-> lease, method |-> method, range |-> range, asked |-> now,
                 found |-> {disk[lease.asset]}, pc |-> IF status = 0 THEN "resolve" ELSE "done",
                 status |-> status, part |-> <<0, 0>>]
<1>1. fetch' = f /\ disk' = disk /\ signed' = signed
  BY DEF Ask
<1>2. lease.issued \in Nat /\ Expiry(lease) = lease.issued + Lifetime /\ Lifetime \in Nat
  BY GalleryFacts DEF LeasesFit, Expiry
<1>3. /\ status \in {0, 404, 405, 410}
      /\ status = 0 => method # "other" /\ lease.issued <= now /\ now < Expiry(lease)
      /\ status = 404 => now < lease.issued
      /\ status = 410 => now >= Expiry(lease)
  BY <1>2 DEF Decoded
<1> HIDE DEF status
<1>4. /\ f.lease = lease /\ f.method = method /\ f.range = range /\ f.asked = now
      /\ f.found = {disk[lease.asset]} /\ f.status = status
      /\ f.pc = IF status = 0 THEN "resolve" ELSE "done"
      /\ f = [lease |-> f.lease, method |-> f.method, range |-> f.range, asked |-> f.asked,
              found |-> f.found, pc |-> f.pc, status |-> f.status, part |-> f.part]
  OBVIOUS
<1> HIDE DEF f
<1>5. PreviewAnswers'
  BY <1>1, <1>3, <1>4 DEF PreviewAnswers, Expiry
<1> QED BY <1>1, <1>3, <1>4, <1>5 DEF RequestFits, Expiry

LEMMA AnswerFits ==
  ASSUME RequestFits, NEW status, NEW part, Answer(status, part), UNCHANGED <<disk, signed>>,
         status \in {200, 206} =>
           /\ fetch.lease.issued <= fetch.asked /\ fetch.asked < Expiry(fetch.lease)
           /\ fetch.method # "other" /\ "whole" \in fetch.found
           /\ part[1] .. part[2] = Wanted(fetch.range, ByteLength[fetch.lease.asset])
           /\ part[1] .. part[2] # {},
         status = 404 => \E d \in fetch.found : d # "whole",
         status # 410
  PROVE  RequestFits'
<1> DEFINE f == fetch
           g == [f EXCEPT !.pc = "done", !.status = status, !.part = part]
<1>1. fetch' = g BY DEF Answer
<1>2. /\ f = [lease |-> f.lease, method |-> f.method, range |-> f.range, asked |-> f.asked,
             found |-> f.found, pc |-> f.pc, status |-> f.status, part |-> f.part]
      /\ f.lease \in signed /\ f.range \in Ranges /\ f.asked \in Nat
      /\ disk[f.lease.asset] \in f.found
  BY DEF RequestFits
<1>3. /\ status \in {200, 206} =>
           /\ f.lease.issued <= f.asked /\ f.asked < Expiry(f.lease)
           /\ f.method # "other" /\ "whole" \in f.found
           /\ part[1] .. part[2] = Wanted(f.range, ByteLength[f.lease.asset])
           /\ part[1] .. part[2] # {}
      /\ status = 404 => \E d \in f.found : d # "whole"
  OBVIOUS
<1> HIDE DEF f
<1> DEFINE h == [lease |-> f.lease, method |-> f.method, range |-> f.range, asked |-> f.asked,
                 found |-> f.found, pc |-> "done", status |-> status, part |-> part]
<1>6. g = h
  <2>1. DOMAIN f = {"lease", "method", "range", "asked", "found", "pc", "status", "part"}
    BY <1>2
  <2>2. /\ DOMAIN g = DOMAIN f /\ g.lease = f.lease /\ g.method = f.method /\ g.range = f.range
        /\ g.asked = f.asked /\ g.found = f.found
    BY <2>1
  <2>3. g.pc = "done" /\ g.status = status /\ g.part = part
    BY <2>1
  <2>4. g = [x \in DOMAIN f |-> g[x]] /\ h = [x \in DOMAIN f |-> h[x]] BY <2>1
  <2>6. /\ h.lease = f.lease /\ h.method = f.method /\ h.range = f.range /\ h.asked = f.asked
        /\ h.found = f.found /\ h.pc = "done" /\ h.status = status /\ h.part = part
    OBVIOUS
  <2> HIDE DEF g, h
  <2>5. \A x \in DOMAIN f : g[x] = h[x] BY <2>1, <2>2, <2>3, <2>6
  <2> QED BY <2>4, <2>5
<1>4. /\ g.lease = f.lease /\ g.method = f.method /\ g.range = f.range /\ g.asked = f.asked
      /\ g.found = f.found /\ g.pc = "done" /\ g.status = status /\ g.part = part
      /\ g = [lease |-> g.lease, method |-> g.method, range |-> g.range, asked |-> g.asked,
              found |-> g.found, pc |-> g.pc, status |-> g.status, part |-> g.part]
  <2> HIDE DEF g
  <2> QED BY <1>6
<1> HIDE DEF g, h
<1>5. PreviewAnswers'
  BY <1>1, <1>3, <1>4 DEF PreviewAnswers, Expiry
<1> QED BY <1>1, <1>2, <1>4, <1>5 DEF RequestFits

LEMMA ProceedFits ==
  ASSUME RequestFits, NEW pc \in {"verify", "open", "read"}, fetch.pc # "done",
         fetch' = [fetch EXCEPT !.pc = pc], UNCHANGED <<disk, signed>>,
         pc \in {"open", "read"} => "whole" \in fetch.found
  PROVE  RequestFits'
<1> DEFINE f == fetch
           g == [f EXCEPT !.pc = pc]
<1>1. fetch' = g OBVIOUS
<1>2. /\ f = [lease |-> f.lease, method |-> f.method, range |-> f.range, asked |-> f.asked,
             found |-> f.found, pc |-> f.pc, status |-> f.status, part |-> f.part]
      /\ f.lease \in signed /\ f.range \in Ranges /\ f.asked \in Nat
      /\ disk[f.lease.asset] \in f.found
      /\ f.lease.issued <= f.asked /\ f.asked < Expiry(f.lease) /\ f.method # "other"
      /\ pc \in {"open", "read"} => "whole" \in f.found
  BY DEF RequestFits
<1> HIDE DEF f
<1>3. /\ g.lease = f.lease /\ g.method = f.method /\ g.range = f.range /\ g.asked = f.asked
      /\ g.found = f.found /\ g.pc = pc
      /\ g = [lease |-> g.lease, method |-> g.method, range |-> g.range, asked |-> g.asked,
              found |-> g.found, pc |-> g.pc, status |-> g.status, part |-> g.part]
  BY <1>2
<1> HIDE DEF g
<1>4. PreviewAnswers' BY <1>1, <1>3 DEF PreviewAnswers
<1> QED BY <1>1, <1>2, <1>3, <1>4 DEF RequestFits, Expiry

LEMMA DamageFits ==
  ASSUME RequestFits, NEW a, DamageFile(a), DOMAIN disk = Gallery, fetch.lease.asset \in Gallery
  PROVE  RequestFits'
<1> DEFINE f == fetch
<1>0. /\ f = [lease |-> f.lease, method |-> f.method, range |-> f.range, asked |-> f.asked,
             found |-> f.found, pc |-> f.pc, status |-> f.status, part |-> f.part]
      /\ RequestFits /\ f.pc # "none"
  BY DEF RequestFits
<1>1. PICK d \in {"altered", "cut", "gone"} :
         /\ disk' = [disk EXCEPT ![a] = d]
         /\ fetch' = IF f.pc # "none" /\ f.lease.asset = a
                     THEN [f EXCEPT !.found = f.found \cup {d}] ELSE f
         /\ signed' = signed
  BY DEF DamageFile
<1>2. CASE f.lease.asset = a
  <2> DEFINE g == [f EXCEPT !.found = f.found \cup {d}]
  <2>1. fetch' = g /\ disk'[a] = d BY <1>0, <1>1, <1>2
  <2> HIDE DEF f
  <2>2. /\ g.lease = f.lease /\ g.method = f.method /\ g.range = f.range /\ g.asked = f.asked
        /\ g.found = f.found \cup {d} /\ g.pc = f.pc /\ g.status = f.status /\ g.part = f.part
        /\ g = [lease |-> g.lease, method |-> g.method, range |-> g.range, asked |-> g.asked,
                found |-> g.found, pc |-> g.pc, status |-> g.status, part |-> g.part]
    BY <1>0
  <2> HIDE DEF g
  <2>3. PreviewAnswers'
    BY <1>0, <2>1, <2>2 DEF RequestFits, PreviewAnswers, f
  <2>4. /\ f.lease \in signed /\ f.range \in Ranges /\ f.asked \in Nat
        /\ f.pc \in {"resolve", "verify", "open", "read", "done"}
        /\ f.pc # "done" => /\ f.lease.issued <= f.asked /\ f.asked < Expiry(f.lease)
                            /\ f.method # "other"
        /\ f.pc \in {"open", "read"} => "whole" \in f.found
    BY <1>0 DEF RequestFits, f
  <2> QED BY <1>1, <1>2, <2>1, <2>2, <2>3, <2>4 DEF RequestFits, Expiry
<1>3. CASE f.lease.asset # a
  <2>1. fetch' = fetch /\ disk'[f.lease.asset] = disk[f.lease.asset] /\ signed' = signed
    BY <1>1, <1>3
  <2> QED BY <1>0, <2>1 DEF RequestFits, PreviewAnswers
<1> QED BY <1>2, <1>3

LEMMA FetchStepFits ==
  ASSUME LibraryFits, LeasesFit, RequestFits, FetchStep
  PROVE  RequestFits'
<1> DEFINE a == fetch.lease.asset
<1>1. /\ IsPreviewable(fetch.lease.project, a) /\ a \in Gallery /\ fetch.range \in Ranges
      /\ disk[a] \in fetch.found /\ fetch.pc \in {"resolve", "verify", "open", "read", "done"}
      /\ fetch.pc # "done" => /\ fetch.lease.issued <= fetch.asked
                              /\ fetch.asked < Expiry(fetch.lease) /\ fetch.method # "other"
      /\ fetch.pc \in {"open", "read"} => "whole" \in fetch.found
  BY DEF LeasesFit, RequestFits, IsPreviewable, LibraryFits, RowsFit
<1>2. UNCHANGED <<disk, signed>>
  BY DEF FetchStep, ResolveAsset, VerifyFile, OpenFile, ReadBytes, FetchFails
<1>3. CASE FetchFails
  BY <1>2, <1>3, AnswerFits DEF FetchFails, RefuseFetch
<1>4. CASE ResolveAsset
  <2>1. fetch' = [fetch EXCEPT !.pc = "verify"] /\ fetch.pc = "resolve"
    BY <1>1, <1>4 DEF ResolveAsset, IsPreviewable
  <2> QED BY <1>2, <2>1, ProceedFits
<1>5. CASE VerifyFile
  <2>1. CASE disk[a] = "whole"
    <3>1. fetch' = [fetch EXCEPT !.pc = "open"] /\ fetch.pc = "verify" /\ "whole" \in fetch.found
      BY <1>1, <1>5, <2>1 DEF VerifyFile
    <3> QED BY <1>2, <3>1, ProceedFits
  <2>2. CASE disk[a] # "whole"
    <3>1. Answer(404, <<0, 0>>) /\ \E d \in fetch.found : d # "whole"
      BY <1>1, <1>5, <2>2 DEF VerifyFile, RefuseFetch
    <3> QED BY <1>2, <3>1, AnswerFits
  <2> QED BY <2>1, <2>2
<1>6. CASE OpenFile
  <2>1. CASE disk[a] = "gone"
    <3>1. Answer(500, <<0, 0>>) BY <1>6, <2>1 DEF OpenFile, RefuseFetch
    <3> QED BY <1>2, <3>1, AnswerFits
  <2>2. CASE disk[a] # "gone"
    <3>1. fetch' = [fetch EXCEPT !.pc = "read"] /\ fetch.pc = "open"
      BY <1>6, <2>2 DEF OpenFile
    <3> QED BY <1>1, <1>2, <3>1, ProceedFits
  <2> QED BY <2>1, <2>2
<1>7. CASE ReadBytes
  <2>1. CASE \E status \in {416, 500} : Answer(status, <<0, 0>>)
    BY <1>2, <2>1, AnswerFits
  <2>2. CASE \E part \in Parts(a, fetch.range), status \in {200, 206} : Answer(status, part)
    <3>1. PICK part \in Parts(a, fetch.range), status \in {200, 206} : Answer(status, part)
      BY <2>2
    <3>2. /\ part[1] .. part[2] = Wanted(fetch.range, ByteLength[a])
          /\ part[1] .. part[2] # {}
      BY <1>1, PartIsWanted
    <3>3. fetch.pc = "read" BY <1>7 DEF ReadBytes
    <3> QED BY <1>1, <1>2, <3>1, <3>2, <3>3, AnswerFits
  <2> QED BY <1>7, <2>1, <2>2 DEF ReadBytes, RefuseFetch
<1> QED BY <1>3, <1>4, <1>5, <1>6, <1>7 DEF FetchStep

\* Nothing else changes the request, or the file of an Asset that is Available.
LEMMA RequestStays ==
  ASSUME RequestFits, UNCHANGED fetch, disk'[fetch.lease.asset] = disk[fetch.lease.asset],
         signed \subseteq signed'
  PROVE  RequestFits'
<1> DEFINE f == fetch
<1>1. f' = f /\ disk'[f.lease.asset] = disk[f.lease.asset] OBVIOUS
<1>2. PreviewAnswers' BY DEF RequestFits, PreviewAnswers
<1> QED BY <1>1, <1>2 DEF RequestFits

LEMMA RequestNextFits ==
  ASSUME PreviewFits, [LibraryNext]_libraryVars
  PROVE  fetch' = NoFetch \/ RequestFits'
<1>1. LibraryFits /\ LeasesFit /\ signed \subseteq signed' BY LeasesStay DEF PreviewFits
<1>2. ASSUME NEW lease \in signed, NEW method \in Methods, NEW range \in Ranges,
             Ask(lease, method, range)
      PROVE  RequestFits'
  BY <1>1, <1>2, AskFits DEF LibraryFits, RowsFit
<1>3. CASE fetch = NoFetch
  <2>1. CASE FetchStep
    BY <1>3, <2>1 DEF FetchStep, ResolveAsset, VerifyFile, OpenFile, ReadBytes, FetchFails, NoFetch
  <2>2. ASSUME NEW a, DamageFile(a) PROVE fetch' = fetch
    BY <1>3, <2>2 DEF DamageFile, NoFetch
  <2>3. ASSUME NEW n, RefreshStep(n) PROVE fetch' = fetch
    BY <2>3 DEF RefreshStep, ReadList, ReadLease, ListFails, Publish
  <2> QED
    BY <1>2, <1>3, <2>1, <2>2, <2>3
       DEF LibraryNext, libraryVars, RecordOutput, SettleContent, ImportInserts, ClockMoves,
           RunSucceeds, ShowProject, StartImport, ImportReturns, ImportEnds
<1>4. CASE RequestFits
  <2> DEFINE b == fetch.lease.asset
  <2>1. b \in DOMAIN held /\ held[b].state = "Available" /\ b \in Gallery /\ DOMAIN disk = Gallery
    BY <1>1, <1>4 DEF RequestFits, LeasesFit, IsPreviewable, LibraryFits, RowsFit
  <2>2. CASE FetchStep BY <1>1, <1>4, <2>2, FetchStepFits
  <2>3. ASSUME NEW a, DamageFile(a) PROVE RequestFits'
    BY <1>4, <2>1, <2>3, DamageFits
  <2>4. ASSUME NEW a, SettleContent(a) PROVE fetch' = fetch /\ disk'[b] = disk[b]
    BY <2>1, <2>4 DEF SettleContent
  <2>5. ASSUME NEW n, RefreshStep(n) PROVE UNCHANGED <<fetch, disk>>
    BY <2>5 DEF RefreshStep, ReadList, ReadLease, ListFails, Publish
  <2> QED
    BY <1>1, <1>2, <1>4, <2>2, <2>3, <2>4, <2>5, RequestStays
       DEF LibraryNext, libraryVars, RecordOutput, ImportInserts, ClockMoves, RunSucceeds,
           ShowProject, StartImport, ImportReturns, ImportEnds
<1> QED BY <1>3, <1>4 DEF PreviewFits

\* For every clock, lifetime, length and header, and whatever becomes of the file: what a
\* request for a preview is told is true, and the bytes it is sent are those it asked for
\* (handler.rs:87).
THEOREM PreviewsAnswer == LibrarySpec => []PreviewAnswers
<1>1. LibraryInit => PreviewFits
  <2>1. LibraryInit => LibraryFits BY InitFits
  <2> QED BY <2>1 DEF LibraryInit, PreviewFits, LeasesFit
<1>2. PreviewFits /\ [LibraryNext]_libraryVars => PreviewFits'
  BY LibraryNextFits, LeasesStay, RequestNextFits DEF PreviewFits
<1>3. PreviewFits => PreviewAnswers
  BY DEF PreviewFits, RequestFits, PreviewAnswers, NoFetch
<1> QED BY <1>1, <1>2, <1>3, PTL DEF LibrarySpec
=============================================================================
