--------------------------- MODULE MCAssetContent ---------------------------
(* An import and two attempts at one node output; the library of two       *)
(* Projects; for TLC.  A behaviour is of one of the two modules.           *)
EXTENDS AssetContent, AssetLibrary

\* Two attempts at one output, the second with the same or with other bytes.
Attempts == {[r \in {"first", "second"} |-> "bytes"],
             [r \in {"first", "second"} |-> IF r = "first" THEN "bytes" ELSE "otherBytes"]}

\* An import and a node output with the same bytes.
Shared == {[r \in {"import", "first"} |-> "bytes"]}

\* One request at a time, while reconciliation runs.
Singles == {[r \in {"import"} |-> "bytes"], [r \in {"first"} |-> "bytes"]}

AllProductions == Attempts \cup Shared \cup Singles

\* The pair that shares its bytes is independent in everything else: it is the
\* largest, and goes without a crash or a lost file.
OneIncident == [p \in AllProductions |-> IF p \in Shared THEN 0 ELSE 1]

----------------------------------------------------------------------------
\* The library: two Projects with three Assets.
MCOwner == [a \in Gallery |-> IF a < 3 THEN "p" ELSE "q"]
MCMediaKind == [a \in Gallery |-> <<"image", "video", "audio">>[a]]
MCByteLength == [a \in Gallery |-> <<2, 3, 1>>[a]]
\* None, malformed, and bounds on both sides of the length of the video.
MCRanges ==
  [form : {"none", "malformed"}] \cup [form : {"suffix"}, count : {0, 2, 4}]
    \cup [form : {"from"}, first : {1, 3}]
    \cup {[form |-> "between", first |-> 0, last |-> 2], [form |-> "between", first |-> 1, last |-> 3],
          [form |-> "between", first |-> 2, last |-> 1]}

VARIABLE story \* what the behaviour is of
assetVars == <<vars, libraryVars, story>>

MCInit ==
  /\ story \in {"content", "refreshes", "requests"} /\ Init /\ LibraryInit
  /\ IF story = "content" THEN now = 0 ELSE content = [r \in {"first"} |-> "bytes"]

\* Refreshes overlap; a row whose content is missing is to them like a Pending one, and
\* leases matter to requests only.
Overlapping ==
  /\ LibraryNext
  /\ UNCHANGED <<signed, fetch>>
  /\ \A a \in DOMAIN held' : held'[a].state # "Missing" /\ disk'[a] \in {"none", "whole"}
\* Requests, for the image or the video that one refresh has listed.
Requesting ==
  /\ LibraryNext
  /\ DOMAIN held' \in {{}, {1}, {2}} /\ Len(refreshes') <= 1

MCNext ==
  /\ UNCHANGED story
  /\ \/ story = "content" /\ Next /\ UNCHANGED libraryVars
     \/ story = "refreshes" /\ Overlapping /\ UNCHANGED vars
     \/ story = "requests" /\ Requesting /\ UNCHANGED vars
MCSpec == MCInit /\ [][MCNext]_assetVars /\ WF_vars(Startup) /\ WF_vars(WorkerStep)
=============================================================================
