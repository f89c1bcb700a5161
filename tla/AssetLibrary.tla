---------------------------- MODULE AssetLibrary ----------------------------
(***************************************************************************)
(* How the window comes to show the Assets of a Project: its refreshes     *)
(* (useAssets.ts), each a list of the newest Assets followed by one        *)
(* preview lease per Asset, an import that ends with a refresh of its own, *)
(* and the requests of the web view for the signed URIs, which check the   *)
(* lease, the row and the file anew.                                       *)
(*                                                                         *)
(* AssetContent models how content is published and lost; here a row is    *)
(* settled, and its file destroyed, at any moment.  The desktop runs no    *)
(* reconciliation, so a row that is Available stays so.  The window and    *)
(* the process that signs the leases live and die together.                *)
(***************************************************************************)
EXTENDS FiniteSets, Naturals, Sequences

CONSTANTS
  Gallery,        \* Assets there may be, as numbers in the order of their bytes
  Owner,          \* Asset -> its Project
  MediaKind,      \* Asset -> "image", "video" or "audio"
  ByteLength,     \* Asset -> length of its content
  Imported,       \* Assets that the window imports; nodes record the others
  Fragile,        \* Assets whose file the environment may destroy
  Methods,        \* of the requests: "GET", "HEAD", "other"
  Ranges,         \* Range headers of the requests
  Times,          \* what the clock may show
  Lifetime,       \* of a lease
  LibraryPage,    \* the most Assets a refresh asks for
  MaxRefreshes

\* Empty content is refused when it is staged.
ASSUME LibraryAssumption ==
  /\ Gallery \subseteq Nat /\ Times \subseteq Nat
  /\ Lifetime \in Nat \ {0} /\ LibraryPage \in Nat \ {0} /\ MaxRefreshes \in Nat
  /\ ByteLength \in [Gallery -> Nat \ {0}]
  /\ MediaKind \in [Gallery -> {"image", "video", "audio"}]
  /\ DOMAIN Owner = Gallery /\ Imported \subseteq Gallery /\ Fragile \subseteq Gallery
  /\ Ranges \subseteq [form : {"none", "malformed"}]
                      \cup [form : {"suffix"}, count : Nat] \cup [form : {"from"}, first : Nat]
                      \cup [form : {"between"}, first : Nat, last : Nat]

VARIABLES
  now,        \* the system clock
  held,       \* Asset -> [created, state], of the Assets there are
  disk,       \* Asset -> its managed file: none, whole, altered, cut, gone
  library,    \* [project, loading, failed, shown]: useAssets
  refreshes,  \* the refreshes begun; the generation is their number
  signed,     \* the leases of the URIs that the window has been given
  importing,  \* the window's import
  fetch       \* the web view's request

libraryVars == <<now, held, disk, library, refreshes, signed, importing, fetch>>

ProjectsOfLibrary == {Owner[a] : a \in Gallery}
NoOne == "no project"

----------------------------------------------------------------------------
(* The rows and their files.                                               *)

Newer(a, b) ==
  \/ held[a].created > held[b].created
  \/ held[a].created = held[b].created /\ a > b
InProject(p) == {a \in DOMAIN held : Owner[a] = p}
NewerThan(a) == {b \in InProject(Owner[a]) : Newer(b, a)}
\* list_assets, without a cursor.
FirstPage(p) == {a \in InProject(p) : Cardinality(NewerThan(a)) < LibraryPage}

\* find_visible_asset, with its content Available.
IsPreviewable(p, a) == a \in DOMAIN held /\ Owner[a] = p /\ held[a].state = "Available"

\* An Asset is inserted Pending, by an import or as the output of a node.  Its time is
\* read before its content is staged; the clock moves freely, so any order is possible.
InsertRow(a) ==
  /\ a \in Gallery \ DOMAIN held
  /\ held' = [b \in DOMAIN held \cup {a} |->
                IF b = a THEN [created |-> now, state |-> "Pending"] ELSE held[b]]
RecordOutput(a) ==
  a \notin Imported /\ InsertRow(a) /\ UNCHANGED <<now, disk, library, refreshes, signed, importing, fetch>>

\* Its content is published and verified, or found to be lost.
SettleContent(a) ==
  /\ a \in DOMAIN held /\ held[a].state = "Pending"
  /\ \/ held' = [held EXCEPT ![a].state = "Available"] /\ disk' = [disk EXCEPT ![a] = "whole"]
     \/ held' = [held EXCEPT ![a].state = "Missing"] /\ UNCHANGED disk
  /\ UNCHANGED <<now, library, refreshes, signed, importing, fetch>>

\* fetch.found: what the file has been since the request was made.
DamageFile(a) ==
  /\ a \in Fragile /\ disk[a] = "whole"
  /\ \E d \in {"altered", "cut", "gone"} :
       /\ disk' = [disk EXCEPT ![a] = d]
       /\ fetch' = IF fetch.pc # "none" /\ fetch.lease.asset = a
                   THEN [fetch EXCEPT !.found = @ \cup {d}] ELSE fetch
  /\ UNCHANGED <<now, held, library, refreshes, signed, importing>>

\* The clock of the system, which may be set.
ClockMoves ==
  /\ now' \in Times
  /\ UNCHANGED <<held, disk, library, refreshes, signed, importing, fetch>>

----------------------------------------------------------------------------
(* Refreshes.                                                              *)

\* had: what there was in the Project when the refresh began.
Refresh(p) ==
  [project |-> p, pc |-> "listing", had |-> InProject(p), listed |-> {}, waiting |-> {}]
\* Each closure of refresh has the Project of its render.
Begin(p) ==
  /\ Len(refreshes) < MaxRefreshes
  /\ refreshes' = Append(refreshes, Refresh(p))
\* Mutant: the generation is not looked at.
EveryRefresh(n) == TRUE
Latest(n) == n = Len(refreshes)

ShowProject(p) ==
  /\ p # library.project
  /\ Begin(p)
  /\ library' = [library EXCEPT !.project = p, !.loading = TRUE]
  /\ UNCHANGED <<now, held, disk, signed, importing, fetch>>

\* onSucceeded of the Run controller.
RunSucceeds ==
  /\ library.project # NoOne
  /\ Begin(library.project)
  /\ library' = [library EXCEPT !.loading = TRUE]
  /\ UNCHANGED <<now, held, disk, signed, importing, fetch>>

Awaits(n, pc) == n \in DOMAIN refreshes /\ refreshes[n].pc = pc
\* The answer of asset_list; a lease is asked for each Asset that is Available.
ReadList(n) ==
  /\ Awaits(n, "listing")
  /\ LET page == FirstPage(refreshes[n].project)
     IN refreshes' = [refreshes EXCEPT ![n].pc = "leasing", ![n].listed = page,
                        ![n].waiting = {a \in page : held[a].state = "Available"}]
  /\ UNCHANGED <<now, held, disk, library, signed, importing, fetch>>

\* The answer of asset_issue_preview: a lease, or none when it fails.
Lease(p, a) == [project |-> p, asset |-> a, issued |-> now]
Expiry(lease) == lease.issued + Lifetime
ReadLease(n, a) ==
  /\ Awaits(n, "leasing") /\ a \in refreshes[n].waiting
  /\ refreshes' = [refreshes EXCEPT ![n].waiting = @ \ {a}]
  /\ \/ /\ IsPreviewable(refreshes[n].project, a)
        /\ signed' = signed \cup {Lease(refreshes[n].project, a)}
     \/ UNCHANGED signed
  /\ UNCHANGED <<now, held, disk, library, importing, fetch>>

Over(n) == refreshes' = [refreshes EXCEPT ![n].pc = "over"]
Publish(n) ==
  /\ Awaits(n, "leasing") /\ refreshes[n].waiting = {}
  /\ Over(n)
  /\ library' = IF Latest(n)
                THEN [library EXCEPT !.shown = refreshes[n].listed, !.failed = FALSE,
                                     !.loading = FALSE]
                ELSE library
  /\ UNCHANGED <<now, held, disk, signed, importing, fetch>>

ListFails(n) ==
  /\ Awaits(n, "listing")
  /\ Over(n)
  /\ library' = IF Latest(n) THEN [library EXCEPT !.failed = TRUE, !.loading = FALSE]
                ELSE library
  /\ UNCHANGED <<now, held, disk, signed, importing, fetch>>

RefreshStep(n) ==
  \/ ReadList(n) \/ ListFails(n) \/ Publish(n)
  \/ \E a \in Gallery : ReadLease(n, a)

----------------------------------------------------------------------------
(* The import of the window.                                               *)

NoImport == [pc |-> "idle", project |-> NoOne]
StartImport ==
  /\ importing.pc = "idle" /\ library.project # NoOne /\ ~(Imported \subseteq DOMAIN held)
  /\ importing' = [pc |-> "picked", project |-> library.project]
  /\ UNCHANGED <<now, held, disk, library, refreshes, signed, fetch>>
ImportInserts(a) ==
  /\ importing.pc = "picked" /\ a \in Imported /\ Owner[a] = importing.project
  /\ InsertRow(a)
  /\ importing' = [importing EXCEPT !.pc = "inserted"]
  /\ UNCHANGED <<now, disk, library, refreshes, signed, fetch>>
\* importAsset refreshes with the closure of the render in which it was called.
ImportReturns ==
  /\ importing.pc = "inserted"
  /\ Begin(importing.project)
  /\ library' = [library EXCEPT !.loading = TRUE]
  /\ importing' = NoImport
  /\ UNCHANGED <<now, held, disk, signed, fetch>>
\* Nothing was picked, or the import fails, before or after its row is inserted.
ImportEnds ==
  /\ importing.pc # "idle"
  /\ importing' = NoImport
  /\ UNCHANGED <<now, held, disk, library, refreshes, signed, fetch>>

----------------------------------------------------------------------------
(* Requests for a preview.                                                 *)

NoFetch == [pc |-> "none"]
\* part: the first and the last byte sent.
Answer(status, part) == fetch' = [fetch EXCEPT !.pc = "done", !.status = status, !.part = part]
RefuseFetch(status) == Answer(status, <<0, 0>>)

\* The token is looked at when the request comes.
Decoded(lease, method) ==
  CASE method = "other" -> 405
    [] method # "other" /\ lease.issued > now -> 404
    [] method # "other" /\ lease.issued <= now /\ now >= Expiry(lease) -> 410
    [] OTHER -> 0
Ask(lease, method, range) ==
  /\ fetch.pc \in {"none", "done"} /\ lease \in signed
  /\ LET status == Decoded(lease, method)
     IN fetch' = [lease |-> lease, method |-> method, range |-> range, asked |-> now,
                  found |-> {disk[lease.asset]}, pc |-> IF status = 0 THEN "resolve" ELSE "done",
                  status |-> status, part |-> <<0, 0>>]
  /\ UNCHANGED <<now, held, disk, library, refreshes, signed, importing>>

\* get_asset and resolve_asset_content.
ResolveAsset ==
  LET a == fetch.lease.asset
  IN /\ fetch.pc = "resolve"
     /\ IF IsPreviewable(fetch.lease.project, a)
        THEN fetch' = [fetch EXCEPT !.pc = "verify"] ELSE RefuseFetch(404)
     /\ UNCHANGED <<now, held, disk, library, refreshes, signed, importing>>
\* open_managed_asset_content: the file is hashed, and then opened.
VerifyFile ==
  /\ fetch.pc = "verify"
  /\ IF disk[fetch.lease.asset] = "whole"
     THEN fetch' = [fetch EXCEPT !.pc = "open"] ELSE RefuseFetch(404)
  /\ UNCHANGED <<now, held, disk, library, refreshes, signed, importing>>
OpenFile ==
  /\ fetch.pc = "open"
  /\ IF disk[fetch.lease.asset] = "gone"
     THEN RefuseFetch(500) ELSE fetch' = [fetch EXCEPT !.pc = "read"]
  /\ UNCHANGED <<now, held, disk, library, refreshes, signed, importing>>

\* parse_range: the part, or none that is valid.
\* Mutant: the end may be the length.
EndAtLength(r, length) ==
  CASE r.form = "suffix" /\ r.count > 0 ->
         {<<IF r.count < length THEN length - r.count ELSE 0, length - 1>>}
    [] r.form = "from" /\ r.first < length -> {<<r.first, length - 1>>}
    [] r.form = "between" /\ r.first <= r.last /\ r.last <= length -> {<<r.first, r.last>>}
    [] OTHER -> {}
ParseRange(r, length) ==
  CASE r.form = "suffix" /\ r.count > 0 ->
         {<<IF r.count < length THEN length - r.count ELSE 0, length - 1>>}
    [] r.form = "from" /\ r.first < length -> {<<r.first, length - 1>>}
    [] r.form = "between" /\ r.first <= r.last /\ r.last < length -> {<<r.first, r.last>>}
    [] OTHER -> {}
Parts(a, r) ==
  IF r.form = "none" THEN {<<0, ByteLength[a] - 1>>}
  ELSE IF MediaKind[a] = "image" THEN {} ELSE ParseRange(r, ByteLength[a])

\* The whole file is read, then the response is built; a file that is deleted once it
\* is open can still be read.
ReadBytes ==
  LET a == fetch.lease.asset
  IN /\ fetch.pc = "read"
     /\ \/ disk[a] = "cut" /\ RefuseFetch(500)
        \/ disk[a] # "cut" /\ Parts(a, fetch.range) = {} /\ RefuseFetch(416)
        \/ /\ disk[a] # "cut"
           /\ \E part \in Parts(a, fetch.range) :
                Answer(IF fetch.range.form = "none" THEN 200 ELSE 206, part)
     /\ UNCHANGED <<now, held, disk, library, refreshes, signed, importing>>
\* The storage fails, or the deadline of the request has passed.
FetchFails ==
  /\ fetch.pc \in {"resolve", "verify", "open", "read"} /\ RefuseFetch(500)
  /\ UNCHANGED <<now, held, disk, library, refreshes, signed, importing>>
FetchStep == ResolveAsset \/ VerifyFile \/ OpenFile \/ ReadBytes \/ FetchFails

----------------------------------------------------------------------------
LibraryInit ==
  /\ now \in Times /\ held = <<>> /\ disk = [a \in Gallery |-> "none"]
  /\ library = [project |-> NoOne, loading |-> FALSE, failed |-> FALSE, shown |-> {}]
  /\ refreshes = <<>> /\ signed = {} /\ importing = NoImport /\ fetch = NoFetch

LibraryNext ==
  \/ \E a \in Gallery : RecordOutput(a) \/ SettleContent(a) \/ DamageFile(a) \/ ImportInserts(a)
  \/ ClockMoves \/ RunSucceeds \/ \E p \in ProjectsOfLibrary : ShowProject(p)
  \/ \E n \in 1 .. MaxRefreshes : RefreshStep(n)
  \/ StartImport \/ ImportReturns \/ ImportEnds
  \/ \E lease \in signed, method \in Methods, range \in Ranges : Ask(lease, method, range)
  \/ FetchStep
LibrarySpec == LibraryInit /\ [][LibraryNext]_libraryVars

----------------------------------------------------------------------------
\* What is shown, once nothing is loading and the last refresh has not failed, is no
\* older than that refresh: each Asset that its Project had when it began is shown,
\* unless a page has no room for it, whichever refresh is answered last
\* (useAssets.ts:36).
FreshLibrary ==
  LET last == refreshes[Len(refreshes)]
  IN refreshes # <<>> /\ ~library.loading /\ ~library.failed =>
       \A a \in last.had :
         \/ a \in library.shown
         \/ /\ Cardinality(NewerThan(a)) >= LibraryPage
            /\ \A b \in library.shown : Newer(b, a)

\* The Assets shown are those of the Project that is shown (useAssets.ts:35: "A newer
\* refresh (for example after a project switch) supersedes this one.").
LibraryIsOfProject ==
  ~library.loading /\ ~library.failed => \A a \in library.shown : Owner[a] = library.project

\* The bytes a Range header asks for.
Wanted(r, length) ==
  {i \in 0 .. length - 1 :
     CASE r.form = "none" -> TRUE
       [] r.form = "suffix" -> i + r.count >= length
       [] r.form = "from" -> i >= r.first
       [] r.form = "between" -> r.first <= i /\ i <= r.last
       [] OTHER -> FALSE}

\* Bytes are sent for a lease that was live when the request came and content that was
\* found whole since, and just the bytes asked for; a request is told that there is
\* nothing only if the clock has gone back or the file is not what it was, and that the
\* lease has expired only if it has (handler.rs:87).
PreviewAnswers ==
  fetch.pc = "done" =>
    LET a == fetch.lease.asset
        sent == fetch.part[1] .. fetch.part[2]
    IN /\ fetch.status \in {200, 206} =>
            /\ fetch.lease.issued <= fetch.asked /\ fetch.asked < Expiry(fetch.lease)
            /\ fetch.method # "other" /\ "whole" \in fetch.found
            /\ sent = Wanted(fetch.range, ByteLength[a]) /\ sent # {}
       /\ fetch.status = 404 =>
            fetch.asked < fetch.lease.issued \/ \E d \in fetch.found : d # "whole"
       /\ fetch.status = 410 => fetch.asked >= Expiry(fetch.lease)
=============================================================================
