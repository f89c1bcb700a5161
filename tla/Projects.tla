------------------------------ MODULE Projects ------------------------------
(***************************************************************************)
(* The Project rows and the receipts of the requests that changed them:    *)
(* create, rename, get, open and list, as asynchronous commands of several *)
(* callers over one SQLite connection.  A command awaits between its reads *)
(* and its commit; a commit is one transaction.                            *)
(*                                                                         *)
(* Listing is a loop of pages in the window, newest first, each page read  *)
(* after the last row of the page before it.                               *)
(***************************************************************************)
EXTENDS FiniteSets, Naturals, SequencesExt, TLC

CONSTANTS
  ProjectIds,   \* identities, as numbers in their byte order
  Names,        \* names, normalized
  Requests,     \* request identities
  Callers,
  Commands,     \* caller -> the <<request, command>> pairs it may send
  Clock,        \* the times the clock may show
  PageLimit

ASSUME ProjectsAssumption ==
  /\ ProjectIds \subseteq Nat \ {0} /\ Clock \subseteq Nat /\ PageLimit \in Nat \ {0}
  /\ Commands \in [Callers -> SUBSET (Requests \X [op : {"Create"}, name : Names]
                              \cup Requests \X [op : {"Rename"}, project : ProjectIds,
                                                base : Nat, name : Names])]

VARIABLES
  projects,     \* identity -> row, of the Projects there are
  receipts,     \* request -> [command, outcome], of the requests committed
  calls,        \* caller -> its command
  listing       \* the window's listing

projectVars == <<projects, receipts, calls, listing>>

Later(a, b) == IF a > b THEN a ELSE b
\* A table after a row is inserted, or updated under its key.
Written(table, key, row) == [k \in DOMAIN table \cup {key} |-> IF k = key THEN row ELSE table[k]]

----------------------------------------------------------------------------
(* The aggregate.                                                          *)

Created(id, name, at) ==
  [id |-> id, name |-> name, revision |-> 1, created |-> at, updated |-> at]

\* Nothing for the name it has; the update time always moves on.
Renamed(p, name, at) ==
  IF name = p.name THEN {}
  ELSE {[p EXCEPT !.name = name, !.revision = @ + 1, !.updated = Later(at, @ + 1)]}

----------------------------------------------------------------------------
(* Commands.                                                               *)

NoProject == [id |-> 0]
Idle == [pc |-> "idle", request |-> "none", command |-> [op |-> "none"],
         proposal |-> NoProject, answer |-> NoProject]

Moved(c, call) == calls' = [calls EXCEPT ![c] = call]
Answered(c, answer) == Moved(c, [calls[c] EXCEPT !.pc = "done", !.answer = answer])
Refused(c) == Moved(c, [Idle EXCEPT !.pc = "refused"])

\* project_from_matching_receipt: the command hash names operation and content.
Matches(receipt, command) == receipt.command = command
Replay(c) ==
  LET call == calls[c]
  IN IF Matches(receipts[call.request], call.command)
     THEN Answered(c, receipts[call.request].outcome) ELSE Refused(c)

\* A caller may send again what it, or another, has sent before.
Send(c) ==
  /\ calls[c].pc \in {"idle", "done", "refused", "lost"}
  /\ \E rc \in Commands[c] :
       Moved(c, [Idle EXCEPT !.pc = "receipt", !.request = rc[1], !.command = rc[2]])
  /\ UNCHANGED <<projects, receipts, listing>>

\* A fresh UUID is none that another command has drawn.
Proposed == {calls[c].proposal.id : c \in Callers}
LoadReceipt(c) ==
  /\ calls[c].pc = "receipt"
  /\ IF calls[c].request \in DOMAIN receipts THEN Replay(c)
     ELSE IF calls[c].command.op = "Rename"
     THEN Moved(c, [calls[c] EXCEPT !.pc = "load"])
     ELSE \E id \in ProjectIds \ (DOMAIN projects \cup Proposed), at \in Clock :
            Moved(c, [calls[c] EXCEPT !.pc = "commit",
                        !.proposal = Created(id, calls[c].command.name, at)])
  /\ UNCHANGED <<projects, receipts, listing>>

LoadProject(c) ==
  LET command == calls[c].command
      Proposals(at) == Renamed(projects[command.project], command.name, at)
  IN /\ calls[c].pc = "load"
     /\ \E at \in Clock :
          IF /\ command.project \in DOMAIN projects
             /\ projects[command.project].revision = command.base
             /\ Proposals(at) # {}
          THEN \E p \in Proposals(at) :
                 Moved(c, [calls[c] EXCEPT !.pc = "commit", !.proposal = p])
          ELSE Refused(c)
     /\ UNCHANGED <<projects, receipts, listing>>

\* Mutant: the transaction trusts the receipt read before it.
NotSeen(r) == TRUE
Unseen(r) == r \notin DOMAIN receipts
\* Mutant: the transaction trusts the revision read before it.
RowExists(call) == call.command.op = "Create" \/ call.proposal.id \in DOMAIN projects
Current(call) ==
  \/ call.command.op = "Create"
  \/ /\ call.proposal.id \in DOMAIN projects
     /\ projects[call.proposal.id].revision = call.command.base

\* commit_project_creation and commit_project_rename, one transaction each.
Commit(c) ==
  LET call == calls[c]
  IN /\ call.pc = "commit"
     /\ IF ~Unseen(call.request)
        THEN Replay(c) /\ UNCHANGED <<projects, receipts, listing>>
        ELSE IF ~Current(call)
        THEN Refused(c) /\ UNCHANGED <<projects, receipts, listing>>
        ELSE /\ projects' = Written(projects, call.proposal.id, call.proposal)
             /\ receipts' = Written(receipts, call.request,
                                    [command |-> call.command, outcome |-> call.proposal])
             /\ listing' = [listing EXCEPT !.still = @ \ {call.proposal.id}]
             /\ Answered(c, call.proposal)

\* The storage fails; an answer that gets lost is one its caller asks for again.
Lose(c) ==
  /\ calls[c].pc \in {"receipt", "load", "commit"}
  /\ Moved(c, [Idle EXCEPT !.pc = "lost"])
  /\ UNCHANGED <<projects, receipts, listing>>

----------------------------------------------------------------------------
(* Reads.                                                                  *)

\* cursor: the last row read, or none; found: the Projects read.
NoListing == [pc |-> "idle", cursor |-> <<>>, found |-> {}, still |-> {}]

\* Mutant: the identity does not break a tie of times.
AfterByTime(p, cursor) == \A q \in ToSet(cursor) : p.updated < q.updated
After(p, cursor) ==
  \A q \in ToSet(cursor) : p.updated < q.updated \/ (p.updated = q.updated /\ p.id < q.id)
NewestFirst(p, q) == p.updated > q.updated \/ (p.updated = q.updated /\ p.id > q.id)

\* The window asks for the whole list; a list it already asks for goes on.
\* still: the Projects of the start that no rename has moved since.
StartListing ==
  /\ listing.pc # "paging"
  /\ listing' = [NoListing EXCEPT !.pc = "paging", !.still = DOMAIN projects]
  /\ UNCHANGED <<projects, receipts, calls>>

\* One row more than the page tells whether there is another page; the next one is
\* read after the last row of this one.
ReadPage ==
  LET rows == {p \in Range(projects) : After(p, listing.cursor)}
      page == {p \in rows : Cardinality({q \in rows : NewestFirst(q, p)}) < PageLimit}
      Read(pc, cursor) == listing' = [pc |-> pc, cursor |-> cursor, still |-> listing.still,
                                      found |-> listing.found \cup {p.id : p \in page}]
  IN /\ listing.pc = "paging"
     /\ \/ page = rows /\ Read("done", <<>>)
        \/ \E last \in page :
             /\ page # rows /\ \A p \in page \ {last} : NewestFirst(p, last)
             /\ Read("paging", <<last>>)
     /\ UNCHANGED <<projects, receipts, calls>>

\* committed: request -> the receipt of a Project made before, not renamed since.
MadeBefore(committed) ==
  /\ committed = [r \in DOMAIN committed |-> committed[r]] /\ IsFiniteSet(DOMAIN committed)
  /\ \A r \in DOMAIN committed : \E id \in ProjectIds, name \in Names, at \in Clock :
       committed[r] = [command |-> [op |-> "Create", name |-> name],
                       outcome |-> Created(id, name, at)]
  /\ \A r, s \in DOMAIN committed : r # s => committed[r].outcome.id # committed[s].outcome.id

ProjectsInit(committed) ==
  /\ receipts = committed
  /\ projects = [id \in {r.outcome.id : r \in Range(committed)} |->
                   (CHOOSE r \in Range(committed) : r.outcome.id = id).outcome]
  /\ calls = [c \in Callers |-> Idle]
  /\ listing = NoListing

ProjectStep(c) == Send(c) \/ LoadReceipt(c) \/ LoadProject(c) \/ Commit(c) \/ Lose(c)
\* Each version of a Project is the outcome of one request, there is none but by a
\* request, and a request is answered with its own outcome: whoever sent it, however
\* often, and whatever was renamed in between (the receipts of mutation.rs).
OneEffectPerRequest ==
  /\ \A c \in Callers : calls[c].pc = "done" =>
       /\ calls[c].request \in DOMAIN receipts
       /\ receipts[calls[c].request] =
            [command |-> calls[c].command, outcome |-> calls[c].answer]
  /\ \A r, s \in DOMAIN receipts : r # s =>
       \/ receipts[r].outcome.id # receipts[s].outcome.id
       \/ receipts[r].outcome.revision # receipts[s].outcome.revision
  /\ \A id \in DOMAIN projects : \A n \in 1 .. projects[id].revision :
       \E r \in DOMAIN receipts :
         receipts[r].outcome.id = id /\ receipts[r].outcome.revision = n
  /\ \A r \in DOMAIN receipts :
       /\ receipts[r].outcome.id \in DOMAIN projects
       /\ receipts[r].outcome.revision <= projects[receipts[r].outcome.id].revision

\* A list names every Project that was there when it began and that nobody has
\* renamed meanwhile, although its pages are read at different times
\* (project_adapters.rs:162).  One that is renamed goes to the front and may be missed.
ListIsComplete == listing.pc = "done" => listing.still \subseteq listing.found

ProjectsNext == (\E c \in Callers : ProjectStep(c)) \/ StartListing \/ ReadPage
=============================================================================
