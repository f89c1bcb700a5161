---------------------------- MODULE WindowProofs ----------------------------
(***************************************************************************)
(* Theorems about what the window's commands change: the Projects and the  *)
(* settings (ProviderSettings), whose rows a command reads, awaits, and    *)
(* writes in one transaction that asks again what it has read, and the     *)
(* Workflow of the open Project (Workspace), which it saves by itself.     *)
(*                                                                         *)
(* Projects: a request takes effect once, for every set of callers,        *)
(* requests, identities and names, and whatever the window does meanwhile. *)
(* The transaction asks again for the receipt (Unseen), which keeps a      *)
(* request from a second effect, and for the revision (Current), which     *)
(* makes the next version of a row out of its newest one.                  *)
(*                                                                         *)
(* Settings: for all addresses, models, keys and bounds, a command holds   *)
(* what was seen when it was sent, or the key that was stored when it      *)
(* looked; either is of an earlier revision or still true, and a command   *)
(* of an earlier revision changes nothing.                                 *)
(*                                                                         *)
(* Workflow: for all registries, edits, scenarios and barriers, what the   *)
(* window stores is a draft it has shown: the difference between a         *)
(* document and a draft, applied to the document, makes the whole draft of *)
(* it (SavedAsDrawn).  While the user waits for a Project to open, it is a *)
(* draft of that Project, and a barrier lets go only when it has stored    *)
(* what it shows: once it has found nothing newer than what it saved,      *)
(* nothing is left to be saved until an edit or another Project makes it   *)
(* start again (Still).                                                    *)
(***************************************************************************)
EXTENDS Workspace, ProviderSettings, FiniteSetTheorems, SequenceTheorems,
        WellFoundedInduction, TLAPS

----------------------------------------------------------------------------
(* Projects: the inductive invariant.                                      *)

AllCommands ==
  [op : {"Create"}, name : Names]
    \cup [op : {"Rename"}, project : ProjectIds, base : Nat, name : Names]
Rows == [id : ProjectIds, name : Names, revision : Nat, created : Nat, updated : Nat]
CallRows ==
  [pc : {"idle", "receipt", "load", "commit", "done", "refused", "lost"},
   request : Requests \cup {"none"}, command : AllCommands \cup {[op |-> "none"]},
   proposal : Rows \cup {NoProject}, answer : Rows \cup {NoProject}]
Types ==
  /\ \A id \in DOMAIN projects : projects[id] \in Rows /\ projects[id].id = id
  /\ \A r \in DOMAIN receipts : receipts[r] \in [command : AllCommands, outcome : Rows]
  /\ calls \in [Callers -> CallRows]

\* What is held for the transaction of a call.
ProposalOK(call) ==
  /\ call.proposal \in Rows
  /\ call.command.op = "Create" =>
       call.proposal.revision = 1 /\ call.proposal.id \notin DOMAIN projects
  /\ call.command.op # "Create" => call.proposal.revision = call.command.base + 1
AnswerOK(call) ==
  /\ call.request \in DOMAIN receipts
  /\ receipts[call.request] = [command |-> call.command, outcome |-> call.answer]
CallOK(call) ==
  /\ call.pc \in {"receipt", "load", "commit"} => call.command \in AllCommands
  /\ call.pc = "load" => call.command.op = "Rename"
  /\ call.pc = "commit" => ProposalOK(call)
  /\ call.pc = "done" => AnswerOK(call)
\* Two Projects to be created are not the same.
Fresh ==
  \A c, d \in Callers :
    c # d /\ calls[c].pc = "commit" /\ calls[d].pc = "commit" /\ calls[c].command.op = "Create" =>
      calls[c].proposal.id # calls[d].proposal.id
\* The receipts are the versions of the rows.
Versions ==
  /\ \A r, s \in DOMAIN receipts : r # s =>
       \/ receipts[r].outcome.id # receipts[s].outcome.id
       \/ receipts[r].outcome.revision # receipts[s].outcome.revision
  /\ \A id \in DOMAIN projects : \A n \in 1 .. projects[id].revision :
       \E r \in DOMAIN receipts :
         receipts[r].outcome.id = id /\ receipts[r].outcome.revision = n
  /\ \A r \in DOMAIN receipts :
       /\ receipts[r].outcome.id \in DOMAIN projects
       /\ receipts[r].outcome.revision <= projects[receipts[r].outcome.id].revision

Inductive == Types /\ (\A c \in Callers : CallOK(calls[c])) /\ Fresh /\ Versions

LEMMA ConstantFacts ==
  /\ ProjectIds \subseteq Nat /\ 0 \notin ProjectIds /\ Clock \subseteq Nat
  /\ \A c \in Callers : \A rc \in Commands[c] : rc[1] \in Requests /\ rc[2] \in AllCommands
BY ProjectsAssumption DEF AllCommands

----------------------------------------------------------------------------
(* Steps of a call that write no row.                                      *)

LEMMA CallMoves ==
  ASSUME Inductive, NEW c \in Callers, NEW call \in CallRows, Moved(c, call), CallOK(call),
         call.pc = "commit" => \A d \in Callers \ {c} : calls[d].pc = "commit" =>
           /\ call.command.op = "Create" => call.proposal.id # calls[d].proposal.id
           /\ calls[d].command.op = "Create" => call.proposal.id # calls[d].proposal.id,
         UNCHANGED <<projects, receipts>>
  PROVE  Inductive'
<1>1. /\ calls' \in [Callers -> CallRows] /\ calls'[c] = call
      /\ \A d \in Callers \ {c} : calls'[d] = calls[d]
  BY DEF Moved, Inductive, Types
<1>2. Types' BY <1>1 DEF Inductive, Types
<1>3. \A d \in Callers : CallOK(calls[d])'
  BY <1>1 DEF Inductive, CallOK, ProposalOK, AnswerOK
<1>4. Fresh' BY <1>1 DEF Inductive, Fresh
<1>5. Versions' BY DEF Inductive, Versions
<1> QED BY <1>2, <1>3, <1>4, <1>5 DEF Inductive

LEMMA IdleFacts ==
  /\ Idle \in CallRows /\ Idle.pc = "idle"
  /\ \A pc \in {"refused", "lost"} : [Idle EXCEPT !.pc = pc] \in CallRows
                                     /\ [Idle EXCEPT !.pc = pc].pc = pc
BY DEF Idle, CallRows

LEMMA RefusedKeeps ==
  ASSUME Inductive, NEW c \in Callers, NEW pc \in {"refused", "lost"},
         Moved(c, [Idle EXCEPT !.pc = pc]), UNCHANGED <<projects, receipts>>
  PROVE  Inductive'
<1> DEFINE call == [Idle EXCEPT !.pc = pc]
<1>1. call \in CallRows /\ call.pc = pc BY IdleFacts
<1> HIDE DEF call
<1>2. CallOK(call) /\ call.pc # "commit" BY <1>1 DEF CallOK
<1> QED BY <1>1, <1>2, CallMoves DEF call

(***************************************************************************)
(* A request that has been committed is answered with its own outcome.     *)
(***************************************************************************)
LEMMA ReplayKeeps ==
  ASSUME Inductive, NEW c \in Callers, calls[c].request \in DOMAIN receipts, Replay(c),
         UNCHANGED <<projects, receipts>>
  PROVE  Inductive'
<1> DEFINE receipt == receipts[calls[c].request]
           call == [calls[c] EXCEPT !.pc = "done", !.answer = receipt.outcome]
<1>1. CASE Refused(c) BY <1>1, RefusedKeeps DEF Refused
<1>2. CASE receipt.command = calls[c].command /\ Moved(c, call)
  <2>1. calls[c] \in CallRows /\ receipt \in [command : AllCommands, outcome : Rows]
    BY DEF Inductive, Types
  <2>2. /\ call \in CallRows /\ call.pc = "done" /\ call.answer = receipt.outcome
        /\ call.request = calls[c].request /\ call.command = calls[c].command
    BY <2>1 DEF CallRows
  <2>3. receipt = [command |-> calls[c].command, outcome |-> receipt.outcome] BY <1>2, <2>1
  <2> HIDE DEF call
  <2>4. CallOK(call) BY <2>2, <2>3 DEF CallOK, AnswerOK
  <2> QED BY <1>2, <2>2, <2>4, CallMoves
<1> QED BY <1>1, <1>2 DEF Replay, Matches, Answered

LEMMA SendKeeps ==
  ASSUME Inductive, NEW c \in Callers, Send(c)
  PROVE  Inductive'
<1>1. PICK rc \in Commands[c] :
        Moved(c, [Idle EXCEPT !.pc = "receipt", !.request = rc[1], !.command = rc[2]])
  BY DEF Send
<1>2. rc[1] \in Requests /\ rc[2] \in AllCommands BY ConstantFacts
<1> DEFINE call == [Idle EXCEPT !.pc = "receipt", !.request = rc[1], !.command = rc[2]]
<1>3. call \in CallRows /\ call.pc = "receipt" /\ call.command = rc[2]
  BY <1>2 DEF Idle, CallRows
<1>4. UNCHANGED <<projects, receipts>> BY DEF Send
<1> HIDE DEF call
<1>5. CallOK(call) /\ call.pc # "commit" BY <1>2, <1>3 DEF CallOK
<1> QED BY <1>1, <1>3, <1>4, <1>5, CallMoves DEF call

LEMMA LoadReceiptKeeps ==
  ASSUME Inductive, NEW c \in Callers, LoadReceipt(c)
  PROVE  Inductive'
<1>1. /\ calls[c].pc = "receipt" /\ calls[c] \in CallRows /\ calls[c].command \in AllCommands
      /\ UNCHANGED <<projects, receipts>>
  BY DEF LoadReceipt, Inductive, Types, CallOK
<1>2. CASE calls[c].request \in DOMAIN receipts
  BY <1>1, <1>2, ReplayKeeps DEF LoadReceipt
<1>3. CASE calls[c].request \notin DOMAIN receipts /\ calls[c].command.op = "Rename"
  <2> DEFINE call == [calls[c] EXCEPT !.pc = "load"]
  <2>1. Moved(c, call) BY <1>3 DEF LoadReceipt
  <2>2. call \in CallRows /\ call.pc = "load" /\ call.command = calls[c].command
    BY <1>1 DEF CallRows
  <2> HIDE DEF call
  <2>3. CallOK(call) /\ call.pc # "commit" BY <1>1, <1>3, <2>2 DEF CallOK
  <2> QED BY <1>1, <2>1, <2>2, <2>3, CallMoves
<1>4. CASE calls[c].request \notin DOMAIN receipts /\ calls[c].command.op # "Rename"
  <2>1. PICK id \in ProjectIds \ (DOMAIN projects \cup Proposed) : \E at \in Clock :
          Moved(c, [calls[c] EXCEPT !.pc = "commit",
                      !.proposal = Created(id, calls[c].command.name, at)])
    BY <1>4 DEF LoadReceipt
  <2>2. PICK at \in Clock :
          Moved(c, [calls[c] EXCEPT !.pc = "commit",
                      !.proposal = Created(id, calls[c].command.name, at)])
    BY <2>1
  <2>3. calls[c].command.op = "Create" /\ calls[c].command.name \in Names
    BY <1>1, <1>4 DEF AllCommands
  <2> DEFINE row == Created(id, calls[c].command.name, at)
             call == [calls[c] EXCEPT !.pc = "commit", !.proposal = row]
  <2>4. row \in Rows /\ row.id = id /\ row.revision = 1
    BY <2>3, ConstantFacts DEF Created, Rows
  <2>5. Moved(c, call) BY <2>2
  <2> HIDE DEF row
  <2>6. /\ call \in CallRows /\ call.pc = "commit" /\ call.proposal = row
        /\ call.command = calls[c].command
    BY <1>1, <2>4 DEF CallRows
  <2> HIDE DEF call
  <2>7. id \notin DOMAIN projects /\ \A d \in Callers : calls[d].proposal.id # id
    BY DEF Proposed
  <2>8. CallOK(call) BY <1>1, <2>3, <2>4, <2>6, <2>7 DEF CallOK, ProposalOK
  <2> QED BY <1>1, <2>4, <2>5, <2>6, <2>7, <2>8, CallMoves
<1> QED BY <1>2, <1>3, <1>4

LEMMA LoadProjectKeeps ==
  ASSUME Inductive, NEW c \in Callers, LoadProject(c)
  PROVE  Inductive'
<1> DEFINE command == calls[c].command
           old == projects[command.project]
<1>1. /\ calls[c].pc = "load" /\ calls[c] \in CallRows /\ CallOK(calls[c])
      /\ UNCHANGED <<projects, receipts>>
  BY DEF LoadProject, Inductive, Types
<1>2. command.op = "Rename" /\ command.base \in Nat /\ command.name \in Names
      /\ command \in AllCommands
  BY <1>1 DEF CallOK, AllCommands
<1>3. CASE Refused(c) BY <1>1, <1>3, RefusedKeeps DEF Refused
<1>4. CASE ~Refused(c)
  <2>1. PICK at \in Clock :
          /\ command.project \in DOMAIN projects /\ old.revision = command.base
          /\ \E p \in Renamed(old, command.name, at) :
               Moved(c, [calls[c] EXCEPT !.pc = "commit", !.proposal = p])
    BY <1>4 DEF LoadProject
  <2>2. PICK p \in Renamed(old, command.name, at) :
          Moved(c, [calls[c] EXCEPT !.pc = "commit", !.proposal = p])
    BY <2>1
  <2>3. old \in Rows /\ old.id = command.project BY <2>1 DEF Inductive, Types
  <2>4. at \in Nat BY ConstantFacts
  <2>5. p \in Rows /\ p.revision = command.base + 1 /\ p.id = old.id
    <3>1. p = [old EXCEPT !.name = command.name, !.revision = @ + 1,
                          !.updated = Later(at, @ + 1)]
      BY <2>2 DEF Renamed
    <3>2. old.updated \in Nat /\ Later(at, old.updated + 1) \in Nat
      BY <2>3, <2>4 DEF Later, Rows
    <3> DEFINE updated == Later(at, old.updated + 1)
               name == command.name
    <3>3. old.revision + 1 \in Nat /\ old.revision + 1 = command.base + 1
      BY <1>2, <2>1
    <3>4. p = [old EXCEPT !.name = name, !.revision = old.revision + 1, !.updated = updated]
      BY <3>1
    <3> HIDE DEF old, updated, name
    <3>5. updated \in Nat /\ name \in Names BY <1>2, <3>2 DEF updated, name
    <3> QED BY <2>3, <3>3, <3>4, <3>5 DEF Rows
  <2> DEFINE call == [calls[c] EXCEPT !.pc = "commit", !.proposal = p]
  <2>6. /\ call \in CallRows /\ call.pc = "commit" /\ call.proposal = p
        /\ call.command = command
    BY <1>1, <2>5 DEF CallRows
  <2> HIDE DEF call
  <2>7. CallOK(call) BY <1>2, <2>5, <2>6 DEF CallOK, ProposalOK
  <2>8. \A d \in Callers : calls[d].pc = "commit" /\ calls[d].command.op = "Create" =>
          p.id # calls[d].proposal.id
    BY <2>1, <2>3, <2>5 DEF Inductive, CallOK, ProposalOK
  <2>9. Moved(c, call) BY <2>2 DEF call
  <2> QED BY <1>1, <1>2, <2>6, <2>7, <2>8, <2>9, CallMoves
<1> QED BY <1>3, <1>4

----------------------------------------------------------------------------
(* The transaction, and the window's own steps.                            *)

(***************************************************************************)
(* A row gets its next version, or is the first of a Project.              *)
(***************************************************************************)
LEMMA CommitKeeps ==
  ASSUME Inductive, NEW c \in Callers, Commit(c)
  PROVE  Inductive'
<1>1. PICK old : old = calls[c] OBVIOUS
<1>2. old.pc = "commit" /\ old \in CallRows /\ CallOK(old) BY <1>1 DEF Commit, Inductive, Types
<1>3. CASE ~Unseen(old.request)
  <2>1. Replay(c) /\ UNCHANGED <<projects, receipts, listing>> BY <1>1, <1>3 DEF Commit
  <2> QED BY <1>1, <1>3, <2>1, ReplayKeeps DEF Unseen
<1>4. CASE Unseen(old.request) /\ ~Current(old)
  <2>1. Refused(c) /\ UNCHANGED <<projects, receipts, listing>> BY <1>1, <1>4 DEF Commit
  <2> QED BY <2>1, RefusedKeeps DEF Refused
<1>5. CASE Unseen(old.request) /\ Current(old)
  <2> DEFINE row == old.proposal
             receipt == [command |-> old.command, outcome |-> row]
             call == [old EXCEPT !.pc = "done", !.answer = row]
  <2>1. /\ projects' = Written(projects, row.id, row)
        /\ receipts' = Written(receipts, old.request, receipt)
        /\ calls' = [calls EXCEPT ![c] = call]
    BY <1>1, <1>5 DEF Commit, Answered, Moved
  <2>2. row \in Rows /\ old.command \in AllCommands /\ old.request \notin DOMAIN receipts
    BY <1>2, <1>5 DEF CallOK, ProposalOK, Unseen
  <2>3. IF old.command.op = "Create" THEN row.revision = 1 /\ row.id \notin DOMAIN projects
        ELSE /\ row.id \in DOMAIN projects
             /\ row.revision = projects[row.id].revision + 1
    BY <1>2, <1>5 DEF CallOK, ProposalOK, Current
  <2>4. /\ call \in CallRows /\ call.pc = "done" /\ call.answer = row
        /\ call.request = old.request /\ call.command = old.command
    BY <1>2, <2>2 DEF CallRows
  <2>5. /\ calls' \in [Callers -> CallRows] /\ calls'[c] = call
        /\ \A d \in Callers \ {c} : calls'[d] = calls[d]
    BY <2>1, <2>4 DEF Inductive, Types
  <2>6. /\ DOMAIN projects' = DOMAIN projects \cup {row.id} /\ projects'[row.id] = row
        /\ \A id \in DOMAIN projects \ {row.id} : projects'[id] = projects[id]
    BY <2>1 DEF Written
  <2>7. /\ DOMAIN receipts' = DOMAIN receipts \cup {old.request}
        /\ receipts'[old.request] = receipt
        /\ \A r \in DOMAIN receipts : receipts'[r] = receipts[r]
    BY <2>1, <2>2 DEF Written
  <2>8. receipt \in [command : AllCommands, outcome : Rows] /\ receipt.outcome = row BY <2>2
  <2>9. row.revision \in Nat /\ row.id \in ProjectIds BY <2>2 DEF Rows
  <2>10. ASSUME NEW d \in Callers \ {c}, calls[d].pc = "commit", calls[d].command.op = "Create"
         PROVE  calls[d].proposal.id # row.id
    <3>1. CASE old.command.op = "Create" BY <1>1, <1>2, <2>10, <3>1 DEF Inductive, Fresh
    <3>2. CASE old.command.op # "Create" BY <2>3, <2>10, <3>2 DEF Inductive, CallOK, ProposalOK
    <3> QED BY <3>1, <3>2
  <2> HIDE DEF row, receipt, call
  <2>11. Types' BY <2>2, <2>5, <2>6, <2>7, <2>8 DEF Inductive, Types
  <2>12. ASSUME NEW d \in Callers PROVE CallOK(calls[d])'
    <3>1. CASE d = c BY <2>4, <2>5, <2>7, <3>1 DEF CallOK, AnswerOK, receipt
    <3>2. CASE d # c
      <4>1. calls'[d] = calls[d] /\ CallOK(calls[d]) BY <2>5, <3>2 DEF Inductive
      <4>2. calls[d].pc = "commit" => ProposalOK(calls[d])'
        BY <2>6, <2>10, <3>2, <4>1 DEF CallOK, ProposalOK
      <4>3. calls[d].pc = "done" => AnswerOK(calls[d])'
        BY <2>7, <4>1 DEF CallOK, AnswerOK
      <4> QED BY <4>1, <4>2, <4>3 DEF CallOK
    <3> QED BY <3>1, <3>2
  <2>13. Fresh' BY <2>4, <2>5 DEF Inductive, Fresh
  <2>14. Versions'
    <3>1. \A r \in DOMAIN receipts :
            \/ receipts[r].outcome.id # row.id
            \/ receipts[r].outcome.revision # row.revision
      <4>1. SUFFICES ASSUME NEW r \in DOMAIN receipts, receipts[r].outcome.id = row.id
                     PROVE  receipts[r].outcome.revision # row.revision
        OBVIOUS
      <4>2. row.id \in DOMAIN projects /\ receipts[r].outcome.revision <= projects[row.id].revision
        BY <4>1 DEF Inductive, Versions
      <4>3. projects[row.id].revision \in Nat /\ receipts[r].outcome.revision \in Nat
        BY <4>2 DEF Inductive, Types, Rows
      <4> QED BY <2>3, <4>2, <4>3
    <3>2. ASSUME NEW r \in DOMAIN receipts', NEW s \in DOMAIN receipts', r # s
          PROVE  \/ receipts'[r].outcome.id # receipts'[s].outcome.id
                 \/ receipts'[r].outcome.revision # receipts'[s].outcome.revision
      BY <2>7, <2>8, <3>1, <3>2 DEF Inductive, Versions
    <3>3. ASSUME NEW id \in DOMAIN projects', NEW n \in 1 .. projects'[id].revision
          PROVE  \E r \in DOMAIN receipts' :
                   receipts'[r].outcome.id = id /\ receipts'[r].outcome.revision = n
      <4>1. CASE id # row.id
        <5>1. id \in DOMAIN projects /\ projects'[id] = projects[id] BY <2>6, <4>1
        <5>2. PICK r \in DOMAIN receipts :
                receipts[r].outcome.id = id /\ receipts[r].outcome.revision = n
          BY <3>3, <5>1 DEF Inductive, Versions
        <5> QED BY <2>7, <5>2
      <4>2. CASE id = row.id /\ n = row.revision BY <2>7, <2>8, <4>2
      <4>3. CASE id = row.id /\ n # row.revision
        <5>1. n \in 1 .. row.revision /\ n # row.revision BY <2>6, <3>3, <4>3
        <5>2. row.id \in DOMAIN projects /\ n \in 1 .. projects[row.id].revision
          <6>1. projects[row.id].revision \in Nat \/ row.id \notin DOMAIN projects
            BY DEF Inductive, Types, Rows
          <6> QED BY <2>3, <2>9, <5>1, <6>1
        <5>3. PICK r \in DOMAIN receipts :
                receipts[r].outcome.id = row.id /\ receipts[r].outcome.revision = n
          BY <5>2 DEF Inductive, Versions
        <5> QED BY <2>7, <4>3, <5>3
      <4> QED BY <4>1, <4>2, <4>3
    <3>4. ASSUME NEW r \in DOMAIN receipts'
          PROVE  /\ receipts'[r].outcome.id \in DOMAIN projects'
                 /\ receipts'[r].outcome.revision <= projects'[receipts'[r].outcome.id].revision
      <4>1. CASE r = old.request BY <2>6, <2>7, <2>8, <2>9, <4>1
      <4>2. CASE r # old.request
        <5> DEFINE id == receipts[r].outcome.id
        <5>1. r \in DOMAIN receipts /\ receipts'[r] = receipts[r] BY <2>7, <4>2
        <5>2. id \in DOMAIN projects /\ receipts[r].outcome.revision <= projects[id].revision
          BY <5>1 DEF Inductive, Versions
        <5>3. projects[id].revision \in Nat /\ receipts[r].outcome.revision \in Nat
          BY <5>1, <5>2 DEF Inductive, Types, Rows
        <5>4. projects[id].revision <= projects'[id].revision
          BY <2>3, <2>6, <5>2, <5>3
        <5>5. projects'[id].revision \in Nat BY <2>6, <2>9, <5>2, <5>3
        <5> QED BY <2>6, <5>1, <5>2, <5>3, <5>4, <5>5
      <4> QED BY <4>1, <4>2
    <3> QED BY <3>2, <3>3, <3>4 DEF Versions
  <2> QED BY <2>11, <2>12, <2>13, <2>14 DEF Inductive
<1> QED BY <1>3, <1>4, <1>5

LEMMA LoseKeeps ==
  ASSUME Inductive, NEW c \in Callers, Lose(c)
  PROVE  Inductive'
BY RefusedKeeps DEF Lose

LEMMA SameTablesKeep ==
  ASSUME Inductive, UNCHANGED <<projects, receipts, calls>>
  PROVE  Inductive'
<1>1. \A c \in Callers : CallOK(calls[c])' BY DEF Inductive, CallOK, ProposalOK, AnswerOK
<1>2. Types' /\ Fresh' /\ Versions' BY DEF Inductive, Types, Fresh, Versions
<1> QED BY <1>1, <1>2 DEF Inductive

LEMMA ProjectsNextKeeps ==
  ASSUME Inductive, [ProjectsNext]_projectVars
  PROVE  Inductive'
<1>1. ASSUME NEW c \in Callers, ProjectStep(c) PROVE Inductive'
  BY <1>1, SendKeeps, LoadReceiptKeeps, LoadProjectKeeps, CommitKeeps, LoseKeeps DEF ProjectStep
<1>2. CASE StartListing BY <1>2, SameTablesKeep DEF StartListing
<1>3. CASE ReadPage BY <1>3, SameTablesKeep DEF ReadPage
<1>4. CASE UNCHANGED projectVars BY <1>4, SameTablesKeep DEF projectVars
<1> QED BY <1>1, <1>2, <1>3, <1>4 DEF ProjectsNext

(***************************************************************************)
(* The window changes no row: only the backend's commands do.              *)
(***************************************************************************)
LEMMA WindowStaysOut ==
  ASSUME [Next]_vars, scenario \in Scenarios
  PROVE  [ProjectsNext]_projectVars /\ UNCHANGED scenario
<1>1. scenario.callers \subseteq Callers BY WorkspaceAssumption
<1>2. CASE ProjectsStep BY <1>1, <1>2 DEF ProjectsStep, ProjectsNext, workspaceVars
<1>3. CASE \E w \in DOMAIN Waits : Ask(w) \/ WaitStep(w) \/ \E p \in ProjectIds : OpenProject(w, p)
  BY <1>3 DEF Ask, OpenProject, WaitStep, SaveEnds, FlushEnds, AnswerOpen, LoadWorkflow, Refusal,
              Activate
<1>4. CASE \/ Boot \/ Render \/ TimerFires \/ BeginSave \/ CommitMutation \/ AnswerMutation
           \/ \E e \in scenario.edits : Edit(e)
           \/ \E p \in ProjectIds, actions \in scenario.assistant : AssistantCommits(p, actions)
  BY <1>4 DEF Boot, Render, TimerFires, BeginSave, CommitMutation, AnswerMutation, Edit,
              AssistantCommits
<1>5. CASE UNCHANGED vars BY <1>5 DEF vars, workspaceVars
<1> QED BY <1>2, <1>3, <1>4, <1>5 DEF Next

(***************************************************************************)
(* The Projects there are at the start are those of their receipts.        *)
(***************************************************************************)
LEMMA InitHolds ==
  ASSUME Init
  PROVE  Inductive
<1> DEFINE start == scenario.committed
<1>1. MadeBefore(start) /\ ProjectsInit(start) BY WorkspaceAssumption DEF Init
<1>2. ASSUME NEW r \in DOMAIN start
      PROVE  /\ start[r] \in [command : AllCommands, outcome : Rows]
             /\ start[r].outcome.revision = 1
  <2>1. PICK id \in ProjectIds : \E name \in Names, at \in Clock :
          start[r] = [command |-> [op |-> "Create", name |-> name],
                     outcome |-> Created(id, name, at)]
    BY <1>1 DEF MadeBefore
  <2>2. PICK name \in Names : \E at \in Clock :
          start[r] = [command |-> [op |-> "Create", name |-> name],
                     outcome |-> Created(id, name, at)]
    BY <2>1
  <2>3. PICK at \in Clock :
          start[r] = [command |-> [op |-> "Create", name |-> name],
                     outcome |-> Created(id, name, at)]
    BY <2>2
  <2>4. id \in Nat /\ Created(id, name, at) \in Rows /\ Created(id, name, at).revision = 1
    BY ConstantFacts DEF Created, Rows
  <2>5. [op |-> "Create", name |-> name] \in AllCommands BY DEF AllCommands
  <2> QED BY <2>3, <2>4, <2>5
<1>3. /\ receipts = start /\ calls = [c \in Callers |-> Idle]
      /\ DOMAIN projects = {r.outcome.id : r \in Range(start)}
      /\ \A id \in DOMAIN projects :
           projects[id] = (CHOOSE r \in Range(start) : r.outcome.id = id).outcome
  BY <1>1 DEF ProjectsInit
<1> HIDE DEF start
<1>4. ASSUME NEW r \in DOMAIN start
      PROVE  start[r].outcome.id \in DOMAIN projects /\ projects[start[r].outcome.id] = start[r].outcome
  <2> DEFINE id == start[r].outcome.id
  <2>1. start[r] \in Range(start) BY DEF Range
  <2>2. id \in DOMAIN projects BY <1>3, <2>1
  <2>3. \A s \in Range(start) : s.outcome.id = id => s = start[r]
    BY <1>1 DEF MadeBefore, Range
  <2>4. (CHOOSE s \in Range(start) : s.outcome.id = id) = start[r] BY <2>1, <2>3
  <2> QED BY <1>3, <2>2, <2>4
<1>5. ASSUME NEW id \in DOMAIN projects
      PROVE  \E r \in DOMAIN start : id = start[r].outcome.id /\ projects[id] = start[r].outcome
  <2>1. PICK r \in DOMAIN start : id = start[r].outcome.id BY <1>3 DEF Range
  <2> QED BY <1>4, <2>1
<1>6. Types
  <2>1. calls \in [Callers -> CallRows] BY <1>3, IdleFacts
  <2>2. \A id \in DOMAIN projects : projects[id] \in Rows /\ projects[id].id = id
    BY <1>2, <1>5
  <2> QED BY <1>2, <1>3, <2>1, <2>2 DEF Types
<1>7. (\A c \in Callers : CallOK(calls[c])) /\ Fresh
  BY <1>3, IdleFacts DEF CallOK, Fresh
<1>8. Versions
  <2>1. \A r, s \in DOMAIN start : r # s => start[r].outcome.id # start[s].outcome.id
    BY <1>1 DEF MadeBefore
  <2>2. ASSUME NEW id \in DOMAIN projects, NEW n \in 1 .. projects[id].revision
        PROVE  \E r \in DOMAIN start : start[r].outcome.id = id /\ start[r].outcome.revision = n
    <3>1. PICK r \in DOMAIN start : id = start[r].outcome.id /\ projects[id] = start[r].outcome
      BY <1>5
    <3>2. start[r].outcome.revision = 1 /\ n = 1 BY <1>2, <2>2, <3>1
    <3> QED BY <3>1, <3>2
  <2>3. ASSUME NEW r \in DOMAIN start
        PROVE  /\ start[r].outcome.id \in DOMAIN projects
               /\ start[r].outcome.revision <= projects[start[r].outcome.id].revision
    BY <1>2, <1>4
  <2> QED BY <1>3, <2>1, <2>2, <2>3 DEF Versions
<1> QED BY <1>6, <1>7, <1>8 DEF Inductive

(***************************************************************************)
(* The invariant holds in every state of the workspace.                    *)
(***************************************************************************)
THEOREM ProjectsInvariant == Spec => []Inductive
<1> DEFINE I == Inductive /\ scenario \in Scenarios
<1>1. Init => I BY InitHolds DEF Init
<1>2. I /\ [Next]_vars => I' BY WindowStaysOut, ProjectsNextKeeps
<1> QED BY <1>1, <1>2, PTL DEF Spec

(***************************************************************************)
(* Each version of a Project is the outcome of one request, and a request  *)
(* is answered with its own outcome: whoever sent it, however often, and   *)
(* whatever was renamed in between (the receipts of mutation.rs).          *)
(***************************************************************************)
THEOREM RequestsTakeEffectOnce == Spec => []OneEffectPerRequest
<1>1. Inductive => OneEffectPerRequest
  BY DEF Inductive, CallOK, AnswerOK, Versions, OneEffectPerRequest
<1> QED BY <1>1, ProjectsInvariant, PTL

----------------------------------------------------------------------------
(* The listing: a Project that was there when it began and has not been     *)
(* renamed since is among those read, or its row comes after the cursor.    *)

NotMissed(id) ==
  \/ id \in listing.found
  \/ id \in DOMAIN projects /\ After(projects[id], listing.cursor)
ListingFits ==
  /\ listing = [pc |-> listing.pc, cursor |-> listing.cursor, found |-> listing.found,
                still |-> listing.still]
  /\ IsFiniteSet(DOMAIN projects)
  /\ \A q \in ToSet(listing.cursor) : q \in Rows
  /\ listing.pc = "idle" => listing.still = {}
  /\ listing.pc = "paging" => \A id \in listing.still : NotMissed(id)
  /\ ListIsComplete
Listed == Inductive /\ ListingFits

LEMMA OneCursor == \A x : ToSet(<<x>>) = {x}
BY DEF ToSet
LEMMA NoCursor == ToSet(<<>>) = {}
BY DEF ToSet

LEMMA ListingStays ==
  ASSUME Listed, UNCHANGED <<projects, listing>>
  PROVE  ListingFits'
BY DEF Listed, ListingFits, NotMissed, ListIsComplete, After

(***************************************************************************)
(* What a transaction writes was not there, or is no longer looked for.    *)
(***************************************************************************)
LEMMA CommitKeepsListing ==
  ASSUME Listed, NEW c \in Callers, Commit(c)
  PROVE  ListingFits'
<1> DEFINE row == calls[c].proposal
<1>1. CASE UNCHANGED <<projects, listing>> BY <1>1, ListingStays
<1>2. CASE /\ projects' = Written(projects, row.id, row)
           /\ listing' = [listing EXCEPT !.still = @ \ {row.id}]
  <2>1. /\ DOMAIN projects' = DOMAIN projects \cup {row.id}
        /\ \A id \in DOMAIN projects \ {row.id} : projects'[id] = projects[id]
    BY <1>2 DEF Written
  <2>2. /\ listing' = [pc |-> listing'.pc, cursor |-> listing'.cursor, found |-> listing'.found,
                       still |-> listing'.still]
        /\ listing'.pc = listing.pc /\ listing'.cursor = listing.cursor
        /\ listing'.found = listing.found /\ listing'.still = listing.still \ {row.id}
    BY <1>2 DEF Listed, ListingFits
  <2> HIDE DEF row
  <2>3. IsFiniteSet(DOMAIN projects')
    BY <2>1, FS_AddElement DEF Listed, ListingFits
  <2>4. ASSUME NEW id \in listing'.still, listing.pc = "paging" PROVE NotMissed(id)'
    <3>1. id \in listing.still /\ id # row.id /\ NotMissed(id)
      BY <2>2, <2>4 DEF Listed, ListingFits
    <3> QED BY <2>1, <2>2, <3>1 DEF NotMissed, After
  <2>5. listing'.pc = "idle" => listing'.still = {}
    BY <2>2 DEF Listed, ListingFits
  <2>6. ListIsComplete'
    BY <2>2 DEF Listed, ListingFits, ListIsComplete
  <2> QED BY <2>2, <2>3, <2>4, <2>5, <2>6 DEF Listed, ListingFits
<1> QED BY <1>1, <1>2 DEF Commit, Replay, Refused

LEMMA StartKeepsListing ==
  ASSUME Listed, StartListing
  PROVE  ListingFits'
<1>1. /\ listing' = [pc |-> "paging", cursor |-> <<>>, found |-> {}, still |-> DOMAIN projects]
      /\ UNCHANGED projects
  BY DEF StartListing, NoListing
<1>2. \A id \in DOMAIN projects : After(projects[id], <<>>)
  BY NoCursor DEF After
<1>3. \A id \in listing'.still : NotMissed(id)'
  BY <1>1, <1>2 DEF NotMissed, After
<1> QED BY <1>1, <1>3, NoCursor DEF Listed, ListingFits, ListIsComplete

(***************************************************************************)
(* A row that is not on the page comes after the last of the page: as many  *)
(* rows come before it as a page may have, and fewer before the last.       *)
(***************************************************************************)
LEMMA RowsAreFinite ==
  ASSUME Listed
  PROVE  IsFiniteSet(Range(projects))
<1> DEFINE row == [id \in DOMAIN projects |-> projects[id]]
<1>1. row \in Surjection(DOMAIN projects, Range(projects))
  BY DEF Surjection, Range
<1> QED BY <1>1, FS_Surjection DEF Listed, ListingFits

LEMMA RowIs ==
  ASSUME Inductive
  PROVE  \A r \in Range(projects) :
           /\ r \in Rows /\ r.id \in Nat /\ r.updated \in Nat
           /\ r.id \in DOMAIN projects /\ projects[r.id] = r
<1> SUFFICES ASSUME NEW r \in Range(projects)
             PROVE  /\ r \in Rows /\ r.id \in Nat /\ r.updated \in Nat
                    /\ r.id \in DOMAIN projects /\ projects[r.id] = r
  OBVIOUS
<1>1. PICK id \in DOMAIN projects : projects[id] = r
  BY DEF Range
<1>2. r \in Rows /\ r.id = id
  BY <1>1 DEF Inductive, Types
<1> QED BY <1>1, <1>2, ConstantFacts DEF Rows

LEMMA RowsFollowTheLast ==
  ASSUME Listed, NEW rows \in SUBSET Range(projects), NEW p \in rows, NEW last \in rows,
         ~(Cardinality({q \in rows : NewestFirst(q, p)}) < PageLimit),
         Cardinality({q \in rows : NewestFirst(q, last)}) < PageLimit
  PROVE  NewestFirst(last, p)
<1> DEFINE before(r) == {q \in rows : NewestFirst(q, r)}
<1>1. SUFFICES ASSUME ~NewestFirst(last, p) PROVE FALSE
  OBVIOUS
<1>2. \A r \in Range(projects) : r \in Rows /\ r.id \in Nat /\ r.updated \in Nat
                                 /\ r.id \in DOMAIN projects /\ projects[r.id] = r
  BY RowIs DEF Listed
<1>3. p # last
  OBVIOUS
<1>4. NewestFirst(p, last)
  BY <1>1, <1>2, <1>3 DEF NewestFirst
<1>5. before(p) \subseteq before(last)
  BY <1>2, <1>4 DEF NewestFirst
<1>6. IsFiniteSet(before(last)) /\ IsFiniteSet(before(p))
  BY RowsAreFinite, FS_Subset
<1>7. Cardinality(before(p)) <= Cardinality(before(last))
  BY <1>5, <1>6, FS_Subset
<1>8. Cardinality(before(p)) \in Nat /\ Cardinality(before(last)) \in Nat /\ PageLimit \in Nat
  BY <1>6, FS_CardinalityType, ProjectsAssumption
<1> HIDE DEF before
<1>9. Cardinality(before(last)) < PageLimit /\ ~(Cardinality(before(p)) < PageLimit)
  BY DEF before
<1> QED BY <1>7, <1>8, <1>9

LEMMA ReadKeepsListing ==
  ASSUME Listed, ReadPage
  PROVE  ListingFits'
<1> DEFINE rows == {p \in Range(projects) : After(p, listing.cursor)}
           page == {p \in rows : Cardinality({q \in rows : NewestFirst(q, p)}) < PageLimit}
           found == listing.found \cup {p.id : p \in page}
           Read(pc, cursor) == listing' = [pc |-> pc, cursor |-> cursor, found |-> found,
                                           still |-> listing.still]
<1>1. listing.pc = "paging" /\ UNCHANGED projects
  BY DEF ReadPage
<1>2. \A r \in Range(projects) : r \in Rows /\ r.id \in Nat /\ r.updated \in Nat
                                 /\ r.id \in DOMAIN projects /\ projects[r.id] = r
  BY RowIs DEF Listed
<1>3. ASSUME NEW id \in listing.still
      PROVE  id \in found \/ (id \in DOMAIN projects /\ projects[id] \in rows \ page)
  <2>1. NotMissed(id) BY <1>1 DEF Listed, ListingFits
  <2>2. CASE id \in DOMAIN projects /\ After(projects[id], listing.cursor)
    <3>1. projects[id] \in Range(projects) /\ projects[id].id = id
      BY <2>2 DEF Range, Listed, Inductive, Types
    <3>2. projects[id] \in rows BY <2>2, <3>1
    <3>3. CASE projects[id] \in page BY <3>1, <3>3
    <3> QED BY <2>2, <3>2, <3>3
  <2> QED BY <2>1, <2>2 DEF NotMissed
<1>4. CASE page = rows /\ Read("done", <<>>)
  <2>1. listing.still \subseteq found BY <1>3, <1>4
  <2> HIDE DEF page, rows, found
  <2>2. /\ listing'.pc = "done" /\ listing'.cursor = <<>> /\ listing'.found = found
        /\ listing'.still = listing.still
    BY <1>4
  <2> QED BY <1>1, <1>4, <2>1, <2>2, NoCursor DEF Listed, ListingFits, ListIsComplete
<1>5. ASSUME NEW last \in page, Read("paging", <<last>>)
      PROVE  ListingFits'
  <2>1. last \in Rows BY <1>2
  <2>2. ASSUME NEW p \in rows \ page PROVE NewestFirst(last, p)
    <3>1. rows \in SUBSET Range(projects) /\ p \in rows /\ last \in rows
      OBVIOUS
    <3>2. /\ ~(Cardinality({q \in rows : NewestFirst(q, p)}) < PageLimit)
          /\ Cardinality({q \in rows : NewestFirst(q, last)}) < PageLimit
      OBVIOUS
    <3> HIDE DEF rows, page
    <3> QED BY <3>1, <3>2, RowsFollowTheLast
  <2>3. ASSUME NEW p \in rows \ page PROVE After(p, <<last>>)
    <3>1. p.updated < last.updated \/ (p.updated = last.updated /\ p.id < last.id)
      BY <1>2, <2>2 DEF NewestFirst
    <3> QED BY <3>1, OneCursor DEF After
  <2> HIDE DEF page, rows, found
  <2>4. /\ listing'.pc = "paging" /\ listing'.cursor = <<last>> /\ listing'.found = found
        /\ listing'.still = listing.still
    BY <1>5
  <2>5. \A id \in listing.still : NotMissed(id)'
    BY <1>1, <1>3, <2>3, <2>4 DEF NotMissed, After
  <2>6. \A q \in ToSet(<<last>>) : q \in Rows BY <2>1, OneCursor
  <2> QED BY <1>1, <1>5, <2>4, <2>5, <2>6 DEF Listed, ListingFits, ListIsComplete
<1>6. \/ page = rows /\ Read("done", <<>>)
      \/ \E last \in page : Read("paging", <<last>>)
  BY DEF ReadPage
<1> QED BY <1>4, <1>5, <1>6

LEMMA ListingStep ==
  ASSUME Listed, [ProjectsNext]_projectVars
  PROVE  Listed'
<1>1. Inductive' BY ProjectsNextKeeps DEF Listed
<1>2. ASSUME NEW c \in Callers, ProjectStep(c) PROVE ListingFits'
  <2>1. CASE Commit(c) BY <2>1, CommitKeepsListing
  <2>2. CASE Send(c) \/ LoadReceipt(c) \/ LoadProject(c) \/ Lose(c)
    BY <2>2, ListingStays DEF Send, LoadReceipt, LoadProject, Lose
  <2> QED BY <1>2, <2>1, <2>2 DEF ProjectStep
<1>3. CASE UNCHANGED projectVars BY <1>1, <1>3, ListingStays DEF projectVars, Listed
<1> QED BY <1>1, <1>2, <1>3, StartKeepsListing, ReadKeepsListing DEF ProjectsNext, Listed

LEMMA ListingStarts ==
  ASSUME Init
  PROVE  Listed
<1> DEFINE start == scenario.committed
           ids == {r.outcome.id : r \in Range(start)}
           of == [r \in DOMAIN start |-> start[r].outcome.id]
<1>1. MadeBefore(start) /\ ProjectsInit(start) BY WorkspaceAssumption DEF Init
<1>2. IsFiniteSet(DOMAIN start) BY <1>1 DEF MadeBefore
<1>3. of \in Surjection(DOMAIN start, ids) BY DEF Surjection, Range
<1>4. IsFiniteSet(ids) BY <1>2, <1>3, FS_Surjection
<1>5. DOMAIN projects = ids /\ listing = NoListing BY <1>1 DEF ProjectsInit
<1> HIDE DEF ids
<1>6. ListingFits BY <1>4, <1>5, NoCursor DEF ListingFits, NoListing, ListIsComplete
<1> QED BY <1>6, InitHolds DEF Listed

\* Whatever the callers do between two pages: a listing that ends has read every
\* Project that was there when it began and that no rename has moved since, for every
\* page limit, and for times that are the same or go back (project_adapters.rs:162).
THEOREM ListingsAreComplete == Spec => []ListIsComplete
<1> DEFINE I == Listed /\ scenario \in Scenarios
<1>1. Init => I BY ListingStarts DEF Init
<1>2. I /\ [Next]_vars => I'
  BY WindowStaysOut, ListingStep DEF Listed
<1>3. I => ListIsComplete BY DEF Listed, ListingFits
<1> QED BY <1>1, <1>2, <1>3, PTL DEF Spec

----------------------------------------------------------------------------
(* Settings: what the provers need of the shape, and the invariant.        *)

\* What the provers have to know of the shape of the records: there are
\* settings as soon as the application runs.
IsRow(row) ==
  /\ row = [revision |-> row.revision, routes |-> row.routes, enabled |-> row.enabled,
            url |-> row.url, model |-> row.model]
  /\ row.revision \in Nat \ {0}
IsDialog(d) ==
  d = [section |-> d.section, mount |-> d.mount, view |-> d.view, busy |-> d.busy]
IsPanel(p) ==
  p = [mount |-> p.mount, view |-> p.view, url |-> p.url, key |-> p.key, list |-> p.list,
       model |-> p.model, busy |-> p.busy]
Shape ==
  /\ \/ config # <<>> /\ config = <<config[1]>> /\ IsRow(config[1])
     \/ /\ config = <<>> /\ pending = {} /\ launched = <<>> /\ host # "Up"
        /\ dialog = Closed /\ panel = NoPanel
  /\ IsDialog(dialog) /\ IsPanel(panel)

\* Settings that somebody has seen: of an earlier revision, or those there are.
Seen(revision) == revision \in Nat /\ revision <= config[1].revision
RoutesSeen(view) ==
  Seen(view.revision) /\ (view.revision = config[1].revision => view = RoutesView(config[1]))
AssistantSeen(view) ==
  /\ Seen(view.revision)
  /\ view.revision = config[1].revision => view = AssistantView(config[1], credential)

\* A test under way, or passed: the key it is made with is the one that its
\* command will leave, unless the command comes too late.
KeyHolds(c) ==
  /\ c.op = "test" => Seen(c.arg.expected)
  /\ c.op = "test" /\ c.stage \in {"probed", "tested"} =>
       /\ c.arg.key # NoKey => c.key = c.arg.key
       /\ c.arg.key = NoKey /\ c.arg.expected = config[1].revision => c.key = credential
  /\ c.op = "test" /\ c.stage = "tested" => Connection(c.arg, c.key) \in tested
AnswerHolds(c) ==
  c.stage = "answered" /\ c.answer.is = "ok" =>
    /\ c.op \in {"routes", "bind"} => RoutesSeen(c.answer.view)
    /\ c.op \in {"assistant", "test", "disable"} => AssistantSeen(c.answer.view)
CallHolds(c) == KeyHolds(c) /\ AnswerHolds(c)

SettingsInductive ==
  /\ Shape
  /\ \A c \in pending : CallHolds(c)
  /\ config # <<>> => RoutesSeen(dialog.view) /\ AssistantSeen(panel.view)
  /\ TestedTogether

----------------------------------------------------------------------------
(* What stays true of what was seen, when the settings stay and when a     *)
(* command has changed them.                                               *)

\* The settings are those there were, or of the next revision.
Stays == UNCHANGED stored /\ tested \subseteq tested'
Moves ==
  /\ config' = <<config'[1]>> /\ IsRow(config'[1]) /\ config # <<>>
  /\ config'[1].revision = config[1].revision + 1
  /\ tested' = tested

LEMMA SeenStays ==
  /\ Stays => /\ \A view : RoutesSeen(view) <=> RoutesSeen(view)'
              /\ \A view : AssistantSeen(view) <=> AssistantSeen(view)'
  /\ Moves /\ Shape => /\ \A view : RoutesSeen(view) => RoutesSeen(view)'
                       /\ \A view : AssistantSeen(view) => AssistantSeen(view)'
<1>1. Stays => /\ \A view : RoutesSeen(view) <=> RoutesSeen(view)'
               /\ \A view : AssistantSeen(view) <=> AssistantSeen(view)'
  BY DEF Stays, stored, RoutesSeen, AssistantSeen, Seen
<1>2. ASSUME Moves, Shape
      PROVE  /\ \A view : RoutesSeen(view) => RoutesSeen(view)'
             /\ \A view : AssistantSeen(view) => AssistantSeen(view)'
  <2>1. config[1].revision \in Nat /\ config'[1].revision = config[1].revision + 1
    BY <1>2 DEF Moves, Shape, IsRow
  <2>2. \A n : Seen(n) => n <= config'[1].revision /\ n # config'[1].revision /\ n \in Nat
    BY <2>1 DEF Seen
  <2> QED BY <2>2 DEF RoutesSeen, AssistantSeen, Seen
<1> QED BY <1>1, <1>2

LEMMA CallStays ==
  ASSUME Shape, Stays \/ Moves, NEW c, CallHolds(c)
  PROVE  CallHolds(c)'
<1>1. AnswerHolds(c)' BY SeenStays DEF CallHolds, AnswerHolds
<1>2. CASE Stays BY <1>1, <1>2 DEF CallHolds, KeyHolds, Stays, stored, Seen
<1>3. CASE Moves
  <2>1. config[1].revision \in Nat /\ config'[1].revision = config[1].revision + 1
    BY <1>3 DEF Moves, Shape, IsRow
  <2>2. \A n : Seen(n) => n <= config'[1].revision /\ n # config'[1].revision /\ n \in Nat
    BY <2>1 DEF Seen
  <2> QED BY <1>1, <1>3, <2>2 DEF CallHolds, KeyHolds, Moves, Seen
<1> QED BY <1>2, <1>3

\* A step whose commands, new or moved on, hold, keeps the invariant.
LEMMA StepHolds ==
  ASSUME SettingsInductive, Stays \/ Moves, config # <<>>, Shape', TestedTogether',
         RoutesSeen(dialog.view)' \/ dialog' = dialog,
         AssistantSeen(panel.view)' \/ panel' = panel,
         \A c \in pending' \ pending : CallHolds(c)'
  PROVE  SettingsInductive'
<1>1. \A c \in pending : CallHolds(c)' BY CallStays DEF SettingsInductive
<1>2. \A c \in pending' : CallHolds(c)' BY <1>1
<1>3. RoutesSeen(dialog.view)' /\ AssistantSeen(panel.view)'
  BY SeenStays DEF SettingsInductive
<1> QED BY <1>2, <1>3 DEF SettingsInductive

----------------------------------------------------------------------------
(* The steps.                                                              *)

\* A command that is answered, whether it changed what is stored or not.
LEMMA Answers ==
  ASSUME NEW c \in pending, SettingsInductive, NEW answer, Answer(c, answer),
         Stays \/ Moves, Shape', TestedTogether', UNCHANGED screen,
         answer.is = "ok" =>
           /\ c.op \in {"routes", "bind"} => RoutesSeen(answer.view)'
           /\ c.op \in {"assistant", "test", "disable"} => AssistantSeen(answer.view)'
  PROVE  SettingsInductive'
<1>1. CallHolds(c) /\ config # <<>> BY DEF SettingsInductive, Shape
<1>2. CallHolds(c)' BY <1>1, CallStays DEF SettingsInductive
<1>3. PICK next : next = Advanced(c, "answered", c.key, answer) OBVIOUS
<1>4. next.op = c.op /\ next.arg = c.arg /\ next.stage = "answered" /\ next.answer = answer
  BY <1>3 DEF Advanced
<1>5. pending' \subseteq pending \cup {next} BY <1>3 DEF Answer, Becomes
<1>6. KeyHolds(next)' BY <1>2, <1>4 DEF CallHolds, KeyHolds
<1>7. AnswerHolds(next)' BY <1>4 DEF AnswerHolds
<1>8. dialog' = dialog /\ panel' = panel BY DEF screen
<1>9. \A x \in pending' \ pending : CallHolds(x)' BY <1>5, <1>6, <1>7 DEF CallHolds
<1> QED BY <1>1, <1>8, <1>9, StepHolds

\* A command that moves on without an answer.
LEMMA Advances ==
  ASSUME NEW c \in pending, SettingsInductive, NEW stage \in {"probed", "tested"}, NEW key,
         c.stage \in {"asked", "probed"}, Becomes(c, Advanced(c, stage, key, c.answer)),
         Stays, Shape', TestedTogether', UNCHANGED screen,
         c.op = "test" => /\ c.arg.key # NoKey => key = c.arg.key
                          /\ c.arg.key = NoKey /\ c.arg.expected = config[1].revision =>
                               key = credential
                          /\ stage = "tested" => Connection(c.arg, key) \in tested'
  PROVE  SettingsInductive'
<1>1. CallHolds(c) /\ config # <<>> BY DEF SettingsInductive, Shape
<1>2. CallHolds(c)' BY <1>1, CallStays DEF SettingsInductive
<1>3. PICK next : next = Advanced(c, stage, key, c.answer) OBVIOUS
<1>4. next.op = c.op /\ next.arg = c.arg /\ next.stage = stage /\ next.key = key
  BY <1>3 DEF Advanced
<1>5. pending' \subseteq pending \cup {next} BY <1>3 DEF Becomes
<1>6. config' = config /\ credential' = credential BY DEF Stays, stored
<1>7. KeyHolds(next)' BY <1>2, <1>4, <1>6 DEF CallHolds, KeyHolds
<1>8. AnswerHolds(next)' BY <1>4 DEF AnswerHolds
<1>9. dialog' = dialog /\ panel' = panel BY DEF screen
<1>10. \A x \in pending' \ pending : CallHolds(x)' BY <1>5, <1>7, <1>8 DEF CallHolds
<1> QED BY <1>1, <1>9, <1>10, StepHolds

\* What there is has been seen by whoever has just read or written it.
LEMMA NowSeen ==
  ASSUME config # <<>>, config[1].revision \in Nat
  PROVE  RoutesSeen(RoutesView(config[1])) /\ AssistantSeen(AssistantView(config[1], credential))
BY DEF RoutesSeen, AssistantSeen, Seen, RoutesView, AssistantView

\* A backend step leaves the settings, or writes the next ones.
LEMMA Leaves ==
  ASSUME SettingsInductive, UNCHANGED <<stored, host, screen, launched>>,
         tested \subseteq tested', config # <<>>
  PROVE  Stays /\ Shape' /\ TestedTogether'
<1>1. Stays BY DEF Stays
<1>2. Shape' BY DEF Shape, IsDialog, IsPanel, stored, screen, SettingsInductive
<1>3. TestedTogether' BY DEF TestedTogether, stored, SettingsInductive
<1> QED BY <1>1, <1>2, <1>3

LEMMA Writes ==
  ASSUME SettingsInductive, UNCHANGED <<host, screen, launched, tested>>, config # <<>>,
         NEW next, config' = <<next>>, IsRow(next), next.revision = config[1].revision + 1,
         next.enabled => Connection(next, credential') \in tested
  PROVE  /\ Moves /\ Shape' /\ TestedTogether'
         /\ RoutesSeen(RoutesView(config[1]))'
         /\ AssistantSeen(AssistantView(config[1], credential))'
<1>1. config'[1] = next /\ config' # <<>> OBVIOUS
<1>2. Moves BY <1>1 DEF Moves
<1>3. Shape' BY <1>1 DEF Shape, IsDialog, IsPanel, screen, SettingsInductive
<1>4. TestedTogether' BY <1>1 DEF TestedTogether, SettingsInductive
<1>5. RoutesSeen(RoutesView(config[1]))'
  BY <1>1 DEF RoutesSeen, Seen, RoutesView, IsRow
<1>6. AssistantSeen(AssistantView(config[1], credential))'
  BY <1>1 DEF AssistantSeen, Seen, AssistantView, IsRow
<1> QED BY <1>2, <1>3, <1>4, <1>5, <1>6

LEMMA NextRow ==
  ASSUME NEW row, IsRow(row), NEW routes, NEW enabled, NEW url, NEW model, NEW next,
         next = [revision |-> row.revision + 1, routes |-> routes, enabled |-> enabled,
                 url |-> url, model |-> model]
  PROVE  IsRow(next) /\ next.revision = row.revision + 1
<1>1. row.revision \in Nat BY DEF IsRow
<1>2. next.revision = row.revision + 1 OBVIOUS
<1> QED BY <1>1, <1>2 DEF IsRow

LEMMA LoadHolds ==
  ASSUME SettingsInductive, Backend, config # <<>>, NEW c \in pending, LoadSettings(c)
  PROVE  SettingsInductive'
<1>1. Stays /\ Shape' /\ TestedTogether' BY Leaves DEF LoadSettings, Backend
<1>2. RoutesSeen(RoutesView(config[1])) /\ AssistantSeen(AssistantView(config[1], credential))
  BY NowSeen DEF SettingsInductive, Shape, IsRow
<1>3. PICK answer :
        /\ Answer(c, answer)
        /\ \/ c.op = "routes" /\ answer = Ok(RoutesView(config[1]))
           \/ c.op = "assistant" /\ answer = Ok(AssistantView(config[1], credential))
           \/ answer = [is |-> "storage"]
  BY DEF LoadSettings
<1>4. answer.is = "ok" =>
        /\ c.op \in {"routes", "bind"} => RoutesSeen(answer.view)
        /\ c.op \in {"assistant", "test", "disable"} => AssistantSeen(answer.view)
  BY <1>2, <1>3 DEF Ok
<1>5. answer.is = "ok" =>
        /\ c.op \in {"routes", "bind"} => RoutesSeen(answer.view)'
        /\ c.op \in {"assistant", "test", "disable"} => AssistantSeen(answer.view)'
  BY <1>1, <1>4, SeenStays
<1> QED BY <1>1, <1>3, <1>5, Answers DEF Backend

LEMMA ApplyRouteHolds ==
  ASSUME SettingsInductive, Backend, config # <<>>, NEW c \in pending, ApplyRoute(c)
  PROVE  SettingsInductive'
<1>1. PICK row, next :
        /\ row = config[1]
        /\ next = [row EXCEPT !.revision = @ + 1, !.routes = MutatedRoutes(@, c.arg)]
  OBVIOUS
<1>2. IsRow(row) BY <1>1 DEF SettingsInductive, Shape
<1>3. PICK view : view = RoutesView(row) OBVIOUS
<1>4. RoutesSeen(view) BY <1>1, <1>2, <1>3, NowSeen DEF IsRow
<1>5. c.op = "bind" /\ tested' = tested BY DEF ApplyRoute
<1>6. CASE /\ UNCHANGED stored
           /\ \E answer : Answer(c, answer) /\ (answer.is = "ok" => answer.view = view)
  <2>1. Stays /\ Shape' /\ TestedTogether' BY <1>5, <1>6, Leaves DEF Backend
  <2>2. PICK answer : Answer(c, answer) /\ (answer.is = "ok" => answer.view = view) BY <1>6
  <2>3. RoutesSeen(view)' BY <1>4, <2>1, SeenStays
  <2> QED BY <1>5, <2>1, <2>2, <2>3, Answers DEF Backend
<1>7. CASE config' = <<next>> /\ Answer(c, Ok(RoutesView(next))) /\ UNCHANGED credential
  <2>1. next = [revision |-> row.revision + 1, routes |-> MutatedRoutes(row.routes, c.arg),
                enabled |-> row.enabled, url |-> row.url, model |-> row.model]
    BY <1>1, <1>2 DEF IsRow
  <2>2. IsRow(next) /\ next.revision = config[1].revision + 1
    BY <1>1, <1>2, <2>1, NextRow
  <2>3. next.enabled => Connection(next, credential') \in tested
    BY <1>1, <1>7, <2>1 DEF Connection, TestedTogether, SettingsInductive
  <2>4. Moves /\ Shape' /\ TestedTogether' /\ RoutesSeen(RoutesView(config[1]))'
    BY <1>5, <1>7, <2>2, <2>3, Writes DEF Backend
  <2>5. PICK answer : answer = Ok(RoutesView(next)) OBVIOUS
  <2>6. answer.view = RoutesView(config'[1]) BY <1>7, <2>5 DEF Ok
  <2>7. RoutesSeen(answer.view)' BY <2>4, <2>6 DEF RoutesView
  <2> QED BY <1>5, <1>7, <2>4, <2>5, <2>7, Answers DEF Backend
<1>8. \/ Refuse(c, "storage") \/ Refuse(c, "conflict")
      \/ Answer(c, Ok(view)) /\ UNCHANGED stored
      \/ config' = <<next>> /\ Answer(c, Ok(RoutesView(next))) /\ UNCHANGED credential
  BY <1>1, <1>3 DEF ApplyRoute
<1>9. ASSUME NEW why \in {"storage", "conflict"}, Refuse(c, why) PROVE SettingsInductive'
  BY <1>6, <1>9 DEF Refuse
<1>10. ASSUME Answer(c, Ok(view)), UNCHANGED stored PROVE SettingsInductive'
  BY <1>6, <1>10 DEF Ok
<1> QED BY <1>7, <1>8, <1>9, <1>10

LEMMA ResolveKeyHolds ==
  ASSUME SettingsInductive, Backend, config # <<>>, NEW c \in pending, ResolveKey(c)
  PROVE  SettingsInductive'
<1>1. Stays /\ Shape' /\ TestedTogether' BY Leaves DEF ResolveKey, Backend
<1>2. PICK key : key = IF c.arg.key = NoKey THEN credential ELSE c.arg.key OBVIOUS
<1>3. CASE Answer(c, [is |-> "missing"]) BY <1>1, <1>3, Answers DEF Backend
<1>4. CASE Becomes(c, Advanced(c, "probed", key, c.answer))
  <2>1. c.stage = "asked" /\ UNCHANGED screen BY DEF ResolveKey, Backend
  <2>2. c.arg.key # NoKey => key = c.arg.key BY <1>2
  <2>3. c.arg.key = NoKey => key = credential BY <1>2
  <2> QED BY <1>1, <1>4, <2>1, <2>2, <2>3, Advances
<1> QED BY <1>2, <1>3, <1>4 DEF ResolveKey

LEMMA ProbeHolds ==
  ASSUME SettingsInductive, Backend, config # <<>>, NEW c \in pending, Probe(c)
  PROVE  SettingsInductive'
<1>1. Stays /\ Shape' /\ TestedTogether' BY Leaves DEF Probe, Backend
<1>2. CASE Answer(c, [is |-> "provider"]) BY <1>1, <1>2, Answers DEF Backend
<1>3. CASE c.op = "list" /\ Answer(c, [is |-> "ok", models |-> Models])
  BY <1>1, <1>3, Answers DEF Backend
<1>4. CASE /\ c.op = "test" /\ Becomes(c, Advanced(c, "tested", c.key, c.answer))
           /\ tested' = tested \cup {Connection(c.arg, c.key)}
  <2>1. KeyHolds(c) /\ c.stage = "probed" BY DEF SettingsInductive, CallHolds, Probe
  <2>2. Connection(c.arg, c.key) \in tested' BY <1>4
  <2>3. c.op = "test" => /\ c.arg.key # NoKey => c.key = c.arg.key
                         /\ c.arg.key = NoKey /\ c.arg.expected = config[1].revision =>
                              c.key = credential
    BY <2>1 DEF KeyHolds
  <2>4. UNCHANGED screen BY DEF Backend
  <2> QED BY <1>1, <1>4, <2>1, <2>2, <2>3, <2>4, Advances
<1> QED BY <1>2, <1>3, <1>4 DEF Probe

LEMMA ApplyConnectionHolds ==
  ASSUME SettingsInductive, Backend, config # <<>>, NEW c \in pending, ApplyConnection(c)
  PROVE  SettingsInductive'
<1>1. PICK row, next, key :
        /\ row = config[1] /\ next = MutatedConnection(row, c)
        /\ key = IF c.op = "test" /\ c.arg.key # NoKey THEN c.arg.key ELSE credential
  OBVIOUS
<1>2. IsRow(row) /\ CallHolds(c) BY <1>1 DEF SettingsInductive, Shape
<1>3. /\ tested' = tested
      /\ \/ c.op = "test" /\ c.stage = "tested"
         \/ c.op = "disable" /\ c.stage = "asked"
  BY DEF ApplyConnection
<1>4. ASSUME NEW why \in {"storage", "conflict"}, Refuse(c, why) PROVE SettingsInductive'
  <2>1. Stays /\ Shape' /\ TestedTogether' BY <1>3, <1>4, Leaves DEF Refuse, Backend
  <2> QED BY <1>4, <2>1, Answers DEF Refuse, Backend
<1>5. CASE /\ row.revision = c.arg.expected /\ config' = <<next>> /\ credential' = key
           /\ Answer(c, Ok(AssistantView(next, key)))
  <2>1. next = [revision |-> row.revision + 1, routes |-> row.routes, enabled |-> c.op = "test",
                url |-> IF c.op = "test" THEN c.arg.url ELSE row.url,
                model |-> IF c.op = "test" THEN c.arg.model ELSE row.model]
    BY <1>1, <1>2, <1>3 DEF IsRow, MutatedConnection
  <2>2. IsRow(next) /\ next.revision = config[1].revision + 1
    BY <1>1, <1>2, <2>1, NextRow
  <2>3. next.enabled => Connection(next, credential') \in tested
    <3>1. CASE c.op = "test"
      <4>1. c.key = key BY <1>1, <1>2, <1>3, <1>5, <3>1 DEF CallHolds, KeyHolds
      <4>2. Connection(c.arg, c.key) \in tested BY <1>2, <1>3, <3>1 DEF CallHolds, KeyHolds
      <4> QED BY <1>5, <2>1, <3>1, <4>1, <4>2 DEF Connection
    <3>2. CASE c.op # "test" BY <2>1, <3>2
    <3> QED BY <3>1, <3>2
  <2>4. /\ Moves /\ Shape' /\ TestedTogether'
        /\ AssistantSeen(AssistantView(config[1], credential))'
    BY <1>3, <1>5, <2>2, <2>3, Writes DEF Backend
  <2>5. PICK answer : answer = Ok(AssistantView(next, key)) OBVIOUS
  <2>6. answer.view = AssistantView(config'[1], credential') BY <1>5, <2>5 DEF Ok
  <2>7. AssistantSeen(answer.view)' BY <2>4, <2>6 DEF AssistantView
  <2> QED BY <1>3, <1>5, <2>4, <2>5, <2>7, Answers DEF Backend
<1> QED BY <1>1, <1>4, <1>5 DEF ApplyConnection

LEMMA BackendHolds == SettingsInductive /\ Backend => SettingsInductive'
<1> SUFFICES ASSUME SettingsInductive, Backend PROVE SettingsInductive' OBVIOUS
<1>1. config # <<>> BY DEF Backend, SettingsInductive, Shape
<1>2. PICK c \in pending :
        LoadSettings(c) \/ ApplyRoute(c) \/ ResolveKey(c) \/ Probe(c) \/ ApplyConnection(c)
  BY DEF Backend
<1> QED BY <1>1, <1>2, LoadHolds, ApplyRouteHolds, ResolveKeyHolds, ProbeHolds,
           ApplyConnectionHolds

\* What the user does, and how the answers are taken, changes no settings.
LEMMA Shown ==
  ASSUME SettingsInductive, config # <<>>, UNCHANGED <<stored, host, tested, launched>>,
         IsDialog(dialog'), RoutesSeen(dialog'.view),
         IsPanel(panel'), AssistantSeen(panel'.view),
         \A c \in pending' \ pending : CallHolds(c)
  PROVE  SettingsInductive'
<1>1. Stays /\ TestedTogether' BY DEF Stays, TestedTogether, stored, SettingsInductive
<1>2. PICK dv, pv : dv = dialog'.view /\ pv = panel'.view OBVIOUS
<1>3. Shape' BY DEF Shape, IsDialog, IsPanel, stored, SettingsInductive
<1>4. RoutesSeen(dv)' /\ AssistantSeen(pv)' BY <1>1, <1>2, SeenStays
<1>5. RoutesSeen(dialog.view)' BY <1>2, <1>4 DEF RoutesSeen, Seen
<1>6. AssistantSeen(panel.view)' BY <1>2, <1>4 DEF AssistantSeen, Seen
<1>7. \A c \in pending' \ pending : CallHolds(c)' BY <1>1, CallStays DEF SettingsInductive
<1> QED BY <1>1, <1>3, <1>5, <1>6, <1>7, StepHolds

LEMMA Asks ==
  ASSUME NEW op, NEW by, NEW arg, op = "test" => Seen(arg.expected)
  PROVE  CallHolds(Command(op, by, arg))
BY DEF CallHolds, KeyHolds, AnswerHolds, Command

\* What is on the screen before a step of the user.
LEMMA OnScreen ==
  ASSUME SettingsInductive, host = "Up"
  PROVE  /\ config # <<>> /\ IsDialog(dialog) /\ IsPanel(panel)
         /\ RoutesSeen(dialog.view) /\ AssistantSeen(panel.view)
         /\ RoutesSeen(NoView) /\ AssistantSeen(NoView)
<1>1. /\ config # <<>> /\ config[1].revision \in Nat \ {0}
      /\ IsDialog(dialog) /\ IsPanel(panel)
  BY DEF SettingsInductive, Shape, IsRow
<1>2. RoutesSeen(NoView) /\ AssistantSeen(NoView)
  BY <1>1 DEF NoView, RoutesSeen, AssistantSeen, Seen
<1> QED BY <1>1, <1>2 DEF SettingsInductive

LEMMA OpenHolds ==
  ASSUME SettingsInductive, host = "Up", UNCHANGED <<stored, host, tested, launched>>,
         NEW section, Open(section) \/ Select(section) \/ Close
  PROVE  SettingsInductive'
<1>1. IsDialog(dialog') /\ dialog'.view = dialog.view
  BY OnScreen DEF Open, Select, Close, IsDialog
<1>2. IsPanel(panel') /\ panel'.view = NoView
  BY DEF Open, Select, Close, Show, NoPanel, IsPanel
<1>3. ASSUME NEW c \in pending' \ pending PROVE CallHolds(c)
  <2>1. \/ c = Command("routes", mounts', [reload |-> FALSE])
        \/ c = Command("assistant", mounts', NoView)
    BY <1>3 DEF Open, Select, Close, Gets
  <2> QED BY <2>1, Asks
<1> QED BY <1>1, <1>2, <1>3, OnScreen, Shown

LEMMA FormHolds ==
  ASSUME SettingsInductive, host = "Up", UNCHANGED <<stored, host, tested, launched>>,
         EditForm \/ LoadModels \/ TestAndSave \/ Disable
  PROVE  SettingsInductive'
<1>1. dialog' = dialog BY DEF EditForm, LoadModels, TestAndSave, Disable
<1>2. IsPanel(panel') /\ panel'.view = panel.view
  <2>1. CASE EditForm BY <2>1, OnScreen DEF EditForm, IsPanel
  <2>2. CASE panel' = [panel EXCEPT !.busy = TRUE] BY <2>2, OnScreen DEF IsPanel
  <2> QED BY <2>1, <2>2 DEF LoadModels, TestAndSave, Disable
<1>3. Seen(panel.view.revision) BY OnScreen DEF AssistantSeen
<1>4. ASSUME NEW c \in pending' \ pending PROVE CallHolds(c)
  <2>1. \/ c = Command("list", panel.mount, [url |-> panel.url, key |-> panel.key])
        \/ c = Command("test", panel.mount,
                       [expected |-> panel.view.revision, url |-> panel.url,
                        key |-> panel.key, model |-> panel.model])
        \/ c = Command("disable", panel.mount, [expected |-> panel.view.revision])
    BY <1>4 DEF EditForm, LoadModels, TestAndSave, Disable, Sent
  <2> QED BY <1>3, <2>1, Asks
<1> QED BY <1>1, <1>2, <1>4, OnScreen, Shown

LEMMA ToggleHolds ==
  ASSUME SettingsInductive, host = "Up", UNCHANGED <<stored, host, tested, launched>>,
         NEW profile, Toggle(profile)
  PROVE  SettingsInductive'
<1>1. IsDialog(dialog') /\ dialog'.view = dialog.view BY OnScreen DEF Toggle, IsDialog
<1>2. panel' = panel BY DEF Toggle
<1>3. ASSUME NEW c \in pending' \ pending PROVE CallHolds(c)
  BY <1>3, Asks DEF Toggle, Sent
<1> QED BY <1>1, <1>2, <1>3, OnScreen, Shown

LEMMA AnswerDialogHolds ==
  ASSUME SettingsInductive, host = "Up", UNCHANGED <<stored, host, tested, launched>>,
         NEW c \in pending, AnswerDialog(c)
  PROVE  SettingsInductive'
<1>1. c.stage = "answered" /\ c.op \in {"routes", "bind"} /\ panel' = panel BY DEF AnswerDialog
<1>2. c.answer.is = "ok" => RoutesSeen(c.answer.view)
  BY <1>1 DEF SettingsInductive, CallHolds, AnswerHolds
<1>3. IsDialog(dialog') /\ RoutesSeen(dialog'.view)
  <2>1. CASE dialog' = dialog BY <2>1, OnScreen
  <2>2. ASSUME NEW view, RoutesSeen(view),
               dialog' = [dialog EXCEPT !.view = view, !.busy = FALSE]
        PROVE  IsDialog(dialog') /\ dialog'.view = view
    BY <2>2, OnScreen DEF IsDialog
  <2>3. \/ dialog' = dialog
        \/ dialog' = [dialog EXCEPT !.view = IF c.answer.is = "ok" THEN c.answer.view ELSE @,
                                    !.busy = FALSE]
    BY DEF AnswerDialog
  <2>4. PICK view : view = IF c.answer.is = "ok" THEN c.answer.view ELSE dialog.view OBVIOUS
  <2>5. RoutesSeen(view) BY <1>2, <2>4, OnScreen
  <2>6. CASE dialog' = [dialog EXCEPT !.view = view, !.busy = FALSE] BY <2>2, <2>5, <2>6
  <2> QED BY <2>1, <2>3, <2>4, <2>6
<1>4. ASSUME NEW x \in pending' \ pending PROVE CallHolds(x)
  BY <1>4, Asks DEF AnswerDialog, Replaced
<1> QED BY <1>1, <1>3, <1>4, OnScreen, Shown

LEMMA AnswerPanelHolds ==
  ASSUME SettingsInductive, host = "Up", UNCHANGED <<stored, host, tested, launched>>,
         NEW c \in pending, AnswerPanel(c)
  PROVE  SettingsInductive'
<1>1. /\ c.stage = "answered" /\ dialog' = dialog
      /\ c.op \in {"assistant", "list", "test", "disable"}
  BY DEF AnswerPanel
<1>2. c.op \in {"assistant", "test", "disable"} /\ c.answer.is = "ok" =>
        AssistantSeen(c.answer.view)
  BY <1>1 DEF SettingsInductive, CallHolds, AnswerHolds
<1>3. IsPanel(panel') /\ AssistantSeen(panel'.view)
  <2>1. CASE panel' = panel BY <2>1, OnScreen
  <2>2. CASE panel'.view = panel.view /\ IsPanel(panel') BY <2>2, OnScreen
  <2>3. CASE /\ panel'.view = c.answer.view /\ IsPanel(panel')
             /\ c.op \in {"assistant", "test", "disable"} /\ c.answer.is = "ok"
    BY <1>2, <2>3
  <2>4. CASE \/ panel' = [panel EXCEPT !.busy = FALSE]
             \/ panel' = [panel EXCEPT !.busy = FALSE,
                                       !.list = IF c.op = "assistant" THEN {} ELSE @]
    <3>1. panel'.view = panel.view /\ IsPanel(panel') BY <2>4, OnScreen DEF IsPanel
    <3> QED BY <2>2, <3>1
  <2>5. CASE \E first \in c.answer.models :
               panel' = [panel EXCEPT !.list = c.answer.models, !.busy = FALSE,
                                      !.model = IF @ \in c.answer.models THEN @ ELSE first]
    <3>1. PICK first \in c.answer.models :
            panel' = [panel EXCEPT !.list = c.answer.models, !.busy = FALSE,
                                   !.model = IF @ \in c.answer.models THEN @ ELSE first]
      BY <2>5
    <3>2. panel'.view = panel.view /\ IsPanel(panel') BY <3>1, OnScreen DEF IsPanel
    <3> QED BY <2>2, <3>2
  <2>6. CASE /\ c.op = "disable" /\ c.answer.is = "ok"
             /\ panel' = [panel EXCEPT !.view = c.answer.view, !.busy = FALSE]
    <3>1. panel'.view = c.answer.view /\ IsPanel(panel') BY <2>6, OnScreen DEF IsPanel
    <3> QED BY <2>3, <2>6, <3>1
  <2> DEFINE form == [panel EXCEPT !.view = c.answer.view, !.url = c.answer.view.url,
                                   !.model = c.answer.view.model, !.busy = FALSE]
  <2>7. CASE /\ c.op \in {"assistant", "test"} /\ c.answer.is = "ok"
             /\ panel' = [form EXCEPT !.list = {}] \/ panel' = [form EXCEPT !.key = NoKey]
    <3>1. PICK f : f = form OBVIOUS
    <3>2. f.view = c.answer.view /\ IsPanel(f) BY <3>1, OnScreen DEF IsPanel
    <3>3. panel' = [f EXCEPT !.list = {}] \/ panel' = [f EXCEPT !.key = NoKey] BY <2>7, <3>1
    <3>4. panel'.view = c.answer.view /\ IsPanel(panel') BY <3>2, <3>3 DEF IsPanel
    <3> QED BY <2>3, <2>7, <3>4
  <2>8. CASE c.by = panel.mount
    <3> SUFFICES ASSUME panel' # panel PROVE IsPanel(panel') /\ AssistantSeen(panel'.view)
      BY <2>1
    <3>1. CASE c.answer.is \notin {"ok", "conflict"} BY <2>4, <2>8, <3>1 DEF AnswerPanel
    <3>2. CASE c.answer.is = "conflict" BY <2>4, <2>8, <3>2 DEF AnswerPanel
    <3>3. CASE c.answer.is = "ok" /\ c.op = "list" BY <2>5, <2>8, <3>3 DEF AnswerPanel
    <3>4. CASE c.answer.is = "ok" /\ c.op = "disable" BY <2>6, <2>8, <3>4 DEF AnswerPanel
    <3>5. CASE c.answer.is = "ok" /\ c.op \in {"assistant", "test"}
      BY <2>7, <2>8, <3>5 DEF AnswerPanel
    <3> QED BY <1>1, <3>1, <3>2, <3>3, <3>4, <3>5
  <2>9. CASE c.by # panel.mount BY <2>1, <2>9 DEF AnswerPanel
  <2> QED BY <2>8, <2>9
<1>4. ASSUME NEW x \in pending' \ pending PROVE CallHolds(x)
  <2>1. pending' = pending \ {c} \/ Replaced(c, Command("assistant", c.by, NoView))
    BY DEF AnswerPanel
  <2> QED BY <1>4, <2>1, Asks DEF Replaced
<1> QED BY <1>1, <1>3, <1>4, OnScreen, Shown

LEMMA UserHolds == SettingsInductive /\ User => SettingsInductive'
<1> SUFFICES ASSUME SettingsInductive, User PROVE SettingsInductive' OBVIOUS
<1>1. host = "Up" /\ UNCHANGED <<stored, host, tested, launched>> BY DEF User
<1>2. ASSUME NEW section, Open(section) \/ Select(section) PROVE SettingsInductive'
  BY <1>1, <1>2, OpenHolds
<1>3. ASSUME Close PROVE SettingsInductive' BY <1>1, <1>3, OpenHolds
<1>4. ASSUME EditForm \/ LoadModels \/ TestAndSave \/ Disable PROVE SettingsInductive'
  BY <1>1, <1>4, FormHolds
<1>5. ASSUME NEW profile, Toggle(profile) PROVE SettingsInductive'
  BY <1>1, <1>5, ToggleHolds
<1>6. ASSUME NEW c \in pending, AnswerDialog(c) \/ AnswerPanel(c) PROVE SettingsInductive'
  BY <1>1, <1>6, AnswerDialogHolds, AnswerPanelHolds
<1> QED BY <1>2, <1>3, <1>4, <1>5, <1>6 DEF User

\* A sidecar is launched with a connection that is enabled.
LEMMA LaunchHolds == SettingsInductive /\ Launch => SettingsInductive'
<1> SUFFICES ASSUME SettingsInductive, Launch PROVE SettingsInductive' OBVIOUS
<1>1. config # <<>> /\ UNCHANGED <<stored, host, pending, screen, tested>>
  BY DEF Launch, SettingsInductive, Shape
<1>2. Stays BY <1>1 DEF Stays
<1>3. Shape' BY <1>1 DEF Launch, SettingsInductive, Shape, stored, screen
<1>4. TestedTogether' BY <1>1 DEF Launch, SettingsInductive, TestedTogether, stored
<1>5. dialog' = dialog /\ panel' = panel /\ pending' = pending BY <1>1 DEF screen
<1> QED BY <1>1, <1>2, <1>3, <1>4, <1>5, StepHolds

LEMMA StartHolds == SettingsInductive /\ Start => SettingsInductive'
<1> SUFFICES ASSUME SettingsInductive, Start PROVE SettingsInductive' OBVIOUS
<1>1. UNCHANGED <<credential, pending, screen, tested, launched>> BY DEF Start
<1>2. CASE config # <<>>
  <2>1. config' = config BY <1>2 DEF Start
  <2>2. Stays BY <1>1, <2>1 DEF Stays, stored
  <2>3. Shape' BY <1>1, <1>2, <2>1 DEF SettingsInductive, Shape, screen
  <2>4. TestedTogether' BY <1>1, <2>1 DEF SettingsInductive, TestedTogether
  <2>5. dialog' = dialog /\ panel' = panel /\ pending' = pending BY <1>1 DEF screen
  <2> QED BY <1>2, <2>2, <2>3, <2>4, <2>5, StepHolds
<1>3. CASE config = <<>>
  <2>1. PICK row : row = Default OBVIOUS
  <2>2. config' = <<row>> /\ config'[1] = row /\ config' # <<>> BY <1>3, <2>1 DEF Start
  <2>3. IsRow(row) /\ row.revision = 1 /\ row.enabled = FALSE BY <2>1 DEF Default, IsRow
  <2>4. /\ pending = {} /\ launched = <<>> /\ dialog = Closed /\ panel = NoPanel
        /\ IsDialog(dialog) /\ IsPanel(panel)
    BY <1>3 DEF SettingsInductive, Shape
  <2>5. Shape'
    BY <1>1, <2>2, <2>3, <2>4 DEF Shape, screen
  <2>6. TestedTogether' BY <1>1, <2>2, <2>3, <2>4 DEF TestedTogether
  <2>7. dialog'.view = NoView /\ panel'.view = NoView
    BY <1>1, <2>4 DEF screen, Closed, NoPanel
  <2>8. RoutesSeen(dialog.view)' /\ AssistantSeen(panel.view)'
    BY <2>2, <2>3, <2>7 DEF RoutesSeen, AssistantSeen, Seen, NoView
  <2> QED BY <1>1, <2>4, <2>5, <2>6, <2>8 DEF SettingsInductive
<1> QED BY <1>2, <1>3

LEMMA StopHolds == SettingsInductive /\ Stop => SettingsInductive'
<1> SUFFICES ASSUME SettingsInductive, Stop PROVE SettingsInductive' OBVIOUS
<1>1. /\ UNCHANGED <<stored, mounts, commands, tested, launched>> /\ host = "Up"
      /\ pending' = {} /\ dialog' = Closed /\ panel' = NoPanel
  BY DEF Stop
<1>2. config # <<>> /\ IsRow(config[1]) /\ config = <<config[1]>>
  BY <1>1 DEF SettingsInductive, Shape
<1>3. IsDialog(Closed) /\ IsPanel(NoPanel) BY DEF Closed, NoPanel, IsDialog, IsPanel
<1>4. Shape' BY <1>1, <1>2, <1>3 DEF Shape, stored
<1>5. TestedTogether' BY <1>1 DEF SettingsInductive, TestedTogether, stored
<1>6. dialog'.view = NoView /\ panel'.view = NoView BY <1>1 DEF Closed, NoPanel
<1>7. config'[1].revision \in Nat \ {0} BY <1>1, <1>2 DEF stored, IsRow
<1>8. RoutesSeen(dialog.view)' /\ AssistantSeen(panel.view)'
  BY <1>6, <1>7 DEF RoutesSeen, AssistantSeen, Seen, NoView
<1> QED BY <1>1, <1>4, <1>5, <1>8 DEF SettingsInductive

\* The settings commands keep what was seen and what was tested in order,
\* through crashes and whatever the user enters.
THEOREM SettingsInvariant == SettingsSpec => []SettingsInductive
<1>1. SettingsInit => SettingsInductive
  <2> SUFFICES ASSUME SettingsInit PROVE SettingsInductive OBVIOUS
  <2>1. IsDialog(Closed) /\ IsPanel(NoPanel) BY DEF Closed, NoPanel, IsDialog, IsPanel
  <2>2. Shape BY <2>1 DEF SettingsInit, Shape
  <2>3. TestedTogether BY DEF SettingsInit, TestedTogether
  <2> QED BY <2>2, <2>3 DEF SettingsInit, SettingsInductive
<1>2. SettingsInductive /\ [SettingsNext]_settingsVars => SettingsInductive'
  <2> SUFFICES ASSUME SettingsInductive, [SettingsNext]_settingsVars PROVE SettingsInductive'
    OBVIOUS
  <2>1. CASE UNCHANGED settingsVars
    <3>1. UNCHANGED <<config, credential, host, pending, dialog, panel, tested, launched>>
      BY <2>1 DEF settingsVars, stored, screen
    <3>2. Stays BY <3>1 DEF Stays, stored
    <3>3. Shape' BY <3>1 DEF Shape, SettingsInductive
    <3>4. TestedTogether' BY <3>1 DEF TestedTogether, SettingsInductive
    <3>5. \A c \in pending' : CallHolds(c)'
      BY <3>1, <3>2, CallStays DEF SettingsInductive
    <3>6. CASE config # <<>> BY <3>1, <3>2, <3>3, <3>4, <3>6, StepHolds
    <3>7. CASE config = <<>> BY <3>1, <3>3, <3>4, <3>5, <3>7 DEF SettingsInductive
    <3> QED BY <3>6, <3>7
  <2> QED BY <2>1, BackendHolds, UserHolds, LaunchHolds, StartHolds, StopHolds DEF SettingsNext
<1> QED BY <1>1, <1>2, PTL DEF SettingsSpec

\* Whatever is stored as enabled, and whatever a sidecar was launched with, has
\* passed the test as it stands.
THEOREM ConnectionsAreTested == SettingsSpec => []TestedTogether
<1>1. SettingsInductive => TestedTogether BY DEF SettingsInductive
<1> QED BY <1>1, SettingsInvariant, PTL

\* Settings shown with the revision of the stored ones are the stored ones.
THEOREM RevisionIsWhatWasSeen == SettingsSpec => []RevisionNamesSettings
<1>1. SettingsInductive => RevisionNamesSettings
  BY DEF SettingsInductive, RevisionNamesSettings, RoutesSeen, AssistantSeen
<1> QED BY <1>1, SettingsInvariant, PTL

----------------------------------------------------------------------------
(* Sequences: the members of what the editor puts together.                *)

LEMMA LeastNumber ==
  ASSUME NEW T, T \subseteq Nat, T # {}
  PROVE  \E n \in T : \A m \in T : n <= m
<1>1. PICK n \in T : \A m \in T : <<m, n>> \notin OpToRel(<, Nat)
  BY NatLessThanWellFounded, WFMin, Zenon
<1>2. ASSUME NEW m \in T PROVE n <= m
  <2>1. m \in Nat /\ n \in Nat OBVIOUS
  <2>2. m < n => <<m, n>> \in OpToRel(<, Nat) BY <2>1 DEF OpToRel
  <2>3. ~(m < n) BY <1>1, <2>2, Zenon
  <2> QED BY <2>1, <2>3
<1> QED BY <1>2

LEMMA SetToSeqIs ==
  ASSUME NEW S, IsFiniteSet(S)
  PROVE  SetToSeq(S) \in Seq(S) /\ ToSet(SetToSeq(S)) = S
<1>1. Cardinality(S) \in Nat /\ ExistsBijection(1 .. Cardinality(S), S)
  BY FS_CardinalityType
<1>2. PICK f \in Bijection(1 .. Cardinality(S), S) : TRUE
  BY <1>1 DEF ExistsBijection
<1>3. f \in [1 .. Cardinality(S) -> S] /\ IsInjective(f)
  BY <1>2 DEF Bijection, Injection, IsInjective
<1> DEFINE s == SetToSeq(S)
<1>4. s \in [1 .. Cardinality(S) -> S] /\ IsInjective(s)
  BY <1>3 DEF SetToSeq
<1> HIDE DEF s
<1>5. s \in Injection(1 .. Cardinality(S), S)
  BY <1>4 DEF IsInjective, Injection
<1>6. s \in Surjection(1 .. Cardinality(S), S)
  <2>1. IsFiniteSet(1 .. Cardinality(S)) /\ Cardinality(1 .. Cardinality(S)) = Cardinality(S)
    BY <1>1, FS_Interval
  <2> QED BY <1>5, <2>1, FS_Injection
<1>7. s \in Seq(S) /\ DOMAIN s = 1 .. Cardinality(S) BY <1>1, <1>4
<1>8. ToSet(s) = S BY <1>4, <1>6, <1>7 DEF ToSet, Surjection
<1> QED BY <1>7, <1>8 DEF s

LEMMA MembersOf ==
  ASSUME NEW S, NEW s \in Seq(S)
  PROVE  /\ ToSet(s) \subseteq S
         /\ \A i \in 1 .. Len(s) : s[i] \in ToSet(s)
         /\ \A x \in ToSet(s) : \E i \in 1 .. Len(s) : s[i] = x
BY DEF ToSet

LEMMA ConcatMembers ==
  ASSUME NEW S, NEW s \in Seq(S), NEW t \in Seq(S)
  PROVE  s \o t \in Seq(S) /\ ToSet(s \o t) = ToSet(s) \cup ToSet(t)
<1>1. /\ s \o t \in Seq(S) /\ Len(s \o t) = Len(s) + Len(t)
      /\ \A i \in 1 .. Len(s) + Len(t) : (s \o t)[i] = IF i <= Len(s) THEN s[i] ELSE t[i - Len(s)]
  BY ConcatProperties
<1> DEFINE st == s \o t
<1> HIDE DEF st
<1>2. ASSUME NEW i \in 1 .. Len(st) PROVE st[i] \in ToSet(s) \cup ToSet(t)
  <2>1. CASE i <= Len(s) BY <1>1, <2>1, MembersOf DEF st
  <2>2. CASE ~(i <= Len(s))
    <3>1. i - Len(s) \in 1 .. Len(t) /\ st[i] = t[i - Len(s)] BY <1>1, <2>2 DEF st
    <3> QED BY <3>1, MembersOf
  <2> QED BY <2>1, <2>2
<1>3. ASSUME NEW i \in 1 .. Len(s) PROVE s[i] \in ToSet(st)
  <2>1. i \in 1 .. Len(st) /\ st[i] = s[i] BY <1>1 DEF st
  <2> QED BY <1>1, <2>1, MembersOf DEF st
<1>4. ASSUME NEW i \in 1 .. Len(t) PROVE t[i] \in ToSet(st)
  <2>1. Len(s) \in Nat /\ Len(t) \in Nat OBVIOUS
  <2>2. i + Len(s) \in 1 .. Len(st) /\ i + Len(s) \in 1 .. Len(s) + Len(t) BY <1>1, <2>1 DEF st
  <2>3. ~(i + Len(s) <= Len(s)) /\ (i + Len(s)) - Len(s) = i BY <2>1
  <2>4. st[i + Len(s)] = t[i] BY <1>1, <2>2, <2>3 DEF st
  <2> QED BY <1>1, <2>2, <2>4, MembersOf DEF st
<1>5. st \in Seq(S) BY <1>1 DEF st
<1>6. ToSet(st) = ToSet(s) \cup ToSet(t) BY <1>2, <1>3, <1>4, <1>5, MembersOf
<1> QED BY <1>5, <1>6 DEF st

IsFlat(f, seqs, n) == f = [i \in 1 .. n |-> IF i = 1 THEN seqs[i] ELSE f[i - 1] \o seqs[i]]

LEMMA FlatDefined ==
  ASSUME NEW seqs, NEW n \in Nat
  PROVE  \E f : IsFlat(f, seqs, n)
<1> DEFINE bad == {k \in Nat : ~\E f : IsFlat(f, seqs, k)}
<1> SUFFICES ASSUME bad # {} PROVE FALSE
  OBVIOUS
<1>1. PICK k \in bad : \A m \in bad : k <= m
  <2>1. bad \subseteq Nat OBVIOUS
  <2> HIDE DEF bad
  <2> QED BY <2>1, LeastNumber
<1>2. k # 0
  <2>1. IsFlat([i \in 1 .. 0 |-> i], seqs, 0) BY DEF IsFlat
  <2> QED BY <2>1
<1>3. k \in Nat /\ k - 1 \in Nat /\ k - 1 < k BY <1>2
<1>4. k - 1 \notin bad
  <2> HIDE DEF bad
  <2> QED BY <1>1, <1>3
<1>5. PICK f : IsFlat(f, seqs, k - 1) BY <1>3, <1>4
<1> DEFINE g == [i \in 1 .. k |->
                   IF i = k THEN IF i = 1 THEN seqs[i] ELSE f[i - 1] \o seqs[i] ELSE f[i]]
<1>6. ASSUME NEW i \in 1 .. k
      PROVE  g[i] = IF i = 1 THEN seqs[i] ELSE g[i - 1] \o seqs[i]
  <2>1. CASE i = k
    <3>1. i # 1 => g[i - 1] = f[i - 1] BY <1>3, <2>1
    <3> QED BY <2>1, <3>1
  <2>2. CASE i # k
    <3>1. i \in 1 .. k - 1 BY <1>3, <2>2
    <3>2. f[i] = IF i = 1 THEN seqs[i] ELSE f[i - 1] \o seqs[i] BY <1>5, <3>1 DEF IsFlat
    <3>3. i # 1 => g[i - 1] = f[i - 1] BY <1>3, <3>1
    <3> QED BY <2>2, <3>2, <3>3
  <2> QED BY <2>1, <2>2
<1>7. g = [i \in 1 .. k |-> g[i]] OBVIOUS
<1> HIDE DEF g
<1>8. IsFlat(g, seqs, k) BY <1>6, <1>7 DEF IsFlat
<1> QED BY <1>1, <1>8

\* FlattenSeq keeps every member and adds none.
LEMMA FlattenMembers ==
  ASSUME NEW S, NEW seqs \in Seq(Seq(S))
  PROVE  /\ FlattenSeq(seqs) \in Seq(S)
         /\ ToSet(FlattenSeq(seqs)) = UNION {ToSet(seqs[i]) : i \in 1 .. Len(seqs)}
<1> DEFINE n == Len(seqs)
<1>1. CASE n = 0
  <2>1. FlattenSeq(seqs) = seqs BY <1>1 DEF FlattenSeq
  <2>2. seqs = <<>> /\ 1 .. n = {} BY <1>1
  <2> QED BY <2>1, <2>2 DEF ToSet
<1>2. CASE n # 0
  <2> DEFINE f == CHOOSE f : IsFlat(f, seqs, n)
             Upto(k) == UNION {ToSet(seqs[i]) : i \in 1 .. k}
             Fits(k) == f[k] \in Seq(S) /\ ToSet(f[k]) = Upto(k)
             bad == {k \in 1 .. n : ~Fits(k)}
  <2>1. n \in Nat /\ IsFlat(f, seqs, n) BY FlatDefined
  <2>2. FlattenSeq(seqs) = f[n] BY <1>2 DEF FlattenSeq, IsFlat
  <2> HIDE DEF f
  <2>3. \A i \in 1 .. n : f[i] = IF i = 1 THEN seqs[i] ELSE f[i - 1] \o seqs[i]
    BY <2>1 DEF IsFlat
  <2>4. ASSUME bad # {} PROVE FALSE
    <3>1. PICK k \in bad : \A m \in bad : k <= m
      <4>1. bad \subseteq Nat OBVIOUS
      <4> HIDE DEF bad
      <4> QED BY <2>4, <4>1, LeastNumber
    <3>2. k \in 1 .. n /\ seqs[k] \in Seq(S) BY <2>1
    <3>3. CASE k = 1
      <4>1. f[k] = seqs[1] BY <2>3, <3>2, <3>3
      <4>2. 1 .. 1 = {1} OBVIOUS
      <4> QED BY <3>2, <3>3, <4>1, <4>2
    <3>4. CASE k # 1
      <4>1. k - 1 \in 1 .. n /\ ~(k <= k - 1) BY <2>1, <3>2, <3>4
      <4>2. Fits(k - 1)
        <5> HIDE DEF Fits
        <5> QED BY <3>1, <4>1
      <4>3. f[k] = f[k - 1] \o seqs[k] BY <2>3, <3>2, <3>4
      <4>4. f[k] \in Seq(S) /\ ToSet(f[k]) = ToSet(f[k - 1]) \cup ToSet(seqs[k])
        BY <3>2, <4>2, <4>3, ConcatMembers
      <4>5. 1 .. k = (1 .. k - 1) \cup {k} BY <3>2, <4>1
      <4>6. Upto(k) = Upto(k - 1) \cup ToSet(seqs[k]) BY <4>5
      <4> QED BY <4>2, <4>4, <4>6
    <3> QED BY <3>3, <3>4
  <2>5. Fits(n)
    <3>1. n \in 1 .. n BY <1>2, <2>1
    <3> HIDE DEF Fits
    <3> QED BY <2>4, <3>1
  <2> QED BY <2>2, <2>5
<1> QED BY <1>1, <1>2

----------------------------------------------------------------------------
(* What an action makes of a document with single inputs.                  *)

LEMMA RemainingOfOne ==
  ASSUME NEW b, NEW n, NEW i, b.items = <<i>>
  PROVE  Remaining(b, n) = IF i.source = n THEN <<>> ELSE <<i>>
<1> DEFINE rest == IF i.source = n THEN <<>> ELSE <<i>>
           Is(f) == f = [k \in 0 .. 1 |->
                      IF k = 0 THEN <<>>
                      ELSE IF b.items[k].source = n THEN f[k - 1] ELSE Append(f[k - 1], b.items[k])]
           f0 == [k \in 0 .. 1 |-> IF k = 0 THEN <<>> ELSE rest]
<1>1. Append(<<>>, i) = <<i>> OBVIOUS
<1>2. 0 .. 1 = {0, 1} /\ b.items[1] = i /\ Len(b.items) = 1 OBVIOUS
<1>3. Is(f0)
  <2>1. f0[0] = <<>> /\ f0[1] = rest BY <1>2
  <2>2. ASSUME NEW k \in 0 .. 1
        PROVE  f0[k] = IF k = 0 THEN <<>>
                      ELSE IF b.items[k].source = n THEN f0[k - 1] ELSE Append(f0[k - 1], b.items[k])
    <3>1. CASE k = 0 BY <2>1, <3>1
    <3>2. CASE k = 1
      <4>1. k - 1 = 0 BY <3>2
      <4> HIDE DEF f0
      <4> QED BY <1>1, <1>2, <2>1, <3>2, <4>1
    <3> QED BY <1>2, <3>1, <3>2
  <2>3. f0 = [k \in 0 .. 1 |-> f0[k]] OBVIOUS
  <2> HIDE DEF f0
  <2> QED BY <2>2, <2>3
<1> DEFINE g == CHOOSE f : Is(f)
<1>4. Is(g) 
  <2> HIDE DEF Is, f0
  <2> QED BY <1>3
<1>5. Remaining(b, n) = g[1] BY <1>2 DEF Remaining
<1> HIDE DEF g
<1>6. g[0] = <<>> BY <1>4
<1>7. g[1] = rest
  <2>1. 1 \in 0 .. 1 /\ 1 # 0 /\ 1 - 1 = 0 OBVIOUS
  <2>2. g[1] = IF b.items[1].source = n THEN g[1 - 1] ELSE Append(g[1 - 1], b.items[1])
    <3> HIDE DEF rest
    <3> QED BY <1>4, <2>1
  <2> QED BY <1>1, <1>2, <1>6, <2>1, <2>2
<1> QED BY <1>5, <1>7

LEMMA PutIs ==
  ASSUME NEW f, IsMap(f), NEW k, NEW x
  PROVE  /\ IsMap(Put(f, k, x)) /\ DOMAIN Put(f, k, x) = DOMAIN f \cup {k}
         /\ Put(f, k, x)[k] = x /\ \A j \in DOMAIN f : j # k => Put(f, k, x)[j] = f[j]
         /\ IsFiniteSet(DOMAIN f) => IsFiniteSet(DOMAIN Put(f, k, x))
<1>1. DOMAIN Put(f, k, x) = DOMAIN f \cup {k} BY DEF Put
<1>2. IsFiniteSet(DOMAIN f) => IsFiniteSet(DOMAIN Put(f, k, x)) BY <1>1, FS_AddElement
<1>3. IsMap(Put(f, k, x)) BY DEF Put, IsMap
<1>4. Put(f, k, x)[k] = x /\ \A j \in DOMAIN f : j # k => Put(f, k, x)[j] = f[j] BY DEF Put
<1> QED BY <1>1, <1>2, <1>3, <1>4

LEMMA DropIs ==
  ASSUME NEW f, IsMap(f), NEW k
  PROVE  /\ IsMap(Drop(f, k)) /\ DOMAIN Drop(f, k) = DOMAIN f \ {k}
         /\ \A j \in DOMAIN f : j # k => Drop(f, k)[j] = f[j]
         /\ IsFiniteSet(DOMAIN f) => IsFiniteSet(DOMAIN Drop(f, k))
<1>1. DOMAIN Drop(f, k) = DOMAIN f \ {k} BY DEF Drop, Restrict
<1>2. IsFiniteSet(DOMAIN f) => IsFiniteSet(DOMAIN Drop(f, k)) BY <1>1, FS_Subset
<1> QED BY <1>1, <1>2 DEF Drop, Restrict, IsMap

\* What becomes of the node that an action is about.
NodeAfter(d, a) ==
  CASE a.kind = "AddNode" -> a.as
    [] a.kind = "ReplaceNodeParameters" ->
         [contract |-> d.nodes[a.node].contract, parameters |-> a.parameters,
          position |-> d.nodes[a.node].position]
    [] a.kind = "SelectNodeCapability" ->
         [contract |-> a.contract, parameters |-> a.parameters,
          position |-> d.nodes[a.node].position]
    [] a.kind = "MoveNode" ->
         [contract |-> d.nodes[a.node].contract, parameters |-> d.nodes[a.node].parameters,
          position |-> a.position]
NodeKinds == {"AddNode", "ReplaceNodeParameters", "SelectNodeCapability", "MoveNode"}
Source(d, t) == d.bindings[t].items[1].source
Id(d, t) == d.bindings[t].items[1].id
Untouched(d, n) == {t \in DOMAIN d.bindings : t[1] # n /\ Source(d, t) # n}

LEMMA NodeActionDoes ==
  ASSUME NEW r, NEW d, Tidy(d, r), NEW a, a.kind \in NodeKinds, NEW c \in ApplyAction(d, a)
  PROVE  /\ a.node \in DOMAIN d.nodes <=> a.kind # "AddNode"
         /\ c = [d EXCEPT !.nodes = Put(d.nodes, a.node, NodeAfter(d, a))]
<1> DEFINE n == a.node
           node == d.nodes[n]
<1>1. /\ d = [revision |-> d.revision, updated |-> d.updated, nodes |-> d.nodes,
              bindings |-> d.bindings]
      /\ d.nodes = [m \in DOMAIN d.nodes |-> d.nodes[m]]
      /\ n \in DOMAIN d.nodes =>
           node = [contract |-> node.contract, parameters |-> node.parameters,
                   position |-> node.position]
  BY DEF Tidy, IsMap, IsNode
<1>2. CASE a.kind = "AddNode"
  BY <1>2, <1>1 DEF ApplyAction, AddNode, NodeAfter
<1>3. ASSUME n \in DOMAIN d.nodes, NEW new, NEW e, e = [d.nodes EXCEPT ![n] = new]
      PROVE  e = Put(d.nodes, n, new)
  BY <1>1, <1>3 DEF Put
<1>4. CASE a.kind = "ReplaceNodeParameters"
  <2>1. n \in DOMAIN d.nodes /\ c = [d EXCEPT !.nodes[n].parameters = a.parameters]
    BY <1>4 DEF ApplyAction, ReplaceNodeParameters
  <2>2. c = [d EXCEPT !.nodes = [d.nodes EXCEPT ![n] = NodeAfter(d, a)]]
    BY <1>1, <1>4, <2>1 DEF NodeAfter
  <2> QED BY <1>3, <1>4, <2>1, <2>2
<1>5. CASE a.kind = "SelectNodeCapability"
  <2>1. /\ n \in DOMAIN d.nodes
        /\ c = [d EXCEPT !.nodes[n] = [contract |-> a.contract, parameters |-> a.parameters,
                                       position |-> node.position]]
    BY <1>1, <1>5 DEF ApplyAction, SelectNodeCapability
  <2>3. c = [d EXCEPT !.nodes = [d.nodes EXCEPT ![n] = NodeAfter(d, a)]]
    BY <1>1, <1>5, <2>1 DEF NodeAfter
  <2> QED BY <1>3, <1>5, <2>1, <2>3
<1>6. CASE a.kind = "MoveNode"
  <2>1. n \in DOMAIN d.nodes /\ c = [d EXCEPT !.nodes[n].position = a.position]
    BY <1>6 DEF ApplyAction, MoveNode
  <2>2. c = [d EXCEPT !.nodes = [d.nodes EXCEPT ![n] = NodeAfter(d, a)]]
    BY <1>1, <1>6, <2>1 DEF NodeAfter
  <2> QED BY <1>3, <1>6, <2>1, <2>2
<1> QED BY <1>2, <1>4, <1>5, <1>6 DEF NodeKinds

LEMMA ItemOf ==
  ASSUME NEW r, NEW d, Tidy(d, r), NEW t \in DOMAIN d.bindings
  PROVE  /\ d.bindings[t].items = <<d.bindings[t].items[1]>>
         /\ d.bindings[t] = [ordered |-> d.bindings[t].ordered, items |-> d.bindings[t].items]
<1> DEFINE b == d.bindings[t]
<1>1. b = [ordered |-> b.ordered, items |-> <<b.items[1]>>] BY DEF Tidy, IsBinding
<1> HIDE DEF b
<1>2. b.items = <<b.items[1]>> /\ b = [ordered |-> b.ordered, items |-> b.items] BY <1>1
<1> QED BY <1>2 DEF b

LEMMA RemovalDoes ==
  ASSUME NEW r, NEW d, Tidy(d, r), NEW a, a.kind = "RemoveNode", NEW c \in ApplyAction(d, a)
  PROVE  /\ a.node \in DOMAIN d.nodes
         /\ c = [d EXCEPT !.nodes = Drop(d.nodes, a.node),
                          !.bindings = Restrict(d.bindings, Untouched(d, a.node))]
<1> DEFINE n == a.node
           kept == {t \in DOMAIN d.bindings : t[1] # n /\ Remaining(d.bindings[t], n) # <<>>}
           B == [t \in kept |-> [d.bindings[t] EXCEPT !.items = Remaining(d.bindings[t], n)]]
<1>1. /\ d = [revision |-> d.revision, updated |-> d.updated, nodes |-> d.nodes,
              bindings |-> d.bindings]
  BY DEF Tidy
<1>2. n \in DOMAIN d.nodes /\ c = [d EXCEPT !.nodes = Drop(d.nodes, n), !.bindings = B]
  BY <1>1 DEF ApplyAction, RemoveNode
<1>3. ASSUME NEW t \in DOMAIN d.bindings
      PROVE  /\ Remaining(d.bindings[t], n) = IF Source(d, t) = n THEN <<>> ELSE d.bindings[t].items
             /\ d.bindings[t].items # <<>>
             /\ d.bindings[t] = [ordered |-> d.bindings[t].ordered, items |-> d.bindings[t].items]
  <2> DEFINE b == d.bindings[t]
  <2>1. b.items = <<b.items[1]>> /\ b = [ordered |-> b.ordered, items |-> b.items]
    BY ItemOf, Zenon
  <2> HIDE DEF b
  <2>2. Remaining(b, n) = IF b.items[1].source = n THEN <<>> ELSE <<b.items[1]>>
    BY <2>1, RemainingOfOne
  <2>3. b.items # <<>> BY <2>1
  <2> QED BY <2>1, <2>2, <2>3 DEF b, Source
<1>4. \A t \in DOMAIN d.bindings : d.bindings[t].items # <<>>
  BY <1>3
<1>5. kept = Untouched(d, n) BY <1>3, <1>4 DEF Untouched
<1>6. ASSUME NEW t \in kept
      PROVE  [d.bindings[t] EXCEPT !.items = Remaining(d.bindings[t], n)] = d.bindings[t]
  <2>1. Remaining(d.bindings[t], n) = d.bindings[t].items BY <1>3
  <2>2. d.bindings[t] = [ordered |-> d.bindings[t].ordered, items |-> d.bindings[t].items]
    BY <1>3
  <2> QED BY <2>1, <2>2
<1>7. B = Restrict(d.bindings, Untouched(d, n)) BY <1>5, <1>6 DEF Restrict
<1> QED BY <1>2, <1>7

LEMMA BindingDoes ==
  ASSUME NEW r, NEW d, Tidy(d, r), NEW a, a.kind = "BindSingleInput", NEW c \in ApplyAction(d, a)
  PROVE  /\ a.target \notin DOMAIN d.bindings
         /\ c = [d EXCEPT !.bindings = Put(d.bindings, a.target,
                                           [ordered |-> FALSE, items |-> <<a.item>>])]
BY DEF ApplyAction, BindSingleInput, Tidy

LEMMA UnbindingDoes ==
  ASSUME NEW r, NEW d, Tidy(d, r), NEW a, a.kind = "RemoveInputItem", NEW c \in ApplyAction(d, a)
  PROVE  /\ a.target \in DOMAIN d.bindings /\ Id(d, a.target) = a.id
         /\ c = [d EXCEPT !.bindings = Drop(d.bindings, a.target)]
<1> DEFINE items == d.bindings[a.target].items
<1>1. PICK p \in Position(d, a.target, a.id) : c = SetItems(d, a.target, RemoveAt(items, p))
  BY DEF ApplyAction, RemoveInputItem
<1>2. a.target \in DOMAIN d.bindings /\ p \in DOMAIN items /\ items[p].id = a.id
  BY <1>1 DEF Position
<1>3. items = <<items[1]>>
  <2>1. ASSUME NEW t \in DOMAIN d.bindings
        PROVE  /\ d.bindings[t].items = <<d.bindings[t].items[1]>>
               /\ d.bindings[t] = [ordered |-> d.bindings[t].ordered, items |-> d.bindings[t].items]
    BY ItemOf, Zenon
  <2>2. \A t \in DOMAIN d.bindings : d.bindings[t].items = <<d.bindings[t].items[1]>>
    BY <2>1
  <2> QED BY <1>2, <2>2
<1> DEFINE i == items[1]
<1> HIDE DEF items, i
<1>4. DOMAIN <<i>> = {1} OBVIOUS
<1>5. p = 1 /\ items[1].id = a.id BY <1>2, <1>3, <1>4 DEF i
<1>6. SubSeq(<<i>>, 1, 0) = <<>> /\ SubSeq(<<i>>, 2, 1) = <<>> /\ Len(<<i>>) = 1 /\ 1 - 1 = 0 /\ 1 + 1 = 2
  OBVIOUS
<1>7. RemoveAt(<<i>>, 1) = <<>> BY <1>6 DEF RemoveAt
<1>8. c = [d EXCEPT !.bindings = Drop(@, a.target)] BY <1>1, <1>3, <1>5, <1>7 DEF SetItems, i
<1> QED BY <1>2, <1>5, <1>8 DEF Id, items, Tidy

LEMMA StaysTidy ==
  ASSUME NEW r, NEW d, Tidy(d, r), NEW a, IsChange(a, r), NEW c \in ApplyAction(d, a)
  PROVE  Tidy(c, r)
<1>1. /\ d = [revision |-> d.revision, updated |-> d.updated, nodes |-> d.nodes,
              bindings |-> d.bindings]
      /\ IsMap(d.nodes) /\ IsFiniteSet(DOMAIN d.nodes)
      /\ IsMap(d.bindings) /\ IsFiniteSet(DOMAIN d.bindings)
      /\ \A n \in DOMAIN d.nodes : IsNode(d.nodes[n])
      /\ \A t \in DOMAIN d.bindings : IsBinding(d.bindings[t], r)
  BY DEF Tidy
<1>2. CASE a.kind \in NodeKinds
  <2>1. /\ a.node \in DOMAIN d.nodes <=> a.kind # "AddNode"
        /\ c = [d EXCEPT !.nodes = Put(d.nodes, a.node, NodeAfter(d, a))]
    BY <1>2, NodeActionDoes
  <2>2. IsNode(NodeAfter(d, a))
    BY <1>1, <1>2, <2>1 DEF NodeAfter, IsNode, IsChange, NodeKinds
  <2> DEFINE N == Put(d.nodes, a.node, NodeAfter(d, a))
  <2>3. IsMap(N) /\ IsFiniteSet(DOMAIN N) /\ \A n \in DOMAIN N : IsNode(N[n])
    <3>1. /\ IsMap(N) /\ IsFiniteSet(DOMAIN N) /\ DOMAIN N = DOMAIN d.nodes \cup {a.node}
          /\ N[a.node] = NodeAfter(d, a) /\ \A n \in DOMAIN d.nodes : n # a.node => N[n] = d.nodes[n]
      <4> DEFINE f == d.nodes
                 x == NodeAfter(d, a)
                 k == a.node
      <4>1. IsMap(f) /\ IsFiniteSet(DOMAIN f) BY <1>1
      <4> HIDE DEF f, x, k
      <4>2. /\ IsMap(Put(f, k, x)) /\ IsFiniteSet(DOMAIN Put(f, k, x))
            /\ DOMAIN Put(f, k, x) = DOMAIN f \cup {k}
        BY <4>1, PutIs
      <4>3. Put(f, k, x)[k] = x /\ \A j \in DOMAIN f : j # k => Put(f, k, x)[j] = f[j]
        BY DEF Put
      <4> QED BY <4>2, <4>3 DEF f, x, k
    <3> HIDE DEF N
    <3> QED BY <1>1, <2>2, <3>1
  <2> HIDE DEF N
  <2>4. /\ c = [revision |-> d.revision, updated |-> d.updated, nodes |-> N, bindings |-> d.bindings]
    BY <1>1, <2>1 DEF N
  <2> QED BY <1>1, <2>3, <2>4 DEF Tidy
<1>3. CASE a.kind = "RemoveNode"
  <2>1. c = [d EXCEPT !.nodes = Drop(d.nodes, a.node),
                      !.bindings = Restrict(d.bindings, Untouched(d, a.node))]
    BY <1>3, RemovalDoes
  <2> DEFINE N == Drop(d.nodes, a.node)
             B == Restrict(d.bindings, Untouched(d, a.node))
  <2>2. IsMap(N) /\ IsFiniteSet(DOMAIN N) /\ \A n \in DOMAIN N : IsNode(N[n])
    <3>1. /\ IsMap(N) /\ IsFiniteSet(DOMAIN N) /\ DOMAIN N = DOMAIN d.nodes \ {a.node}
          /\ \A n \in DOMAIN d.nodes : n # a.node => N[n] = d.nodes[n]
      BY <1>1, DropIs, Zenon
    <3> HIDE DEF N
    <3> QED BY <1>1, <3>1
  <2>3. DOMAIN B \subseteq DOMAIN d.bindings /\ IsMap(B) /\ \A t \in DOMAIN B : B[t] = d.bindings[t]
    BY DEF Restrict, Untouched, IsMap
  <2>4. IsFiniteSet(DOMAIN B) /\ \A t \in DOMAIN B : IsBinding(B[t], r) BY <1>1, <2>3, FS_Subset
  <2> HIDE DEF N, B
  <2>5. /\ c = [revision |-> d.revision, updated |-> d.updated, nodes |-> N, bindings |-> B]
    BY <1>1, <2>1 DEF N, B
  <2> QED BY <2>2, <2>3, <2>4, <2>5 DEF Tidy
<1>4. CASE a.kind = "BindSingleInput"
  <2> DEFINE b == [ordered |-> FALSE, items |-> <<a.item>>]
             B == Put(d.bindings, a.target, b)
  <2>1. c = [d EXCEPT !.bindings = B] BY <1>4, BindingDoes
  <2>2. IsBinding(b, r) BY <1>4 DEF IsBinding, IsChange
  <2> HIDE DEF b
  <2>3. IsMap(B) /\ IsFiniteSet(DOMAIN B) /\ \A t \in DOMAIN B : IsBinding(B[t], r)
    <3>1. /\ IsMap(B) /\ IsFiniteSet(DOMAIN B) /\ DOMAIN B = DOMAIN d.bindings \cup {a.target}
          /\ B[a.target] = b
          /\ \A t \in DOMAIN d.bindings : t # a.target => B[t] = d.bindings[t]
      <4> DEFINE f == d.bindings
                 k == a.target
      <4>1. IsMap(f) /\ IsFiniteSet(DOMAIN f) BY <1>1
      <4> HIDE DEF f, k
      <4>2. /\ IsMap(Put(f, k, b)) /\ IsFiniteSet(DOMAIN Put(f, k, b))
            /\ DOMAIN Put(f, k, b) = DOMAIN f \cup {k}
        BY <4>1, PutIs
      <4>3. Put(f, k, b)[k] = b /\ \A j \in DOMAIN f : j # k => Put(f, k, b)[j] = f[j]
        BY DEF Put
      <4> QED BY <4>2, <4>3 DEF f, k
    <3> HIDE DEF B
    <3> QED BY <1>1, <2>2, <3>1
  <2> HIDE DEF B
  <2>4. /\ c = [revision |-> d.revision, updated |-> d.updated, nodes |-> d.nodes, bindings |-> B]
    BY <1>1, <2>1
  <2> QED BY <1>1, <2>3, <2>4 DEF Tidy
<1>5. CASE a.kind = "RemoveInputItem"
  <2> DEFINE B == Drop(d.bindings, a.target)
  <2>1. c = [d EXCEPT !.bindings = B] BY <1>5, UnbindingDoes
  <2>2. IsMap(B) /\ IsFiniteSet(DOMAIN B) /\ \A t \in DOMAIN B : IsBinding(B[t], r)
    <3>1. /\ IsMap(B) /\ IsFiniteSet(DOMAIN B) /\ DOMAIN B = DOMAIN d.bindings \ {a.target}
          /\ \A t \in DOMAIN d.bindings : t # a.target => B[t] = d.bindings[t]
      BY <1>1, DropIs, Zenon
    <3> HIDE DEF B
    <3> QED BY <1>1, <3>1
  <2> HIDE DEF B
  <2>3. /\ c = [revision |-> d.revision, updated |-> d.updated, nodes |-> d.nodes, bindings |-> B]
    BY <1>1, <2>1
  <2> QED BY <1>1, <2>2, <2>3 DEF Tidy
<1> QED BY <1>2, <1>3, <1>4, <1>5 DEF IsChange, SingleInputKinds, NodeKinds

----------------------------------------------------------------------------
(* The actions that turn a document into a draft.                          *)

Wires(inputs, t) == IF t \in DOMAIN inputs THEN <<inputs[t]>> ELSE <<>>
Differs(base, v, t) == Wires(CanonicalToEditor(base).inputs, t) # Wires(v.inputs, t)

Adding(v, n) == [kind |-> "AddNode", node |-> n, as |-> v.nodes[n]]
Selecting(v, n) == [kind |-> "SelectNodeCapability", node |-> n,
                    contract |-> v.nodes[n].contract, parameters |-> v.nodes[n].parameters]
Replacing(v, n) == [kind |-> "ReplaceNodeParameters", node |-> n,
                    parameters |-> v.nodes[n].parameters]
Moving(v, n) == [kind |-> "MoveNode", node |-> n, position |-> v.nodes[n].position]
Removing(n) == [kind |-> "RemoveNode", node |-> n]
Unbinding(base, t) == [kind |-> "RemoveInputItem", target |-> t, id |-> Id(base, t)]
Binding(base, v, t) ==
  [kind |-> "BindSingleInput", target |-> t,
   item |-> [id |-> <<base.revision, t>>, source |-> v.inputs[t][1],
             output |-> v.inputs[t][2], role |-> NoRole]]

ForNode(base, v, n) ==
  IF n \notin DOMAIN base.nodes THEN {Adding(v, n)}
  ELSE (IF base.nodes[n].contract # v.nodes[n].contract THEN {Selecting(v, n)}
        ELSE IF SameEntries(base.nodes[n].parameters, v.nodes[n].parameters) THEN {}
        ELSE {Replacing(v, n)})
       \cup (IF base.nodes[n].position = v.nodes[n].position THEN {} ELSE {Moving(v, n)})
ForTarget(base, v, t) ==
  IF ~Differs(base, v, t) THEN {}
  ELSE (IF t \in DOMAIN base.bindings THEN {Unbinding(base, t)} ELSE {})
       \cup (IF t \in DOMAIN v.inputs THEN {Binding(base, v, t)} ELSE {})
Targets(base, v) == DOMAIN base.bindings \cup DOMAIN v.inputs
TheActions(base, v) ==
  (UNION {ForNode(base, v, n) : n \in DOMAIN v.nodes})
    \cup {Removing(n) : n \in DOMAIN base.nodes \ DOMAIN v.nodes}
    \cup (UNION {ForTarget(base, v, t) : t \in {t \in Targets(base, v) : t[1] \in DOMAIN v.nodes}})

LEMMA OneMember ==
  ASSUME NEW S, NEW x \in S
  PROVE  <<x>> \in Seq(S) /\ ToSet(<<x>>) = {x}
<1>1. DOMAIN <<x>> = {1} OBVIOUS
<1> QED BY <1>1 DEF ToSet

LEMMA NoMember ==
  ASSUME NEW S
  PROVE  <<>> \in Seq(S) /\ ToSet(<<>>) = {}
BY DEF ToSet

LEMMA FlatMap ==
  ASSUME NEW I, NEW S, NEW s \in Seq(I), NEW f \in [I -> Seq(S)],
         NEW seqs \in Seq(Seq(S)), DOMAIN seqs = DOMAIN s, \A i \in DOMAIN s : seqs[i] = f[s[i]]
  PROVE  /\ FlattenSeq(seqs) \in Seq(S)
         /\ ToSet(FlattenSeq(seqs)) = UNION {ToSet(f[x]) : x \in ToSet(s)}
<1>1. Len(seqs) = Len(s) /\ DOMAIN s = 1 .. Len(s) /\ \A i \in 1 .. Len(s) : seqs[i] = f[s[i]]
  OBVIOUS
<1>2. /\ FlattenSeq(seqs) \in Seq(S)
      /\ ToSet(FlattenSeq(seqs)) = UNION {ToSet(seqs[i]) : i \in 1 .. Len(seqs)}
  BY <1>1, FlattenMembers
<1>3. UNION {ToSet(seqs[i]) : i \in 1 .. Len(seqs)} = UNION {ToSet(f[x]) : x \in ToSet(s)}
  <2>1. ASSUME NEW i \in 1 .. Len(seqs) PROVE \E x \in ToSet(s) : seqs[i] = f[x]
    BY <1>1 DEF ToSet
  <2>2. ASSUME NEW x \in ToSet(s) PROVE \E i \in 1 .. Len(seqs) : seqs[i] = f[x]
    BY <1>1 DEF ToSet
  <2> QED BY <2>1, <2>2
<1> QED BY <1>2, <1>3

LEMMA DeclaredIsAll ==
  ASSUME NEW node, IsNode(node), HasItsParameters(node), ~Throws(node)
  PROVE  Declared(node) = node.parameters /\ [node EXCEPT !.parameters = Declared(node)] = node
<1>1. /\ DOMAIN node.parameters \subseteq DOMAIN Registry[node.contract].parameters
      /\ IsMap(node.parameters)
  BY DEF HasItsParameters, Throws, IsNode
<1>2. Declared(node) = node.parameters
  <2> DEFINE p == node.parameters
             q == DOMAIN Registry[node.contract].parameters
  <2>1. DOMAIN p \cap q = DOMAIN p /\ p = [k \in DOMAIN p |-> p[k]] BY <1>1 DEF IsMap
  <2> HIDE DEF p, q
  <2>2. Restrict(p, DOMAIN p \cap q) = p BY <2>1 DEF Restrict
  <2> QED BY <2>2 DEF Declared, p, q
<1>3. [node EXCEPT !.parameters = node.parameters] = node BY DEF IsNode
<1> QED BY <1>2, <1>3

LEMMA NodeActionsAre ==
  ASSUME NEW base, NEW v, WellFormed(v), NEW n \in DOMAIN v.nodes, ~Throws(v.nodes[n]),
         NEW S, ForNode(base, v, n) \subseteq S
  PROVE  NodeActions(base, v, n) \in Seq(S) /\ ToSet(NodeActions(base, v, n)) = ForNode(base, v, n)
<1> DEFINE node == v.nodes[n]
           old == base.nodes[n]
<1>1. Declared(node) = node.parameters /\ [node EXCEPT !.parameters = Declared(node)] = node
  BY DeclaredIsAll DEF WellFormed
<1>2. CASE n \notin DOMAIN base.nodes
  <2>1. NodeActions(base, v, n) = <<Adding(v, n)>> BY <1>1, <1>2 DEF NodeActions, Adding
  <2>2. ForNode(base, v, n) = {Adding(v, n)} BY <1>2 DEF ForNode
  <2> QED BY <2>1, <2>2, OneMember
<1>3. CASE n \in DOMAIN base.nodes
  <2> DEFINE first == IF old.contract # node.contract THEN <<Selecting(v, n)>>
                      ELSE IF SameEntries(old.parameters, node.parameters) THEN <<>>
                      ELSE <<Replacing(v, n)>>
             second == IF old.position = node.position THEN <<>> ELSE <<Moving(v, n)>>
             firsts == IF old.contract # node.contract THEN {Selecting(v, n)}
                       ELSE IF SameEntries(old.parameters, node.parameters) THEN {}
                       ELSE {Replacing(v, n)}
             seconds == IF old.position = node.position THEN {} ELSE {Moving(v, n)}
  <2>1. NodeActions(base, v, n) = first \o second
    <3>1. NodeActions(base, v, n) =
            (IF old.contract # node.contract
             THEN <<[kind |-> "SelectNodeCapability", node |-> n, contract |-> node.contract,
                     parameters |-> Declared(node)]>>
             ELSE IF SameEntries(old.parameters, Declared(node)) THEN <<>>
             ELSE <<[kind |-> "ReplaceNodeParameters", node |-> n, parameters |-> Declared(node)]>>)
            \o (IF old.position = node.position THEN <<>>
                ELSE <<[kind |-> "MoveNode", node |-> n, position |-> node.position]>>)
      BY <1>3 DEF NodeActions
    <3> QED BY <1>1, <3>1, Zenon DEF Selecting, Replacing, Moving
  <2>2. ForNode(base, v, n) = firsts \cup seconds BY <1>3 DEF ForNode
  <2> HIDE DEF node, old
  <2>3. first \in Seq(S) /\ ToSet(first) = firsts
    <3>1. firsts \subseteq S BY <2>2
    <3>2. CASE old.contract # node.contract BY <3>1, <3>2, OneMember
    <3>3. CASE ~(old.contract # node.contract) /\ SameEntries(old.parameters, node.parameters)
      BY <3>3, NoMember
    <3>4. CASE ~(old.contract # node.contract) /\ ~SameEntries(old.parameters, node.parameters)
      BY <3>1, <3>4, OneMember
    <3> QED BY <3>2, <3>3, <3>4
  <2>4. second \in Seq(S) /\ ToSet(second) = seconds
    <3>1. seconds \subseteq S BY <2>2
    <3>2. CASE old.position = node.position BY <3>2, NoMember
    <3>3. CASE old.position # node.position BY <3>1, <3>3, OneMember
    <3> QED BY <3>2, <3>3
  <2> HIDE DEF first, second, firsts, seconds
  <2> QED BY <2>1, <2>2, <2>3, <2>4, ConcatMembers
<1> QED BY <1>2, <1>3

LEMMA BindingActionsAre ==
  ASSUME NEW base, NEW r, Tidy(base, r), NEW v, WellFormed(v), NEW t \in Targets(base, v),
         NEW S, ForTarget(base, v, t) \subseteq S
  PROVE  /\ BindingActions(base, v, t) \in Seq(S)
         /\ ToSet(BindingActions(base, v, t)) = ForTarget(base, v, t)
<1> DEFINE items == base.bindings[t].items
           removed == [i \in DOMAIN items |->
                         [kind |-> "RemoveInputItem", target |-> t, id |-> items[i].id]]
           first == IF t \in DOMAIN base.bindings THEN removed ELSE <<>>
           second == IF t \in DOMAIN v.inputs /\ v.inputs[t][1] \in DOMAIN v.nodes
                     THEN <<Binding(base, v, t)>> ELSE <<>>
<1>1. BindingActions(base, v, t) = IF ~Differs(base, v, t) THEN <<>> ELSE first \o second
  BY DEF BindingActions, Differs, Wires, Binding
<1>2. CASE ~Differs(base, v, t) BY <1>1, <1>2, NoMember DEF ForTarget
<1>3. CASE Differs(base, v, t)
  <2>1. t \in DOMAIN base.bindings => removed = <<Unbinding(base, t)>>
    <3>1. ASSUME t \in DOMAIN base.bindings PROVE items = <<items[1]>> BY <3>1, ItemOf
    <3>2. ASSUME t \in DOMAIN base.bindings PROVE DOMAIN items = {1}
      <4>1. DOMAIN <<items[1]>> = {1} OBVIOUS
      <4> HIDE DEF items
      <4> QED BY <3>1, <3>2, <4>1
    <3>3. Unbinding(base, t) = [kind |-> "RemoveInputItem", target |-> t, id |-> items[1].id]
      BY DEF Unbinding, Id
    <3> HIDE DEF items
    <3> DEFINE u == [kind |-> "RemoveInputItem", target |-> t, id |-> items[1].id]
    <3>4. ASSUME DOMAIN items = {1} PROVE removed = <<u>>
      <4>1. removed = [i \in {1} |-> u] BY <3>4
      <4> HIDE DEF u
      <4>2. [i \in {1} |-> u] = <<u>> OBVIOUS
      <4> QED BY <4>1, <4>2
    <3> QED BY <3>2, <3>3, <3>4
  <2>2. t \in DOMAIN v.inputs => v.inputs[t][1] \in DOMAIN v.nodes BY DEF WellFormed
  <2> DEFINE firsts == IF t \in DOMAIN base.bindings THEN {Unbinding(base, t)} ELSE {}
             seconds == IF t \in DOMAIN v.inputs THEN {Binding(base, v, t)} ELSE {}
  <2>3. ForTarget(base, v, t) = firsts \cup seconds BY <1>3 DEF ForTarget
  <2> HIDE DEF removed
  <2>4. first \in Seq(S) /\ ToSet(first) = firsts
    <3>1. firsts \subseteq S BY <2>3
    <3>2. CASE t \in DOMAIN base.bindings BY <2>1, <3>1, <3>2, OneMember
    <3>3. CASE t \notin DOMAIN base.bindings BY <3>3, NoMember
    <3> QED BY <3>2, <3>3
  <2>5. second \in Seq(S) /\ ToSet(second) = seconds
    <3>1. seconds \subseteq S BY <2>3
    <3>2. CASE t \in DOMAIN v.inputs BY <2>2, <3>1, <3>2, OneMember
    <3>3. CASE t \notin DOMAIN v.inputs BY <3>3, NoMember
    <3> QED BY <3>2, <3>3
  <2> HIDE DEF first, second, firsts, seconds
  <2> QED BY <1>1, <1>3, <2>3, <2>4, <2>5, ConcatMembers
<1> QED BY <1>2, <1>3

\* The actions of the difference, whatever their order.
LEMMA EditorActionsAre ==
  ASSUME NEW base, NEW r, Tidy(base, r), NEW v, WellFormed(v),
         NEW actions \in EditorMutationActions(base, v)
  PROVE  actions \in Seq(TheActions(base, v)) /\ ToSet(actions) = TheActions(base, v)
<1> DEFINE S == TheActions(base, v)
           TargetsOf(n) == SetToSeq({t \in Targets(base, v) : t[1] = n})
           nodes == SetToSeq(DOMAIN v.nodes)
           gone == SetToSeq(DOMAIN base.nodes \ DOMAIN v.nodes)
           removals == [i \in DOMAIN gone |-> Removing(gone[i])]
           Bindings(n) == FlattenSeq([i \in DOMAIN TargetsOf(n) |->
                                        BindingActions(base, v, TargetsOf(n)[i])])
           changes == FlattenSeq([i \in DOMAIN nodes |-> NodeActions(base, v, nodes[i])])
           wirings == FlattenSeq([i \in DOMAIN nodes |-> Bindings(nodes[i])])
<1>1. /\ \A n \in DOMAIN v.nodes : ~Throws(v.nodes[n])
      /\ actions = (removals \o changes) \o wirings
  BY DEF EditorMutationActions, Removing, Targets
<1>2. /\ IsFiniteSet(DOMAIN v.nodes) /\ IsFiniteSet(DOMAIN base.nodes)
      /\ IsFiniteSet(DOMAIN v.inputs) /\ IsFiniteSet(DOMAIN base.bindings)
  BY DEF WellFormed, Tidy
<1>3. nodes \in Seq(DOMAIN v.nodes) /\ ToSet(nodes) = DOMAIN v.nodes
  BY <1>2, SetToSeqIs
<1>4. /\ gone \in Seq(DOMAIN base.nodes \ DOMAIN v.nodes)
      /\ ToSet(gone) = DOMAIN base.nodes \ DOMAIN v.nodes
  <2>1. IsFiniteSet(DOMAIN base.nodes \ DOMAIN v.nodes) BY <1>2, FS_Subset
  <2> QED BY <2>1, SetToSeqIs
<1>5. removals \in Seq(S) /\ ToSet(removals) = {Removing(n) : n \in DOMAIN base.nodes \ DOMAIN v.nodes}
  <2>1. ASSUME NEW n \in DOMAIN base.nodes \ DOMAIN v.nodes PROVE Removing(n) \in S
    <3> DEFINE R == {Removing(m) : m \in DOMAIN base.nodes \ DOMAIN v.nodes}
    <3>1. Removing(n) \in R OBVIOUS
    <3>2. S = (UNION {ForNode(base, v, m) : m \in DOMAIN v.nodes}) \cup R
                \cup (UNION {ForTarget(base, v, t) : t \in {t \in Targets(base, v) : t[1] \in DOMAIN v.nodes}})
      BY DEF TheActions
    <3> HIDE DEF R, S
    <3> QED BY <3>1, <3>2
  <2> HIDE DEF S, gone
  <2>2. removals \in Seq(S) BY <1>4, <2>1
  <2>3. DOMAIN removals = DOMAIN gone /\ \A i \in DOMAIN gone : removals[i] = Removing(gone[i])
    OBVIOUS
  <2> HIDE DEF removals
  <2>4. ToSet(removals) = {Removing(n) : n \in ToSet(gone)} BY <2>3 DEF ToSet
  <2> QED BY <1>4, <2>2, <2>4
<1>6. changes \in Seq(S) /\ ToSet(changes) = UNION {ForNode(base, v, n) : n \in DOMAIN v.nodes}
  <2> DEFINE I == DOMAIN v.nodes
             f == [n \in I |-> NodeActions(base, v, n)]
             seqs == [i \in DOMAIN nodes |-> NodeActions(base, v, nodes[i])]
  <2>1. ASSUME NEW n \in I PROVE f[n] \in Seq(S) /\ ToSet(f[n]) = ForNode(base, v, n)
    <3>1. ForNode(base, v, n) \subseteq S BY DEF TheActions
    <3> HIDE DEF S
    <3> QED BY <1>1, <3>1, NodeActionsAre
  <2>2. nodes \in Seq(I) /\ ToSet(nodes) = I BY <1>3
  <2> HIDE DEF nodes, S, I
  <2>3. f \in [I -> Seq(S)] BY <2>1
  <2>4. DOMAIN seqs = DOMAIN nodes /\ \A i \in DOMAIN nodes : seqs[i] = f[nodes[i]] BY <2>2
  <2>5. changes = FlattenSeq(seqs) OBVIOUS
  <2>6. seqs = [i \in DOMAIN nodes |-> seqs[i]] OBVIOUS
  <2> HIDE DEF f, seqs, changes
  <2>7. seqs \in Seq(Seq(S))
    <3>1. \A i \in DOMAIN nodes : seqs[i] \in Seq(S) BY <2>2, <2>3, <2>4
    <3> QED BY <2>2, <2>6, <3>1
  <2>8. changes \in Seq(S) /\ ToSet(changes) = UNION {ToSet(f[n]) : n \in ToSet(nodes)}
    BY <2>2, <2>3, <2>4, <2>5, <2>7, FlatMap
  <2> QED BY <2>1, <2>2, <2>8 DEF I
<1>7. ASSUME NEW n \in DOMAIN v.nodes
      PROVE  /\ Bindings(n) \in Seq(S)
             /\ ToSet(Bindings(n)) = UNION {ForTarget(base, v, t) : t \in {t \in Targets(base, v) : t[1] = n}}
  <2> DEFINE T == {t \in Targets(base, v) : t[1] = n}
             s == TargetsOf(n)
             f == [t \in T |-> BindingActions(base, v, t)]
             seqs == [i \in DOMAIN s |-> BindingActions(base, v, s[i])]
  <2>1. ASSUME NEW t \in T PROVE f[t] \in Seq(S) /\ ToSet(f[t]) = ForTarget(base, v, t)
    <3>1. t \in Targets(base, v) /\ t[1] \in DOMAIN v.nodes OBVIOUS
    <3>2. ForTarget(base, v, t) \subseteq S
      <4> DEFINE U == {u \in Targets(base, v) : u[1] \in DOMAIN v.nodes}
      <4>1. S = (UNION {ForNode(base, v, m) : m \in DOMAIN v.nodes})
                  \cup {Removing(m) : m \in DOMAIN base.nodes \ DOMAIN v.nodes}
                  \cup (UNION {ForTarget(base, v, u) : u \in U})
        BY DEF TheActions
      <4>2. t \in U BY <3>1
      <4> HIDE DEF U, T, S
      <4> QED BY <4>1, <4>2
    <3> HIDE DEF S
    <3> QED BY <3>1, <3>2, BindingActionsAre
  <2>2. s \in Seq(T) /\ ToSet(s) = T
    <3>1. IsFiniteSet(Targets(base, v)) BY <1>2, FS_Union DEF Targets
    <3>2. IsFiniteSet(T) BY <3>1, FS_Subset
    <3> QED BY <3>2, SetToSeqIs
  <2>5. Bindings(n) = FlattenSeq(seqs) OBVIOUS
  <2> HIDE DEF s, S, T
  <2>3. f \in [T -> Seq(S)] BY <2>1
  <2>4. DOMAIN seqs = DOMAIN s /\ \A i \in DOMAIN s : seqs[i] = f[s[i]] BY <2>2
  <2>6. seqs = [i \in DOMAIN s |-> seqs[i]] OBVIOUS
  <2> HIDE DEF f, seqs, Bindings
  <2>7. seqs \in Seq(Seq(S))
    <3>1. \A i \in DOMAIN s : seqs[i] \in Seq(S) BY <2>2, <2>3, <2>4
    <3> QED BY <2>2, <2>6, <3>1
  <2>8. Bindings(n) \in Seq(S) /\ ToSet(Bindings(n)) = UNION {ToSet(f[t]) : t \in ToSet(s)}
    <3>1. FlattenSeq(seqs) \in Seq(S) /\ ToSet(FlattenSeq(seqs)) = UNION {ToSet(f[t]) : t \in ToSet(s)}
      BY <2>2, <2>3, <2>4, <2>7, FlatMap
    <3> QED BY <2>5, <3>1
  <2> QED BY <2>1, <2>2, <2>8 DEF T
<1>8. /\ wirings \in Seq(S)
      /\ ToSet(wirings) = UNION {ForTarget(base, v, t) : t \in {t \in Targets(base, v) : t[1] \in DOMAIN v.nodes}}
  <2> DEFINE I == DOMAIN v.nodes
             f == [n \in I |-> Bindings(n)]
             seqs == [i \in DOMAIN nodes |-> Bindings(nodes[i])]
             Of(n) == {t \in Targets(base, v) : t[1] = n}
  <2> HIDE DEF Bindings
  <2>1. \A n \in I : f[n] \in Seq(S) /\ ToSet(f[n]) = UNION {ForTarget(base, v, t) : t \in Of(n)}
    BY <1>7
  <2>2. nodes \in Seq(I) /\ ToSet(nodes) = I BY <1>3
  <2> HIDE DEF nodes, S, I, Of
  <2>3. f \in [I -> Seq(S)] BY <2>1
  <2>4. DOMAIN seqs = DOMAIN nodes /\ \A i \in DOMAIN nodes : seqs[i] = f[nodes[i]] BY <2>2
  <2>5. wirings = FlattenSeq(seqs) OBVIOUS
  <2>6. seqs = [i \in DOMAIN nodes |-> seqs[i]] OBVIOUS
  <2> HIDE DEF f, seqs, wirings
  <2>7. seqs \in Seq(Seq(S))
    <3>1. \A i \in DOMAIN nodes : seqs[i] \in Seq(S) BY <2>2, <2>3, <2>4
    <3> QED BY <2>2, <2>6, <3>1
  <2>8. wirings \in Seq(S) /\ ToSet(wirings) = UNION {ToSet(f[n]) : n \in ToSet(nodes)}
    BY <2>2, <2>3, <2>4, <2>5, <2>7, FlatMap
  <2>9. ToSet(wirings) = UNION {UNION {ForTarget(base, v, t) : t \in Of(n)} : n \in I}
    BY <2>1, <2>2, <2>8
  <2>10. UNION {UNION {ForTarget(base, v, t) : t \in Of(n)} : n \in I}
           = UNION {ForTarget(base, v, t) : t \in {t \in Targets(base, v) : t[1] \in DOMAIN v.nodes}}
    BY DEF Of, I
  <2> QED BY <2>8, <2>9, <2>10
<1> HIDE DEF removals, changes, wirings
<1>9. removals \o changes \in Seq(S) /\ ToSet(removals \o changes) = ToSet(removals) \cup ToSet(changes)
  BY <1>5, <1>6, ConcatMembers
<1>10. /\ (removals \o changes) \o wirings \in Seq(S)
       /\ ToSet((removals \o changes) \o wirings)
            = ToSet(removals) \cup ToSet(changes) \cup ToSet(wirings)
  <2> DEFINE both == removals \o changes
  <2>1. both \in Seq(S) /\ ToSet(both) = ToSet(removals) \cup ToSet(changes) BY <1>9
  <2> HIDE DEF both, S
  <2>2. both \o wirings \in Seq(S) /\ ToSet(both \o wirings) = ToSet(both) \cup ToSet(wirings)
    BY <1>8, <2>1, ConcatMembers
  <2> QED BY <2>1, <2>2 DEF both
<1> QED BY <1>1, <1>5, <1>6, <1>8, <1>10 DEF TheActions

----------------------------------------------------------------------------
(* What the actions of the difference bring about, and leave in place.     *)

Wire(c, t) == <<Source(c, t), c.bindings[t].items[1].output>>
\* A node of the draft is there, and one side of it is as drawn.
NodeIs(v, c, n, side) ==
  /\ n \in DOMAIN v.nodes /\ n \in DOMAIN c.nodes
  /\ side = "contract" => c.nodes[n].contract = v.nodes[n].contract
  /\ side = "parameters" => c.nodes[n].parameters = v.nodes[n].parameters
  /\ side = "position" => c.nodes[n].position = v.nodes[n].position
NodeIsGone(v, c, n) == n \notin DOMAIN v.nodes /\ n \notin DOMAIN c.nodes
Wired(base, v, c, t) ==
  IF t \in DOMAIN v.inputs
  THEN /\ t \in DOMAIN c.bindings /\ Wire(c, t) = v.inputs[t]
       /\ Differs(base, v, t) => Id(c, t) = <<base.revision, t>>
  ELSE t \notin DOMAIN c.bindings

LEMMA ActionIs ==
  ASSUME NEW base, NEW r, Tidy(base, r), NEW v, WellFormed(v), NEW a \in TheActions(base, v)
  PROVE  \/ \E n \in DOMAIN v.nodes : a \in {Adding(v, n), Selecting(v, n), Replacing(v, n), Moving(v, n)}
         \/ \E n \in DOMAIN base.nodes \ DOMAIN v.nodes : a = Removing(n)
         \/ \E t \in DOMAIN base.bindings : Differs(base, v, t) /\ a = Unbinding(base, t)
         \/ \E t \in DOMAIN v.inputs : a = Binding(base, v, t)
<1>1. CASE a \in UNION {ForNode(base, v, n) : n \in DOMAIN v.nodes}
  <2>1. PICK n \in DOMAIN v.nodes : a \in ForNode(base, v, n) BY <1>1
  <2>2. a \in {Adding(v, n), Selecting(v, n), Replacing(v, n), Moving(v, n)}
    BY <2>1, Zenon DEF ForNode
  <2> QED BY <2>2
<1>2. CASE a \in {Removing(n) : n \in DOMAIN base.nodes \ DOMAIN v.nodes}
  BY <1>2
<1>3. CASE a \in UNION {ForTarget(base, v, t) : t \in {t \in Targets(base, v) : t[1] \in DOMAIN v.nodes}}
  <2>1. PICK t \in Targets(base, v) : a \in ForTarget(base, v, t) BY <1>3
  <2>2. \/ t \in DOMAIN base.bindings /\ Differs(base, v, t) /\ a = Unbinding(base, t)
        \/ t \in DOMAIN v.inputs /\ a = Binding(base, v, t)
    BY <2>1 DEF ForTarget
  <2> QED BY <2>2
<1> QED BY <1>1, <1>2, <1>3 DEF TheActions

LEMMA ActionIsChange ==
  ASSUME NEW base, NEW r, Tidy(base, r), base.revision \in Nat, NEW v, WellFormed(v),
         NEW a \in TheActions(base, v)
  PROVE  IsChange(a, base.revision + 1)
<1>1. ASSUME NEW n \in DOMAIN v.nodes,
             a \in {Adding(v, n), Selecting(v, n), Replacing(v, n), Moving(v, n)}
      PROVE  IsChange(a, base.revision + 1)
  <2>1. IsNode(v.nodes[n]) /\ IsMap(v.nodes[n].parameters) BY DEF WellFormed, IsNode
  <2> QED BY <1>1, <2>1 DEF IsChange, SingleInputKinds, Adding, Selecting, Replacing, Moving
<1>2. ASSUME NEW n, a = Removing(n) PROVE IsChange(a, base.revision + 1)
  BY <1>2 DEF IsChange, SingleInputKinds, Removing
<1>3. ASSUME NEW t, a = Unbinding(base, t) PROVE IsChange(a, base.revision + 1)
  BY <1>3 DEF IsChange, SingleInputKinds, Unbinding
<1>4. ASSUME NEW t, a = Binding(base, v, t) PROVE IsChange(a, base.revision + 1)
  <2>1. a.kind = "BindSingleInput" /\ a.item.id[1] = base.revision BY <1>4 DEF Binding
  <2>2. base.revision < base.revision + 1 OBVIOUS
  <2> QED BY <2>1, <2>2 DEF IsChange, SingleInputKinds
<1> QED BY <1>1, <1>2, <1>3, <1>4, ActionIs

\* The parts of a document after an action of each kind.
LEMMA AfterNodeAction ==
  ASSUME NEW r, NEW c, Tidy(c, r), NEW a, a.kind \in NodeKinds, NEW e \in ApplyAction(c, a)
  PROVE  e.nodes = Put(c.nodes, a.node, NodeAfter(c, a)) /\ e.bindings = c.bindings
<1>1. c = [revision |-> c.revision, updated |-> c.updated, nodes |-> c.nodes, bindings |-> c.bindings]
  BY DEF Tidy
<1>2. e = [c EXCEPT !.nodes = Put(c.nodes, a.node, NodeAfter(c, a))] BY NodeActionDoes
<1> QED BY <1>1, <1>2

LEMMA AfterRemoval ==
  ASSUME NEW r, NEW c, Tidy(c, r), NEW n, NEW e \in ApplyAction(c, Removing(n))
  PROVE  e.nodes = Drop(c.nodes, n) /\ e.bindings = Restrict(c.bindings, Untouched(c, n))
<1> DEFINE a == Removing(n)
<1>1. c = [revision |-> c.revision, updated |-> c.updated, nodes |-> c.nodes, bindings |-> c.bindings]
  BY DEF Tidy
<1>2. a.kind = "RemoveNode" /\ a.node = n BY DEF Removing
<1> HIDE DEF a
<1>3. e = [c EXCEPT !.nodes = Drop(c.nodes, a.node),
                    !.bindings = Restrict(c.bindings, Untouched(c, a.node))]
  BY <1>2, RemovalDoes DEF a
<1> QED BY <1>1, <1>2, <1>3

LEMMA AfterBinding ==
  ASSUME NEW base, NEW v, NEW t, NEW r, NEW c, Tidy(c, r), NEW e \in ApplyAction(c, Binding(base, v, t))
  PROVE  /\ e.nodes = c.nodes /\ t \notin DOMAIN c.bindings
         /\ e.bindings = Put(c.bindings, t, [ordered |-> FALSE, items |-> <<Binding(base, v, t).item>>])
<1> DEFINE a == Binding(base, v, t)
<1>1. c = [revision |-> c.revision, updated |-> c.updated, nodes |-> c.nodes, bindings |-> c.bindings]
  BY DEF Tidy
<1>2. a.kind = "BindSingleInput" /\ a.target = t BY DEF Binding
<1> HIDE DEF a
<1>3. /\ a.target \notin DOMAIN c.bindings
      /\ e = [c EXCEPT !.bindings = Put(c.bindings, a.target, [ordered |-> FALSE, items |-> <<a.item>>])]
  BY <1>2, BindingDoes DEF a
<1>4. e.nodes = c.nodes /\ e.bindings = Put(c.bindings, t, [ordered |-> FALSE, items |-> <<a.item>>])
  BY <1>1, <1>2, <1>3
<1> QED BY <1>2, <1>3, <1>4 DEF a

LEMMA AfterUnbinding ==
  ASSUME NEW base, NEW t, NEW r, NEW c, Tidy(c, r), NEW e \in ApplyAction(c, Unbinding(base, t))
  PROVE  /\ e.nodes = c.nodes /\ t \in DOMAIN c.bindings /\ Id(c, t) = Id(base, t)
         /\ e.bindings = Drop(c.bindings, t)
<1> DEFINE a == Unbinding(base, t)
<1>1. c = [revision |-> c.revision, updated |-> c.updated, nodes |-> c.nodes, bindings |-> c.bindings]
  BY DEF Tidy
<1>2. a.kind = "RemoveInputItem" /\ a.target = t /\ a.id = Id(base, t) BY DEF Unbinding
<1> HIDE DEF a
<1>3. /\ a.target \in DOMAIN c.bindings /\ Id(c, a.target) = a.id
      /\ e = [c EXCEPT !.bindings = Drop(c.bindings, a.target)]
  BY <1>2, UnbindingDoes DEF a
<1> QED BY <1>1, <1>2, <1>3

LEMMA NodesAfterWiring ==
  ASSUME NEW r, NEW c, Tidy(c, r), NEW a, a.kind \in {"BindSingleInput", "RemoveInputItem"},
         NEW e \in ApplyAction(c, a)
  PROVE  e.nodes = c.nodes
<1>1. c = [revision |-> c.revision, updated |-> c.updated, nodes |-> c.nodes, bindings |-> c.bindings]
  BY DEF Tidy
<1>2. CASE a.kind = "BindSingleInput"
  <2>1. e = [c EXCEPT !.bindings = Put(c.bindings, a.target, [ordered |-> FALSE, items |-> <<a.item>>])]
    BY <1>2, BindingDoes
  <2> QED BY <1>1, <2>1
<1>3. CASE a.kind = "RemoveInputItem"
  <2>1. e = [c EXCEPT !.bindings = Drop(c.bindings, a.target)] BY <1>3, UnbindingDoes
  <2> QED BY <1>1, <2>1
<1> QED BY <1>2, <1>3

LEMMA NodeStays ==
  ASSUME NEW base, NEW r, Tidy(base, r), NEW v, WellFormed(v), NEW a \in TheActions(base, v),
         NEW c, Tidy(c, r), NEW e \in ApplyAction(c, a), NEW n, NEW side, NodeIs(v, c, n, side)
  PROVE  NodeIs(v, e, n, side)
<1>1. ASSUME NEW m \in DOMAIN v.nodes,
             a \in {Adding(v, m), Selecting(v, m), Replacing(v, m), Moving(v, m)}
      PROVE  NodeIs(v, e, n, side)
  <2>1. a.kind \in NodeKinds /\ a.node = m
    BY <1>1 DEF NodeKinds, Adding, Selecting, Replacing, Moving
  <2>2. e.nodes = Put(c.nodes, m, NodeAfter(c, a)) BY <2>1, AfterNodeAction
  <2>3. n # m => n \in DOMAIN e.nodes /\ e.nodes[n] = c.nodes[n]
    BY <2>2 DEF Put, NodeIs
  <2>4. n = m => n \in DOMAIN e.nodes /\ e.nodes[n] = NodeAfter(c, a) BY <2>2 DEF Put
  <2>5. ASSUME n = m PROVE a # Adding(v, m)
    <3>1. a.kind # "AddNode" BY <2>1, <2>5, NodeActionDoes DEF NodeIs
    <3> QED BY <3>1 DEF Adding
  <2>6. ASSUME n = m PROVE NodeIs(v, e, n, side)
    <3>1. a \in {Selecting(v, m), Replacing(v, m), Moving(v, m)} BY <1>1, <2>5, <2>6
    <3>2. NodeAfter(c, a) \in
            {[contract |-> v.nodes[n].contract, parameters |-> v.nodes[n].parameters,
              position |-> c.nodes[n].position],
             [contract |-> c.nodes[n].contract, parameters |-> v.nodes[n].parameters,
              position |-> c.nodes[n].position],
             [contract |-> c.nodes[n].contract, parameters |-> c.nodes[n].parameters,
              position |-> v.nodes[n].position]}
      BY <2>6, <3>1 DEF NodeAfter, Selecting, Replacing, Moving
    <3> QED BY <2>4, <2>6, <3>2 DEF NodeIs
  <2> QED BY <2>3, <2>6 DEF NodeIs
<1>2. ASSUME NEW m \in DOMAIN base.nodes \ DOMAIN v.nodes, a = Removing(m)
      PROVE  NodeIs(v, e, n, side)
  <2>2. e.nodes = Drop(c.nodes, m) BY <1>2, AfterRemoval
  <2>3. n # m BY DEF NodeIs
  <2>4. n \in DOMAIN e.nodes /\ e.nodes[n] = c.nodes[n] BY <2>2, <2>3 DEF Drop, Restrict, NodeIs
  <2> QED BY <2>4 DEF NodeIs
<1>3. ASSUME NEW t, a = Unbinding(base, t) \/ a = Binding(base, v, t) PROVE NodeIs(v, e, n, side)
  <2>1. a.kind \in {"BindSingleInput", "RemoveInputItem"} BY <1>3 DEF Unbinding, Binding
  <2>2. e.nodes = c.nodes BY <2>1, NodesAfterWiring
  <2> QED BY <2>2 DEF NodeIs
<1> QED BY <1>1, <1>2, <1>3, ActionIs

LEMMA NodeIsMade ==
  ASSUME NEW v, NEW r, NEW c, Tidy(c, r), NEW n \in DOMAIN v.nodes, NEW side,
         NEW a, \/ a = Adding(v, n)
                \/ a = Selecting(v, n) /\ side \in {"contract", "parameters"}
                \/ a = Replacing(v, n) /\ side = "parameters"
                \/ a = Moving(v, n) /\ side = "position",
         NEW e \in ApplyAction(c, a)
  PROVE  NodeIs(v, e, n, side)
<1>1. a.kind \in NodeKinds /\ a.node = n BY DEF NodeKinds, Adding, Selecting, Replacing, Moving
<1>2. n \in DOMAIN e.nodes /\ e.nodes[n] = NodeAfter(c, a)
  <2>1. e.nodes = Put(c.nodes, n, NodeAfter(c, a)) BY <1>1, AfterNodeAction
  <2> QED BY <2>1 DEF Put
<1>3. CASE a = Adding(v, n) BY <1>2, <1>3 DEF NodeIs, NodeAfter, Adding
<1>4. CASE a = Selecting(v, n) /\ side \in {"contract", "parameters"}
  BY <1>2, <1>4 DEF NodeIs, NodeAfter, Selecting
<1>5. CASE a = Replacing(v, n) /\ side = "parameters"
  BY <1>2, <1>5 DEF NodeIs, NodeAfter, Replacing
<1>6. CASE a = Moving(v, n) /\ side = "position"
  BY <1>2, <1>6 DEF NodeIs, NodeAfter, Moving
<1> QED BY <1>3, <1>4, <1>5, <1>6

LEMMA NodeStaysGone ==
  ASSUME NEW base, NEW r, Tidy(base, r), NEW v, WellFormed(v), NEW a \in TheActions(base, v),
         NEW c, Tidy(c, r), NEW e \in ApplyAction(c, a), NEW n, NodeIsGone(v, c, n)
  PROVE  NodeIsGone(v, e, n)
<1>1. ASSUME NEW m \in DOMAIN v.nodes,
             a \in {Adding(v, m), Selecting(v, m), Replacing(v, m), Moving(v, m)}
      PROVE  NodeIsGone(v, e, n)
  <2>1. a.kind \in NodeKinds /\ a.node = m
    BY <1>1 DEF NodeKinds, Adding, Selecting, Replacing, Moving
  <2>2. e.nodes = Put(c.nodes, m, NodeAfter(c, a)) BY <2>1, AfterNodeAction
  <2> QED BY <2>2 DEF Put, NodeIsGone
<1>2. ASSUME NEW m, a = Removing(m) PROVE NodeIsGone(v, e, n)
  <2>1. e.nodes = Drop(c.nodes, m) BY <1>2, AfterRemoval
  <2> QED BY <2>1 DEF Drop, Restrict, NodeIsGone
<1>3. ASSUME NEW t, a = Unbinding(base, t) \/ a = Binding(base, v, t) PROVE NodeIsGone(v, e, n)
  <2>1. a.kind \in {"BindSingleInput", "RemoveInputItem"} BY <1>3 DEF Unbinding, Binding
  <2>2. e.nodes = c.nodes BY <2>1, NodesAfterWiring
  <2> QED BY <2>2 DEF NodeIsGone
<1> QED BY <1>1, <1>2, <1>3, ActionIs

LEMMA NodeIsRemoved ==
  ASSUME NEW v, NEW r, NEW c, Tidy(c, r), NEW n, n \notin DOMAIN v.nodes,
         NEW e \in ApplyAction(c, Removing(n))
  PROVE  NodeIsGone(v, e, n)
<1>1. e.nodes = Drop(c.nodes, n) BY AfterRemoval
<1> QED BY <1>1 DEF Drop, Restrict, NodeIsGone

LEMMA WiringStays ==
  ASSUME NEW base, Tidy(base, base.revision), base.revision \in Nat, NEW v, WellFormed(v),
         NEW a \in TheActions(base, v),
         NEW r, NEW c, Tidy(c, r), NEW e \in ApplyAction(c, a), NEW t, Wired(base, v, c, t)
  PROVE  Wired(base, v, e, t)
<1>1. ASSUME t \in DOMAIN e.bindings <=> t \in DOMAIN c.bindings,
             t \in DOMAIN c.bindings => e.bindings[t] = c.bindings[t]
      PROVE  Wired(base, v, e, t)
  BY <1>1 DEF Wired, Wire, Source, Id
<1>2. ASSUME NEW m \in DOMAIN v.nodes,
             a \in {Adding(v, m), Selecting(v, m), Replacing(v, m), Moving(v, m)}
      PROVE  Wired(base, v, e, t)
  <2>1. a.kind \in NodeKinds
    BY <1>2 DEF NodeKinds, Adding, Selecting, Replacing, Moving
  <2>2. e.bindings = c.bindings BY <2>1, AfterNodeAction
  <2> QED BY <1>1, <2>2
<1>3. ASSUME NEW m \in DOMAIN base.nodes \ DOMAIN v.nodes, a = Removing(m)
      PROVE  Wired(base, v, e, t)
  <2>1. e.bindings = Restrict(c.bindings, Untouched(c, m)) BY <1>3, AfterRemoval
  <2>2. DOMAIN e.bindings = Untouched(c, m) /\ \A u \in Untouched(c, m) : e.bindings[u] = c.bindings[u]
    BY <2>1 DEF Restrict
  <2>3. ASSUME t \in DOMAIN v.inputs PROVE t \in Untouched(c, m)
    <3>1. t \in DOMAIN c.bindings /\ Source(c, t) = v.inputs[t][1] BY <2>3 DEF Wired, Wire
    <3>2. t[1] \in DOMAIN v.nodes /\ v.inputs[t][1] \in DOMAIN v.nodes BY <2>3 DEF WellFormed
    <3> QED BY <3>1, <3>2 DEF Untouched
  <2>4. ASSUME t \notin DOMAIN v.inputs PROVE t \notin Untouched(c, m) /\ t \notin DOMAIN c.bindings
    BY <2>4 DEF Wired, Untouched
  <2>5. Untouched(c, m) \subseteq DOMAIN c.bindings BY DEF Untouched
  <2> QED BY <1>1, <2>2, <2>3, <2>4, <2>5
<1>4. ASSUME NEW u \in DOMAIN base.bindings, Differs(base, v, u), a = Unbinding(base, u)
      PROVE  Wired(base, v, e, t)
  <2>1. Id(c, u) = Id(base, u) /\ e.bindings = Drop(c.bindings, u) BY <1>4, AfterUnbinding
  <2>2. ASSUME t = u, t \in DOMAIN v.inputs PROVE FALSE
    <3>1. Id(base, u) = <<base.revision, u>> BY <1>4, <2>1, <2>2 DEF Wired
    <3>2. Id(base, u)[1] \in Nat => Id(base, u)[1] < base.revision BY DEF Tidy, IsBinding, Id
    <3> QED BY <3>1, <3>2
  <2>3. t \in DOMAIN v.inputs => t # u BY <2>2
  <2>4. DOMAIN e.bindings = DOMAIN c.bindings \ {u}
        /\ \A w \in DOMAIN c.bindings : w # u => e.bindings[w] = c.bindings[w]
    BY <2>1 DEF Drop, Restrict
  <2> QED BY <1>1, <2>3, <2>4 DEF Wired
<1>5. ASSUME NEW u \in DOMAIN v.inputs, a = Binding(base, v, u)
      PROVE  Wired(base, v, e, t)
  <2>1. /\ u \notin DOMAIN c.bindings
        /\ e.bindings = Put(c.bindings, u, [ordered |-> FALSE, items |-> <<Binding(base, v, u).item>>])
    BY <1>5, AfterBinding
  <2>2. t # u BY <2>1 DEF Wired
  <2>3. DOMAIN e.bindings = DOMAIN c.bindings \cup {u}
        /\ \A w \in DOMAIN c.bindings : w # u => e.bindings[w] = c.bindings[w]
    BY <2>1 DEF Put
  <2> QED BY <1>1, <2>2, <2>3
<1> QED BY <1>2, <1>3, <1>4, <1>5, ActionIs

LEMMA WiringIsMade ==
  ASSUME NEW base, NEW v, WellFormed(v), NEW r, NEW c, Tidy(c, r), NEW t,
         NEW a, \/ a = Binding(base, v, t) /\ t \in DOMAIN v.inputs
                \/ a = Unbinding(base, t) /\ t \notin DOMAIN v.inputs
                \/ a = Removing(t[1]) /\ t[1] \notin DOMAIN v.nodes,
         NEW e \in ApplyAction(c, a)
  PROVE  Wired(base, v, e, t)
<1>1. CASE a = Binding(base, v, t) /\ t \in DOMAIN v.inputs
  <2> DEFINE i == Binding(base, v, t).item
             b == [ordered |-> FALSE, items |-> <<i>>]
  <2>1. e.bindings = Put(c.bindings, t, b) BY <1>1, AfterBinding
  <2>2. i.id = <<base.revision, t>> /\ i.source = v.inputs[t][1] /\ i.output = v.inputs[t][2]
    BY DEF Binding
  <2> HIDE DEF i
  <2>3. t \in DOMAIN e.bindings /\ e.bindings[t] = b BY <2>1 DEF Put
  <2>4. e.bindings[t].items[1] = i BY <2>3
  <2>5. Wire(e, t) = <<v.inputs[t][1], v.inputs[t][2]>> /\ Id(e, t) = <<base.revision, t>>
    BY <2>2, <2>4 DEF Wire, Source, Id
  <2>6. v.inputs[t] = <<v.inputs[t][1], v.inputs[t][2]>> BY <1>1 DEF WellFormed
  <2>7. Wire(e, t) = v.inputs[t] BY <2>5, <2>6
  <2> QED BY <1>1, <2>3, <2>5, <2>7 DEF Wired
<1>2. CASE a = Unbinding(base, t) /\ t \notin DOMAIN v.inputs
  <2>1. e.bindings = Drop(c.bindings, t) BY <1>2, AfterUnbinding
  <2> QED BY <1>2, <2>1 DEF Wired, Drop, Restrict
<1>3. CASE a = Removing(t[1]) /\ t[1] \notin DOMAIN v.nodes
  <2>1. e.bindings = Restrict(c.bindings, Untouched(c, t[1])) BY <1>3, AfterRemoval
  <2>2. t \notin DOMAIN e.bindings BY <2>1 DEF Restrict, Untouched
  <2>3. t \notin DOMAIN v.inputs BY <1>3 DEF WellFormed
  <2> QED BY <2>2, <2>3 DEF Wired
<1> QED BY <1>1, <1>2, <1>3

\* What is not so from the start comes with one of the actions.
LEMMA NodeIsOrWillBe ==
  ASSUME NEW base, NEW v, NEW n \in DOMAIN v.nodes, NEW side \in {"contract", "parameters", "position"}
  PROVE  \/ NodeIs(v, base, n, side)
         \/ \E a \in TheActions(base, v) :
              \/ a = Adding(v, n)
              \/ a = Selecting(v, n) /\ side \in {"contract", "parameters"}
              \/ a = Replacing(v, n) /\ side = "parameters"
              \/ a = Moving(v, n) /\ side = "position"
<1>1. ForNode(base, v, n) \subseteq TheActions(base, v) BY DEF TheActions
<1>2. CASE n \notin DOMAIN base.nodes
  <2>1. Adding(v, n) \in ForNode(base, v, n) BY <1>2 DEF ForNode
  <2> QED BY <1>1, <2>1
<1>3. CASE n \in DOMAIN base.nodes /\ side = "position"
  <2>1. CASE base.nodes[n].position = v.nodes[n].position BY <1>3, <2>1 DEF NodeIs
  <2>2. CASE base.nodes[n].position # v.nodes[n].position
    <3>1. Moving(v, n) \in ForNode(base, v, n) BY <1>3, <2>2 DEF ForNode
    <3> QED BY <1>1, <1>3, <3>1
  <2> QED BY <2>1, <2>2
<1>4. CASE n \in DOMAIN base.nodes /\ side \in {"contract", "parameters"}
  <2>1. CASE base.nodes[n].contract # v.nodes[n].contract
    <3>1. Selecting(v, n) \in ForNode(base, v, n) BY <1>4, <2>1 DEF ForNode
    <3> QED BY <1>1, <1>4, <3>1
  <2>2. CASE base.nodes[n].contract = v.nodes[n].contract /\ side = "contract"
    BY <1>4, <2>2 DEF NodeIs
  <2>3. CASE base.nodes[n].contract = v.nodes[n].contract /\ side = "parameters"
    <3>1. CASE SameEntries(base.nodes[n].parameters, v.nodes[n].parameters)
      <4>1. base.nodes[n].parameters = v.nodes[n].parameters BY <3>1 DEF SameEntries
      <4> QED BY <1>4, <2>3, <4>1 DEF NodeIs
    <3>2. CASE ~SameEntries(base.nodes[n].parameters, v.nodes[n].parameters)
      <4>1. Replacing(v, n) \in ForNode(base, v, n) BY <1>4, <2>3, <3>2 DEF ForNode
      <4> QED BY <1>1, <2>3, <4>1
    <3> QED BY <3>1, <3>2
  <2> QED BY <1>4, <2>1, <2>2, <2>3
<1> QED BY <1>2, <1>3, <1>4

LEMMA WiredOrWillBe ==
  ASSUME NEW base, Showable(base), NEW v, WellFormed(v), NEW t
  PROVE  \/ Wired(base, v, base, t)
         \/ \E a \in TheActions(base, v) :
              \/ a = Binding(base, v, t) /\ t \in DOMAIN v.inputs
              \/ a = Unbinding(base, t) /\ t \notin DOMAIN v.inputs
              \/ a = Removing(t[1]) /\ t[1] \notin DOMAIN v.nodes
<1> DEFINE inputs == CanonicalToEditor(base).inputs
<1>1. DOMAIN inputs = DOMAIN base.bindings /\ \A u \in DOMAIN base.bindings : inputs[u] = Wire(base, u)
  BY DEF CanonicalToEditor, Wire, Source
<1> HIDE DEF inputs
<1>2. CASE t \notin Targets(base, v)
  BY <1>2 DEF Targets, Wired
<1>3. CASE t \in Targets(base, v) /\ ~Differs(base, v, t)
  <2>1. Wires(inputs, t) = Wires(v.inputs, t) BY <1>3 DEF Differs, inputs
  <2>2. ASSUME NEW x PROVE <<x>> # <<>> OBVIOUS
  <2>3. t \in DOMAIN inputs /\ t \in DOMAIN v.inputs
    <3>1. t \in DOMAIN inputs \/ t \in DOMAIN v.inputs BY <1>1, <1>3 DEF Targets
    <3> QED BY <2>1, <2>2, <3>1 DEF Wires
  <2>4. <<inputs[t]>> = <<v.inputs[t]>> BY <2>1, <2>3 DEF Wires
  <2>5. inputs[t] = v.inputs[t] BY <2>4
  <2> QED BY <1>1, <1>3, <2>3, <2>5 DEF Wired
<1>4. CASE t \in Targets(base, v) /\ Differs(base, v, t) /\ t[1] \in DOMAIN v.nodes
  <2>1. ForTarget(base, v, t) \subseteq TheActions(base, v)
    <3> DEFINE U == {u \in Targets(base, v) : u[1] \in DOMAIN v.nodes}
    <3>1. TheActions(base, v) = (UNION {ForNode(base, v, m) : m \in DOMAIN v.nodes})
                \cup {Removing(m) : m \in DOMAIN base.nodes \ DOMAIN v.nodes}
                \cup (UNION {ForTarget(base, v, u) : u \in U})
      BY DEF TheActions
    <3>2. t \in U BY <1>4
    <3> HIDE DEF U
    <3> QED BY <3>1, <3>2
  <2>2. CASE t \in DOMAIN v.inputs
    <3>1. Binding(base, v, t) \in ForTarget(base, v, t) BY <1>4, <2>2 DEF ForTarget
    <3> QED BY <2>1, <2>2, <3>1
  <2>3. CASE t \notin DOMAIN v.inputs
    <3>1. Unbinding(base, t) \in ForTarget(base, v, t) BY <1>4, <2>3 DEF ForTarget, Targets
    <3> QED BY <2>1, <2>3, <3>1
  <2> QED BY <2>2, <2>3
<1>5. CASE t \in Targets(base, v) /\ t[1] \notin DOMAIN v.nodes
  <2>1. t \notin DOMAIN v.inputs BY <1>5 DEF WellFormed
  <2>2. t \in DOMAIN inputs BY <1>1, <1>5, <2>1 DEF Targets
  <2>3. t[1] \in DOMAIN base.nodes
    <3>1. t[1] \in DOMAIN CanonicalToEditor(base).nodes BY <2>2 DEF Showable, WellFormed, inputs
    <3> QED BY <3>1 DEF CanonicalToEditor
  <2>4. Removing(t[1]) \in TheActions(base, v)
    <3> DEFINE R == {Removing(m) : m \in DOMAIN base.nodes \ DOMAIN v.nodes}
    <3>1. Removing(t[1]) \in R BY <1>5, <2>3
    <3>2. TheActions(base, v) = (UNION {ForNode(base, v, m) : m \in DOMAIN v.nodes}) \cup R
                \cup (UNION {ForTarget(base, v, u) : u \in {u \in Targets(base, v) : u[1] \in DOMAIN v.nodes}})
      BY DEF TheActions
    <3> HIDE DEF R
    <3> QED BY <3>1, <3>2
  <2> QED BY <1>5, <2>4
<1> QED BY <1>2, <1>3, <1>4, <1>5

LEMMA NodeIsGoneOrWillBe ==
  ASSUME NEW base, NEW v, NEW n, n \notin DOMAIN v.nodes
  PROVE  NodeIsGone(v, base, n) \/ Removing(n) \in TheActions(base, v)
<1>1. CASE n \notin DOMAIN base.nodes BY <1>1 DEF NodeIsGone
<1>2. CASE n \in DOMAIN base.nodes
  <2> DEFINE R == {Removing(m) : m \in DOMAIN base.nodes \ DOMAIN v.nodes}
  <2>1. Removing(n) \in R BY <1>2
  <2>2. TheActions(base, v) = (UNION {ForNode(base, v, m) : m \in DOMAIN v.nodes}) \cup R
              \cup (UNION {ForTarget(base, v, u) : u \in {u \in Targets(base, v) : u[1] \in DOMAIN v.nodes}})
    BY DEF TheActions
  <2> HIDE DEF R
  <2> QED BY <2>1, <2>2
<1> QED BY <1>1, <1>2

\* Nothing is left to do: the document shows as the draft.
LEMMA NothingLeft ==
  ASSUME NEW base, NEW v, WellFormed(v), NEW c, NEW r, Tidy(c, r),
         \A n \in DOMAIN v.nodes : \A side \in {"contract", "parameters", "position"} : NodeIs(v, c, n, side),
         \A n \in DOMAIN c.nodes : n \in DOMAIN v.nodes,
         \A t \in DOMAIN v.inputs \cup DOMAIN c.bindings : Wired(base, v, c, t)
  PROVE  CanonicalToEditor(c) = v
<1>1. DOMAIN c.nodes = DOMAIN v.nodes BY DEF NodeIs
<1>2. ASSUME NEW n \in DOMAIN v.nodes PROVE c.nodes[n] = v.nodes[n]
  <2>1. IsNode(c.nodes[n]) /\ IsNode(v.nodes[n]) BY <1>1 DEF Tidy, WellFormed
  <2>2. /\ c.nodes[n].contract = v.nodes[n].contract
        /\ c.nodes[n].parameters = v.nodes[n].parameters
        /\ c.nodes[n].position = v.nodes[n].position
    BY DEF NodeIs
  <2> QED BY <2>1, <2>2 DEF IsNode
<1>3. c.nodes = v.nodes BY <1>1, <1>2 DEF Tidy, WellFormed, IsMap
<1>4. DOMAIN c.bindings = DOMAIN v.inputs BY DEF Wired
<1>5. \A t \in DOMAIN v.inputs : Wire(c, t) = v.inputs[t] BY DEF Wired
<1>6. CanonicalToEditor(c).inputs = v.inputs
  <2>1. CanonicalToEditor(c).inputs = [t \in DOMAIN c.bindings |-> Wire(c, t)]
    BY DEF CanonicalToEditor, Wire, Source
  <2> QED BY <1>4, <1>5, <2>1 DEF WellFormed, IsMap
<1>7. CanonicalToEditor(c) = [nodes |-> c.nodes, inputs |-> CanonicalToEditor(c).inputs]
  BY DEF CanonicalToEditor
<1> QED BY <1>3, <1>6, <1>7 DEF WellFormed

----------------------------------------------------------------------------
(* One action after another.                                               *)

Then(S, a) == UNION {ApplyAction(c, a) : c \in S}
AreSteps(f, d, actions, n) ==
  f = [i \in 0 .. n |-> IF i = 0 THEN {d} ELSE Then(f[i - 1], actions[i])]
Steps(d, actions, n) == CHOOSE f : AreSteps(f, d, actions, n)
StepByStep(f, d, actions, n) ==
  \A i \in 0 .. n : f[i] = IF i = 0 THEN {d} ELSE Then(f[i - 1], actions[i])

LEMMA StepsDefined ==
  ASSUME NEW d, NEW actions, NEW n \in Nat
  PROVE  StepByStep(Steps(d, actions, n), d, actions, n)
<1> DEFINE Fits(f, k) == AreSteps(f, d, actions, k)
           bad == {k \in Nat : ~\E f : Fits(f, k)}
<1>1. ASSUME bad # {} PROVE FALSE
  <2>1. PICK k \in bad : \A m \in bad : k <= m
    <3> HIDE DEF Fits
    <3>1. bad \subseteq Nat OBVIOUS
    <3> HIDE DEF bad
    <3> QED BY <1>1, <3>1, LeastNumber
  <2>2. k # 0
    <3>1. Fits([i \in 0 .. 0 |-> {d}], 0) BY DEF AreSteps
    <3> QED BY <3>1
  <2>3. k \in Nat /\ k - 1 \in Nat /\ k - 1 < k BY <2>2
  <2>4. k - 1 \notin bad
    <3> HIDE DEF bad
    <3> QED BY <2>1, <2>3
  <2>5. PICK f : Fits(f, k - 1) BY <2>3, <2>4
  <2> DEFINE g == [i \in 0 .. k |-> IF i = k THEN Then(f[k - 1], actions[k]) ELSE f[i]]
  <2>6. ASSUME NEW i \in 0 .. k PROVE g[i] = IF i = 0 THEN {d} ELSE Then(g[i - 1], actions[i])
    <3>1. CASE i = k BY <2>3, <3>1
    <3>2. CASE i # k
      <4>1. i \in 0 .. k - 1 BY <2>3, <3>2
      <4>2. f[i] = IF i = 0 THEN {d} ELSE Then(f[i - 1], actions[i])
        BY <2>5, <4>1 DEF AreSteps
      <4>3. i # 0 => g[i - 1] = f[i - 1] BY <2>3, <4>1
      <4> QED BY <3>2, <4>2, <4>3
    <3> QED BY <3>1, <3>2
  <2>7. g = [i \in 0 .. k |-> g[i]] OBVIOUS
  <2> HIDE DEF g
  <2>8. Fits(g, k) BY <2>6, <2>7 DEF AreSteps
  <2> QED BY <2>1, <2>8
<1>2. PICK h : AreSteps(h, d, actions, n) BY <1>1
<1> DEFINE f == Steps(d, actions, n)
<1>3. AreSteps(f, d, actions, n) BY <1>2 DEF Steps
<1> HIDE DEF f
<1>4. f = [i \in 0 .. n |-> IF i = 0 THEN {d} ELSE Then(f[i - 1], actions[i])]
  BY <1>3 DEF AreSteps
<1>5. \A i \in 0 .. n : f[i] = IF i = 0 THEN {d} ELSE Then(f[i - 1], actions[i])
  BY <1>4
<1>6. StepByStep(f, d, actions, n) BY <1>5, Zenon DEF StepByStep
<1> QED BY <1>6 DEF f

\* A set of documents that the actions do not leave, and that one of them enters unless
\* the first document is in it.
StayIn(G, f, actions, n) ==
  \A i \in 1 .. n : \A c \in f[i - 1] : c \in G => ApplyAction(c, actions[i]) \subseteq G
ComeInto(G, f, d, actions, n) ==
  \/ d \in G
  \/ \E i \in 1 .. n : \A c \in f[i - 1] : ApplyAction(c, actions[i]) \subseteq G
LEMMA StepsReach ==
  ASSUME NEW d, NEW actions, NEW n \in Nat, NEW f, StepByStep(f, d, actions, n),
         NEW G, StayIn(G, f, actions, n), ComeInto(G, f, d, actions, n)
  PROVE  f[n] \subseteq G
<1>1. PICK j \in 0 .. n : f[j] \subseteq G
  <2>1. CASE d \in G
    <3>1. 0 \in 0 .. n /\ f[0] = {d} BY DEF StepByStep
    <3> QED BY <2>1, <3>1
  <2>2. ASSUME NEW i \in 1 .. n, \A c \in f[i - 1] : ApplyAction(c, actions[i]) \subseteq G
        PROVE  f[i] \subseteq G
    <3>1. f[i] = Then(f[i - 1], actions[i]) BY DEF StepByStep
    <3> QED BY <2>2, <3>1 DEF Then
  <2> QED BY <2>1, <2>2 DEF ComeInto
<1> DEFINE bad == {k \in j .. n : ~(f[k] \subseteq G)}
<1>2. ASSUME bad # {} PROVE FALSE
  <2>1. bad \subseteq Nat OBVIOUS
  <2> HIDE DEF bad
  <2>2. PICK k \in bad : \A m \in bad : k <= m BY <1>2, <2>1, LeastNumber
  <2>3. k \in j .. n /\ ~(f[k] \subseteq G) BY DEF bad
  <2>4. k # j BY <1>1, <2>3
  <2>5. k \in 1 .. n /\ k - 1 \in j .. n /\ ~(k <= k - 1) BY <2>3, <2>4
  <2>6. f[k - 1] \subseteq G BY <2>2, <2>5 DEF bad
  <2>7. f[k] = Then(f[k - 1], actions[k]) BY <2>5 DEF StepByStep
  <2>8. \A c \in f[k - 1] : ApplyAction(c, actions[k]) \subseteq G BY <2>5, <2>6 DEF StayIn
  <2> QED BY <2>3, <2>7, <2>8 DEF Then
<1>3. n \in j .. n OBVIOUS
<1> QED BY <1>2, <1>3

\* Every document on the way is tidy.
LEMMA StepsAreTidy ==
  ASSUME NEW d, NEW r, Tidy(d, r), NEW actions, NEW n \in Nat, NEW f,
         StepByStep(f, d, actions, n),
         \A i \in 1 .. n : IsChange(actions[i], r)
  PROVE  \A i \in 0 .. n : \A c \in f[i] : Tidy(c, r)
<1> DEFINE bad == {k \in 0 .. n : \E c \in f[k] : ~Tidy(c, r)}
<1>1. ASSUME bad # {} PROVE FALSE
  <2>1. bad \subseteq Nat OBVIOUS
  <2> HIDE DEF bad
  <2>2. PICK k \in bad : \A m \in bad : k <= m BY <1>1, <2>1, LeastNumber
  <2>3. k \in 0 .. n BY DEF bad
  <2>4. PICK c \in f[k] : ~Tidy(c, r) BY DEF bad
  <2>5. k # 0
    <3>1. f[0] = {d} BY DEF StepByStep
    <3> QED BY <2>4, <3>1
  <2>6. k \in 1 .. n /\ k - 1 \in 0 .. n /\ ~(k <= k - 1) BY <2>3, <2>5
  <2>7. PICK b \in f[k - 1] : c \in ApplyAction(b, actions[k])
    <3>1. f[k] = Then(f[k - 1], actions[k]) BY <2>6 DEF StepByStep
    <3> QED BY <2>4, <3>1 DEF Then
  <2>8. Tidy(b, r) BY <2>2, <2>6 DEF bad
  <2> QED BY <2>4, <2>6, <2>7, <2>8, StaysTidy
<1> QED BY <1>1

\* The last of the steps is what Apply stores.
Stored(d, observed, c) ==
  [revision |-> d.revision + 1, updated |-> Larger(observed, d.updated + 1),
   nodes |-> c.nodes, bindings |-> c.bindings]
ComesOf(e, d, observed, S) == \E c \in S : e = Stored(d, observed, c)

LEMMA ApplyIs ==
  ASSUME NEW d, NEW actions, NEW n, n = Len(actions), n \in Nat, NEW observed,
         NEW e \in Apply(d, actions, observed)
  PROVE  /\ DraftValid(e) /\ e.revision = d.revision + 1
         /\ \E f : StepByStep(f, d, actions, n) /\ ComesOf(e, d, observed, f[n])
<1> DEFINE f == Steps(d, actions, n)
<1>1. Apply(d, actions, observed) = {c \in {Stored(d, observed, c) : c \in f[n]} : DraftValid(c)}
  BY DEF Apply, Steps, AreSteps, Then, Stored
<1>2. StepByStep(f, d, actions, n) BY StepsDefined
<1> HIDE DEF f
<1>3. PICK c \in f[n] : DraftValid(e) /\ e = Stored(d, observed, c) BY <1>1
<1>4. e.revision = d.revision + 1 BY <1>3 DEF Stored
<1>5. ComesOf(e, d, observed, f[n]) BY <1>3 DEF ComesOf
<1> QED BY <1>2, <1>3, <1>4, <1>5

\* The actions the window sends for the difference between a document and a draft make,
\* of that document, a document that shows the whole draft, whatever the registry is: none
\* of them undoes another, and none is left out (canonical.ts:43).
THEOREM SavedAsDrawn ==
  ASSUME NEW base, Showable(base), NEW v, WellFormed(v),
         NEW actions \in EditorMutationActions(base, v),
         NEW observed, NEW e \in Apply(base, actions, observed)
  PROVE  /\ CanonicalToEditor(e) = v /\ Showable(e) /\ e.revision = base.revision + 1
         /\ DraftValid(e)
<1> DEFINE r == base.revision + 1
           n == Len(actions)
<1>1. base.revision \in Nat \ {0} /\ Tidy(base, base.revision) BY DEF Showable
<1>2. Tidy(base, r) BY <1>1 DEF Tidy, IsBinding
<1>3. actions \in Seq(TheActions(base, v)) /\ ToSet(actions) = TheActions(base, v)
  BY <1>1, EditorActionsAre
<1>4. /\ n \in Nat /\ \A i \in 1 .. n : actions[i] \in TheActions(base, v)
      /\ \A a \in TheActions(base, v) : \E i \in 1 .. n : actions[i] = a
  BY <1>3, MembersOf
<1> HIDE DEF n
<1>5. PICK f : StepByStep(f, base, actions, n) /\ ComesOf(e, base, observed, f[n])
  <2>1. n = Len(actions) BY DEF n
  <2> QED BY <1>4, <2>1, ApplyIs
<1>6. PICK c \in f[n] : e = Stored(base, observed, c)
  BY <1>5 DEF ComesOf
<1>7. DraftValid(e) BY <1>4, ApplyIs DEF n
<1> DEFINE D == UNION {f[i] : i \in 0 .. n}
<1>8. \A i \in 0 .. n : \A b \in f[i] : Tidy(b, r)
  <2>1. \A i \in 1 .. n : IsChange(actions[i], r) BY <1>1, <1>4, ActionIsChange
  <2> HIDE DEF r
  <2> QED BY <1>2, <1>4, <1>5, <2>1, StepsAreTidy
<1>9. ASSUME NEW i \in 1 .. n, NEW b \in f[i - 1]
      PROVE  b \in D /\ Tidy(b, r) /\ ApplyAction(b, actions[i]) \subseteq D
  <2>1. i \in 0 .. n /\ i - 1 \in 0 .. n /\ i # 0 BY <1>4
  <2>2. f[i] = Then(f[i - 1], actions[i]) BY <1>5, <2>1 DEF StepByStep
  <2>3. ApplyAction(b, actions[i]) \subseteq f[i] BY <2>2 DEF Then
  <2> QED BY <1>8, <2>1, <2>3
<1>10. base \in D
  <2>1. 0 \in 0 .. n /\ f[0] = {base} BY <1>4, <1>5 DEF StepByStep
  <2> QED BY <2>1
<1> HIDE DEF D, r
<1>11. ASSUME NEW k \in DOMAIN v.nodes, NEW side \in {"contract", "parameters", "position"}
       PROVE  NodeIs(v, c, k, side)
  <2> DEFINE G == {b \in D : NodeIs(v, b, k, side)}
  <2>1. ASSUME NEW i \in 1 .. n, NEW b \in f[i - 1], b \in G
        PROVE  ApplyAction(b, actions[i]) \subseteq G
    BY <1>2, <1>4, <1>9, <2>1, NodeStays
  <2>2. base \in G \/ \E i \in 1 .. n : \A b \in f[i - 1] : ApplyAction(b, actions[i]) \subseteq G
    <3>1. CASE NodeIs(v, base, k, side) BY <1>10, <3>1
    <3>2. CASE ~NodeIs(v, base, k, side)
      <4>1. PICK a \in TheActions(base, v) :
              \/ a = Adding(v, k)
              \/ a = Selecting(v, k) /\ side \in {"contract", "parameters"}
              \/ a = Replacing(v, k) /\ side = "parameters"
              \/ a = Moving(v, k) /\ side = "position"
        BY <3>2, NodeIsOrWillBe
      <4>2. PICK i \in 1 .. n : actions[i] = a BY <1>4
      <4>3. ASSUME NEW b \in f[i - 1], NEW x \in ApplyAction(b, a) PROVE NodeIs(v, x, k, side)
        <5>1. Tidy(b, r) BY <1>9
        <5> QED BY <4>1, <5>1, NodeIsMade
      <4> QED BY <1>9, <4>2, <4>3
    <3> QED BY <3>1, <3>2
  <2> HIDE DEF G
  <2>3. StayIn(G, f, actions, n) /\ ComeInto(G, f, base, actions, n)
    BY <2>1, <2>2, Zenon DEF StayIn, ComeInto
  <2>4. f[n] \subseteq G BY <1>4, <1>5, <2>3, StepsReach
  <2> QED BY <2>4 DEF G
<1>12. ASSUME NEW k, k \notin DOMAIN v.nodes PROVE k \notin DOMAIN c.nodes
  <2> DEFINE G == {b \in D : NodeIsGone(v, b, k)}
  <2>1. ASSUME NEW i \in 1 .. n, NEW b \in f[i - 1], b \in G
        PROVE  ApplyAction(b, actions[i]) \subseteq G
    BY <1>2, <1>4, <1>9, <2>1, NodeStaysGone
  <2>2. base \in G \/ \E i \in 1 .. n : \A b \in f[i - 1] : ApplyAction(b, actions[i]) \subseteq G
    <3>1. CASE NodeIsGone(v, base, k) BY <1>10, <3>1
    <3>2. CASE ~NodeIsGone(v, base, k)
      <4>1. Removing(k) \in TheActions(base, v) BY <1>12, <3>2, NodeIsGoneOrWillBe
      <4>2. PICK i \in 1 .. n : actions[i] = Removing(k) BY <1>4, <4>1
      <4>3. ASSUME NEW b \in f[i - 1], NEW x \in ApplyAction(b, Removing(k)) PROVE NodeIsGone(v, x, k)
        <5>1. Tidy(b, r) BY <1>9
        <5> QED BY <1>12, <5>1, NodeIsRemoved
      <4> QED BY <1>9, <4>2, <4>3
    <3> QED BY <3>1, <3>2
  <2> HIDE DEF G
  <2>3. StayIn(G, f, actions, n) /\ ComeInto(G, f, base, actions, n)
    BY <2>1, <2>2, Zenon DEF StayIn, ComeInto
  <2>4. f[n] \subseteq G BY <1>4, <1>5, <2>3, StepsReach
  <2> QED BY <2>4 DEF G, NodeIsGone
<1>13. ASSUME NEW t PROVE Wired(base, v, c, t)
  <2> DEFINE G == {b \in D : Wired(base, v, b, t)}
  <2>1. ASSUME NEW i \in 1 .. n, NEW b \in f[i - 1], b \in G
        PROVE  ApplyAction(b, actions[i]) \subseteq G
    <3>1. actions[i] \in TheActions(base, v) /\ Tidy(b, r) BY <1>4, <1>9
    <3>2. ASSUME NEW x \in ApplyAction(b, actions[i]) PROVE Wired(base, v, x, t)
      BY <1>1, <2>1, <3>1, WiringStays
    <3> QED BY <1>9, <3>2
  <2>2. base \in G \/ \E i \in 1 .. n : \A b \in f[i - 1] : ApplyAction(b, actions[i]) \subseteq G
    <3>1. CASE Wired(base, v, base, t) BY <1>10, <3>1
    <3>2. CASE ~Wired(base, v, base, t)
      <4>1. PICK a \in TheActions(base, v) :
              \/ a = Binding(base, v, t) /\ t \in DOMAIN v.inputs
              \/ a = Unbinding(base, t) /\ t \notin DOMAIN v.inputs
              \/ a = Removing(t[1]) /\ t[1] \notin DOMAIN v.nodes
        BY <3>2, WiredOrWillBe
      <4>2. PICK i \in 1 .. n : actions[i] = a BY <1>4
      <4>3. ASSUME NEW b \in f[i - 1], NEW x \in ApplyAction(b, a) PROVE Wired(base, v, x, t)
        <5>1. Tidy(b, r) BY <1>9
        <5> QED BY <4>1, <5>1, WiringIsMade
      <4> QED BY <1>9, <4>2, <4>3
    <3> QED BY <3>1, <3>2
  <2> HIDE DEF G
  <2>3. StayIn(G, f, actions, n) /\ ComeInto(G, f, base, actions, n)
    BY <2>1, <2>2, Zenon DEF StayIn, ComeInto
  <2>4. f[n] \subseteq G BY <1>4, <1>5, <2>3, StepsReach
  <2> QED BY <2>4 DEF G
<1>14. Tidy(c, r)
  <2>1. n \in 0 .. n BY <1>4
  <2> QED BY <1>8, <2>1
<1>15. CanonicalToEditor(c) = v
  <2>1. \A k \in DOMAIN c.nodes : k \in DOMAIN v.nodes BY <1>12
  <2> QED BY <1>11, <1>13, <1>14, <2>1, NothingLeft
<1>16. e.nodes = c.nodes /\ e.bindings = c.bindings /\ e.revision = r BY <1>6 DEF r, Stored
<1>17. CanonicalToEditor(e) = v BY <1>15, <1>16 DEF CanonicalToEditor
<1>18. Tidy(e, e.revision)
  <2>1. e = [revision |-> e.revision, updated |-> e.updated, nodes |-> e.nodes, bindings |-> e.bindings]
    BY <1>6 DEF Stored
  <2> QED BY <1>14, <1>16, <2>1 DEF Tidy
<1>19. r \in Nat \ {0} BY <1>1 DEF r
<1> QED BY <1>7, <1>16, <1>17, <1>18, <1>19 DEF Showable, r

\* When there is no difference, the document shows as the draft already.
LEMMA SameAsDrawn ==
  ASSUME NEW base, Showable(base), NEW v, WellFormed(v), <<>> \in EditorMutationActions(base, v)
  PROVE  CanonicalToEditor(base) = v
<1>1. Tidy(base, base.revision) BY DEF Showable
<1>2. TheActions(base, v) = {}
  <2>1. ToSet(<<>>) = TheActions(base, v) BY <1>1, EditorActionsAre
  <2> QED BY <2>1, NoMember
<1>3. \A n \in DOMAIN v.nodes : \A side \in {"contract", "parameters", "position"} : NodeIs(v, base, n, side)
  BY <1>2, NodeIsOrWillBe
<1>4. \A n \in DOMAIN base.nodes : n \in DOMAIN v.nodes
  BY <1>2, NodeIsGoneOrWillBe DEF NodeIsGone
<1>5. \A t : Wired(base, v, base, t) BY <1>2, WiredOrWillBe
<1> QED BY <1>1, <1>3, <1>4, <1>5, NothingLeft

----------------------------------------------------------------------------
(* The Assistant's changes, and the edits of the canvas.                   *)

LEMMA ValidIsWellFormed ==
  ASSUME NEW d, NEW r, Tidy(d, r), DraftValid(d)
  PROVE  WellFormed(CanonicalToEditor(d))
<1> DEFINE w == CanonicalToEditor(d)
<1>1. /\ w = [nodes |-> w.nodes, inputs |-> w.inputs] /\ w.nodes = d.nodes
      /\ DOMAIN w.inputs = DOMAIN d.bindings /\ IsMap(w.inputs)
      /\ \A t \in DOMAIN d.bindings : w.inputs[t] = <<Source(d, t), d.bindings[t].items[1].output>>
  BY DEF CanonicalToEditor, Source, IsMap
<1> HIDE DEF w
<1>2. /\ IsMap(d.nodes) /\ IsFiniteSet(DOMAIN d.nodes) /\ IsFiniteSet(DOMAIN d.bindings)
      /\ \A n \in DOMAIN d.nodes : IsNode(d.nodes[n])
  BY DEF Tidy
<1>3. ASSUME NEW n \in DOMAIN d.nodes PROVE HasItsParameters(d.nodes[n])
  <2>1. Normalize(d.nodes[n].contract, d.nodes[n].parameters) # {}
    BY DEF DraftValid, ContractsResolve, NodeIds
  <2> QED BY <2>1 DEF HasItsParameters, Normalize
<1>4. ASSUME NEW t \in DOMAIN d.bindings
      PROVE  t[1] \in DOMAIN d.nodes /\ Source(d, t) \in DOMAIN d.nodes
  <2>1. BindingFits(d, t) BY DEF DraftValid
  <2>2. /\ d.bindings[t].items = <<d.bindings[t].items[1]>>
        /\ d.bindings[t] = [ordered |-> d.bindings[t].ordered, items |-> d.bindings[t].items]
    BY ItemOf, Zenon
  <2> DEFINE items == d.bindings[t].items
  <2>3. items[1] \in Items(d.bindings[t])
    <3>1. DOMAIN <<items[1]>> = {1} OBVIOUS
    <3>2. 1 \in DOMAIN items BY <2>2, <3>1, Zenon
    <3> QED BY <3>2 DEF Items, ToSet
  <2>4. items[1].source \in DOMAIN d.nodes /\ t[1] \in DOMAIN d.nodes
    BY <2>1, <2>3 DEF BindingFits, ItemFits, NodeIds
  <2> QED BY <2>4 DEF Source
<1>5. \A t \in DOMAIN w.inputs :
        w.inputs[t] = <<w.inputs[t][1], w.inputs[t][2]>> /\ {t[1], w.inputs[t][1]} \subseteq DOMAIN w.nodes
  BY <1>1, <1>4
<1> QED BY <1>1, <1>2, <1>3, <1>5 DEF WellFormed, w

\* A change of the Assistant's leaves a document that the window can show.
LEMMA ChangedIsShowable ==
  ASSUME NEW base, Showable(base), NEW actions, NEW n, n = Len(actions), n \in Nat,
         \A i \in 1 .. n : IsChange(actions[i], 0),
         NEW observed, NEW e \in Apply(base, actions, observed)
  PROVE  Showable(e) /\ e.revision = base.revision + 1
<1> DEFINE r == base.revision + 1
<1>1. base.revision \in Nat \ {0} /\ Tidy(base, base.revision) BY DEF Showable
<1>2. Tidy(base, r) BY <1>1 DEF Tidy, IsBinding
<1>3. DraftValid(e) /\ e.revision = base.revision + 1 BY ApplyIs
<1>4. PICK f : StepByStep(f, base, actions, n) /\ ComesOf(e, base, observed, f[n]) BY ApplyIs
<1>5. PICK c \in f[n] : e = Stored(base, observed, c) BY <1>4 DEF ComesOf
<1>6. \A i \in 1 .. n : IsChange(actions[i], r)
  <2>1. ASSUME NEW x \in Nat PROVE ~(x < 0) BY <2>1
  <2> QED BY <2>1 DEF IsChange
<1>7. Tidy(c, r)
  <2> HIDE DEF r
  <2>1. n \in 0 .. n OBVIOUS
  <2>2. \A i \in 0 .. n : \A b \in f[i] : Tidy(b, r) BY <1>2, <1>4, <1>6, StepsAreTidy
  <2> QED BY <2>1, <2>2
<1>8. Tidy(e, r)
  <2>1. /\ e = [revision |-> e.revision, updated |-> e.updated, nodes |-> e.nodes, bindings |-> e.bindings]
        /\ e.nodes = c.nodes /\ e.bindings = c.bindings
    BY <1>5 DEF Stored
  <2> QED BY <1>7, <2>1 DEF Tidy
<1>9. WellFormed(CanonicalToEditor(e)) BY <1>3, <1>8, ValidIsWellFormed
<1> QED BY <1>1, <1>3, <1>8, <1>9 DEF Showable

LEMMA EmptyIsShowable ==
  Showable(EmptyDocument(0)) /\ EmptyDocument(0).revision = 1 /\ WellFormed(EmptyView)
<1> DEFINE d == EmptyDocument(0)
<1>1. /\ d = [revision |-> 1, updated |-> 0, nodes |-> <<>>, bindings |-> <<>>]
      /\ DOMAIN <<>> = {} /\ IsMap(<<>>) /\ IsFiniteSet({})
  BY FS_EmptySet DEF EmptyDocument, IsMap
<1> HIDE DEF d
<1>2. Tidy(d, 1) BY <1>1 DEF Tidy
<1>3. CanonicalToEditor(d) = EmptyView BY <1>1 DEF CanonicalToEditor, EmptyView
<1>4. WellFormed(EmptyView) BY <1>1 DEF WellFormed, EmptyView
<1> QED BY <1>1, <1>2, <1>3, <1>4 DEF Showable, d

\* One node of v is there with new parameters or another position, or has come.
Renewed(v, n, new, N) ==
  /\ DOMAIN N = DOMAIN v.nodes \cup {n} /\ IsMap(N) /\ N[n] = new
  /\ \A m \in DOMAIN v.nodes : m # n => N[m] = v.nodes[m]
WithNodes(v, N) == [nodes |-> N, inputs |-> v.inputs]

LEMMA RenewedIsWellFormed ==
  ASSUME NEW v, WellFormed(v), NEW n, NEW new, IsNode(new), HasItsParameters(new),
         NEW N, Renewed(v, n, new, N)
  PROVE  WellFormed(WithNodes(v, N))
<1> DEFINE x == WithNodes(v, N)
<1>1. /\ IsMap(v.inputs) /\ IsFiniteSet(DOMAIN v.inputs) /\ IsFiniteSet(DOMAIN v.nodes)
      /\ \A m \in DOMAIN v.nodes : IsNode(v.nodes[m]) /\ HasItsParameters(v.nodes[m])
      /\ \A t \in DOMAIN v.inputs :
           /\ v.inputs[t] = <<v.inputs[t][1], v.inputs[t][2]>>
           /\ {t[1], v.inputs[t][1]} \subseteq DOMAIN v.nodes
  BY DEF WellFormed
<1>2. /\ DOMAIN N = DOMAIN v.nodes \cup {n} /\ IsMap(N) /\ N[n] = new
      /\ \A m \in DOMAIN v.nodes : m # n => N[m] = v.nodes[m]
  BY DEF Renewed
<1>3. IsFiniteSet(DOMAIN N) BY <1>1, <1>2, FS_AddElement
<1>4. x = [nodes |-> N, inputs |-> v.inputs] /\ x.nodes = N /\ x.inputs = v.inputs BY DEF WithNodes
<1>5. \A m \in DOMAIN N : IsNode(N[m]) /\ HasItsParameters(N[m]) BY <1>1, <1>2
<1> HIDE DEF x
<1>6. WellFormed(x) BY <1>1, <1>2, <1>3, <1>4, <1>5 DEF WellFormed
<1> QED BY <1>6 DEF x

LEMMA EditedIsWellFormed ==
  ASSUME NEW v, WellFormed(v), NEW e, IsEdit(e), Applicable(v, e)
  PROVE  WellFormed(Edited(v, e))
<1>1. /\ v = [nodes |-> v.nodes, inputs |-> v.inputs]
      /\ IsMap(v.nodes) /\ IsFiniteSet(DOMAIN v.nodes)
      /\ IsMap(v.inputs) /\ IsFiniteSet(DOMAIN v.inputs)
      /\ \A n \in DOMAIN v.nodes : IsNode(v.nodes[n]) /\ HasItsParameters(v.nodes[n])
      /\ \A t \in DOMAIN v.inputs :
           /\ v.inputs[t] = <<v.inputs[t][1], v.inputs[t][2]>>
           /\ {t[1], v.inputs[t][1]} \subseteq DOMAIN v.nodes
  BY DEF WellFormed
<1> DEFINE w == Edited(v, e)
<1>3. CASE e.kind = "param"
  <2> DEFINE n == e.node
             node == v.nodes[n]
             P == Put(node.parameters, e.key, e.value)
             new == [contract |-> node.contract, parameters |-> P, position |-> node.position]
             N == [v.nodes EXCEPT ![n] = new]
  <2>1. /\ n \in DOMAIN v.nodes /\ Registered(node.contract)
        /\ e.key \in DOMAIN Registry[node.contract].parameters
    BY <1>3 DEF Applicable, ContractOf
  <2>2. node = [contract |-> node.contract, parameters |-> node.parameters, position |-> node.position]
        /\ IsMap(node.parameters) /\ HasItsParameters(node)
    BY <1>1, <2>1 DEF IsNode
  <2>3. w = [v EXCEPT !.nodes[n].parameters = P] BY <1>3 DEF Edited, SetParam
  <2>4. w = WithNodes(v, N) BY <1>1, <2>1, <2>2, <2>3 DEF WithNodes
  <2>5. IsMap(P) /\ DOMAIN P = DOMAIN node.parameters \cup {e.key} BY DEF Put, IsMap
  <2> HIDE DEF P
  <2>6. IsNode(new) /\ HasItsParameters(new) BY <2>1, <2>2, <2>5 DEF IsNode, HasItsParameters
  <2>7. Renewed(v, n, new, N) BY <1>1, <2>1 DEF IsMap, Renewed
  <2> HIDE DEF N, new, w, n
  <2>8. WellFormed(WithNodes(v, N)) BY <2>6, <2>7, RenewedIsWellFormed
  <2>9. WellFormed(w) BY <2>4, <2>8
  <2> QED BY <2>9 DEF w
<1>4. CASE e.kind = "add"
  <2> DEFINE N == Put(v.nodes, e.node, e.as)
  <2>1. w = [v EXCEPT !.nodes = N] BY <1>4 DEF Edited, AddToCanvas
  <2>2. w = WithNodes(v, N) BY <1>1, <2>1 DEF WithNodes
  <2>3. IsNode(e.as) /\ HasItsParameters(e.as) BY <1>4 DEF IsEdit
  <2>4. Renewed(v, e.node, e.as, N) BY DEF Put, IsMap, Renewed
  <2> HIDE DEF N, w
  <2>5. WellFormed(WithNodes(v, N)) BY <2>3, <2>4, RenewedIsWellFormed
  <2>6. WellFormed(w) BY <2>2, <2>5
  <2> QED BY <2>6 DEF w
<1>5. CASE e.kind = "drag"
  <2> DEFINE n == e.node
             node == v.nodes[n]
             new == [contract |-> node.contract, parameters |-> node.parameters, position |-> e.position]
             N == [v.nodes EXCEPT ![n] = new]
  <2>1. n \in DOMAIN v.nodes BY <1>5 DEF Applicable
  <2>2. node = [contract |-> node.contract, parameters |-> node.parameters, position |-> node.position]
        /\ IsMap(node.parameters) /\ HasItsParameters(node)
    BY <1>1, <2>1 DEF IsNode
  <2>3. w = [v EXCEPT !.nodes[n].position = e.position] BY <1>5 DEF Edited, DragNode
  <2>4. w = WithNodes(v, N) BY <1>1, <2>1, <2>2, <2>3 DEF WithNodes
  <2>6. IsNode(new) /\ HasItsParameters(new) BY <2>1, <2>2 DEF IsNode, HasItsParameters
  <2>7. Renewed(v, n, new, N) BY <1>1, <2>1 DEF IsMap, Renewed
  <2> HIDE DEF N, new, w, n
  <2>8. WellFormed(WithNodes(v, N)) BY <2>6, <2>7, RenewedIsWellFormed
  <2>9. WellFormed(w) BY <2>4, <2>8
  <2> QED BY <2>9 DEF w
<1>6. CASE e.kind = "delete"
  <2> DEFINE kept == {t \in DOMAIN v.inputs : t[1] # e.node /\ v.inputs[t][1] # e.node}
             N == Drop(v.nodes, e.node)
             M == Restrict(v.inputs, kept)
  <2>1. w = [nodes |-> N, inputs |-> M] BY <1>6 DEF Edited, DeleteNode
  <2>2. /\ DOMAIN N = DOMAIN v.nodes \ {e.node} /\ IsMap(N)
        /\ \A n \in DOMAIN N : N[n] = v.nodes[n]
    BY DEF Drop, Restrict, IsMap
  <2>3. DOMAIN M = kept /\ IsMap(M) /\ \A t \in kept : M[t] = v.inputs[t] BY DEF Restrict, IsMap
  <2>4. IsFiniteSet(DOMAIN N) /\ IsFiniteSet(DOMAIN M) BY <1>1, <2>2, <2>3, FS_Subset
  <2> HIDE DEF N, M, w
  <2>5. w.nodes = N /\ w.inputs = M BY <2>1
  <2>6. \A t \in DOMAIN M : M[t] = <<M[t][1], M[t][2]>> /\ {t[1], M[t][1]} \subseteq DOMAIN N
    BY <1>1, <2>2, <2>3
  <2>7. \A n \in DOMAIN N : IsNode(N[n]) /\ HasItsParameters(N[n]) BY <1>1, <2>2
  <2> QED BY <2>1, <2>2, <2>3, <2>4, <2>5, <2>6, <2>7 DEF WellFormed, w
<1>7. CASE e.kind = "unlink"
  <2> DEFINE M == Drop(v.inputs, e.target)
  <2>1. w = [v EXCEPT !.inputs = M] BY <1>7 DEF Edited, DeleteEdge
  <2>2. w = [nodes |-> v.nodes, inputs |-> M] BY <1>1, <2>1
  <2>3. /\ DOMAIN M = DOMAIN v.inputs \ {e.target} /\ IsMap(M)
        /\ \A t \in DOMAIN M : M[t] = v.inputs[t]
    BY DEF Drop, Restrict, IsMap
  <2>4. IsFiniteSet(DOMAIN M) BY <1>1, <2>3, FS_Subset
  <2> HIDE DEF M, w
  <2>5. w.nodes = v.nodes /\ w.inputs = M BY <2>2
  <2>6. \A t \in DOMAIN M : M[t] = <<M[t][1], M[t][2]>> /\ {t[1], M[t][1]} \subseteq DOMAIN v.nodes
    BY <1>1, <2>3
  <2> QED BY <1>1, <2>2, <2>3, <2>4, <2>5, <2>6 DEF WellFormed, w
<1>8. CASE e.kind = "connect"
  <2>1. w = Connect(v, e.source, e.output, e.target) BY <1>8 DEF Edited
  <2>2. CASE ~IsValidConnection(v, e.source, e.output, e.target)
    <3>1. w = v BY <2>1, <2>2 DEF Connect
    <3> QED BY <3>1
  <2>3. CASE IsValidConnection(v, e.source, e.output, e.target)
    <3> DEFINE edge == <<e.source, e.output>>
               M == Put(v.inputs, e.target, edge)
    <3>1. w = [v EXCEPT !.inputs = M] BY <2>1, <2>3 DEF Connect
    <3>2. w = [nodes |-> v.nodes, inputs |-> M] BY <1>1, <3>1
    <3>3. /\ DOMAIN M = DOMAIN v.inputs \cup {e.target} /\ IsMap(M) /\ M[e.target] = edge
          /\ \A t \in DOMAIN v.inputs : t # e.target => M[t] = v.inputs[t]
      BY DEF Put, IsMap
    <3>4. IsFiniteSet(DOMAIN M) BY <1>1, <3>3, FS_AddElement
    <3>5. e.source \in DOMAIN v.nodes /\ e.target[1] \in DOMAIN v.nodes
      BY <2>3 DEF IsValidConnection
    <3>6. edge = <<edge[1], edge[2]>> /\ edge[1] = e.source OBVIOUS
    <3> HIDE DEF M, w, edge
    <3>7. w.nodes = v.nodes /\ w.inputs = M BY <3>2
    <3>8. \A t \in DOMAIN M : M[t] = <<M[t][1], M[t][2]>> /\ {t[1], M[t][1]} \subseteq DOMAIN v.nodes
      BY <1>1, <3>3, <3>5, <3>6
    <3> QED BY <1>1, <3>2, <3>3, <3>4, <3>7, <3>8 DEF WellFormed, w
  <2> QED BY <2>2, <2>3
<1> QED BY <1>3, <1>4, <1>5, <1>6, <1>7, <1>8 DEF IsEdit, EditKinds

----------------------------------------------------------------------------
(* The invariant of the workspace.                                         *)

Pcs == {"new", "saving", "flushing", "asking", "loading", "loaded", "refused", "failed", "over"}
IsDraft(d) ==
  d = [project |-> d.project, view |-> d.view] /\ d.project \in ProjectIds /\ WellFormed(d.view)
IsWait(x) ==
  /\ x = [pc |-> x.pc, left |-> x.left, ok |-> x.ok, moved |-> x.moved, since |-> x.since,
          of |-> x.of, target |-> x.target, again |-> x.again, before |-> x.before,
          head |-> x.head, started |-> x.started, current |-> x.current, keep |-> x.keep,
          fresh |-> x.fresh, document |-> x.document]
  /\ x.pc \in Pcs /\ x.left \in Nat
  /\ {x.ok, x.moved, x.again, x.started, x.current, x.keep, x.fresh} \subseteq BOOLEAN
IsFlight(f) ==
  /\ f = [project |-> f.project, base |-> f.base, actions |-> f.actions, draft |-> f.draft,
          latest |-> f.latest, current |-> f.current, reply |-> f.reply, document |-> f.document]
  /\ f.latest \in BOOLEAN
IsWindow(w) ==
  /\ w = [phase |-> w.phase, of |-> w.of, head |-> w.head, project |-> w.project,
          view |-> w.view, unassigned |-> w.unassigned]
  /\ w.project \in ProjectIds \cup {NoOne} /\ WellFormed(w.view)
IsControl(c) ==
  c = [project |-> c.project, accepted |-> c.accepted, noted |-> c.noted, failure |-> c.failure]

\* The values have the form they should have.
StoreShaped ==
  /\ IsMap(store) /\ DOMAIN store = ProjectIds /\ \A p \in ProjectIds : IsList(store[p])
ShownShaped ==
  /\ IsMap(shown) /\ DOMAIN shown = ProjectIds /\ \A p \in ProjectIds : IsList(shown[p])
DrawnShaped ==
  /\ drawn = [project |-> drawn.project, view |-> drawn.view, head |-> drawn.head]
  /\ drawn.project \in ProjectIds \cup {NoOne} /\ WellFormed(drawn.view)
SavesShaped == IsList(saves) /\ \A i \in DOMAIN saves : IsDraft(saves[i])
FlightShaped == flight = <<>> \/ (flight = <<flight[1]>> /\ IsFlight(flight[1]))
WaitsShaped ==
  IsMap(waits) /\ DOMAIN waits = DOMAIN Waits /\ \A w \in DOMAIN Waits : IsWait(waits[w])
DrawnDraft == Draft(drawn.project, drawn.view)
Shaped ==
  /\ scenario \in Scenarios
  /\ StoreShaped /\ ShownShaped /\ DrawnShaped /\ SavesShaped /\ FlightShaped
  /\ IsWindow(window) /\ IsControl(control)
  /\ IsMap(persisted)
  /\ timer = <<>> \/ timer = <<DrawnDraft>>

\* d is a revision of p; the last that the window has stored.
IsStored(p, d) == p \in ProjectIds /\ \E i \in DOMAIN store[p] : store[p][i].document = d
IsLatestOf(p, d) ==
  p \in ProjectIds /\
  \E i \in DOMAIN store[p] :
    /\ store[p][i].document = d
    /\ \A j \in DOMAIN store[p] : j > i => store[p][j].by = "assistant"

HasCommitted == flight # <<>> /\ flight[1].reply = "ok"
HistoriesAreSound == \A p \in ProjectIds : Revisions(store[p])
AcceptedIsSound ==
  control.project # NoOne =>
    /\ IsStored(control.project, control.accepted)
    /\ IsLatestOf(control.project, IF HasCommitted THEN flight[1].document ELSE control.accepted)
    /\ Saved(Draft(control.project, View(control.accepted)))

\* What is drawn or waits to be saved has been shown.
ShownIsSound ==
  /\ drawn.project # NoOne =>
       shown[drawn.project] # <<>> /\ Last(shown[drawn.project]) = drawn.view
  /\ \A i \in DOMAIN saves : saves[i].view \in ToSet(shown[saves[i].project])

\* What the window has stored of a Project it has shown of that Project, or of one.
StoredAsShown ==
  \A p \in ProjectIds : \A i \in DOMAIN store[p] :
    store[p][i].by = "window" /\ store[p][i].document.revision > 1 =>
      View(store[p][i].document) \in ToSet(shown[p])
StoredWasShown ==
  \A p \in ProjectIds : \A i \in DOMAIN store[p] :
    store[p][i].by = "window" /\ store[p][i].document.revision > 1 =>
      \E q \in ProjectIds : View(store[p][i].document) \in ToSet(shown[q])

\* It belongs to the Project the controller has, or is saved.
Safe(d) == d.project = control.project \/ Saved(d)
DraftsAreSafe ==
  /\ window.project = control.project
  /\ control.project = NoOne => drawn.project = NoOne
  /\ drawn.project = NoOne => timer = <<>> /\ saves = <<>> /\ flight = <<>>
  /\ drawn.project # NoOne => Safe(DrawnDraft)
  /\ \A i \in DOMAIN saves : Safe(saves[i])
  /\ window.project = drawn.project /\ window.project # NoOne =>
       window.view = drawn.view \/ Saved(Draft(window.project, window.view))

FlightIsSound ==
  flight # <<>> =>
    LET f == flight[1]
    IN /\ saves # <<>> /\ f.draft = saves[1] /\ f.project = f.draft.project
       /\ f.current /\ f.project = control.project
       /\ f.base = control.accepted.revision
       /\ f.actions \in EditorMutationActions(control.accepted, f.draft.view)
       /\ f.reply = "ok" =>
            /\ View(f.document) = f.draft.view
            /\ f.document.revision > f.base
       /\ ~f.latest /\ window.project = drawn.project => window.view = drawn.view

\* Nothing that has been drawn is yet to be saved.
Still ==
  /\ flight = <<>>
  /\ drawn.project # NoOne => Saved(DrawnDraft)
  /\ \A i \in DOMAIN saves : Saved(saves[i])
  /\ window.project = drawn.project /\ window.project # NoOne =>
       Saved(Draft(window.project, window.view))

Hydrates(w) == waits[w].pc \in {"loading", "loaded", "refused"}
Live(w) == Kind(w) = "open" /\ waits[w].pc \notin {"new", "failed", "over"}
SavingIsSound(w) ==
  waits[w].pc = "saving" =>
    /\ waits[w].left <= Len(saves)
    /\ ~waits[w].moved =>
         /\ \A i \in DOMAIN saves : i >= waits[w].left => saves[i] = DrawnDraft
         /\ waits[w].left = 1 /\ flight # <<>> => flight[1].latest
         /\ waits[w].left = 0 /\ waits[w].ok => Still
BarrierIsSound(w) ==
  /\ waits[w].pc = "flushing" =>
       /\ waits[w].left = 0
       /\ drawn.project # NoOne => waits[w].since = Len(shown[drawn.project])
  /\ waits[w].pc = "flushing" \/ Hydrates(w) => Still
  /\ waits[w].pc \in {"saving", "flushing"} /\ (Kind(w) # "open" \/ ~waits[w].started) =>
       drawn.project = window.project
  /\ waits[w].again => ~waits[w].started
OpeningIsSound(w) ==
  /\ Live(w) /\ waits[w].current =>
       drawn.project = window.project /\ waits[w].before = window.project
  /\ Live(w) => waits[w].target \in ProjectIds
  /\ waits[w].pc = "asking" => Kind(w) = "open" /\ waits[w].started
  /\ Hydrates(w) =>
       /\ Kind(w) = "open" /\ waits[w].current
       /\ waits[w].keep => waits[w].before = NoOne
  /\ ~waits[w].fresh /\ (\/ waits[w].started /\ waits[w].pc \in {"saving", "flushing"}
                         \/ waits[w].pc = "loading") => store[waits[w].target] # <<>>
  /\ waits[w].pc = "loaded" =>
       /\ IsLatestOf(waits[w].target, waits[w].document)
       /\ waits[w].target = control.project =>
            control.accepted.revision <= waits[w].document.revision
OneIsCurrent ==
  /\ \A v \in DOMAIN Waits : waits[v].current => Kind(v) = "open"
  /\ \A v, w \in DOMAIN Waits : waits[v].current /\ waits[w].current => v = w

\* A head is a revision the window has had accepted.
IsHead(p, head) ==
  head = <<>> \/ /\ p = control.project /\ IsStored(p, head[1])
                 /\ head[1].revision <= control.accepted.revision
HeadsAreSound ==
  /\ IsHead(window.project, window.head)
  /\ drawn.project = window.project => IsHead(drawn.project, drawn.head)
  /\ \A w \in DOMAIN Waits : waits[w].current /\ Live(w) => IsHead(waits[w].before, waits[w].head)

WaitIsSound(w) == SavingIsSound(w) /\ BarrierIsSound(w) /\ OpeningIsSound(w)
WaitsAreSound == WaitsShaped /\ OneIsCurrent /\ \A w \in DOMAIN Waits : WaitIsSound(w)
RestIsSound ==
  /\ Shaped /\ HistoriesAreSound /\ AcceptedIsSound /\ StoredAsShown /\ ShownIsSound
  /\ DraftsAreSafe /\ FlightIsSound
WorkspaceInvariant == RestIsSound /\ WaitsAreSound /\ HeadsAreSound

----------------------------------------------------------------------------
(* Lists.                                                                  *)

LEMMA ListIs ==
  ASSUME NEW s, IsList(s)
  PROVE  /\ Len(s) \in Nat /\ DOMAIN s = 1 .. Len(s) /\ s = [i \in 1 .. Len(s) |-> s[i]]
         /\ s = <<>> <=> Len(s) = 0
         /\ Last(s) = s[Len(s)]
         /\ \A i \in 1 .. Len(s) : s[i] \in ToSet(s)
         /\ \A x \in ToSet(s) : \E i \in 1 .. Len(s) : s[i] = x
<1>1. s \in Seq(ToSet(s)) BY DEF IsList
<1> DEFINE S == ToSet(s)
<1> HIDE DEF S
<1>2. s \in Seq(S) BY <1>1 DEF S
<1>3. /\ Len(s) \in Nat /\ DOMAIN s = 1 .. Len(s) /\ s = [i \in 1 .. Len(s) |-> s[i]]
      /\ s = <<>> <=> Len(s) = 0
  BY <1>2, EmptySeq, LenProperties
<1>4. Last(s) = s[Len(s)] BY DEF Last
<1>5. /\ \A i \in 1 .. Len(s) : s[i] \in ToSet(s)
      /\ \A x \in ToSet(s) : \E i \in 1 .. Len(s) : s[i] = x
  BY <1>3 DEF ToSet
<1> QED BY <1>3, <1>4, <1>5

LEMMA IsListIf ==
  ASSUME NEW S, NEW s \in Seq(S)
  PROVE  IsList(s)
<1>1. DOMAIN s = 1 .. Len(s) /\ Len(s) \in Nat /\ s = [i \in 1 .. Len(s) |-> s[i]]
  BY LenProperties
<1>2. \A i \in 1 .. Len(s) : s[i] \in ToSet(s) BY <1>1 DEF ToSet
<1>3. s \in [1 .. Len(s) -> ToSet(s)] BY <1>1, <1>2
<1> QED BY <1>1, <1>3, SeqDef DEF IsList

LEMMA EmptyList == IsList(<<>>) /\ Len(<<>>) = 0 /\ DOMAIN <<>> = {} /\ ToSet(<<>>) = {}
<1>1. <<>> \in Seq({}) OBVIOUS
<1>2. IsList(<<>>) BY <1>1, IsListIf
<1> QED BY <1>2 DEF ToSet

LEMMA AppendIs ==
  ASSUME NEW s, IsList(s), NEW e
  PROVE  /\ IsList(Append(s, e)) /\ Len(Append(s, e)) = Len(s) + 1 /\ Append(s, e) # <<>>
         /\ DOMAIN Append(s, e) = 1 .. Len(s) + 1
         /\ \A i \in 1 .. Len(s) : Append(s, e)[i] = s[i]
         /\ Append(s, e)[Len(s) + 1] = e /\ Last(Append(s, e)) = e
         /\ ToSet(Append(s, e)) = ToSet(s) \cup {e}
<1> DEFINE S == ToSet(s) \cup {e}
           a == Append(s, e)
<1>1. s \in Seq(ToSet(s)) BY DEF IsList
<1>2. s \in Seq(S) /\ e \in S
  <2>1. ToSet(s) \subseteq S OBVIOUS
  <2> HIDE DEF S
  <2>2. s \in Seq(S) BY <1>1, <2>1
  <2> QED BY <2>2 DEF S
<1> HIDE DEF S
<1>3. /\ a \in Seq(S) /\ Len(a) = Len(s) + 1
      /\ \A i \in 1 .. Len(s) : a[i] = s[i]
      /\ a[Len(s) + 1] = e
  BY <1>2, AppendProperties
<1> HIDE DEF a
<1>4. IsList(a) BY <1>3, IsListIf
<1>5. /\ Len(a) \in Nat /\ Len(s) \in Nat /\ DOMAIN a = 1 .. Len(a) /\ DOMAIN s = 1 .. Len(s)
      /\ a = <<>> <=> Len(a) = 0
      /\ Last(a) = a[Len(a)]
  BY <1>4, ListIs
<1>6. ToSet(a) = ToSet(s) \cup {e}
  <2>1. \A x : x \in ToSet(a) <=> \E i \in 1 .. Len(a) : a[i] = x BY <1>5 DEF ToSet
  <2>2. \A x : x \in ToSet(s) <=> \E i \in 1 .. Len(s) : s[i] = x BY <1>5 DEF ToSet
  <2>3. ASSUME NEW x \in ToSet(a) PROVE x \in ToSet(s) \cup {e}
    <3>1. PICK i \in 1 .. Len(a) : a[i] = x BY <2>1, <2>3
    <3>2. i \in 1 .. Len(s) \/ i = Len(s) + 1 BY <1>3, <1>5
    <3> QED BY <1>3, <2>2, <3>1, <3>2
  <2>4. ASSUME NEW x \in ToSet(s) PROVE x \in ToSet(a)
    <3>1. PICK i \in 1 .. Len(s) : s[i] = x BY <2>2, <2>4
    <3>2. i \in 1 .. Len(a) BY <1>3, <1>5
    <3> QED BY <1>3, <2>1, <3>1, <3>2
  <2>5. e \in ToSet(a)
    <3>1. Len(s) + 1 \in 1 .. Len(a) BY <1>3, <1>5
    <3> QED BY <1>3, <2>1, <3>1
  <2> QED BY <2>3, <2>4, <2>5
<1> QED BY <1>3, <1>4, <1>5, <1>6 DEF a

LEMMA TailIs ==
  ASSUME NEW s, IsList(s), s # <<>>
  PROVE  /\ Len(s) \in Nat \ {0} /\ Head(s) = s[1] /\ IsList(Tail(s))
         /\ Len(Tail(s)) = Len(s) - 1
         /\ DOMAIN Tail(s) = 1 .. Len(s) - 1
         /\ \A i \in 1 .. Len(s) - 1 : Tail(s)[i] = s[i + 1] /\ i + 1 \in 1 .. Len(s)
<1>1. s \in Seq(ToSet(s)) BY DEF IsList
<1> DEFINE S == ToSet(s)
           t == Tail(s)
<1> HIDE DEF S
<1>2. s \in Seq(S) BY <1>1 DEF S
<1>3. /\ Head(s) = s[1] /\ t \in Seq(S) /\ Len(t) = Len(s) - 1
      /\ \A i \in 1 .. Len(t) : t[i] = s[i + 1]
  BY <1>2, HeadTailProperties
<1>4. Len(s) \in Nat /\ Len(s) # 0 BY ListIs
<1> HIDE DEF t
<1>5. IsList(t) BY <1>3, IsListIf
<1>6. DOMAIN t = 1 .. Len(t) BY <1>5, ListIs
<1> QED BY <1>3, <1>4, <1>5, <1>6 DEF t

----------------------------------------------------------------------------
(* A step of a barrier: it may queue the draft that is drawn.              *)

QueuesDrawn == drawn.project # NoOne /\ saves' = Append(saves, DrawnDraft)
BarrierStep ==
  /\ UNCHANGED <<scenario, store, persisted, flight, drawn, shown, control>>
  /\ timer' = timer \/ timer' = <<>>
  /\ IsWindow(window)' /\ window'.project = window.project /\ window'.view = window.view
  /\ saves' = saves \/ QueuesDrawn

\* What is in the queue was there or is what is drawn.
Grown ==
  /\ Len(saves') \in Nat /\ Len(saves') >= Len(saves) /\ DOMAIN saves \subseteq DOMAIN saves'
  /\ \A i \in DOMAIN saves : saves'[i] = saves[i]
  /\ \A i \in DOMAIN saves' \ DOMAIN saves : drawn.project # NoOne /\ saves'[i] = DrawnDraft

LEMMA Grows ==
  ASSUME IsList(saves), saves' = saves \/ QueuesDrawn
  PROVE  Grown /\ IsList(saves)'
<1>1. CASE saves' = saves
  <2>1. Len(saves) \in Nat BY ListIs
  <2> QED BY <1>1, <2>1 DEF Grown, IsList
<1>2. CASE QueuesDrawn
  <2>1. /\ Len(saves) \in Nat /\ DOMAIN saves = 1 .. Len(saves) BY ListIs
  <2> DEFINE d == DrawnDraft
  <2> HIDE DEF d
  <2>2. drawn.project # NoOne /\ saves' = Append(saves, d) BY <1>2 DEF QueuesDrawn, d
  <2>3. /\ IsList(saves') /\ Len(saves') = Len(saves) + 1
        /\ DOMAIN saves' = 1 .. Len(saves) + 1
        /\ \A i \in 1 .. Len(saves) : saves'[i] = saves[i]
        /\ saves'[Len(saves) + 1] = d
    BY <2>2, AppendIs
  <2>4. \A i \in DOMAIN saves' \ DOMAIN saves : saves'[i] = d BY <2>1, <2>3
  <2>5. Len(saves') \in Nat /\ Len(saves') >= Len(saves) /\ DOMAIN saves \subseteq DOMAIN saves'
    BY <2>1, <2>3
  <2> QED BY <2>1, <2>2, <2>3, <2>4, <2>5 DEF Grown, d, IsList
<1> QED BY <1>1, <1>2

LEMMA DrawnIsDraft ==
  ASSUME DrawnShaped, drawn.project # NoOne
  PROVE  IsDraft(DrawnDraft) /\ DrawnDraft.project = drawn.project /\ DrawnDraft.view = drawn.view
BY DEF DrawnShaped, IsDraft, DrawnDraft, Draft

LEMMA DrawnIsShown ==
  ASSUME ShownShaped, DrawnShaped, ShownIsSound, drawn.project # NoOne
  PROVE  drawn.view \in ToSet(shown[drawn.project])
<1>1. drawn.project \in ProjectIds BY DEF DrawnShaped
<1> DEFINE h == shown[drawn.project]
<1> HIDE DEF h
<1>2. IsList(h) /\ h # <<>> /\ Last(h) = drawn.view BY <1>1 DEF ShownShaped, ShownIsSound, h
<1>3. Len(h) \in Nat /\ Len(h) # 0 /\ Last(h) = h[Len(h)] /\ \A i \in 1 .. Len(h) : h[i] \in ToSet(h)
  BY <1>2, ListIs
<1>4. Len(h) \in 1 .. Len(h) BY <1>3
<1> QED BY <1>2, <1>3, <1>4 DEF h

LEMMA BarrierStepIsSound ==
  ASSUME RestIsSound, BarrierStep
  PROVE  RestIsSound' /\ Grown /\ (Still => Still')
<1> USE DEF RestIsSound
<1>1. Grown /\ IsList(saves)' BY Grows DEF BarrierStep, Shaped, SavesShaped
<1>2. /\ UNCHANGED <<scenario, store, persisted, flight, drawn, shown, control>>
      /\ timer' = timer \/ timer' = <<>>
  BY DEF BarrierStep
<1>3. DrawnDraft' = DrawnDraft BY <1>2 DEF DrawnDraft, Draft
<1>4. IsWindow(window)' /\ window'.project = window.project /\ window'.view = window.view
  BY DEF BarrierStep
<1>5. DrawnShaped /\ ShownShaped BY DEF Shaped
<1>6. SavesShaped'
  <2>1. ASSUME NEW i \in DOMAIN saves' PROVE IsDraft(saves'[i])
    BY <1>1, <1>5, DrawnIsDraft DEF Grown, Shaped, SavesShaped
  <2> QED BY <1>1, <2>1 DEF SavesShaped
<1>7. Shaped'
  BY <1>2, <1>3, <1>4, <1>6 DEF Shaped, StoreShaped, ShownShaped, DrawnShaped, FlightShaped
<1>8. HistoriesAreSound' /\ StoredAsShown' BY <1>2 DEF HistoriesAreSound, StoredAsShown
<1>9. AcceptedIsSound'
  BY <1>2 DEF AcceptedIsSound, IsStored, IsLatestOf, HasCommitted, Saved
<1>10. ShownIsSound'
  <2>1. ASSUME NEW i \in DOMAIN saves' PROVE saves'[i].view \in ToSet(shown[saves'[i].project])
    BY <1>1, <1>5, DrawnIsDraft, DrawnIsShown DEF Grown, ShownIsSound
  <2> QED BY <1>2, <2>1 DEF ShownIsSound
<1>11. \A d : (Saved(d) => Saved(d)') /\ (Safe(d) => Safe(d)') BY <1>2 DEF Saved, Safe
<1>12. DraftsAreSafe'
  <2>1. ASSUME NEW i \in DOMAIN saves' PROVE Safe(saves'[i])
    BY <1>1 DEF Grown, DraftsAreSafe
  <2>2. drawn.project = NoOne => saves' = <<>> BY DEF BarrierStep, QueuesDrawn, DraftsAreSafe
  <2>3. \A i \in DOMAIN saves' : Safe(saves[i])' BY <1>2, <2>1 DEF Safe, Saved
  <2>4. Safe(DrawnDraft) => Safe(DrawnDraft)' BY <1>2, <1>3 DEF Safe, Saved
  <2> QED BY <1>2, <1>4, <2>2, <2>3, <2>4 DEF DraftsAreSafe, Saved
<1>13. FlightIsSound'
  <2>1. saves # <<>> => saves' # <<>> /\ saves'[1] = saves[1]
    <3>1. IsList(saves) BY DEF Shaped, SavesShaped
    <3>2. Len(saves) \in Nat /\ DOMAIN saves = 1 .. Len(saves) /\ (saves # <<>> => Len(saves) # 0)
      BY <3>1, ListIs
    <3>3. saves # <<>> => 1 \in DOMAIN saves BY <3>2
    <3>4. saves' = <<>> => Len(saves') = 0 BY <1>1, ListIs
    <3> QED BY <1>1, <3>2, <3>3, <3>4 DEF Grown
  <2> QED BY <1>2, <1>4, <2>1 DEF FlightIsSound
<1>14. Still => Still'
  <2> SUFFICES ASSUME Still PROVE Still' OBVIOUS
  <2>1. ASSUME NEW i \in DOMAIN saves' PROVE Saved(saves'[i]) BY <1>1 DEF Grown, Still
  <2>2. \A i \in DOMAIN saves' : Saved(saves[i])' BY <1>2, <2>1 DEF Saved
  <2>3. Saved(DrawnDraft) => Saved(DrawnDraft)' BY <1>2, <1>3 DEF Saved
  <2> QED BY <1>2, <1>4, <2>2, <2>3 DEF Still, Saved
<1> QED BY <1>1, <1>7, <1>8, <1>9, <1>10, <1>12, <1>13, <1>14

\* The barriers that the step is not about.
Same(v) ==
  /\ \A k \in {"pc", "left", "ok", "moved", "since", "target", "again", "before", "head",
               "started", "keep", "fresh", "document"} : waits'[v][k] = waits[v][k]
  /\ waits'[v].current => waits[v].current
  /\ Hydrates(v) /\ waits[v].current => waits'[v].current

LEMMA SameFields ==
  ASSUME NEW v, Same(v)
  PROVE  /\ waits'[v].pc = waits[v].pc /\ waits'[v].left = waits[v].left
         /\ waits'[v].ok = waits[v].ok /\ waits'[v].moved = waits[v].moved
         /\ waits'[v].since = waits[v].since /\ waits'[v].target = waits[v].target
         /\ waits'[v].again = waits[v].again /\ waits'[v].before = waits[v].before
         /\ waits'[v].head = waits[v].head /\ waits'[v].started = waits[v].started
         /\ waits'[v].keep = waits[v].keep /\ waits'[v].document = waits[v].document
         /\ waits'[v].fresh = waits[v].fresh
         /\ waits'[v].current => waits[v].current
         /\ Hydrates(v) /\ waits[v].current => waits'[v].current
BY DEF Same

LEMMA OthersStay ==
  ASSUME RestIsSound, BarrierStep, NEW v \in DOMAIN Waits, IsWait(waits[v]),
         WaitIsSound(v), Same(v)
  PROVE  WaitIsSound(v)'
<1>1. Grown /\ (Still => Still') BY BarrierStepIsSound
<1>2. /\ UNCHANGED <<scenario, store, persisted, flight, drawn, shown, control>>
      /\ timer' = timer \/ timer' = <<>>
  BY DEF BarrierStep
<1>3. DrawnDraft' = DrawnDraft BY <1>2 DEF DrawnDraft, Draft
<1>4. window'.project = window.project BY DEF BarrierStep
<1>5. /\ waits'[v].pc = waits[v].pc /\ waits'[v].left = waits[v].left
      /\ waits'[v].ok = waits[v].ok /\ waits'[v].moved = waits[v].moved
      /\ waits'[v].since = waits[v].since /\ waits'[v].target = waits[v].target
      /\ waits'[v].again = waits[v].again /\ waits'[v].before = waits[v].before
      /\ waits'[v].head = waits[v].head /\ waits'[v].started = waits[v].started
      /\ waits'[v].keep = waits[v].keep /\ waits'[v].document = waits[v].document
      /\ waits'[v].fresh = waits[v].fresh
      /\ waits'[v].current => waits[v].current
      /\ Hydrates(v) /\ waits[v].current => waits'[v].current
  BY SameFields
<1>6. SavingIsSound(v)'
  <2> SUFFICES ASSUME waits[v].pc = "saving" PROVE SavingIsSound(v)' BY <1>5 DEF SavingIsSound
  <2>1. waits[v].left \in Nat /\ Len(saves) \in Nat
    BY ListIs DEF IsWait, RestIsSound, Shaped, SavesShaped
  <2>2. waits[v].left <= Len(saves') BY <1>1, <2>1 DEF Grown, WaitIsSound, SavingIsSound
  <2>3. ASSUME ~waits[v].moved, NEW i \in DOMAIN saves', i >= waits[v].left
        PROVE  saves'[i] = DrawnDraft
    BY <1>1, <2>3 DEF Grown, WaitIsSound, SavingIsSound
  <2> QED BY <1>1, <1>2, <1>3, <1>5, <2>2, <2>3 DEF WaitIsSound, SavingIsSound
<1>7. BarrierIsSound(v)'
  BY <1>1, <1>2, <1>4, <1>5 DEF WaitIsSound, BarrierIsSound, Hydrates
<1>8. OpeningIsSound(v)'
  BY <1>2, <1>4, <1>5 DEF WaitIsSound, OpeningIsSound, Hydrates, Live, IsLatestOf
<1> QED BY <1>6, <1>7, <1>8 DEF WaitIsSound

LEMMA BarrierStepOf ==
  ASSUME WorkspaceInvariant, BarrierStep, NEW w \in DOMAIN Waits,
         WaitsShaped', \A v \in DOMAIN Waits : v # w => Same(v),
         WaitIsSound(w)', OneIsCurrent',
         IsHead(window.project, window.head)',
         (waits[w].current /\ Live(w) => IsHead(waits[w].before, waits[w].head))'
  PROVE  WorkspaceInvariant'
<1> USE DEF WorkspaceInvariant
<1>1. RestIsSound' BY BarrierStepIsSound
<1>2. ASSUME NEW v \in DOMAIN Waits PROVE WaitIsSound(v)'
  BY OthersStay DEF WaitsAreSound, WaitsShaped
<1>3. UNCHANGED <<store, drawn, control>> /\ window'.project = window.project BY DEF BarrierStep
<1>4. \A p, head : IsHead(p, head) => IsHead(p, head)' BY <1>3 DEF IsHead, IsStored
<1>5. ASSUME NEW v \in DOMAIN Waits, v # w, (waits[v].current /\ Live(v))'
      PROVE  IsHead(waits[v].before, waits[v].head)'
  <2>1. /\ waits'[v].pc = waits[v].pc /\ waits'[v].before = waits[v].before
        /\ waits'[v].head = waits[v].head /\ (waits'[v].current => waits[v].current)
    BY <1>5, SameFields
  <2>2. IsHead(waits[v].before, waits[v].head) BY <1>5, <2>1 DEF HeadsAreSound, Live
  <2> QED BY <1>3, <2>1, <2>2 DEF IsHead, IsStored
<1>6. (drawn.project = window.project => IsHead(drawn.project, drawn.head))'
  BY <1>3 DEF HeadsAreSound, IsHead, IsStored
<1>7. HeadsAreSound' BY <1>5, <1>6 DEF HeadsAreSound
<1> QED BY <1>1, <1>2, <1>7 DEF WaitsAreSound

LEMMA SameIf ==
  ASSUME NEW v, waits'[v] = waits[v]
  PROVE  Same(v)
BY DEF Same, Hydrates

Keeps(x, y) ==
  \A k \in {"target", "again", "before", "head", "started", "current", "keep", "fresh",
            "document"} : y[k] = x[k]

LEMMA KeptFields ==
  ASSUME NEW x, NEW y, Keeps(x, y)
  PROVE  /\ y.target = x.target /\ y.again = x.again /\ y.before = x.before /\ y.head = x.head
         /\ y.started = x.started /\ y.current = x.current /\ y.keep = x.keep
         /\ y.fresh = x.fresh /\ y.document = x.document
BY DEF Keeps

LEMMA SavingWait ==
  ASSUME NEW x, IsWait(x), NEW n \in Nat, NEW y,
         y = [x EXCEPT !.pc = "saving", !.moved = FALSE, !.left = n]
  PROVE  IsWait(y) /\ y.pc = "saving" /\ y.left = n /\ ~y.moved /\ Keeps(x, y)
<1>1. y = [pc |-> y.pc, left |-> y.left, ok |-> y.ok, moved |-> y.moved, since |-> y.since,
           of |-> y.of, target |-> y.target, again |-> y.again, before |-> y.before,
           head |-> y.head, started |-> y.started, current |-> y.current, keep |-> y.keep,
           fresh |-> y.fresh, document |-> y.document]
  BY DEF IsWait
<1>2. y.pc = "saving" /\ y.left = n /\ y.moved = FALSE /\ y.ok = x.ok BY DEF IsWait
<1>3. /\ y.target = x.target /\ y.again = x.again /\ y.before = x.before /\ y.head = x.head
      /\ y.started = x.started /\ y.current = x.current /\ y.keep = x.keep
      /\ y.fresh = x.fresh /\ y.document = x.document
  BY DEF IsWait
<1>4. Keeps(x, y) BY <1>3 DEF Keeps
<1>5. /\ x.left \in Nat
      /\ {x.ok, x.moved, x.again, x.started, x.current, x.keep, x.fresh} \subseteq BOOLEAN
  BY DEF IsWait
<1>6. {y.ok, y.moved, y.again, y.started, y.current, y.keep, y.fresh} \subseteq BOOLEAN
  BY <1>2, <1>3, <1>5
<1> QED BY <1>1, <1>2, <1>4, <1>6 DEF IsWait, Pcs

LEMMA FlushingWait ==
  ASSUME NEW x, IsWait(x), Len(flight) \in Nat, NEW y, y = Flushing(x)
  PROVE  /\ IsWait(y) /\ y.pc = "flushing" /\ y.left = Len(flight) /\ Keeps(x, y)
         /\ drawn.project # NoOne => y.since = Len(shown[drawn.project])
<1> DEFINE since == IF drawn.project = NoOne THEN 1 ELSE Len(shown[drawn.project])
           of == drawn.project
           n == Len(flight)
<1>1. y = [x EXCEPT !.pc = "flushing", !.left = n, !.of = of, !.since = since]
  BY DEF Flushing
<1>2. drawn.project # NoOne => since = Len(shown[drawn.project]) OBVIOUS
<1> HIDE DEF since, of
<1>3. y = [pc |-> y.pc, left |-> y.left, ok |-> y.ok, moved |-> y.moved, since |-> y.since,
           of |-> y.of, target |-> y.target, again |-> y.again, before |-> y.before,
           head |-> y.head, started |-> y.started, current |-> y.current, keep |-> y.keep,
           fresh |-> y.fresh, document |-> y.document]
  BY <1>1 DEF IsWait
<1>4. y.pc = "flushing" /\ y.left = n /\ y.ok = x.ok /\ y.since = since /\ y.moved = x.moved
  BY <1>1 DEF IsWait
<1>5. /\ y.target = x.target /\ y.again = x.again /\ y.before = x.before /\ y.head = x.head
      /\ y.started = x.started /\ y.current = x.current /\ y.keep = x.keep
      /\ y.fresh = x.fresh /\ y.document = x.document
  BY <1>1 DEF IsWait
<1>6. Keeps(x, y) BY <1>5 DEF Keeps
<1>7. {x.ok, x.moved, x.again, x.started, x.current, x.keep, x.fresh} \subseteq BOOLEAN
  BY DEF IsWait
<1>8. {y.ok, y.moved, y.again, y.started, y.current, y.keep, y.fresh} \subseteq BOOLEAN
  BY <1>4, <1>5, <1>7
<1>9. IsWait(y) BY <1>3, <1>4, <1>8 DEF IsWait, Pcs
<1> QED BY <1>2, <1>4, <1>6, <1>9

LEMMA SavesCurrent ==
  ASSUME RestIsSound, BarrierStep, NEW w \in DOMAIN Waits, NEW x, IsWait(x),
         NEW ws, IsMap(ws), DOMAIN ws = DOMAIN Waits, SaveCurrent(w, x, ws)
  PROVE  /\ IsMap(waits') /\ DOMAIN waits' = DOMAIN Waits
         /\ \A v \in DOMAIN Waits : v # w => waits'[v] = ws[v]
         /\ IsWait(waits'[w]) /\ Keeps(x, waits'[w]) /\ SavingIsSound(w)'
         /\ waits'[w].pc \in {"saving", "flushing"}
         /\ waits'[w].pc = "flushing" =>
              waits'[w].left = 0 /\ drawn.project = NoOne /\ Still'
<1>1. UNCHANGED <<drawn, flight, shown>> BY DEF BarrierStep
<1>2. IsList(saves) /\ Len(saves) \in Nat BY ListIs DEF RestIsSound, Shaped, SavesShaped
<1>3. CASE drawn.project = NoOne
  <2> DEFINE y == Flushing(x)
  <2>1. waits' = [ws EXCEPT ![w] = y] BY <1>3 DEF SaveCurrent
  <2>2. saves = <<>> /\ flight = <<>> /\ saves' = saves BY <1>3 DEF RestIsSound, DraftsAreSafe, SaveCurrent
  <2>3. Len(flight) = 0 BY <2>2, EmptyList
  <2>4. IsWait(y) /\ y.pc = "flushing" /\ y.left = 0 /\ Keeps(x, y)
    BY <2>3, FlushingWait
  <2> HIDE DEF y
  <2>6. waits'[w] = y /\ IsMap(waits') /\ DOMAIN waits' = DOMAIN Waits
        /\ \A v \in DOMAIN Waits : v # w => waits'[v] = ws[v]
    BY <2>1 DEF IsMap
  <2>7. Still BY <1>3, <2>2, EmptyList DEF Still, RestIsSound, DraftsAreSafe
  <2>8. Still' BY <2>7, BarrierStepIsSound
  <2>9. SavingIsSound(w)' BY <2>4, <2>6 DEF SavingIsSound
  <2> QED BY <1>3, <2>4, <2>6, <2>8, <2>9
<1>4. CASE drawn.project # NoOne
  <2> DEFINE y == [x EXCEPT !.pc = "saving", !.moved = FALSE, !.left = Len(saves) + 1]
  <2>1. waits' = [ws EXCEPT ![w] = y] /\ saves' = Append(saves, Draft(drawn.project, drawn.view))
    BY <1>4 DEF SaveCurrent
  <2>3. /\ IsWait(y) /\ y.pc = "saving" /\ y.left = Len(saves) + 1 /\ ~y.moved /\ Keeps(x, y)
    <3>1. Len(saves) + 1 \in Nat BY <1>2
    <3> QED BY <3>1, SavingWait
  <2> HIDE DEF y
  <2>4. waits'[w] = y /\ IsMap(waits') /\ DOMAIN waits' = DOMAIN Waits
        /\ \A v \in DOMAIN Waits : v # w => waits'[v] = ws[v]
    BY <2>1 DEF IsMap
  <2> DEFINE d == DrawnDraft
  <2>5. saves' = Append(saves, d) BY <2>1 DEF DrawnDraft
  <2> HIDE DEF d
  <2>6. /\ Len(saves') = Len(saves) + 1 /\ DOMAIN saves' = 1 .. Len(saves) + 1
        /\ saves'[Len(saves) + 1] = d
    BY <1>2, <2>5, AppendIs
  <2>7. y.left = 1 => flight' = <<>>
    <3>1. ASSUME y.left = 1 PROVE flight = <<>>
      <4>1. Len(saves) = 0 BY <1>2, <2>3, <3>1
      <4>2. saves = <<>> BY <1>2, <4>1, ListIs
      <4> QED BY <4>2 DEF RestIsSound, FlightIsSound
    <3> QED BY <1>1, <3>1
  <2>8. \A i \in DOMAIN saves' : i >= y.left => saves'[i] = d BY <1>2, <2>3, <2>6
  <2>9. d = DrawnDraft' BY <1>1 DEF d, DrawnDraft, Draft
  <2>10. y.left # 0 /\ y.left <= Len(saves') BY <1>2, <2>3, <2>6
  <2>11. SavingIsSound(w)' BY <2>3, <2>4, <2>7, <2>8, <2>9, <2>10 DEF SavingIsSound
  <2> QED BY <2>3, <2>4, <2>11
<1> QED BY <1>3, <1>4

LEMMA AsleepIs == IsWait(Asleep)
BY DEF Asleep, IsWait, Pcs

LEMMA AskIsSound ==
  ASSUME WorkspaceInvariant, NEW w \in DOMAIN Waits, Ask(w)
  PROVE  WorkspaceInvariant'
<1> USE DEF WorkspaceInvariant
<1>1. /\ SaveCurrent(w, Asleep, waits) /\ drawn.project = window.project /\ Kind(w) # "open"
      /\ UNCHANGED <<scenario, store, persisted, flight, window, drawn, shown, timer, control>>
  BY DEF Ask, Draw
<1>2. BarrierStep
  BY <1>1 DEF BarrierStep, QueuesDrawn, SaveCurrent, DrawnDraft, RestIsSound, Shaped, IsWindow
<1>3. /\ IsMap(waits') /\ DOMAIN waits' = DOMAIN Waits
      /\ \A v \in DOMAIN Waits : v # w => waits'[v] = waits[v]
      /\ IsWait(waits'[w]) /\ Keeps(Asleep, waits'[w]) /\ SavingIsSound(w)'
      /\ waits'[w].pc \in {"saving", "flushing"}
      /\ waits'[w].pc = "flushing" =>
           waits'[w].left = 0 /\ drawn.project = NoOne /\ Still'
  BY <1>1, <1>2, AsleepIs, SavesCurrent DEF WaitsAreSound, WaitsShaped
<1>4. ~waits'[w].current /\ ~waits'[w].again /\ ~waits'[w].started BY <1>3, KeptFields DEF Asleep
<1>5. \A v \in DOMAIN Waits : v # w => Same(v) BY <1>3, SameIf
<1>6. WaitsShaped' BY <1>3 DEF WaitsAreSound, WaitsShaped
<1>7. OneIsCurrent' BY <1>3, <1>4 DEF WaitsAreSound, OneIsCurrent
<1>8. WaitIsSound(w)'
  BY <1>1, <1>3, <1>4 DEF WaitIsSound, BarrierIsSound, OpeningIsSound, Hydrates, Live
<1>9. IsHead(window.project, window.head)' BY <1>1 DEF HeadsAreSound, IsHead, IsStored
<1> QED BY <1>2, <1>4, <1>5, <1>6, <1>7, <1>8, <1>9, BarrierStepOf

AskedOf(x, p, same, before, head) ==
  [x EXCEPT !.target = p, !.again = same, !.before = before, !.head = head, !.current = TRUE]

LEMMA AskedWait ==
  ASSUME NEW x, IsWait(x), NEW p, NEW same \in BOOLEAN, NEW before, NEW head, NEW y,
         y = AskedOf(x, p, same, before, head)
  PROVE  /\ IsWait(y) /\ y.target = p /\ y.before = before /\ y.head = head
         /\ y.started = x.started /\ y.current
<1>1. y = [pc |-> y.pc, left |-> y.left, ok |-> y.ok, moved |-> y.moved, since |-> y.since,
           of |-> y.of, target |-> y.target, again |-> y.again, before |-> y.before,
           head |-> y.head, started |-> y.started, current |-> y.current, keep |-> y.keep,
           fresh |-> y.fresh, document |-> y.document]
  BY DEF IsWait, AskedOf
<1>2. /\ y.pc = x.pc /\ y.left = x.left /\ y.ok = x.ok /\ y.moved = x.moved
      /\ y.again = same /\ y.started = x.started /\ y.current = TRUE /\ y.keep = x.keep
      /\ y.fresh = x.fresh
  BY DEF IsWait, AskedOf
<1>3. y.target = p /\ y.before = before /\ y.head = head BY DEF IsWait, AskedOf
<1>4. /\ x.left \in Nat /\ x.pc \in Pcs
      /\ {x.ok, x.moved, x.again, x.started, x.current, x.keep, x.fresh} \subseteq BOOLEAN
  BY DEF IsWait, AskedOf
<1>5. {y.ok, y.moved, y.again, y.started, y.current, y.keep, y.fresh} \subseteq BOOLEAN
  BY <1>2, <1>4
<1>6. IsWait(y) BY <1>1, <1>2, <1>4, <1>5 DEF IsWait
<1> QED BY <1>2, <1>3, <1>6

LEMMA OpenProjectIsSound ==
  ASSUME WorkspaceInvariant, NEW w \in DOMAIN Waits, NEW p \in ProjectIds, OpenProject(w, p),
         scenario.patient
  PROVE  WorkspaceInvariant'
<1> USE DEF WorkspaceInvariant
<1> DEFINE same == p = window.project /\ window.phase = "ready"
           asked == [Asleep EXCEPT !.target = p, !.again = same, !.before = window.project,
                                   !.head = window.head, !.current = TRUE]
           others == [v \in DOMAIN Waits |-> [waits[v] EXCEPT !.current = FALSE]]
<1>1. /\ SaveCurrent(w, asked, others) /\ drawn.project = window.project /\ Kind(w) = "open"
      /\ ~Hydrating
      /\ window' = IF same THEN window
                   ELSE [window EXCEPT !.phase = "opening", !.of = window.project]
      /\ UNCHANGED <<scenario, store, persisted, flight, drawn, shown, timer, control>>
  BY DEF OpenProject, Draw
<1>2. /\ IsWindow(window') /\ window'.project = window.project /\ window'.view = window.view
      /\ window'.head = window.head
  <2>1. IsWindow(window) BY DEF RestIsSound, Shaped
  <2>2. CASE window' = window BY <2>1, <2>2
  <2>3. CASE window' = [window EXCEPT !.phase = "opening", !.of = window.project]
    BY <2>1, <2>3 DEF IsWindow
  <2> QED BY <1>1, <2>2, <2>3
<1>3. BarrierStep BY <1>1, <1>2 DEF BarrierStep, QueuesDrawn, SaveCurrent, DrawnDraft
<1>5. /\ IsWait(asked) /\ asked.target = p /\ asked.before = window.project
      /\ asked.head = window.head /\ ~asked.started /\ asked.current
  <2>1. same \in BOOLEAN OBVIOUS
  <2>2. Asleep.started = FALSE BY DEF Asleep
  <2> DEFINE x == Asleep
             before == window.project
             head == window.head
  <2>3. asked = AskedOf(x, p, same, before, head) BY DEF AskedOf
  <2>4. IsWait(x) /\ ~x.started BY <2>2, AsleepIs
  <2> HIDE DEF same, asked, x, before, head
  <2>5. /\ IsWait(asked) /\ asked.target = p /\ asked.before = before
        /\ asked.head = head /\ asked.started = x.started /\ asked.current
    BY <2>1, <2>3, <2>4, AskedWait
  <2> QED BY <2>4, <2>5 DEF before, head
<1>6. IsMap(others) /\ DOMAIN others = DOMAIN Waits BY DEF IsMap
<1>7. ASSUME NEW v \in DOMAIN Waits
      PROVE  IsWait(others[v]) /\ ~others[v].current /\ others[v].pc = waits[v].pc
  <2> DEFINE x == waits[v]
             y == others[v]
  <2>1. IsWait(x) BY DEF WaitsAreSound, WaitsShaped
  <2>2. y = [x EXCEPT !.current = FALSE] OBVIOUS
  <2> HIDE DEF x, y
  <2>3. y = [pc |-> y.pc, left |-> y.left, ok |-> y.ok, moved |-> y.moved, since |-> y.since,
             of |-> y.of, target |-> y.target, again |-> y.again, before |-> y.before,
             head |-> y.head, started |-> y.started, current |-> y.current, keep |-> y.keep,
             fresh |-> y.fresh, document |-> y.document]
    BY <2>1, <2>2 DEF IsWait
  <2>4. /\ y.pc = x.pc /\ y.left = x.left /\ y.current = FALSE
        /\ {y.ok, y.moved, y.again, y.started, y.current, y.keep, y.fresh} \subseteq BOOLEAN
    BY <2>1, <2>2 DEF IsWait
  <2>5. x.pc \in Pcs /\ x.left \in Nat BY <2>1 DEF IsWait
  <2>6. IsWait(y) BY <2>3, <2>4, <2>5 DEF IsWait
  <2> QED BY <2>4, <2>6 DEF x, y
<1> HIDE DEF asked
<1>8. /\ IsMap(waits') /\ DOMAIN waits' = DOMAIN Waits
      /\ \A v \in DOMAIN Waits : v # w => waits'[v] = others[v]
      /\ IsWait(waits'[w]) /\ Keeps(asked, waits'[w]) /\ SavingIsSound(w)'
      /\ waits'[w].pc \in {"saving", "flushing"}
      /\ waits'[w].pc = "flushing" =>
           waits'[w].left = 0 /\ drawn.project = NoOne /\ Still'
  <2> HIDE DEF others
  <2> QED BY <1>1, <1>3, <1>5, <1>6, SavesCurrent
<1>9. /\ waits'[w].target = p /\ waits'[w].before = window.project /\ waits'[w].head = window.head
      /\ ~waits'[w].started /\ waits'[w].current
  BY <1>5, <1>8, KeptFields
<1>10. ASSUME NEW v \in DOMAIN Waits, v # w PROVE Same(v)
  <2>1. waits'[v] = [waits[v] EXCEPT !.current = FALSE] BY <1>8, <1>10
  <2>2. IsWait(waits[v]) BY DEF WaitsAreSound, WaitsShaped
  <2>3. ~Hydrates(v) BY <1>1 DEF Hydrating, Hydrates
  <2> DEFINE x == waits[v]
             y == waits'[v]
  <2>4. ~y.current BY <1>7, <1>8, <1>10
  <2>5. /\ y.pc = x.pc /\ y.left = x.left /\ y.ok = x.ok /\ y.moved = x.moved
        /\ y.since = x.since /\ y.target = x.target /\ y.again = x.again
        /\ y.before = x.before /\ y.head = x.head /\ y.started = x.started
        /\ y.keep = x.keep /\ y.fresh = x.fresh /\ y.document = x.document
    <3> HIDE DEF x, y
    <3>1. y = [x EXCEPT !.current = FALSE] /\ IsWait(x) BY <2>1, <2>2 DEF x, y
    <3> QED BY <3>1 DEF IsWait
  <2> QED BY <2>3, <2>4, <2>5 DEF Same
<1>11. WaitsShaped'
  <2> HIDE DEF others
  <2> QED BY <1>7, <1>8 DEF WaitsShaped
<1>12. OneIsCurrent'
  <2>1. \A v \in DOMAIN Waits : v # w => ~waits'[v].current
    <3> HIDE DEF others
    <3> QED BY <1>7, <1>8
  <2> QED BY <1>1, <2>1 DEF OneIsCurrent
<1>13. IsHead(window.project, window.head)' BY <1>1, <1>2 DEF HeadsAreSound, IsHead, IsStored
<1>14. WaitIsSound(w)'
  <2>1. BarrierIsSound(w)' BY <1>1, <1>2, <1>8, <1>9 DEF BarrierIsSound, Hydrates
  <2>2. OpeningIsSound(w)' BY <1>1, <1>2, <1>8, <1>9 DEF OpeningIsSound, Hydrates, Live
  <2> QED BY <1>8, <2>1, <2>2 DEF WaitIsSound
<1>15. (waits[w].current /\ Live(w) => IsHead(waits[w].before, waits[w].head))'
  BY <1>2, <1>9, <1>13
<1> QED BY <1>3, <1>10, <1>11, <1>12, <1>13, <1>14, <1>15, BarrierStepOf

\* What becomes of a wait: it is as it was but for what is named.

PcOf(x, pc) == [x EXCEPT !.pc = pc]

LEMMA PcWait ==
  ASSUME NEW x, IsWait(x), NEW pc \in Pcs, NEW y, y = PcOf(x, pc)
  PROVE  /\ IsWait(y) /\ y.pc = pc
         /\ y.left = x.left /\ y.ok = x.ok /\ y.moved = x.moved /\ y.since = x.since
         /\ y.again = x.again /\ y.before = x.before /\ y.head = x.head
         /\ y.target = x.target /\ y.started = x.started /\ y.current = x.current
         /\ y.keep = x.keep /\ y.fresh = x.fresh /\ y.document = x.document
<1>1. y = [pc |-> y.pc, left |-> y.left, ok |-> y.ok, moved |-> y.moved, since |-> y.since,
           of |-> y.of, target |-> y.target, again |-> y.again, before |-> y.before,
           head |-> y.head, started |-> y.started, current |-> y.current, keep |-> y.keep,
           fresh |-> y.fresh, document |-> y.document]
  BY DEF IsWait, PcOf
<1>2. y.pc = pc
  BY DEF IsWait, PcOf
<1>3. /\ y.left = x.left /\ y.ok = x.ok /\ y.moved = x.moved /\ y.since = x.since
      /\ y.again = x.again /\ y.before = x.before /\ y.head = x.head /\ y.target = x.target
      /\ y.started = x.started /\ y.current = x.current /\ y.keep = x.keep
      /\ y.fresh = x.fresh /\ y.document = x.document
  BY DEF IsWait, PcOf
<1>4. /\ x.left \in Nat
      /\ {x.ok, x.moved, x.again, x.started, x.current, x.keep, x.fresh} \subseteq BOOLEAN
  BY DEF IsWait
<1>5. {y.ok, y.moved, y.again, y.started, y.current, y.keep, y.fresh} \subseteq BOOLEAN
  BY <1>2, <1>3, <1>4
<1> QED BY <1>1, <1>2, <1>3, <1>4, <1>5 DEF IsWait, Pcs

StartedOf(x) == [x EXCEPT !.pc = "asking", !.started = TRUE]

LEMMA StartedWait ==
  ASSUME NEW x, IsWait(x), NEW y, y = StartedOf(x)
  PROVE  /\ IsWait(y) /\ y.pc = "asking" /\ y.started = TRUE
         /\ y.left = x.left /\ y.ok = x.ok /\ y.moved = x.moved /\ y.since = x.since
         /\ y.again = x.again /\ y.before = x.before /\ y.head = x.head
         /\ y.target = x.target /\ y.current = x.current /\ y.keep = x.keep
         /\ y.fresh = x.fresh /\ y.document = x.document
<1>1. y = [pc |-> y.pc, left |-> y.left, ok |-> y.ok, moved |-> y.moved, since |-> y.since,
           of |-> y.of, target |-> y.target, again |-> y.again, before |-> y.before,
           head |-> y.head, started |-> y.started, current |-> y.current, keep |-> y.keep,
           fresh |-> y.fresh, document |-> y.document]
  BY DEF IsWait, StartedOf
<1>2. y.pc = "asking" /\ y.started = TRUE
  BY DEF IsWait, StartedOf
<1>3. /\ y.left = x.left /\ y.ok = x.ok /\ y.moved = x.moved /\ y.since = x.since
      /\ y.again = x.again /\ y.before = x.before /\ y.head = x.head /\ y.target = x.target
      /\ y.current = x.current /\ y.keep = x.keep /\ y.fresh = x.fresh
      /\ y.document = x.document
  BY DEF IsWait, StartedOf
<1>4. /\ x.left \in Nat
      /\ {x.ok, x.moved, x.again, x.started, x.current, x.keep, x.fresh} \subseteq BOOLEAN
  BY DEF IsWait
<1>5. {y.ok, y.moved, y.again, y.started, y.current, y.keep, y.fresh} \subseteq BOOLEAN
  BY <1>2, <1>3, <1>4
<1> QED BY <1>1, <1>2, <1>3, <1>4, <1>5 DEF IsWait, Pcs

LoadingOf(x, keep) == [x EXCEPT !.pc = "loading", !.keep = keep]

LEMMA LoadingWait ==
  ASSUME NEW x, IsWait(x), NEW keep \in BOOLEAN, NEW y, y = LoadingOf(x, keep)
  PROVE  /\ IsWait(y) /\ y.pc = "loading" /\ y.keep = keep
         /\ y.left = x.left /\ y.ok = x.ok /\ y.moved = x.moved /\ y.since = x.since
         /\ y.again = x.again /\ y.before = x.before /\ y.head = x.head
         /\ y.target = x.target /\ y.started = x.started /\ y.current = x.current
         /\ y.fresh = x.fresh /\ y.document = x.document
<1>1. y = [pc |-> y.pc, left |-> y.left, ok |-> y.ok, moved |-> y.moved, since |-> y.since,
           of |-> y.of, target |-> y.target, again |-> y.again, before |-> y.before,
           head |-> y.head, started |-> y.started, current |-> y.current, keep |-> y.keep,
           fresh |-> y.fresh, document |-> y.document]
  BY DEF IsWait, LoadingOf
<1>2. y.pc = "loading" /\ y.keep = keep
  BY DEF IsWait, LoadingOf
<1>3. /\ y.left = x.left /\ y.ok = x.ok /\ y.moved = x.moved /\ y.since = x.since
      /\ y.again = x.again /\ y.before = x.before /\ y.head = x.head /\ y.target = x.target
      /\ y.started = x.started /\ y.current = x.current /\ y.fresh = x.fresh
      /\ y.document = x.document
  BY DEF IsWait, LoadingOf
<1>4. /\ x.left \in Nat
      /\ {x.ok, x.moved, x.again, x.started, x.current, x.keep, x.fresh} \subseteq BOOLEAN
  BY DEF IsWait
<1>5. {y.ok, y.moved, y.again, y.started, y.current, y.keep, y.fresh} \subseteq BOOLEAN
  BY <1>2, <1>3, <1>4
<1> QED BY <1>1, <1>2, <1>3, <1>4, <1>5 DEF IsWait, Pcs

LoadedOf(x, d) == [x EXCEPT !.pc = "loaded", !.document = d]

LEMMA LoadedWait ==
  ASSUME NEW x, IsWait(x), NEW d, NEW y, y = LoadedOf(x, d)
  PROVE  /\ IsWait(y) /\ y.pc = "loaded" /\ y.document = d
         /\ y.left = x.left /\ y.ok = x.ok /\ y.moved = x.moved /\ y.since = x.since
         /\ y.again = x.again /\ y.before = x.before /\ y.head = x.head
         /\ y.target = x.target /\ y.started = x.started /\ y.current = x.current
         /\ y.keep = x.keep /\ y.fresh = x.fresh
<1>1. y = [pc |-> y.pc, left |-> y.left, ok |-> y.ok, moved |-> y.moved, since |-> y.since,
           of |-> y.of, target |-> y.target, again |-> y.again, before |-> y.before,
           head |-> y.head, started |-> y.started, current |-> y.current, keep |-> y.keep,
           fresh |-> y.fresh, document |-> y.document]
  BY DEF IsWait, LoadedOf
<1>2. y.pc = "loaded" /\ y.document = d
  BY DEF IsWait, LoadedOf
<1>3. /\ y.left = x.left /\ y.ok = x.ok /\ y.moved = x.moved /\ y.since = x.since
      /\ y.again = x.again /\ y.before = x.before /\ y.head = x.head /\ y.target = x.target
      /\ y.started = x.started /\ y.current = x.current /\ y.keep = x.keep
      /\ y.fresh = x.fresh
  BY DEF IsWait, LoadedOf
<1>4. /\ x.left \in Nat
      /\ {x.ok, x.moved, x.again, x.started, x.current, x.keep, x.fresh} \subseteq BOOLEAN
  BY DEF IsWait
<1>5. {y.ok, y.moved, y.again, y.started, y.current, y.keep, y.fresh} \subseteq BOOLEAN
  BY <1>2, <1>3, <1>4
<1> QED BY <1>1, <1>2, <1>3, <1>4, <1>5 DEF IsWait, Pcs

LEMMA OverIs ==
  ASSUME WaitsShaped, NEW w \in DOMAIN Waits, NEW pc \in Pcs, Over(w, pc)
  PROVE  /\ waits'[w] = PcOf(waits[w], pc)
         /\ \A v \in DOMAIN Waits : v # w => waits'[v] = waits[v]
         /\ WaitsShaped'
<1>1. /\ IsMap(waits') /\ DOMAIN waits' = DOMAIN Waits
      /\ \A v \in DOMAIN Waits : v # w => waits'[v] = waits[v]
      /\ waits'[w] = [waits[w] EXCEPT !.pc = pc]
  BY DEF Over, WaitsShaped, IsMap
<1>2. waits'[w] = PcOf(waits[w], pc) BY <1>1 DEF PcOf
<1>3. IsWait(waits[w]) BY DEF WaitsShaped
<1>4. IsWait(waits'[w]) BY <1>2, <1>3, PcWait
<1> QED BY <1>1, <1>2, <1>4 DEF WaitsShaped

\* A barrier that ends, whatever it waited for.
LEMMA EndIsSound ==
  ASSUME WorkspaceInvariant, BarrierStep, NEW w \in DOMAIN Waits,
         NEW pc \in {"failed", "over"}, Over(w, pc),
         IsHead(window.project, window.head)'
  PROVE  WorkspaceInvariant'
<1> USE DEF WorkspaceInvariant
<1>1. /\ waits'[w] = PcOf(waits[w], pc)
      /\ \A v \in DOMAIN Waits : v # w => waits'[v] = waits[v]
      /\ WaitsShaped'
  BY OverIs DEF WaitsAreSound, Pcs
<1>2. /\ waits'[w].pc = pc /\ waits'[w].again = waits[w].again
      /\ waits'[w].started = waits[w].started /\ waits'[w].current = waits[w].current
  <2>1. IsWait(waits[w]) /\ pc \in Pcs BY DEF WaitsAreSound, WaitsShaped, Pcs
  <2> QED BY <1>1, <2>1, PcWait
<1>3. OneIsCurrent' BY <1>1, <1>2 DEF WaitsAreSound, OneIsCurrent
<1>4. ~Live(w)' BY <1>2 DEF Live
<1>5. WaitIsSound(w)'
  BY <1>2 DEF WaitsAreSound, WaitIsSound, SavingIsSound, BarrierIsSound, OpeningIsSound,
              Hydrates, Live
<1> QED BY <1>1, <1>3, <1>4, <1>5, SameIf, BarrierStepOf

FailStep ==
  /\ UNCHANGED <<scenario, store, persisted, saves, flight, drawn, shown, timer, control>>

LEMMA FailIsSound ==
  ASSUME WorkspaceInvariant, NEW w \in DOMAIN Waits, Fails(w), FailStep,
         waits[w].pc \in {"saving", "flushing", "asking", "refused"}
  PROVE  WorkspaceInvariant'
<1> USE DEF WorkspaceInvariant
<1>1. Over(w, "failed") BY DEF Fails
<1>2. CASE ~waits[w].current
  <2>1. window' = window BY <1>2 DEF Fails
  <2>2. BarrierStep BY <2>1 DEF BarrierStep, FailStep, RestIsSound, Shaped
  <2>3. IsHead(window.project, window.head)'
    BY <2>1 DEF FailStep, HeadsAreSound, IsHead, IsStored
  <2> QED BY <1>1, <2>2, <2>3, EndIsSound
<1>3. CASE waits[w].current
  <2> DEFINE phase == IF waits[w].started THEN "blocked"
                      ELSE IF waits[w].before = NoOne THEN "no_project" ELSE "ready"
             x == waits[w]
  <2>1. window' = [window EXCEPT !.phase = phase, !.of = x.before, !.head = x.head]
    BY <1>3 DEF Fails, GivenUp
  <2>2. IsWindow(window) BY DEF RestIsSound, Shaped
  <2> HIDE DEF phase, x
  <2>3. /\ IsWindow(window') /\ window'.project = window.project /\ window'.view = window.view
        /\ window'.head = x.head
    BY <2>1, <2>2 DEF IsWindow
  <2>4. BarrierStep BY <2>3 DEF BarrierStep, FailStep
  <2>5. Live(w) BY <1>3 DEF WaitsAreSound, OneIsCurrent, Live
  <2>6. waits[w].before = window.project
    BY <1>3, <2>5 DEF WaitsAreSound, WaitIsSound, OpeningIsSound
  <2>7. IsHead(window.project, waits[w].head) BY <1>3, <2>5, <2>6 DEF HeadsAreSound
  <2>8. IsHead(window.project, window.head)'
    BY <2>3, <2>7 DEF FailStep, IsHead, IsStored, x
  <2> QED BY <1>1, <2>4, <2>8, EndIsSound
<1> QED BY <1>2, <1>3

FreshOf(x, fresh) == [x EXCEPT !.fresh = fresh]

LEMMA FreshWait ==
  ASSUME NEW x, IsWait(x), NEW fresh \in BOOLEAN, NEW y, y = FreshOf(x, fresh)
  PROVE  /\ IsWait(y) /\ y.fresh = fresh /\ y.pc = x.pc
         /\ y.left = x.left /\ y.ok = x.ok /\ y.moved = x.moved /\ y.since = x.since
         /\ y.again = x.again /\ y.before = x.before /\ y.head = x.head
         /\ y.target = x.target /\ y.started = x.started /\ y.current = x.current
         /\ y.keep = x.keep /\ y.document = x.document
<1>1. y = [pc |-> y.pc, left |-> y.left, ok |-> y.ok, moved |-> y.moved, since |-> y.since,
           of |-> y.of, target |-> y.target, again |-> y.again, before |-> y.before,
           head |-> y.head, started |-> y.started, current |-> y.current, keep |-> y.keep,
           fresh |-> y.fresh, document |-> y.document]
  BY DEF IsWait, FreshOf
<1>2. y.fresh = fresh /\ y.pc = x.pc /\ x.pc \in Pcs
  BY DEF IsWait, FreshOf
<1>3. /\ y.left = x.left /\ y.ok = x.ok /\ y.moved = x.moved /\ y.since = x.since
      /\ y.again = x.again /\ y.before = x.before /\ y.head = x.head /\ y.target = x.target
      /\ y.started = x.started /\ y.current = x.current /\ y.keep = x.keep
      /\ y.document = x.document
  BY DEF IsWait, FreshOf
<1>4. /\ x.left \in Nat
      /\ {x.ok, x.moved, x.again, x.started, x.current, x.keep, x.fresh} \subseteq BOOLEAN
  BY DEF IsWait
<1>5. {y.ok, y.moved, y.again, y.started, y.current, y.keep, y.fresh} \subseteq BOOLEAN
  BY <1>2, <1>3, <1>4
<1> QED BY <1>1, <1>2, <1>3, <1>4, <1>5 DEF IsWait, Pcs

LEMMA SaveEndsIsSound ==
  ASSUME WorkspaceInvariant, NEW w \in DOMAIN Waits, SaveEnds(w)
  PROVE  WorkspaceInvariant'
<1> USE DEF WorkspaceInvariant
<1> DEFINE x == waits[w]
<1>1. /\ x.pc = "saving" /\ x.left = 0
      /\ UNCHANGED <<scenario, store, persisted, flight, drawn, shown, timer, control>>
  BY DEF SaveEnds
<1>2. WaitsShaped /\ OneIsCurrent /\ WaitIsSound(w) /\ IsWait(x) BY DEF WaitsAreSound, WaitsShaped
<1>3. IsWindow(window) /\ IsHead(window.project, window.head)
  BY DEF RestIsSound, Shaped, HeadsAreSound
<1>4. UNCHANGED window => IsHead(window.project, window.head)'
  BY <1>1, <1>3 DEF IsHead, IsStored
<1>5. CASE x.moved /\ SaveCurrent(w, x, waits) /\ UNCHANGED window
  <2>1. BarrierStep BY <1>1, <1>3, <1>5 DEF BarrierStep, QueuesDrawn, SaveCurrent, DrawnDraft
  <2>2. IsMap(waits) /\ DOMAIN waits = DOMAIN Waits BY <1>2 DEF WaitsShaped
  <2>3. /\ IsMap(waits') /\ DOMAIN waits' = DOMAIN Waits
        /\ \A v \in DOMAIN Waits : v # w => waits'[v] = waits[v]
        /\ IsWait(waits'[w]) /\ Keeps(x, waits'[w]) /\ SavingIsSound(w)'
        /\ waits'[w].pc \in {"saving", "flushing"}
        /\ waits'[w].pc = "flushing" =>
             waits'[w].left = 0 /\ drawn.project = NoOne /\ Still'
    <3> HIDE DEF x
    <3> QED BY <1>2, <1>5, <2>1, <2>2, SavesCurrent
  <2>4. /\ waits'[w].target = x.target /\ waits'[w].again = x.again
        /\ waits'[w].before = x.before /\ waits'[w].head = x.head
        /\ waits'[w].started = x.started /\ waits'[w].current = x.current
        /\ waits'[w].fresh = x.fresh
    BY <2>3, KeptFields
  <2>5. WaitsShaped' BY <1>2, <2>3 DEF WaitsShaped
  <2>6. OneIsCurrent' BY <1>2, <2>3, <2>4 DEF OneIsCurrent
  <2>7. Live(w)' = Live(w) BY <1>1, <2>3 DEF Live
  <2>8. BarrierIsSound(w)'
    BY <1>1, <1>2, <1>5, <2>3, <2>4 DEF WaitIsSound, BarrierIsSound, Hydrates
  <2>9. OpeningIsSound(w)'
    BY <1>1, <1>2, <1>5, <2>3, <2>4, <2>7 DEF WaitIsSound, OpeningIsSound, Hydrates
  <2>10. IsHead(window.project, window.head)' BY <1>3, <1>4, <1>5
  <2>11. (waits[w].current /\ Live(w) => IsHead(waits[w].before, waits[w].head))'
    BY <1>1, <2>4, <2>7 DEF HeadsAreSound, IsHead, IsStored
  <2>12. \A v \in DOMAIN Waits : v # w => Same(v) BY <2>3, SameIf
  <2> QED BY <2>1, <2>3, <2>5, <2>6, <2>8, <2>9, <2>10, <2>11, <2>12, BarrierStepOf DEF WaitIsSound
<1>6. CASE /\ ~x.moved /\ x.ok
           /\ waits' = [waits EXCEPT ![w] = Flushing(@)] /\ UNCHANGED <<saves, window>>
  <2> DEFINE y == Flushing(x)
  <2>1. waits' = [waits EXCEPT ![w] = y] BY <1>6
  <2>2. Still BY <1>1, <1>2, <1>6 DEF WaitIsSound, SavingIsSound
  <2>3. flight = <<>> BY <2>2 DEF Still
  <2>4. Len(flight) = 0 BY <2>3, EmptyList
  <2>5. /\ IsWait(y) /\ y.pc = "flushing" /\ y.left = 0 /\ Keeps(x, y)
        /\ drawn.project # NoOne => y.since = Len(shown[drawn.project])
    <3> HIDE DEF x, y
    <3>1. y = Flushing(x) BY DEF y
    <3> QED BY <1>2, <2>4, <3>1, FlushingWait
  <2> HIDE DEF y
  <2>6. /\ waits'[w] = y /\ IsMap(waits') /\ DOMAIN waits' = DOMAIN Waits
        /\ \A v \in DOMAIN Waits : v # w => waits'[v] = waits[v]
    BY <1>2, <2>1 DEF IsMap, WaitsShaped
  <2>7. /\ waits'[w].target = x.target /\ waits'[w].again = x.again
        /\ waits'[w].before = x.before /\ waits'[w].head = x.head
        /\ waits'[w].started = x.started /\ waits'[w].current = x.current
        /\ waits'[w].fresh = x.fresh
    BY <2>5, <2>6, KeptFields
  <2>8. BarrierStep BY <1>1, <1>3, <1>6 DEF BarrierStep
  <2>9. Still' BY <2>2, <2>8, BarrierStepIsSound
  <2>10. WaitsShaped' BY <1>2, <2>5, <2>6 DEF WaitsShaped
  <2>11. OneIsCurrent' BY <1>2, <2>6, <2>7 DEF OneIsCurrent
  <2>12. Live(w)' = Live(w) BY <1>1, <2>5, <2>6 DEF Live
  <2>13. BarrierIsSound(w)'
    BY <1>1, <1>2, <1>6, <2>5, <2>6, <2>7, <2>9 DEF WaitIsSound, BarrierIsSound, Hydrates
  <2>14. OpeningIsSound(w)'
    BY <1>1, <1>2, <1>6, <2>5, <2>6, <2>7, <2>12 DEF WaitIsSound, OpeningIsSound, Hydrates
  <2>15. IsHead(window.project, window.head)' BY <1>3, <1>4, <1>6
  <2>16. (waits[w].current /\ Live(w) => IsHead(waits[w].before, waits[w].head))'
    BY <1>1, <2>7, <2>12 DEF HeadsAreSound, IsHead, IsStored
  <2>17. \A v \in DOMAIN Waits : v # w => Same(v) BY <2>6, SameIf
  <2>18. SavingIsSound(w)' BY <2>5, <2>6 DEF SavingIsSound
  <2> QED BY <2>8, <2>10, <2>11, <2>13, <2>14, <2>15, <2>16, <2>17, <2>18, BarrierStepOf
          DEF WaitIsSound
<1>7. CASE ~x.moved /\ ~x.ok /\ Fails(w) /\ UNCHANGED saves
  BY <1>1, <1>7, FailIsSound DEF FailStep
<1> QED BY <1>5, <1>6, <1>7 DEF SaveEnds

LEMMA BootIsSound ==
  ASSUME WorkspaceInvariant, Boot
  PROVE  WorkspaceInvariant'
<1> USE DEF WorkspaceInvariant
<1>1. /\ window' = [window EXCEPT !.phase = "no_project"]
      /\ UNCHANGED <<scenario, store, persisted, saves, flight, drawn, shown, timer, control, waits>>
  BY DEF Boot
<1>2. IsWindow(window) BY DEF RestIsSound, Shaped
<1>3. /\ IsWindow(window') /\ window'.project = window.project /\ window'.view = window.view
      /\ window'.head = window.head
  BY <1>1, <1>2 DEF IsWindow
<1>4. BarrierStep BY <1>1, <1>3 DEF BarrierStep
<1>5. RestIsSound' BY <1>4, BarrierStepIsSound
<1>6. ASSUME NEW v \in DOMAIN Waits PROVE WaitIsSound(v)'
  <2>1. Same(v) BY <1>1, SameIf
  <2> QED BY <1>4, <2>1, OthersStay DEF WaitsAreSound, WaitsShaped
<1>7. WaitsAreSound' BY <1>1, <1>6 DEF WaitsAreSound, WaitsShaped, OneIsCurrent
<1>8. HeadsAreSound' BY <1>1, <1>3 DEF HeadsAreSound, IsHead, IsStored, Live
<1> QED BY <1>5, <1>7, <1>8

LEMMA AnswerOpenIsSound ==
  ASSUME WorkspaceInvariant, NEW w \in DOMAIN Waits, AnswerOpen(w)
  PROVE  WorkspaceInvariant'
<1> USE DEF WorkspaceInvariant
<1> DEFINE fresh == store[waits[w].target] = <<>>
           x == waits[w]
           z == [x EXCEPT !.fresh = fresh]
<1>1. /\ x.pc = "asking"
      /\ UNCHANGED <<scenario, store, persisted, flight, drawn, shown, timer, control>>
  BY DEF AnswerOpen
<1>2. WaitsShaped /\ OneIsCurrent /\ WaitIsSound(w) /\ IsWait(x) BY DEF WaitsAreSound, WaitsShaped
<1>3. IsWindow(window) /\ IsHead(window.project, window.head)
  BY DEF RestIsSound, Shaped, HeadsAreSound
<1>4. CASE SaveCurrent(w, z, waits) /\ UNCHANGED window
  <2>1. fresh \in BOOLEAN OBVIOUS
  <2> HIDE DEF fresh
  <2>2. /\ IsWait(z) /\ z.target = x.target /\ z.again = x.again /\ z.before = x.before
        /\ z.head = x.head /\ z.started = x.started /\ z.current = x.current /\ z.fresh = fresh
    BY <1>2, <2>1, FreshWait DEF FreshOf
  <2>3. BarrierStep BY <1>1, <1>3, <1>4 DEF BarrierStep, QueuesDrawn, SaveCurrent, DrawnDraft
  <2>4. IsMap(waits) /\ DOMAIN waits = DOMAIN Waits BY <1>2 DEF WaitsShaped
  <2>5. /\ IsMap(waits') /\ DOMAIN waits' = DOMAIN Waits
        /\ \A v \in DOMAIN Waits : v # w => waits'[v] = waits[v]
        /\ IsWait(waits'[w]) /\ Keeps(z, waits'[w]) /\ SavingIsSound(w)'
        /\ waits'[w].pc \in {"saving", "flushing"}
        /\ waits'[w].pc = "flushing" =>
             waits'[w].left = 0 /\ drawn.project = NoOne /\ Still'
    <3> HIDE DEF z
    <3> QED BY <1>4, <2>2, <2>3, <2>4, SavesCurrent
  <2>6. /\ waits'[w].target = x.target /\ waits'[w].again = x.again
        /\ waits'[w].before = x.before /\ waits'[w].head = x.head
        /\ waits'[w].started = x.started /\ waits'[w].current = x.current
        /\ waits'[w].fresh = fresh
    <3> HIDE DEF z
    <3> QED BY <2>2, <2>5, KeptFields
  <2>7. WaitsShaped' BY <1>2, <2>5 DEF WaitsShaped
  <2>8. OneIsCurrent' BY <1>2, <2>5, <2>6 DEF OneIsCurrent
  <2>9. Kind(w) = "open" /\ x.started BY <1>1, <1>2 DEF WaitIsSound, OpeningIsSound
  <2>10. Live(w)' /\ Live(w) BY <1>1, <2>5, <2>9 DEF Live
  <2>11. BarrierIsSound(w)'
    BY <1>1, <1>2, <1>4, <2>5, <2>6, <2>9 DEF WaitIsSound, BarrierIsSound, Hydrates
  <2>12. OpeningIsSound(w)'
    <3>1. ~fresh => store[x.target] # <<>> BY DEF fresh
    <3> QED BY <1>1, <1>2, <1>4, <2>5, <2>6, <2>10, <3>1 DEF WaitIsSound, OpeningIsSound, Hydrates
  <2>13. IsHead(window.project, window.head)' BY <1>1, <1>3, <1>4 DEF IsHead, IsStored
  <2>14. (waits[w].current /\ Live(w) => IsHead(waits[w].before, waits[w].head))'
    BY <1>1, <2>6, <2>10 DEF HeadsAreSound, IsHead, IsStored
  <2>15. \A v \in DOMAIN Waits : v # w => Same(v) BY <2>5, SameIf
  <2> QED BY <2>3, <2>5, <2>7, <2>8, <2>11, <2>12, <2>13, <2>14, <2>15, BarrierStepOf
          DEF WaitIsSound
<1>5. CASE Fails(w) /\ UNCHANGED saves BY <1>1, <1>5, FailIsSound DEF FailStep
<1> QED BY <1>4, <1>5 DEF AnswerOpen

LEMMA RefusalIsSound ==
  ASSUME WorkspaceInvariant, NEW w \in DOMAIN Waits, Refusal(w)
  PROVE  WorkspaceInvariant'
BY FailIsSound DEF Refusal, FailStep

TurnsTo(w, y) == waits' = [waits EXCEPT ![w] = y]
MayRelease(w, y) ==
  /\ y.before = waits[w].before /\ y.head = waits[w].head /\ y.target = waits[w].target
  /\ y.current = waits[w].current /\ (y.again => ~y.started)
  /\ y.pc = "loading" => y.fresh = waits[w].fresh /\ waits[w].started
  /\ y.keep /\ y.pc = "loading" => y.before = NoOne
  /\ (y.pc = "asking" /\ y.started) \/ (y.pc = "loading" /\ y.current)

LEMMA FlushEndsIsSound ==
  ASSUME WorkspaceInvariant, NEW w \in DOMAIN Waits, FlushEnds(w)
  PROVE  WorkspaceInvariant'
<1> USE DEF WorkspaceInvariant
<1> DEFINE x == waits[w]
<1>1. /\ x.pc = "flushing"
      /\ UNCHANGED <<scenario, store, persisted, saves, flight, drawn, shown, timer, control>>
  BY DEF FlushEnds
<1>2. WaitsShaped /\ OneIsCurrent /\ WaitIsSound(w) /\ IsWait(x) BY DEF WaitsAreSound, WaitsShaped
<1>3. IsWindow(window) /\ IsHead(window.project, window.head)
  BY DEF RestIsSound, Shaped, HeadsAreSound
<1>4. Still BY <1>1, <1>2 DEF WaitIsSound, BarrierIsSound
<1>5. UNCHANGED window => BarrierStep /\ IsHead(window.project, window.head)'
  BY <1>1, <1>3 DEF BarrierStep, IsHead, IsStored
<1>6. CASE Fails(w) BY <1>1, <1>6, FailIsSound DEF FailStep
<1>7. CASE Over(w, "over") /\ window' = [window EXCEPT !.phase = "closed"]
  <2>1. /\ IsWindow(window') /\ window'.project = window.project /\ window'.view = window.view
        /\ window'.head = window.head
    BY <1>3, <1>7 DEF IsWindow
  <2>2. BarrierStep BY <1>1, <2>1 DEF BarrierStep
  <2>3. IsHead(window.project, window.head)' BY <1>1, <1>3, <2>1 DEF IsHead, IsStored
  <2> QED BY <1>7, <2>2, <2>3, EndIsSound
<1>8. CASE Over(w, "over") /\ UNCHANGED window BY <1>5, <1>8, EndIsSound
<1>9. ASSUME NEW y, IsWait(y), TurnsTo(w, y), UNCHANGED window, Kind(w) = "open", MayRelease(w, y)
      PROVE  WorkspaceInvariant'
  <2>0. /\ y.before = x.before /\ y.head = x.head /\ y.target = x.target
        /\ y.current = x.current /\ (y.again => ~y.started)
        /\ y.pc = "loading" => y.fresh = x.fresh /\ x.started
        /\ y.keep /\ y.pc = "loading" => y.before = NoOne
        /\ (y.pc = "asking" /\ y.started) \/ (y.pc = "loading" /\ y.current)
    BY <1>9 DEF MayRelease
  <2>1. /\ waits'[w] = y /\ WaitsShaped'
        /\ \A v \in DOMAIN Waits : v # w => waits'[v] = waits[v]
    BY <1>2, <1>9 DEF WaitsShaped, IsMap, TurnsTo
  <2>2. Still' BY <1>4, <1>5, <1>9, BarrierStepIsSound
  <2>3. Live(w) /\ Live(w)' BY <1>1, <1>9, <2>0, <2>1 DEF Live
  <2>4. SavingIsSound(w)' BY <1>9, <2>0, <2>1 DEF SavingIsSound
  <2>5. BarrierIsSound(w)' BY <1>9, <2>0, <2>1, <2>2 DEF BarrierIsSound
  <2>6. OpeningIsSound(w)'
    BY <1>1, <1>2, <1>9, <2>0, <2>1, <2>3 DEF WaitIsSound, OpeningIsSound, Hydrates
  <2>7. OneIsCurrent' BY <1>2, <1>9, <2>0, <2>1 DEF OneIsCurrent
  <2>8. (waits[w].current /\ Live(w) => IsHead(waits[w].before, waits[w].head))'
    <3>1. x.current => IsHead(x.before, x.head) BY <2>3 DEF HeadsAreSound
    <3>2. x.current => IsHead(x.before, x.head)' BY <1>1, <2>0, <2>1, <3>1 DEF IsHead, IsStored
    <3> QED BY <2>0, <2>1, <3>2
  <2>9. \A v \in DOMAIN Waits : v # w => Same(v) BY <2>1, SameIf
  <2> QED BY <1>5, <1>9, <2>1, <2>4, <2>5, <2>6, <2>7, <2>8, <2>9, BarrierStepOf DEF WaitIsSound
<1>10. CASE /\ Kind(w) = "open" /\ ~x.again /\ ~x.started /\ UNCHANGED window
            /\ waits' = [waits EXCEPT ![w].pc = "asking", ![w].started = TRUE]
  <2> DEFINE y == StartedOf(x)
  <2>1. TurnsTo(w, y) BY <1>2, <1>10 DEF TurnsTo, StartedOf, WaitsShaped, IsMap
  <2>2. /\ IsWait(y) /\ y.pc = "asking" /\ y.started = TRUE /\ y.again = x.again
        /\ y.before = x.before /\ y.head = x.head /\ y.target = x.target /\ y.current = x.current
    <3> HIDE DEF x
    <3> QED BY <1>2, StartedWait
  <2> HIDE DEF y
  <2>3. MayRelease(w, y)
    <3>1. y.again => ~y.started BY <1>10, <2>2
    <3>2. y.keep /\ y.pc = "loading" => y.before = NoOne BY <2>2
    <3>3. y.pc = "asking" /\ y.started BY <2>2
    <3> QED BY <2>2, <3>1, <3>2, <3>3 DEF MayRelease
  <2> QED BY <1>9, <1>10, <2>1, <2>2, <2>3
<1>11. CASE /\ Kind(w) = "open" /\ x.started /\ x.current /\ UNCHANGED window
            /\ waits' = [waits EXCEPT ![w].pc = "loading",
                                      ![w].keep = x.before = NoOne /\ window.unassigned]
  <2> DEFINE keep == x.before = NoOne /\ window.unassigned
             y == LoadingOf(x, keep)
  <2>1. TurnsTo(w, y) BY <1>2, <1>11 DEF TurnsTo, LoadingOf, WaitsShaped, IsMap
  <2>2. keep \in BOOLEAN /\ (keep => x.before = NoOne) OBVIOUS
  <2>3. /\ IsWait(y) /\ y.pc = "loading" /\ y.keep = keep /\ y.again = x.again
        /\ y.started = x.started /\ y.fresh = x.fresh
        /\ y.before = x.before /\ y.head = x.head /\ y.target = x.target /\ y.current = x.current
    <3> HIDE DEF x, keep
    <3> QED BY <1>2, <2>2, LoadingWait
  <2>4. y.again => ~y.started BY <1>2, <2>3 DEF WaitIsSound, BarrierIsSound
  <2> HIDE DEF y
  <2>5. MayRelease(w, y) BY <1>11, <2>2, <2>3, <2>4 DEF MayRelease
  <2> QED BY <1>9, <1>11, <2>1, <2>3, <2>5
<1>12. Fails(w) \/ Release(w) BY DEF FlushEnds
<1> QED BY <1>6, <1>7, <1>8, <1>10, <1>11, <1>12 DEF Release

----------------------------------------------------------------------------
(* Drafts.                                                                 *)

LEMMA TimerFiresIsSound ==
  ASSUME WorkspaceInvariant, TimerFires
  PROVE  WorkspaceInvariant'
<1> USE DEF WorkspaceInvariant
<1>1. /\ timer = <<DrawnDraft>> /\ timer' = <<>>
      /\ UNCHANGED <<scenario, store, persisted, flight, window, drawn, shown, control, waits>>
  BY DEF TimerFires, RestIsSound, Shaped
<1>2. saves' = Append(saves, DrawnDraft)
  <2> DEFINE d == DrawnDraft
  <2> HIDE DEF d
  <2>1. timer = <<d>> /\ saves' = Append(saves, timer[1]) BY <1>1 DEF TimerFires, d
  <2>2. saves' = Append(saves, d) BY <2>1
  <2> QED BY <2>2 DEF d
<1>3. drawn.project # NoOne BY <1>1 DEF RestIsSound, DraftsAreSafe
<1>4. BarrierStep
  BY <1>1, <1>2, <1>3 DEF BarrierStep, QueuesDrawn, RestIsSound, Shaped
<1>5. RestIsSound' BY <1>4, BarrierStepIsSound
<1>6. ASSUME NEW v \in DOMAIN Waits PROVE WaitIsSound(v)'
  <2>1. Same(v) BY <1>1, SameIf
  <2> QED BY <1>4, <2>1, OthersStay DEF WaitsAreSound, WaitsShaped
<1>7. WaitsAreSound' BY <1>1, <1>6 DEF WaitsAreSound, WaitsShaped, OneIsCurrent
<1>8. HeadsAreSound' BY <1>1 DEF HeadsAreSound, IsHead, IsStored, Live
<1> QED BY <1>5, <1>7, <1>8

LEMMA NothingChanges ==
  ASSUME WorkspaceInvariant, UNCHANGED workspaceVars
  PROVE  WorkspaceInvariant'
<1> USE DEF WorkspaceInvariant
<1>1. UNCHANGED <<scenario, store, persisted, saves, flight, window, drawn, shown, timer, control,
                  waits>>
  BY DEF workspaceVars, windowVars
<1>2. BarrierStep BY <1>1 DEF BarrierStep, RestIsSound, Shaped
<1>3. RestIsSound' BY <1>2, BarrierStepIsSound
<1>4. ASSUME NEW v \in DOMAIN Waits PROVE WaitIsSound(v)'
  <2>1. Same(v) BY <1>1, SameIf
  <2> QED BY <1>2, <2>1, OthersStay DEF WaitsAreSound, WaitsShaped
<1>5. WaitsAreSound' BY <1>1, <1>4 DEF WaitsAreSound, WaitsShaped, OneIsCurrent
<1>6. HeadsAreSound' BY <1>1 DEF HeadsAreSound, IsHead, IsStored, Live
<1> QED BY <1>3, <1>5, <1>6

\* The drafts that are shown are added to.
LEMMA ShownGrows ==
  ASSUME NEW h, IsList(h), NEW view, NEW g,
         g = IF h # <<>> /\ Last(h) = view THEN h ELSE Append(h, view)
  PROVE  IsList(g) /\ g # <<>> /\ Last(g) = view /\ ToSet(h) \subseteq ToSet(g)
<1>1. CASE h # <<>> /\ Last(h) = view BY <1>1
<1>2. CASE ~(h # <<>> /\ Last(h) = view)
  <2>1. g = Append(h, view) BY <1>2
  <2> QED BY <2>1, AppendIs
<1> QED BY <1>1, <1>2

LEMMA LateFlight ==
  ASSUME NEW f, IsFlight(f), NEW late \in BOOLEAN, NEW g, g = [f EXCEPT !.latest = @ /\ late]
  PROVE  /\ IsFlight(g) /\ g.project = f.project /\ g.base = f.base /\ g.actions = f.actions
         /\ g.draft = f.draft /\ g.current = f.current /\ g.reply = f.reply
         /\ g.document = f.document
BY DEF IsFlight

LEMMA LeftFlight ==
  ASSUME NEW f, IsFlight(f), NEW g, g = [f EXCEPT !.latest = FALSE, !.current = FALSE]
  PROVE  /\ IsFlight(g) /\ g.project = f.project /\ g.base = f.base /\ g.actions = f.actions
         /\ g.draft = f.draft /\ g.current = FALSE /\ g.reply = f.reply
         /\ g.document = f.document
BY DEF IsFlight

MovedOf(x) == [x EXCEPT !.moved = TRUE]

LEMMA MovedWait ==
  ASSUME NEW x, IsWait(x), NEW y, y = MovedOf(x)
  PROVE  /\ IsWait(y) /\ y.moved = TRUE /\ y.pc = x.pc
         /\ y.left = x.left /\ y.ok = x.ok /\ y.since = x.since /\ y.again = x.again
         /\ y.before = x.before /\ y.head = x.head /\ y.target = x.target
         /\ y.started = x.started /\ y.current = x.current /\ y.keep = x.keep
         /\ y.fresh = x.fresh /\ y.document = x.document
<1>1. y = [pc |-> y.pc, left |-> y.left, ok |-> y.ok, moved |-> y.moved, since |-> y.since,
           of |-> y.of, target |-> y.target, again |-> y.again, before |-> y.before,
           head |-> y.head, started |-> y.started, current |-> y.current, keep |-> y.keep,
           fresh |-> y.fresh, document |-> y.document]
  BY DEF IsWait, MovedOf
<1>2. y.moved = TRUE /\ y.pc = x.pc /\ x.pc \in Pcs
  BY DEF IsWait, MovedOf
<1>3. /\ y.left = x.left /\ y.ok = x.ok /\ y.since = x.since /\ y.again = x.again
      /\ y.before = x.before /\ y.head = x.head /\ y.target = x.target
      /\ y.started = x.started /\ y.current = x.current /\ y.keep = x.keep
      /\ y.fresh = x.fresh /\ y.document = x.document
  BY DEF IsWait, MovedOf
<1>4. /\ x.left \in Nat
      /\ {x.ok, x.moved, x.again, x.started, x.current, x.keep, x.fresh} \subseteq BOOLEAN
  BY DEF IsWait
<1>5. {y.ok, y.moved, y.again, y.started, y.current, y.keep, y.fresh} \subseteq BOOLEAN
  BY <1>2, <1>3, <1>4
<1> QED BY <1>1, <1>2, <1>3, <1>4, <1>5 DEF IsWait, Pcs

\* Where no Project is open there is no draft.
NothingIsDrawn ==
  /\ window.project = NoOne => drawn.project = NoOne
  /\ drawn.project = NoOne => timer = <<>>
RendersAs(w) ==
  /\ Redraw(w) /\ IsWindow(w) /\ w.project = window.project
  /\ UNCHANGED <<scenario, store, persisted, saves>>
RedrawStep(w) ==
  /\ Settled /\ RendersAs(w) /\ w.head = window.head
  /\ (\E v \in DOMAIN Waits : Hydrates(v)) => w.view = window.view

\* A rendering where no Project is open yet.
LEMMA RedrawOfNone ==
  ASSUME NothingIsDrawn, NEW w, RendersAs(w), w.project = NoOne
  PROVE  /\ window' = w /\ drawn' = Draw(w) /\ timer = <<>>
         /\ UNCHANGED <<scenario, store, persisted, saves, shown, timer, flight, control, waits>>
BY DEF NothingIsDrawn, RendersAs, Redraw

LEMMA RedrawOfOne ==
  ASSUME Shaped, NEW w, RendersAs(w), w.project # NoOne
  PROVE  /\ window' = w /\ drawn' = Draw(w) /\ timer' = <<Draft(w.project, w.view)>>
         /\ UNCHANGED <<scenario, store, persisted, saves>>
         /\ IsControl(control)' /\ control'.project = control.project
         /\ control'.accepted = control.accepted
         /\ flight = <<>> <=> flight' = <<>>
         /\ FlightShaped'
         /\ flight # <<>> =>
              /\ flight'[1].project = flight[1].project /\ flight'[1].base = flight[1].base
              /\ flight'[1].actions = flight[1].actions /\ flight'[1].draft = flight[1].draft
              /\ flight'[1].current = flight[1].current /\ flight'[1].reply = flight[1].reply
              /\ flight'[1].document = flight[1].document
         /\ ShownShaped' /\ shown'[w.project] # <<>> /\ Last(shown'[w.project]) = w.view
         /\ \A p \in ProjectIds : ToSet(shown[p]) \subseteq ToSet(shown'[p])
         /\ IsMap(waits') /\ DOMAIN waits' = DOMAIN Waits
         /\ \A v \in DOMAIN Waits : waits'[v] = MovedOf(waits[v])
<1> DEFINE draft == Draft(w.project, w.view)
<1>1. /\ window' = w /\ drawn' = Draw(w) /\ timer' = <<draft>> /\ Note(draft, flight, control)
      /\ shown' = [shown EXCEPT ![w.project] =
                     IF @ # <<>> /\ Last(@) = w.view THEN @ ELSE Append(@, w.view)]
      /\ waits' = [v \in DOMAIN Waits |-> MovedOf(waits[v])]
      /\ UNCHANGED <<scenario, store, persisted, saves>>
  BY DEF RendersAs, Redraw, MovedOf
<1> HIDE DEF draft
<1>2. /\ control' = [control EXCEPT !.noted = <<draft>>]
      /\ flight' = IF flight = <<>> THEN <<>>
                   ELSE <<[flight[1] EXCEPT !.latest = @ /\ control.noted = <<draft>>]>>
  BY <1>1 DEF Note
<1>3. /\ IsControl(control)' /\ control'.project = control.project
      /\ control'.accepted = control.accepted
  BY <1>2 DEF Shaped, IsControl
<1>4. /\ flight = <<>> <=> flight' = <<>>
      /\ FlightShaped'
      /\ flight # <<>> =>
           /\ flight'[1].project = flight[1].project /\ flight'[1].base = flight[1].base
           /\ flight'[1].actions = flight[1].actions /\ flight'[1].draft = flight[1].draft
           /\ flight'[1].current = flight[1].current /\ flight'[1].reply = flight[1].reply
           /\ flight'[1].document = flight[1].document
  <2>1. CASE flight = <<>> BY <1>2, <2>1 DEF FlightShaped
  <2>2. CASE flight # <<>>
    <3> DEFINE late == control.noted = <<draft>>
               g == [flight[1] EXCEPT !.latest = @ /\ late]
    <3>1. IsFlight(flight[1]) BY <2>2 DEF Shaped, FlightShaped
    <3>2. late \in BOOLEAN OBVIOUS
    <3>3. flight' = <<g>> BY <1>2, <2>2
    <3> HIDE DEF late
    <3>4. /\ IsFlight(g) /\ g.project = flight[1].project /\ g.base = flight[1].base
          /\ g.actions = flight[1].actions /\ g.draft = flight[1].draft
          /\ g.current = flight[1].current /\ g.reply = flight[1].reply
          /\ g.document = flight[1].document
      BY <3>1, <3>2, LateFlight
    <3> HIDE DEF g
    <3>5. flight' # <<>> /\ flight'[1] = g BY <3>3
    <3> QED BY <2>2, <3>3, <3>4, <3>5 DEF FlightShaped
  <2> QED BY <2>1, <2>2
<1>5. /\ ShownShaped' /\ shown'[w.project] # <<>> /\ Last(shown'[w.project]) = w.view
      /\ \A p \in ProjectIds : ToSet(shown[p]) \subseteq ToSet(shown'[p])
  <2>1. w.project \in ProjectIds BY DEF RendersAs, IsWindow
  <2> DEFINE h == shown[w.project]
             g == shown'[w.project]
  <2>2. IsList(h) BY <2>1 DEF Shaped, ShownShaped
  <2>3. g = IF h # <<>> /\ Last(h) = w.view THEN h ELSE Append(h, w.view)
    BY <1>1, <2>1 DEF Shaped, ShownShaped
  <2>4. /\ IsMap(shown') /\ DOMAIN shown' = ProjectIds
        /\ \A p \in ProjectIds : p # w.project => shown'[p] = shown[p]
    BY <1>1, <2>1 DEF Shaped, ShownShaped, IsMap
  <2> HIDE DEF h, g
  <2>5. IsList(g) /\ g # <<>> /\ Last(g) = w.view /\ ToSet(h) \subseteq ToSet(g)
    BY <2>2, <2>3, ShownGrows
  <2>6. \A p \in ProjectIds : IsList(shown'[p]) BY <2>4, <2>5 DEF Shaped, ShownShaped, g
  <2>7. \A p \in ProjectIds : ToSet(shown[p]) \subseteq ToSet(shown'[p])
    BY <2>4, <2>5 DEF h, g
  <2> QED BY <2>4, <2>5, <2>6, <2>7 DEF ShownShaped, g
<1>6. /\ IsMap(waits') /\ DOMAIN waits' = DOMAIN Waits
      /\ \A v \in DOMAIN Waits : waits'[v] = MovedOf(waits[v])
  BY <1>1 DEF IsMap
<1> QED BY <1>1, <1>3, <1>4, <1>5, <1>6 DEF draft

\* What both have in common.
RedrawnWait(v) ==
  /\ IsWait(waits[v])'
  /\ \A k \in {"pc", "left", "target", "again", "before", "head", "started", "current", "keep",
               "fresh", "document"} : waits'[v][k] = waits[v][k]
  /\ waits'[v].moved \/ window.project = NoOne
Redrawn(w) ==
  /\ window' = w /\ drawn' = Draw(w) /\ UNCHANGED <<scenario, store, persisted, saves>>
  /\ IsControl(control)' /\ control'.project = control.project
  /\ control'.accepted = control.accepted
  /\ flight = <<>> <=> flight' = <<>>
  /\ FlightShaped'
  /\ flight # <<>> =>
       /\ flight'[1].project = flight[1].project /\ flight'[1].base = flight[1].base
       /\ flight'[1].actions = flight[1].actions /\ flight'[1].draft = flight[1].draft
       /\ flight'[1].current = flight[1].current /\ flight'[1].reply = flight[1].reply
       /\ flight'[1].document = flight[1].document
  /\ ShownShaped' /\ \A p \in ProjectIds : ToSet(shown[p]) \subseteq ToSet(shown'[p])
  /\ w.project # NoOne => shown'[w.project] # <<>> /\ Last(shown'[w.project]) = w.view
  /\ timer' = <<>> \/ timer' = <<Draft(w.project, w.view)>>
  /\ w.project = NoOne => timer' = <<>>
  /\ IsMap(waits') /\ DOMAIN waits' = DOMAIN Waits /\ \A v \in DOMAIN Waits : RedrawnWait(v)

LEMMA RedrawDoes ==
  ASSUME Shaped, WaitsShaped, NothingIsDrawn, NEW w, RendersAs(w)
  PROVE  Redrawn(w)
<1>1. ASSUME NEW v \in DOMAIN Waits PROVE IsWait(waits[v])
  BY DEF WaitsShaped
<1>2. CASE w.project = NoOne
  <2>1. /\ window' = w /\ drawn' = Draw(w) /\ timer = <<>>
        /\ UNCHANGED <<scenario, store, persisted, saves, shown, timer, flight, control, waits>>
    BY <1>2, RedrawOfNone
  <2>2. \A v \in DOMAIN Waits : RedrawnWait(v) BY <1>1, <1>2, <2>1 DEF RedrawnWait, RendersAs
  <2>3. IsMap(waits') /\ DOMAIN waits' = DOMAIN Waits
    BY <2>1 DEF WaitsShaped
  <2>4. IsControl(control)' /\ FlightShaped' /\ ShownShaped'
    BY <2>1 DEF Shaped, ShownShaped, FlightShaped
  <2> QED BY <1>2, <2>1, <2>2, <2>3, <2>4 DEF Redrawn
<1>3. CASE w.project # NoOne
  <2>1. \A v \in DOMAIN Waits : waits'[v] = MovedOf(waits[v]) BY <1>3, RedrawOfOne
  <2>2. ASSUME NEW v \in DOMAIN Waits PROVE RedrawnWait(v)
    <3> DEFINE x == waits[v]
               y == waits'[v]
    <3>1. IsWait(x) /\ y = MovedOf(x) BY <1>1, <2>1
    <3> HIDE DEF x, y
    <3>2. /\ IsWait(y) /\ y.moved = TRUE /\ y.pc = x.pc /\ y.left = x.left /\ y.target = x.target
          /\ y.again = x.again /\ y.before = x.before /\ y.head = x.head
          /\ y.started = x.started /\ y.current = x.current /\ y.keep = x.keep
          /\ y.fresh = x.fresh /\ y.document = x.document
      BY <3>1, MovedWait
    <3> QED BY <3>2 DEF RedrawnWait, x, y
  <2>3. /\ window' = w /\ drawn' = Draw(w) /\ timer' = <<Draft(w.project, w.view)>>
        /\ UNCHANGED <<scenario, store, persisted, saves>>
        /\ IsControl(control)' /\ control'.project = control.project
        /\ control'.accepted = control.accepted
        /\ flight = <<>> <=> flight' = <<>>
        /\ FlightShaped'
        /\ flight # <<>> =>
             /\ flight'[1].project = flight[1].project /\ flight'[1].base = flight[1].base
             /\ flight'[1].actions = flight[1].actions /\ flight'[1].draft = flight[1].draft
             /\ flight'[1].current = flight[1].current /\ flight'[1].reply = flight[1].reply
             /\ flight'[1].document = flight[1].document
        /\ ShownShaped' /\ shown'[w.project] # <<>> /\ Last(shown'[w.project]) = w.view
        /\ \A p \in ProjectIds : ToSet(shown[p]) \subseteq ToSet(shown'[p])
        /\ IsMap(waits') /\ DOMAIN waits' = DOMAIN Waits
    BY <1>3, RedrawOfOne
  <2> QED BY <1>3, <2>2, <2>3 DEF Redrawn
<1> QED BY <1>2, <1>3

LEMMA RedrawnFields ==
  ASSUME NEW v, RedrawnWait(v)
  PROVE  /\ IsWait(waits'[v]) /\ waits'[v].pc = waits[v].pc /\ waits'[v].left = waits[v].left
         /\ waits'[v].target = waits[v].target /\ waits'[v].again = waits[v].again
         /\ waits'[v].before = waits[v].before /\ waits'[v].head = waits[v].head
         /\ waits'[v].started = waits[v].started /\ waits'[v].current = waits[v].current
         /\ waits'[v].keep = waits[v].keep /\ waits'[v].document = waits[v].document
         /\ waits'[v].fresh = waits[v].fresh
         /\ waits'[v].moved \/ window.project = NoOne
BY DEF RedrawnWait

LEMMA RedrawIsSound ==
  ASSUME WorkspaceInvariant, NEW w, RedrawStep(w)
  PROVE  WorkspaceInvariant'
<1> USE DEF WorkspaceInvariant, RestIsSound
<1>0. /\ RendersAs(w) /\ WaitsShaped /\ NothingIsDrawn
      /\ window.project = NoOne => saves = <<>> /\ flight = <<>>
  BY DEF RedrawStep, WaitsAreSound, DraftsAreSafe, NothingIsDrawn
<1>1. Redrawn(w) BY <1>0, RedrawDoes
<1>2. /\ window' = w /\ drawn' = Draw(w) /\ UNCHANGED <<scenario, store, persisted, saves>>
      /\ control'.project = control.project /\ control'.accepted = control.accepted
  BY <1>1 DEF Redrawn
<1>3. /\ IsWindow(w) /\ w.project = window.project /\ w.head = window.head /\ Settled
      /\ w.project = control.project
      /\ (\E v \in DOMAIN Waits : Hydrates(v)) => w.view = window.view
  BY DEF RedrawStep, RendersAs, DraftsAreSafe
<1>4. drawn'.project = w.project /\ drawn'.view = w.view /\ DrawnShaped'
  BY <1>2, <1>3 DEF Draw, DrawnShaped, IsWindow
<1>5. DrawnDraft' = Draft(w.project, w.view) BY <1>4 DEF DrawnDraft
<1>6. Shaped'
  BY <1>1, <1>2, <1>3, <1>4, <1>5 DEF Redrawn, Shaped, StoreShaped, SavesShaped
<1>7. HistoriesAreSound' BY <1>2 DEF HistoriesAreSound
<1>8. AcceptedIsSound'
  <2>1. /\ HasCommitted' = HasCommitted
        /\ HasCommitted => flight'[1].document = flight[1].document
    BY <1>1 DEF Redrawn, HasCommitted
  <2> QED BY <1>2, <2>1 DEF AcceptedIsSound, IsStored, IsLatestOf, Saved
<1>9. \A p \in ProjectIds : ToSet(shown[p]) \subseteq ToSet(shown'[p]) BY <1>1 DEF Redrawn
<1>10. StoredAsShown' BY <1>2, <1>9 DEF StoredAsShown
<1>11. ShownIsSound'
  <2>1. \A i \in DOMAIN saves : saves[i].project \in ProjectIds
    BY DEF Shaped, SavesShaped, IsDraft
  <2>2. \A i \in DOMAIN saves : saves[i].view \in ToSet(shown'[saves[i].project])
    BY <1>9, <2>1 DEF ShownIsSound
  <2>3. w.project # NoOne => shown'[w.project] # <<>> /\ Last(shown'[w.project]) = w.view
    BY <1>1 DEF Redrawn
  <2> QED BY <1>2, <1>4, <2>2, <2>3 DEF ShownIsSound
<1>12. DraftsAreSafe'
  <2>1. \A i \in DOMAIN saves : Safe(saves[i])' BY <1>2 DEF DraftsAreSafe, Safe, Saved
  <2>2. Safe(DrawnDraft)' BY <1>2, <1>3, <1>5 DEF Safe, Draft
  <2>3. w.project = NoOne => timer' = <<>> /\ saves = <<>> /\ flight' = <<>>
    BY <1>0, <1>1, <1>3 DEF Redrawn
  <2> QED BY <1>2, <1>3, <1>4, <2>1, <2>2, <2>3 DEF DraftsAreSafe
<1>13. FlightIsSound'
  <2>1. flight' # <<>> =>
          /\ flight # <<>>
          /\ flight'[1].project = flight[1].project /\ flight'[1].base = flight[1].base
          /\ flight'[1].actions = flight[1].actions /\ flight'[1].draft = flight[1].draft
          /\ flight'[1].current = flight[1].current /\ flight'[1].reply = flight[1].reply
          /\ flight'[1].document = flight[1].document
    BY <1>1 DEF Redrawn
  <2>2. window'.view = drawn'.view BY <1>2, <1>4
  <2> QED BY <1>2, <2>1, <2>2 DEF FlightIsSound
<1>14. ASSUME NEW v \in DOMAIN Waits
       PROVE  /\ IsWait(waits'[v]) /\ waits'[v].pc = waits[v].pc /\ waits'[v].left = waits[v].left
              /\ waits'[v].target = waits[v].target /\ waits'[v].again = waits[v].again
              /\ waits'[v].before = waits[v].before /\ waits'[v].head = waits[v].head
              /\ waits'[v].started = waits[v].started /\ waits'[v].current = waits[v].current
              /\ waits'[v].keep = waits[v].keep /\ waits'[v].document = waits[v].document
              /\ waits'[v].fresh = waits[v].fresh
              /\ waits'[v].moved \/ saves = <<>>
  BY <1>0, <1>1, RedrawnFields DEF Redrawn
<1>15. WaitsShaped' BY <1>1, <1>14 DEF Redrawn, WaitsShaped
<1>16. OneIsCurrent' BY <1>14 DEF WaitsAreSound, OneIsCurrent
<1>17. ASSUME NEW v \in DOMAIN Waits, Hydrates(v) PROVE Still'
  <2>1. WaitIsSound(v) BY DEF WaitsAreSound
  <2>2. Still BY <1>17, <2>1 DEF WaitIsSound, BarrierIsSound
  <2>3. drawn.project = window.project
    BY <1>17, <2>1 DEF WaitIsSound, OpeningIsSound, Live, Hydrates
  <2>4. w.view = window.view BY <1>3, <1>17
  <2>5. w.project # NoOne => Saved(Draft(w.project, w.view)) BY <1>3, <2>2, <2>3, <2>4 DEF Still
  <2>6. w.project # NoOne => Saved(Draft(w.project, w.view))' BY <1>2, <2>5 DEF Saved, Draft
  <2>7. flight' = <<>> BY <1>1, <2>2 DEF Redrawn, Still
  <2>8. \A i \in DOMAIN saves : Saved(saves[i])' BY <1>2, <2>2 DEF Still, Saved
  <2> QED BY <1>2, <1>4, <1>5, <2>6, <2>7, <2>8 DEF Still, Saved, Draft
<1>18. ASSUME NEW v \in DOMAIN Waits PROVE WaitIsSound(v)'
  <2>1. WaitIsSound(v) /\ IsWait(waits[v]) BY DEF WaitsAreSound, WaitsShaped
  <2>2. waits[v].pc # "flushing" BY <1>3, <2>1 DEF Settled, WaitIsSound, BarrierIsSound
  <2>3. waits[v].pc = "saving" => saves # <<>>
    <3>1. ASSUME waits[v].pc = "saving", saves = <<>> PROVE FALSE
      <4>1. waits[v].left <= 0 BY <2>1, <3>1, EmptyList DEF WaitIsSound, SavingIsSound
      <4>2. waits[v].left = 0 BY <2>1, <4>1 DEF IsWait
      <4> QED BY <1>3, <3>1, <4>2 DEF Settled
    <3> QED BY <3>1
  <2>4. SavingIsSound(v)' BY <1>2, <1>14, <2>1, <2>3 DEF WaitIsSound, SavingIsSound
  <2>5. BarrierIsSound(v)'
    BY <1>2, <1>4, <1>14, <1>17, <2>1, <2>2 DEF WaitIsSound, BarrierIsSound, Hydrates
  <2>6. OpeningIsSound(v)'
    <3>1. waits[v].current /\ Live(v) => waits[v].before = window.project
      BY <2>1 DEF WaitIsSound, OpeningIsSound
    <3> QED BY <1>2, <1>3, <1>4, <1>14, <2>1, <3>1
            DEF WaitIsSound, OpeningIsSound, Hydrates, Live, IsLatestOf
  <2> QED BY <2>4, <2>5, <2>6 DEF WaitIsSound
<1>19. HeadsAreSound'
  <2>1. \A p, head : IsHead(p, head) => IsHead(p, head)' BY <1>2 DEF IsHead, IsStored
  <2>2. drawn'.head = w.head \/ drawn'.head = <<>> BY <1>2 DEF Draw
  <2>3. IsHead(window.project, window.head)' BY <1>2, <1>3, <2>1 DEF HeadsAreSound
  <2>4. IsHead(drawn.project, drawn.head)'
    BY <1>2, <1>4, <2>2, <2>3 DEF IsHead, IsStored
  <2>5. ASSUME NEW v \in DOMAIN Waits, (waits[v].current /\ Live(v))'
        PROVE  IsHead(waits[v].before, waits[v].head)'
    <3>1. waits[v].current /\ Live(v) BY <1>14, <2>5 DEF Live
    <3>2. IsHead(waits[v].before, waits[v].head) BY <3>1 DEF HeadsAreSound
    <3> QED BY <1>2, <1>14, <3>2 DEF IsHead, IsStored
  <2> QED BY <2>3, <2>4, <2>5 DEF HeadsAreSound
<1> QED BY <1>6, <1>7, <1>8, <1>10, <1>11, <1>12, <1>13, <1>15, <1>16, <1>18, <1>19
        DEF WaitsAreSound

LEMMA RenderIsSound ==
  ASSUME WorkspaceInvariant, Render
  PROVE  WorkspaceInvariant'
<1>1. IsWindow(window) BY DEF WorkspaceInvariant, RestIsSound, Shaped
<1>2. RedrawStep(window) BY <1>1 DEF Render, RedrawStep, RendersAs
<1> QED BY <1>2, RedrawIsSound

EditedWindow(e) ==
  [window EXCEPT !.view = Edited(@, e), !.unassigned = @ \/ window.project = NoOne]

LEMMA EditRenders ==
  ASSUME IsWindow(window), scenario \in Scenarios, NEW e \in scenario.edits, Edit(e)
  PROVE  RendersAs(EditedWindow(e)) /\ EditedWindow(e).head = window.head
<1> DEFINE v == window.view
           new == Edited(v, e)
           un == window.unassigned \/ window.project = NoOne
           w == EditedWindow(e)
<1>1. w = [window EXCEPT !.view = new, !.unassigned = un] BY DEF EditedWindow
<1>2. /\ Applicable(v, e) /\ Redraw(w) /\ UNCHANGED <<scenario, store, persisted, saves>>
  BY DEF Edit, EditedWindow
<1>3. IsEdit(e) BY WorkspaceAssumption
<1>4. WellFormed(v) BY DEF IsWindow
<1> HIDE DEF v
<1>5. WellFormed(new) BY <1>2, <1>3, <1>4, EditedIsWellFormed
<1> HIDE DEF new, un, w
<1>6. IsWindow(w) /\ w.project = window.project /\ w.head = window.head
  <2>1. w = [phase |-> w.phase, of |-> w.of, head |-> w.head, project |-> w.project,
             view |-> w.view, unassigned |-> w.unassigned]
    BY <1>1 DEF IsWindow
  <2>2. w.project = window.project /\ w.head = window.head /\ w.view = new
    BY <1>1 DEF IsWindow
  <2> QED BY <1>5, <2>1, <2>2 DEF IsWindow
<1> QED BY <1>2, <1>6 DEF RendersAs, w

LEMMA EditIsSound ==
  ASSUME WorkspaceInvariant, scenario.patient, NEW e \in scenario.edits, Edit(e)
  PROVE  WorkspaceInvariant'
<1> DEFINE w == EditedWindow(e)
<1>1. IsWindow(window) /\ scenario \in Scenarios BY DEF WorkspaceInvariant, RestIsSound, Shaped
<1>2. Settled /\ ~Hydrating BY DEF Edit, CanEdit
<1>3. RendersAs(w) /\ w.head = window.head BY <1>1, EditRenders
<1>4. ASSUME NEW x \in DOMAIN Waits, Hydrates(x) PROVE FALSE
  BY <1>2, <1>4 DEF Hydrating, Hydrates
<1> HIDE DEF w
<1>5. RedrawStep(w) BY <1>2, <1>3, <1>4 DEF RedrawStep
<1> QED BY <1>5, RedrawIsSound

----------------------------------------------------------------------------
(* The backend.                                                            *)

Row(d, by) == [document |-> d, by |-> by]
Appends(p, d, by) == store' = [store EXCEPT ![p] = Append(@, Row(d, by))]
\* d comes after what is stored.
IsNext(p, d) == Showable(d) /\ (store[p] # <<>> => d.revision > Newest(p).revision)
Holds(p, h, d, by) ==
  /\ IsList(h) /\ Len(h) = Len(store[p]) + 1 /\ DOMAIN h = 1 .. Len(h)
  /\ DOMAIN store[p] = 1 .. Len(store[p]) /\ Len(store[p]) \in Nat
  /\ \A i \in DOMAIN store[p] : h[i] = store[p][i]
  /\ h[Len(h)].document = d /\ h[Len(h)].by = by

LEMMA AppendsIs ==
  ASSUME StoreShaped, NEW p \in ProjectIds, NEW d, NEW by, Appends(p, d, by)
  PROVE  /\ StoreShaped' /\ \A q \in ProjectIds : q # p => store'[q] = store[q]
         /\ Holds(p, store'[p], d, by)
<1> DEFINE h == store[p]
           g == store'[p]
           row == Row(d, by)
<1>1. IsList(h) BY DEF StoreShaped
<1>2. /\ IsMap(store') /\ DOMAIN store' = ProjectIds
      /\ \A q \in ProjectIds : q # p => store'[q] = store[q]
      /\ g = Append(h, row)
  BY DEF StoreShaped, Appends, IsMap
<1>3. row.document = d /\ row.by = by BY DEF Row
<1> HIDE DEF h, g, row
<1>4. /\ IsList(g) /\ Len(g) = Len(h) + 1 /\ DOMAIN g = 1 .. Len(h) + 1
      /\ \A i \in 1 .. Len(h) : g[i] = h[i]
      /\ g[Len(h) + 1] = row
  BY <1>1, <1>2, AppendIs
<1>5. Len(h) \in Nat /\ DOMAIN h = 1 .. Len(h) BY <1>1, ListIs
<1>6. StoreShaped' BY <1>2, <1>4 DEF StoreShaped, g
<1>7. Holds(p, g, d, by) BY <1>3, <1>4, <1>5 DEF Holds, h
<1> QED BY <1>2, <1>6, <1>7 DEF g

LEMMA HistoriesGrow ==
  ASSUME StoreShaped, HistoriesAreSound, NEW p \in ProjectIds, NEW d, NEW by,
         Appends(p, d, by), IsNext(p, d)
  PROVE  HistoriesAreSound'
<1> DEFINE h == store[p]
           g == store'[p]
<1>1. /\ \A q \in ProjectIds : q # p => store'[q] = store[q]
      /\ Len(g) = Len(h) + 1 /\ DOMAIN g = 1 .. Len(g) /\ DOMAIN h = 1 .. Len(h)
      /\ Len(h) \in Nat
      /\ \A i \in DOMAIN h : g[i] = h[i]
      /\ g[Len(g)].document = d
  BY AppendsIs DEF Holds
<1>2. Revisions(h) BY DEF HistoriesAreSound
<1>3. Showable(d) BY DEF IsNext
<1>4. h # <<>> => Last(h) = h[Len(h)] /\ Len(h) # 0
  <2>1. IsList(h) BY DEF StoreShaped
  <2> QED BY <2>1, ListIs
<1>5. ASSUME NEW i \in DOMAIN h PROVE h[i].document.revision < d.revision
  <2>1. Len(h) # 0 /\ Len(h) \in DOMAIN h BY <1>1
  <2>2. h # <<>> BY <2>1, EmptyList
  <2>3. d.revision > h[Len(h)].document.revision BY <1>4, <2>2 DEF IsNext, Newest
  <2>4. i = Len(h) \/ h[i].document.revision < h[Len(h)].document.revision
    BY <1>1, <1>2, <2>1 DEF Revisions
  <2>5. h[i].document.revision \in Nat /\ h[Len(h)].document.revision \in Nat /\ d.revision \in Nat
    BY <1>2, <1>3, <2>1 DEF Revisions, Showable
  <2> QED BY <2>3, <2>4, <2>5
<1> HIDE DEF h, g
<1>6. \A i \in DOMAIN g : i \in DOMAIN h \/ i = Len(g) BY <1>1
<1>7. Revisions(g)
  <2>1. ASSUME NEW i \in DOMAIN g PROVE Showable(g[i].document)
    BY <1>1, <1>2, <1>3, <1>6 DEF Revisions
  <2>2. ASSUME NEW i \in DOMAIN g, NEW j \in DOMAIN g, i < j
        PROVE  g[i].document.revision < g[j].document.revision
    <3>1. i \in DOMAIN h BY <1>1, <1>6, <2>2
    <3>2. CASE j \in DOMAIN h BY <1>1, <1>2, <2>2, <3>1, <3>2 DEF Revisions
    <3>3. CASE j = Len(g) BY <1>1, <1>5, <3>1, <3>3
    <3> QED BY <1>6, <3>2, <3>3
  <2> QED BY <2>1, <2>2 DEF Revisions
<1> QED BY <1>1, <1>7 DEF HistoriesAreSound, g

LEMMA StaysStored ==
  ASSUME StoreShaped, NEW p \in ProjectIds, NEW d, NEW by, Appends(p, d, by), NEW q, NEW x
  PROVE  /\ IsStored(q, x) => (q \in ProjectIds /\ \E i \in DOMAIN store'[q] : store'[q][i].document = x)
         /\ IsLatestOf(q, x) /\ (by = "assistant" \/ q # p) =>
              /\ q \in ProjectIds
              /\ \E i \in DOMAIN store'[q] :
                   /\ store'[q][i].document = x
                   /\ \A j \in DOMAIN store'[q] : j > i => store'[q][j].by = "assistant"
<1> DEFINE h == store[p]
           g == store'[p]
<1>1. /\ \A r \in ProjectIds : r # p => store'[r] = store[r]
      /\ Len(g) = Len(h) + 1 /\ DOMAIN g = 1 .. Len(g) /\ DOMAIN h = 1 .. Len(h)
      /\ Len(h) \in Nat
      /\ \A i \in DOMAIN h : g[i] = h[i]
      /\ g[Len(g)].by = by
  BY AppendsIs DEF Holds
<1> HIDE DEF h, g
<1>2. \A i \in DOMAIN g : i \in DOMAIN h \/ i = Len(g) BY <1>1
<1>3. DOMAIN h \subseteq DOMAIN g BY <1>1
<1>4. CASE q # p BY <1>1, <1>4 DEF IsStored, IsLatestOf
<1>5. CASE q = p
  <2>1. IsStored(p, x) => \E i \in DOMAIN g : g[i].document = x
    BY <1>1, <1>3 DEF IsStored, h
  <2>2. IsLatestOf(p, x) /\ by = "assistant" =>
          \E i \in DOMAIN g :
            g[i].document = x /\ \A j \in DOMAIN g : j > i => g[j].by = "assistant"
    <3>1. SUFFICES ASSUME IsLatestOf(p, x), by = "assistant"
                   PROVE  \E i \in DOMAIN g : /\ g[i].document = x
                                              /\ \A j \in DOMAIN g : j > i => g[j].by = "assistant"
      OBVIOUS
    <3>2. PICK i \in DOMAIN h : h[i].document = x /\ \A j \in DOMAIN h : j > i => h[j].by = "assistant"
      BY <3>1 DEF IsLatestOf, h
    <3>3. \A j \in DOMAIN g : j > i => g[j].by = "assistant" BY <1>1, <1>2, <3>1, <3>2
    <3> QED BY <1>1, <1>3, <3>2, <3>3
  <2> QED BY <1>5, <2>1, <2>2 DEF g
<1> QED BY <1>4, <1>5

LEMMA IsNowLatest ==
  ASSUME StoreShaped, NEW p \in ProjectIds, NEW d, NEW by, Appends(p, d, by)
  PROVE  IsLatestOf(p, d)' /\ IsStored(p, d)'
<1> DEFINE g == store'[p]
<1>1. Len(g) \in Nat /\ Len(g) # 0 /\ DOMAIN g = 1 .. Len(g) /\ g[Len(g)].document = d
  BY AppendsIs DEF Holds
<1> HIDE DEF g
<1>2. Len(g) \in DOMAIN g /\ \A j \in DOMAIN g : ~(j > Len(g)) BY <1>1
<1>3. \E i \in DOMAIN g : g[i].document = d /\ \A j \in DOMAIN g : j > i => g[j].by = "assistant"
  BY <1>1, <1>2
<1> QED BY <1>3 DEF IsLatestOf, IsStored, g

LEMMA RowsAre ==
  ASSUME StoreShaped, NEW p \in ProjectIds, NEW d, NEW by, Appends(p, d, by),
         NEW r \in ProjectIds, NEW i \in DOMAIN store'[r]
  PROVE  \/ i \in DOMAIN store[r] /\ store'[r][i] = store[r][i]
         \/ r = p /\ store'[r][i].document = d /\ store'[r][i].by = by
<1> DEFINE h == store[p]
           g == store'[p]
<1>1. /\ \A q \in ProjectIds : q # p => store'[q] = store[q]
      /\ Len(g) = Len(h) + 1 /\ DOMAIN g = 1 .. Len(g) /\ DOMAIN h = 1 .. Len(h)
      /\ Len(h) \in Nat
      /\ \A j \in DOMAIN h : g[j] = h[j]
      /\ g[Len(g)].by = by /\ g[Len(g)].document = d
  BY AppendsIs DEF Holds
<1> HIDE DEF h, g
<1>2. \A j \in DOMAIN g : j \in DOMAIN h \/ j = Len(g) BY <1>1
<1>3. CASE r = p BY <1>1, <1>2, <1>3 DEF h, g
<1>4. CASE r # p BY <1>1, <1>4
<1> QED BY <1>3, <1>4

LEMMA StaysShown ==
  ASSUME StoreShaped, UNCHANGED shown,
         NEW p \in ProjectIds, NEW d, NEW by, Appends(p, d, by)
  PROVE  /\ StoredAsShown
           /\ (by = "assistant" \/ ~(d.revision > 1) \/ View(d) \in ToSet(shown[p]))
           => StoredAsShown'
         /\ StoredWasShown
           /\ (\/ by = "assistant" \/ ~(d.revision > 1)
               \/ \E q \in ProjectIds : View(d) \in ToSet(shown[q]))
           => StoredWasShown'
<1>1. \A r \in ProjectIds : \A i \in DOMAIN store'[r] :
        \/ i \in DOMAIN store[r] /\ store'[r][i] = store[r][i]
        \/ r = p /\ store'[r][i].document = d /\ store'[r][i].by = by
  BY RowsAre
<1>2. ASSUME StoredAsShown,
             by = "assistant" \/ ~(d.revision > 1) \/ View(d) \in ToSet(shown[p])
      PROVE  StoredAsShown'
  BY <1>1, <1>2 DEF StoredAsShown
<1>3. ASSUME StoredWasShown,
             \/ by = "assistant" \/ ~(d.revision > 1)
             \/ \E q \in ProjectIds : View(d) \in ToSet(shown[q])
      PROVE  StoredWasShown'
  BY <1>1, <1>3 DEF StoredWasShown
<1> QED BY <1>2, <1>3

\* A revision comes to the store; the window's part of the state is as it was.
StoreStep(p, d, by) ==
  /\ Appends(p, d, by) /\ IsNext(p, d)
  /\ by = "assistant" \/ (store[p] = <<>> /\ ~(d.revision > 1))
  /\ UNCHANGED <<scenario, persisted, saves, flight, window, drawn, shown, timer, control>>

LEMMA StoreStepIsSound ==
  ASSUME RestIsSound, NEW p \in ProjectIds, NEW d, NEW by, StoreStep(p, d, by)
  PROVE  /\ RestIsSound' /\ (Still => Still')
         /\ \A q \in ProjectIds : store[q] # <<>> => store'[q] # <<>>
<1> USE DEF RestIsSound
<1>1. /\ Appends(p, d, by) /\ IsNext(p, d)
      /\ by = "assistant" \/ (store[p] = <<>> /\ ~(d.revision > 1))
      /\ UNCHANGED <<scenario, persisted, saves, flight, window, drawn, shown, timer, control>>
  BY DEF StoreStep
<1>2. StoreShaped BY DEF Shaped
<1>3. DrawnDraft' = DrawnDraft BY <1>1 DEF DrawnDraft, Draft
<1>4. StoreShaped' BY <1>1, <1>2, AppendsIs
<1>5. Shaped'
  BY <1>1, <1>3, <1>4 DEF Shaped, ShownShaped, DrawnShaped, SavesShaped, FlightShaped, IsWindow
<1>6. HistoriesAreSound' BY <1>1, <1>2, HistoriesGrow
<1>7. StoredAsShown' BY <1>1, <1>2, StaysShown
<1>8. AcceptedIsSound'
  <2> SUFFICES ASSUME control.project # NoOne
               PROVE  /\ IsStored(control.project, control.accepted)'
                      /\ IsLatestOf(control.project, IF HasCommitted THEN flight[1].document
                                                     ELSE control.accepted)'
                      /\ Saved(Draft(control.project, View(control.accepted)))'
    BY <1>1 DEF AcceptedIsSound
  <2> DEFINE q == control.project
             a == control.accepted
             x == IF HasCommitted THEN flight[1].document ELSE control.accepted
  <2>1. IsStored(q, a) /\ IsLatestOf(q, x) /\ Saved(Draft(q, View(a))) BY DEF AcceptedIsSound
  <2>2. by = "assistant" \/ q # p
    <3>1. ASSUME q = p, store[p] = <<>> PROVE FALSE BY <2>1, <3>1, EmptyList DEF IsStored
    <3> QED BY <1>1, <3>1
  <2>3. x' = x /\ q' = q /\ a' = a BY <1>1 DEF HasCommitted
  <2> HIDE DEF q, a, x
  <2>4. IsStored(q, a)' /\ IsLatestOf(q, x)'
    <3>1. q \in ProjectIds /\ \E i \in DOMAIN store'[q] : store'[q][i].document = a
      BY <1>1, <1>2, <2>1, StaysStored
    <3>2. \E i \in DOMAIN store'[q] :
            /\ store'[q][i].document = x
            /\ \A j \in DOMAIN store'[q] : j > i => store'[q][j].by = "assistant"
      BY <1>1, <1>2, <2>1, <2>2, StaysStored
    <3> QED BY <2>3, <3>1, <3>2 DEF IsStored, IsLatestOf
  <2>5. Saved(Draft(q, View(a)))' BY <1>1, <2>1, <2>3 DEF Saved, Draft
  <2> QED BY <2>4, <2>5 DEF q, a, x
<1>9. ShownIsSound' BY <1>1 DEF ShownIsSound
<1>10. DraftsAreSafe' BY <1>1, <1>3 DEF DraftsAreSafe, Safe, Saved
<1>11. FlightIsSound' BY <1>1 DEF FlightIsSound
<1>12. Still => Still' BY <1>1, <1>3 DEF Still, Saved
<1>13. ASSUME NEW q \in ProjectIds, store[q] # <<>> PROVE store'[q] # <<>>
  <2>1. CASE q # p BY <1>1, <1>2, <1>13, <2>1, AppendsIs
  <2>2. CASE q = p
    <3>1. Len(store'[p]) = Len(store[p]) + 1 /\ Len(store[p]) \in Nat
      BY <1>1, <1>2, AppendsIs DEF Holds
    <3> QED BY <2>2, <3>1, EmptyList
  <2> QED BY <2>1, <2>2
<1> QED BY <1>5, <1>6, <1>7, <1>8, <1>9, <1>10, <1>11, <1>12, <1>13

LEMMA WaitStaysSound ==
  ASSUME RestIsSound, NEW p \in ProjectIds, NEW d, NEW by, StoreStep(p, d, by),
         NEW v \in DOMAIN Waits, WaitIsSound(v), waits'[v] = waits[v]
  PROVE  WaitIsSound(v)'
<1>1. /\ Appends(p, d, by) /\ IsNext(p, d)
      /\ by = "assistant" \/ (store[p] = <<>> /\ ~(d.revision > 1))
      /\ UNCHANGED <<scenario, persisted, saves, flight, window, drawn, shown, timer, control>>
  BY DEF StoreStep
<1>2. StoreShaped BY DEF RestIsSound, Shaped
<1>3. DrawnDraft' = DrawnDraft BY <1>1 DEF DrawnDraft, Draft
<1>4. /\ Still => Still'
      /\ \A q \in ProjectIds : store[q] # <<>> => store'[q] # <<>>
  BY StoreStepIsSound
<1>5. SavingIsSound(v)' BY <1>1, <1>3, <1>4 DEF WaitIsSound, SavingIsSound
<1>6. BarrierIsSound(v)' BY <1>1, <1>4 DEF WaitIsSound, BarrierIsSound, Hydrates
<1>7. waits[v].pc = "loaded" => IsLatestOf(waits[v].target, waits[v].document)'
  <2> SUFFICES ASSUME waits[v].pc = "loaded"
               PROVE  IsLatestOf(waits[v].target, waits[v].document)'
    OBVIOUS
  <2> DEFINE q == waits[v].target
             x == waits[v].document
  <2>1. IsLatestOf(q, x) BY DEF WaitIsSound, OpeningIsSound
  <2>2. by = "assistant" \/ q # p
    <3>1. ASSUME q = p, store[p] = <<>> PROVE FALSE BY <2>1, <3>1, EmptyList DEF IsLatestOf
    <3> QED BY <1>1, <3>1
  <2>3. q' = q /\ x' = x OBVIOUS
  <2> HIDE DEF q, x
  <2>4. IsLatestOf(q, x)' BY <1>1, <1>2, <2>1, <2>2, <2>3, StaysStored DEF IsLatestOf
  <2> QED BY <2>4 DEF q, x
<1>8. (~waits[v].fresh /\ (\/ waits[v].started /\ waits[v].pc \in {"saving", "flushing"}
                          \/ waits[v].pc = "loading") => store[waits[v].target] # <<>>)'
  <2> SUFFICES ASSUME ~waits[v].fresh, \/ waits[v].started /\ waits[v].pc \in {"saving", "flushing"}
                                       \/ waits[v].pc = "loading"
               PROVE  store'[waits[v].target] # <<>>
    OBVIOUS
  <2>1. store[waits[v].target] # <<>> BY DEF WaitIsSound, OpeningIsSound
  <2>2. CASE waits[v].target \in ProjectIds BY <1>4, <2>1, <2>2
  <2>3. CASE waits[v].target \notin ProjectIds
    BY <1>1, <1>2, <2>1, <2>3 DEF Appends, StoreShaped, IsMap
  <2> QED BY <2>2, <2>3
<1>9. OpeningIsSound(v)'
  BY <1>1, <1>7, <1>8 DEF WaitIsSound, OpeningIsSound, Hydrates, Live
<1> QED BY <1>5, <1>6, <1>9 DEF WaitIsSound

LEMMA HeadStays ==
  ASSUME RestIsSound, NEW p \in ProjectIds, NEW d, NEW by, Appends(p, d, by), IsNext(p, d),
         UNCHANGED control, NEW q, NEW head, IsHead(q, head)
  PROVE  head = <<>> \/ /\ q = control.project
                        /\ q \in ProjectIds
                        /\ \E i \in DOMAIN store'[q] : store'[q][i].document = head[1]
                        /\ head[1].revision <= control.accepted.revision
<1>1. StoreShaped BY DEF RestIsSound, Shaped
<1>2. CASE head = <<>> BY <1>2
<1>3. CASE head # <<>>
  <2>1. /\ q = control.project /\ IsStored(q, head[1])
        /\ head[1].revision <= control.accepted.revision
    BY <1>3 DEF IsHead
  <2> DEFINE x == head[1]
  <2> HIDE DEF x
  <2>2. IsStored(q, x) BY <2>1 DEF x
  <2>3. q \in ProjectIds /\ \E i \in DOMAIN store'[q] : store'[q][i].document = x
    BY <1>1, <2>2, StaysStored
  <2> QED BY <2>1, <2>3 DEF x
<1> QED BY <1>2, <1>3

LEMMA HeadsStaySound ==
  ASSUME RestIsSound, HeadsAreSound, NEW p \in ProjectIds, NEW d, NEW by, Appends(p, d, by),
         IsNext(p, d), UNCHANGED <<control, window, drawn>>,
         \A v \in DOMAIN Waits : (waits[v].current /\ Live(v))' =>
           /\ waits[v].current /\ Live(v)
           /\ waits'[v].before = waits[v].before /\ waits'[v].head = waits[v].head
  PROVE  HeadsAreSound'
<1>1. IsHead(window.project, window.head)'
  <2>1. IsHead(window.project, window.head) BY DEF HeadsAreSound
  <2> QED BY <2>1, HeadStays DEF IsHead, IsStored
<1>2. (drawn.project = window.project => IsHead(drawn.project, drawn.head))'
  <2> SUFFICES ASSUME drawn.project = window.project PROVE IsHead(drawn.project, drawn.head)'
    OBVIOUS
  <2>1. IsHead(drawn.project, drawn.head) BY DEF HeadsAreSound
  <2> QED BY <2>1, HeadStays DEF IsHead, IsStored
<1>3. ASSUME NEW v \in DOMAIN Waits, (waits[v].current /\ Live(v))'
      PROVE  IsHead(waits[v].before, waits[v].head)'
  <2>1. IsHead(waits[v].before, waits[v].head) BY <1>3 DEF HeadsAreSound
  <2>2. waits'[v].before = waits[v].before /\ waits'[v].head = waits[v].head BY <1>3
  <2> DEFINE b == waits[v].before
             h == waits[v].head
  <2> HIDE DEF b, h
  <2>3. IsHead(b, h) BY <2>1 DEF b, h
  <2>4. h = <<>> \/ /\ b = control.project
                    /\ b \in ProjectIds
                    /\ \E i \in DOMAIN store'[b] : store'[b][i].document = h[1]
                    /\ h[1].revision <= control.accepted.revision
    BY <2>3, HeadStays
  <2> QED BY <2>2, <2>4 DEF IsHead, IsStored, b, h
<1> QED BY <1>1, <1>2, <1>3 DEF HeadsAreSound

LEMMA NewestIs ==
  ASSUME StoreShaped, HistoriesAreSound, NEW p \in ProjectIds, store[p] # <<>>
  PROVE  /\ Showable(Newest(p)) /\ IsStored(p, Newest(p)) /\ IsLatestOf(p, Newest(p))
         /\ \A x : IsStored(p, x) => /\ x.revision \in Nat /\ x.revision <= Newest(p).revision
                                     /\ x.revision = Newest(p).revision => x = Newest(p)
<1> DEFINE h == store[p]
           d == Newest(p)
<1>1. IsList(h) /\ Revisions(h) BY DEF StoreShaped, HistoriesAreSound
<1>2. Len(h) \in Nat /\ DOMAIN h = 1 .. Len(h) /\ Len(h) # 0 /\ d = h[Len(h)].document
  BY <1>1, ListIs DEF Newest
<1>3. \A x : IsStored(p, x) <=> \E i \in DOMAIN h : h[i].document = x BY DEF IsStored
<1>4. IsLatestOf(p, d) <=> \E i \in DOMAIN h : /\ h[i].document = d
                                               /\ \A j \in DOMAIN h : j > i => h[j].by = "assistant"
  BY DEF IsLatestOf
<1> HIDE DEF h, d
<1>5. Len(h) \in DOMAIN h /\ \A j \in DOMAIN h : ~(j > Len(h)) BY <1>2
<1>6. Showable(d) /\ IsStored(p, d) /\ IsLatestOf(p, d)
  BY <1>1, <1>2, <1>3, <1>4, <1>5 DEF Revisions
<1>7. ASSUME NEW x, IsStored(p, x)
      PROVE  x.revision \in Nat /\ x.revision <= d.revision /\ (x.revision = d.revision => x = d)
  <2>1. PICK i \in DOMAIN h : h[i].document = x BY <1>3, <1>7
  <2>2. i = Len(h) \/ i < Len(h) BY <1>2
  <2>3. i = Len(h) \/ x.revision < d.revision BY <1>1, <1>2, <1>5, <2>1, <2>2 DEF Revisions
  <2>4. x.revision \in Nat /\ d.revision \in Nat
    BY <1>1, <1>2, <1>5, <2>1 DEF Revisions, Showable
  <2> QED BY <1>2, <2>1, <2>3, <2>4
<1> QED BY <1>6, <1>7 DEF d

\* A change of the Assistant's comes after what is stored.
LEMMA AssistantsNext ==
  ASSUME StoreShaped, HistoriesAreSound, scenario \in Scenarios, NEW p \in ProjectIds,
         store[p] # <<>>, NEW actions \in scenario.assistant,
         NEW d \in Apply(Newest(p), actions, 0)
  PROVE  IsNext(p, d)
<1>1. Showable(Newest(p)) BY NewestIs
<1>2. IsList(actions) /\ \A i \in DOMAIN actions : IsChange(actions[i], 0)
  BY WorkspaceAssumption DEF AreChanges
<1>3. Len(actions) \in Nat /\ DOMAIN actions = 1 .. Len(actions) BY <1>2, ListIs
<1> DEFINE n == Len(actions)
           base == Newest(p)
<1> HIDE DEF n, base
<1>4. Showable(d) /\ d.revision = base.revision + 1
  BY <1>1, <1>2, <1>3, ChangedIsShowable DEF n, base
<1>5. base.revision \in Nat BY <1>1 DEF Showable, base
<1> QED BY <1>4, <1>5 DEF IsNext, base

LEMMA AssistantCommitsIsSound ==
  ASSUME WorkspaceInvariant, NEW p \in ProjectIds, NEW actions \in scenario.assistant,
         AssistantCommits(p, actions)
  PROVE  WorkspaceInvariant'
<1>1. RestIsSound /\ WaitsAreSound /\ HeadsAreSound BY DEF WorkspaceInvariant
<1>2. StoreShaped /\ HistoriesAreSound /\ scenario \in Scenarios BY <1>1 DEF RestIsSound, Shaped
<1>3. PICK d \in Apply(Newest(p), actions, 0) :
        store' = [store EXCEPT ![p] = Append(@, [document |-> d, by |-> "assistant"])]
  BY DEF AssistantCommits
<1>4. store[p] # <<>> BY DEF AssistantCommits
<1>5. UNCHANGED <<scenario, persisted, saves, flight, window, drawn, shown, timer, control, waits>>
  BY DEF AssistantCommits, windowVars
<1>6. IsNext(p, d) BY <1>2, <1>3, <1>4, AssistantsNext
<1>7. StoreStep(p, d, "assistant") BY <1>3, <1>5, <1>6 DEF StoreStep, Appends, Row
<1>8. RestIsSound' BY <1>1, <1>7, StoreStepIsSound
<1>9. ASSUME NEW v \in DOMAIN Waits PROVE WaitIsSound(v)'
  BY <1>1, <1>5, <1>7, WaitStaysSound DEF WaitsAreSound
<1>10. WaitsShaped' /\ OneIsCurrent' BY <1>1, <1>5 DEF WaitsAreSound, WaitsShaped, OneIsCurrent
<1>11. HeadsAreSound' BY <1>1, <1>5, <1>6, <1>7, HeadsStaySound DEF StoreStep, Live
<1> QED BY <1>8, <1>9, <1>10, <1>11 DEF WorkspaceInvariant, WaitsAreSound

LEMMA NoOneIsNoProject == NoOne \notin ProjectIds
BY ProjectsAssumption DEF NoOne

\* A wait that is still the window's, and is behind its barrier.
Settles(x, y) ==
  /\ y.again = x.again /\ y.before = x.before /\ y.head = x.head /\ y.target = x.target
  /\ y.started = x.started /\ y.current = x.current /\ y.keep = x.keep /\ y.fresh = x.fresh
  /\ y.pc \in {"loaded", "refused"}

LEMMA HydratingIsSound ==
  ASSUME NEW w \in DOMAIN Waits, WaitIsSound(w), waits[w].pc = "loading",
         Settles(waits[w], waits'[w]), UNCHANGED <<drawn, window, control>>, Still',
         waits'[w].pc = "loaded" =>
           /\ IsLatestOf(waits[w].target, waits[w].document)'
           /\ waits[w].target = control.project =>
                control.accepted.revision <= waits'[w].document.revision
  PROVE  WaitIsSound(w)'
<1>1. /\ waits'[w].again = waits[w].again /\ waits'[w].before = waits[w].before
      /\ waits'[w].target = waits[w].target /\ waits'[w].started = waits[w].started
      /\ waits'[w].current = waits[w].current /\ waits'[w].keep = waits[w].keep
      /\ waits'[w].pc \in {"loaded", "refused"}
  BY DEF Settles
<1>2. Hydrates(w) BY DEF Hydrates
<1>3. Kind(w) = "open" /\ Live(w) BY <1>2 DEF WaitIsSound, OpeningIsSound, Live
<1>4. SavingIsSound(w)' BY <1>1 DEF SavingIsSound
<1>5. BarrierIsSound(w)' BY <1>1, <1>2 DEF WaitIsSound, BarrierIsSound
<1>6. OpeningIsSound(w)'
  BY <1>1, <1>2, <1>3 DEF WaitIsSound, OpeningIsSound, Hydrates, Live, IsLatestOf
<1> QED BY <1>4, <1>5, <1>6 DEF WaitIsSound

LEMMA LoadedIs ==
  ASSUME WaitsShaped, NEW w \in DOMAIN Waits, NEW d,
         waits' = [waits EXCEPT ![w].pc = "loaded", ![w].document = d]
  PROVE  /\ waits'[w].pc = "loaded" /\ waits'[w].document = d /\ Settles(waits[w], waits'[w])
         /\ \A v \in DOMAIN Waits : v # w => waits'[v] = waits[v]
         /\ WaitsShaped'
<1> DEFINE x == waits[w]
           y == waits'[w]
<1>1. /\ IsMap(waits') /\ DOMAIN waits' = DOMAIN Waits
      /\ \A v \in DOMAIN Waits : v # w => waits'[v] = waits[v]
      /\ y = LoadedOf(x, d)
  BY DEF WaitsShaped, IsMap, LoadedOf
<1>2. IsWait(x) BY DEF WaitsShaped
<1> HIDE DEF x, y
<1>3. /\ IsWait(y) /\ y.pc = "loaded" /\ y.document = d /\ Settles(x, y)
  BY <1>1, <1>2, LoadedWait DEF Settles
<1>4. WaitsShaped' BY <1>1, <1>3 DEF WaitsShaped, y
<1> QED BY <1>1, <1>3, <1>4 DEF x, y

LEMMA RefusedIs ==
  ASSUME WaitsShaped, NEW w \in DOMAIN Waits, Over(w, "refused")
  PROVE  /\ waits'[w].pc = "refused" /\ Settles(waits[w], waits'[w])
         /\ \A v \in DOMAIN Waits : v # w => waits'[v] = waits[v]
         /\ WaitsShaped'
<1> DEFINE x == waits[w]
           y == waits'[w]
<1>1. /\ y = PcOf(x, "refused") /\ WaitsShaped'
      /\ \A v \in DOMAIN Waits : v # w => waits'[v] = waits[v]
  BY OverIs DEF Pcs
<1>2. IsWait(x) BY DEF WaitsShaped
<1> HIDE DEF x, y
<1>3. y.pc = "refused" /\ Settles(x, y) BY <1>1, <1>2, PcWait DEF Settles, Pcs
<1> QED BY <1>1, <1>3 DEF x, y

LEMMA LoadWorkflowIsSound ==
  ASSUME WorkspaceInvariant, NEW w \in DOMAIN Waits, LoadWorkflow(w)
  PROVE  WorkspaceInvariant'
<1> USE DEF WorkspaceInvariant
<1> DEFINE x == waits[w]
           p == waits[w].target
           created == EmptyDocument(0)
<1>1. /\ x.pc = "loading"
      /\ UNCHANGED <<scenario, persisted, saves, flight, window, drawn, shown, timer, control>>
  BY DEF LoadWorkflow
<1>2. WaitsShaped /\ OneIsCurrent /\ WaitIsSound(w) /\ IsWait(x) BY DEF WaitsAreSound, WaitsShaped
<1>3. /\ IsWindow(window) /\ IsHead(window.project, window.head)
      /\ StoreShaped /\ HistoriesAreSound
  BY DEF RestIsSound, Shaped, HeadsAreSound
<1>4. Hydrates(w) /\ Live(w) BY <1>1, <1>2 DEF WaitIsSound, OpeningIsSound, Hydrates, Live
<1>5. Still /\ p \in ProjectIds /\ x.current
  BY <1>2, <1>4 DEF WaitIsSound, BarrierIsSound, OpeningIsSound
<1>6. \/ /\ ~x.fresh /\ UNCHANGED store
         /\ waits' = [waits EXCEPT ![w].pc = "loaded", ![w].document = Newest(p)]
      \/ /\ store[p] = <<>>
         /\ waits' = [waits EXCEPT ![w].pc = "loaded", ![w].document = created]
         /\ store' = [store EXCEPT ![p] = <<[document |-> created, by |-> "window"]>>]
      \/ Over(w, "refused") /\ UNCHANGED store
  BY DEF LoadWorkflow
<1>7. ASSUME UNCHANGED store, WaitsShaped', Settles(x, waits'[w]),
             \A v \in DOMAIN Waits : v # w => waits'[v] = waits[v],
             waits'[w].pc = "loaded" =>
               /\ IsLatestOf(p, waits'[w].document)
               /\ p = control.project => control.accepted.revision <= waits'[w].document.revision
      PROVE  WorkspaceInvariant'
  <2>1. BarrierStep BY <1>1, <1>3, <1>7 DEF BarrierStep
  <2>2. Still' BY <1>5, <2>1, BarrierStepIsSound
  <2>3. waits'[w].pc = "loaded" =>
          /\ IsLatestOf(waits[w].target, waits[w].document)'
          /\ p = control.project => control.accepted.revision <= waits'[w].document.revision
    BY <1>7 DEF IsLatestOf, Settles
  <2>4. WaitIsSound(w)' BY <1>1, <1>2, <1>7, <2>2, <2>3, HydratingIsSound
  <2>5. waits'[w].before = x.before /\ waits'[w].head = x.head /\ waits'[w].current = x.current
    BY <1>7 DEF Settles
  <2>6. OneIsCurrent' BY <1>2, <1>7, <2>5 DEF OneIsCurrent
  <2>7. IsHead(window.project, window.head)' BY <1>1, <1>3, <1>7 DEF IsHead, IsStored
  <2>8. (waits[w].current /\ Live(w) => IsHead(waits[w].before, waits[w].head))'
    <3>1. IsHead(x.before, x.head) BY <1>4, <1>5 DEF HeadsAreSound
    <3> QED BY <1>1, <1>7, <2>5, <3>1 DEF IsHead, IsStored
  <2> QED BY <1>7, <2>1, <2>4, <2>6, <2>7, <2>8, SameIf, BarrierStepOf
<1>8. CASE /\ ~x.fresh /\ UNCHANGED store
           /\ waits' = [waits EXCEPT ![w].pc = "loaded", ![w].document = Newest(p)]
  <2>1. store[p] # <<>> BY <1>1, <1>2, <1>8 DEF WaitIsSound, OpeningIsSound
  <2>2. IsLatestOf(p, Newest(p)) BY <1>3, <1>5, <2>1, NewestIs
  <2>3. p = control.project => control.accepted.revision <= Newest(p).revision
    <3>1. SUFFICES ASSUME p = control.project
                   PROVE  control.accepted.revision <= Newest(p).revision
      OBVIOUS
    <3>2. control.project # NoOne BY <1>5, <3>1, NoOneIsNoProject
    <3>3. IsStored(p, control.accepted) BY <3>1, <3>2 DEF RestIsSound, AcceptedIsSound
    <3> QED BY <1>3, <1>5, <2>1, <3>3, NewestIs
  <2> DEFINE d == Newest(p)
  <2> HIDE DEF d
  <2>4. /\ waits'[w].document = d /\ Settles(x, waits'[w]) /\ WaitsShaped'
        /\ \A v \in DOMAIN Waits : v # w => waits'[v] = waits[v]
    BY <1>2, <1>8, LoadedIs DEF d
  <2> QED BY <1>7, <1>8, <2>2, <2>3, <2>4 DEF d
<1>9. CASE Over(w, "refused") /\ UNCHANGED store
  <2>1. /\ waits'[w].pc = "refused" /\ Settles(x, waits'[w]) /\ WaitsShaped'
        /\ \A v \in DOMAIN Waits : v # w => waits'[v] = waits[v]
    BY <1>2, <1>9, RefusedIs
  <2> QED BY <1>7, <1>9, <2>1
<1>10. CASE /\ store[p] = <<>>
            /\ waits' = [waits EXCEPT ![w].pc = "loaded", ![w].document = created]
            /\ store' = [store EXCEPT ![p] = <<[document |-> created, by |-> "window"]>>]
  <2>0. Showable(created) /\ created.revision = 1 BY EmptyIsShowable
  <2> HIDE DEF created
  <2>1. Appends(p, created, "window")
    <3>1. \A row : Append(<<>>, row) = <<row>> OBVIOUS
    <3> QED BY <1>10, <3>1 DEF Appends, Row
  <2>2. IsNext(p, created) BY <1>10, <2>0 DEF IsNext
  <2>3. StoreStep(p, created, "window") BY <1>1, <1>10, <2>0, <2>1, <2>2 DEF StoreStep
  <2>4. RestIsSound' /\ Still' BY <1>5, <2>3, StoreStepIsSound
  <2>5. /\ waits'[w].document = created /\ Settles(x, waits'[w]) /\ WaitsShaped'
        /\ \A v \in DOMAIN Waits : v # w => waits'[v] = waits[v]
    BY <1>2, <1>10, LoadedIs
  <2>6. PICK q \in ProjectIds : q = p BY <1>5
  <2>7. Appends(q, created, "window") BY <2>1, <2>6
  <2>8. IsLatestOf(q, created)' BY <1>3, <2>7, IsNowLatest
  <2>9. p # control.project
    <3>1. ASSUME p = control.project PROVE FALSE
      <4>1. control.project # NoOne BY <1>5, <3>1, NoOneIsNoProject
      <4>2. IsStored(p, control.accepted) BY <3>1, <4>1 DEF RestIsSound, AcceptedIsSound
      <4> QED BY <1>10, <4>2, EmptyList DEF IsStored
    <3> QED BY <3>1
  <2>10. WaitIsSound(w)'
    <3>1. waits'[w].target = q BY <2>5, <2>6 DEF Settles
    <3>2. IsLatestOf(waits[w].target, waits[w].document)'
      BY <2>5, <2>8, <3>1 DEF IsLatestOf
    <3> QED BY <1>1, <1>2, <2>4, <2>5, <2>9, <3>2, HydratingIsSound
  <2>11. ASSUME NEW v \in DOMAIN Waits PROVE WaitIsSound(v)'
    <3>1. CASE v = w BY <2>10, <3>1
    <3>2. CASE v # w BY <1>5, <2>3, <2>5, <3>2, WaitStaysSound DEF WaitsAreSound
    <3> QED BY <3>1, <3>2
  <2>12. waits'[w].before = x.before /\ waits'[w].head = x.head /\ waits'[w].current = x.current
    BY <2>5 DEF Settles
  <2>13. OneIsCurrent' BY <1>2, <2>5, <2>12 DEF OneIsCurrent
  <2>14. HeadsAreSound' BY <1>1, <1>4, <1>5, <2>1, <2>2, <2>5, <2>12, HeadsStaySound DEF Live
  <2> QED BY <2>4, <2>5, <2>11, <2>13, <2>14 DEF WaitsAreSound
<1> QED BY <1>6, <1>8, <1>9, <1>10

ReplyOf(f, reply, d) == [f EXCEPT !.reply = reply, !.document = d]

LEMMA ReplyIs ==
  ASSUME NEW f, IsFlight(f), NEW reply, NEW d, NEW g, g = ReplyOf(f, reply, d)
  PROVE  /\ IsFlight(g) /\ g.reply = reply /\ g.document = d
         /\ g.project = f.project /\ g.base = f.base /\ g.actions = f.actions
         /\ g.draft = f.draft /\ g.latest = f.latest /\ g.current = f.current
BY DEF IsFlight, ReplyOf

\* The mutation that the controller waits for is of the revision it has accepted.
LEMMA FlightIs ==
  ASSUME RestIsSound, flight # <<>>
  PROVE  /\ IsFlight(flight[1]) /\ flight[1].project = control.project
         /\ control.project \in ProjectIds /\ control.project # NoOne /\ drawn.project # NoOne
         /\ flight[1].base = control.accepted.revision
         /\ saves # <<>> /\ IsDraft(saves[1]) /\ flight[1].draft = saves[1] /\ 1 \in DOMAIN saves
         /\ flight[1].current /\ flight[1].project = flight[1].draft.project
         /\ Showable(control.accepted) /\ IsStored(control.project, control.accepted)
         /\ store[control.project] # <<>>
         /\ \A d : ~HasCommitted /\ Newest(flight[1].project).revision = flight[1].base
                     /\ d \in Apply(Newest(flight[1].project), flight[1].actions, 0)
              => IsNext(control.project, d) /\ View(d) = flight[1].draft.view
                   /\ d.revision > flight[1].base
<1> USE DEF RestIsSound
<1> DEFINE f == flight[1]
<1>1. /\ IsFlight(f) /\ IsList(saves) /\ \A i \in DOMAIN saves : IsDraft(saves[i])
      /\ StoreShaped /\ HistoriesAreSound /\ IsWindow(window)
  BY DEF Shaped, FlightShaped, SavesShaped
<1>2. /\ f.project = control.project /\ f.base = control.accepted.revision
      /\ saves # <<>> /\ f.draft = saves[1] /\ f.current /\ f.project = f.draft.project
      /\ f.actions \in EditorMutationActions(control.accepted, f.draft.view)
  BY DEF FlightIsSound
<1>3. 1 \in DOMAIN saves /\ IsDraft(saves[1])
  <2>1. Len(saves) \in Nat /\ DOMAIN saves = 1 .. Len(saves) /\ Len(saves) # 0 BY <1>1, <1>2, ListIs
  <2>2. 1 \in DOMAIN saves BY <2>1
  <2> QED BY <1>1, <2>2
<1>4. drawn.project # NoOne /\ control.project # NoOne BY DEF DraftsAreSafe
<1>5. control.project \in ProjectIds BY <1>1, <1>4 DEF DraftsAreSafe, IsWindow
<1>6. IsStored(control.project, control.accepted) BY <1>4 DEF AcceptedIsSound
<1>7. store[control.project] # <<>> BY <1>6, EmptyList DEF IsStored
<1>8. Showable(control.accepted) BY <1>1, <1>5, <1>6 DEF HistoriesAreSound, Revisions, IsStored
<1>9. ASSUME NEW d, Newest(f.project).revision = f.base,
             d \in Apply(Newest(f.project), f.actions, 0)
      PROVE  IsNext(control.project, d) /\ View(d) = f.draft.view /\ d.revision > f.base
  <2> DEFINE base == control.accepted
             actions == f.actions
             v == f.draft.view
  <2>1. Newest(control.project) = base
    <3>1. Newest(control.project).revision = base.revision BY <1>2, <1>9
    <3> QED BY <1>1, <1>5, <1>6, <1>7, <3>1, NewestIs
  <2>2. d \in Apply(base, actions, 0) /\ actions \in EditorMutationActions(base, v)
    BY <1>2, <1>9, <2>1
  <2>3. WellFormed(v) BY <1>2, <1>3 DEF IsDraft
  <2>4. Showable(base) BY <1>8
  <2> HIDE DEF base, actions, v
  <2>5. CanonicalToEditor(d) = v /\ Showable(d) /\ d.revision = base.revision + 1
    BY <2>2, <2>3, <2>4, SavedAsDrawn
  <2>6. base.revision \in Nat BY <2>4 DEF Showable
  <2>7. d.revision > base.revision BY <2>5, <2>6
  <2> QED BY <1>2, <2>1, <2>5, <2>7 DEF IsNext, View, base, v
<1> QED BY <1>1, <1>2, <1>3, <1>4, <1>5, <1>6, <1>7, <1>8, <1>9

\* Nobody is behind a barrier while the controller waits for a mutation.
LEMMA NobodyIsBehind ==
  ASSUME WaitsAreSound, flight # <<>>, NEW v \in DOMAIN Waits
  PROVE  /\ waits[v].pc # "flushing" /\ ~Hydrates(v)
         /\ ~(waits[v].pc = "saving" /\ waits[v].left = 0 /\ ~waits[v].moved /\ waits[v].ok)
BY DEF WaitsAreSound, WaitIsSound, SavingIsSound, BarrierIsSound, Still

\* The backend answers; in the store there is what it committed.
RepliesTo(f, reply, d) ==
  /\ flight' = <<ReplyOf(f, reply, d)>>
  /\ \/ UNCHANGED store /\ reply = "refused"
     \/ /\ Appends(control.project, d, "window") /\ IsNext(control.project, d)
        /\ View(d) = f.draft.view /\ d.revision > f.base /\ reply = "ok"
  /\ UNCHANGED <<scenario, persisted, saves, window, drawn, shown, timer, control, waits>>

LEMMA ReplyIsSound ==
  ASSUME WorkspaceInvariant, flight # <<>>, flight[1].reply = "none",
         NEW reply, NEW d, RepliesTo(flight[1], reply, d)
  PROVE  WorkspaceInvariant'
<1> USE DEF WorkspaceInvariant
<1> DEFINE f == flight[1]
           g == flight'[1]
           ok == reply = "ok"
<1>1. /\ UNCHANGED <<scenario, persisted, saves, window, drawn, shown, timer, control, waits>>
      /\ flight' = <<ReplyOf(f, reply, d)>>
      /\ \/ UNCHANGED store /\ ~ok
         \/ /\ Appends(control.project, d, "window") /\ IsNext(control.project, d)
            /\ View(d) = f.draft.view /\ d.revision > f.base /\ ok
  BY DEF RepliesTo
<1>2. /\ IsFlight(f) /\ f.project = control.project
      /\ control.project \in ProjectIds /\ control.project # NoOne /\ drawn.project # NoOne
      /\ f.base = control.accepted.revision
      /\ saves # <<>> /\ f.draft = saves[1] /\ 1 \in DOMAIN saves
      /\ f.current /\ f.project = f.draft.project
      /\ IsStored(control.project, control.accepted)
  BY FlightIs
<1>3. /\ flight' = <<g>> /\ flight' # <<>> /\ IsFlight(g) /\ g.reply = reply /\ g.document = d
      /\ g.project = f.project /\ g.base = f.base /\ g.actions = f.actions
      /\ g.draft = f.draft /\ g.latest = f.latest /\ g.current = f.current
  <2> DEFINE r == ReplyOf(f, reply, d)
  <2>1. flight' = <<r>> /\ g = r BY <1>1
  <2> HIDE DEF f, g, r
  <2>2. /\ IsFlight(r) /\ r.reply = reply /\ r.document = d
        /\ r.project = f.project /\ r.base = f.base /\ r.actions = f.actions
        /\ r.draft = f.draft /\ r.latest = f.latest /\ r.current = f.current
    BY <1>2, ReplyIs DEF r
  <2> QED BY <2>1, <2>2
<1> HIDE DEF g
<1>4. /\ StoreShaped /\ HistoriesAreSound /\ StoredAsShown /\ ShownShaped
      /\ DrawnDraft' = DrawnDraft
  BY <1>1 DEF RestIsSound, Shaped, DrawnDraft, Draft
<1>5. StoreShaped'
  <2>1. CASE UNCHANGED store BY <1>4, <2>1 DEF StoreShaped
  <2>2. CASE Appends(control.project, d, "window") BY <1>2, <1>4, <2>2, AppendsIs
  <2> QED BY <1>1, <2>1, <2>2
<1>6. Shaped'
  <2>1. FlightShaped' BY <1>3 DEF FlightShaped, g
  <2> QED BY <1>1, <1>4, <1>5, <2>1
          DEF RestIsSound, Shaped, ShownShaped, DrawnShaped, SavesShaped, IsWindow
<1>7. HistoriesAreSound'
  <2>1. CASE UNCHANGED store BY <1>4, <2>1 DEF HistoriesAreSound
  <2>2. CASE Appends(control.project, d, "window") /\ IsNext(control.project, d)
    BY <1>2, <1>4, <2>2, HistoriesGrow
  <2> QED BY <1>1, <2>1, <2>2
<1>8. StoredAsShown'
  <2>1. CASE UNCHANGED store BY <1>1, <1>4, <2>1 DEF StoredAsShown
  <2>2. CASE Appends(control.project, d, "window") /\ View(d) = f.draft.view
    <3>1. View(d) \in ToSet(shown[control.project])
      BY <1>2, <2>2 DEF RestIsSound, ShownIsSound
    <3>2. UNCHANGED shown BY <1>1
    <3> QED BY <1>2, <1>4, <2>2, <3>1, <3>2, StaysShown
  <2> QED BY <1>1, <2>1, <2>2
<1>9. AcceptedIsSound'
  <2> DEFINE q == control.project
             a == control.accepted
  <2>1. q' = q /\ a' = a BY <1>1
  <2>2. IsStored(q, a)'
    <3>1. CASE UNCHANGED store BY <1>2, <2>1, <3>1 DEF IsStored
    <3>2. CASE Appends(q, d, "window")
      <4>1. IsStored(q, a) /\ q \in ProjectIds BY <1>2
      <4> HIDE DEF q, a
      <4> QED BY <1>4, <2>1, <3>2, <4>1, StaysStored DEF IsStored
    <3> QED BY <1>1, <3>1, <3>2
  <2>3. HasCommitted' <=> ok BY <1>3 DEF HasCommitted, g
  <2>4. ok => IsLatestOf(q, d)'
    <3>1. SUFFICES ASSUME ok PROVE IsLatestOf(q, d)' OBVIOUS
    <3>2. Appends(q, d, "window") BY <1>1, <3>1
    <3>3. PICK r \in ProjectIds : r = q BY <1>2
    <3>4. IsLatestOf(r, d)' BY <1>4, <3>2, <3>3, IsNowLatest
    <3> QED BY <2>1, <3>3, <3>4 DEF IsLatestOf
  <2>5. ~ok => IsLatestOf(q, a)'
    <3>1. IsLatestOf(q, a) BY <1>2 DEF RestIsSound, AcceptedIsSound, HasCommitted
    <3> QED BY <1>1, <2>1, <3>1 DEF IsLatestOf
  <2>6. Saved(Draft(q, View(a)))'
    <3>1. Saved(Draft(q, View(a))) BY <1>2 DEF RestIsSound, AcceptedIsSound
    <3> QED BY <1>1, <2>1, <3>1 DEF Saved, Draft
  <2>7. flight'[1].document = d BY <1>3 DEF g
  <2>8. IsLatestOf(q, IF HasCommitted THEN flight[1].document ELSE a)'
    <3>1. CASE ok BY <2>3, <2>4, <2>7, <3>1 DEF IsLatestOf
    <3>2. CASE ~ok BY <2>3, <2>5, <3>2 DEF IsLatestOf
    <3> QED BY <3>1, <3>2
  <2> QED BY <2>2, <2>6, <2>8 DEF AcceptedIsSound
<1>10. ShownIsSound' BY <1>1 DEF RestIsSound, ShownIsSound
<1>11. DraftsAreSafe' BY <1>1, <1>2, <1>4 DEF RestIsSound, DraftsAreSafe, Safe, Saved
<1>12. FlightIsSound'
  <2>1. /\ f.actions \in EditorMutationActions(control.accepted, f.draft.view)
        /\ ~f.latest /\ window.project = drawn.project => window.view = drawn.view
    BY DEF RestIsSound, FlightIsSound
  <2> DEFINE G == flight[1]
  <2>2. G' = g BY DEF g
  <2>3. ok => View(d) = f.draft.view /\ d.revision > f.base BY <1>1
  <2> QED BY <1>1, <1>2, <1>3, <2>1, <2>2, <2>3 DEF FlightIsSound
<1>13. ASSUME NEW v \in DOMAIN Waits PROVE WaitIsSound(v)'
  <2>1. WaitIsSound(v) /\ waits'[v] = waits[v] BY <1>1 DEF WaitsAreSound
  <2>2. /\ waits[v].pc # "flushing" /\ ~Hydrates(v)
        /\ ~(waits[v].pc = "saving" /\ waits[v].left = 0 /\ ~waits[v].moved /\ waits[v].ok)
    BY NobodyIsBehind
  <2>3. SavingIsSound(v)' BY <1>1, <1>3, <1>4, <2>1, <2>2 DEF WaitIsSound, SavingIsSound, g
  <2>4. BarrierIsSound(v)' BY <1>1, <2>1, <2>2 DEF WaitIsSound, BarrierIsSound, Hydrates
  <2>5. waits[v].started /\ waits[v].pc \in {"saving", "flushing"} /\ ~waits[v].fresh =>
          store'[waits[v].target] # <<>>
    <3>1. SUFFICES ASSUME store[waits[v].target] # <<>> PROVE store'[waits[v].target] # <<>>
      BY <2>1 DEF WaitIsSound, OpeningIsSound
    <3>2. CASE UNCHANGED store BY <3>1, <3>2
    <3>3. CASE Appends(control.project, d, "window")
      <4>1. CASE waits[v].target = control.project
        <5>1. Len(store'[control.project]) = Len(store[control.project]) + 1
              /\ Len(store[control.project]) \in Nat
          BY <1>2, <1>4, <3>3, AppendsIs DEF Holds
        <5> QED BY <4>1, <5>1, EmptyList
      <4>2. CASE waits[v].target # control.project
        BY <1>4, <3>1, <3>3, <4>2 DEF Appends, StoreShaped, IsMap
      <4> QED BY <4>1, <4>2
    <3> QED BY <1>1, <3>2, <3>3
  <2>6. OpeningIsSound(v)'
    BY <1>1, <2>1, <2>2, <2>5 DEF WaitIsSound, OpeningIsSound, Hydrates, Live
  <2> QED BY <2>3, <2>4, <2>6 DEF WaitIsSound
<1>14. WaitsShaped' /\ OneIsCurrent' BY <1>1 DEF WaitsAreSound, WaitsShaped, OneIsCurrent
<1>15. HeadsAreSound'
  <2>1. CASE UNCHANGED store BY <1>1, <2>1 DEF HeadsAreSound, IsHead, IsStored, Live
  <2>2. CASE Appends(control.project, d, "window") /\ IsNext(control.project, d)
    BY <1>1, <1>2, <2>2, HeadsStaySound DEF Live
  <2> QED BY <1>1, <2>1, <2>2
<1> QED BY <1>6, <1>7, <1>8, <1>9, <1>10, <1>11, <1>12, <1>13, <1>14, <1>15
        DEF RestIsSound, WaitsAreSound

LEMMA CommitMutationIsSound ==
  ASSUME WorkspaceInvariant, CommitMutation
  PROVE  WorkspaceInvariant'
<1> DEFINE f == flight[1]
           results == IF Newest(f.project).revision = f.base
                      THEN Apply(Newest(f.project), f.actions, 0) ELSE {}
<1>1. /\ flight # <<>> /\ f.reply = "none"
      /\ UNCHANGED <<scenario, persisted, saves, window, drawn, shown, timer, control, waits>>
  BY DEF CommitMutation
<1>2. /\ f.project = control.project
      /\ \A d \in results : IsNext(control.project, d) /\ View(d) = f.draft.view /\ d.revision > f.base
  <2>1. ~HasCommitted BY <1>1 DEF HasCommitted
  <2>2. RestIsSound BY DEF WorkspaceInvariant
  <2> QED BY <1>1, <2>1, <2>2, FlightIs
<1>3. \/ \E d \in results :
           /\ store' = [store EXCEPT ![f.project] = Append(@, [document |-> d, by |-> "window"])]
           /\ flight' = <<[f EXCEPT !.reply = "ok", !.document = d]>>
      \/ UNCHANGED store /\ flight' = <<[f EXCEPT !.reply = "refused", !.document = f.document]>>
  BY DEF CommitMutation
<1> HIDE DEF results
<1>4. ASSUME NEW d \in results,
             store' = [store EXCEPT ![f.project] = Append(@, [document |-> d, by |-> "window"])],
             flight' = <<[f EXCEPT !.reply = "ok", !.document = d]>>
      PROVE  WorkspaceInvariant'
  <2>1. RepliesTo(flight[1], "ok", d) BY <1>1, <1>2, <1>4 DEF RepliesTo, ReplyOf, Appends, Row
  <2> QED BY <1>1, <2>1, ReplyIsSound
<1>5. CASE UNCHANGED store /\ flight' = <<[f EXCEPT !.reply = "refused", !.document = f.document]>>
  <2>1. RepliesTo(flight[1], "refused", f.document) BY <1>1, <1>5 DEF RepliesTo, ReplyOf
  <2> QED BY <1>1, <2>1, ReplyIsSound
<1> QED BY <1>3, <1>4, <1>5

----------------------------------------------------------------------------
(* The save queue.                                                         *)

LeftOf(x, ok) == [x EXCEPT !.left = @ - 1, !.ok = ok]
WaitsForIt(x) == x.pc \in {"saving", "flushing"} /\ x.left > 0
EndedOf(x, ok) == IF WaitsForIt(x) THEN LeftOf(x, ok) ELSE x

LEMMA LeftWait ==
  ASSUME NEW x, IsWait(x), x.left > 0, NEW ok \in BOOLEAN, NEW y, y = LeftOf(x, ok)
  PROVE  /\ IsWait(y) /\ y.left = x.left - 1 /\ y.ok = ok
         /\ y.pc = x.pc /\ y.moved = x.moved /\ y.since = x.since
         /\ y.again = x.again /\ y.before = x.before /\ y.head = x.head
         /\ y.target = x.target /\ y.started = x.started /\ y.current = x.current
         /\ y.keep = x.keep /\ y.fresh = x.fresh /\ y.document = x.document
<1>1. y = [pc |-> y.pc, left |-> y.left, ok |-> y.ok, moved |-> y.moved, since |-> y.since,
           of |-> y.of, target |-> y.target, again |-> y.again, before |-> y.before,
           head |-> y.head, started |-> y.started, current |-> y.current, keep |-> y.keep,
           fresh |-> y.fresh, document |-> y.document]
  BY DEF IsWait, LeftOf
<1>2. y.left = x.left - 1 /\ y.ok = ok
  BY DEF IsWait, LeftOf
<1>3. /\ y.pc = x.pc /\ y.moved = x.moved /\ y.since = x.since
      /\ y.again = x.again /\ y.before = x.before /\ y.head = x.head
      /\ y.target = x.target /\ y.started = x.started /\ y.current = x.current
      /\ y.keep = x.keep /\ y.fresh = x.fresh /\ y.document = x.document
  BY DEF IsWait, LeftOf
<1>4. /\ x.left \in Nat /\ x.pc \in Pcs
      /\ {x.ok, x.moved, x.again, x.started, x.current, x.keep, x.fresh} \subseteq BOOLEAN
  BY DEF IsWait
<1>5. {y.ok, y.moved, y.again, y.started, y.current, y.keep, y.fresh} \subseteq BOOLEAN
  BY <1>2, <1>3, <1>4
<1>6. y.left \in Nat BY <1>2, <1>4
<1> QED BY <1>1, <1>2, <1>3, <1>4, <1>5, <1>6 DEF IsWait

LEMMA EndedWait ==
  ASSUME NEW x, IsWait(x), NEW ok \in BOOLEAN, NEW y, y = EndedOf(x, ok)
  PROVE  /\ IsWait(y) /\ y.pc = x.pc /\ y.moved = x.moved /\ y.since = x.since
         /\ y.again = x.again /\ y.before = x.before /\ y.head = x.head
         /\ y.target = x.target /\ y.started = x.started /\ y.current = x.current
         /\ y.keep = x.keep /\ y.fresh = x.fresh /\ y.document = x.document
         /\ y.pc = "saving" => \/ x.left > 0 /\ y.left = x.left - 1 /\ y.ok = ok
                               \/ x.left = 0 /\ y.left = 0 /\ y.ok = x.ok
         /\ y.pc = "flushing" /\ x.left = 0 => y.left = 0
<1>1. CASE WaitsForIt(x)
  <2>1. y = LeftOf(x, ok) /\ x.left > 0 BY <1>1 DEF EndedOf, WaitsForIt
  <2> QED BY <2>1, LeftWait
<1>2. CASE ~WaitsForIt(x)
  <2>1. y = x /\ x.left \in Nat BY <1>2 DEF EndedOf, IsWait
  <2>2. x.pc = "saving" => x.left = 0 BY <1>2, <2>1 DEF WaitsForIt
  <2> QED BY <2>1, <2>2
<1> QED BY <1>1, <1>2

\* The operation at the head of the queue has ended.
HeadEnds(ok) ==
  /\ saves # <<>> /\ saves' = Tail(saves) /\ flight' = <<>>
  /\ IsMap(waits') /\ DOMAIN waits' = DOMAIN Waits
  /\ \A v \in DOMAIN Waits : waits'[v] = EndedOf(waits[v], ok)
  /\ UNCHANGED <<scenario, store, drawn, shown, timer>>
  /\ window'.project = window.project /\ control'.project = control.project
  /\ Still => Still' /\ control'.accepted = control.accepted
  /\ ok /\ (\A i \in DOMAIN saves : saves[i] = DrawnDraft)
       /\ (flight # <<>> => flight[1].latest) => Still'

LEMMA FinishedEnds ==
  ASSUME NEW queue, NEW ok \in BOOLEAN, WaitsShaped, Finished(queue, ok, waits)
  PROVE  /\ saves' = queue /\ IsMap(waits') /\ DOMAIN waits' = DOMAIN Waits
         /\ \A v \in DOMAIN Waits : waits'[v] = EndedOf(waits[v], ok)
<1>1. \A v \in DOMAIN Waits :
        EndedOf(waits[v], ok) = IF waits[v].pc \in {"saving", "flushing"} /\ waits[v].left > 0
                                THEN [waits[v] EXCEPT !.left = @ - 1, !.ok = ok] ELSE waits[v]
  BY DEF EndedOf, WaitsForIt, LeftOf
<1> QED BY <1>1 DEF Finished, IsMap

LEMMA HeadEndsIsSound ==
  ASSUME RestIsSound, WaitsAreSound, NEW ok \in BOOLEAN, HeadEnds(ok)
  PROVE  /\ WaitsAreSound' /\ SavesShaped'
         /\ DOMAIN saves' = 1 .. Len(saves) - 1
         /\ \A i \in DOMAIN saves' : i + 1 \in DOMAIN saves /\ saves'[i] = saves[i + 1]
         /\ \A v \in DOMAIN Waits : /\ waits'[v].current = waits[v].current
                                    /\ Live(v)' <=> Live(v)
                                    /\ waits'[v].before = waits[v].before
                                    /\ waits'[v].head = waits[v].head
<1>1. /\ saves # <<>> /\ saves' = Tail(saves) /\ flight' = <<>>
      /\ IsMap(waits') /\ DOMAIN waits' = DOMAIN Waits
      /\ \A v \in DOMAIN Waits : waits'[v] = EndedOf(waits[v], ok)
      /\ UNCHANGED <<scenario, store, drawn, shown, timer>>
      /\ window'.project = window.project /\ control'.project = control.project
      /\ Still => Still' /\ control'.accepted = control.accepted
      /\ ok /\ (\A i \in DOMAIN saves : saves[i] = DrawnDraft)
           /\ (flight # <<>> => flight[1].latest) => Still'
  BY DEF HeadEnds
<1>2. IsList(saves) /\ \A i \in DOMAIN saves : IsDraft(saves[i])
  BY DEF RestIsSound, Shaped, SavesShaped
<1>3. /\ Len(saves) \in Nat \ {0} /\ DOMAIN saves = 1 .. Len(saves) /\ IsList(saves')
      /\ Len(saves') = Len(saves) - 1 /\ DOMAIN saves' = 1 .. Len(saves) - 1
      /\ \A i \in 1 .. Len(saves) - 1 : saves'[i] = saves[i + 1] /\ i + 1 \in 1 .. Len(saves)
  BY <1>1, <1>2, ListIs, TailIs
<1>4. \A i \in DOMAIN saves' : i + 1 \in DOMAIN saves /\ saves'[i] = saves[i + 1] /\ i \in Nat
  BY <1>3
<1>5. SavesShaped' BY <1>2, <1>3, <1>4 DEF SavesShaped
<1>6. DrawnDraft' = DrawnDraft BY <1>1 DEF DrawnDraft, Draft
<1>7. ASSUME NEW v \in DOMAIN Waits
      PROVE  /\ IsWait(waits'[v]) /\ waits'[v].pc = waits[v].pc /\ waits'[v].moved = waits[v].moved
             /\ waits'[v].since = waits[v].since
             /\ waits'[v].again = waits[v].again /\ waits'[v].before = waits[v].before
             /\ waits'[v].head = waits[v].head /\ waits'[v].target = waits[v].target
             /\ waits'[v].started = waits[v].started /\ waits'[v].current = waits[v].current
             /\ waits'[v].keep = waits[v].keep /\ waits'[v].fresh = waits[v].fresh
             /\ waits'[v].document = waits[v].document
             /\ waits[v].pc = "saving" =>
                  \/ waits[v].left > 0 /\ waits'[v].left = waits[v].left - 1 /\ waits'[v].ok = ok
                  \/ waits[v].left = 0 /\ waits'[v].left = 0 /\ waits'[v].ok = waits[v].ok
             /\ waits[v].pc = "flushing" /\ waits[v].left = 0 => waits'[v].left = 0
  <2>1. IsWait(waits[v]) BY DEF WaitsAreSound, WaitsShaped
  <2> QED BY <1>1, <2>1, EndedWait
<1>8. ASSUME NEW v \in DOMAIN Waits PROVE SavingIsSound(v)'
  <2> SUFFICES ASSUME waits[v].pc = "saving" PROVE SavingIsSound(v)' BY <1>7 DEF SavingIsSound
  <2>1. /\ waits[v].left \in Nat /\ waits[v].left <= Len(saves)
        /\ ~waits[v].moved =>
             /\ \A i \in DOMAIN saves : i >= waits[v].left => saves[i] = DrawnDraft
             /\ waits[v].left = 1 /\ flight # <<>> => flight[1].latest
             /\ waits[v].left = 0 /\ waits[v].ok => Still
    BY DEF WaitsAreSound, WaitsShaped, IsWait, WaitIsSound, SavingIsSound
  <2>2. waits'[v].left <= Len(saves') BY <1>3, <1>7, <2>1
  <2>3. ASSUME ~waits[v].moved, NEW i \in DOMAIN saves', i >= waits'[v].left
        PROVE  saves'[i] = DrawnDraft
    <3>1. i + 1 >= waits[v].left BY <1>4, <1>7, <2>1, <2>3
    <3> QED BY <1>4, <2>1, <2>3, <3>1
  <2>4. ~waits[v].moved /\ waits'[v].left = 0 /\ waits'[v].ok => Still'
    <3>1. CASE waits[v].left = 0 BY <1>1, <1>7, <2>1, <3>1
    <3>2. CASE waits[v].left > 0
      <4>1. SUFFICES ASSUME ~waits[v].moved, waits'[v].left = 0, waits'[v].ok PROVE Still'
        OBVIOUS
      <4>2. waits[v].left = 1 /\ ok BY <1>7, <2>1, <3>2, <4>1
      <4>3. \A i \in DOMAIN saves : i >= 1 BY <1>3
      <4> QED BY <1>1, <2>1, <4>1, <4>2, <4>3
    <3> QED BY <2>1, <3>1, <3>2
  <2> QED BY <1>1, <1>6, <1>7, <2>2, <2>3, <2>4 DEF SavingIsSound
<1>9. ASSUME NEW v \in DOMAIN Waits PROVE BarrierIsSound(v)'
  <2>1. BarrierIsSound(v) BY DEF WaitsAreSound, WaitIsSound
  <2>2. waits[v].left \in Nat BY DEF WaitsAreSound, WaitsShaped, IsWait
  <2> QED BY <1>1, <1>7, <2>1, <2>2 DEF BarrierIsSound, Hydrates
<1>10. ASSUME NEW v \in DOMAIN Waits PROVE OpeningIsSound(v)'
  <2>1. OpeningIsSound(v) BY DEF WaitsAreSound, WaitIsSound
  <2>2. Hydrates(v) => control'.accepted = control.accepted
    <3>1. Hydrates(v) => Still BY DEF WaitsAreSound, WaitIsSound, BarrierIsSound
    <3> QED BY <1>1, <3>1
  <2> QED BY <1>1, <1>7, <2>1, <2>2 DEF OpeningIsSound, Hydrates, Live, IsLatestOf
<1>11. WaitsShaped' /\ OneIsCurrent' BY <1>1, <1>7 DEF WaitsAreSound, WaitsShaped, OneIsCurrent
<1>12. WaitsAreSound' BY <1>8, <1>9, <1>10, <1>11 DEF WaitsAreSound, WaitIsSound
<1> QED BY <1>3, <1>4, <1>5, <1>7, <1>12 DEF Live

\* What stays of the Rest when the head of the queue is done with.
LEMMA QueueStaysSound ==
  ASSUME RestIsSound, SavesShaped', UNCHANGED <<shown, drawn>>, control'.project = control.project,
         \A i \in DOMAIN saves' : i + 1 \in DOMAIN saves /\ saves'[i] = saves[i + 1],
         \A d : Safe(d) => \/ d.project = control.project
                           \/ d.project \in DOMAIN persisted' /\ persisted'[d.project] = d.view
  PROVE  /\ \A i \in DOMAIN saves' : Safe(saves[i])'
         /\ ShownIsSound'
         /\ drawn.project # NoOne => Safe(DrawnDraft)'
<1>1. DrawnDraft' = DrawnDraft BY DEF DrawnDraft, Draft
<1>2. ASSUME NEW i \in DOMAIN saves' PROVE Safe(saves[i])'
  <2>1. Safe(saves[i + 1]) BY DEF RestIsSound, DraftsAreSafe
  <2> QED BY <2>1 DEF Safe, Saved
<1>3. ShownIsSound' BY DEF RestIsSound, ShownIsSound
<1>4. drawn.project # NoOne => Safe(DrawnDraft)' BY <1>1 DEF RestIsSound, DraftsAreSafe, Safe, Saved
<1> QED BY <1>2, <1>3, <1>4

\* The queue is empty, or its head is a draft.
LEMMA HeadIs ==
  ASSUME RestIsSound, saves # <<>>
  PROVE  /\ Head(saves) = saves[1] /\ 1 \in DOMAIN saves /\ IsDraft(saves[1])
         /\ Safe(saves[1]) /\ drawn.project # NoOne /\ control.project # NoOne
         /\ control.project \in ProjectIds /\ Showable(control.accepted)
         /\ Saved(Draft(control.project, View(control.accepted)))
<1>1. /\ IsList(saves) /\ \A i \in DOMAIN saves : IsDraft(saves[i])
      /\ HistoriesAreSound /\ IsWindow(window)
  BY DEF RestIsSound, Shaped, SavesShaped
<1>2. Len(saves) \in Nat \ {0} /\ DOMAIN saves = 1 .. Len(saves) /\ Head(saves) = saves[1]
  BY <1>1, TailIs, ListIs
<1>3. 1 \in DOMAIN saves BY <1>2
<1>4. Safe(saves[1]) /\ drawn.project # NoOne /\ control.project # NoOne
  BY <1>3 DEF RestIsSound, DraftsAreSafe
<1>5. control.project \in ProjectIds BY <1>1, <1>4 DEF RestIsSound, DraftsAreSafe, IsWindow
<1>6. /\ IsStored(control.project, control.accepted)
      /\ Saved(Draft(control.project, View(control.accepted)))
  BY <1>4 DEF RestIsSound, AcceptedIsSound
<1>7. Showable(control.accepted) BY <1>1, <1>5, <1>6 DEF HistoriesAreSound, Revisions, IsStored
<1> QED BY <1>1, <1>2, <1>3, <1>4, <1>5, <1>6, <1>7

LEMMA NothingToSendIsSound ==
  ASSUME WorkspaceInvariant, NEW ok \in BOOLEAN,
         saves # <<>>, flight = <<>>, UNCHANGED flight, Finished(Tail(saves), ok, waits),
         ok => Saved(saves[1]),
         UNCHANGED <<scenario, store, window, drawn, shown, timer, persisted>>,
         IsControl(control'), control'.project = control.project,
         control'.accepted = control.accepted
  PROVE  WorkspaceInvariant'
<1> USE DEF WorkspaceInvariant
<1>1. DrawnDraft' = DrawnDraft BY DEF DrawnDraft, Draft
<1>2. /\ 1 \in DOMAIN saves /\ IsDraft(saves[1]) /\ drawn.project # NoOne BY HeadIs
<1>3. /\ saves' = Tail(saves) /\ IsMap(waits') /\ DOMAIN waits' = DOMAIN Waits
      /\ \A v \in DOMAIN Waits : waits'[v] = EndedOf(waits[v], ok)
  BY FinishedEnds DEF WaitsAreSound
<1>4. IsList(saves) /\ IsWindow(window) BY DEF RestIsSound, Shaped, SavesShaped
<1>5. \A i \in 1 .. Len(saves) - 1 : saves'[i] = saves[i + 1] /\ i + 1 \in DOMAIN saves
  BY <1>3, <1>4, ListIs, TailIs
<1>6. DOMAIN saves' = 1 .. Len(saves) - 1 BY <1>3, <1>4, TailIs
<1>7. \A d : Saved(d) <=> Saved(d)' BY DEF Saved
<1>8. ASSUME drawn.project # NoOne => Saved(DrawnDraft), \A i \in DOMAIN saves : Saved(saves[i])
      PROVE  Still'
  <2>1. window.project = drawn.project /\ window.project # NoOne =>
          Saved(Draft(window.project, window.view))
    BY <1>8 DEF RestIsSound, DraftsAreSafe, DrawnDraft, Draft
  <2>2. \A i \in DOMAIN saves' : Saved(saves[i])' BY <1>5, <1>6, <1>8 DEF Saved
  <2> QED BY <1>1, <1>8, <2>1, <2>2 DEF Still, Saved
<1>9. Still => Still' BY <1>8 DEF Still
<1>10. ok /\ (\A i \in DOMAIN saves : saves[i] = DrawnDraft) => Still' BY <1>2, <1>8
<1>11. HeadEnds(ok) BY <1>3, <1>9, <1>10 DEF HeadEnds
<1>12. /\ WaitsAreSound' /\ SavesShaped'
       /\ \A i \in DOMAIN saves' : i + 1 \in DOMAIN saves /\ saves'[i] = saves[i + 1]
       /\ \A v \in DOMAIN Waits : /\ waits'[v].current = waits[v].current
                                  /\ Live(v)' <=> Live(v)
                                  /\ waits'[v].before = waits[v].before
                                  /\ waits'[v].head = waits[v].head
  BY <1>11, HeadEndsIsSound
<1>13. /\ \A i \in DOMAIN saves' : Safe(saves[i])'
       /\ ShownIsSound' /\ Safe(DrawnDraft)'
  <2>1. \A d : Safe(d) => \/ d.project = control.project
                          \/ d.project \in DOMAIN persisted' /\ persisted'[d.project] = d.view
    BY DEF Safe, Saved
  <2> QED BY <1>2, <1>12, <2>1, QueueStaysSound
<1>14. Shaped'
  BY <1>1, <1>12 DEF RestIsSound, Shaped, StoreShaped, ShownShaped, DrawnShaped, FlightShaped, IsWindow
<1>15. HistoriesAreSound' /\ StoredAsShown' BY DEF RestIsSound, HistoriesAreSound, StoredAsShown
<1>16. AcceptedIsSound'
  BY DEF RestIsSound, AcceptedIsSound, IsStored, IsLatestOf, HasCommitted, Saved, Draft
<1>17. DraftsAreSafe' BY <1>2, <1>13 DEF RestIsSound, DraftsAreSafe, Saved
<1>18. FlightIsSound' BY DEF FlightIsSound
<1>19. HeadsAreSound' BY <1>12 DEF HeadsAreSound, IsHead, IsStored
<1> QED BY <1>12, <1>13, <1>14, <1>15, <1>16, <1>17, <1>18, <1>19 DEF RestIsSound

LEMMA SendIsSound ==
  ASSUME WorkspaceInvariant, saves # <<>>, flight = <<>>, ~Saved(saves[1]),
         NEW actions \in EditorMutationActions(control.accepted, saves[1].view), NEW f,
         f = [project |-> control.project, base |-> control.accepted.revision,
              actions |-> actions, draft |-> saves[1], latest |-> TRUE,
              current |-> TRUE, reply |-> "none", document |-> control.accepted],
         flight' = <<f>>,
         UNCHANGED <<scenario, store, window, drawn, shown, timer, persisted, saves, waits>>,
         IsControl(control'), control'.project = control.project,
         control'.accepted = control.accepted
  PROVE  WorkspaceInvariant'
<1> USE DEF WorkspaceInvariant
<1>1. DrawnDraft' = DrawnDraft BY DEF DrawnDraft, Draft
<1>2. /\ 1 \in DOMAIN saves /\ IsDraft(saves[1]) /\ drawn.project # NoOne /\ Safe(saves[1]) BY HeadIs
<1>3. saves[1].project = control.project BY <1>2 DEF Safe
<1>4. /\ f.project = control.project /\ f.base = control.accepted.revision
      /\ f.actions = actions /\ f.draft = saves[1] /\ f.latest = TRUE /\ f.current = TRUE
      /\ f.reply = "none" /\ f.document = control.accepted /\ IsFlight(f)
  BY DEF IsFlight
<1>5. flight'[1] = f /\ flight' # <<>> OBVIOUS
<1>6. Shaped'
  <2>1. FlightShaped' BY <1>4 DEF FlightShaped
  <2> QED BY <1>1, <2>1
          DEF RestIsSound, Shaped, StoreShaped, ShownShaped, DrawnShaped, SavesShaped, IsWindow
<1>7. HistoriesAreSound' /\ StoredAsShown' BY DEF RestIsSound, HistoriesAreSound, StoredAsShown
<1>8. ~HasCommitted /\ ~HasCommitted' BY <1>4, <1>5 DEF HasCommitted
<1>9. AcceptedIsSound'
  BY <1>8 DEF RestIsSound, AcceptedIsSound, IsStored, IsLatestOf, Saved, Draft
<1>10. ShownIsSound' BY DEF RestIsSound, ShownIsSound
<1>11. DraftsAreSafe' BY <1>1, <1>2 DEF RestIsSound, DraftsAreSafe, Safe, Saved
<1>12. FlightIsSound'
  <2> DEFINE G == flight[1]
  <2>1. G' = f BY <1>5
  <2> QED BY <1>3, <1>4, <2>1 DEF FlightIsSound
<1>13. ~Still BY <1>2 DEF Still
<1>14. ASSUME NEW v \in DOMAIN Waits PROVE WaitIsSound(v)'
  <2>1. WaitIsSound(v) /\ waits'[v] = waits[v] BY DEF WaitsAreSound
  <2>2. /\ waits[v].pc # "flushing" /\ ~Hydrates(v)
        /\ ~(waits[v].pc = "saving" /\ waits[v].left = 0 /\ ~waits[v].moved /\ waits[v].ok)
    BY <1>13, <2>1 DEF WaitIsSound, SavingIsSound, BarrierIsSound
  <2>3. SavingIsSound(v)' BY <1>1, <1>4, <1>5, <2>1, <2>2 DEF WaitIsSound, SavingIsSound
  <2>4. BarrierIsSound(v)' BY <2>1, <2>2 DEF WaitIsSound, BarrierIsSound, Hydrates
  <2>5. OpeningIsSound(v)' BY <2>1, <2>2 DEF WaitIsSound, OpeningIsSound, Hydrates, Live
  <2> QED BY <2>3, <2>4, <2>5 DEF WaitIsSound
<1>15. WaitsAreSound' BY <1>14 DEF WaitsAreSound, WaitsShaped, OneIsCurrent
<1>16. HeadsAreSound' BY DEF HeadsAreSound, IsHead, IsStored, Live
<1> QED BY <1>6, <1>7, <1>9, <1>10, <1>11, <1>12, <1>15, <1>16 DEF RestIsSound

LEMMA BeginSaveIsSound ==
  ASSUME WorkspaceInvariant, BeginSave
  PROVE  WorkspaceInvariant'
<1> USE DEF WorkspaceInvariant
<1> DEFINE draft == Head(saves)
           Changes == IF control.project = NoOne THEN {}
                      ELSE EditorMutationActions(control.accepted, draft.view)
           Sending(actions) ==
             [project |-> control.project, base |-> control.accepted.revision,
              actions |-> actions, draft |-> draft, latest |-> TRUE,
              current |-> TRUE, reply |-> "none", document |-> control.accepted]
           ok == Saved(draft) \/ Changes # {}
           noted == [control EXCEPT !.noted = <<draft>>]
<1>1. /\ saves # <<>> /\ flight = <<>>
      /\ UNCHANGED <<scenario, store, window, drawn, shown, timer>>
      /\ \/ /\ Saved(draft) \/ Changes \in {{}, {<<>>}}
            /\ Finished(Tail(saves), ok, waits) /\ UNCHANGED flight
            /\ control' = IF Saved(draft) THEN control ELSE noted
            /\ persisted' = IF Saved(draft) \/ Changes = {} THEN persisted
                            ELSE Put(persisted, draft.project, draft.view)
         \/ /\ ~Saved(draft) /\ \E actions \in Changes : flight' = <<Sending(actions)>>
            /\ control' = noted /\ UNCHANGED <<persisted, saves, waits>>
  BY DEF BeginSave
<1>2. /\ draft = saves[1] /\ IsDraft(draft)
      /\ Safe(draft) /\ control.project # NoOne /\ Showable(control.accepted)
      /\ Saved(Draft(control.project, View(control.accepted)))
  BY <1>1, HeadIs
<1>3. IsControl(control) BY DEF RestIsSound, Shaped
<1>4. control' = noted \/ control' = control BY <1>1
<1>5. /\ IsControl(control') /\ control'.project = control.project
      /\ control'.accepted = control.accepted
  <2>1. CASE control' = control BY <1>3, <2>1
  <2>2. CASE control' = noted
    <3> HIDE DEF draft
    <3> QED BY <1>3, <2>2 DEF IsControl
  <2> QED BY <1>4, <2>1, <2>2
<1>6. Changes = {<<>>} => Saved(draft)
  <2> SUFFICES ASSUME Changes = {<<>>}, ~Saved(draft) PROVE FALSE OBVIOUS
  <2>1. <<>> \in EditorMutationActions(control.accepted, draft.view) BY <1>2
  <2> DEFINE base == control.accepted
             v == draft.view
  <2>2. Showable(base) /\ WellFormed(v) BY <1>2 DEF IsDraft
  <2>3. <<>> \in EditorMutationActions(base, v) BY <2>1
  <2> HIDE DEF base, v
  <2>4. CanonicalToEditor(base) = v BY <2>2, <2>3, SameAsDrawn
  <2>5. View(control.accepted) = draft.view BY <2>4 DEF View, base, v
  <2>6. draft.project = control.project BY <1>2 DEF Safe
  <2> QED BY <1>2, <2>5, <2>6 DEF Saved, Draft
<1>7. CASE /\ Saved(draft) \/ Changes \in {{}, {<<>>}}
           /\ Finished(Tail(saves), ok, waits) /\ UNCHANGED flight
           /\ persisted' = IF Saved(draft) \/ Changes = {} THEN persisted
                           ELSE Put(persisted, draft.project, draft.view)
  <2>1. ok \in BOOLEAN /\ (ok => Saved(draft)) /\ persisted' = persisted
    <3> HIDE DEF Changes, draft
    <3> QED BY <1>6, <1>7 DEF Saved
  <2> HIDE DEF ok
  <2> QED BY <1>1, <1>2, <1>5, <1>7, <2>1, NothingToSendIsSound
<1>8. CASE /\ ~Saved(draft) /\ \E actions \in Changes : flight' = <<Sending(actions)>>
           /\ UNCHANGED <<persisted, saves, waits>>
  <2>1. PICK actions \in Changes : flight' = <<Sending(actions)>> BY <1>8
  <2>2. actions \in EditorMutationActions(control.accepted, saves[1].view) BY <1>2, <2>1
  <2>3. PICK f : f = [project |-> control.project, base |-> control.accepted.revision,
                      actions |-> actions, draft |-> saves[1], latest |-> TRUE,
                      current |-> TRUE, reply |-> "none", document |-> control.accepted]
    OBVIOUS
  <2>4. flight' = <<f>> BY <1>2, <2>1, <2>3
  <2> QED BY <1>1, <1>2, <1>5, <1>8, <2>2, <2>3, <2>4, SendIsSound
<1> QED BY <1>1, <1>7, <1>8

LEMMA HeadsGrow ==
  ASSUME RestIsSound, HeadsAreSound, UNCHANGED <<store, drawn>>,
         control'.project = control.project, window'.project = window.project,
         control'.accepted.revision \in Nat,
         \/ control'.accepted = control.accepted
         \/ /\ control'.accepted.revision > control.accepted.revision
            /\ control.accepted.revision \in Nat,
         \/ window'.head = window.head
         \/ /\ window'.head = <<control'.accepted>> /\ window.project = control.project
            /\ IsStored(control.project, control'.accepted),
         \A v \in DOMAIN Waits : /\ waits'[v].current = waits[v].current
                                 /\ Live(v)' <=> Live(v)
                                 /\ waits'[v].before = waits[v].before
                                 /\ waits'[v].head = waits[v].head
  PROVE  HeadsAreSound'
<1>1. ASSUME NEW p, NEW head, IsHead(p, head)
      PROVE  \/ head = <<>>
             \/ /\ p = control'.project /\ p \in ProjectIds
                /\ \E i \in DOMAIN store'[p] : store'[p][i].document = head[1]
                /\ head[1].revision <= control'.accepted.revision
  <2> SUFFICES ASSUME head # <<>>
               PROVE  /\ p = control'.project /\ p \in ProjectIds
                      /\ \E i \in DOMAIN store'[p] : store'[p][i].document = head[1]
                      /\ head[1].revision <= control'.accepted.revision
    OBVIOUS
  <2>1. /\ p = control.project /\ IsStored(p, head[1])
        /\ head[1].revision <= control.accepted.revision
    BY <1>1 DEF IsHead
  <2>2. head[1].revision \in Nat
    BY <2>1 DEF RestIsSound, HistoriesAreSound, Revisions, Showable, IsStored
  <2>3. head[1].revision <= control'.accepted.revision
    <3> DEFINE m == head[1].revision
               n == control.accepted.revision
               k == control'.accepted.revision
    <3>1. m \in Nat /\ k \in Nat /\ m <= n /\ (k = n \/ (k > n /\ n \in Nat)) BY <2>1, <2>2
    <3> HIDE DEF m, n, k
    <3>2. m <= k BY <3>1
    <3> QED BY <3>2 DEF m, k
  <2> QED BY <2>1, <2>3 DEF IsStored
<1>2. IsHead(window.project, window.head)'
  <2>1. CASE window'.head = window.head
    <3>1. IsHead(window.project, window.head) BY DEF HeadsAreSound
    <3> QED BY <1>1, <2>1, <3>1 DEF IsHead, IsStored
  <2>2. CASE /\ window'.head = <<control'.accepted>> /\ window.project = control.project
             /\ IsStored(control.project, control'.accepted)
    <3>1. window'.head[1] = control'.accepted BY <2>2
    <3>2. control'.accepted.revision <= control'.accepted.revision OBVIOUS
    <3> QED BY <2>2, <3>1, <3>2 DEF IsHead, IsStored
  <2> QED BY <2>1, <2>2
<1>3. (drawn.project = window.project => IsHead(drawn.project, drawn.head))'
  <2> SUFFICES ASSUME drawn.project = window.project PROVE IsHead(drawn.project, drawn.head)'
    OBVIOUS
  <2>1. IsHead(drawn.project, drawn.head) BY DEF HeadsAreSound
  <2> QED BY <1>1, <2>1 DEF IsHead, IsStored
<1>4. ASSUME NEW v \in DOMAIN Waits, (waits[v].current /\ Live(v))'
      PROVE  IsHead(waits[v].before, waits[v].head)'
  <2>1. IsHead(waits[v].before, waits[v].head) BY <1>4 DEF HeadsAreSound
  <2>2. waits'[v].before = waits[v].before /\ waits'[v].head = waits[v].head OBVIOUS
  <2> QED BY <1>1, <2>1, <2>2 DEF IsHead, IsStored
<1> QED BY <1>2, <1>3, <1>4 DEF HeadsAreSound

LEMMA AnswerMutationIsSound ==
  ASSUME WorkspaceInvariant, AnswerMutation
  PROVE  WorkspaceInvariant'
<1> USE DEF WorkspaceInvariant
<1> DEFINE f == flight[1]
           ok == f.reply = "ok"
           d == f.document
           q == control.project
           published == IF f.latest THEN Put(persisted, f.project, View(d)) ELSE persisted
<1>1. /\ flight # <<>> /\ flight' = <<>>
      /\ control' = IF ~f.current THEN control
                    ELSE IF ok THEN [control EXCEPT !.accepted = d, !.failure = FALSE]
                    ELSE [control EXCEPT !.failure = TRUE]
      /\ window' = IF ok /\ f.latest THEN Published(window, d, f.project) ELSE window
      /\ persisted' = IF ok THEN Put(published, f.draft.project, f.draft.view) ELSE persisted
      /\ Finished(Tail(saves), ok, waits)
      /\ UNCHANGED <<scenario, store, drawn, shown, timer>>
  BY DEF AnswerMutation
<1>2. /\ f.project = q /\ q \in ProjectIds /\ q # NoOne /\ drawn.project # NoOne
      /\ f.base = control.accepted.revision
      /\ saves # <<>> /\ IsDraft(saves[1]) /\ f.draft = saves[1] /\ 1 \in DOMAIN saves
      /\ f.current /\ f.project = f.draft.project
      /\ Showable(control.accepted) /\ IsStored(q, control.accepted)
  BY <1>1, FlightIs
<1>3. /\ IsWindow(window) /\ IsControl(control) /\ IsMap(persisted) /\ IsList(saves)
      /\ HistoriesAreSound /\ window.project = q
  BY DEF RestIsSound, Shaped, SavesShaped, DraftsAreSafe
<1>4. DrawnDraft' = DrawnDraft BY <1>1 DEF DrawnDraft, Draft
<1>5. ok => /\ View(d) = f.draft.view /\ IsLatestOf(q, d) /\ IsStored(q, d) /\ Showable(d)
            /\ d.revision > control.accepted.revision
  <2> SUFFICES ASSUME ok
               PROVE  /\ View(d) = f.draft.view /\ IsLatestOf(q, d) /\ IsStored(q, d) /\ Showable(d)
                      /\ d.revision > control.accepted.revision
    OBVIOUS
  <2>1. View(d) = f.draft.view /\ d.revision > control.accepted.revision
    BY <1>1, <1>2 DEF RestIsSound, FlightIsSound
  <2>2. IsLatestOf(q, d) BY <1>1, <1>2 DEF RestIsSound, AcceptedIsSound, HasCommitted
  <2>3. IsStored(q, d) BY <2>2 DEF IsLatestOf, IsStored
  <2>4. Showable(d) BY <1>2, <1>3, <2>3 DEF HistoriesAreSound, Revisions, IsStored
  <2> QED BY <2>1, <2>2, <2>3, <2>4
<1>6. /\ IsControl(control') /\ control'.project = q
      /\ control'.accepted = IF ok THEN d ELSE control.accepted
  <2> HIDE DEF f, d, ok
  <2>1. control' = IF ok THEN [control EXCEPT !.accepted = d, !.failure = FALSE]
                   ELSE [control EXCEPT !.failure = TRUE]
    BY <1>1, <1>2
  <2> QED BY <1>3, <2>1 DEF IsControl
<1>7. /\ IsMap(persisted')
      /\ ok => q \in DOMAIN persisted' /\ persisted'[q] = f.draft.view
      /\ ~ok => persisted' = persisted
      /\ \A p : p # q /\ p \in DOMAIN persisted => p \in DOMAIN persisted' /\ persisted'[p] = persisted[p]
  <2> DEFINE v == f.draft.view
  <2>1. persisted' = IF ok THEN Put(IF f.latest THEN Put(persisted, q, v) ELSE persisted, q, v)
                     ELSE persisted
    BY <1>1, <1>2, <1>5
  <2> HIDE DEF q, v, ok
  <2>2. \A m : LET n == Put(m, q, v) IN
          /\ n = [k \in DOMAIN m \cup {q} |-> IF k = q THEN v ELSE m[k]]
    BY DEF Put
  <2>3. \A m : /\ IsMap(Put(m, q, v)) /\ q \in DOMAIN Put(m, q, v) /\ Put(m, q, v)[q] = v
               /\ \A p : p # q /\ p \in DOMAIN m => p \in DOMAIN Put(m, q, v) /\ Put(m, q, v)[p] = m[p]
    BY DEF Put, IsMap
  <2>4. CASE ~ok BY <1>3, <2>1, <2>4
  <2>5. CASE ok
    <3>1. PICK m : /\ persisted' = Put(m, q, v)
                   /\ m = persisted \/ m = Put(persisted, q, v)
      BY <2>1, <2>5
    <3>2. \A p : p # q /\ p \in DOMAIN persisted => p \in DOMAIN m /\ m[p] = persisted[p]
      BY <2>3, <3>1
    <3>3. /\ IsMap(Put(m, q, v)) /\ q \in DOMAIN Put(m, q, v) /\ Put(m, q, v)[q] = v
          /\ \A p : p # q /\ p \in DOMAIN m => p \in DOMAIN Put(m, q, v) /\ Put(m, q, v)[p] = m[p]
      BY <2>3
    <3> QED BY <2>5, <3>1, <3>2, <3>3 DEF v
  <2> QED BY <2>4, <2>5
<1>8. /\ IsWindow(window') /\ window'.project = window.project
      /\ window'.view = IF ok /\ f.latest THEN f.draft.view ELSE window.view
      /\ window'.head = window.head \/ (ok /\ window'.head = <<d>>)
  <2> DEFINE v == View(d)
             phase == IF window.of = f.project THEN "ready" ELSE window.phase
             head == IF window.of = f.project THEN <<d>> ELSE window.head
             new == [window EXCEPT !.view = v, !.phase = phase, !.head = head]
  <2>1. window' = IF ok /\ f.latest THEN new ELSE window BY <1>1 DEF Published
  <2>2. ok => WellFormed(v) /\ v = f.draft.view BY <1>2, <1>5 DEF IsDraft
  <2>3. head = window.head \/ head = <<d>> OBVIOUS
  <2>4. CASE ~(ok /\ f.latest) BY <1>3, <2>1, <2>4
  <2>5. CASE ok /\ f.latest
    <3>1. WellFormed(v) /\ v = f.draft.view BY <2>2, <2>5
    <3>2. window' = new BY <2>1, <2>5
    <3> HIDE DEF v, phase, head
    <3>3. /\ IsWindow(window') /\ window'.project = window.project
          /\ window'.view = v /\ window'.head = head
      BY <1>3, <3>1, <3>2 DEF IsWindow
    <3> QED BY <2>3, <2>5, <3>1, <3>3
  <2> QED BY <2>4, <2>5
<1>9. ok \in BOOLEAN OBVIOUS
<1>10. /\ saves' = Tail(saves) /\ IsMap(waits') /\ DOMAIN waits' = DOMAIN Waits
       /\ \A v \in DOMAIN Waits : waits'[v] = EndedOf(waits[v], ok)
  <2> HIDE DEF ok
  <2> QED BY <1>1, <1>9, FinishedEnds DEF WaitsAreSound
<1> HIDE DEF f, ok, d, q, published
<1>11. ok /\ (\A i \in DOMAIN saves : saves[i] = DrawnDraft) /\ f.latest => Still'
  <2> SUFFICES ASSUME ok, \A i \in DOMAIN saves : saves[i] = DrawnDraft, f.latest PROVE Still'
    OBVIOUS
  <2>1. f.draft = DrawnDraft BY <1>2
  <2>2. Saved(DrawnDraft)'
    <3>1. drawn.project = q /\ drawn.view = f.draft.view BY <1>2, <2>1 DEF DrawnDraft, Draft
    <3>2. DrawnDraft.project = drawn.project /\ DrawnDraft.view = drawn.view
      BY DEF DrawnDraft, Draft
    <3> QED BY <1>4, <1>7, <3>1, <3>2 DEF Saved
  <2>3. \A i \in DOMAIN saves' : saves'[i] = DrawnDraft
    <3>1. /\ DOMAIN saves' = 1 .. Len(saves) - 1
          /\ \A i \in 1 .. Len(saves) - 1 : saves'[i] = saves[i + 1] /\ i + 1 \in 1 .. Len(saves)
          /\ DOMAIN saves = 1 .. Len(saves)
      BY <1>2, <1>3, <1>10, TailIs, ListIs
    <3> QED BY <3>1
  <2>4. \A i \in DOMAIN saves' : Saved(saves[i])' BY <1>4, <2>2, <2>3 DEF Saved
  <2>5. Saved(Draft(window.project, window.view))'
    BY <1>3, <1>7, <1>8 DEF Saved, Draft
  <2> QED BY <1>1, <2>2, <2>4, <2>5 DEF Still
<1>12. HeadEnds(ok)
  <2>1. ~Still BY <1>1 DEF Still
  <2>2. flight[1] = f BY DEF f
  <2> QED BY <1>1, <1>2, <1>3, <1>6, <1>8, <1>10, <1>11, <2>1, <2>2 DEF HeadEnds, q
<1>13. /\ WaitsAreSound' /\ SavesShaped'
       /\ \A i \in DOMAIN saves' : i + 1 \in DOMAIN saves /\ saves'[i] = saves[i + 1]
       /\ \A v \in DOMAIN Waits : /\ waits'[v].current = waits[v].current
                                  /\ Live(v)' <=> Live(v)
                                  /\ waits'[v].before = waits[v].before
                                  /\ waits'[v].head = waits[v].head
  BY <1>9, <1>12, HeadEndsIsSound
<1>14. /\ \A i \in DOMAIN saves' : Safe(saves[i])'
       /\ ShownIsSound' /\ Safe(DrawnDraft)'
  <2>1. \A e : Safe(e) => \/ e.project = control.project
                          \/ e.project \in DOMAIN persisted' /\ persisted'[e.project] = e.view
    BY <1>7 DEF Safe, Saved, q
  <2> QED BY <1>1, <1>2, <1>6, <1>13, <2>1, QueueStaysSound DEF q
<1>15. Shaped'
  BY <1>1, <1>4, <1>6, <1>7, <1>8, <1>13
     DEF RestIsSound, Shaped, StoreShaped, ShownShaped, DrawnShaped, FlightShaped
<1>16. HistoriesAreSound' /\ StoredAsShown' BY <1>1 DEF RestIsSound, HistoriesAreSound, StoredAsShown
<1>17. AcceptedIsSound'
  <2>1. ~HasCommitted' BY <1>1 DEF HasCommitted
  <2>2. IsStored(q, control'.accepted) /\ IsLatestOf(q, control'.accepted)
    <3>1. CASE ok BY <1>5, <1>6, <3>1
    <3>2. CASE ~ok
      <4>1. ~HasCommitted BY <3>2 DEF HasCommitted, f, ok
      <4> QED BY <1>2, <1>6, <3>2, <4>1 DEF RestIsSound, AcceptedIsSound, q
    <3> QED BY <3>1, <3>2
  <2>3. q \in DOMAIN persisted' /\ persisted'[q] = View(control'.accepted)
    <3>1. CASE ok BY <1>5, <1>6, <1>7, <3>1
    <3>2. CASE ~ok
      BY <1>2, <1>6, <1>7, <3>2 DEF RestIsSound, AcceptedIsSound, Saved, Draft, q
    <3> QED BY <3>1, <3>2
  <2>4. control'.project = q BY <1>6
  <2> QED BY <1>1, <2>1, <2>2, <2>3, <2>4 DEF AcceptedIsSound, IsStored, IsLatestOf, Saved, Draft
<1>18. DraftsAreSafe'
  <2>1. window'.project = drawn.project =>
          window'.view = drawn.view \/ Saved(Draft(window.project, window.view))'
    <3>1. CASE ok /\ f.latest BY <1>3, <1>7, <1>8, <3>1 DEF Saved, Draft
    <3>2. CASE ok /\ ~f.latest BY <1>1, <1>8, <3>2 DEF RestIsSound, FlightIsSound, f
    <3>3. CASE ~ok
      BY <1>2, <1>3, <1>7, <1>8, <3>3 DEF RestIsSound, DraftsAreSafe, Saved, Draft
    <3> QED BY <3>1, <3>2, <3>3
  <2> QED BY <1>1, <1>2, <1>3, <1>6, <1>8, <1>14, <2>1 DEF DraftsAreSafe, Saved
<1>19. FlightIsSound' BY <1>1 DEF FlightIsSound
<1>20. HeadsAreSound'
  <2>1. /\ \/ control'.accepted = control.accepted
           \/ control'.accepted.revision > control.accepted.revision
        /\ control.accepted.revision \in Nat
        /\ control'.accepted.revision \in Nat
    BY <1>2, <1>5, <1>6 DEF Showable
  <2>2. \/ window'.head = window.head
        \/ /\ window'.head = <<control'.accepted>> /\ window.project = control.project
           /\ IsStored(control.project, control'.accepted)
    BY <1>3, <1>5, <1>6, <1>8 DEF q
  <2> QED BY <1>1, <1>6, <1>8, <1>13, <2>1, <2>2, HeadsGrow DEF q
<1> QED BY <1>13, <1>14, <1>15, <1>16, <1>17, <1>18, <1>19, <1>20 DEF RestIsSound

----------------------------------------------------------------------------
(* Another Project.                                                        *)

LEMMA ActivateIsSound ==
  ASSUME WorkspaceInvariant, NEW w \in DOMAIN Waits, Activate(w)
  PROVE  WorkspaceInvariant'
<1> USE DEF WorkspaceInvariant
<1> DEFINE x == waits[w]
           p == x.target
           d == x.document
           view == IF x.keep THEN window.view ELSE View(d)
<1>1. /\ Settled /\ x.pc = "loaded" /\ Over(w, "over")
      /\ flight = <<>> => flight' = <<>>
      /\ control' = [project |-> p, accepted |-> d, noted |-> <<>>, failure |-> FALSE]
      /\ persisted' = Put(persisted, p, View(d))
      /\ window' = [phase |-> "ready", of |-> p, head |-> <<d>>, project |-> p,
                    view |-> view, unassigned |-> FALSE]
      /\ UNCHANGED <<scenario, store, saves, drawn, shown, timer>>
  BY DEF Activate
<1>2. WaitsShaped /\ OneIsCurrent /\ WaitIsSound(w) /\ IsWait(x) BY DEF WaitsAreSound, WaitsShaped
<1>3. /\ IsWindow(window) /\ HistoriesAreSound /\ IsList(saves) /\ DrawnShaped
      /\ DrawnDraft' = DrawnDraft
  BY <1>1 DEF RestIsSound, Shaped, SavesShaped, DrawnDraft, Draft
<1>4. Hydrates(w) /\ Live(w) BY <1>1, <1>2 DEF WaitIsSound, OpeningIsSound, Hydrates, Live
<1>5. /\ Still /\ p \in ProjectIds /\ x.current /\ IsLatestOf(p, d)
      /\ drawn.project = window.project /\ x.before = window.project
      /\ x.keep => x.before = NoOne
      /\ p = control.project => control.accepted.revision <= d.revision
  BY <1>1, <1>2, <1>4 DEF WaitIsSound, BarrierIsSound, OpeningIsSound
<1>6. flight = <<>> /\ flight' = <<>> /\ saves = <<>> /\ saves' = <<>>
  BY <1>1, <1>5 DEF Still, Settled
<1>7. IsStored(p, d) /\ Showable(d) /\ WellFormed(View(d)) /\ d.revision \in Nat
  <2>1. IsStored(p, d) BY <1>5 DEF IsLatestOf, IsStored
  <2>2. Showable(d) BY <1>3, <1>5, <2>1 DEF HistoriesAreSound, Revisions, IsStored
  <2> QED BY <2>1, <2>2 DEF Showable, View
<1>8. /\ waits'[w].pc = "over" /\ waits'[w].again = x.again
      /\ waits'[w].started = x.started /\ waits'[w].current = x.current
      /\ \A v \in DOMAIN Waits : v # w => waits'[v] = waits[v]
      /\ WaitsShaped'
  <2>1. /\ waits'[w] = PcOf(waits[w], "over")
        /\ \A v \in DOMAIN Waits : v # w => waits'[v] = waits[v]
        /\ WaitsShaped'
    BY <1>1, <1>2, OverIs DEF Pcs
  <2>2. "over" \in Pcs BY DEF Pcs
  <2> QED BY <1>2, <2>1, <2>2, PcWait
<1>9. p # NoOne /\ (x.keep => drawn.project # p) BY <1>5, NoOneIsNoProject
<1>10. WellFormed(view) /\ (drawn.project = p => view = View(d)) BY <1>3, <1>7, <1>9 DEF IsWindow
<1> HIDE DEF x, view
<1>11. /\ IsMap(persisted') /\ p \in DOMAIN persisted' /\ persisted'[p] = View(d)
       /\ \A q : q # p /\ q \in DOMAIN persisted => q \in DOMAIN persisted' /\ persisted'[q] = persisted[q]
  <2> HIDE DEF p, d
  <2> QED BY <1>1 DEF Put, IsMap
<1>12. /\ IsWindow(window') /\ window'.project = p /\ window'.view = view /\ window'.head = <<d>>
       /\ IsControl(control') /\ control'.project = p /\ control'.accepted = d
  <2> HIDE DEF p, d
  <2> QED BY <1>1, <1>5, <1>10 DEF IsWindow, IsControl
<1>13. Shaped'
  BY <1>1, <1>3, <1>6, <1>11, <1>12
     DEF RestIsSound, Shaped, StoreShaped, ShownShaped, DrawnShaped, SavesShaped, FlightShaped
<1>14. HistoriesAreSound' /\ StoredAsShown' BY <1>1 DEF RestIsSound, HistoriesAreSound, StoredAsShown
<1>15. AcceptedIsSound'
  <2>1. ~HasCommitted' BY <1>6 DEF HasCommitted
  <2> QED BY <1>1, <1>5, <1>7, <1>11, <1>12, <2>1
          DEF AcceptedIsSound, IsStored, IsLatestOf, Saved, Draft
<1>16. ShownIsSound' BY <1>1, <1>6 DEF RestIsSound, ShownIsSound
<1>17. DraftsAreSafe'
  <2>1. drawn.project # NoOne => Safe(DrawnDraft)'
    <3>1. drawn.project # NoOne => Saved(DrawnDraft) BY <1>5 DEF Still
    <3>2. DrawnDraft.project = drawn.project BY DEF DrawnDraft, Draft
    <3> QED BY <1>1, <1>3, <1>11, <1>12, <3>1, <3>2 DEF Safe, Saved
  <2>2. window'.project = drawn.project => Saved(Draft(window.project, window.view))'
    BY <1>10, <1>11, <1>12 DEF Saved, Draft
  <2>3. \A i \in DOMAIN saves' : Safe(saves[i])' BY <1>6, EmptyList
  <2> QED BY <1>1, <1>3, <1>6, <1>9, <1>12, <2>1, <2>2, <2>3 DEF RestIsSound, DraftsAreSafe, Saved
<1>18. FlightIsSound' BY <1>6 DEF FlightIsSound
<1>19. ASSUME NEW v \in DOMAIN Waits, v # w PROVE WaitIsSound(v)' /\ ~waits[v].current
  <2>1. WaitIsSound(v) /\ waits'[v] = waits[v] /\ IsWait(waits[v])
    BY <1>8, <1>19 DEF WaitsAreSound, WaitsShaped
  <2>2. ~waits[v].current BY <1>2, <1>5, <1>19 DEF OneIsCurrent, x
  <2>3. ~Hydrates(v) BY <2>1, <2>2 DEF WaitIsSound, OpeningIsSound
  <2>4. waits[v].pc # "flushing" BY <1>1, <2>1 DEF Settled, WaitIsSound, BarrierIsSound
  <2>5. waits[v].pc # "saving"
    <3>1. ASSUME waits[v].pc = "saving" PROVE FALSE
      <4>1. waits[v].left <= 0 BY <1>6, <2>1, <3>1, EmptyList DEF WaitIsSound, SavingIsSound
      <4>2. waits[v].left = 0 BY <2>1, <4>1 DEF IsWait
      <4> QED BY <1>1, <3>1, <4>2 DEF Settled
    <3> QED BY <3>1
  <2>6. SavingIsSound(v)' BY <2>1, <2>5 DEF SavingIsSound
  <2>7. BarrierIsSound(v)' BY <2>1, <2>3, <2>4, <2>5 DEF WaitIsSound, BarrierIsSound, Hydrates
  <2>8. OpeningIsSound(v)'
    BY <2>1, <2>2, <2>3, <2>4, <2>5 DEF WaitIsSound, OpeningIsSound, Hydrates, Live
  <2> QED BY <2>2, <2>6, <2>7, <2>8 DEF WaitIsSound
<1>20. WaitIsSound(w)'
  BY <1>2, <1>8 DEF WaitIsSound, SavingIsSound, BarrierIsSound, OpeningIsSound, Hydrates, Live, x
<1>21. OneIsCurrent' BY <1>2, <1>8 DEF OneIsCurrent, x
<1>22. WaitsAreSound' BY <1>8, <1>19, <1>20, <1>21 DEF WaitsAreSound
<1>23. HeadsAreSound'
  <2>1. IsHead(window.project, window.head)'
    <3>1. window'.head[1] = d BY <1>12
    <3> QED BY <1>1, <1>7, <1>12, <3>1 DEF IsHead, IsStored
  <2>2. (drawn.project = window.project => IsHead(drawn.project, drawn.head))'
    <3> SUFFICES ASSUME drawn.project = p PROVE IsHead(drawn.project, drawn.head)' BY <1>1, <1>12
    <3>1. IsHead(drawn.project, drawn.head) BY <1>5 DEF HeadsAreSound
    <3>2. CASE drawn.head = <<>> BY <1>1, <3>2 DEF IsHead
    <3>3. CASE drawn.head # <<>>
      <4>1. /\ p = control.project /\ IsStored(p, drawn.head[1])
            /\ drawn.head[1].revision <= control.accepted.revision
        BY <3>1, <3>3 DEF IsHead
      <4>2. control.accepted.revision <= d.revision BY <1>5, <4>1
      <4>3. IsStored(p, control.accepted) BY <1>9, <4>1 DEF RestIsSound, AcceptedIsSound
      <4>4. drawn.head[1].revision \in Nat /\ control.accepted.revision \in Nat
        BY <1>3, <1>5, <4>1, <4>3 DEF HistoriesAreSound, Revisions, Showable, IsStored
      <4> DEFINE m == drawn.head[1].revision
                 n == control.accepted.revision
                 k == d.revision
      <4>5. m \in Nat /\ n \in Nat /\ k \in Nat /\ m <= n /\ n <= k BY <1>7, <4>1, <4>2, <4>4
      <4> HIDE DEF m, n, k
      <4>6. m <= k BY <4>5
      <4>7. drawn.head[1].revision <= d.revision BY <4>6 DEF m, k
      <4> QED BY <1>1, <1>12, <4>1, <4>7 DEF IsHead, IsStored
    <3> QED BY <3>2, <3>3
  <2>3. ASSUME NEW v \in DOMAIN Waits, (waits[v].current /\ Live(v))' PROVE FALSE
    BY <1>8, <1>19, <2>3 DEF Live
  <2> QED BY <2>1, <2>2, <2>3 DEF HeadsAreSound
<1> QED BY <1>13, <1>14, <1>15, <1>16, <1>17, <1>18, <1>22, <1>23 DEF RestIsSound

----------------------------------------------------------------------------
(* Whatever the user does meanwhile: what the window stores it has shown.  *)

AcceptedIsStored == control.project # NoOne => IsStored(control.project, control.accepted)

\* What is sent makes the draft of the revision it was compared with.
Sends(f, queue, ctl, rows) ==
  /\ queue # <<>> /\ f.draft = queue[1] /\ f.project \in ProjectIds
  /\ f.current => f.project = ctl.project
  /\ \E i \in DOMAIN rows[f.project] :
       LET base == rows[f.project][i].document
       IN f.base = base.revision /\ f.actions \in EditorMutationActions(base, f.draft.view)
  /\ f.reply = "ok" => \E i \in DOMAIN rows[f.project] : rows[f.project][i].document = f.document
SentIsSound == flight # <<>> => Sends(flight[1], saves, control, store)
LoadsStored(w) ==
  /\ Live(w) => waits[w].target \in ProjectIds
  /\ waits[w].pc = "asking" \/ Hydrates(w) => Kind(w) = "open" /\ waits[w].started
  /\ Live(w) /\ waits[w].started /\ waits[w].pc # "asking" /\ ~waits[w].fresh =>
       store[waits[w].target] # <<>>
  /\ waits[w].pc = "loaded" => IsStored(waits[w].target, waits[w].document)
WindowInvariant ==
  /\ Shaped /\ WaitsShaped /\ HistoriesAreSound /\ ShownIsSound /\ StoredWasShown
  /\ NothingIsDrawn /\ AcceptedIsStored /\ SentIsSound
  /\ \A w \in DOMAIN Waits : LoadsStored(w)

\* Nothing that is stored is lost.
StoreKeeps ==
  /\ \A q \in ProjectIds : store[q] # <<>> => store'[q] # <<>>
  /\ \A q \in ProjectIds : \A i \in DOMAIN store[q] : \E j \in DOMAIN store'[q] :
       store'[q][j].document = store[q][i].document

LEMMA SendsStays ==
  ASSUME NEW f, NEW queue, NEW ctl, NEW rows, Sends(f, queue, ctl, rows),
         NEW g, NEW queue2, NEW ctl2, NEW rows2,
         g.project = f.project, g.base = f.base, g.actions = f.actions, g.draft = f.draft,
         queue2 # <<>>, queue2[1] = queue[1],
         g.current => f.current /\ ctl2.project = ctl.project,
         \A i \in DOMAIN rows[f.project] : \E j \in DOMAIN rows2[f.project] :
           rows2[f.project][j].document = rows[f.project][i].document,
         g.reply = "ok" =>
           \/ f.reply = "ok" /\ g.document = f.document
           \/ \E j \in DOMAIN rows2[f.project] : rows2[f.project][j].document = g.document
  PROVE  Sends(g, queue2, ctl2, rows2)
<1>1. PICK i \in DOMAIN rows[f.project] :
        /\ f.base = rows[f.project][i].document.revision
        /\ f.actions \in EditorMutationActions(rows[f.project][i].document, f.draft.view)
  BY DEF Sends
<1>2. PICK j \in DOMAIN rows2[f.project] :
        rows2[f.project][j].document = rows[f.project][i].document
  OBVIOUS
<1>3. \E k \in DOMAIN rows2[g.project] :
        /\ g.base = rows2[g.project][k].document.revision
        /\ g.actions \in EditorMutationActions(rows2[g.project][k].document, g.draft.view)
  BY <1>1, <1>2
<1>4. g.reply = "ok" => \E k \in DOMAIN rows2[g.project] : rows2[g.project][k].document = g.document
  BY DEF Sends
<1>5. /\ queue2 # <<>> /\ g.draft = queue2[1] /\ g.project \in ProjectIds
      /\ g.current => g.project = ctl2.project
  BY DEF Sends
<1> QED BY <1>3, <1>4, <1>5 DEF Sends

LEMMA SameStoreKeeps ==
  ASSUME UNCHANGED store
  PROVE  StoreKeeps
BY DEF StoreKeeps

LEMMA AppendsKeeps ==
  ASSUME StoreShaped, NEW p \in ProjectIds, NEW d, NEW by, Appends(p, d, by)
  PROVE  StoreKeeps /\ IsStored(p, d)'
<1>1. IsStored(p, d)' BY IsNowLatest
<1>2. /\ \A q \in ProjectIds : q # p => store'[q] = store[q]
      /\ Holds(p, store'[p], d, by)
  BY AppendsIs
<1>3. DOMAIN store[p] \subseteq DOMAIN store'[p] /\ \A i \in DOMAIN store[p] : store'[p][i] = store[p][i]
  BY <1>2 DEF Holds
<1>4. store'[p] # <<>> BY <1>1, EmptyList DEF IsStored
<1> QED BY <1>1, <1>2, <1>3, <1>4 DEF StoreKeeps

SameOpening(v) ==
  /\ waits'[v].pc = waits[v].pc /\ waits'[v].target = waits[v].target
  /\ waits'[v].started = waits[v].started /\ waits'[v].fresh = waits[v].fresh
  /\ waits'[v].document = waits[v].document

LEMMA OpeningKeeps ==
  ASSUME NEW v, LoadsStored(v), SameOpening(v), StoreKeeps
  PROVE  LoadsStored(v)'
<1>1. /\ waits'[v].pc = waits[v].pc /\ waits'[v].target = waits[v].target
      /\ waits'[v].started = waits[v].started /\ waits'[v].fresh = waits[v].fresh
      /\ waits'[v].document = waits[v].document
  BY DEF SameOpening
<1>2. (Live(v)' <=> Live(v)) /\ (Hydrates(v)' <=> Hydrates(v)) BY <1>1 DEF Live, Hydrates
<1>3. Live(v) /\ waits[v].started /\ waits[v].pc # "asking" /\ ~waits[v].fresh =>
        store'[waits[v].target] # <<>>
  BY DEF LoadsStored, StoreKeeps
<1>4. waits[v].pc = "loaded" => IsStored(waits[v].target, waits[v].document)'
  <2> DEFINE q == waits[v].target
             x == waits[v].document
  <2>1. waits[v].pc = "loaded" => IsStored(q, x) BY DEF LoadsStored
  <2>2. q' = q /\ x' = x BY <1>1
  <2> HIDE DEF q, x
  <2>3. waits[v].pc = "loaded" => IsStored(q, x)' BY <2>1, <2>2 DEF StoreKeeps, IsStored
  <2> QED BY <2>3 DEF q, x
<1> QED BY <1>1, <1>2, <1>3, <1>4 DEF LoadsStored, IsStored

\* A step of a barrier, whatever it does to the waits that are opened.
LEMMA BarrierStepKeeps ==
  ASSUME WindowInvariant, BarrierStep, WaitsShaped',
         \A v \in DOMAIN Waits : SameOpening(v) \/ LoadsStored(v)'
  PROVE  WindowInvariant'
<1> USE DEF WindowInvariant
<1>1. Grown /\ IsList(saves)' BY Grows DEF BarrierStep, Shaped, SavesShaped
<1>2. /\ UNCHANGED <<scenario, store, persisted, flight, drawn, shown, control>>
      /\ timer' = timer \/ timer' = <<>>
      /\ IsWindow(window)' /\ window'.project = window.project
  BY DEF BarrierStep
<1>3. DrawnDraft' = DrawnDraft BY <1>2 DEF DrawnDraft, Draft
<1>4. DrawnShaped /\ ShownShaped BY DEF Shaped
<1>5. SavesShaped'
  <2>1. ASSUME NEW i \in DOMAIN saves' PROVE IsDraft(saves'[i])
    BY <1>1, <1>4, DrawnIsDraft DEF Grown, Shaped, SavesShaped
  <2> QED BY <1>1, <2>1 DEF SavesShaped
<1>6. Shaped'
  BY <1>2, <1>3, <1>5 DEF Shaped, StoreShaped, ShownShaped, DrawnShaped, FlightShaped
<1>7. HistoriesAreSound' /\ StoredWasShown' BY <1>2 DEF HistoriesAreSound, StoredWasShown
<1>8. ShownIsSound'
  <2>1. ASSUME NEW i \in DOMAIN saves' PROVE saves'[i].view \in ToSet(shown[saves'[i].project])
    BY <1>1, <1>4, DrawnIsDraft, DrawnIsShown DEF Grown, ShownIsSound
  <2> QED BY <1>2, <2>1 DEF ShownIsSound
<1>9. NothingIsDrawn' /\ AcceptedIsStored'
  BY <1>2 DEF NothingIsDrawn, AcceptedIsStored, IsStored
<1>10. SentIsSound'
  <2>1. saves # <<>> => saves' # <<>> /\ saves'[1] = saves[1]
    <3>1. IsList(saves) BY DEF Shaped, SavesShaped
    <3>2. Len(saves) \in Nat /\ DOMAIN saves = 1 .. Len(saves) /\ (saves # <<>> => Len(saves) # 0)
      BY <3>1, ListIs
    <3>3. saves # <<>> => 1 \in DOMAIN saves BY <3>2
    <3>4. saves' = <<>> => Len(saves') = 0 BY <1>1, ListIs
    <3> QED BY <1>1, <3>2, <3>3, <3>4 DEF Grown
  <2> QED BY <1>2, <2>1 DEF SentIsSound, Sends
<1>11. ASSUME NEW v \in DOMAIN Waits PROVE LoadsStored(v)'
  <2>1. StoreKeeps BY <1>2, SameStoreKeeps
  <2> QED BY <2>1, OpeningKeeps
<1> QED BY <1>6, <1>7, <1>8, <1>9, <1>10, <1>11

LEMMA NoWaitMoves ==
  ASSUME WindowInvariant, BarrierStep, UNCHANGED waits
  PROVE  WindowInvariant'
<1>1. WaitsShaped' BY DEF WindowInvariant, WaitsShaped
<1>2. \A v \in DOMAIN Waits : SameOpening(v) BY DEF SameOpening
<1> QED BY <1>1, <1>2, BarrierStepKeeps

\* SaveCurrent, for whatever barrier.
LEMMA SavesDrawn ==
  ASSUME IsList(saves), Len(flight) \in Nat, NEW w \in DOMAIN Waits, NEW x, IsWait(x),
         NEW ws, IsMap(ws), DOMAIN ws = DOMAIN Waits, SaveCurrent(w, x, ws)
  PROVE  /\ IsMap(waits') /\ DOMAIN waits' = DOMAIN Waits
         /\ \A v \in DOMAIN Waits : v # w => waits'[v] = ws[v]
         /\ IsWait(waits'[w]) /\ waits'[w].pc \in {"saving", "flushing"}
         /\ waits'[w].target = x.target /\ waits'[w].started = x.started
         /\ waits'[w].fresh = x.fresh
         /\ saves' = saves \/ QueuesDrawn
<1>1. Len(saves) \in Nat BY ListIs
<1>2. ASSUME NEW y, IsWait(y), y.pc \in {"saving", "flushing"}, Keeps(x, y),
             waits' = [ws EXCEPT ![w] = y]
      PROVE  /\ IsMap(waits') /\ DOMAIN waits' = DOMAIN Waits
             /\ \A v \in DOMAIN Waits : v # w => waits'[v] = ws[v]
             /\ IsWait(waits'[w]) /\ waits'[w].pc \in {"saving", "flushing"}
             /\ waits'[w].target = x.target /\ waits'[w].started = x.started
             /\ waits'[w].fresh = x.fresh
  <2>1. y.target = x.target /\ y.started = x.started /\ y.fresh = x.fresh BY <1>2, KeptFields
  <2> QED BY <1>2, <2>1 DEF IsMap
<1>3. CASE drawn.project = NoOne
  <2> DEFINE y == Flushing(x)
  <2>1. waits' = [ws EXCEPT ![w] = y] /\ saves' = saves BY <1>3 DEF SaveCurrent
  <2>2. IsWait(y) /\ y.pc = "flushing" /\ Keeps(x, y) BY FlushingWait
  <2> HIDE DEF y
  <2> QED BY <1>2, <2>1, <2>2
<1>4. CASE drawn.project # NoOne
  <2> DEFINE y == [x EXCEPT !.pc = "saving", !.moved = FALSE, !.left = Len(saves) + 1]
  <2>1. waits' = [ws EXCEPT ![w] = y] /\ QueuesDrawn
    BY <1>4 DEF SaveCurrent, QueuesDrawn, DrawnDraft
  <2>2. /\ IsWait(y) /\ y.pc = "saving" /\ y.left = Len(saves) + 1 /\ ~y.moved /\ Keeps(x, y)
    <3>1. Len(saves) + 1 \in Nat BY <1>1
    <3> QED BY <3>1, SavingWait
  <2> HIDE DEF y
  <2> QED BY <1>2, <2>1, <2>2
<1> QED BY <1>3, <1>4

LEMMA ListsAre ==
  ASSUME Shaped
  PROVE  IsList(saves) /\ Len(flight) \in Nat /\ IsWindow(window)
<1>1. Len(flight) \in Nat BY EmptyList DEF Shaped, FlightShaped
<1> QED BY <1>1 DEF Shaped, SavesShaped

LEMMA FailKeeps ==
  ASSUME WindowInvariant, NEW w \in DOMAIN Waits, Fails(w), FailStep
  PROVE  WindowInvariant'
<1> DEFINE x == waits[w]
<1>1. WaitsShaped /\ IsWindow(window) /\ Over(w, "failed")
  BY DEF WindowInvariant, Shaped, Fails
<1>2. /\ waits'[w] = PcOf(x, "failed") /\ IsWait(x) /\ "failed" \in Pcs
      /\ \A v \in DOMAIN Waits : v # w => waits'[v] = waits[v]
      /\ WaitsShaped'
  BY <1>1, OverIs DEF Pcs, WaitsShaped
<1>3. waits'[w].pc = "failed" BY <1>2, PcWait
<1>4. LoadsStored(w)' BY <1>3 DEF LoadsStored, Live, Hydrates
<1>5. \A v \in DOMAIN Waits : SameOpening(v) \/ LoadsStored(v)' BY <1>2, <1>4 DEF SameOpening
<1>6. /\ IsWindow(window') /\ window'.project = window.project /\ window'.view = window.view
  <2>1. CASE window' = window BY <1>1, <2>1
  <2>2. CASE window' = GivenUp(x)
    <3> DEFINE phase == IF x.started THEN "blocked"
                        ELSE IF x.before = NoOne THEN "no_project" ELSE "ready"
               of == x.before
               head == x.head
    <3>1. window' = [window EXCEPT !.phase = phase, !.of = of, !.head = head]
      BY <2>2 DEF GivenUp
    <3> HIDE DEF phase, of, head
    <3> QED BY <1>1, <3>1 DEF IsWindow
  <2> QED BY <2>1, <2>2 DEF Fails
<1>7. BarrierStep BY <1>6 DEF BarrierStep, FailStep
<1> QED BY <1>2, <1>5, <1>7, BarrierStepKeeps

LEMMA AskKeeps ==
  ASSUME WindowInvariant, NEW w \in DOMAIN Waits, Ask(w)
  PROVE  WindowInvariant'
<1>1. /\ SaveCurrent(w, Asleep, waits) /\ Kind(w) # "open"
      /\ UNCHANGED <<scenario, store, persisted, flight, window, drawn, shown, timer, control>>
  BY DEF Ask
<1>2. Shaped /\ WaitsShaped BY DEF WindowInvariant
<1>3. /\ IsMap(waits') /\ DOMAIN waits' = DOMAIN Waits
      /\ \A v \in DOMAIN Waits : v # w => waits'[v] = waits[v]
      /\ IsWait(waits'[w]) /\ waits'[w].pc \in {"saving", "flushing"}
      /\ saves' = saves \/ QueuesDrawn
  BY <1>1, <1>2, AsleepIs, ListsAre, SavesDrawn DEF WaitsShaped
<1>4. WaitsShaped' BY <1>2, <1>3 DEF WaitsShaped
<1>5. LoadsStored(w)' BY <1>1, <1>3 DEF LoadsStored, Live, Hydrates
<1>6. \A v \in DOMAIN Waits : SameOpening(v) \/ LoadsStored(v)' BY <1>3, <1>5 DEF SameOpening
<1>7. BarrierStep BY <1>1, <1>2, <1>3, ListsAre DEF BarrierStep
<1> QED BY <1>4, <1>6, <1>7, BarrierStepKeeps

LEMMA OpenProjectKeeps ==
  ASSUME WindowInvariant, NEW w \in DOMAIN Waits, NEW p \in ProjectIds, OpenProject(w, p)
  PROVE  WindowInvariant'
<1> DEFINE same == p = window.project /\ window.phase = "ready"
           before == window.project
           head == window.head
           asked == [Asleep EXCEPT !.target = p, !.again = same, !.before = before,
                                   !.head = head, !.current = TRUE]
           others == [v \in DOMAIN Waits |-> [waits[v] EXCEPT !.current = FALSE]]
<1>1. /\ SaveCurrent(w, asked, others) /\ Kind(w) = "open"
      /\ window' = IF same THEN window
                   ELSE [window EXCEPT !.phase = "opening", !.of = before]
      /\ UNCHANGED <<scenario, store, persisted, flight, drawn, shown, timer, control>>
  BY DEF OpenProject
<1>2. Shaped /\ WaitsShaped /\ IsWindow(window) BY DEF WindowInvariant, Shaped
<1>3. IsWindow(window') /\ window'.project = window.project /\ window'.view = window.view
  <2>1. CASE window' = window BY <1>2, <2>1
  <2>2. CASE window' = [window EXCEPT !.phase = "opening", !.of = before]
    <3> HIDE DEF before
    <3> QED BY <1>2, <2>2 DEF IsWindow
  <2> QED BY <1>1, <2>1, <2>2
<1>4. IsWait(asked) /\ asked.target = p /\ ~asked.started
  <2>1. same \in BOOLEAN OBVIOUS
  <2>2. Asleep.started = FALSE BY DEF Asleep
  <2> DEFINE x == Asleep
  <2>3. asked = AskedOf(x, p, same, before, head) BY DEF AskedOf
  <2>4. IsWait(x) /\ ~x.started BY <2>2, AsleepIs
  <2> HIDE DEF same, asked, x, before, head
  <2>5. IsWait(asked) /\ asked.target = p /\ asked.started = x.started
    BY <2>1, <2>3, <2>4, AskedWait
  <2> QED BY <2>4, <2>5
<1> HIDE DEF asked
<1>5. IsMap(others) /\ DOMAIN others = DOMAIN Waits BY DEF IsMap
<1>6. ASSUME NEW v \in DOMAIN Waits
      PROVE  /\ IsWait(others[v]) /\ others[v].pc = waits[v].pc
             /\ others[v].target = waits[v].target /\ others[v].started = waits[v].started
             /\ others[v].fresh = waits[v].fresh /\ others[v].document = waits[v].document
  <2> DEFINE x == waits[v]
             y == others[v]
  <2>1. IsWait(x) BY <1>2 DEF WaitsShaped
  <2>2. y = [x EXCEPT !.current = FALSE] OBVIOUS
  <2> HIDE DEF x, y
  <2>3. y = [pc |-> y.pc, left |-> y.left, ok |-> y.ok, moved |-> y.moved, since |-> y.since,
             of |-> y.of, target |-> y.target, again |-> y.again, before |-> y.before,
             head |-> y.head, started |-> y.started, current |-> y.current, keep |-> y.keep,
             fresh |-> y.fresh, document |-> y.document]
    BY <2>1, <2>2 DEF IsWait
  <2>4. /\ y.pc = x.pc /\ y.left = x.left /\ y.target = x.target /\ y.started = x.started
        /\ y.fresh = x.fresh /\ y.document = x.document
        /\ {y.ok, y.moved, y.again, y.started, y.current, y.keep, y.fresh} \subseteq BOOLEAN
    BY <2>1, <2>2 DEF IsWait
  <2>5. x.pc \in Pcs /\ x.left \in Nat BY <2>1 DEF IsWait
  <2>6. IsWait(y) BY <2>3, <2>4, <2>5 DEF IsWait
  <2> QED BY <2>4, <2>6 DEF x, y
<1> HIDE DEF others
<1>7. /\ IsMap(waits') /\ DOMAIN waits' = DOMAIN Waits
      /\ \A v \in DOMAIN Waits : v # w => waits'[v] = others[v]
      /\ IsWait(waits'[w]) /\ waits'[w].pc \in {"saving", "flushing"}
      /\ waits'[w].target = asked.target /\ waits'[w].started = asked.started
      /\ saves' = saves \/ QueuesDrawn
  BY <1>1, <1>2, <1>4, <1>5, ListsAre, SavesDrawn
<1>8. WaitsShaped' BY <1>6, <1>7 DEF WaitsShaped
<1>9. LoadsStored(w)' BY <1>4, <1>7 DEF LoadsStored, Live, Hydrates
<1>10. \A v \in DOMAIN Waits : SameOpening(v) \/ LoadsStored(v)'
  BY <1>6, <1>7, <1>9 DEF SameOpening
<1>11. BarrierStep BY <1>1, <1>3, <1>7 DEF BarrierStep
<1> QED BY <1>8, <1>10, <1>11, BarrierStepKeeps

LEMMA SaveEndsKeeps ==
  ASSUME WindowInvariant, NEW w \in DOMAIN Waits, SaveEnds(w)
  PROVE  WindowInvariant'
<1> DEFINE x == waits[w]
<1>1. /\ x.pc = "saving"
      /\ UNCHANGED <<scenario, store, persisted, flight, drawn, shown, timer, control>>
  BY DEF SaveEnds
<1>2. Shaped /\ WaitsShaped /\ IsWait(x) /\ LoadsStored(w) BY DEF WindowInvariant, WaitsShaped
<1>3. IsList(saves) /\ Len(flight) \in Nat /\ IsWindow(window) BY <1>2, ListsAre
<1>4. ASSUME /\ IsMap(waits') /\ DOMAIN waits' = DOMAIN Waits
             /\ \A v \in DOMAIN Waits : v # w => waits'[v] = waits[v]
             /\ IsWait(waits'[w]) /\ waits'[w].pc \in {"saving", "flushing"}
             /\ waits'[w].target = x.target /\ waits'[w].started = x.started
             /\ waits'[w].fresh = x.fresh,
             saves' = saves \/ QueuesDrawn, UNCHANGED window
      PROVE  WindowInvariant'
  <2>1. WaitsShaped' BY <1>2, <1>4 DEF WaitsShaped
  <2>2. LoadsStored(w)' BY <1>1, <1>2, <1>4 DEF LoadsStored, Live, Hydrates
  <2>3. \A v \in DOMAIN Waits : SameOpening(v) \/ LoadsStored(v)' BY <1>4, <2>2 DEF SameOpening
  <2>4. BarrierStep BY <1>1, <1>3, <1>4 DEF BarrierStep
  <2> QED BY <2>1, <2>3, <2>4, BarrierStepKeeps
<1>5. CASE SaveCurrent(w, x, waits) /\ UNCHANGED window
  <2>1. IsMap(waits) /\ DOMAIN waits = DOMAIN Waits BY <1>2 DEF WaitsShaped
  <2>2. /\ IsMap(waits') /\ DOMAIN waits' = DOMAIN Waits
        /\ \A v \in DOMAIN Waits : v # w => waits'[v] = waits[v]
        /\ IsWait(waits'[w]) /\ waits'[w].pc \in {"saving", "flushing"}
        /\ waits'[w].target = x.target /\ waits'[w].started = x.started
        /\ waits'[w].fresh = x.fresh
        /\ saves' = saves \/ QueuesDrawn
    <3> HIDE DEF x
    <3> QED BY <1>2, <1>3, <1>5, <2>1, SavesDrawn
  <2> QED BY <1>4, <1>5, <2>2
<1>6. CASE waits' = [waits EXCEPT ![w] = Flushing(@)] /\ UNCHANGED <<saves, window>>
  <2> DEFINE y == Flushing(x)
  <2>1. waits' = [waits EXCEPT ![w] = y] BY <1>6
  <2>2. IsWait(y) /\ y.pc = "flushing" /\ Keeps(x, y)
    <3> HIDE DEF x, y
    <3>1. y = Flushing(x) BY DEF y
    <3> QED BY <1>2, <1>3, <3>1, FlushingWait
  <2> HIDE DEF y
  <2>3. y.target = x.target /\ y.started = x.started /\ y.fresh = x.fresh BY <2>2, KeptFields
  <2>4. /\ waits'[w] = y /\ IsMap(waits') /\ DOMAIN waits' = DOMAIN Waits
        /\ \A v \in DOMAIN Waits : v # w => waits'[v] = waits[v]
    BY <1>2, <2>1 DEF IsMap, WaitsShaped
  <2> QED BY <1>4, <1>6, <2>2, <2>3, <2>4
<1>7. CASE Fails(w) /\ UNCHANGED saves BY <1>1, <1>7, FailKeeps DEF FailStep
<1> QED BY <1>5, <1>6, <1>7 DEF SaveEnds

LEMMA AnswerOpenKeeps ==
  ASSUME WindowInvariant, NEW w \in DOMAIN Waits, AnswerOpen(w)
  PROVE  WindowInvariant'
<1> DEFINE fresh == store[waits[w].target] = <<>>
           x == waits[w]
           z == [x EXCEPT !.fresh = fresh]
<1>1. /\ x.pc = "asking"
      /\ UNCHANGED <<scenario, store, persisted, flight, drawn, shown, timer, control>>
  BY DEF AnswerOpen
<1>2. Shaped /\ WaitsShaped /\ IsWait(x) /\ LoadsStored(w) BY DEF WindowInvariant, WaitsShaped
<1>3. IsList(saves) /\ Len(flight) \in Nat /\ IsWindow(window) BY <1>2, ListsAre
<1>4. CASE SaveCurrent(w, z, waits) /\ UNCHANGED window
  <2>1. fresh \in BOOLEAN /\ (~fresh => store[x.target] # <<>>) OBVIOUS
  <2> HIDE DEF fresh
  <2>2. IsWait(z) /\ z.target = x.target /\ z.started = x.started /\ z.fresh = fresh
    BY <1>2, <2>1, FreshWait DEF FreshOf
  <2>3. IsMap(waits) /\ DOMAIN waits = DOMAIN Waits BY <1>2 DEF WaitsShaped
  <2> HIDE DEF z
  <2>4. /\ IsMap(waits') /\ DOMAIN waits' = DOMAIN Waits
        /\ \A v \in DOMAIN Waits : v # w => waits'[v] = waits[v]
        /\ IsWait(waits'[w]) /\ waits'[w].pc \in {"saving", "flushing"}
        /\ waits'[w].target = z.target /\ waits'[w].started = z.started
        /\ waits'[w].fresh = z.fresh
        /\ saves' = saves \/ QueuesDrawn
    BY <1>3, <1>4, <2>2, <2>3, SavesDrawn
  <2>5. WaitsShaped' BY <1>2, <2>4 DEF WaitsShaped
  <2>6. x.target \in ProjectIds BY <1>1, <1>2 DEF LoadsStored, Live
  <2>7. LoadsStored(w)' BY <1>1, <2>1, <2>2, <2>4, <2>6 DEF LoadsStored, Live, Hydrates
  <2>8. \A v \in DOMAIN Waits : SameOpening(v) \/ LoadsStored(v)' BY <2>4, <2>7 DEF SameOpening
  <2>9. BarrierStep BY <1>1, <1>3, <1>4, <2>4 DEF BarrierStep
  <2> QED BY <2>5, <2>8, <2>9, BarrierStepKeeps
<1>5. CASE Fails(w) /\ UNCHANGED saves BY <1>1, <1>5, FailKeeps DEF FailStep
<1> QED BY <1>4, <1>5 DEF AnswerOpen

LEMMA FlushEndsKeeps ==
  ASSUME WindowInvariant, NEW w \in DOMAIN Waits, FlushEnds(w)
  PROVE  WindowInvariant'
<1> DEFINE x == waits[w]
<1>1. /\ x.pc = "flushing"
      /\ UNCHANGED <<scenario, store, persisted, saves, flight, drawn, shown, timer, control>>
  BY DEF FlushEnds
<1>2. Shaped /\ WaitsShaped /\ IsWait(x) /\ LoadsStored(w) BY DEF WindowInvariant, WaitsShaped
<1>3. IsWindow(window) BY <1>2 DEF Shaped
<1>4. ASSUME NEW y, IsWait(y), TurnsTo(w, y),
             IsWindow(window'), window'.project = window.project, window'.view = window.view,
             \/ y.pc = "over"
             \/ /\ y.pc \in {"asking", "loading"} /\ Kind(w) = "open"
                /\ y.started /\ (y.pc = "loading" => x.started)
                /\ y.target = x.target /\ y.fresh = x.fresh
      PROVE  WindowInvariant'
  <2>1. /\ waits'[w] = y /\ WaitsShaped'
        /\ \A v \in DOMAIN Waits : v # w => waits'[v] = waits[v]
    BY <1>2, <1>4 DEF WaitsShaped, IsMap, TurnsTo
  <2>2. LoadsStored(w)' BY <1>1, <1>2, <1>4, <2>1 DEF LoadsStored, Live, Hydrates
  <2>3. \A v \in DOMAIN Waits : SameOpening(v) \/ LoadsStored(v)' BY <2>1, <2>2 DEF SameOpening
  <2>4. BarrierStep BY <1>1, <1>4 DEF BarrierStep
  <2> QED BY <2>1, <2>3, <2>4, BarrierStepKeeps
<1>5. CASE Fails(w) BY <1>1, <1>5, FailKeeps DEF FailStep
<1>6. ASSUME Over(w, "over"),
             IsWindow(window'), window'.project = window.project, window'.view = window.view
      PROVE  WindowInvariant'
  <2> DEFINE y == PcOf(x, "over")
  <2>1. TurnsTo(w, y) BY <1>2, <1>6 DEF TurnsTo, PcOf, Over, WaitsShaped, IsMap
  <2>2. IsWait(y) /\ y.pc = "over"
    <3> HIDE DEF x
    <3> QED BY <1>2, PcWait DEF Pcs
  <2> HIDE DEF y
  <2> QED BY <1>4, <1>6, <2>1, <2>2
<1>7. CASE Over(w, "over") /\ window' = [window EXCEPT !.phase = "closed"]
  <2>1. /\ IsWindow(window') /\ window'.project = window.project /\ window'.view = window.view
    BY <1>3, <1>7 DEF IsWindow
  <2> QED BY <1>6, <1>7, <2>1
<1>8. CASE Over(w, "over") /\ UNCHANGED window BY <1>3, <1>6, <1>8
<1>9. CASE /\ Kind(w) = "open" /\ UNCHANGED window
           /\ waits' = [waits EXCEPT ![w].pc = "asking", ![w].started = TRUE]
  <2> DEFINE y == StartedOf(x)
  <2>1. TurnsTo(w, y) BY <1>2, <1>9 DEF TurnsTo, StartedOf, WaitsShaped, IsMap
  <2>2. IsWait(y) /\ y.pc = "asking" /\ y.started /\ y.target = x.target /\ y.fresh = x.fresh
    <3> HIDE DEF x
    <3> QED BY <1>2, StartedWait
  <2> HIDE DEF y
  <2> QED BY <1>3, <1>4, <1>9, <2>1, <2>2
<1>10. CASE /\ Kind(w) = "open" /\ x.started /\ UNCHANGED window
            /\ waits' = [waits EXCEPT ![w].pc = "loading",
                                      ![w].keep = x.before = NoOne /\ window.unassigned]
  <2> DEFINE keep == x.before = NoOne /\ window.unassigned
             y == LoadingOf(x, keep)
  <2>1. TurnsTo(w, y) BY <1>2, <1>10 DEF TurnsTo, LoadingOf, WaitsShaped, IsMap
  <2>2. keep \in BOOLEAN OBVIOUS
  <2>3. /\ IsWait(y) /\ y.pc = "loading" /\ y.started = x.started /\ y.target = x.target
        /\ y.fresh = x.fresh
    <3> HIDE DEF x, keep
    <3> QED BY <1>2, <2>2, LoadingWait
  <2> HIDE DEF y
  <2> QED BY <1>3, <1>4, <1>10, <2>1, <2>3
<1>11. Fails(w) \/ Release(w) BY DEF FlushEnds
<1> QED BY <1>5, <1>7, <1>8, <1>9, <1>10, <1>11 DEF Release

LEMMA TimerFiresKeeps ==
  ASSUME WindowInvariant, TimerFires
  PROVE  WindowInvariant'
<1>1. /\ timer = <<DrawnDraft>> /\ timer' = <<>> /\ IsWindow(window)
      /\ UNCHANGED <<scenario, store, persisted, flight, window, drawn, shown, control, waits>>
  BY DEF TimerFires, WindowInvariant, Shaped
<1>2. saves' = Append(saves, DrawnDraft)
  <2> DEFINE d == DrawnDraft
  <2> HIDE DEF d
  <2>1. timer = <<d>> /\ saves' = Append(saves, timer[1]) BY <1>1 DEF TimerFires, d
  <2>2. saves' = Append(saves, d) BY <2>1
  <2> QED BY <2>2 DEF d
<1>3. drawn.project # NoOne BY <1>1 DEF WindowInvariant, NothingIsDrawn
<1>4. BarrierStep BY <1>1, <1>2, <1>3 DEF BarrierStep, QueuesDrawn
<1> QED BY <1>1, <1>4, NoWaitMoves

LEMMA BootKeeps ==
  ASSUME WindowInvariant, Boot
  PROVE  WindowInvariant'
<1>1. /\ window' = [window EXCEPT !.phase = "no_project"] /\ IsWindow(window)
      /\ UNCHANGED <<scenario, store, persisted, saves, flight, drawn, shown, timer, control, waits>>
  BY DEF Boot, WindowInvariant, Shaped
<1>2. IsWindow(window') /\ window'.project = window.project /\ window'.view = window.view
  BY <1>1 DEF IsWindow
<1>3. BarrierStep BY <1>1, <1>2 DEF BarrierStep
<1> QED BY <1>1, <1>3, NoWaitMoves

LEMMA NothingKeeps ==
  ASSUME WindowInvariant, UNCHANGED workspaceVars
  PROVE  WindowInvariant'
<1>1. UNCHANGED <<scenario, store, persisted, saves, flight, window, drawn, shown, timer, control,
                  waits>>
  BY DEF workspaceVars, windowVars
<1>2. BarrierStep BY <1>1 DEF BarrierStep, WindowInvariant, Shaped
<1> QED BY <1>1, <1>2, NoWaitMoves

LEMMA RedrawKeeps ==
  ASSUME WindowInvariant, NEW w, RendersAs(w)
  PROVE  WindowInvariant'
<1> USE DEF WindowInvariant
<1>1. Redrawn(w) BY RedrawDoes
<1>2. /\ window' = w /\ drawn' = Draw(w) /\ UNCHANGED <<scenario, store, persisted, saves>>
      /\ control'.project = control.project /\ control'.accepted = control.accepted
  BY <1>1 DEF Redrawn
<1>3. IsWindow(w) /\ w.project = window.project BY DEF RendersAs
<1>4. drawn'.project = w.project /\ drawn'.view = w.view /\ DrawnShaped'
  BY <1>2, <1>3 DEF Draw, DrawnShaped, IsWindow
<1>5. DrawnDraft' = Draft(w.project, w.view) BY <1>4 DEF DrawnDraft
<1>6. Shaped'
  BY <1>1, <1>2, <1>3, <1>4, <1>5 DEF Redrawn, Shaped, StoreShaped, SavesShaped
<1>7. \A p \in ProjectIds : ToSet(shown[p]) \subseteq ToSet(shown'[p]) BY <1>1 DEF Redrawn
<1>8. HistoriesAreSound' /\ StoredWasShown'
  BY <1>2, <1>7 DEF HistoriesAreSound, StoredWasShown
<1>9. ShownIsSound'
  <2>1. \A i \in DOMAIN saves : saves[i].project \in ProjectIds
    BY DEF Shaped, SavesShaped, IsDraft
  <2>2. \A i \in DOMAIN saves : saves[i].view \in ToSet(shown'[saves[i].project])
    BY <1>7, <2>1 DEF ShownIsSound
  <2>3. w.project # NoOne => shown'[w.project] # <<>> /\ Last(shown'[w.project]) = w.view
    BY <1>1 DEF Redrawn
  <2> QED BY <1>2, <1>4, <2>2, <2>3 DEF ShownIsSound
<1>10. NothingIsDrawn' /\ AcceptedIsStored'
  BY <1>1, <1>2, <1>4 DEF Redrawn, NothingIsDrawn, AcceptedIsStored, IsStored
<1>11. SentIsSound'
  <2> SUFFICES ASSUME flight' # <<>> PROVE Sends(flight'[1], saves', control', store')
    BY DEF SentIsSound
  <2> DEFINE f == flight[1]
             g == flight'[1]
  <2>1. /\ flight # <<>>
        /\ g.project = f.project /\ g.base = f.base /\ g.actions = f.actions
        /\ g.draft = f.draft /\ g.current = f.current /\ g.reply = f.reply
        /\ g.document = f.document
    BY <1>1 DEF Redrawn
  <2>2. Sends(f, saves, control, store) /\ saves # <<>> BY <2>1 DEF SentIsSound, Sends
  <2> HIDE DEF f, g
  <2> QED BY <1>2, <2>1, <2>2, SendsStays DEF g
<1>12. WaitsShaped' BY <1>1, RedrawnFields DEF Redrawn, WaitsShaped
<1>13. ASSUME NEW v \in DOMAIN Waits PROVE LoadsStored(v)'
  <2>1. RedrawnWait(v) BY <1>1 DEF Redrawn
  <2>2. SameOpening(v) BY <2>1, RedrawnFields DEF SameOpening
  <2>3. StoreKeeps BY <1>2, SameStoreKeeps
  <2> QED BY <2>2, <2>3, OpeningKeeps
<1> QED BY <1>6, <1>8, <1>9, <1>10, <1>11, <1>12, <1>13

LEMMA RenderKeeps ==
  ASSUME WindowInvariant, Render
  PROVE  WindowInvariant'
<1>1. IsWindow(window) BY DEF WindowInvariant, Shaped
<1>2. RendersAs(window) BY <1>1 DEF Render, RendersAs
<1> QED BY <1>2, RedrawKeeps

LEMMA EditKeeps ==
  ASSUME WindowInvariant, NEW e \in scenario.edits, Edit(e)
  PROVE  WindowInvariant'
<1> DEFINE w == EditedWindow(e)
<1>1. IsWindow(window) /\ scenario \in Scenarios BY DEF WindowInvariant, Shaped
<1>2. RendersAs(w) BY <1>1, EditRenders
<1> HIDE DEF w
<1> QED BY <1>2, RedrawKeeps

\* A revision comes to the store; the window's part of the state is as it was.
LEMMA StoreStepKeeps ==
  ASSUME WindowInvariant, NEW p \in ProjectIds, NEW d, NEW by, Appends(p, d, by), IsNext(p, d),
         \/ by = "assistant" \/ ~(d.revision > 1)
         \/ \E q \in ProjectIds : View(d) \in ToSet(shown[q]),
         UNCHANGED <<scenario, persisted, saves, window, drawn, shown, timer, control>>,
         WaitsShaped', FlightShaped', SentIsSound',
         \A v \in DOMAIN Waits : SameOpening(v) \/ LoadsStored(v)'
  PROVE  WindowInvariant'
<1> USE DEF WindowInvariant
<1>1. StoreShaped BY DEF Shaped
<1>2. StoreShaped' /\ StoreKeeps BY <1>1, AppendsIs, AppendsKeeps
<1>3. DrawnDraft' = DrawnDraft BY DEF DrawnDraft, Draft
<1>4. Shaped' BY <1>2, <1>3 DEF Shaped, ShownShaped, DrawnShaped, SavesShaped, IsWindow
<1>5. HistoriesAreSound' BY <1>1, HistoriesGrow
<1>6. StoredWasShown' BY <1>1, StaysShown
<1>7. ShownIsSound' /\ NothingIsDrawn' BY DEF ShownIsSound, NothingIsDrawn
<1>8. AcceptedIsStored' BY <1>2 DEF AcceptedIsStored, StoreKeeps, IsStored
<1>9. ASSUME NEW v \in DOMAIN Waits PROVE LoadsStored(v)'
  <2>1. CASE SameOpening(v) BY <1>2, <2>1, OpeningKeeps
  <2> QED BY <2>1
<1> QED BY <1>4, <1>5, <1>6, <1>7, <1>8, <1>9

\* What is in flight stays sound as the store grows.
LEMMA SentStays ==
  ASSUME Shaped, SentIsSound, StoreKeeps, UNCHANGED <<saves, control, flight>>
  PROVE  SentIsSound' /\ FlightShaped'
<1>1. FlightShaped' BY DEF Shaped, FlightShaped
<1>2. SentIsSound'
  <2> SUFFICES ASSUME flight # <<>> PROVE Sends(flight[1], saves, control, store')
    BY DEF SentIsSound
  <2> DEFINE f == flight[1]
  <2>1. Sends(f, saves, control, store) BY DEF SentIsSound
  <2> HIDE DEF f
  <2>2. f.project \in ProjectIds /\ saves # <<>> BY <2>1 DEF Sends
  <2>3. \A i \in DOMAIN store[f.project] : \E j \in DOMAIN store'[f.project] :
          store'[f.project][j].document = store[f.project][i].document
    BY <2>2 DEF StoreKeeps
  <2>4. f.reply = "ok" =>
          \E j \in DOMAIN store'[f.project] : store'[f.project][j].document = f.document
    BY <2>1, <2>3 DEF Sends
  <2>5. Sends(f, saves, control, store') BY <2>1, <2>2, <2>3, <2>4, SendsStays
  <2> QED BY <2>5 DEF f
<1> QED BY <1>1, <1>2

LEMMA AssistantCommitsKeeps ==
  ASSUME WindowInvariant, NEW p \in ProjectIds, NEW actions \in scenario.assistant,
         AssistantCommits(p, actions)
  PROVE  WindowInvariant'
<1>1. Shaped /\ SentIsSound /\ WaitsShaped BY DEF WindowInvariant
<1>2. StoreShaped /\ HistoriesAreSound /\ scenario \in Scenarios
  BY <1>1 DEF WindowInvariant, Shaped
<1>3. PICK d \in Apply(Newest(p), actions, 0) :
        store' = [store EXCEPT ![p] = Append(@, [document |-> d, by |-> "assistant"])]
  BY DEF AssistantCommits
<1>4. store[p] # <<>> BY DEF AssistantCommits
<1>5. UNCHANGED <<scenario, persisted, saves, flight, window, drawn, shown, timer, control, waits>>
  BY DEF AssistantCommits, windowVars
<1>6. IsNext(p, d) BY <1>2, <1>3, <1>4, AssistantsNext
<1>7. Appends(p, d, "assistant") BY <1>3 DEF Appends, Row
<1>8. SentIsSound' /\ FlightShaped'
  <2>1. StoreKeeps BY <1>2, <1>7, AppendsKeeps
  <2> QED BY <1>1, <1>5, <2>1, SentStays
<1>9. WaitsShaped' BY <1>1, <1>5 DEF WaitsShaped
<1>10. \A v \in DOMAIN Waits : SameOpening(v) BY <1>5 DEF SameOpening
<1> QED BY <1>5, <1>6, <1>7, <1>8, <1>9, <1>10, StoreStepKeeps

LEMMA LoadWorkflowKeeps ==
  ASSUME WindowInvariant, NEW w \in DOMAIN Waits, LoadWorkflow(w)
  PROVE  WindowInvariant'
<1> DEFINE x == waits[w]
           p == waits[w].target
           created == EmptyDocument(0)
<1>1. /\ x.pc = "loading"
      /\ UNCHANGED <<scenario, persisted, saves, flight, window, drawn, shown, timer, control>>
  BY DEF LoadWorkflow
<1>2. /\ Shaped /\ WaitsShaped /\ IsWait(x) /\ LoadsStored(w) /\ SentIsSound
      /\ StoreShaped /\ HistoriesAreSound /\ IsWindow(window)
  BY DEF WindowInvariant, WaitsShaped, Shaped
<1>3. /\ Kind(w) = "open" /\ x.started /\ Live(w) /\ p \in ProjectIds
      /\ ~x.fresh => store[p] # <<>>
  BY <1>1, <1>2 DEF LoadsStored, Hydrates, Live
<1>4. \/ /\ ~x.fresh /\ UNCHANGED store
         /\ waits' = [waits EXCEPT ![w].pc = "loaded", ![w].document = Newest(p)]
      \/ /\ x.fresh /\ store[p] = <<>>
         /\ waits' = [waits EXCEPT ![w].pc = "loaded", ![w].document = created]
         /\ store' = [store EXCEPT ![p] = <<[document |-> created, by |-> "window"]>>]
      \/ Over(w, "refused") /\ UNCHANGED store
  BY DEF LoadWorkflow
<1>5. ASSUME StoreKeeps, Settles(x, waits'[w]),
             waits'[w].pc = "loaded" => IsStored(waits[w].target, waits[w].document)'
      PROVE  LoadsStored(w)'
  <2>1. /\ waits'[w].target = p /\ waits'[w].started = x.started /\ waits'[w].fresh = x.fresh
        /\ waits'[w].pc \in {"loaded", "refused"}
    BY <1>5 DEF Settles
  <2>2. ~x.fresh => store'[p] # <<>>
    <3>1. \A q \in ProjectIds : store[q] # <<>> => store'[q] # <<>> BY <1>5 DEF StoreKeeps
    <3> QED BY <1>3, <3>1
  <2> QED BY <1>3, <1>5, <2>1, <2>2 DEF LoadsStored, Hydrates, Live
<1>6. ASSUME UNCHANGED store, WaitsShaped', Settles(x, waits'[w]),
             \A v \in DOMAIN Waits : v # w => waits'[v] = waits[v],
             waits'[w].pc = "loaded" => IsStored(p, waits'[w].document)
      PROVE  WindowInvariant'
  <2>1. BarrierStep BY <1>1, <1>2, <1>6 DEF BarrierStep
  <2>2. waits'[w].pc = "loaded" => IsStored(waits[w].target, waits[w].document)'
    BY <1>6 DEF IsStored, Settles
  <2>3. LoadsStored(w)' BY <1>5, <1>6, <2>2, SameStoreKeeps
  <2>4. \A v \in DOMAIN Waits : SameOpening(v) \/ LoadsStored(v)' BY <1>6, <2>3 DEF SameOpening
  <2> QED BY <1>6, <2>1, <2>4, BarrierStepKeeps
<1>7. CASE /\ ~x.fresh /\ UNCHANGED store
           /\ waits' = [waits EXCEPT ![w].pc = "loaded", ![w].document = Newest(p)]
  <2>1. IsStored(p, Newest(p)) BY <1>2, <1>3, <1>7, NewestIs
  <2> DEFINE d == Newest(p)
  <2> HIDE DEF d
  <2>2. /\ waits'[w].document = d /\ Settles(x, waits'[w]) /\ WaitsShaped'
        /\ \A v \in DOMAIN Waits : v # w => waits'[v] = waits[v]
    BY <1>2, <1>7, LoadedIs DEF d
  <2> QED BY <1>6, <1>7, <2>1, <2>2 DEF d
<1>8. CASE Over(w, "refused") /\ UNCHANGED store
  <2>1. /\ waits'[w].pc = "refused" /\ Settles(x, waits'[w]) /\ WaitsShaped'
        /\ \A v \in DOMAIN Waits : v # w => waits'[v] = waits[v]
    BY <1>2, <1>8, RefusedIs
  <2> QED BY <1>6, <1>8, <2>1
<1>9. CASE /\ x.fresh /\ store[p] = <<>>
           /\ waits' = [waits EXCEPT ![w].pc = "loaded", ![w].document = created]
           /\ store' = [store EXCEPT ![p] = <<[document |-> created, by |-> "window"]>>]
  <2>1. Showable(created) /\ created.revision = 1 BY EmptyIsShowable
  <2> HIDE DEF created
  <2>2. PICK q \in ProjectIds : q = p BY <1>3
  <2>3. Appends(q, created, "window")
    <3>1. \A row : Append(<<>>, row) = <<row>> OBVIOUS
    <3> QED BY <1>9, <2>2, <3>1 DEF Appends, Row
  <2>4. IsNext(q, created) /\ ~(created.revision > 1) BY <1>9, <2>1, <2>2 DEF IsNext
  <2>5. StoreKeeps /\ IsStored(q, created)' BY <1>2, <2>3, AppendsKeeps
  <2>6. SentIsSound' /\ FlightShaped' BY <1>1, <1>2, <2>5, SentStays
  <2>7. /\ waits'[w].document = created /\ Settles(x, waits'[w]) /\ WaitsShaped'
        /\ \A v \in DOMAIN Waits : v # w => waits'[v] = waits[v]
    BY <1>2, <1>9, LoadedIs
  <2>8. IsStored(waits[w].target, waits[w].document)'
    <3>1. waits'[w].target = q BY <2>2, <2>7 DEF Settles
    <3> QED BY <2>5, <2>7, <3>1 DEF IsStored
  <2>9. LoadsStored(w)' BY <1>5, <2>5, <2>7, <2>8
  <2>10. \A v \in DOMAIN Waits : SameOpening(v) \/ LoadsStored(v)' BY <2>7, <2>9 DEF SameOpening
  <2> QED BY <1>1, <2>3, <2>4, <2>6, <2>7, <2>10, StoreStepKeeps
<1> QED BY <1>4, <1>7, <1>8, <1>9

\* The mutation that the backend commits makes the draft that was sent.
LEMMA SentIs ==
  ASSUME WindowInvariant, flight # <<>>
  PROVE  /\ IsFlight(flight[1]) /\ flight[1].project \in ProjectIds
         /\ store[flight[1].project] # <<>>
         /\ \E q \in ProjectIds : flight[1].draft.view \in ToSet(shown[q])
         /\ \A d : /\ Newest(flight[1].project).revision = flight[1].base
                   /\ d \in Apply(Newest(flight[1].project), flight[1].actions, 0)
              => IsNext(flight[1].project, d) /\ View(d) = flight[1].draft.view
<1> USE DEF WindowInvariant
<1> DEFINE f == flight[1]
<1>1. /\ IsFlight(f) /\ IsList(saves) /\ \A i \in DOMAIN saves : IsDraft(saves[i])
      /\ StoreShaped /\ HistoriesAreSound
  BY DEF Shaped, FlightShaped, SavesShaped
<1>2. Sends(f, saves, control, store) BY DEF SentIsSound
<1>3. saves # <<>> /\ f.draft = saves[1] /\ f.project \in ProjectIds BY <1>2 DEF Sends
<1>4. PICK i \in DOMAIN store[f.project] :
        /\ f.base = store[f.project][i].document.revision
        /\ f.actions \in EditorMutationActions(store[f.project][i].document, f.draft.view)
  BY <1>2 DEF Sends
<1>5. store[f.project] # <<>> BY <1>4, EmptyList
<1>6. 1 \in DOMAIN saves /\ IsDraft(f.draft)
  <2>1. Len(saves) \in Nat /\ DOMAIN saves = 1 .. Len(saves) /\ Len(saves) # 0 BY <1>1, <1>3, ListIs
  <2>2. 1 \in DOMAIN saves BY <2>1
  <2> QED BY <1>1, <1>3, <2>2
<1>7. \E q \in ProjectIds : f.draft.view \in ToSet(shown[q])
  BY <1>3, <1>6 DEF ShownIsSound, IsDraft
<1>8. ASSUME NEW d, Newest(f.project).revision = f.base,
             d \in Apply(Newest(f.project), f.actions, 0)
      PROVE  IsNext(f.project, d) /\ View(d) = f.draft.view
  <2> DEFINE base == store[f.project][i].document
             actions == f.actions
             v == f.draft.view
  <2>1. IsStored(f.project, base) BY <1>3 DEF IsStored
  <2>2. Newest(f.project) = base BY <1>1, <1>3, <1>4, <1>5, <1>8, <2>1, NewestIs
  <2>3. d \in Apply(base, actions, 0) /\ actions \in EditorMutationActions(base, v)
    BY <1>4, <1>8, <2>2
  <2>4. WellFormed(v) BY <1>6 DEF IsDraft
  <2>5. Showable(base) BY <1>1, <1>3, <1>5, <2>2, NewestIs
  <2> HIDE DEF base, actions, v
  <2>6. CanonicalToEditor(d) = v /\ Showable(d) /\ d.revision = base.revision + 1
    BY <2>3, <2>4, <2>5, SavedAsDrawn
  <2>7. base.revision \in Nat BY <2>5 DEF Showable
  <2>8. d.revision > base.revision BY <2>6, <2>7
  <2> QED BY <2>2, <2>6, <2>8 DEF IsNext, View, v
<1> QED BY <1>1, <1>3, <1>5, <1>7, <1>8

LEMMA ReplyKeeps ==
  ASSUME WindowInvariant, flight # <<>>, NEW reply, NEW d, flight' = <<ReplyOf(flight[1], reply, d)>>,
         \/ UNCHANGED store /\ reply = "refused"
         \/ /\ Appends(flight[1].project, d, "window") /\ IsNext(flight[1].project, d)
            /\ View(d) = flight[1].draft.view,
         UNCHANGED <<scenario, persisted, saves, window, drawn, shown, timer, control, waits>>
  PROVE  WindowInvariant'
<1> DEFINE f == flight[1]
           g == ReplyOf(f, reply, d)
<1>1. /\ IsFlight(f) /\ f.project \in ProjectIds
      /\ \E q \in ProjectIds : f.draft.view \in ToSet(shown[q])
  BY SentIs
<1>2. /\ Shaped /\ WaitsShaped /\ StoreShaped /\ SentIsSound BY DEF WindowInvariant, Shaped
<1>3. Sends(f, saves, control, store) BY <1>2 DEF SentIsSound
<1>4. /\ IsFlight(g) /\ g.reply = reply /\ g.document = d
      /\ g.project = f.project /\ g.base = f.base /\ g.actions = f.actions
      /\ g.draft = f.draft /\ g.current = f.current
  <2> HIDE DEF f
  <2> QED BY <1>1, ReplyIs
<1>5. flight' = <<g>> /\ flight'[1] = g /\ flight' # <<>> OBVIOUS
<1> HIDE DEF f, g
<1>6. FlightShaped' BY <1>4, <1>5 DEF FlightShaped
<1>7. ASSUME StoreKeeps,
             reply = "ok" => \E j \in DOMAIN store'[f.project] : store'[f.project][j].document = d
      PROVE  SentIsSound'
  <2>1. \A i \in DOMAIN store[f.project] : \E j \in DOMAIN store'[f.project] :
          store'[f.project][j].document = store[f.project][i].document
    BY <1>1, <1>7 DEF StoreKeeps
  <2>2. saves # <<>> BY <1>3 DEF Sends
  <2>3. Sends(g, saves, control, store') BY <1>3, <1>4, <1>7, <2>1, <2>2, SendsStays
  <2> QED BY <1>5, <2>3 DEF SentIsSound
<1>8. WaitsShaped' BY <1>2 DEF WaitsShaped
<1>9. \A v \in DOMAIN Waits : SameOpening(v) BY DEF SameOpening
<1>10. CASE UNCHANGED store /\ reply = "refused"
  <2> USE DEF WindowInvariant
  <2>1. StoreKeeps BY <1>10, SameStoreKeeps
  <2>2. SentIsSound' BY <1>7, <1>10, <2>1
  <2>3. DrawnDraft' = DrawnDraft BY DEF DrawnDraft, Draft
  <2>4. Shaped'
    BY <1>6, <1>10, <2>3 DEF Shaped, StoreShaped, ShownShaped, DrawnShaped, SavesShaped, IsWindow
  <2>5. HistoriesAreSound' /\ StoredWasShown' /\ ShownIsSound' /\ NothingIsDrawn' /\ AcceptedIsStored'
    BY <1>10 DEF HistoriesAreSound, StoredWasShown, ShownIsSound, NothingIsDrawn, AcceptedIsStored,
                 IsStored
  <2>6. \A v \in DOMAIN Waits : LoadsStored(v)' BY <1>9, <2>1, OpeningKeeps
  <2> QED BY <1>8, <2>2, <2>4, <2>5, <2>6
<1>11. CASE /\ Appends(flight[1].project, d, "window") /\ IsNext(flight[1].project, d)
            /\ View(d) = flight[1].draft.view
  <2>1. PICK q \in ProjectIds : q = f.project BY <1>1
  <2>2. Appends(q, d, "window") /\ IsNext(q, d) /\ View(d) = f.draft.view BY <1>11, <2>1 DEF f
  <2>3. StoreKeeps /\ IsStored(q, d)' BY <1>2, <2>2, AppendsKeeps
  <2>4. \E j \in DOMAIN store'[q] : store'[q][j].document = d BY <2>3 DEF IsStored
  <2>5. SentIsSound' BY <1>7, <2>1, <2>3, <2>4
  <2>6. \E r \in ProjectIds : View(d) \in ToSet(shown[r]) BY <1>1, <2>2
  <2> QED BY <1>6, <1>8, <1>9, <2>2, <2>5, <2>6, StoreStepKeeps
<1> QED BY <1>10, <1>11

LEMMA CommitMutationKeeps ==
  ASSUME WindowInvariant, CommitMutation
  PROVE  WindowInvariant'
<1> DEFINE f == flight[1]
           results == IF Newest(f.project).revision = f.base
                      THEN Apply(Newest(f.project), f.actions, 0) ELSE {}
<1>1. /\ flight # <<>>
      /\ UNCHANGED <<scenario, persisted, saves, window, drawn, shown, timer, control, waits>>
  BY DEF CommitMutation
<1>2. \A d \in results : IsNext(f.project, d) /\ View(d) = f.draft.view BY <1>1, SentIs
<1>3. \/ \E d \in results :
           /\ store' = [store EXCEPT ![f.project] = Append(@, [document |-> d, by |-> "window"])]
           /\ flight' = <<[f EXCEPT !.reply = "ok", !.document = d]>>
      \/ UNCHANGED store /\ flight' = <<[f EXCEPT !.reply = "refused", !.document = f.document]>>
  BY DEF CommitMutation
<1> HIDE DEF results
<1>4. ASSUME NEW d \in results,
             store' = [store EXCEPT ![f.project] = Append(@, [document |-> d, by |-> "window"])],
             flight' = <<[f EXCEPT !.reply = "ok", !.document = d]>>
      PROVE  WindowInvariant'
  <2>1. flight' = <<ReplyOf(flight[1], "ok", d)>> BY <1>4 DEF ReplyOf
  <2>2. /\ Appends(flight[1].project, d, "window") /\ IsNext(flight[1].project, d)
        /\ View(d) = flight[1].draft.view
    BY <1>2, <1>4 DEF Appends, Row
  <2> QED BY <1>1, <2>1, <2>2, ReplyKeeps
<1>5. CASE UNCHANGED store /\ flight' = <<[f EXCEPT !.reply = "refused", !.document = f.document]>>
  <2>1. flight' = <<ReplyOf(flight[1], "refused", f.document)>> BY <1>5 DEF ReplyOf
  <2> QED BY <1>1, <1>5, <2>1, ReplyKeeps
<1> QED BY <1>3, <1>4, <1>5

\* The operation at the head of the queue ends.
LEMMA HeadEndsKeeps ==
  ASSUME WindowInvariant, NEW ok \in BOOLEAN, saves # <<>>, flight' = <<>>,
         Finished(Tail(saves), ok, waits),
         UNCHANGED <<scenario, store, drawn, shown, timer>>,
         IsWindow(window'), window'.project = window.project,
         IsControl(control'), IsMap(persisted'), AcceptedIsStored'
  PROVE  WindowInvariant'
<1> USE DEF WindowInvariant
<1>1. IsList(saves) /\ \A i \in DOMAIN saves : IsDraft(saves[i]) BY DEF Shaped, SavesShaped
<1>2. /\ saves' = Tail(saves) /\ IsMap(waits') /\ DOMAIN waits' = DOMAIN Waits
      /\ \A v \in DOMAIN Waits : waits'[v] = EndedOf(waits[v], ok)
  BY FinishedEnds
<1>3. /\ DOMAIN saves = 1 .. Len(saves) /\ IsList(saves') /\ DOMAIN saves' = 1 .. Len(saves) - 1
      /\ \A i \in 1 .. Len(saves) - 1 : saves'[i] = saves[i + 1] /\ i + 1 \in 1 .. Len(saves)
  BY <1>1, <1>2, ListIs, TailIs
<1>4. \A i \in DOMAIN saves' : i + 1 \in DOMAIN saves /\ saves'[i] = saves[i + 1] BY <1>3
<1>5. DrawnDraft' = DrawnDraft BY DEF DrawnDraft, Draft
<1>6. SavesShaped' /\ ShownIsSound' BY <1>1, <1>3, <1>4 DEF SavesShaped, ShownIsSound
<1>7. Shaped'
  BY <1>5, <1>6 DEF Shaped, StoreShaped, ShownShaped, DrawnShaped, FlightShaped
<1>8. HistoriesAreSound' /\ StoredWasShown' /\ NothingIsDrawn' /\ SentIsSound'
  BY DEF HistoriesAreSound, StoredWasShown, NothingIsDrawn, SentIsSound
<1>9. ASSUME NEW v \in DOMAIN Waits PROVE IsWait(waits'[v]) /\ SameOpening(v)
  <2>1. IsWait(waits[v]) BY DEF WaitsShaped
  <2> QED BY <1>2, <2>1, EndedWait DEF SameOpening
<1>10. WaitsShaped' BY <1>2, <1>9 DEF WaitsShaped
<1>11. \A v \in DOMAIN Waits : LoadsStored(v)' BY <1>9, SameStoreKeeps, OpeningKeeps
<1> QED BY <1>6, <1>7, <1>8, <1>10, <1>11

\* A map with one more entry is a map.
LEMMA PutIsMap == \A m, k, v : IsMap(Put(m, k, v))
BY DEF Put, IsMap

LEMMA BeginSaveKeeps ==
  ASSUME WindowInvariant, BeginSave
  PROVE  WindowInvariant'
<1> DEFINE draft == Head(saves)
           Changes == IF control.project = NoOne THEN {}
                      ELSE EditorMutationActions(control.accepted, draft.view)
           Sending(actions) ==
             [project |-> control.project, base |-> control.accepted.revision,
              actions |-> actions, draft |-> draft, latest |-> TRUE,
              current |-> TRUE, reply |-> "none", document |-> control.accepted]
           ok == Saved(draft) \/ Changes # {}
           noted == [control EXCEPT !.noted = <<draft>>]
<1>1. /\ saves # <<>> /\ flight = <<>>
      /\ UNCHANGED <<scenario, store, window, drawn, shown, timer>>
      /\ \/ /\ Finished(Tail(saves), ok, waits) /\ UNCHANGED flight
            /\ control' = IF Saved(draft) THEN control ELSE noted
            /\ persisted' = IF Saved(draft) \/ Changes = {} THEN persisted
                            ELSE Put(persisted, draft.project, draft.view)
         \/ /\ \E actions \in Changes : flight' = <<Sending(actions)>>
            /\ control' = noted /\ UNCHANGED <<persisted, saves, waits>>
  BY DEF BeginSave
<1>2. /\ IsControl(control) /\ IsWindow(window) /\ IsMap(persisted) /\ IsList(saves)
      /\ Shaped /\ WaitsShaped /\ AcceptedIsStored
  BY DEF WindowInvariant, Shaped, SavesShaped
<1>3. draft = saves[1] BY <1>1, <1>2, TailIs
<1>4. /\ IsControl(control') /\ control'.project = control.project
      /\ control'.accepted = control.accepted
  <2>1. CASE control' = control BY <1>2, <2>1
  <2>2. CASE control' = noted
    <3> HIDE DEF draft
    <3> QED BY <1>2, <2>2 DEF IsControl
  <2> QED BY <1>1, <2>1, <2>2
<1>5. AcceptedIsStored' BY <1>1, <1>2, <1>4 DEF AcceptedIsStored, IsStored
<1>6. CASE /\ Finished(Tail(saves), ok, waits) /\ UNCHANGED flight
           /\ persisted' = IF Saved(draft) \/ Changes = {} THEN persisted
                           ELSE Put(persisted, draft.project, draft.view)
  <2>1. IsMap(persisted')
    <3> HIDE DEF draft, Changes
    <3> QED BY <1>2, <1>6, PutIsMap
  <2>2. ok \in BOOLEAN /\ IsWindow(window') /\ window'.project = window.project /\ flight' = <<>>
    BY <1>1, <1>2, <1>6 DEF Saved
  <2> HIDE DEF ok
  <2> QED BY <1>1, <1>4, <1>5, <1>6, <2>1, <2>2, HeadEndsKeeps
<1>7. CASE /\ \E actions \in Changes : flight' = <<Sending(actions)>>
           /\ UNCHANGED <<persisted, saves, waits>>
  <2> USE DEF WindowInvariant
  <2>1. PICK actions \in Changes : flight' = <<Sending(actions)>> BY <1>7
  <2>2. control.project # NoOne /\ actions \in EditorMutationActions(control.accepted, saves[1].view)
    BY <1>3, <2>1
  <2>3. PICK f : f = Sending(actions) OBVIOUS
  <2>4. /\ f.project = control.project /\ f.base = control.accepted.revision
        /\ f.actions = actions /\ f.draft = saves[1] /\ f.reply = "none" /\ IsFlight(f)
    BY <1>3, <2>3 DEF IsFlight
  <2>5. flight' = <<f>> /\ flight'[1] = f BY <2>1, <2>3
  <2>6. IsStored(control.project, control.accepted) BY <1>2, <2>2 DEF AcceptedIsStored
  <2>7. /\ f.project \in ProjectIds
        /\ \E i \in DOMAIN store[f.project] :
             /\ f.base = store[f.project][i].document.revision
             /\ f.actions \in EditorMutationActions(store[f.project][i].document, f.draft.view)
    BY <2>2, <2>4, <2>6 DEF IsStored
  <2> HIDE DEF draft, Changes, Sending
  <2>8. Sends(f, saves, control, store) BY <1>1, <2>4, <2>7 DEF Sends
  <2>9. SentIsSound'
    <3>1. Sends(f, saves', control', store') BY <1>1, <1>4, <1>7, <2>4, <2>7 DEF Sends
    <3> QED BY <2>5, <3>1 DEF SentIsSound
  <2>10. FlightShaped' BY <2>4, <2>5 DEF FlightShaped
  <2>11. DrawnDraft' = DrawnDraft BY <1>1 DEF DrawnDraft, Draft
  <2>12. Shaped'
    BY <1>1, <1>2, <1>4, <1>7, <2>10, <2>11
       DEF Shaped, StoreShaped, ShownShaped, DrawnShaped, SavesShaped, IsWindow
  <2>13. HistoriesAreSound' /\ StoredWasShown' /\ ShownIsSound' /\ NothingIsDrawn'
    BY <1>1, <1>7 DEF HistoriesAreSound, StoredWasShown, ShownIsSound, NothingIsDrawn
  <2>14. WaitsShaped' BY <1>2, <1>7 DEF WaitsShaped
  <2>15. \A v \in DOMAIN Waits : LoadsStored(v)'
    <3>1. \A v \in DOMAIN Waits : SameOpening(v) BY <1>7 DEF SameOpening
    <3> QED BY <1>1, <3>1, SameStoreKeeps, OpeningKeeps
  <2> QED BY <1>5, <2>9, <2>12, <2>13, <2>14, <2>15
<1> QED BY <1>1, <1>6, <1>7

LEMMA AnswerMutationKeeps ==
  ASSUME WindowInvariant, AnswerMutation
  PROVE  WindowInvariant'
<1> DEFINE f == flight[1]
           ok == f.reply = "ok"
           d == f.document
           published == IF f.latest THEN Put(persisted, f.project, View(d)) ELSE persisted
<1>1. /\ flight # <<>> /\ flight' = <<>>
      /\ control' = IF ~f.current THEN control
                    ELSE IF ok THEN [control EXCEPT !.accepted = d, !.failure = FALSE]
                    ELSE [control EXCEPT !.failure = TRUE]
      /\ window' = IF ok /\ f.latest THEN Published(window, d, f.project) ELSE window
      /\ persisted' = IF ok THEN Put(published, f.draft.project, f.draft.view) ELSE persisted
      /\ Finished(Tail(saves), ok, waits)
      /\ UNCHANGED <<scenario, store, drawn, shown, timer>>
  BY DEF AnswerMutation
<1>2. /\ IsControl(control) /\ IsWindow(window) /\ IsMap(persisted) /\ HistoriesAreSound
      /\ AcceptedIsStored
  BY DEF WindowInvariant, Shaped
<1>3. /\ saves # <<>> /\ f.project \in ProjectIds /\ (f.current => f.project = control.project)
      /\ ok => IsStored(f.project, d)
  <2>1. Sends(f, saves, control, store) BY <1>1 DEF WindowInvariant, SentIsSound
  <2> QED BY <2>1 DEF Sends, IsStored
<1>4. ok => WellFormed(View(d))
  <2>1. ok => Showable(d) BY <1>2, <1>3 DEF HistoriesAreSound, Revisions, IsStored
  <2> QED BY <2>1 DEF Showable, View
<1>5. ok \in BOOLEAN OBVIOUS
<1>6. IsMap(persisted')
  <2> HIDE DEF f, published, ok
  <2> QED BY <1>1, <1>2, PutIsMap
<1>7. IsWindow(window') /\ window'.project = window.project
  <2> DEFINE v == View(d)
             phase == IF window.of = f.project THEN "ready" ELSE window.phase
             head == IF window.of = f.project THEN <<d>> ELSE window.head
             new == [window EXCEPT !.view = v, !.phase = phase, !.head = head]
  <2>1. window' = IF ok /\ f.latest THEN new ELSE window BY <1>1 DEF Published
  <2>2. CASE ~(ok /\ f.latest) BY <1>2, <2>1, <2>2
  <2>3. CASE ok /\ f.latest
    <3>1. WellFormed(v) /\ window' = new BY <1>4, <2>1, <2>3
    <3> HIDE DEF v, phase, head
    <3> QED BY <1>2, <3>1 DEF IsWindow
  <2> QED BY <2>2, <2>3
<1> HIDE DEF f, ok, d
<1>8. /\ IsControl(control') /\ control'.project = control.project
      /\ control'.accepted = IF f.current /\ ok THEN d ELSE control.accepted
  <2>1. CASE ~f.current BY <1>1, <1>2, <2>1
  <2>2. CASE f.current
    <3>1. control' = IF ok THEN [control EXCEPT !.accepted = d, !.failure = FALSE]
                     ELSE [control EXCEPT !.failure = TRUE]
      BY <1>1, <2>2
    <3> QED BY <1>2, <2>2, <3>1 DEF IsControl
  <2> QED BY <2>1, <2>2
<1>9. AcceptedIsStored'
  <2>1. control.project # NoOne => IsStored(control.project, control'.accepted)
    BY <1>2, <1>3, <1>8 DEF AcceptedIsStored
  <2> QED BY <1>1, <1>8, <2>1 DEF AcceptedIsStored, IsStored
<1> QED BY <1>1, <1>3, <1>5, <1>6, <1>7, <1>8, <1>9, HeadEndsKeeps

\* Nobody asks again whether another Project was selected, or what is still to be saved.
LEMMA ActivateKeeps ==
  ASSUME WindowInvariant, NEW w \in DOMAIN Waits, Activate(w)
  PROVE  WindowInvariant'
<1> USE DEF WindowInvariant
<1> DEFINE x == waits[w]
           p == x.target
           d == x.document
           view == IF x.keep THEN window.view ELSE View(d)
<1>1. /\ x.pc = "loaded" /\ Over(w, "over")
      /\ flight' = IF flight = <<>> THEN <<>>
                   ELSE <<[flight[1] EXCEPT !.latest = FALSE, !.current = FALSE]>>
      /\ control' = [project |-> p, accepted |-> d, noted |-> <<>>, failure |-> FALSE]
      /\ persisted' = Put(persisted, p, View(d))
      /\ window' = [phase |-> "ready", of |-> p, head |-> <<d>>, project |-> p,
                    view |-> view, unassigned |-> FALSE]
      /\ UNCHANGED <<scenario, store, saves, drawn, shown, timer>>
  BY DEF Activate
<1>2. /\ IsWindow(window) /\ WaitsShaped /\ IsWait(x) /\ LoadsStored(w)
  BY DEF Shaped, WaitsShaped
<1>3. Kind(w) = "open" /\ Live(w) /\ p \in ProjectIds /\ IsStored(p, d)
  BY <1>1, <1>2 DEF LoadsStored, Hydrates, Live
<1>4. Showable(d) /\ WellFormed(View(d))
  <2>1. Showable(d) BY <1>3 DEF HistoriesAreSound, Revisions, IsStored
  <2> QED BY <2>1 DEF Showable, View
<1>5. WellFormed(view) BY <1>2, <1>4 DEF IsWindow
<1>6. /\ waits'[w].pc = "over" /\ \A v \in DOMAIN Waits : v # w => waits'[v] = waits[v]
      /\ WaitsShaped'
  <2>1. /\ waits'[w] = PcOf(waits[w], "over") /\ WaitsShaped'
        /\ \A v \in DOMAIN Waits : v # w => waits'[v] = waits[v]
    BY <1>1, <1>2, OverIs DEF Pcs
  <2>2. "over" \in Pcs BY DEF Pcs
  <2> QED BY <1>2, <2>1, <2>2, PcWait
<1>7. IsMap(persisted') BY <1>1, PutIsMap
<1> HIDE DEF x, view
<1>8. /\ IsWindow(window') /\ window'.project = p
      /\ IsControl(control') /\ control'.project = p /\ control'.accepted = d
  <2> HIDE DEF p, d
  <2> QED BY <1>1, <1>3, <1>5 DEF IsWindow, IsControl
<1>9. FlightShaped' /\ SentIsSound'
  <2>1. CASE flight = <<>> BY <1>1, <2>1 DEF FlightShaped, SentIsSound
  <2>2. CASE flight # <<>>
    <3> DEFINE f == flight[1]
               g == [f EXCEPT !.latest = FALSE, !.current = FALSE]
    <3>1. flight' = <<g>> /\ flight'[1] = g BY <1>1, <2>2
    <3>2. IsFlight(f) /\ Sends(f, saves, control, store) /\ saves # <<>>
      BY <2>2 DEF Shaped, FlightShaped, SentIsSound, Sends
    <3> HIDE DEF f
    <3>3. /\ IsFlight(g) /\ g.project = f.project /\ g.base = f.base /\ g.actions = f.actions
          /\ g.draft = f.draft /\ g.current = FALSE /\ g.reply = f.reply
          /\ g.document = f.document
      BY <3>2, LeftFlight
    <3> HIDE DEF g
    <3>4. Sends(g, saves, control', store) BY <3>2, <3>3, SendsStays
    <3> QED BY <1>1, <3>1, <3>3, <3>4 DEF FlightShaped, SentIsSound
  <2> QED BY <2>1, <2>2
<1>10. DrawnDraft' = DrawnDraft BY <1>1 DEF DrawnDraft, Draft
<1>11. Shaped'
  BY <1>1, <1>7, <1>8, <1>9, <1>10
     DEF Shaped, StoreShaped, ShownShaped, DrawnShaped, SavesShaped
<1>12. HistoriesAreSound' /\ StoredWasShown' /\ ShownIsSound'
  BY <1>1 DEF HistoriesAreSound, StoredWasShown, ShownIsSound
<1>13. NothingIsDrawn'
  <2>1. p # NoOne BY <1>3, NoOneIsNoProject
  <2> QED BY <1>1, <1>8, <2>1 DEF NothingIsDrawn
<1>14. AcceptedIsStored' BY <1>1, <1>3, <1>8 DEF AcceptedIsStored, IsStored
<1>15. ASSUME NEW v \in DOMAIN Waits PROVE LoadsStored(v)'
  <2>1. CASE v = w BY <1>6, <2>1 DEF LoadsStored, Live, Hydrates
  <2>2. CASE v # w
    <3>1. SameOpening(v) BY <1>6, <2>2 DEF SameOpening
    <3> QED BY <1>1, <3>1, SameStoreKeeps, OpeningKeeps
  <2> QED BY <2>1, <2>2
<1> QED BY <1>6, <1>9, <1>11, <1>12, <1>13, <1>14, <1>15

----------------------------------------------------------------------------
(* The invariant holds.                                                    *)

LEMMA WorkspaceStarts ==
  ASSUME Init
  PROVE  WorkspaceInvariant
<1>1. /\ scenario \in Scenarios /\ store = scenario.workflows
      /\ shown = [p \in ProjectIds |-> <<>>]
      /\ window = NoWindow /\ drawn = Draw(NoWindow)
      /\ timer = <<>> /\ persisted = <<>> /\ saves = <<>> /\ flight = <<>>
      /\ control = [project |-> NoOne, accepted |-> EmptyDocument(0), noted |-> <<>>,
                    failure |-> FALSE]
      /\ waits = [w \in DOMAIN Waits |-> Asleep]
  BY DEF Init
<1>2. StoredBefore(store) BY <1>1, WorkspaceAssumption
<1>3. StoreShaped /\ HistoriesAreSound BY <1>2 DEF StoredBefore, StoreShaped, HistoriesAreSound
<1>4. ShownShaped /\ SavesShaped /\ FlightShaped
  BY <1>1, EmptyList DEF ShownShaped, SavesShaped, FlightShaped, IsMap
<1>5. drawn = [project |-> NoOne, view |-> EmptyView, head |-> <<>>]
  BY <1>1 DEF Draw, NoWindow
<1>6. WellFormed(EmptyView) BY EmptyIsShowable
<1>7. /\ DrawnShaped /\ IsWindow(window)
      /\ window.project = NoOne /\ window.head = <<>> /\ window.view = EmptyView
  BY <1>1, <1>5, <1>6 DEF DrawnShaped, IsWindow, NoWindow
<1>8. IsControl(control) /\ control.project = NoOne
  <2> DEFINE d == EmptyDocument(0)
  <2> HIDE DEF d
  <2>1. control = [project |-> NoOne, accepted |-> d, noted |-> <<>>, failure |-> FALSE]
    BY <1>1 DEF d
  <2> QED BY <2>1 DEF IsControl
<1>9. IsMap(persisted) BY <1>1 DEF IsMap
<1>10. Shaped BY <1>1, <1>3, <1>4, <1>7, <1>8, <1>9 DEF Shaped
<1>11. AcceptedIsSound /\ FlightIsSound BY <1>1, <1>8 DEF AcceptedIsSound, FlightIsSound
<1>12. StoredAsShown
  BY <1>2 DEF StoredBefore, StoredAsShown
<1>13. ShownIsSound BY <1>1, <1>5, EmptyList DEF ShownIsSound
<1>14. DraftsAreSafe BY <1>1, <1>5, <1>7, <1>8, EmptyList DEF DraftsAreSafe
<1>15. ASSUME NEW w \in DOMAIN Waits
       PROVE  /\ waits[w] = Asleep /\ IsWait(waits[w]) /\ waits[w].pc = "new"
              /\ ~waits[w].current /\ ~waits[w].again
  BY <1>1, AsleepIs DEF Asleep
<1>16. ASSUME NEW w \in DOMAIN Waits PROVE WaitIsSound(w)
  BY <1>15 DEF WaitIsSound, SavingIsSound, BarrierIsSound, OpeningIsSound, Hydrates, Live
<1>17. WaitsAreSound
  BY <1>1, <1>15, <1>16 DEF WaitsAreSound, WaitsShaped, OneIsCurrent, IsMap
<1>18. HeadsAreSound BY <1>5, <1>7, <1>15 DEF HeadsAreSound, IsHead
<1> QED BY <1>3, <1>10, <1>11, <1>12, <1>13, <1>14, <1>17, <1>18
        DEF WorkspaceInvariant, RestIsSound

LEMMA WorkspaceStep ==
  ASSUME scenario.patient, WorkspaceInvariant, [Next]_vars
  PROVE  WorkspaceInvariant'
<1>1. CASE UNCHANGED workspaceVars BY <1>1, NothingChanges
<1>2. CASE Boot BY <1>2, BootIsSound
<1>3. CASE Render BY <1>3, RenderIsSound
<1>4. CASE TimerFires BY <1>4, TimerFiresIsSound
<1>5. CASE BeginSave BY <1>5, BeginSaveIsSound
<1>6. CASE CommitMutation BY <1>6, CommitMutationIsSound
<1>7. CASE AnswerMutation BY <1>7, AnswerMutationIsSound
<1>8. ASSUME NEW e \in scenario.edits, Edit(e) PROVE WorkspaceInvariant' BY <1>8, EditIsSound
<1>9. ASSUME NEW w \in DOMAIN Waits,
             Ask(w) \/ WaitStep(w) \/ \E p \in ProjectIds : OpenProject(w, p)
      PROVE  WorkspaceInvariant'
  <2>1. CASE Ask(w) BY <2>1, AskIsSound
  <2>2. CASE SaveEnds(w) BY <2>2, SaveEndsIsSound
  <2>3. CASE FlushEnds(w) BY <2>3, FlushEndsIsSound
  <2>4. CASE AnswerOpen(w) BY <2>4, AnswerOpenIsSound
  <2>5. CASE LoadWorkflow(w) BY <2>5, LoadWorkflowIsSound
  <2>6. CASE Refusal(w) BY <2>6, RefusalIsSound
  <2>7. CASE Activate(w) BY <2>7, ActivateIsSound
  <2>8. ASSUME NEW p \in ProjectIds, OpenProject(w, p) PROVE WorkspaceInvariant'
    BY <2>8, OpenProjectIsSound
  <2> QED BY <1>9, <2>1, <2>2, <2>3, <2>4, <2>5, <2>6, <2>7, <2>8 DEF WaitStep
<1>10. ASSUME NEW p \in ProjectIds, NEW actions \in scenario.assistant, AssistantCommits(p, actions)
       PROVE  WorkspaceInvariant'
  BY <1>10, AssistantCommitsIsSound
<1>11. UNCHANGED workspaceVars \/ Next BY DEF vars
<1> QED BY <1>1, <1>2, <1>3, <1>4, <1>5, <1>6, <1>7, <1>8, <1>9, <1>10, <1>11
        DEF Next, ProjectsStep

LEMMA WindowStarts ==
  ASSUME Init
  PROVE  WindowInvariant
<1>1. RestIsSound /\ WaitsShaped BY WorkspaceStarts DEF WorkspaceInvariant, WaitsAreSound
<1>2. Shaped /\ HistoriesAreSound /\ ShownIsSound BY <1>1 DEF RestIsSound
<1>3. StoredWasShown BY <1>1 DEF RestIsSound, StoredAsShown, StoredWasShown
<1>4. /\ flight = <<>> /\ timer = <<>> /\ drawn.project = NoOne /\ control.project = NoOne
      /\ waits = [w \in DOMAIN Waits |-> Asleep]
  BY DEF Init, Draw, NoWindow
<1>5. NothingIsDrawn /\ AcceptedIsStored /\ SentIsSound
  BY <1>4 DEF NothingIsDrawn, AcceptedIsStored, SentIsSound
<1>6. ASSUME NEW w \in DOMAIN Waits PROVE LoadsStored(w)
  <2>1. waits[w].pc = "new" BY <1>4 DEF Asleep
  <2> QED BY <2>1 DEF LoadsStored, Live, Hydrates
<1> QED BY <1>1, <1>2, <1>3, <1>5, <1>6 DEF WindowInvariant

LEMMA WindowStep ==
  ASSUME WindowInvariant, [Next]_vars
  PROVE  WindowInvariant'
<1>1. CASE UNCHANGED workspaceVars BY <1>1, NothingKeeps
<1>2. CASE Boot BY <1>2, BootKeeps
<1>3. CASE Render BY <1>3, RenderKeeps
<1>4. CASE TimerFires BY <1>4, TimerFiresKeeps
<1>5. CASE BeginSave BY <1>5, BeginSaveKeeps
<1>6. CASE CommitMutation BY <1>6, CommitMutationKeeps
<1>7. CASE AnswerMutation BY <1>7, AnswerMutationKeeps
<1>8. ASSUME NEW e \in scenario.edits, Edit(e) PROVE WindowInvariant' BY <1>8, EditKeeps
<1>9. ASSUME NEW w \in DOMAIN Waits,
             Ask(w) \/ WaitStep(w) \/ \E p \in ProjectIds : OpenProject(w, p)
      PROVE  WindowInvariant'
  <2>1. CASE Ask(w) BY <2>1, AskKeeps
  <2>2. CASE SaveEnds(w) BY <2>2, SaveEndsKeeps
  <2>3. CASE FlushEnds(w) BY <2>3, FlushEndsKeeps
  <2>4. CASE AnswerOpen(w) BY <2>4, AnswerOpenKeeps
  <2>5. CASE LoadWorkflow(w) BY <2>5, LoadWorkflowKeeps
  <2>6. CASE Refusal(w)
    <3>1. Fails(w) /\ FailStep BY <2>6 DEF Refusal, FailStep
    <3> QED BY <3>1, FailKeeps
  <2>7. CASE Activate(w) BY <2>7, ActivateKeeps
  <2>8. ASSUME NEW p \in ProjectIds, OpenProject(w, p) PROVE WindowInvariant'
    BY <2>8, OpenProjectKeeps
  <2> QED BY <1>9, <2>1, <2>2, <2>3, <2>4, <2>5, <2>6, <2>7, <2>8 DEF WaitStep
<1>10. ASSUME NEW p \in ProjectIds, NEW actions \in scenario.assistant, AssistantCommits(p, actions)
       PROVE  WindowInvariant'
  BY <1>10, AssistantCommitsKeeps
<1>11. UNCHANGED workspaceVars \/ Next BY DEF vars
<1> QED BY <1>1, <1>2, <1>3, <1>4, <1>5, <1>6, <1>7, <1>8, <1>9, <1>10, <1>11
        DEF Next, ProjectsStep

LEMMA ScenarioStays ==
  ASSUME [Next]_vars
  PROVE  scenario' = scenario
<1>1. CASE ProjectsStep \/ UNCHANGED vars BY <1>1 DEF ProjectsStep, vars, workspaceVars
<1>2. CASE Boot \/ Render \/ TimerFires BY <1>2 DEF Boot, Render, TimerFires
<1>3. CASE BeginSave \/ CommitMutation \/ AnswerMutation
  BY <1>3 DEF BeginSave, CommitMutation, AnswerMutation
<1>4. CASE \E e \in scenario.edits : Edit(e) BY <1>4 DEF Edit
<1>5. CASE \E w \in DOMAIN Waits : Ask(w) \/ WaitStep(w) \/ \E p \in ProjectIds : OpenProject(w, p)
  BY <1>5 DEF Ask, OpenProject, WaitStep, SaveEnds, FlushEnds, AnswerOpen, LoadWorkflow, Refusal,
              Activate
<1>6. CASE \E p \in ProjectIds, actions \in scenario.assistant : AssistantCommits(p, actions)
  BY <1>6 DEF AssistantCommits
<1> QED BY <1>1, <1>2, <1>3, <1>4, <1>5, <1>6 DEF Next

\* Whatever is edited or opened, and whenever: what is accepted and what is sent is of a
\* revision of its Project, and what the window has stored it has shown.
THEOREM WindowIsSound == Spec => []WindowInvariant
<1>1. Init => WindowInvariant BY WindowStarts
<1>2. WindowInvariant /\ [Next]_vars => WindowInvariant' BY WindowStep
<1> QED BY <1>1, <1>2, PTL DEF Spec

\* More holds while the user waits for a Project to be opened (scenario.patient): what is
\* drawn is safe, a barrier that has ended has saved all of it.  An edit made, or a Project
\* opened, during hydrate takes the canvas from under the barrier it has passed
\* (useProjectWorkspace.ts:205).
THEOREM WorkspaceIsSound == Spec => [](scenario.patient => WorkspaceInvariant)
<1> DEFINE Inv == scenario.patient => WorkspaceInvariant
<1>1. Init => Inv BY WorkspaceStarts
<1>2. ASSUME Inv, [Next]_vars PROVE Inv'
  <2>1. scenario' = scenario BY <1>2, ScenarioStays
  <2>2. scenario.patient => WorkspaceInvariant' BY <1>2, WorkspaceStep
  <2> QED BY <2>1, <2>2
<1>3. Inv /\ [Next]_vars => Inv' BY <1>2
<1> HIDE DEF Inv
<1>4. Spec => []Inv BY <1>1, <1>3, PTL DEF Spec
<1> QED BY <1>4 DEF Inv

\* SavedIsShown: every revision the window stores after the first is, whole, a draft it
\* has shown, whatever is edited or opened meanwhile: the difference the window sends
\* makes the draft of the document the backend applies it to.  If the user waits while a
\* Project is opened (scenario.patient), it is a draft of that very Project.
THEOREM WindowStoresWhatItShows == Spec => []SavedIsShown
<1>1. WindowInvariant /\ (scenario.patient => WorkspaceInvariant) => SavedIsShown
  <2> SUFFICES ASSUME StoredWasShown, scenario.patient => StoredAsShown PROVE SavedIsShown
    BY DEF WindowInvariant, WorkspaceInvariant, RestIsSound
  <2>1. CASE scenario.patient BY <2>1 DEF StoredAsShown, SavedIsShown
  <2>2. CASE ~scenario.patient BY <2>2 DEF StoredWasShown, SavedIsShown
  <2> QED BY <2>1, <2>2
<1>2. Spec => []WindowInvariant BY WindowIsSound
<1>3. Spec => [](scenario.patient => WorkspaceInvariant) BY WorkspaceIsSound
<1> QED BY <1>1, <1>2, <1>3, PTL

----------------------------------------------------------------------------
(* What a barrier lets go.                                                 *)

LEMMA OthersKeepPc ==
  ASSUME NEW v, NEW w \in DOMAIN Waits, v # w, NEW ws, DOMAIN ws = DOMAIN Waits, IsMap(ws),
         NEW y, waits' = [ws EXCEPT ![v] = y]
  PROVE  waits'[w] = ws[w]
BY DEF IsMap

LEMMA OnlyFlushEnds ==
  ASSUME WaitsShaped, Next, NEW w \in DOMAIN Waits, waits[w].pc = "flushing",
         waits'[w].pc # "flushing"
  PROVE  FlushEnds(w)
<1>1. IsMap(waits) /\ DOMAIN waits = DOMAIN Waits /\ IsWait(waits[w]) BY DEF WaitsShaped
<1>2. waits'[w] # waits[w] OBVIOUS
<1>3. ~UNCHANGED workspaceVars BY <1>2 DEF workspaceVars, windowVars
<1>4. ~Boot /\ ~TimerFires /\ ~CommitMutation BY <1>2 DEF Boot, TimerFires, CommitMutation
<1>5. ASSUME NEW p, NEW actions, AssistantCommits(p, actions) PROVE FALSE
  BY <1>2, <1>5 DEF AssistantCommits, windowVars
<1>6. ASSUME NEW x, Redraw(x) PROVE FALSE
  <2>1. \/ UNCHANGED waits
        \/ waits' = [v \in DOMAIN Waits |-> [waits[v] EXCEPT !.moved = TRUE]]
    BY <1>6 DEF Redraw
  <2>2. waits' = [v \in DOMAIN Waits |-> [waits[v] EXCEPT !.moved = TRUE]] BY <1>2, <2>1
  <2>3. waits'[w] = MovedOf(waits[w]) BY <2>2 DEF MovedOf
  <2>4. waits'[w].pc = waits[w].pc BY <1>1, <2>3, MovedWait
  <2> QED BY <2>4
<1>7. ~Render BY <1>6 DEF Render
<1>8. ASSUME NEW e, Edit(e) PROVE FALSE BY <1>6, <1>8 DEF Edit
<1>9. ASSUME NEW queue, NEW ok \in BOOLEAN, Finished(queue, ok, waits) PROVE FALSE
  <2>1. waits'[w] = EndedOf(waits[w], ok) BY <1>9, FinishedEnds
  <2>2. waits'[w].pc = waits[w].pc BY <1>1, <2>1, EndedWait
  <2> QED BY <2>2
<1>10. ~AnswerMutation
  <2>1. (flight[1].reply = "ok") \in BOOLEAN OBVIOUS
  <2> QED BY <1>9, <2>1 DEF AnswerMutation
<1>11. ~BeginSave
  <2> SUFFICES ASSUME BeginSave PROVE FALSE OBVIOUS
  <2> DEFINE Changes == IF control.project = NoOne THEN {}
                        ELSE EditorMutationActions(control.accepted, Head(saves).view)
             ok == Saved(Head(saves)) \/ Changes # {}
  <2>1. Finished(Tail(saves), ok, waits) \/ UNCHANGED waits BY DEF BeginSave
  <2>2. ok \in BOOLEAN BY DEF Saved
  <2> HIDE DEF ok
  <2> QED BY <1>2, <1>9, <2>1, <2>2
<1>12. ASSUME NEW v, v # w, NEW x, SaveCurrent(v, x, waits) PROVE FALSE
  BY <1>1, <1>2, <1>12, OthersKeepPc DEF SaveCurrent
<1>13. ASSUME NEW v, v # w, NEW pc, Over(v, pc) PROVE FALSE
  BY <1>1, <1>2, <1>13 DEF Over, IsMap
<1>14. ASSUME NEW v, v # w, Fails(v) PROVE FALSE BY <1>13, <1>14 DEF Fails
<1>15. ASSUME NEW v \in DOMAIN Waits, Ask(v) PROVE FALSE
  <2>1. v # w BY <1>15 DEF Ask
  <2> QED BY <1>12, <1>15, <2>1 DEF Ask
<1>16. ASSUME NEW v \in DOMAIN Waits, NEW p, OpenProject(v, p) PROVE FALSE
  <2>1. v # w BY <1>16 DEF OpenProject
  <2> DEFINE others == [u \in DOMAIN Waits |-> [waits[u] EXCEPT !.current = FALSE]]
  <2>2. PICK x : SaveCurrent(v, x, others) BY <1>16 DEF OpenProject
  <2>3. DOMAIN others = DOMAIN Waits /\ IsMap(others) BY DEF IsMap
  <2>4. waits'[w] = others[w]
    <3> HIDE DEF others
    <3> QED BY <2>1, <2>2, <2>3, OthersKeepPc DEF SaveCurrent
  <2>5. waits'[w].pc = waits[w].pc BY <1>1, <2>4 DEF IsWait
  <2> QED BY <2>5
<1>17. ASSUME NEW v \in DOMAIN Waits, v # w, FlushEnds(v) PROVE FALSE
  <2>1. Fails(v) \/ Over(v, "over") \/ waits' = [waits EXCEPT ![v].pc = "asking", ![v].started = TRUE]
        \/ waits' = [waits EXCEPT ![v].pc = "loading",
                                  ![v].keep = waits[v].before = NoOne /\ window.unassigned]
    BY <1>17 DEF FlushEnds, Release
  <2> QED BY <1>1, <1>2, <1>13, <1>14, <1>17, <2>1 DEF IsMap
<1>18. ASSUME NEW v \in DOMAIN Waits, SaveEnds(v) PROVE FALSE
  <2>1. v # w BY <1>18 DEF SaveEnds
  <2>2. Fails(v) \/ SaveCurrent(v, waits[v], waits) \/ waits' = [waits EXCEPT ![v] = Flushing(@)]
    BY <1>18 DEF SaveEnds
  <2> QED BY <1>1, <1>2, <1>12, <1>14, <2>1, <2>2 DEF IsMap
<1>19. ASSUME NEW v \in DOMAIN Waits, AnswerOpen(v) PROVE FALSE
  <2>1. v # w BY <1>19 DEF AnswerOpen
  <2> QED BY <1>12, <1>14, <1>19, <2>1 DEF AnswerOpen
<1>20. ASSUME NEW v \in DOMAIN Waits, LoadWorkflow(v) PROVE FALSE
  <2>1. v # w BY <1>20 DEF LoadWorkflow
  <2>2. Over(v, "refused") \/ \E d : waits' = [waits EXCEPT ![v].pc = "loaded", ![v].document = d]
    BY <1>20 DEF LoadWorkflow
  <2> QED BY <1>1, <1>2, <1>13, <2>1, <2>2 DEF IsMap
<1>21. ASSUME NEW v \in DOMAIN Waits, Refusal(v) \/ Activate(v) PROVE FALSE
  <2>1. v # w BY <1>21 DEF Refusal, Activate
  <2> QED BY <1>13, <1>14, <1>21, <2>1 DEF Refusal, Activate
<1>22. ASSUME NEW v \in DOMAIN Waits, WaitStep(v) PROVE FlushEnds(w)
  BY <1>17, <1>18, <1>19, <1>20, <1>21, <1>22 DEF WaitStep
<1> QED BY <1>3, <1>4, <1>5, <1>7, <1>8, <1>10, <1>11, <1>15, <1>16, <1>22 DEF Next, ProjectsStep

\* At the barrier the document that is accepted is what is drawn, and all that is drawn.
LEMMA ReleaseIsSound ==
  ASSUME WorkspaceInvariant, Next, NEW w \in DOMAIN Waits, Releases(w)
  PROVE  /\ drawn.project = control.project /\ drawn.project \in ProjectIds
         /\ drawn.project = window.project
         /\ ShownSince(w, control.accepted) /\ IsLatestOf(drawn.project, control.accepted)
         /\ IsStored(drawn.project, control.accepted)
<1> USE DEF WorkspaceInvariant
<1> DEFINE x == waits[w]
           q == drawn.project
<1>1. /\ x.pc = "flushing" /\ waits'[w].pc \notin {"flushing", "failed"} /\ q # NoOne
      /\ Kind(w) = "open" /\ waits'[w].pc = "over" => x.again
  BY DEF Releases
<1>2. WaitsShaped /\ WaitIsSound(w) /\ IsMap(waits) /\ DOMAIN waits = DOMAIN Waits /\ IsWait(x)
  BY DEF WaitsAreSound, WaitsShaped
<1>3. FlushEnds(w) BY <1>1, <1>2, OnlyFlushEnds
<1>4. \A pc \in Pcs : Over(w, pc) => waits'[w].pc = pc
  <2>1. ASSUME NEW pc \in Pcs, Over(w, pc) PROVE waits'[w].pc = pc
    BY <1>2, <2>1, OverIs, PcWait
  <2> QED BY <2>1
<1>5. Release(w)
  <2>1. Fails(w) => waits'[w].pc = "failed" BY <1>4 DEF Fails, Pcs
  <2> QED BY <1>1, <1>3, <2>1 DEF FlushEnds
<1>6. q = window.project
  <2>1. CASE Kind(w) # "open" \/ ~x.started
    BY <1>1, <1>2, <2>1 DEF WaitIsSound, BarrierIsSound
  <2>2. CASE Kind(w) = "open" /\ x.started
    <3>1. Live(w) BY <1>1, <2>2 DEF Live
    <3>2. ~x.again BY <1>2, <2>2 DEF WaitIsSound, BarrierIsSound
    <3>3. x.current
      <4>1. ASSUME ~x.current PROVE FALSE
        <5>1. Over(w, "over") BY <1>5, <2>2, <3>2, <4>1 DEF Release
        <5>2. waits'[w].pc = "over" BY <1>4, <5>1 DEF Pcs
        <5> QED BY <1>1, <2>2, <3>2, <5>2
      <4> QED BY <4>1
    <3> QED BY <1>2, <3>1, <3>3 DEF WaitIsSound, OpeningIsSound
  <2> QED BY <2>1, <2>2
<1>7. /\ Still /\ x.since = Len(shown[q])
  BY <1>1, <1>2 DEF WaitIsSound, BarrierIsSound
<1>8. q = control.project /\ q \in ProjectIds
  BY <1>1, <1>6 DEF RestIsSound, DraftsAreSafe, Shaped, DrawnShaped
<1>9. /\ IsStored(q, control.accepted) /\ IsLatestOf(q, control.accepted)
      /\ Saved(Draft(q, View(control.accepted)))
  BY <1>1, <1>7, <1>8 DEF RestIsSound, AcceptedIsSound, HasCommitted, Still
<1>10. View(control.accepted) = drawn.view
  <2>1. Saved(DrawnDraft) BY <1>1, <1>7 DEF Still
  <2> QED BY <1>9, <2>1 DEF Saved, Draft, DrawnDraft
<1>11. ShownSince(w, control.accepted)
  <2> DEFINE h == shown[q]
  <2>1. IsList(h) /\ h # <<>> /\ Last(h) = drawn.view
    BY <1>1, <1>8 DEF RestIsSound, Shaped, ShownShaped, ShownIsSound
  <2> HIDE DEF h
  <2>2. Len(h) \in Nat /\ Len(h) # 0 /\ h[Len(h)] = drawn.view BY <2>1, ListIs
  <2>3. Len(h) \in Len(h) .. Len(h) BY <2>2
  <2> QED BY <1>7, <1>10, <2>2, <2>3 DEF ShownSince, h
<1> QED BY <1>6, <1>8, <1>9, <1>11

\* BarrierSaves: while the user waits for a Project to be opened (scenario.patient, its
\* premise), a Run, an Assistant turn, another Project or the closing of the window goes
\* ahead only when the document that is accepted is what the canvas shows, and is the
\* last that the window has stored, whatever was queued, refused or edited before.
THEOREM BarriersSave == Spec => BarrierSaves
<1>1. ASSUME WorkspaceInvariant, Next, NEW w \in DOMAIN Waits, Releases(w)
      PROVE  /\ ShownSince(w, control.accepted)
             /\ \E i \in DOMAIN store[drawn.project] :
                  /\ store[drawn.project][i].document = control.accepted
                  /\ \A j \in DOMAIN store[drawn.project] :
                       j > i => store[drawn.project][j].by = "assistant"
  BY <1>1, ReleaseIsSound DEF IsLatestOf
<1>2. Spec => [](scenario.patient => WorkspaceInvariant) BY WorkspaceIsSound
<1> DEFINE Inv == scenario.patient => WorkspaceInvariant
           A == \A w \in DOMAIN Waits : scenario.patient /\ Releases(w) =>
                  /\ ShownSince(w, control.accepted)
                  /\ \E i \in DOMAIN store[drawn.project] :
                       /\ store[drawn.project][i].document = control.accepted
                       /\ \A j \in DOMAIN store[drawn.project] :
                            j > i => store[drawn.project][j].by = "assistant"
<1>3. Inv /\ [Next]_vars => [A]_vars BY <1>1
<1>4. BarrierSaves <=> [][A]_vars BY DEF BarrierSaves
<1>5. Spec => []Inv BY <1>2
<1> HIDE DEF A, Inv
<1> QED BY <1>3, <1>4, <1>5, PTL DEF Spec

\* RunIsWhatWasShown, under the same premise: the head that a Run is asked for is a
\* revision the window has had accepted; when the backend admits it as the newest, it is
\* the one the barrier stored.
THEOREM AdmittedRunsAreShown == Spec => RunIsWhatWasShown
<1>1. ASSUME WorkspaceInvariant, Next, NEW w \in DOMAIN Waits, Releases(w), drawn.head # <<>>,
             drawn.head[1].revision = Newest(drawn.project).revision
      PROVE  ShownSince(w, drawn.head[1])
  <2> DEFINE q == drawn.project
             a == control.accepted
             h == drawn.head[1]
             newest == Newest(q)
  <2>1. /\ q = control.project /\ q \in ProjectIds /\ q = window.project
        /\ ShownSince(w, a) /\ IsStored(q, a)
    BY <1>1, ReleaseIsSound
  <2>2. IsHead(q, drawn.head) BY <1>1, <2>1 DEF WorkspaceInvariant, HeadsAreSound
  <2>3. IsStored(q, h) /\ h.revision <= a.revision BY <1>1, <2>2 DEF IsHead
  <2>4. StoreShaped /\ HistoriesAreSound BY <1>1 DEF WorkspaceInvariant, RestIsSound, Shaped
  <2>5. store[q] # <<>> BY <2>1, EmptyList DEF IsStored
  <2>6. /\ a.revision \in Nat /\ a.revision <= newest.revision
        /\ a.revision = newest.revision => a = newest
        /\ h.revision \in Nat /\ (h.revision = newest.revision => h = newest)
    BY <2>1, <2>3, <2>4, <2>5, NewestIs
  <2>7. h.revision = newest.revision BY <1>1
  <2> HIDE DEF h, newest, a
  <2>8. a.revision = newest.revision BY <2>3, <2>6, <2>7
  <2>9. h = a BY <2>6, <2>7, <2>8
  <2> QED BY <2>1, <2>9 DEF h, a
<1>2. Spec => [](scenario.patient => WorkspaceInvariant) BY WorkspaceIsSound
<1> DEFINE Inv == scenario.patient => WorkspaceInvariant
           A == \A w \in DOMAIN Waits :
                  scenario.patient /\ Releases(w) /\ Kind(w) = "run" /\ drawn.head # <<>>
                    /\ drawn.head[1].revision = Newest(drawn.project).revision
                  => ShownSince(w, drawn.head[1])
<1>3. Inv /\ [Next]_vars => [A]_vars BY <1>1
<1>4. RunIsWhatWasShown <=> [][A]_vars BY DEF RunIsWhatWasShown
<1>5. Spec => []Inv BY <1>2
<1> HIDE DEF A, Inv
<1> QED BY <1>3, <1>4, <1>5, PTL DEF Spec
=============================================================================
