------------------------- MODULE WorkflowRunProofs -------------------------
(***************************************************************************)
(* Theorems about WorkflowRun, for every plan, number of slots and number  *)
(* of restarts.  First what a step can do to the Run, once the event count *)
(* has refused every stale copy; then that this keeps the invariant; then  *)
(* the properties, which only look at the Run; last who drives it on.      *)
(***************************************************************************)
EXTENDS WorkflowRun, TLAPS

----------------------------------------------------------------------------
(* The changes of the Run, as WorkflowRun makes them.                      *)

Begins == run.state = "Queued" /\ run' = Record(run, "Running", run.nodes)

Starts ==
  /\ run.state = "Running"
  /\ \E batch \in SUBSET Nodes :
       /\ \A n \in batch : /\ run.nodes[n] = "Pending"
                           /\ \A u \in Upstream[n] : run.nodes[u] = "Succeeded"
       /\ run' = Record(run, "Running", Move(run, batch, "Running"))

Blocks ==
  /\ run.state = "Running"
  /\ \E blocked \in SUBSET Nodes :
       /\ blocked # {}
       /\ \A n \in blocked : /\ run.nodes[n] = "Pending"
                             /\ \E u \in Nodes : u \in Ancestors[n] /\ run.nodes[u] = "Failed"
       /\ run' = Record(run, "Running", Move(run, blocked, "Blocked"))

HandsOff ==
  /\ run.state = "Running"
  /\ \E n \in Nodes :
       /\ run.nodes[n] = "Running" /\ call[n] = "Waiting"
       /\ run' = Record(run, "Running", Move(run, {n}, "Waiting"))

Ends ==
  \E n \in Nodes, outcome \in {"Succeeded", "Failed"} :
    /\ \/ run.state = "Running" /\ run.nodes[n] \in {"Running", "Waiting"}
       \/ run.state = "Interrupted" /\ run.nodes[n] = "Waiting"
    /\ run' = Record(run, run.state, Move(run, {n}, outcome))

Finishes ==
  /\ run.state = "Running" /\ \A n \in Nodes : run.nodes[n] \in NodeTerminal
  /\ \/ /\ \E n \in Nodes : run.nodes[n] = "Failed"
        /\ run' = Record(run, "Failed", run.nodes)
     \/ /\ \A n \in Nodes : run.nodes[n] = "Succeeded"
        /\ run' = Record(run, "Succeeded", run.nodes)

Cancels ==
  /\ Live(run)
  /\ run' = Record(run, "Cancelled",
              [n \in Nodes |-> IF run.nodes[n] \in NodeTerminal THEN run.nodes[n] ELSE "Cancelled"])

\* Only startup recovery interrupts.
Interrupts ==
  host # "Up" /\ run.state = "Running" /\ run' = Record(run, "Interrupted", run.nodes)

Change ==
  Begins \/ Starts \/ Blocks \/ HandsOff \/ Ends \/ Finishes \/ Cancels \/ Interrupts

\* What everyone who holds a copy may rely on: the count tells a changed Run, no
\* node becomes Pending again, what has ended has ended.
LEMMA ChangeIsForward ==
  ASSUME run \in RunType, Change
  PROVE  /\ run' \in RunType
         /\ run'.events = run.events + 1
         /\ \A n \in Nodes : /\ run.nodes[n] # "Pending" => run'.nodes[n] # "Pending"
                             /\ run.nodes[n] \in NodeTerminal => run'.nodes[n] = run.nodes[n]
<1> USE DEF Record, Move, RunType, RunStates, RunTerminal, NodeStates, NodeTerminal
<1>1. CASE Begins
  BY <1>1 DEF Begins
<1>2. CASE Starts
  BY <1>2 DEF Starts
<1>3. CASE Blocks
  BY <1>3 DEF Blocks
<1>4. CASE HandsOff
  BY <1>4 DEF HandsOff
<1>5. CASE Ends
  BY <1>5 DEF Ends
<1>6. CASE Finishes
  BY <1>6 DEF Finishes
<1>7. CASE Cancels
  BY <1>7 DEF Cancels
<1>8. CASE Interrupts
  BY <1>8 DEF Interrupts
<1> QED BY <1>1, <1>2, <1>3, <1>4, <1>5, <1>6, <1>7, <1>8 DEF Change

\* A commit fails, or finds the Run as its copy has it.
LEMMA CommitEffect ==
  ASSUME NEW e \in Slots, NEW proposals, NEW next, Commit(e, proposals, next)
  PROVE  \/ Fails(e) /\ run' = run
         \/ /\ ex[e].copy.events = run.events
            /\ run' \in proposals /\ call' = call
            /\ ex' = [ex EXCEPT ![e] = [next EXCEPT !.effect = ex[e].effect, !.copy = run']]
BY DEF Commit, CurrentCount

\* The executor's loop changes the Run only as its copy, the Run itself, allows.
LEMMA DriveChanges ==
  ASSUME Inductive, NEW e \in Slots, Drive(e)
  PROVE  run' = run \/ Change
<1> DEFINE r == ex[e].copy
           blockable == IF r.state = "Running" THEN Blockable(r) ELSE {}
           ready == IF r.state = "Running" THEN Ready(r) ELSE {}
<1>1. run \in RunType /\ (r.events = run.events => r = run)
  BY DEF Inductive, TypeOK, CopyIsCurrent, Drive, At
<1>2. ASSUME NEW next, Commit(e, Start(r), next)
      PROVE  run' = run \/ Change
  <2>1. run' = run \/ (r = run /\ run' \in Start(r))
    BY <1>1, <1>2, CommitEffect
  <2> QED BY <2>1 DEF Start, Change, Begins
<1>3. ASSUME NEW next, Commit(e, BlockNodes(r, blockable), next), blockable # {}
      PROVE  run' = run \/ Change
  <2>1. run' = run \/ (r = run /\ run' \in BlockNodes(r, blockable))
    BY <1>1, <1>3, CommitEffect
  <2>2. CASE r = run /\ run' \in BlockNodes(r, blockable)
    <3>1. run.state = "Running" /\ blockable = Blockable(run)
      BY <1>3, <2>2
    <3>2. blockable \in SUBSET Nodes
      BY <3>1 DEF Blockable
    <3>3. \A n \in blockable : /\ run.nodes[n] = "Pending"
                               /\ \E u \in Nodes : u \in Ancestors[n] /\ run.nodes[u] = "Failed"
      BY <3>1 DEF Blockable
    <3>4. run' = Record(run, "Running", Move(run, blockable, "Blocked"))
      BY <2>2, <3>1 DEF BlockNodes
    <3> HIDE DEF blockable
    <3> QED BY <1>3, <3>1, <3>2, <3>3, <3>4 DEF Change, Blocks
  <2> QED BY <2>1, <2>2
<1>4. ASSUME NEW b \in Batches(ready), NEW next, Commit(e, StartNodes(r, b), next)
      PROVE  run' = run \/ Change
  <2>1. run' = run \/ (r = run /\ run' \in StartNodes(r, b))
    BY <1>1, <1>4, CommitEffect
  <2>2. CASE r = run /\ run' \in StartNodes(r, b)
    <3>1. run.state = "Running" /\ \A n \in b : run.nodes[n] = "Pending"
      BY <2>2 DEF StartNodes
    <3>2. b \in SUBSET Ready(run)
      BY <2>2, <3>1 DEF Batches
    <3>3. b \in SUBSET Nodes /\ \A n \in b : \A u \in Upstream[n] : run.nodes[u] = "Succeeded"
      BY <3>2 DEF Ready
    <3>4. run' = Record(run, "Running", Move(run, b, "Running"))
      BY <2>2, <3>1 DEF StartNodes
    <3> QED BY <3>1, <3>3, <3>4 DEF Change, Starts
  <2> QED BY <2>1, <2>2
<1>5. ASSUME NEW next, Commit(e, Finish(r), next)
      PROVE  run' = run \/ Change
  <2>1. run' = run \/ (r = run /\ run' \in Finish(r))
    BY <1>1, <1>5, CommitEffect
  <2> QED BY <2>1 DEF Finish, Change, Finishes
<1> HIDE DEF blockable, ready
<1> QED
  BY <1>2, <1>3, <1>4, <1>5 DEF Drive, r, blockable, ready

\* A joined result ends or hands off a node of a Run that is still Running.
LEMMA ResultChanges ==
  ASSUME Inductive, NEW e \in Slots, CommitResult(e)
  PROVE  run' = run \/ Change
<1>1. PICK n \in ex[e].node :
        LET r == ex[e].copy
            changed == IF call[n] = "Waiting" THEN WaitNode(r, n) ELSE EndNode(r, n, call[n])
        IN run' = run \/ (changed # {} /\ r.events = run.events /\ run' \in changed)
  BY DEF CommitResult, CurrentCount
<1>2. ex[e].pc = "result" /\ n \in Nodes /\ run \in RunType
  BY DEF CommitResult, At, Inductive, TypeOK, SlotType
<1>3. call[n] \in {"Succeeded", "Failed", "Waiting"} /\ run.state \notin {"Queued", "Interrupted"}
  BY <1>1, <1>2 DEF Inductive, OneOwner, Active
<1>4. ex[e].copy.events = run.events => ex[e].copy = run
  BY <1>2 DEF Inductive, CopyIsCurrent
<1>5. CASE run' \in WaitNode(run, n) /\ call[n] = "Waiting"
  BY <1>2, <1>5 DEF WaitNode, Change, HandsOff
<1>6. CASE run' \in EndNode(run, n, call[n]) /\ call[n] \in {"Succeeded", "Failed"}
  <2>1. run.nodes[n] \in {"Running", "Waiting"}
        /\ run' = Record(run, run.state, Move(run, {n}, call[n]))
    BY <1>6 DEF EndNode
  <2>2. run.state = "Running"
    BY <2>1, <1>2, <1>3 DEF Inductive, NodesOfState, NodeTerminal, RunType, RunStates, RunTerminal
  <2> QED BY <1>2, <1>6, <2>1, <2>2 DEF Change, Ends
<1> QED BY <1>1, <1>3, <1>4, <1>5, <1>6

\* A completion ends a waiting node.
LEMMA CompletionChanges ==
  ASSUME Inductive, NEW n \in TaskNodes, NotifyCommits(n)
  PROVE  run' = run \/ Change
<1>1. n \in Nodes /\ run \in RunType
  BY PlanAssumption DEF Inductive, TypeOK
<1>2. CASE notice[n].events = run.events
  <2>1. run.nodes[n] = "Waiting" /\ task[n] \in {"Succeeded", "Failed"}
    BY <1>2 DEF NotifyCommits, Inductive, CompletionIsCurrent, Settled
  <2>2. run' = Record(run, run.state, Move(run, {n}, task[n]))
    BY <1>2, <2>1 DEF NotifyCommits, EndNode
  <2>3. run.state \in {"Running", "Interrupted"}
    BY <1>1, <2>1 DEF Inductive, NodesOfState, NodeTerminal, RunType, RunStates, RunTerminal
  <2> QED BY <1>1, <2>1, <2>2, <2>3 DEF Change, Ends
<1> QED BY <1>2 DEF NotifyCommits

\* Every step leaves the Run alone or makes one of its changes.
LEMMA RunChanges ==
  ASSUME Inductive, Next
  PROVE  run' = run \/ Change
<1>1. ASSUME NEW e \in Slots, SlotStep(e) \/ StepFails(e) \/ BatchFails(e)
      PROVE  run' = run \/ Change
  <2>1. CASE Drive(e)
    BY <2>1, DriveChanges
  <2>2. CASE CommitResult(e)
    BY <2>2, ResultChanges
  <2> QED
    BY <1>1, <2>1, <2>2 DEF SlotStep, ClaimNext, NothingReady, LoadRun, LaunchBatch, JoinResult,
                            BatchDone, FinishClaim, StepFails, BatchFails
<1>2. ASSUME NEW n \in TaskNodes, TaskStep(n)
      PROVE  run' = run \/ Change
  <2>1. CASE NotifyCommits(n)
    BY <2>1, CompletionChanges
  <2> QED BY <1>2, <2>1 DEF TaskStep, TaskSubmits, TaskSettles, NotifyLoads
<1>3. CASE Cancelling
  BY <1>3 DEF Cancelling, CancelLoads, CancelCommits, CancelSignals, CancelRun, Change, Cancels
<1>4. CASE Startup
  BY <1>4 DEF Startup, ClassifyRun, RecoverEffect, AcceptCommands, InterruptByRestart,
              Change, Interrupts
<1>5. CASE NextBatch \/ (\E n \in Nodes : CapabilityReturns(n)) \/ Crash
  BY <1>5 DEF NextBatch, CapabilityReturns, Crash
<1> QED BY <1>1, <1>2, <1>3, <1>4, <1>5 DEF Next

----------------------------------------------------------------------------
(* The part of the invariant that only looks at the Run.                   *)

RunInvariant == run \in RunType /\ UpstreamFirst /\ NodesOfState /\ VerdictOfNodes

\* A change keeps what has succeeded or failed, and what it starts is ready.
LEMMA ChangeKeepsUpstreamFirst ==
  ASSUME run \in RunType, UpstreamFirst, Change
  PROVE  UpstreamFirst'
<1> SUFFICES ASSUME NEW n \in Nodes, run'.nodes[n] \in Started, NEW u \in Upstream[n]
             PROVE  run'.nodes[u] = "Succeeded"
  BY DEF UpstreamFirst
<1>1. u \in Nodes
  BY PlanAssumption
<1>2. run.nodes[u] = "Succeeded" => run'.nodes[u] = "Succeeded"
  BY <1>1, ChangeIsForward DEF NodeTerminal
<1>3. run.nodes[n] \in Started \/ \A v \in Upstream[n] : run.nodes[v] = "Succeeded"
  <2> USE DEF Record, Move, RunType, NodeTerminal, Started
  <2>1. CASE Starts
    BY <2>1 DEF Starts
  <2>2. CASE Begins \/ Finishes \/ Interrupts \/ Cancels
    BY <2>2 DEF Begins, Finishes, Interrupts, Cancels
  <2>3. CASE Blocks
    BY <2>3 DEF Blocks
  <2>4. CASE HandsOff \/ Ends
    BY <2>4 DEF HandsOff, Ends
  <2> QED BY <2>1, <2>2, <2>3, <2>4 DEF Change
<1> QED BY <1>2, <1>3 DEF UpstreamFirst

\* A change keeps what the state of the Run says of its nodes.
LEMMA ChangeKeepsNodesOfState ==
  ASSUME run \in RunType, NodesOfState, Change
  PROVE  NodesOfState'
<1> USE DEF Record, Move, RunType, NodeTerminal, RunStates, RunTerminal
<1>1. \A n \in Nodes : run.nodes[n] \in NodeTerminal => run'.nodes[n] = run.nodes[n]
  BY ChangeIsForward
<1>2. run'.state # "Queued" /\ (run.state \in {"Succeeded", "Failed", "Cancelled"} => FALSE)
  BY DEF Change, Begins, Starts, Blocks, HandsOff, Ends, Finishes, Cancels, Interrupts,
         NodesOfState, Live
<1>3. run'.state \in {"Succeeded", "Failed", "Cancelled"} =>
        \A n \in Nodes : run'.nodes[n] \in NodeTerminal
  BY <1>2 DEF Change, Begins, Starts, Blocks, HandsOff, Ends, Finishes, Cancels, Interrupts
<1>4. run'.state # "Cancelled" => \A n \in Nodes : run'.nodes[n] # "Cancelled"
  BY <1>2 DEF NodesOfState, Change, Begins, Starts, Blocks, HandsOff, Ends, Finishes, Cancels,
              Interrupts
<1>5. ASSUME NEW n \in Nodes, run'.nodes[n] = "Blocked"
      PROVE  \E u \in Nodes : u \in Ancestors[n] /\ run'.nodes[u] = "Failed"
  <2>1. run.nodes[n] = "Blocked" \/ Blocks
    BY <1>5 DEF Change, Begins, Starts, HandsOff, Ends, Finishes, Cancels, Interrupts
  <2>2. \E u \in Nodes : u \in Ancestors[n] /\ run.nodes[u] = "Failed"
    BY <1>5, <2>1 DEF NodesOfState, Blocks
  <2> QED BY <1>1, <2>2
<1> QED BY <1>2, <1>3, <1>4, <1>5 DEF NodesOfState

\* A Run that has ended has its nodes' verdict.
LEMMA ChangeKeepsVerdict ==
  ASSUME run \in RunType, NodesOfState, Change
  PROVE  VerdictOfNodes'
<1> USE DEF Record, Move, RunType, NodeTerminal
<1>1. run'.state \in {"Succeeded", "Failed"} => Finishes
  BY DEF Change, Begins, Starts, Blocks, HandsOff, Ends, Cancels, Interrupts
<1>2. CASE Finishes
  <2>1. run'.nodes = run.nodes
    BY <1>2 DEF Finishes
  <2>2. \A n \in Nodes : run.nodes[n] # "Cancelled"
    BY <1>2 DEF Finishes, NodesOfState
  <2>3. \A n \in Nodes : run.nodes[n] = "Blocked" =>
          \E u \in Nodes : u \in Ancestors[n] /\ run.nodes[u] = "Failed"
    BY DEF NodesOfState
  <2>4. \A n \in Nodes : run.nodes[n] \in {"Succeeded", "Failed", "Blocked"}
    BY <1>2, <2>2 DEF Finishes
  <2>5. run'.state = "Succeeded" => \A n \in Nodes : run.nodes[n] = "Succeeded"
    BY <1>2 DEF Finishes
  <2>6. run'.state = "Failed" => \E n \in Nodes : run.nodes[n] = "Failed"
    BY <1>2 DEF Finishes
  <2> QED BY <2>1, <2>3, <2>4, <2>5, <2>6 DEF VerdictOfNodes
<1> QED BY <1>1, <1>2 DEF VerdictOfNodes

\* The Run's part of the invariant is kept by every step.
LEMMA RunInvariantStep ==
  ASSUME Inductive, Next
  PROVE  RunInvariant'
<1>1. RunInvariant
  BY DEF RunInvariant, Inductive, TypeOK
<1>2. CASE run' = run
  BY <1>1, <1>2 DEF RunInvariant, UpstreamFirst, NodesOfState, VerdictOfNodes
<1>3. CASE Change
  BY <1>1, <1>3, ChangeIsForward, ChangeKeepsUpstreamFirst, ChangeKeepsNodesOfState,
     ChangeKeepsVerdict DEF RunInvariant
<1> QED BY <1>2, <1>3, RunChanges

----------------------------------------------------------------------------
(* Type correctness.                                                       *)

Pcs == {"idle", "load", "drive", "launch", "join", "result", "complete", "release", "done"}
Calls == [Nodes -> {"None", "Calling", "Succeeded", "Failed", "Waiting"}]
Rows == [EffectIds -> {"Absent", "Ready", "Claimed", "Completed", "Abandoned"}]
Registries == [cancelled : BOOLEAN, registered : SUBSET Nodes, signalled : SUBSET Nodes]
Workers == ex \in [Slots -> SlotType] /\ call \in Calls

\* An admitted Run is well-formed.
LEMMA NewRunType == NewRun \in RunType
BY DEF NewRun, RunType, RunStates, NodeStates

\* So is a fresh slot.
LEMMA SlotIsTyped ==
  ASSUME NEW pc \in Pcs
  PROVE  /\ Slot(pc) \in SlotType /\ Slot(pc).pc = pc
         /\ Slot(pc).batch = {} /\ Slot(pc).node = {} /\ Slot(pc).effect = Admission
<1>1. Admission \in EffectIds
  BY DEF EffectIds
<1> QED BY <1>1, NewRunType DEF Slot, SlotType, Pcs

\* Giving an effect up keeps the slots and the calls well-formed.
LEMMA FailsType ==
  ASSUME TypeOK, NEW e \in Slots, Fails(e)
  PROVE  Workers'
<1>1. [Slot("release") EXCEPT !.effect = ex[e].effect] \in SlotType
  BY SlotIsTyped DEF TypeOK, SlotType, Pcs
<1> QED BY <1>1 DEF Fails, Aborted, TypeOK, Workers, Calls

\* So does a commit that leads to a well-formed slot.
LEMMA CommitType ==
  ASSUME TypeOK, run' \in RunType, NEW e \in Slots, NEW proposals, NEW next \in SlotType,
         Commit(e, proposals, next)
  PROVE  Workers'
<1>1. CASE Fails(e)
  BY <1>1, FailsType
<1>2. CASE call' = call
           /\ ex' = [ex EXCEPT ![e] = [next EXCEPT !.effect = ex[e].effect, !.copy = run']]
  BY <1>2 DEF TypeOK, Workers, SlotType, Calls
<1> QED BY <1>1, <1>2, CommitEffect

\* A slot whose program counter, copy, batch and joined node are replaced.
LEMMA SlotUpdate ==
  ASSUME NEW s \in SlotType, NEW pc \in Pcs, NEW copy \in RunType,
         NEW batch \in SUBSET Nodes, NEW node \in SUBSET Nodes
  PROVE  /\ [s EXCEPT !.pc = pc] \in SlotType
         /\ [s EXCEPT !.batch = batch] \in SlotType
         /\ [s EXCEPT !.pc = pc, !.copy = copy] \in SlotType
         /\ [s EXCEPT !.pc = pc, !.copy = copy, !.node = node] \in SlotType
         /\ [s EXCEPT !.pc = pc, !.batch = batch, !.node = node] \in SlotType
BY DEF SlotType, Pcs

\* The slots and the calls stay well-formed in the executor's loop.
LEMMA DriveType ==
  ASSUME TypeOK, run' \in RunType, NEW e \in Slots, Drive(e)
  PROVE  Workers' /\ registry' \in Registries
<1>0. ex \in [Slots -> SlotType] /\ call \in Calls /\ registry \in Registries
  BY DEF TypeOK, Calls, Registries
<1>1. ASSUME Goto(e, "complete"), UNCHANGED call
      PROVE  Workers'
  <2>1. [ex[e] EXCEPT !.pc = "complete"] \in SlotType
    BY <1>0, SlotUpdate, NewRunType DEF Pcs
  <2> QED BY <1>0, <1>1, <2>1 DEF Goto, Workers
<1>2. Slot("drive") \in SlotType /\ Slot("complete") \in SlotType
  BY SlotIsTyped DEF Pcs
<1>3. ASSUME NEW ready \in SUBSET Nodes, NEW b \in Batches(ready)
      PROVE  [Slot("launch") EXCEPT !.batch = b] \in SlotType
  BY SlotIsTyped DEF Batches, SlotType, Pcs
<1>4. Ready(ex[e].copy) \in SUBSET Nodes
  BY DEF Ready
<1>5. registry' \in Registries
  BY <1>0 DEF Drive, Registries
<1> QED BY <1>1, <1>2, <1>3, <1>4, <1>5, CommitType DEF Drive

\* Everything a slot's step touches stays well-formed.
LEMMA SlotStepType ==
  ASSUME TypeOK, run' \in RunType, NEW e \in Slots,
         SlotStep(e) \/ StepFails(e) \/ BatchFails(e)
  PROVE  /\ Workers' /\ registry' \in Registries /\ effects' \in Rows
         /\ executions' \in [Nodes -> Nat]
<1> USE DEF Workers
<1>0. /\ ex \in [Slots -> SlotType] /\ call \in Calls /\ registry \in Registries
      /\ effects \in Rows /\ executions \in [Nodes -> Nat] /\ run \in RunType
      /\ ex[e] \in SlotType /\ ex[e].batch \in SUBSET Nodes /\ ex[e].effect \in EffectIds
  BY DEF TypeOK, Calls, Registries, Rows, SlotType
<1>1. CASE ClaimNext(e)
  <2>1. \A f \in EffectIds : [Slot("load") EXCEPT !.effect = f] \in SlotType
    BY SlotIsTyped DEF SlotType, Pcs
  <2> QED BY <1>0, <1>1, <2>1 DEF ClaimNext, Rows
<1>2. CASE NothingReady(e) \/ BatchDone(e)
  <2>1. [ex[e] EXCEPT !.pc = "done"] \in SlotType /\ [ex[e] EXCEPT !.pc = "load"] \in SlotType
    BY <1>0, SlotUpdate, ZenonT(60) DEF Pcs
  <2> QED BY <1>0, <1>2, <2>1 DEF NothingReady, BatchDone, Goto
<1>3. CASE LoadRun(e)
  <2>1. [ex[e] EXCEPT !.pc = "drive", !.copy = run] \in SlotType
    BY <1>0, SlotUpdate DEF Pcs
  <2> QED BY <1>0, <1>3, <2>1 DEF LoadRun
<1>4. CASE Drive(e)
  BY <1>0, <1>4, DriveType, SMTT(40) DEF Drive
<1>5. CASE LaunchBatch(e)
  <2>1. [ex[e] EXCEPT !.pc = "join"] \in SlotType
    BY <1>0, SlotUpdate DEF Pcs
  <2>2. ex' \in [Slots -> SlotType] /\ effects' \in Rows
    BY <1>0, <1>5, <2>1 DEF LaunchBatch, Goto
  <2>3. call' \in Calls /\ executions' \in [Nodes -> Nat]
    BY <1>0, <1>5 DEF LaunchBatch, Calls
  <2>4. registry' \in Registries
    BY <1>0, <1>5 DEF LaunchBatch, Registries
  <2> QED BY <2>2, <2>3, <2>4
<1>6. CASE JoinResult(e)
  <2>1. PICK n \in ex[e].batch :
          /\ registry' = [registry EXCEPT !.registered = @ \ {n}, !.signalled = @ \ {n}]
          /\ \/ /\ ex' = [ex EXCEPT ![e].batch = @ \ {n}]
                /\ call' = [call EXCEPT ![n] = "None"]
             \/ /\ ex' = [ex EXCEPT ![e].pc = "result", ![e].copy = run, ![e].node = {n}]
                /\ call' = call
    BY <1>6 DEF JoinResult
  <2>2. n \in Nodes
    BY <1>0
  <2>3. /\ [ex[e] EXCEPT !.batch = @ \ {n}] \in SlotType
        /\ [ex[e] EXCEPT !.pc = "result", !.copy = run, !.node = {n}] \in SlotType
    BY <1>0, <2>2 DEF SlotType
  <2>4. ex' \in [Slots -> SlotType] /\ call' \in Calls
    BY <1>0, <2>1, <2>2, <2>3 DEF Calls
  <2>5. registry' \in Registries
    BY <1>0, <2>1 DEF Registries
  <2> QED BY <1>0, <1>6, <2>4, <2>5 DEF JoinResult
<1>7. CASE CommitResult(e)
  <2>1. CASE Fails(e)
    BY <1>0, <1>7, <2>1, FailsType DEF CommitResult
  <2>2. CASE ~Fails(e)
    <3>1. PICK n \in ex[e].node :
            /\ ex' = [ex EXCEPT ![e].pc = "join", ![e].batch = @ \ {n}, ![e].node = {}]
            /\ call' = [call EXCEPT ![n] = "None"]
      BY <1>7, <2>2 DEF CommitResult
    <3>2. [ex[e] EXCEPT !.pc = "join", !.batch = @ \ {n}, !.node = {}] \in SlotType
      BY <1>0 DEF SlotType
    <3>3. ex' \in [Slots -> SlotType] /\ call' \in Calls
      BY <1>0, <3>1, <3>2 DEF Calls
    <3> QED BY <1>0, <1>7, <3>3 DEF CommitResult
  <2> QED BY <2>1, <2>2
<1>8. CASE FinishClaim(e)
  <2>1. Slot("done") \in SlotType
    BY SlotIsTyped DEF Pcs
  <2> QED BY <1>0, <1>8, <2>1 DEF FinishClaim, Rows
<1>9. CASE StepFails(e)
  BY <1>0, <1>9, FailsType DEF StepFails
<1>10. CASE BatchFails(e)
  <2>1. Slot("idle") \in SlotType
    BY SlotIsTyped DEF Pcs
  <2>2. effects' \in Rows
    BY <1>0, <1>10 DEF BatchFails, Rows
  <2>3. ex' \in [Slots -> SlotType] /\ call' \in Calls
    BY <1>10, <2>1 DEF BatchFails, Calls
  <2> QED BY <1>0, <1>10, <2>2, <2>3 DEF BatchFails
<1> QED BY <1>1, <1>2, <1>3, <1>4, <1>5, <1>6, <1>7, <1>8, <1>9, <1>10 DEF SlotStep

\* The effects, the tasks, their notices, the canceller and the host.
LEMMA SurroundingsType ==
  ASSUME TypeOK, run \in RunType, Next
  PROVE  /\ canceller' \in [pc : {"idle", "loaded", "committed"}, events : Nat]
         /\ task' \in [TaskNodes -> {"Absent", "Queued", "Active", "Succeeded", "Failed"}]
         /\ notice' \in [TaskNodes ->
              [state : {"None", "Pending", "Loaded", "Stuck", "Consumed"}, events : Nat]]
         /\ host' \in {"Up", "Down", "Recovering", "RefusedByRun", "RefusedByOutbox"}
         /\ restarts' \in Nat
<1> DEFINE Notices == [state : {"None", "Pending", "Loaded", "Stuck", "Consumed"}, events : Nat]
<1>0. /\ canceller \in [pc : {"idle", "loaded", "committed"}, events : Nat]
      /\ task \in [TaskNodes -> {"Absent", "Queued", "Active", "Succeeded", "Failed"}]
      /\ notice \in [TaskNodes -> Notices]
      /\ host \in {"Up", "Down", "Recovering", "RefusedByRun", "RefusedByOutbox"}
      /\ restarts \in Nat /\ run.events \in Nat
  BY DEF TypeOK, RunType
<1>1. ASSUME NEW e \in Slots, SlotStep(e) \/ StepFails(e) \/ BatchFails(e)
      PROVE  UNCHANGED World
  BY <1>1 DEF SlotStep, ClaimNext, NothingReady, LoadRun, Drive, LaunchBatch, JoinResult,
              CommitResult, BatchDone, FinishClaim, StepFails, BatchFails
<1>2. CASE (\E e \in Slots : SlotStep(e) \/ StepFails(e) \/ BatchFails(e)) \/ NextBatch
  BY <1>0, <1>1, <1>2 DEF World, NextBatch
<1>3. CASE \E n \in Nodes : CapabilityReturns(n)
  BY <1>0, <1>3 DEF CapabilityReturns
<1>4. ASSUME NEW n \in TaskNodes, TaskStep(n)
      PROVE  /\ UNCHANGED <<canceller, host, restarts>>
             /\ task' \in [TaskNodes -> {"Absent", "Queued", "Active", "Succeeded", "Failed"}]
             /\ notice' \in [TaskNodes -> Notices]
  <2>1. UNCHANGED <<canceller, host, restarts>>
    BY <1>4 DEF TaskStep, TaskSubmits, TaskSettles, NotifyLoads, NotifyCommits, Engine
  <2>2. task' \in [TaskNodes -> {"Absent", "Queued", "Active", "Succeeded", "Failed"}]
    BY <1>0, <1>4 DEF TaskStep, TaskSubmits, TaskSettles, NotifyLoads, NotifyCommits
  <2>3. notice' \in [TaskNodes -> Notices]
    <3>1. CASE TaskSubmits(n)
      BY <1>0, <3>1 DEF TaskSubmits
    <3>2. CASE TaskSettles(n)
      BY <1>0, <3>2 DEF TaskSettles
    <3>3. CASE NotifyLoads(n)
      <4>1. PICK v \in Notices : notice' = [notice EXCEPT ![n] = v]
        BY <1>0, <3>3 DEF NotifyLoads
      <4> QED BY <1>0, <4>1
    <3>4. CASE NotifyCommits(n)
      BY <1>0, <3>4 DEF NotifyCommits
    <3> QED BY <1>4, <3>1, <3>2, <3>3, <3>4 DEF TaskStep
  <2> QED BY <2>1, <2>2, <2>3
<1>5. CASE Cancelling
  BY <1>0, <1>5 DEF Cancelling, CancelLoads, CancelCommits, CancelSignals
<1>6. CASE Crash
  BY <1>0, <1>6 DEF Crash
<1>7. CASE Startup
  <2>1. CASE ClassifyRun
    <3>1. notice' \in [TaskNodes -> Notices]
      BY <1>0, <2>1 DEF ClassifyRun
    <3> QED BY <1>0, <2>1, <3>1 DEF ClassifyRun, Rest
  <2> QED BY <1>0, <1>7, <2>1 DEF Startup, RecoverEffect, AcceptCommands, Rest
<1> QED BY <1>0, <1>2, <1>3, <1>4, <1>5, <1>6, <1>7 DEF Next

\* Every step keeps the state well-formed.
LEMMA TypeStep ==
  ASSUME Inductive, Next
  PROVE  TypeOK'
<1>1. run' \in RunType
  BY RunInvariantStep DEF RunInvariant
<1>0. /\ TypeOK /\ run \in RunType
      /\ ex \in [Slots -> SlotType] /\ call \in Calls /\ registry \in Registries
      /\ effects \in Rows /\ executions \in [Nodes -> Nat]
  BY DEF Inductive, TypeOK, Calls, Registries, Rows
<1>2. Workers' /\ registry' \in Registries /\ effects' \in Rows /\ executions' \in [Nodes -> Nat]
  <2>1. CASE \E e \in Slots : SlotStep(e) \/ StepFails(e) \/ BatchFails(e)
    BY <1>0, <1>1, <2>1, SlotStepType
  <2>2. CASE NextBatch
    BY <1>0, <2>2, SlotIsTyped DEF NextBatch, Workers, Pcs
  <2>3. CASE \E n \in Nodes : CapabilityReturns(n)
    BY <1>0, <2>3 DEF CapabilityReturns, Workers, Calls
  <2>4. CASE \E n \in TaskNodes : TaskStep(n)
    <3>1. \A n \in TaskNodes : n \in EffectIds
      BY DEF EffectIds
    <3> QED BY <1>0, <2>4, <3>1 DEF TaskStep, TaskSubmits, TaskSettles, NotifyLoads,
               NotifyCommits, Wake, Engine, Workers, Rows
  <2>5. CASE Cancelling
    BY <1>0, <2>5 DEF Cancelling, CancelLoads, CancelCommits, CancelSignals, SignalCalls,
                      Workers, Registries
  <2>6. CASE Crash
    BY <1>0, <2>6, SlotIsTyped DEF Crash, Workers, Calls, Registries, Pcs
  <2>7. CASE Startup
    BY <1>0, <2>7 DEF Startup, ClassifyRun, RecoverEffect, AcceptCommands, Rest, Workers, Rows
  <2> QED BY <2>1, <2>2, <2>3, <2>4, <2>5, <2>6, <2>7 DEF Next
<1> QED
  BY <1>0, <1>1, <1>2, SurroundingsType DEF TypeOK, Workers, Calls, Registries, Rows

----------------------------------------------------------------------------
(* Copies, batches and completions.                                        *)

\* The event count tells a Run that has moved; in a process that is up no Run
\* is interrupted.
LEMMA RunIsForward ==
  ASSUME Inductive, Next
  PROVE  /\ run \in RunType /\ run' \in RunType /\ run.events <= run'.events
         /\ run'.events = run.events => run' = run
         /\ \A n \in Nodes : run.nodes[n] # "Pending" => run'.nodes[n] # "Pending"
         /\ host = "Up" /\ run.state \notin {"Queued", "Interrupted"} =>
              run'.state \notin {"Queued", "Interrupted"}
<1>1. run \in RunType /\ run' \in RunType
  BY RunInvariantStep DEF Inductive, TypeOK, RunInvariant
<1>2. CASE Change
  <2>1. host = "Up" /\ run.state # "Interrupted" => run'.state \notin {"Queued", "Interrupted"}
    BY <1>1, <1>2 DEF Change, Begins, Starts, Blocks, HandsOff, Ends, Finishes, Cancels,
                      Interrupts, Record, Move, RunType
  <2> QED BY <1>1, <1>2, <2>1, ChangeIsForward DEF RunType
<1> QED BY <1>1, <1>2, RunChanges DEF RunType

\* What OneOwner says of one slot.
Owned(e) ==
  /\ ex[e].pc \in Active => host = "Up" /\ run.state \notin {"Queued", "Interrupted"}
  /\ ex[e].pc \notin Active => ex[e].batch = {}
  /\ \A n \in ex[e].batch : run.nodes[n] # "Pending"
  /\ ex[e].pc = "launch" => \A n \in ex[e].batch : executions[n] = 0
  /\ ex[e].pc = "result" =>
       \A n \in ex[e].node : n \in ex[e].batch /\ call[n] \in {"Succeeded", "Failed", "Waiting"}

\* What a slot has of its own, it keeps while the others move.
LEMMA OwnedStays ==
  ASSUME Inductive, Next, NEW e \in Slots, ex'[e] = ex[e],
         host' = host \/ ex[e].pc \notin Active,
         \A n \in ex[e].batch : executions'[n] = executions[n]
                                /\ (call[n] # "Calling" => call'[n] = call[n])
  PROVE  Owned(e)'
<1>1. Owned(e) /\ ex[e].batch \subseteq Nodes
  BY DEF Inductive, OneOwner, Owned, TypeOK, SlotType
<1> QED BY <1>1, RunIsForward DEF Owned

\* What a step of a slot does to batches, calls and executions.
SlotMoves(e) ==
  /\ host = "Up" /\ host' = "Up"
  /\ \A f \in Slots : f # e => ex'[f] = ex[f]
  /\ \A n \in Nodes \ ex[e].batch : call'[n] = call[n] /\ executions'[n] = executions[n]
  /\ \A n \in ex'[e].batch : n \in ex[e].batch \/ run.nodes[n] = "Pending"
  /\ \A n \in Nodes : \/ executions'[n] = executions[n]
                      \/ executions[n] = 0 /\ executions'[n] = 1 /\ run.nodes[n] # "Pending"
  /\ Owned(e)'

\* A slot that gives its effect up owns nothing.
LEMMA FailingSlot ==
  ASSUME Inductive, NEW e \in Slots, Fails(e), UNCHANGED <<executions, host>>, host = "Up"
  PROVE  SlotMoves(e)
<1>1. ex \in [Slots -> SlotType] /\ call \in [Nodes -> {"None", "Calling", "Succeeded", "Failed", "Waiting"}]
  BY DEF Inductive, TypeOK
<1>2. ex'[e] = [Slot("release") EXCEPT !.effect = ex[e].effect]
      /\ \A f \in Slots : f # e => ex'[f] = ex[f]
  BY <1>1 DEF Fails
<1>3. ex'[e].pc = "release" /\ ex'[e].batch = {}
  BY <1>2, SlotIsTyped DEF Pcs, SlotType
<1>4. \A n \in Nodes \ ex[e].batch : call'[n] = call[n]
  BY <1>1 DEF Fails, Aborted
<1> QED BY <1>2, <1>3, <1>4 DEF SlotMoves, Owned, Active

\* A committed batch of Pending nodes that were never called.
LEMMA StartingSlot ==
  ASSUME Inductive, Next, NEW e \in Slots, At(e, "drive"),
         UNCHANGED <<executions, host>>, ex[e].copy.state = "Running",
         NEW b \in SUBSET Ready(ex[e].copy),
         Commit(e, StartNodes(ex[e].copy, b), [Slot("launch") EXCEPT !.batch = b])
  PROVE  SlotMoves(e)
<1>0. host = "Up" /\ ex \in [Slots -> SlotType] /\ b \subseteq Nodes
  BY DEF At, Inductive, TypeOK, Ready
<1>1. CASE Fails(e)
  BY <1>0, <1>1, FailingSlot
<1>2. CASE /\ ex[e].copy.events = run.events /\ run' \in StartNodes(ex[e].copy, b) /\ call' = call
           /\ ex' = [ex EXCEPT ![e] = [[Slot("launch") EXCEPT !.batch = b]
                                         EXCEPT !.effect = ex[e].effect, !.copy = run']]
  <2>1. ex[e].copy = run /\ run.state = "Running"
    BY <1>2 DEF At, Inductive, CopyIsCurrent
  <2>2. /\ ex'[e].pc = "launch" /\ ex'[e].batch = b
        /\ \A f \in Slots : f # e => ex'[f] = ex[f]
    BY <1>0, <1>2, SlotIsTyped DEF Pcs, SlotType
  <2>3. /\ \A n \in b : run.nodes[n] = "Pending"
        /\ run' = Record(run, "Running", Move(run, b, "Running"))
    BY <1>2, <2>1 DEF StartNodes
  <2>4. \A n \in b : executions[n] = 0
    BY <1>0, <2>3 DEF Inductive, OneOwner
  <2>5. run'.state = "Running" /\ \A n \in b : run'.nodes[n] = "Running"
    BY <1>0, <2>3 DEF Record, Move
  <2> QED BY <1>0, <1>2, <2>2, <2>3, <2>4, <2>5 DEF SlotMoves, Owned, Active
<1> QED BY <1>1, <1>2, CommitEffect

\* A commit that leads to a slot without a batch.
LEMMA CommittingSlot ==
  ASSUME Inductive, NEW e \in Slots, host = "Up", UNCHANGED <<executions, host>>,
         NEW proposals, NEW pc \in {"drive", "complete"}, Commit(e, proposals, Slot(pc))
  PROVE  SlotMoves(e)
<1>1. CASE Fails(e)
  BY <1>1, FailingSlot
<1>2. CASE call' = call
           /\ ex' = [ex EXCEPT ![e] = [Slot(pc) EXCEPT !.effect = ex[e].effect, !.copy = run']]
  <2>1. ex \in [Slots -> SlotType]
    BY DEF Inductive, TypeOK
  <2>2. ex'[e].pc = pc /\ ex'[e].batch = {} /\ \A f \in Slots : f # e => ex'[f] = ex[f]
    BY <1>2, <2>1, SlotIsTyped DEF Pcs, SlotType
  <2> QED BY <1>2, <2>2 DEF SlotMoves, Owned, Active
<1> QED BY <1>1, <1>2, CommitEffect

\* Every step of a slot, whether it goes on or gives up.
LEMMA SlotFrame ==
  ASSUME Inductive, Next, NEW e \in Slots, SlotStep(e) \/ StepFails(e)
  PROVE  SlotMoves(e)
<1> USE DEF At, World
<1>0. /\ ex \in [Slots -> SlotType] /\ ex[e] \in SlotType /\ ex[e].batch \subseteq Nodes
      /\ call \in Calls /\ executions \in [Nodes -> Nat] /\ TypeOK
  BY DEF Inductive, TypeOK, Calls, SlotType
<1>o. Owned(e)
  BY DEF Inductive, OneOwner, Owned
<1>r. /\ \A n \in Nodes : run.nodes[n] # "Pending" => run'.nodes[n] # "Pending"
      /\ host = "Up" /\ run.state \notin {"Queued", "Interrupted"} =>
           run'.state \notin {"Queued", "Interrupted"}
  BY RunIsForward
<1>u. ASSUME NEW s \in SlotType, ex' = [ex EXCEPT ![e] = s], s.batch = {}, s.pc \notin Active,
             UNCHANGED <<executions, host, call>>, host = "Up"
      PROVE  SlotMoves(e)
  BY <1>0, <1>u DEF SlotMoves, Owned, Active
<1>1. CASE ClaimNext(e)
  <2>1. \A f \in EffectIds : LET s == [Slot("load") EXCEPT !.effect = f]
          IN s \in SlotType /\ s.pc = "load" /\ s.batch = {}
    BY SlotIsTyped DEF SlotType, Pcs
  <2> QED BY <1>1, <1>u, <2>1 DEF ClaimNext, Active
<1>2. CASE NothingReady(e) \/ BatchDone(e)
  <2>1. \A pc \in {"done", "load"} : LET s == [ex[e] EXCEPT !.pc = pc]
          IN s \in SlotType /\ s.pc = pc /\ s.batch = ex[e].batch
    BY <1>0 DEF SlotType
  <2>2. ex[e].batch = {}
    BY <1>2, <1>o DEF NothingReady, BatchDone, Owned, Active
  <2> QED BY <1>0, <1>2, <1>u, <2>1, <2>2 DEF NothingReady, BatchDone, Active, Goto
<1>3. CASE LoadRun(e)
  <2>1. LET s == [ex[e] EXCEPT !.pc = "drive", !.copy = run]
        IN s \in SlotType /\ s.pc = "drive" /\ s.batch = ex[e].batch
    BY <1>0 DEF SlotType, TypeOK
  <2>2. ex[e].batch = {} /\ ex' = [ex EXCEPT ![e] = [ex[e] EXCEPT !.pc = "drive", !.copy = run]]
    BY <1>0, <1>3, <1>o DEF LoadRun, Owned, Active
  <2> QED BY <1>3, <1>u, <2>1, <2>2 DEF LoadRun, Active
<1>4. CASE Drive(e)
  <2>1. host = "Up" /\ UNCHANGED <<executions, host>> /\ ex[e].batch = {}
    BY <1>4, <1>o DEF Drive, Owned, Active
  <2>2. CASE Goto(e, "complete") /\ UNCHANGED call
    <3>1. LET s == [ex[e] EXCEPT !.pc = "complete"]
          IN s \in SlotType /\ s.pc = "complete" /\ s.batch = {}
      BY <1>0, <2>1 DEF SlotType
    <3> QED BY <1>0, <1>u, <2>1, <2>2, <3>1 DEF Goto, Active
  <2>3. ASSUME NEW b \in Batches(Ready(ex[e].copy)), ex[e].copy.state = "Running",
               Commit(e, StartNodes(ex[e].copy, b), [Slot("launch") EXCEPT !.batch = b])
        PROVE  SlotMoves(e)
    <3>1. b \in SUBSET Ready(ex[e].copy)
      BY DEF Batches
    <3> QED BY <1>4, <2>1, <2>3, <3>1, StartingSlot DEF Drive
  <2>4. ASSUME NEW proposals, NEW pc \in {"drive", "complete"}, Commit(e, proposals, Slot(pc))
        PROVE  SlotMoves(e)
    BY <2>1, <2>4, CommittingSlot
  <2> QED BY <1>4, <2>2, <2>3, <2>4 DEF Drive
<1>5. CASE LaunchBatch(e)
  <2>1. ex'[e].pc = "join" /\ ex'[e].batch = ex[e].batch /\ \A f \in Slots : f # e => ex'[f] = ex[f]
    BY <1>0, <1>5 DEF LaunchBatch, Goto, SlotType
  <2>2. \A n \in ex[e].batch : executions[n] = 0 /\ executions'[n] = 1 /\ run.nodes[n] # "Pending"
    BY <1>0, <1>5, <1>o DEF LaunchBatch, Owned
  <2>3. \A n \in Nodes \ ex[e].batch : call'[n] = call[n] /\ executions'[n] = executions[n]
    BY <1>5 DEF LaunchBatch
  <2>4. Owned(e)'
    BY <1>5, <1>o, <1>r, <2>1 DEF LaunchBatch, Owned, Active
  <2> QED BY <1>5, <2>1, <2>2, <2>3, <2>4 DEF LaunchBatch, SlotMoves
<1>6. CASE JoinResult(e)
  <2>1. PICK n \in ex[e].batch :
          \/ /\ ex' = [ex EXCEPT ![e].batch = @ \ {n}]
             /\ call' = [call EXCEPT ![n] = "None"]
          \/ /\ ex' = [ex EXCEPT ![e].pc = "result", ![e].copy = run, ![e].node = {n}]
             /\ call' = call /\ call[n] \in {"Succeeded", "Failed", "Waiting"}
    BY <1>6 DEF JoinResult
  <2>2. ex'[e].pc \in {"join", "result"} /\ ex'[e].batch \subseteq ex[e].batch
        /\ (ex'[e].pc = "result" => ex'[e].node = {n} /\ n \in ex'[e].batch
                /\ call'[n] \in {"Succeeded", "Failed", "Waiting"})
        /\ \A f \in Slots : f # e => ex'[f] = ex[f]
    BY <1>0, <1>6, <2>1 DEF JoinResult, SlotType
  <2>3. \A m \in Nodes \ ex[e].batch : call'[m] = call[m]
    BY <1>0, <2>1 DEF Calls
  <2>4. Owned(e)'
    BY <1>6, <1>0, <1>o, <1>r, <2>2 DEF JoinResult, Owned, Active
  <2> QED BY <1>6, <2>2, <2>3, <2>4 DEF JoinResult, SlotMoves
<1>7. CASE CommitResult(e)
  <2>1. CASE Fails(e)
    BY <1>7, <2>1, FailingSlot DEF CommitResult
  <2>2. CASE ~Fails(e)
    <3>1. PICK n \in ex[e].node :
            /\ ex' = [ex EXCEPT ![e].pc = "join", ![e].batch = @ \ {n}, ![e].node = {}]
            /\ call' = [call EXCEPT ![n] = "None"]
      BY <1>7, <2>2 DEF CommitResult
    <3>2. ex'[e].pc = "join" /\ ex'[e].batch \subseteq ex[e].batch
          /\ \A f \in Slots : f # e => ex'[f] = ex[f]
      BY <1>0, <3>1 DEF SlotType
    <3>3. \A m \in Nodes \ ex[e].batch : call'[m] = call[m]
      BY <1>0, <1>7, <1>o, <3>1 DEF Calls, CommitResult, Owned
    <3>4. Owned(e)'
      BY <1>7, <1>0, <1>o, <1>r, <3>2 DEF CommitResult, Owned, Active
    <3> QED BY <1>7, <3>2, <3>3, <3>4 DEF CommitResult, SlotMoves
  <2> QED BY <2>1, <2>2
<1>8. CASE FinishClaim(e)
  <2>1. Slot("done") \in SlotType /\ Slot("done").pc = "done" /\ Slot("done").batch = {}
    BY SlotIsTyped DEF Pcs
  <2> QED BY <1>8, <1>u, <2>1 DEF FinishClaim, Active
<1>9. CASE StepFails(e)
  BY <1>9, FailingSlot DEF StepFails
<1> QED BY <1>1, <1>2, <1>3, <1>4, <1>5, <1>6, <1>7, <1>8, <1>9 DEF SlotStep

\* Slots that are all fresh own nothing.
LEMMA FreshSlots ==
  ASSUME Inductive, Next, ex' = [s \in Slots |-> Slot("idle")],
         executions' = executions
  PROVE  OneOwner'
<1>1. \A s \in Slots : ex'[s].pc = "idle" /\ ex'[s].batch = {}
  BY SlotIsTyped DEF Pcs
<1>2. \A n \in Nodes : executions'[n] # 0 => executions'[n] = 1 /\ run'.nodes[n] # "Pending"
  BY RunIsForward DEF Inductive, OneOwner
<1> QED BY <1>1, <1>2 DEF OneOwner, Active

\* Ownership is kept when the slots and the counts stay.
LEMMA SlotsStay ==
  ASSUME Inductive, Next, UNCHANGED <<ex, executions>>,
         host' = host \/ host # "Up",
         \A n \in Nodes : call[n] # "Calling" => call'[n] = call[n]
  PROVE  OneOwner'
<1>1. ASSUME NEW e \in Slots
      PROVE  Owned(e)'
  <2>1. ex[e].batch \subseteq Nodes
    BY DEF Inductive, TypeOK, SlotType
  <2>2. host' = host \/ ex[e].pc \notin Active
    BY DEF Inductive, OneOwner
  <2> QED BY <2>1, <2>2, OwnedStays
<1>2. \A n \in Nodes : executions'[n] # 0 => executions'[n] = 1 /\ run'.nodes[n] # "Pending"
  BY RunIsForward DEF Inductive, OneOwner
<1>3. \A e, f \in Slots : e # f => ex'[e].batch \cap ex'[f].batch = {}
  BY DEF Inductive, OneOwner
<1> QED BY <1>1, <1>2, <1>3 DEF OneOwner, Owned

\* Ownership is kept when one slot moves: what it adds to its batch is Pending,
\* what another slot owns is not.
LEMMA SlotMovesOwner ==
  ASSUME Inductive, Next, NEW e \in Slots, SlotMoves(e)
  PROVE  OneOwner'
<1>1. \A f \in Slots : ex[f].batch \subseteq Nodes
  BY DEF Inductive, TypeOK, SlotType
<1>2. \A f, g \in Slots : f # g => ex[f].batch \cap ex[g].batch = {}
  BY DEF Inductive, OneOwner
<1>3. \A f \in Slots : \A n \in ex[f].batch : run.nodes[n] # "Pending"
  BY DEF Inductive, OneOwner
<1>4. ASSUME NEW f \in Slots
      PROVE  Owned(f)'
  <2>1. CASE f = e
    BY <2>1 DEF SlotMoves
  <2>2. CASE f # e
    <3>1. ex'[f] = ex[f] /\ host' = host
      BY <2>2 DEF SlotMoves
    <3>2. \A n \in ex[f].batch : executions'[n] = executions[n] /\ call'[n] = call[n]
      BY <1>1, <1>2, <2>2 DEF SlotMoves
    <3> QED BY <3>1, <3>2, OwnedStays
  <2> QED BY <2>1, <2>2
<1>5. \A f \in Slots : f # e => ex'[e].batch \cap ex'[f].batch = {}
  BY <1>2, <1>3 DEF SlotMoves
<1>6. \A f, g \in Slots : f # g => ex'[f].batch \cap ex'[g].batch = {}
  BY <1>2, <1>5 DEF SlotMoves
<1>7. \A n \in Nodes : executions'[n] # 0 => executions'[n] = 1 /\ run'.nodes[n] # "Pending"
  BY RunIsForward DEF SlotMoves, Inductive, OneOwner
<1> QED BY <1>4, <1>6, <1>7 DEF OneOwner, Owned

\* Every step keeps each node in the hands of one slot.
LEMMA OwnerStep ==
  ASSUME Inductive, Next
  PROVE  OneOwner'
<1>1. ASSUME NEW e \in Slots, SlotStep(e) \/ StepFails(e)
      PROVE  OneOwner'
  BY <1>1, SlotFrame, SlotMovesOwner
<1>2. CASE NextBatch \/ Crash \/ \E e \in Slots : BatchFails(e)
  BY <1>2, FreshSlots DEF NextBatch, Crash, BatchFails, World
<1>3. CASE \E n \in Nodes : CapabilityReturns(n)
  <2>1. \A n \in Nodes : call[n] # "Calling" => call'[n] = call[n]
    BY <1>3 DEF CapabilityReturns, Inductive, TypeOK
  <2> QED BY <1>3, <2>1, SlotsStay DEF CapabilityReturns
<1>4. CASE \E n \in TaskNodes : TaskStep(n)
  BY <1>4, SlotsStay DEF TaskStep, TaskSubmits, TaskSettles, NotifyLoads, NotifyCommits, Engine
<1>5. CASE Cancelling
  BY <1>5, SlotsStay DEF Cancelling, CancelLoads, CancelCommits, CancelSignals
<1>6. CASE Startup
  BY <1>6, SlotsStay DEF Startup, ClassifyRun, RecoverEffect, AcceptCommands, Rest
<1> QED BY <1>1, <1>2, <1>3, <1>4, <1>5, <1>6 DEF Next

\* A slot's copy is the one it had, or the Run as it is now.
LEMMA CopyMoves ==
  ASSUME Inductive, Next, NEW e \in Slots, ex'[e].pc \in {"drive", "result"}
  PROVE  \/ ex'[e].copy = run'
         \/ ex'[e].copy = ex[e].copy /\ ex[e].pc \in {"drive", "result"}
<1> USE DEF At, World
<1>0. ex \in [Slots -> SlotType]
  BY DEF Inductive, TypeOK
<1>1. ex'[e].pc \in {"drive", "result"}
  OBVIOUS
<1>2. CASE ex'[e] = ex[e]
  BY <1>1, <1>2
<1>f. ASSUME NEW d \in Slots, Fails(d)
      PROVE  ex'[e] = ex[e]
  <2>1. [Slot("release") EXCEPT !.effect = ex[d].effect].pc = "release"
    BY SlotIsTyped DEF Pcs, SlotType
  <2> QED BY <1>0, <1>1, <1>f, <2>1 DEF Fails
<1>3. ASSUME NEW d \in Slots, SlotStep(d) \/ StepFails(d), ex'[e] # ex[e]
      PROVE  ex'[e].copy = run'
  <2>0. ~Fails(d) /\ d = e
    <3>1. \A f \in Slots : f # d => ex'[f] = ex[f]
      BY <1>3, SlotFrame DEF SlotMoves
    <3> QED BY <1>3, <1>f, <3>1
  <2>1. ASSUME NEW pc \in Pcs \ {"drive", "result"}, Goto(e, pc)
        PROVE  FALSE
    BY <1>0, <1>1, <2>1 DEF Goto, SlotType
  <2>2. ASSUME NEW proposals, NEW next \in SlotType, Commit(e, proposals, next)
        PROVE  ex'[e].copy = run'
    <3>0. ~Fails(e)
      BY <2>0
    <3>1. ex' = [ex EXCEPT ![e] = [next EXCEPT !.effect = ex[e].effect, !.copy = run']]
      BY <2>2, <3>0, CommitEffect
    <3>2. ex'[e] = [next EXCEPT !.effect = ex[e].effect, !.copy = run']
      BY <1>0, <3>1
    <3> QED BY <3>2 DEF SlotType
  <2>3. CASE Drive(e)
    <3>1. Slot("drive") \in SlotType /\ Slot("complete") \in SlotType
      BY SlotIsTyped DEF Pcs
    <3>2. \A b \in Batches(Ready(ex[e].copy)) : [Slot("launch") EXCEPT !.batch = b] \in SlotType
      BY SlotIsTyped DEF Batches, Ready, SlotType, Pcs
    <3> QED BY <2>1, <2>2, <2>3, <3>1, <3>2 DEF Drive, Pcs
  <2>4. CASE LoadRun(e)
    BY <1>0, <2>4 DEF LoadRun, SlotType
  <2>5. CASE JoinResult(e)
    BY <1>0, <1>1, <2>5 DEF JoinResult, SlotType
  <2>6. CASE NothingReady(e) \/ LaunchBatch(e) \/ BatchDone(e)
    BY <2>1, <2>6 DEF NothingReady, LaunchBatch, BatchDone, Pcs
  <2>7. CASE ClaimNext(e) \/ FinishClaim(e)
    <3>1. Slot("load").pc = "load" /\ Slot("done").pc = "done"
          /\ Slot("load") \in SlotType
      BY SlotIsTyped DEF Pcs
    <3> QED BY <1>0, <1>1, <2>7, <3>1 DEF ClaimNext, FinishClaim, SlotType
  <2>8. CASE CommitResult(e)
    BY <1>0, <1>1, <2>0, <2>8 DEF CommitResult, SlotType
  <2> QED BY <1>3, <2>0, <2>3, <2>4, <2>5, <2>6, <2>7, <2>8 DEF SlotStep, StepFails
<1>4. CASE NextBatch \/ Crash \/ \E d \in Slots : BatchFails(d)
  <2>1. ex' = [s \in Slots |-> Slot("idle")]
    BY <1>4 DEF NextBatch, Crash, BatchFails
  <2> QED BY <1>1, <2>1, SlotIsTyped DEF Pcs
<1>5. CASE ex' = ex
  BY <1>2, <1>5
<1>6. ex' = ex \/ (NextBatch \/ Crash \/ \E d \in Slots : SlotStep(d) \/ StepFails(d) \/ BatchFails(d))
  BY DEF Next, CapabilityReturns, TaskStep, TaskSubmits, TaskSettles, NotifyLoads, NotifyCommits,
         Engine, Cancelling, CancelLoads, CancelCommits, CancelSignals, Startup, ClassifyRun,
         RecoverEffect, AcceptCommands, Rest
<1> QED BY <1>2, <1>3, <1>4, <1>5, <1>6

\* So a copy with the Run's count is the Run.
LEMMA CopyStep ==
  ASSUME Inductive, Next
  PROVE  CopyIsCurrent'
<1>1. \A e \in Slots : ex[e].pc \in {"drive", "result"} =>
        /\ ex[e].copy \in RunType /\ ex[e].copy.events <= run.events
        /\ ex[e].copy.events = run.events => ex[e].copy = run
  BY DEF Inductive, TypeOK, CopyIsCurrent, SlotType
<1> QED BY <1>1, CopyMoves, RunIsForward DEF CopyIsCurrent, RunType

\* What a step may do to a task and its notice: settle and report the task, look
\* at the node, or leave them alone as long as there is nothing to report.
NoticeMoves(n) ==
  /\ \/ task'[n] = task[n] \/ Settled(task'[n])
     \/ ~Settled(task[n]) /\ notice'[n] = notice[n]
  /\ \/ notice'[n] = notice[n]
     \/ notice'[n].state # "Loaded" /\ (notice[n].state # "None" \/ Settled(task'[n]))
     \/ /\ notice[n].state # "None" /\ run' = run
        /\ notice'[n].events = run.events /\ run.nodes[n] = "Waiting"

\* A notice keeps speaking of a settled task, and of a node that still waits.
LEMMA CompletionStep ==
  ASSUME Inductive, Next
  PROVE  CompletionIsCurrent'
<1> DEFINE Notices == [state : {"None", "Pending", "Loaded", "Stuck", "Consumed"}, events : Nat]
<1>0. /\ task \in [TaskNodes -> {"Absent", "Queued", "Active", "Succeeded", "Failed"}]
      /\ notice \in [TaskNodes -> Notices] /\ run.events \in Nat
  BY DEF Inductive, TypeOK, RunType
<1>1. SUFFICES ASSUME NEW n \in TaskNodes
               PROVE  NoticeMoves(n)
  <2>1. \A n \in TaskNodes :
          /\ notice[n].events \in Nat
          /\ notice[n].state # "None" => Settled(task[n])
          /\ notice[n].state = "Loaded" =>
               /\ notice[n].events <= run.events
               /\ notice[n].events = run.events => run.nodes[n] = "Waiting"
    BY <1>0 DEF Inductive, CompletionIsCurrent
  <2>2. run.events <= run'.events /\ run'.events \in Nat /\ (run'.events = run.events => run' = run)
    BY RunIsForward DEF RunType
  <2> QED BY <1>0, <1>1, <2>1, <2>2 DEF CompletionIsCurrent, NoticeMoves
<1> USE DEF NoticeMoves
<1>2. CASE \E e \in Slots : SlotStep(e) \/ StepFails(e) \/ BatchFails(e)
  BY <1>2 DEF SlotStep, ClaimNext, NothingReady, LoadRun, Drive, LaunchBatch, JoinResult,
              CommitResult, BatchDone, FinishClaim, StepFails, BatchFails, World
<1>3. CASE NextBatch \/ Cancelling \/ Crash
  BY <1>3 DEF NextBatch, Cancelling, CancelLoads, CancelCommits, CancelSignals, Crash, World
<1>4. CASE \E m \in Nodes : CapabilityReturns(m)
  <2>1. notice' = notice /\ (task'[n] = task[n] \/ task[n] = "Absent")
    BY <1>0, <1>4 DEF CapabilityReturns
  <2> QED BY <2>1 DEF Settled
<1>5. ASSUME NEW m \in TaskNodes, TaskStep(m)
      PROVE  NoticeMoves(n)
  <2>1. CASE TaskSubmits(m)
    BY <1>0, <2>1 DEF TaskSubmits, Settled
  <2>2. CASE TaskSettles(m)
    <3>1. m = n => notice'[n].state = "Pending" /\ Settled(task'[n])
      BY <1>0, <2>2 DEF TaskSettles, Settled
    <3>2. m # n => notice'[n] = notice[n] /\ task'[n] = task[n]
      BY <1>0, <2>2 DEF TaskSettles
    <3> QED BY <3>1, <3>2
  <2>3. CASE NotifyLoads(m)
    <3>1. notice' = [notice EXCEPT ![m] = notice'[m]] /\ task' = task /\ run' = run
      BY <1>0, <2>3 DEF NotifyLoads
    <3>2. notice[m].state = "Pending"
          /\ \/ notice'[m] = [state |-> "Loaded", events |-> run.events] /\ run.nodes[m] = "Waiting"
             \/ notice'[m] = [state |-> "Consumed", events |-> 0]
             \/ notice'[m] = [state |-> "Stuck", events |-> 0]
      BY <1>0, <2>3 DEF NotifyLoads
    <3>3. CASE m = n
      BY <3>1, <3>2, <3>3
    <3>4. CASE m # n
      BY <1>0, <3>1, <3>4
    <3> QED BY <3>3, <3>4
  <2>4. CASE NotifyCommits(m)
    BY <1>0, <2>4 DEF NotifyCommits
  <2> QED BY <1>5, <2>1, <2>2, <2>3, <2>4 DEF TaskStep
<1>6. CASE Startup
  <2>1. CASE ClassifyRun
    BY <1>0, <2>1 DEF ClassifyRun, Rest
  <2> QED BY <1>6, <2>1 DEF Startup, RecoverEffect, AcceptCommands, Rest
<1> QED BY <1>2, <1>3, <1>4, <1>5, <1>6 DEF Next

----------------------------------------------------------------------------
(* The invariant.                                                          *)

\* An admitted Run satisfies it.
LEMMA InductiveInit == Init => Inductive
<1> SUFFICES ASSUME Init PROVE Inductive
  OBVIOUS
<1> USE DEF Init
<1>1. \A e \in Slots : ex[e] \in SlotType /\ ex[e].pc = "idle" /\ ex[e].batch = {}
  BY SlotIsTyped DEF Pcs
<1>2. run.state = "Queued" /\ \A n \in Nodes : run.nodes[n] = "Pending"
  BY DEF NewRun
<1>3. TypeOK
  BY <1>1, NewRunType, BoundAssumption DEF TypeOK
<1>4. UpstreamFirst /\ VerdictOfNodes /\ NodesOfState
  BY <1>2 DEF UpstreamFirst, VerdictOfNodes, NodesOfState, Started
<1>5. CopyIsCurrent /\ OneOwner
  BY <1>1 DEF CopyIsCurrent, OneOwner, Active
<1>6. CompletionIsCurrent
  BY DEF CompletionIsCurrent
<1> QED BY <1>3, <1>4, <1>5, <1>6 DEF Inductive

\* Every step keeps it.
LEMMA InductiveStep == Inductive /\ [Next]_vars => Inductive'
<1> SUFFICES ASSUME Inductive, [Next]_vars PROVE Inductive'
  OBVIOUS
<1>1. CASE Next
  BY <1>1, TypeStep, RunInvariantStep, OwnerStep, CopyStep, CompletionStep
     DEF Inductive, RunInvariant
<1>2. CASE UNCHANGED vars
  BY <1>2 DEF vars, Inductive, TypeOK, UpstreamFirst, VerdictOfNodes, NodesOfState,
              CopyIsCurrent, OneOwner, CompletionIsCurrent
<1> QED BY <1>1, <1>2

\* The strengthening of the properties below that every step preserves.
THEOREM InductiveInvariant == Spec => []Inductive
BY InductiveInit, InductiveStep, PTL DEF Spec

\* Every variable keeps its shape, whatever the plan, the slots and the crashes.
THEOREM TypeCorrect == Spec => []TypeOK
<1>1. Inductive => TypeOK
  BY DEF Inductive
<1> QED BY <1>1, InductiveInvariant, PTL

\* A node starts, waits, succeeds or fails only after everything its inputs name
\* has succeeded, and that success is never taken back (run_execution/input.rs:89).
THEOREM StartsInOrder == Spec => []UpstreamFirst
<1>1. Inductive => UpstreamFirst
  BY DEF Inductive
<1> QED BY <1>1, InductiveInvariant, PTL

\* Whatever crashes, lost races, retried effects and concurrent executors there
\* are, the capability of a node is called at most once (run_execution.rs:150).
THEOREM CalledOnce == Spec => []ExecutedOnce
<1>1. Inductive => ExecutedOnce
  BY DEF Inductive, TypeOK, OneOwner, ExecutedOnce
<1> QED BY <1>1, InductiveInvariant, PTL

\* A Run that succeeded has only succeeded nodes; one that failed has a failed
\* node, and what is blocked depends on a failed one (transition.rs:206).
THEOREM VerdictIsOfNodes == Spec => []VerdictOfNodes
<1>1. Inductive => VerdictOfNodes
  BY DEF Inductive
<1> QED BY <1>1, InductiveInvariant, PTL

\* After its end a Run changes no more, but for the waiting nodes of an
\* interrupted one (generation_task_completion.rs:171).
THEOREM TerminalForever == Spec => TerminalRunIsFinal
<1> DEFINE Final == ~Live(run) =>
       /\ run'.state = run.state
       /\ \A n \in Nodes :
            \/ run'.nodes[n] = run.nodes[n]
            \/ run.state = "Interrupted" /\ run.nodes[n] = "Waiting"
<1>1. ASSUME Inductive, [Next]_vars
      PROVE  [Final]_vars
  <2>1. CASE run' = run
    BY <2>1
  <2>2. CASE Change
    <3>1. ~Live(run) => Ends
      BY <2>2 DEF Change, Begins, Starts, Blocks, HandsOff, Finishes, Cancels, Interrupts,
                  Live, RunTerminal
    <3>2. CASE Ends
      BY <3>2 DEF Ends, Record, Move, Inductive, TypeOK, RunType, Live, RunTerminal
    <3> QED BY <3>1, <3>2
  <2> QED BY <1>1, <2>1, <2>2, RunChanges DEF vars
<1> QED BY <1>1, InductiveInvariant, PTL DEF Spec, TerminalRunIsFinal

\* Each change of the Run is a step of the promise.
LEMMA ChangeIsPromised ==
  ASSUME run \in RunType, Change
  PROVE  Promise!Next
<1> USE DEF Record, Move, RunType
<1>0. run.nodes \in [Nodes -> NodeStates]
  OBVIOUS
<1>1. CASE Begins
  BY <1>1 DEF Begins, Promise!Next, Promise!Begin
<1>2. CASE Starts
  <2>1. PICK batch \in SUBSET Nodes :
          /\ \A n \in batch : /\ run.nodes[n] = "Pending"
                              /\ \A u \in Upstream[n] : run.nodes[u] = "Succeeded"
          /\ run' = Record(run, "Running", Move(run, batch, "Running"))
    BY <1>2 DEF Starts
  <2>2. run'.state = run.state /\ run'.nodes = [n \in Nodes |-> IF n \in batch THEN "Running" ELSE run.nodes[n]]
    BY <1>2, <2>1 DEF Starts
  <2>3. Promise!StartNodes
    BY <1>2, <2>1, <2>2 DEF Starts, Promise!StartNodes, Promise!Becomes
  <2> QED BY <2>3 DEF Promise!Next
<1>3. CASE Blocks
  BY <1>3 DEF Blocks, Promise!Next, Promise!BlockNodes, Promise!Becomes
<1>4. CASE HandsOff
  BY <1>4 DEF HandsOff, Promise!Next, Promise!HandOff, Promise!Becomes
<1>5. CASE Ends
  <2>1. PICK n \in Nodes, outcome \in {"Succeeded", "Failed"} :
          /\ \/ run.state = "Running" /\ run.nodes[n] \in {"Running", "Waiting"}
             \/ run.state = "Interrupted" /\ run.nodes[n] = "Waiting"
          /\ run' = Record(run, run.state, Move(run, {n}, outcome))
    BY <1>5 DEF Ends
  <2>2. Promise!End(n)
    BY <2>1 DEF Promise!End, Promise!Becomes
  <2> QED BY <2>2 DEF Promise!Next
<1>6. CASE Finishes
  BY <1>6 DEF Finishes, Promise!Next, Promise!Finish, Promise!Settled, NodeTerminal
<1>7. CASE Cancels
  <2>1. run.state \in {"Queued", "Running"}
    BY <1>7 DEF Cancels, Live, RunStates
  <2>2. run'.nodes = [n \in Nodes |-> IF n \in {m \in Nodes : run.nodes[m] \notin NodeTerminal}
                                       THEN "Cancelled" ELSE run.nodes[n]]
    BY <1>7 DEF Cancels
  <2> QED BY <1>7, <2>1, <2>2 DEF Cancels, Promise!Next, Promise!Cancel, Promise!Becomes,
                                Promise!Settled, NodeTerminal
<1>8. CASE Interrupts
  BY <1>8 DEF Interrupts, Promise!Next, Promise!Interrupt
<1> QED BY <1>1, <1>2, <1>3, <1>4, <1>5, <1>6, <1>7, <1>8 DEF Change

\* The component implements RunPromise: seen through the Run and its nodes, the
\* worker slots, calls, tasks, cancellation, crashes and recovery do what the
\* promise allows and nothing else.
THEOREM PromiseKept == Spec => ImplementsPromise
<1>1. Init => Promise!Init
  BY DEF Init, NewRun, Promise!Init
<1>2. ASSUME Inductive, [Next]_vars
      PROVE  [Promise!Next]_<<run.state, run.nodes>>
  <2>1. run \in RunType
    BY <1>2 DEF Inductive, TypeOK
  <2>2. CASE run' = run
    BY <2>2
  <2> QED BY <1>2, <2>1, <2>2, RunChanges, ChangeIsPromised DEF vars
<1> QED BY <1>1, <1>2, InductiveInvariant, PTL DEF Spec, ImplementsPromise, Promise!Spec

----------------------------------------------------------------------------
(* No wake-up is lost.  An executor that decides on an old copy is not who *)
(* drives the Run: whatever made its copy old left somebody else to do so. *)

Busy(e) == ex[e].pc \notin {"idle", "done"}

\* An executor that will look at the Run again, or knows it as it is.
Fresh(e) ==
  \/ ex[e].pc \in {"load", "launch", "join", "result", "release"}
  \/ ex[e].pc = "drive" /\ ex[e].copy = run

Claimable == \E f \in EffectIds : effects[f] = "Ready" \/ Stranded(f)
Awaited == \E n \in TaskNodes : run.nodes[n] = "Waiting" /\ notice[n].state # "Consumed"
SomebodyDrives == Live(run) => Claimable \/ Awaited \/ \E e \in Slots : Fresh(e)

\* A busy slot has claimed its effect, and nobody else has.
ClaimsAreHeld ==
  /\ \A e \in Slots : Busy(e) => effects[ex[e].effect] = "Claimed"
  /\ \A e, f \in Slots : e # f /\ Busy(e) /\ Busy(f) => ex[e].effect # ex[f].effect
  /\ host # "Up" => \A e \in Slots : ~Busy(e)

\* A node waits for a task; the effect that continues the Run after it comes with its
\* outcome, and its notice is consumed when there is nothing more to tell.
WakesOnce ==
  /\ \A n \in Nodes : run.nodes[n] = "Waiting" \/ call[n] = "Waiting" => n \in TaskNodes
  /\ \A n \in TaskNodes :
       /\ effects[n] # "Absent" => run.nodes[n] \in NodeTerminal
       /\ notice[n].state = "Consumed" => run.nodes[n] \in NodeTerminal \/ ~Live(run)

\* A Run that a copy shows ended has ended.
StoppedIsOver ==
  \A e \in Slots : ex[e].pc \in {"drive", "result"} /\ ~Live(ex[e].copy) => ~Live(run)

Driven == SomebodyDrives /\ ClaimsAreHeld /\ WakesOnce /\ StoppedIsOver

\* A Run that has ended has ended, whoever still works on it.
LEMMA EndedStays ==
  ASSUME Inductive, Next, ~Live(run)
  PROVE  ~Live(run')
<1>1. CASE run' = run
  BY <1>1 DEF Live
<1>2. CASE Ends
  BY <1>2 DEF Ends, Record, Live
<1>3. CASE Change /\ ~Ends
  BY <1>3 DEF Change, Begins, Starts, Blocks, HandsOff, Finishes, Cancels, Interrupts,
              Live, RunTerminal
<1> QED BY <1>1, <1>2, <1>3, RunChanges

\* So what a copy shows ended stays so.
LEMMA StoppedStep ==
  ASSUME Inductive, StoppedIsOver, Next
  PROVE  StoppedIsOver'
<1> SUFFICES ASSUME NEW e \in Slots, ex'[e].pc \in {"drive", "result"}, ~Live(ex'[e].copy)
             PROVE  ~Live(run')
  BY DEF StoppedIsOver, Live
<1>1. CASE ex'[e].copy = run'
  BY <1>1
<1>2. CASE ex'[e].copy = ex[e].copy /\ ex[e].pc \in {"drive", "result"}
  BY <1>2, EndedStays DEF StoppedIsOver
<1> QED BY <1>1, <1>2, CopyMoves

\* An executor that goes on keeps its claim.  It leaves the Run to somebody else only
\* when it has ended, when a task will report, or when its copy is an old one.
GoesOn(e) ==
  /\ Busy(e) /\ Busy(e)' /\ ex'[e].effect = ex[e].effect
  /\ UNCHANGED <<effects, notice, host>>
  /\ \/ Fresh(e)' \/ ~Live(run')
     \/ run' = run /\ (Fresh(e) => Awaited)

\* Giving up is going on: the effect is put back.
LEMMA FailsGoesOn ==
  ASSUME Inductive, NEW e \in Slots, Busy(e), Fails(e), UNCHANGED <<effects, notice, host>>
  PROVE  GoesOn(e)
<1>1. ex \in [Slots -> SlotType]
  BY DEF Inductive, TypeOK
<1>2. ex'[e] = [Slot("release") EXCEPT !.effect = ex[e].effect]
  BY <1>1 DEF Fails
<1>3. ex'[e].pc = "release" /\ ex'[e].effect = ex[e].effect
  BY <1>2, SlotIsTyped DEF Pcs, SlotType
<1> QED BY <1>3 DEF GoesOn, Busy, Fresh

\* So is a commit, which knows the Run it has committed, or has ended it.
LEMMA CommitGoesOn ==
  ASSUME Inductive, NEW e \in Slots, Busy(e), UNCHANGED <<effects, notice, host>>,
         NEW proposals, NEW next \in SlotType, Commit(e, proposals, next),
         next.pc \in {"drive", "launch"} \/ (next.pc = "complete" /\ \A r \in proposals : ~Live(r))
  PROVE  GoesOn(e)
<1>1. CASE Fails(e)
  BY <1>1, FailsGoesOn
<1>2. CASE run' \in proposals
           /\ ex' = [ex EXCEPT ![e] = [next EXCEPT !.effect = ex[e].effect, !.copy = run']]
  <2>1. ex \in [Slots -> SlotType]
    BY DEF Inductive, TypeOK
  <2>2. ex'[e] = [next EXCEPT !.effect = ex[e].effect, !.copy = run']
    BY <1>2, <2>1
  <2>3. ex'[e].pc = next.pc /\ ex'[e].effect = ex[e].effect /\ ex'[e].copy = run'
    BY <2>2 DEF SlotType
  <2> QED BY <1>2, <2>3 DEF GoesOn, Busy, Fresh
<1> QED BY <1>1, <1>2, CommitEffect

\* One turn of the loop.
LEMMA DriveGoesOn ==
  ASSUME Inductive, Driven, NEW e \in Slots, Drive(e)
  PROVE  GoesOn(e)
<1> DEFINE r == ex[e].copy
<1>0. /\ ex \in [Slots -> SlotType] /\ ex[e].pc = "drive" /\ Busy(e)
      /\ UNCHANGED <<effects, notice, host>>
  BY DEF Inductive, TypeOK, Drive, At, World, Busy
<1>1. Goto(e, "complete") => /\ Busy(e)' /\ ex'[e].effect = ex[e].effect
  BY <1>0 DEF Goto, Busy, SlotType
<1>2. CASE ~Live(r) /\ Goto(e, "complete") /\ run' = run
  BY <1>0, <1>1, <1>2 DEF GoesOn, Driven, StoppedIsOver
<1>3. CASE r.state = "Running" /\ (\E n \in Nodes : r.nodes[n] = "Waiting")
           /\ Goto(e, "complete") /\ run' = run
  <2>1. ASSUME r = run
        PROVE  Awaited
    <3>1. PICK n \in Nodes : run.nodes[n] = "Waiting"
      BY <1>3, <2>1
    <3>2. n \in TaskNodes /\ Live(run)
      BY <1>3, <2>1, <3>1 DEF Driven, WakesOnce, Live, RunTerminal
    <3>3. notice[n].state # "Consumed"
      BY <3>1, <3>2 DEF Driven, WakesOnce, NodeTerminal
    <3> QED BY <3>1, <3>2, <3>3 DEF Awaited
  <2>2. Fresh(e) => r = run
    BY <1>0 DEF Fresh
  <2> QED BY <1>0, <1>1, <1>3, <2>1, <2>2 DEF GoesOn
<1>4. ASSUME NEW proposals, NEW pc \in {"drive"}, Commit(e, proposals, Slot(pc))
      PROVE  GoesOn(e)
  BY <1>0, <1>4, SlotIsTyped, CommitGoesOn DEF Pcs
<1>5. ASSUME NEW b \in Batches(Ready(r)), NEW proposals,
             Commit(e, proposals, [Slot("launch") EXCEPT !.batch = b])
      PROVE  GoesOn(e)
  <2>1. LET s == [Slot("launch") EXCEPT !.batch = b]
        IN s \in SlotType /\ s.pc = "launch"
    BY SlotIsTyped DEF Batches, Ready, SlotType, Pcs
  <2> QED BY <1>0, <1>5, <2>1, CommitGoesOn
<1>6. CASE Commit(e, Finish(r), Slot("complete"))
  <2>1. \A s \in Finish(r) : ~Live(s)
    BY DEF Finish, Record, Live, RunTerminal
  <2> QED BY <1>0, <1>6, <2>1, SlotIsTyped, CommitGoesOn DEF Pcs
<1> QED BY <1>2, <1>3, <1>4, <1>5, <1>6 DEF Drive

Executes(e) ==
  LoadRun(e) \/ Drive(e) \/ LaunchBatch(e) \/ JoinResult(e) \/ CommitResult(e) \/ BatchDone(e)

\* Every step of an executor but the first and the last.
LEMMA ExecutorGoesOn ==
  ASSUME Inductive, Driven, NEW e \in Slots, Executes(e) \/ StepFails(e)
  PROVE  GoesOn(e)
<1>0. ex \in [Slots -> SlotType] /\ UNCHANGED <<effects, notice, host>> /\ Busy(e)
  BY DEF Inductive, TypeOK, Executes, LoadRun, Drive, LaunchBatch, JoinResult, CommitResult,
         BatchDone, StepFails, At, World, Busy
<1>1. ASSUME ex'[e].pc \in {"load", "join", "result"}, ex'[e].effect = ex[e].effect
      PROVE  GoesOn(e)
  BY <1>0, <1>1 DEF GoesOn, Busy, Fresh
<1>2. CASE LoadRun(e)
  <2>1. ex'[e].pc = "drive" /\ ex'[e].copy = run' /\ ex'[e].effect = ex[e].effect
    BY <1>0, <1>2 DEF LoadRun, SlotType
  <2> QED BY <1>0, <2>1 DEF GoesOn, Busy, Fresh
<1>3. CASE Drive(e)
  BY <1>3, DriveGoesOn
<1>4. CASE LaunchBatch(e) \/ BatchDone(e)
  <2>1. ex'[e].pc \in {"load", "join"} /\ ex'[e].effect = ex[e].effect
    BY <1>0, <1>4 DEF LaunchBatch, BatchDone, Goto, SlotType
  <2> QED BY <1>1, <2>1
<1>5. CASE JoinResult(e)
  <2>1. ex'[e].pc \in {"join", "result"} /\ ex'[e].effect = ex[e].effect
    BY <1>0, <1>5 DEF JoinResult, At, SlotType
  <2> QED BY <1>1, <2>1
<1>6. CASE CommitResult(e) /\ ~Fails(e)
  <2>1. ex'[e].pc = "join" /\ ex'[e].effect = ex[e].effect
    BY <1>0, <1>6 DEF CommitResult, SlotType
  <2> QED BY <1>1, <2>1
<1>7. CASE Fails(e)
  BY <1>0, <1>7, FailsGoesOn
<1> QED BY <1>2, <1>3, <1>4, <1>5, <1>6, <1>7 DEF Executes, StepFails

\* Who else drives the Run keeps driving it.
LEMMA OthersDrive ==
  ASSUME SomebodyDrives, WakesOnce', run' = run,
         Claimable => Claimable' \/ \E e \in Slots : Fresh(e)',
         \A e \in Slots : Fresh(e) => Claimable' \/ Awaited \/ \E d \in Slots : Fresh(d)'
  PROVE  SomebodyDrives'
<1> SUFFICES ASSUME Live(run)'
             PROVE  Claimable' \/ Awaited' \/ \E e \in Slots : Fresh(e)'
  BY DEF SomebodyDrives
<1>1. Live(run)
  BY DEF Live
<1>2. Awaited => Awaited'
  BY DEF Awaited, WakesOnce, NodeTerminal
<1> QED BY <1>1, <1>2 DEF SomebodyDrives

\* What a slot that goes on does to the claims and to who drives the Run.
LEMMA GoesOnKeeps ==
  ASSUME Inductive, Driven, WakesOnce', NEW e \in Slots, GoesOn(e),
         \A f \in Slots : f # e => ex'[f] = ex[f]
  PROVE  SomebodyDrives' /\ ClaimsAreHeld'
<1>1. \A f \in Slots : Busy(f)' = Busy(f) /\ ex'[f].effect = ex[f].effect
  BY DEF GoesOn, Busy
<1>2. ClaimsAreHeld'
  BY <1>1 DEF Driven, ClaimsAreHeld, GoesOn
<1>3. \A f \in EffectIds : Held(f)' = Held(f)
  BY <1>1 DEF Held, Busy
<1>4. Claimable' = Claimable
  BY <1>3 DEF Claimable, Stranded, GoesOn
<1>5. CASE Fresh(e)' \/ ~Live(run')
  BY <1>2, <1>5 DEF SomebodyDrives, Live
<1>6. CASE run' = run /\ (Fresh(e) => Awaited)
  <2>1. \A f \in Slots : f # e => Fresh(f)' = Fresh(f)
    BY <1>6 DEF Fresh
  <2> QED BY <1>2, <1>4, <1>6, <2>1, OthersDrive DEF Driven
<1> QED BY <1>2, <1>5, <1>6 DEF GoesOn

\* A slot takes an effect, or finds none.
LEMMA ClaimingKeeps ==
  ASSUME Inductive, Driven, WakesOnce', NEW e \in Slots, ClaimNext(e) \/ NothingReady(e),
         \A f \in Slots : f # e => ex'[f] = ex[f]
  PROVE  SomebodyDrives' /\ ClaimsAreHeld'
<1>0. /\ ex \in [Slots -> SlotType] /\ effects \in Rows
      /\ ~Busy(e) /\ ~Fresh(e) /\ UNCHANGED <<run, host>>
  BY DEF Inductive, TypeOK, Rows, ClaimNext, NothingReady, At, Busy, Fresh, World
<1>1. CASE ClaimNext(e)
  <2>1. PICK g \in EffectIds :
          /\ effects[g] = "Ready" /\ effects' = [effects EXCEPT ![g] = "Claimed"]
          /\ ex' = [ex EXCEPT ![e] = [Slot("load") EXCEPT !.effect = g]]
    BY <1>1 DEF ClaimNext
  <2>2. ex'[e].pc = "load" /\ ex'[e].effect = g
    BY <1>0, <2>1, SlotIsTyped DEF Pcs, SlotType
  <2>3. \A f \in Slots : Busy(f)' <=> Busy(f) \/ f = e
    BY <2>2 DEF Busy
  <2>4. \A f \in Slots : Busy(f) => f # e /\ ex'[f].effect = ex[f].effect /\ ex[f].effect # g
    BY <1>0, <2>1 DEF Driven, ClaimsAreHeld
  <2>5. \A f \in Slots : Busy(f)' => effects'[ex'[f].effect] = "Claimed"
    BY <1>0, <2>1, <2>2, <2>3, <2>4 DEF Driven, ClaimsAreHeld, Rows
  <2>6. \A f, d \in Slots : f # d /\ Busy(f)' /\ Busy(d)' => ex'[f].effect # ex'[d].effect
    BY <2>2, <2>3, <2>4 DEF Driven, ClaimsAreHeld
  <2>7. host' = "Up"
    BY <1>0, <1>1 DEF ClaimNext, At
  <2> QED BY <2>2, <2>5, <2>6, <2>7 DEF ClaimsAreHeld, SomebodyDrives, Fresh
<1>2. CASE NothingReady(e)
  <2>1. ex'[e].pc = "done" /\ effects' = effects
    BY <1>0, <1>2 DEF NothingReady, Goto, SlotType
  <2>2. \A f \in Slots : Busy(f)' = Busy(f) /\ (Busy(f) => ex'[f] = ex[f])
    BY <1>0, <2>1 DEF Busy
  <2>3. ClaimsAreHeld'
    BY <1>0, <2>1, <2>2 DEF Driven, ClaimsAreHeld
  <2>4. \A f \in EffectIds : Held(f)' = Held(f)
    BY <2>2 DEF Held, Busy
  <2>5. Claimable' = Claimable
    BY <2>1, <2>4 DEF Claimable, Stranded
  <2>6. \A f \in Slots : Fresh(f) => Fresh(f)'
    BY <1>0 DEF Fresh
  <2> QED BY <1>0, <2>3, <2>5, <2>6, OthersDrive DEF Driven
<1> QED BY <1>1, <1>2

\* A slot puts its effect back, or ends one that nobody else would have executed.
LEMMA FinishingKeeps ==
  ASSUME Inductive, Driven, WakesOnce', NEW e \in Slots, FinishClaim(e),
         \A f \in Slots : f # e => ex'[f] = ex[f]
  PROVE  SomebodyDrives' /\ ClaimsAreHeld'
<1> DEFINE g == ex[e].effect
<1>0. /\ ex \in [Slots -> SlotType] /\ effects \in Rows /\ g \in EffectIds
      /\ Busy(e) /\ effects[g] = "Claimed" /\ UNCHANGED <<run, host, notice>>
  BY DEF Inductive, TypeOK, Rows, SlotType, FinishClaim, Busy, World, Driven, ClaimsAreHeld
<1>1. ex'[e].pc = "done"
  BY <1>0, SlotIsTyped DEF FinishClaim, Pcs
<1>2. \A f \in EffectIds : f # g => effects'[f] = effects[f]
  BY <1>0 DEF FinishClaim, Rows
<1>3. \A f \in Slots : Busy(f)' <=> Busy(f) /\ f # e
  BY <1>0, <1>1 DEF Busy
<1>4. \A f \in Slots : Busy(f) /\ f # e => ex[f].effect # g /\ ex[f].effect \in EffectIds
  BY <1>0 DEF Driven, ClaimsAreHeld, SlotType
<1>5. ClaimsAreHeld'
  BY <1>0, <1>2, <1>3, <1>4 DEF Driven, ClaimsAreHeld
<1>6. CASE ex[e].pc = "release"
  <2>1. effects'[g] = "Ready"
    BY <1>0, <1>6 DEF FinishClaim, Rows
  <2> QED BY <1>0, <1>5, <2>1 DEF SomebodyDrives, Claimable
<1>7. CASE ex[e].pc # "release"
  <2>1. ~Fresh(e)
    BY <1>7 DEF FinishClaim, Fresh
  <2>2. \A f \in Slots : f # e => Fresh(f)' = Fresh(f)
    BY <1>0 DEF Fresh
  <2>3. ~Stranded(g) /\ effects[g] # "Ready"
    BY <1>0 DEF Stranded, Held, Busy
  <2>4. \A f \in EffectIds : f # g => Held(f)' = Held(f)
    BY <1>3 DEF Held, Busy
  <2>5. Claimable => Claimable'
    BY <1>2, <2>3, <2>4 DEF Claimable, Stranded
  <2> QED BY <1>0, <1>5, <2>1, <2>2, <2>5, OthersDrive DEF Driven
<1> QED BY <1>5, <1>6, <1>7

\* When every slot is dropped, what a busy one had claimed is stranded; only an effect
\* that is about to be completed may be completed in that.
LEMMA DroppingKeeps ==
  ASSUME Inductive, Driven, WakesOnce', ex' = [s \in Slots |-> Slot("idle")], run' = run,
         \/ effects' = effects
         \/ \E e \in Slots : /\ ex[e].pc = "complete"
                            /\ effects' = [effects EXCEPT ![ex[e].effect] = "Completed"]
  PROVE  SomebodyDrives' /\ ClaimsAreHeld'
<1>0. /\ ex \in [Slots -> SlotType] /\ effects \in Rows
      /\ \A f \in Slots : ~Busy(f)'
  BY SlotIsTyped DEF Inductive, TypeOK, Rows, Busy, Pcs
<1>1. ClaimsAreHeld'
  BY <1>0 DEF ClaimsAreHeld
<1>2. \A f \in EffectIds : ~Held(f)'
  BY <1>0 DEF Held, Busy
<1>3. \A f \in EffectIds : effects'[f] = "Ready" \/ effects'[f] = "Claimed" => Claimable'
  BY <1>2 DEF Claimable, Stranded
<1>4. ASSUME NEW d \in Slots, Fresh(d)
      PROVE  Claimable'
  <2>1. Busy(d) /\ ex[d].pc # "complete" /\ ex[d].effect \in EffectIds
    BY <1>0, <1>4 DEF Busy, Fresh, SlotType
  <2>2. effects[ex[d].effect] = "Claimed"
    BY <2>1 DEF Driven, ClaimsAreHeld
  <2>3. ASSUME NEW e \in Slots, ex[e].pc = "complete"
        PROVE  ex[e].effect # ex[d].effect
    BY <2>1, <2>3 DEF Driven, ClaimsAreHeld, Busy
  <2>4. effects'[ex[d].effect] = "Claimed"
    BY <1>0, <2>1, <2>2, <2>3 DEF Rows
  <2> QED BY <1>3, <2>1, <2>4
<1>5. ASSUME Claimable
      PROVE  Claimable'
  <2>1. PICK f \in EffectIds : effects[f] = "Ready" \/ Stranded(f)
    BY <1>5 DEF Claimable
  <2>2. \A e \in Slots : ex[e].pc = "complete" => ex[e].effect # f
    BY <2>1 DEF Stranded, Held, Driven, ClaimsAreHeld, Busy
  <2>3. effects'[f] = effects[f]
    BY <1>0, <2>1, <2>2 DEF Rows
  <2> QED BY <1>3, <2>1, <2>3 DEF Stranded
<1> QED BY <1>1, <1>4, <1>5, OthersDrive DEF Driven

\* Where no slot moves and every effect stays, so do the claims and who drives the Run;
\* a Run that ends needs nobody.
LEMMA AsideKeeps ==
  ASSUME Inductive, Driven, WakesOnce', UNCHANGED <<ex, effects>>, run' = run \/ ~Live(run'),
         host' = "Up" \/ host # "Up"
  PROVE  SomebodyDrives' /\ ClaimsAreHeld'
<1>1. \A f \in Slots : Busy(f)' = Busy(f)
  BY DEF Busy
<1>2. ClaimsAreHeld'
  BY <1>1 DEF Driven, ClaimsAreHeld
<1>3. Claimable' = Claimable
  BY DEF Claimable, Stranded, Held
<1>4. CASE run' = run
  <2>1. \A f \in Slots : Fresh(f)' = Fresh(f)
    BY <1>4 DEF Fresh
  <2> QED BY <1>2, <1>3, <1>4, <2>1, OthersDrive DEF Driven
<1>5. CASE ~Live(run')
  BY <1>2, <1>5 DEF SomebodyDrives, Live
<1> QED BY <1>4, <1>5

\* A completion commits the effect that continues the Run, which did not exist before.
LEMMA CompletionKeeps ==
  ASSUME Inductive, Driven, WakesOnce', NEW n \in TaskNodes, NotifyCommits(n)
  PROVE  SomebodyDrives' /\ ClaimsAreHeld'
<1>0. effects \in Rows /\ n \in EffectIds /\ UNCHANGED <<ex, host>>
  BY DEF Inductive, TypeOK, Rows, EffectIds, NotifyCommits, Engine
<1>1. CASE notice[n].events = run.events
  <2>1. run.nodes[n] = "Waiting"
    BY <1>1 DEF NotifyCommits, Inductive, CompletionIsCurrent
  <2>2. effects[n] = "Absent" /\ effects' = [effects EXCEPT ![n] = "Ready"]
    BY <1>1, <2>1 DEF Driven, WakesOnce, NodeTerminal, NotifyCommits, Wake
  <2>3. \A f \in Slots : Busy(f) => ex[f].effect # n
    BY <2>2 DEF Driven, ClaimsAreHeld
  <2>4. effects'[n] = "Ready" /\ \A f \in EffectIds : f # n => effects'[f] = effects[f]
    BY <1>0, <2>2 DEF Rows
  <2>5. \A f \in Slots : Busy(f)' = Busy(f) /\ ex[f].effect \in EffectIds
    BY <1>0 DEF Busy, Inductive, TypeOK, SlotType
  <2>6. ClaimsAreHeld'
    BY <1>0, <2>3, <2>4, <2>5 DEF Driven, ClaimsAreHeld
  <2> QED BY <1>0, <2>4, <2>6 DEF SomebodyDrives, Claimable
<1>2. CASE notice[n].events # run.events
  BY <1>0, <1>2, AsideKeeps DEF NotifyCommits, Inductive, TypeOK
<1> QED BY <1>1, <1>2

\* A node waits once its capability has answered that it waits.
LEMMA WaitsForTask ==
  ASSUME Inductive, WakesOnce, Next, NEW n \in Nodes, run'.nodes[n] = "Waiting" \/ call'[n] = "Waiting"
  PROVE  n \in TaskNodes
<1>0. call \in Calls /\ run \in RunType
  BY DEF Inductive, TypeOK, Calls
<1>1. CASE run'.nodes[n] = "Waiting"
  <2>1. CASE run' = run
    BY <1>1, <2>1 DEF WakesOnce
  <2>2. CASE Change
    <3>1. run.nodes[n] = "Waiting" \/ call[n] = "Waiting"
      BY <1>0, <1>1, <2>2 DEF Change, Begins, Starts, Blocks, HandsOff, Ends, Finishes, Cancels,
                            Interrupts, Record, Move, RunType, NodeTerminal
    <3> QED BY <3>1 DEF WakesOnce
  <2> QED BY <2>1, <2>2, RunChanges
<1>2. CASE call'[n] = "Waiting"
  <2>1. call'[n] = call[n] \/ n \in TaskNodes
    <3>1. ASSUME NEW e \in Slots, NEW proposals, NEW next, Commit(e, proposals, next)
          PROVE  call'[n] = call[n] \/ n \in TaskNodes
      BY <1>0, <1>2, <3>1 DEF Commit, Fails, Aborted
    <3>2. ASSUME NEW e \in Slots, Fails(e)
          PROVE  call'[n] = call[n] \/ n \in TaskNodes
      BY <1>0, <1>2, <3>2 DEF Fails, Aborted
    <3>3. ASSUME NEW e \in Slots, SlotStep(e) \/ StepFails(e) \/ BatchFails(e)
          PROVE  call'[n] = call[n] \/ n \in TaskNodes
      <4>1. CASE Drive(e)
        BY <3>1, <4>1 DEF Drive
      <4>2. CASE LaunchBatch(e) \/ JoinResult(e)
        BY <1>0, <1>2, <4>2 DEF LaunchBatch, JoinResult, Calls
      <4>3. CASE CommitResult(e) /\ ~Fails(e)
        BY <1>0, <1>2, <4>3 DEF CommitResult, Calls
      <4>4. CASE BatchFails(e)
        BY <1>2, <4>4 DEF BatchFails
      <4> QED BY <3>2, <3>3, <4>1, <4>2, <4>3, <4>4 DEF SlotStep, ClaimNext, NothingReady,
                 LoadRun, BatchDone, FinishClaim, StepFails
    <3>4. CASE \E m \in Nodes : CapabilityReturns(m)
      BY <1>0, <1>2, <3>4 DEF CapabilityReturns, Calls
    <3>5. CASE NextBatch \/ Cancelling \/ Startup \/ \E m \in TaskNodes : TaskStep(m)
      BY <3>5 DEF NextBatch, Cancelling, CancelLoads, CancelCommits, CancelSignals, Startup,
                  ClassifyRun, RecoverEffect, AcceptCommands, Rest, TaskStep, TaskSubmits,
                  TaskSettles, NotifyLoads, NotifyCommits
    <3>6. CASE Crash
      BY <1>2, <3>6 DEF Crash
    <3> QED BY <3>3, <3>4, <3>5, <3>6 DEF Next
  <2> QED BY <1>2, <2>1 DEF WakesOnce
<1> QED BY <1>1, <1>2

\* An effect comes into being with the completion of its node.
LEMMA EffectsComeOnce ==
  ASSUME Inductive, Driven, Next, NEW n \in TaskNodes, effects'[n] # "Absent"
  PROVE  run'.nodes[n] \in NodeTerminal
<1>0. /\ effects \in Rows /\ ex \in [Slots -> SlotType] /\ run \in RunType
      /\ n \in Nodes /\ n \in EffectIds
  BY PlanAssumption DEF Inductive, TypeOK, Rows, EffectIds
<1>1. CASE effects[n] # "Absent"
  <2>1. run.nodes[n] \in NodeTerminal
    BY <1>1 DEF Driven, WakesOnce
  <2>2. CASE run' = run
    BY <2>1, <2>2
  <2>3. CASE Change
    BY <1>0, <2>1, <2>3, ChangeIsForward, SMTT(40)
  <2> QED BY <2>2, <2>3, RunChanges
<1>2. CASE effects[n] = "Absent"
  <2>1. ASSUME NEW m \in TaskNodes, NotifyCommits(m)
        PROVE  run'.nodes[n] \in NodeTerminal
    <3>1. m = n /\ notice[n].events = run.events
      BY <1>0, <1>2, <2>1 DEF NotifyCommits, Wake, Rows
    <3>2. run.nodes[n] = "Waiting" /\ task[n] \in {"Succeeded", "Failed"}
      BY <2>1, <3>1 DEF NotifyCommits, Inductive, CompletionIsCurrent, Settled
    <3>3. run' = Record(run, run.state, Move(run, {n}, task[n]))
      BY <2>1, <3>1, <3>2 DEF NotifyCommits, EndNode
    <3> QED BY <1>0, <3>2, <3>3 DEF Record, Move, NodeTerminal
  <2>2. ASSUME NEW e \in Slots, ClaimNext(e) \/ FinishClaim(e) \/ BatchFails(e)
        PROVE  FALSE
    <3>1. Busy(e) => ex[e].effect # n
      BY <1>2 DEF Driven, ClaimsAreHeld
    <3> QED BY <1>0, <1>2, <2>2, <3>1 DEF ClaimNext, FinishClaim, BatchFails, Busy, Rows
  <2>3. CASE Startup
    BY <1>0, <1>2, <2>3 DEF Startup, ClassifyRun, RecoverEffect, AcceptCommands, Rows
  <2> QED
    BY <1>2, <2>1, <2>2, <2>3, ZenonT(60) DEF Next, SlotStep, NothingReady, LoadRun, Drive, LaunchBatch,
       JoinResult, CommitResult, BatchDone, StepFails, NextBatch, CapabilityReturns, TaskStep,
       TaskSubmits, TaskSettles, NotifyLoads, Cancelling, CancelLoads, CancelCommits,
       CancelSignals, Crash
<1> QED BY <1>1, <1>2

\* A notice is consumed when its node has its outcome, or the Run has ended.
LEMMA ConsumedStep ==
  ASSUME Inductive, WakesOnce, Next, NEW n \in TaskNodes, notice'[n].state = "Consumed"
  PROVE  run'.nodes[n] \in NodeTerminal \/ ~Live(run')
<1> DEFINE Notices == [state : {"None", "Pending", "Loaded", "Stuck", "Consumed"}, events : Nat]
<1>0. notice \in [TaskNodes -> Notices] /\ n \in Nodes /\ run \in RunType
  BY PlanAssumption DEF Inductive, TypeOK
<1>1. CASE notice[n].state = "Consumed"
  <2>1. run.nodes[n] \in NodeTerminal \/ ~Live(run)
    BY <1>1 DEF WakesOnce
  <2>2. run.nodes[n] \in NodeTerminal => run'.nodes[n] \in NodeTerminal
    <3>1. CASE run' = run
      BY <3>1
    <3>2. CASE Change
      BY <1>0, <3>2, ChangeIsForward
    <3> QED BY <3>1, <3>2, RunChanges
  <2> QED BY <2>1, <2>2, EndedStays
<1>2. CASE notice[n].state # "Consumed"
  <2>1. ASSUME NEW m \in TaskNodes, NotifyLoads(m)
        PROVE  run'.nodes[n] \in NodeTerminal \/ ~Live(run')
    <3>1. m = n /\ run' = run
      BY <1>0, <1>2, <2>1 DEF NotifyLoads
    <3>2. run.nodes[n] \in NodeTerminal \/ ~Live(run)
      BY <1>0, <2>1, <3>1 DEF NotifyLoads
    <3> QED BY <3>1, <3>2
  <2>2. ASSUME NEW m \in TaskNodes, TaskSettles(m) \/ NotifyCommits(m)
        PROVE  FALSE
    BY <1>0, <1>2, <2>2 DEF TaskSettles, NotifyCommits
  <2>3. CASE Startup
    BY <1>0, <1>2, <2>3 DEF Startup, ClassifyRun, RecoverEffect, AcceptCommands, Rest
  <2> QED
    BY <1>2, <2>1, <2>2, <2>3 DEF Next, SlotStep, ClaimNext, NothingReady, LoadRun, Drive,
       LaunchBatch, JoinResult, CommitResult, BatchDone, FinishClaim, StepFails, BatchFails, World,
       NextBatch, CapabilityReturns, TaskStep, TaskSubmits, Cancelling, CancelLoads,
       CancelCommits, CancelSignals, Crash
<1> QED BY <1>1, <1>2

\* So no task wakes the Run twice.
LEMMA WakesStep ==
  ASSUME Inductive, Driven, Next
  PROVE  WakesOnce'
<1>1. \A n \in Nodes : run'.nodes[n] = "Waiting" \/ call'[n] = "Waiting" => n \in TaskNodes
  BY WaitsForTask DEF Driven
<1>2. \A n \in TaskNodes : effects'[n] # "Absent" => run'.nodes[n] \in NodeTerminal
  BY EffectsComeOnce
<1>3. \A n \in TaskNodes :
        notice'[n].state = "Consumed" => run'.nodes[n] \in NodeTerminal \/ ~Live(run')
  BY ConsumedStep DEF Driven
<1> QED BY <1>1, <1>2, <1>3 DEF WakesOnce, Live

\* Every step leaves somebody to drive the Run.
LEMMA DrivenStep ==
  ASSUME Inductive, Driven, Next
  PROVE  Driven'
<1>0. WakesOnce' /\ StoppedIsOver'
  BY WakesStep, StoppedStep DEF Driven
<1> SUFFICES SomebodyDrives' /\ ClaimsAreHeld'
  BY <1>0 DEF Driven
<1>1. ASSUME NEW e \in Slots, SlotStep(e) \/ StepFails(e)
      PROVE  SomebodyDrives' /\ ClaimsAreHeld'
  <2>1. \A f \in Slots : f # e => ex'[f] = ex[f]
    BY <1>1, SlotFrame DEF SlotMoves
  <2>2. CASE Executes(e) \/ StepFails(e)
    BY <1>0, <2>1, <2>2, ExecutorGoesOn, GoesOnKeeps
  <2>3. CASE ClaimNext(e) \/ NothingReady(e)
    BY <1>0, <2>1, <2>3, ClaimingKeeps
  <2>4. CASE FinishClaim(e)
    BY <1>0, <2>1, <2>4, FinishingKeeps
  <2> QED BY <1>1, <2>2, <2>3, <2>4 DEF SlotStep, Executes
<1>2. CASE NextBatch \/ Crash \/ \E e \in Slots : BatchFails(e)
  <2>1. run' = run /\ ex' = [s \in Slots |-> Slot("idle")]
    BY <1>2 DEF NextBatch, Crash, BatchFails
  <2>2. \/ effects' = effects
        \/ \E e \in Slots : /\ ex[e].pc = "complete"
                           /\ effects' = [effects EXCEPT ![ex[e].effect] = "Completed"]
    BY <1>2 DEF NextBatch, Crash, BatchFails
  <2> QED BY <1>0, <2>1, <2>2, DroppingKeeps
<1>3. ASSUME NEW n \in TaskNodes, TaskStep(n)
      PROVE  SomebodyDrives' /\ ClaimsAreHeld'
  <2>1. CASE NotifyCommits(n)
    BY <1>0, <2>1, CompletionKeeps
  <2>2. CASE ~NotifyCommits(n)
    <3>1. UNCHANGED <<ex, effects, run>> /\ host' = "Up"
      BY <1>3, <2>2 DEF TaskStep, TaskSubmits, TaskSettles, NotifyLoads, Engine
    <3> QED BY <1>0, <3>1, AsideKeeps
  <2> QED BY <2>1, <2>2
<1>4. CASE (\E n \in Nodes : CapabilityReturns(n)) \/ Cancelling
  <2>1. UNCHANGED <<ex, effects>> /\ host' = "Up" /\ (run' = run \/ ~Live(run'))
    BY <1>4 DEF CapabilityReturns, Cancelling, CancelLoads, CancelCommits, CancelSignals,
                CancelRun, Record, Live, RunTerminal
  <2> QED BY <1>0, <2>1, AsideKeeps
<1>5. CASE ClassifyRun \/ AcceptCommands
  <2>1. UNCHANGED <<ex, effects>> /\ host # "Up" /\ (run' = run \/ ~Live(run'))
    BY <1>5 DEF ClassifyRun, AcceptCommands, Rest, InterruptByRestart, Record, Live, RunTerminal
  <2> QED BY <1>0, <2>1, AsideKeeps
<1>6. CASE \E f \in EffectIds : RecoverEffect(f)
  <2>1. UNCHANGED <<ex, run>> /\ host # "Up"
    BY <1>6 DEF RecoverEffect, Rest
  <2>2. CASE Live(run)
    BY <1>0, <1>6, <2>1, <2>2, AsideKeeps DEF RecoverEffect
  <2>3. CASE ~Live(run)
    <3>1. \A e \in Slots : ~Busy(e) /\ ~Busy(e)'
      BY <2>1 DEF Driven, ClaimsAreHeld, Busy
    <3> QED BY <2>1, <2>3, <3>1 DEF ClaimsAreHeld, SomebodyDrives, Live
  <2> QED BY <2>2, <2>3
<1> QED BY <1>1, <1>2, <1>3, <1>4, <1>5, <1>6 DEF Next, Startup

\* No wake-up is lost, whatever the plan, the slots, the races, failures, crashes and
\* cancellations: a live Run has an effect to claim or one a dropped batch has left
\* claimed, an executor that has yet to decide, or a node whose task will report
\* (run_execution.rs:139).
THEOREM NoWakeUpIsLost == Spec => []RunIsDriven
<1>1. Init => Driven
  <2> SUFFICES ASSUME Init PROVE Driven
    OBVIOUS
  <2>1. \A e \in Slots : ex[e].pc = "idle"
    BY SlotIsTyped DEF Init, Pcs
  <2>2. Admission \in EffectIds /\ \A n \in TaskNodes : n \in EffectIds /\ n # Admission
    BY PlanAssumption DEF EffectIds
  <2>3. effects[Admission] = "Ready" /\ \A n \in TaskNodes : effects[n] = "Absent"
    BY <2>2 DEF Init
  <2>4. \A n \in Nodes : run.nodes[n] = "Pending" /\ call[n] = "None"
    BY DEF Init, NewRun
  <2>5. \A n \in TaskNodes : notice[n].state = "None"
    BY DEF Init
  <2> QED BY <2>1, <2>2, <2>3, <2>4, <2>5 DEF Driven, SomebodyDrives, Claimable, ClaimsAreHeld,
                                             Busy, WakesOnce, StoppedIsOver
<1>2. Inductive /\ Driven /\ [Next]_vars => Driven'
  <2> SUFFICES ASSUME Inductive, Driven, [Next]_vars PROVE Driven'
    OBVIOUS
  <2>1. CASE UNCHANGED vars
    BY <2>1 DEF vars, Driven, SomebodyDrives, Claimable, Stranded, Held, Awaited, Fresh,
                ClaimsAreHeld, Busy, WakesOnce, StoppedIsOver
  <2> QED BY <2>1, DrivenStep
<1>3. Driven => RunIsDriven
  <2>1. \A e \in Slots : Fresh(e) => Deciding(e)
    BY DEF Fresh, Deciding
  <2> QED BY <2>1 DEF Driven, SomebodyDrives, Claimable, Awaited, RunIsDriven
<1> QED BY <1>1, <1>2, <1>3, InductiveInvariant, PTL DEF Spec
=============================================================================
