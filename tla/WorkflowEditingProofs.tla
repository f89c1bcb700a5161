----------------------- MODULE WorkflowEditingProofs ------------------------
(***************************************************************************)
(* Theorems about Workflow editing and Run admission, for any contracts,   *)
(* requests, commands and callers: every revision there has ever been is a *)
(* sound document, the specification implements its promise, an admitted   *)
(* plan can be executed, and a result is fresh exactly when it would be    *)
(* made again.                                                             *)
(*                                                                         *)
(* The argument: an action keeps a document workable (records with their   *)
(* fields, finitely many nodes, no empty binding), so what Apply makes of  *)
(* a document is a document; the receipts are one line of documents by     *)
(* revision, each made by one request, whose last one is the row; a call   *)
(* that is about to commit holds a result of Apply on the receipt with its *)
(* base revision, whatever others have done since.                         *)
(*                                                                         *)
(* Plans: what is upward of a node is the least set closed under what its  *)
(* nodes take, so that two graphs that agree on it have the same; placing  *)
(* the least node that waits for none left places every node of an acyclic *)
(* document.  Recursion is unfolded by least counterexamples.              *)
(***************************************************************************)
EXTENDS WorkflowEditing, FiniteSetTheorems, SequenceTheorems, WellFoundedInduction, TLAPS

----------------------------------------------------------------------------
(* Least elements, in place of induction.                                  *)

LEMMA LeastNumber ==
  ASSUME NEW T, T \subseteq Nat, T # {}
  PROVE  \E n \in T : \A m \in T : n <= m
<1>1. PICK n \in T : \A m \in T : <<m, n>> \notin OpToRel(<, Nat)
  BY NatLessThanWellFounded, WFMin, Zenon
<1>2. ASSUME NEW m \in T PROVE n <= m
  <2>1. m \in Nat /\ n \in Nat
    OBVIOUS
  <2>2. m < n => <<m, n>> \in OpToRel(<, Nat)
    BY <2>1 DEF OpToRel
  <2>3. ~(m < n)
    BY <1>1, <2>2, Zenon
  <2> QED BY <2>1, <2>3
<1> QED BY <1>2

LEMMA SmallestSubset ==
  ASSUME NEW S, IsFiniteSet(S), NEW T, T \subseteq SUBSET S, T # {}
  PROVE  \E A \in T : \A B \in T : ~(B \subseteq A /\ B # A)
<1> DEFINE sizes == {Cardinality(A) : A \in T}
<1>1. \A A \in T : IsFiniteSet(A) /\ Cardinality(A) \in Nat
  BY FS_Subset, FS_CardinalityType
<1>2. sizes \subseteq Nat /\ sizes # {}
  BY <1>1
<1> HIDE DEF sizes
<1>3. PICK n \in sizes : \A m \in sizes : n <= m
  BY <1>2, LeastNumber
<1>4. PICK A \in T : n = Cardinality(A)
  BY DEF sizes
<1>5. ASSUME NEW B \in T, B \subseteq A, B # A PROVE FALSE
  <2>1. Cardinality(B) \in sizes BY DEF sizes
  <2>2. Cardinality(B) <= Cardinality(A) /\ Cardinality(A) # Cardinality(B)
    BY <1>1, <1>5, FS_Subset
  <2> QED BY <1>1, <1>3, <1>4, <2>1, <2>2
<1> QED BY <1>5

----------------------------------------------------------------------------
(* Acyclicity: stripping (reject_cycles) leaves nothing of a cycle.        *)

\* The nodes of left that take nothing from left.
Ready(d, left) == {n \in left : Sources(d, n) \cap left = {}}
\* The nodes of a set on which stripping stops.
Stuck(d, S) == \A n \in S : Sources(d, n) \cap S # {}

\* Stripping is defined: the union of what is stuck in a set is what is left of it.
LEMMA VisitDefined ==
  ASSUME NEW d
  PROVE  \E f : f = [left \in SUBSET NodeIds(d) |->
                       IF Ready(d, left) = {} THEN left ELSE f[left \ Ready(d, left)]]
<1> DEFINE Rest(left) == UNION {S \in SUBSET left : Stuck(d, S)}
           f == [left \in SUBSET NodeIds(d) |-> Rest(left)]
<1>1. ASSUME NEW left \in SUBSET NodeIds(d), Ready(d, left) = {} PROVE Rest(left) = left
  BY <1>1 DEF Ready, Stuck
<1>2. ASSUME NEW left \in SUBSET NodeIds(d) PROVE Rest(left) = Rest(left \ Ready(d, left))
  <2>1. ASSUME NEW S \in SUBSET left, Stuck(d, S) PROVE S \subseteq left \ Ready(d, left)
    BY <2>1 DEF Ready, Stuck
  <2> QED BY <2>1
<1>3. \A left \in SUBSET NodeIds(d) : left \ Ready(d, left) \in SUBSET NodeIds(d)
  OBVIOUS
<1> HIDE DEF Rest
<1>4. \A left \in SUBSET NodeIds(d) :
        f[left] = IF Ready(d, left) = {} THEN left ELSE f[left \ Ready(d, left)]
  BY <1>1, <1>2, <1>3
<1> HIDE DEF f
<1>5. f = [left \in SUBSET NodeIds(d) |->
             IF Ready(d, left) = {} THEN left ELSE f[left \ Ready(d, left)]]
  BY <1>4 DEF f
<1> QED BY <1>5

LEMMA NoCycles ==
  ASSUME NEW d, IsFiniteSet(NodeIds(d)), RejectCycles(d),
         NEW S \in SUBSET NodeIds(d), S # {}
  PROVE  \E n \in S : Sources(d, n) \cap S = {}
<1> DEFINE Body(f, left) == IF Ready(d, left) = {} THEN left ELSE f[left \ Ready(d, left)]
           visit == CHOOSE f : f = [left \in SUBSET NodeIds(d) |-> Body(f, left)]
<1>1. visit[NodeIds(d)] = {}
  BY DEF RejectCycles, Ready
<1>2. visit = [left \in SUBSET NodeIds(d) |-> Body(visit, left)]
  BY VisitDefined
<1> HIDE DEF visit
<1>3. \A left \in SUBSET NodeIds(d) : visit[left] = Body(visit, left)
  BY <1>2
<1> SUFFICES ASSUME Stuck(d, S) PROVE FALSE
  BY DEF Stuck
<1> DEFINE bad == {left \in SUBSET NodeIds(d) : S \subseteq left /\ ~(S \subseteq visit[left])}
<1>4. NodeIds(d) \in bad
  BY <1>1
<1>a. bad \subseteq SUBSET NodeIds(d) /\ bad # {}
  BY <1>4
<1> HIDE DEF bad
<1>5. PICK left \in bad : \A other \in bad : ~(other \subseteq left /\ other # left)
  BY <1>a, SmallestSubset
<1> USE DEF bad
<1>6. left \in SUBSET NodeIds(d) /\ S \subseteq left /\ ~(S \subseteq visit[left])
  OBVIOUS
<1>7. S \subseteq left \ Ready(d, left)
  BY <1>6 DEF Stuck, Ready
<1>8. Ready(d, left) # {} /\ visit[left] = visit[left \ Ready(d, left)]
  BY <1>3, <1>6
<1>9. left \ Ready(d, left) \in bad
  BY <1>6, <1>7, <1>8
<1>10. left \ Ready(d, left) # left
  BY <1>8 DEF Ready
<1> QED BY <1>5, <1>9, <1>10

----------------------------------------------------------------------------
(* Actions: what they make of a document.                                  *)

Workable(d) ==
  /\ d = [revision |-> d.revision, updated |-> d.updated, nodes |-> d.nodes,
          bindings |-> d.bindings]
  /\ IsFiniteSet(NodeIds(d)) /\ NodeIds(d) \subseteq Nat \ {0}
  /\ \A t \in DOMAIN d.bindings :
       /\ d.bindings[t] = [ordered |-> d.bindings[t].ordered, items |-> d.bindings[t].items]
       /\ d.bindings[t].items # <<>>

LEMMA SetItemsWorks ==
  ASSUME NEW d, Workable(d), NEW target, NEW items
  PROVE  Workable(SetItems(d, target, items))
<1> DEFINE b == SetItems(d, target, items).bindings
<1>1. SetItems(d, target, items) = [d EXCEPT !.bindings = b] /\ SetItems(d, target, items).nodes = d.nodes
  BY DEF Workable, SetItems
<1>2. CASE items = <<>>
  <2>1. b = [t \in DOMAIN d.bindings \ {target} |-> d.bindings[t]]
    BY <1>2 DEF Workable, SetItems, Drop, Restrict
  <2> QED BY <1>1, <2>1 DEF Workable, NodeIds
<1>3. CASE items # <<>>
  <2>1. b = [t \in DOMAIN d.bindings \cup {target} |->
               IF t = target THEN [ordered |-> TRUE, items |-> items] ELSE d.bindings[t]]
    BY <1>3 DEF Workable, SetItems, Put
  <2> HIDE DEF b
  <2>2. ASSUME NEW t \in DOMAIN b
        PROVE  b[t] = [ordered |-> b[t].ordered, items |-> b[t].items] /\ b[t].items # <<>>
    <3>1. CASE t = target
      BY <1>3, <2>1, <3>1
    <3>2. CASE t # target
      BY <2>1, <3>2 DEF Workable
    <3> QED BY <3>1, <3>2
  <2> QED BY <1>1, <2>2 DEF Workable, NodeIds
<1> QED BY <1>2, <1>3

LEMMA ActionsWork ==
  ASSUME NEW d, Workable(d), NEW a, IsAction(a), NEW c \in ApplyAction(d, a)
  PROVE  Workable(c)
<1>1. CASE a.kind = "AddNode"
  <2>1. c = [d EXCEPT !.nodes = Put(@, a.node, a.as)]
    BY <1>1 DEF ApplyAction, AddNode
  <2>2. DOMAIN c.nodes = DOMAIN d.nodes \cup {a.node}
    BY <2>1 DEF Workable, Put
  <2>3. IsFiniteSet(DOMAIN c.nodes) /\ DOMAIN c.nodes \subseteq Nat \ {0}
    <3>1. a.node \in Nat \ {0}
      BY <1>1 DEF IsAction
    <3>2. IsFiniteSet(DOMAIN d.nodes) /\ DOMAIN d.nodes \subseteq Nat \ {0}
      BY DEF Workable, NodeIds
    <3>3. IsFiniteSet(DOMAIN c.nodes)
      BY <2>2, <3>2, FS_AddElement
    <3> QED BY <2>2, <3>1, <3>2, <3>3
  <2>4. c = [revision |-> d.revision, updated |-> d.updated, nodes |-> c.nodes,
             bindings |-> d.bindings]
    BY <2>1 DEF Workable
  <2> QED BY <2>3, <2>4 DEF Workable, NodeIds
<1>2. CASE a.kind = "RemoveNode"
  <2> DEFINE kept == {t \in DOMAIN d.bindings :
                        t[1] # a.node /\ Remaining(d.bindings[t], a.node) # <<>>}
  <2>1. c = [d EXCEPT !.nodes = Drop(@, a.node),
                      !.bindings = [t \in kept |->
                         [@[t] EXCEPT !.items = Remaining(d.bindings[t], a.node)]]]
    BY <1>2 DEF ApplyAction, RemoveNode
  <2>2. IsFiniteSet(DOMAIN c.nodes) /\ DOMAIN c.nodes \subseteq Nat \ {0}
    BY <2>1, FS_Subset DEF Workable, NodeIds, Drop, Restrict
  <2>3. c.bindings = [t \in kept |-> [d.bindings[t] EXCEPT !.items = Remaining(d.bindings[t], a.node)]]
    BY <2>1 DEF Workable
  <2>4. ASSUME NEW t \in kept
        PROVE  c.bindings[t] = [ordered |-> d.bindings[t].ordered,
                                items |-> Remaining(d.bindings[t], a.node)]
    BY <2>3 DEF Workable
  <2>5. c = [revision |-> d.revision, updated |-> d.updated, nodes |-> c.nodes, bindings |-> c.bindings]
    BY <2>1 DEF Workable
  <2>6. DOMAIN c.bindings = kept
    BY <2>3
  <2>7. ASSUME NEW t \in DOMAIN c.bindings
        PROVE  /\ c.bindings[t] = [ordered |-> c.bindings[t].ordered, items |-> c.bindings[t].items]
               /\ c.bindings[t].items # <<>>
    <3>1. t \in kept /\ Remaining(d.bindings[t], a.node) # <<>>
      BY <2>6
    <3>2. c.bindings[t] = [ordered |-> d.bindings[t].ordered,
                           items |-> Remaining(d.bindings[t], a.node)]
      BY <2>4, <3>1
    <3> HIDE DEF kept
    <3> QED BY <3>1, <3>2
  <2> HIDE DEF kept
  <2> QED BY <2>2, <2>5, <2>7 DEF Workable, NodeIds
<1>3. CASE a.kind = "ReplaceNodeParameters"
  BY <1>3 DEF ApplyAction, ReplaceNodeParameters, Workable, NodeIds
<1>4. CASE a.kind = "SelectNodeCapability"
  BY <1>4 DEF ApplyAction, SelectNodeCapability, Workable, NodeIds
<1>5. CASE a.kind = "MoveNode"
  BY <1>5 DEF ApplyAction, MoveNode, Workable, NodeIds
<1>6. CASE a.kind = "BindSingleInput"
  BY <1>6 DEF ApplyAction, BindSingleInput, Workable, NodeIds, Put
<1>7. CASE a.kind = "InsertReferenceItem"
  <2>1. PICK items : c = SetItems(d, a.target, items)
    BY <1>7 DEF ApplyAction, InsertReferenceItem
  <2> QED BY <2>1, SetItemsWorks
<1>8. CASE a.kind = "MoveReferenceItem"
  <2>1. PICK items : c = SetItems(d, a.target, items)
    BY <1>8 DEF ApplyAction, MoveReferenceItem
  <2> QED BY <2>1, SetItemsWorks
<1>9. CASE a.kind = "RemoveInputItem"
  <2>1. PICK items : c = SetItems(d, a.target, items)
    BY <1>9 DEF ApplyAction, RemoveInputItem
  <2> QED BY <2>1, SetItemsWorks
<1>10. CASE a.kind = "SetInputItemRole"
  <2> DEFINE b == d.bindings[a.target]
  <2>1. PICK p \in OrderedPosition(d, a.target, a.id) :
          c = [d EXCEPT !.bindings[a.target].items[p].role = a.role]
    BY <1>10 DEF ApplyAction, SetInputItemRole
  <2>2. a.target \in DOMAIN d.bindings /\ p \in DOMAIN b.items
    BY DEF OrderedPosition, Position
  <2> DEFINE items == [b.items EXCEPT ![p] = [b.items[p] EXCEPT !.role = a.role]]
  <2>3. p \in DOMAIN items
    BY <2>2
  <2>4. items # <<>>
    BY <2>3
  <2> HIDE DEF items
  <2>5. c.bindings = [d.bindings EXCEPT ![a.target] = [ordered |-> b.ordered, items |-> items]]
    BY <2>1, <2>2, SMTT(40) DEF Workable, items
  <2>6. c = [revision |-> d.revision, updated |-> d.updated, nodes |-> d.nodes, bindings |-> c.bindings]
    BY <2>1 DEF Workable
  <2> QED BY <2>2, <2>4, <2>5, <2>6 DEF Workable, NodeIds
<1> QED BY <1>1, <1>2, <1>3, <1>4, <1>5, <1>6, <1>7, <1>8, <1>9, <1>10 DEF IsAction, ActionKinds

Then(S, a) == UNION {ApplyAction(c, a) : c \in S}
AreSteps(f, d, actions, n) ==
  f = [i \in 0 .. n |-> IF i = 0 THEN {d} ELSE Then(f[i - 1], actions[i])]
Steps(d, actions, n) == CHOOSE f : AreSteps(f, d, actions, n)

LEMMA StepsDefined ==
  ASSUME NEW d, NEW actions, NEW n \in Nat
  PROVE  \E f : AreSteps(f, d, actions, n)
<1> DEFINE Fits(f, k) == AreSteps(f, d, actions, k)
           bad == {k \in Nat : ~\E f : Fits(f, k)}
<1> SUFFICES ASSUME bad # {} PROVE FALSE
  OBVIOUS
<1>1. PICK k \in bad : \A m \in bad : k <= m
  <2> HIDE DEF Fits
  <2>1. bad \subseteq Nat
    OBVIOUS
  <2> HIDE DEF bad
  <2> QED BY <2>1, LeastNumber
<1>2. k # 0
  <2>1. Fits([i \in 0 .. 0 |-> {d}], 0)
    BY DEF AreSteps
  <2> QED BY <2>1
<1>3. k \in Nat /\ k - 1 \in Nat /\ k - 1 < k
  BY <1>2
<1>4. k - 1 \notin bad
  <2> HIDE DEF bad
  <2> QED BY <1>1, <1>3
<1>5. PICK f : Fits(f, k - 1)
  BY <1>3, <1>4
<1> DEFINE g == [i \in 0 .. k |-> IF i = k THEN Then(f[k - 1], actions[k]) ELSE f[i]]
<1>6. Fits(g, k)
  <2>1. ASSUME NEW i \in 0 .. k
        PROVE  g[i] = IF i = 0 THEN {d} ELSE Then(g[i - 1], actions[i])
    <3>1. CASE i = k
      BY <1>3, <3>1
    <3>2. CASE i # k
      <4>1. i \in 0 .. k - 1
        BY <1>3, <3>2
      <4>2. f[i] = IF i = 0 THEN {d} ELSE Then(f[i - 1], actions[i])
        BY <1>5, <4>1 DEF AreSteps
      <4>3. i # 0 => g[i - 1] = f[i - 1]
        BY <1>3, <4>1
      <4> QED BY <3>2, <4>2, <4>3
    <3> QED BY <3>1, <3>2
  <2>2. g = [i \in 0 .. k |-> g[i]]
    OBVIOUS
  <2> HIDE DEF g
  <2> QED BY <2>1, <2>2 DEF AreSteps
<1>7. k \notin bad
  BY <1>6
<1> QED BY <1>1, <1>7

LEMMA StepsWork ==
  ASSUME NEW d, Workable(d), NEW actions, NEW n \in Nat,
         \A i \in 1 .. n : IsAction(actions[i]),
         NEW c \in Steps(d, actions, n)[n]
  PROVE  Workable(c)
<1> DEFINE f == Steps(d, actions, n)
           bad == {i \in 0 .. n : \E e \in f[i] : ~Workable(e)}
<1>1. \A i \in 0 .. n :
        f[i] = IF i = 0 THEN {d} ELSE Then(f[i - 1], actions[i])
  <2>1. AreSteps(f, d, actions, n)
    BY StepsDefined DEF Steps
  <2> HIDE DEF f
  <2>2. f = [i \in 0 .. n |-> IF i = 0 THEN {d} ELSE Then(f[i - 1], actions[i])]
    BY <2>1 DEF AreSteps
  <2> QED BY <2>2
<1> HIDE DEF f
<1>2. ASSUME bad # {} PROVE FALSE
  <2>1. bad \subseteq Nat
    OBVIOUS
  <2> HIDE DEF bad
  <2>2. PICK k \in bad : \A m \in bad : k <= m
    BY <1>2, <2>1, LeastNumber
  <2>3. PICK e \in f[k] : ~Workable(e)
    BY DEF bad
  <2>4. k \in 1 .. n
    <3>1. k \in 0 .. n
      BY DEF bad
    <3>2. k # 0
      BY <1>1, <2>3
    <3> QED BY <3>1, <3>2
  <2>5. PICK b \in f[k - 1] : e \in ApplyAction(b, actions[k])
    <3>1. f[k] = Then(f[k - 1], actions[k])
      BY <1>1, <2>4
    <3> QED BY <2>3, <3>1 DEF Then
  <2>6. Workable(b)
    <3>1. k - 1 \in 0 .. n /\ k - 1 \notin bad
      BY <2>2, <2>4
    <3> QED BY <3>1 DEF bad
  <2> QED BY <2>3, <2>4, <2>5, <2>6, ActionsWork
<1> HIDE DEF bad
<1>3. \A e \in f[n] : Workable(e)
  BY <1>2 DEF bad
<1> QED BY <1>3 DEF f

Document(d) ==
  /\ Workable(d)
  /\ d.revision \in Nat \ {0} /\ d.updated \in Nat
  /\ DraftValid(d)

LEMMA EmptyDocumentIsOne ==
  ASSUME NEW t \in Nat
  PROVE  Document(EmptyDocument(t)) /\ EmptyDocument(t).revision = 1
<1> DEFINE e == EmptyDocument(t)
<1>1. e.revision = 1 /\ e.updated = t /\ DOMAIN e.nodes = {} /\ DOMAIN e.bindings = {}
  BY DEF EmptyDocument
<1>2. Workable(e)
  BY <1>1, FS_EmptySet DEF EmptyDocument, Workable, NodeIds
<1>3. RejectCycles(e)
  <2> DEFINE Body(f, left) == IF Ready(e, left) = {} THEN left ELSE f[left \ Ready(e, left)]
             visit == CHOOSE f : f = [left \in SUBSET NodeIds(e) |-> Body(f, left)]
  <2>1. visit = [left \in SUBSET NodeIds(e) |-> Body(visit, left)]
    BY VisitDefined
  <2>2. NodeIds(e) = {}
    BY <1>1 DEF NodeIds
  <2>3. RejectCycles(e) <=> visit[NodeIds(e)] = {}
    BY DEF RejectCycles, Ready
  <2> HIDE DEF visit
  <2>4. Ready(e, {}) = {}
    BY DEF Ready
  <2> HIDE DEF e
  <2> QED BY <2>1, <2>2, <2>3, <2>4
<1>4. DraftValid(e)
  BY <1>1, <1>3 DEF DraftValid, ContractsResolve, NodeIds, ItemsAreDistinct
<1> HIDE DEF e
<1> QED BY <1>1, <1>2, <1>4 DEF Document, e

LEMMA ApplyMakesDocuments ==
  ASSUME NEW d, Document(d), NEW actions, Len(actions) \in Nat,
         \A i \in 1 .. Len(actions) : IsAction(actions[i]),
         NEW t \in Nat, NEW e \in Apply(d, actions, t)
  PROVE  /\ Document(e) /\ e.revision = d.revision + 1
         /\ e.updated > d.updated
<1>1. PICK c \in Steps(d, actions, Len(actions))[Len(actions)] :
        /\ e = [revision |-> d.revision + 1, updated |-> Larger(t, d.updated + 1),
                nodes |-> c.nodes, bindings |-> c.bindings]
        /\ DraftValid(e)
  BY DEF Apply, Steps, AreSteps, Then
<1>2. Workable(c)
  BY StepsWork DEF Document
<1>3. Larger(t, d.updated + 1) \in Nat /\ Larger(t, d.updated + 1) > d.updated
  BY DEF Larger, Document
<1>4. Workable(e)
  BY <1>1, <1>2 DEF Workable, NodeIds
<1> QED BY <1>1, <1>3, <1>4 DEF Document

LEMMA DocumentIsSound ==
  ASSUME NEW d, Document(d)
  PROVE  Sound(d)
<1>1. \A S \in SUBSET NodeIds(d) : S # {} => \E n \in S : Sources(d, n) \cap S = {}
  BY NoCycles DEF Document, DraftValid, Workable
<1>2. ASSUME NEW t \in DOMAIN d.bindings
      PROVE  LET input == ContractOf(d, t[1]).inputs[t[2]]
             IN /\ d.bindings[t].items # <<>> /\ Len(d.bindings[t].items) <= input.maximum
                /\ \A i \in Items(d.bindings[t]) :
                     ContractOf(d, i.source).outputs[i.output] \in input.accepts[i.role]
  <2>1. BindingFits(d, t) /\ d.bindings[t].items # <<>>
    BY DEF Document, DraftValid, Workable
  <2> QED BY <2>1 DEF BindingFits, ItemFits
<1>3. ASSUME NEW t \in DOMAIN d.bindings, NEW u \in DOMAIN d.bindings, t # u
      PROVE  {i.id : i \in Items(d.bindings[t])} \cap {i.id : i \in Items(d.bindings[u])} = {}
  BY <1>3 DEF Document, DraftValid, ItemsAreDistinct, Items, ToSet
<1>4. ASSUME NEW n \in NodeIds(d)
      PROVE  DOMAIN d.nodes[n].parameters \subseteq DOMAIN ContractOf(d, n).parameters
  BY DEF Document, DraftValid, ContractsResolve, Normalize, ContractOf
<1> QED BY <1>1, <1>2, <1>3, <1>4 DEF Sound

----------------------------------------------------------------------------
(* Receipts: one line of revisions.                                        *)

Authors == Creations \cup Edits
Made(rc, r) == rc[r] # NoReceipt

\* Each receipt holds a document; they are one line of revisions, whose last
\* one is the row.
ReceiptsFit(rc, w) ==
  /\ rc = [r \in Authors |-> rc[r]]
  /\ \A r \in Authors : Made(rc, r) =>
       /\ rc[r] = Receipt(rc[r].command, rc[r].result)
       /\ Document(rc[r].result)
       /\ rc[r].result.revision <= w.revision
  /\ \A r, s \in Authors :
       Made(rc, r) /\ Made(rc, s) /\ rc[r].result.revision = rc[s].result.revision => r = s
  /\ \A v \in 1 .. w.revision : \E r \in Authors : Made(rc, r) /\ rc[r].result.revision = v
  /\ w = NoDocument \/ \E r \in Authors : Made(rc, r) /\ rc[r].result = w

\* Revisions, of receipts and a row.
Line(rc, w) ==
  [v \in 1 .. w.revision |->
     LET found == {d \in {rc[r].result : r \in {r \in DOMAIN rc : rc[r] # NoReceipt}} :
                     d.revision = v}
     IN IF found = {} THEN NoDocument ELSE CHOOSE d \in found : TRUE]

LEMMA ReceiptIsOne ==
  ASSUME NEW m, NEW result
  PROVE  /\ Receipt(m, result) # NoReceipt
         /\ Receipt(m, result).command = m /\ Receipt(m, result).result = result
<1>1. DOMAIN Receipt(m, result) # DOMAIN NoReceipt
  BY DEF Receipt, NoReceipt
<1> QED BY <1>1 DEF Receipt

LEMMA RowIsOne ==
  ASSUME NEW rc, NEW w, ReceiptsFit(rc, w)
  PROVE  /\ w.revision \in Nat
         /\ w = NoDocument \/ Document(w)
         /\ w = NoDocument <=> w.revision = 0
         /\ w # NoDocument => \E r \in Authors : Made(rc, r) /\ rc[r].result = w
<1>1. NoDocument.revision = 0
  BY DEF NoDocument
<1>2. \A d : Document(d) => d.revision \in Nat \ {0}
  BY DEF Document
<1> QED BY <1>1, <1>2 DEF ReceiptsFit

LEMMA LineIs ==
  ASSUME NEW rc, NEW w, ReceiptsFit(rc, w), NEW r \in Authors, Made(rc, r)
  PROVE  /\ rc[r].result.revision \in 1 .. w.revision
         /\ Line(rc, w)[rc[r].result.revision] = rc[r].result
<1> DEFINE v == rc[r].result.revision
           snapshots == {rc[s].result : s \in {s \in DOMAIN rc : rc[s] # NoReceipt}}
           found == {d \in snapshots : d.revision = v}
<1>1. v \in Nat \ {0} /\ v <= w.revision /\ w.revision \in Nat
  BY RowIsOne DEF ReceiptsFit, Document
<1>2. DOMAIN rc = Authors
  BY DEF ReceiptsFit
<1>3. found = {rc[r].result}
  <2>1. \A s \in Authors : rc[s] # NoReceipt /\ rc[s].result.revision = v => s = r
    BY DEF ReceiptsFit, Made
  <2>2. rc[r].result \in found
    BY <1>2 DEF Made
  <2>3. ASSUME NEW d \in found PROVE d = rc[r].result
    BY <1>2, <2>1
  <2> HIDE DEF found
  <2> QED BY <2>2, <2>3
<1>4. Line(rc, w)[v] = IF found = {} THEN NoDocument ELSE CHOOSE d \in found : TRUE
  <2>1. v \in 1 .. w.revision
    BY <1>1
  <2> HIDE DEF v
  <2> QED BY <2>1 DEF Line
<1> HIDE DEF found
<1>5. Line(rc, w)[v] = rc[r].result
  BY <1>3, <1>4
<1> QED BY <1>1, <1>5

\* What a commit makes of the receipts.
WithReceipt(rc, r, m, d) == [rc EXCEPT ![r] = Receipt(m, d)]

LEMMA LineGrows ==
  ASSUME NEW rc, NEW w, ReceiptsFit(rc, w), NEW r \in Authors, ~Made(rc, r),
         NEW m, NEW d, Document(d), d.revision = w.revision + 1
  PROVE  /\ ReceiptsFit(WithReceipt(rc, r, m, d), d)
         /\ Line(WithReceipt(rc, r, m, d), d) = Append(Line(rc, w), d)
<1> DEFINE next == WithReceipt(rc, r, m, d)
<1>1. w.revision \in Nat /\ d.revision \in Nat
  BY RowIsOne
<1>2. /\ next = [s \in Authors |-> next[s]]
      /\ next[r] = Receipt(m, d) /\ \A s \in Authors : s # r => next[s] = rc[s]
  BY DEF ReceiptsFit, WithReceipt
<1> HIDE DEF next
<1>3. Made(next, r) /\ next[r].command = m /\ next[r].result = d
  BY <1>2, ReceiptIsOne DEF Made
<1>4. \A s \in Authors : Made(next, s) => s = r \/ (Made(rc, s) /\ next[s] = rc[s])
  BY <1>2 DEF Made
<1>5. \A s \in Authors : Made(rc, s) => Made(next, s) /\ next[s] = rc[s] /\ s # r
  BY <1>2 DEF Made
<1>6. \A s \in Authors : Made(rc, s) =>
        rc[s].result.revision \in Nat /\ rc[s].result.revision <= w.revision
  BY LineIs, <1>1
<1>7. ReceiptsFit(next, d)
  <2>1. ASSUME NEW s \in Authors, Made(next, s)
        PROVE  /\ next[s] = Receipt(next[s].command, next[s].result)
               /\ Document(next[s].result)
               /\ next[s].result.revision <= d.revision
    <3>1. CASE s = r
      BY <1>1, <1>2, <1>3, <3>1
    <3>2. CASE s # r
      BY <1>1, <1>4, <1>6, <2>1, <3>2 DEF ReceiptsFit
    <3> QED BY <3>1, <3>2
  <2>2. ASSUME NEW s \in Authors, NEW u \in Authors, Made(next, s), Made(next, u),
               next[s].result.revision = next[u].result.revision
        PROVE  s = u
    <3>1. CASE s # r /\ u # r
      <4>1. /\ Made(rc, s) /\ Made(rc, u)
            /\ rc[s].result.revision = rc[u].result.revision
        BY <1>4, <2>2, <3>1
      <4> QED BY <4>1 DEF ReceiptsFit
    <3>2. \A x \in Authors : Made(next, x) /\ x # r => next[x].result.revision # d.revision
      BY <1>1, <1>4, <1>6
    <3>3. CASE s = r
      BY <1>3, <2>2, <3>2, <3>3
    <3>4. CASE u = r
      BY <1>3, <2>2, <3>2, <3>4
    <3> QED BY <3>1, <3>3, <3>4
  <2>3. ASSUME NEW v \in 1 .. d.revision
        PROVE  \E s \in Authors : Made(next, s) /\ next[s].result.revision = v
    <3>1. CASE v = d.revision
      BY <1>3, <3>1
    <3>2. CASE v # d.revision
      <4>1. v \in 1 .. w.revision
        BY <1>1, <3>2
      <4> QED BY <1>5, <4>1 DEF ReceiptsFit
    <3> QED BY <3>1, <3>2
  <2> QED BY <1>2, <1>3, <2>1, <2>2, <2>3 DEF ReceiptsFit
<1>8. DOMAIN Line(next, d) = 1 .. w.revision + 1 /\ DOMAIN Line(rc, w) = 1 .. w.revision
  BY <1>1 DEF Line
<1>9. Len(Line(rc, w)) = w.revision
  BY <1>1 DEF Line
<1>10. ASSUME NEW v \in 1 .. w.revision + 1
       PROVE  Line(next, d)[v] = IF v = w.revision + 1 THEN d ELSE Line(rc, w)[v]
  <2>1. CASE v = w.revision + 1
    <3>1. Line(next, d)[d.revision] = d
      <4>1. Line(next, d)[next[r].result.revision] = next[r].result
        BY <1>3, <1>7, LineIs, Zenon
      <4> QED BY <1>3, <4>1
    <3> QED BY <2>1, <3>1
  <2>2. CASE v # w.revision + 1
    <3>1. PICK s \in Authors : Made(rc, s) /\ rc[s].result.revision = v
      BY <1>1, <2>2 DEF ReceiptsFit
    <3>2. Line(rc, w)[v] = rc[s].result
      BY <3>1, LineIs
    <3>3. Line(next, d)[v] = rc[s].result
      <4>1. Made(next, s) /\ next[s] = rc[s]
        BY <1>5, <3>1
      <4>2. Line(next, d)[next[s].result.revision] = next[s].result
        BY <1>7, <4>1, LineIs, Zenon
      <4> QED BY <3>1, <4>1, <4>2
    <3> QED BY <2>2, <3>2, <3>3
  <2> QED BY <2>1, <2>2
<1>11. Append(Line(rc, w), d) =
         [v \in 1 .. w.revision + 1 |-> IF v = w.revision + 1 THEN d ELSE Line(rc, w)[v]]
  <2> DEFINE S == {Line(rc, w)[v] : v \in 1 .. w.revision} \cup {d}
             l == Line(rc, w)
  <2>1. l \in Seq(S) /\ d \in S
    <3>1. l = [v \in 1 .. w.revision |-> l[v]]
      BY <1>8 DEF Line
    <3>2. \A v \in 1 .. w.revision : l[v] \in S
      OBVIOUS
    <3> HIDE DEF S, l
    <3>3. l \in [1 .. w.revision -> S]
      BY <3>1, <3>2
    <3> QED BY <1>1, <3>3 DEF S
  <2> HIDE DEF S, l
  <2>2. /\ Append(l, d) \in Seq(S) /\ Len(Append(l, d)) = Len(l) + 1
        /\ \A i \in 1 .. Len(l) : Append(l, d)[i] = l[i]
        /\ Append(l, d)[Len(l) + 1] = d
    BY <2>1, AppendProperties
  <2>3. Len(l) = w.revision
    BY <1>9 DEF l
  <2>4. Append(l, d) = [v \in 1 .. w.revision + 1 |-> Append(l, d)[v]]
    <3>1. \A s \in Seq(S) : s = [v \in 1 .. Len(s) |-> s[v]]
      OBVIOUS
    <3> QED BY <2>2, <2>3, <3>1
  <2>5. \A v \in 1 .. w.revision + 1 :
          Append(l, d)[v] = IF v = w.revision + 1 THEN d ELSE l[v]
    BY <1>1, <2>2, <2>3
  <2>6. Append(l, d) = [v \in 1 .. w.revision + 1 |-> IF v = w.revision + 1 THEN d ELSE l[v]]
    BY <2>4, <2>5
  <2> QED BY <2>6 DEF l
<1>12. Line(next, d) = [v \in 1 .. w.revision + 1 |-> Line(next, d)[v]]
  BY <1>8 DEF Line
<1> QED BY <1>7, <1>10, <1>11, <1>12 DEF next

----------------------------------------------------------------------------
(* Run receipts and Runs.                                                  *)

AdmissionsFit(ad, rs) ==
  /\ ad = [r \in Starts |-> ad[r]]
  /\ \A r \in Starts : Made(ad, r) =>
       /\ ad[r] = Receipt(ad[r].command, ad[r].result)
       /\ \E run \in rs : run.id = ad[r].result
  /\ \A run \in rs :
       /\ \E r \in Starts : \E c \in AllCallers :
            Made(ad, r) /\ ad[r].result = run.id /\ run.id = <<r, c>>
       /\ run.plan \notin {PlanRefused, RunMissing}
  /\ \A a, b \in rs : a.id = b.id => a = b

PlanIn(rs, id) == (CHOOSE run \in rs : run.id = id).plan

LEMMA PlanIs ==
  ASSUME NEW ad, NEW rs, AdmissionsFit(ad, rs), NEW run \in rs
  PROVE  PlanIn(rs, run.id) = run.plan
<1> DEFINE found == CHOOSE other \in rs : other.id = run.id
<1>1. found \in rs /\ found.id = run.id
  OBVIOUS
<1> HIDE DEF found
<1>2. found = run
  BY <1>1 DEF AdmissionsFit
<1> QED BY <1>2 DEF PlanIn, found

LEMMA PlansAreNoRefusal ==
  ASSUME NEW d, NEW scope
  PROVE  FreezePlan(d, scope) \notin {PlanRefused, RunMissing}
<1>1. "order" \in DOMAIN FreezePlan(d, scope)
  BY DEF FreezePlan
<1>2. "order" \notin DOMAIN PlanRefused /\ "order" \notin DOMAIN RunMissing
  BY DEF PlanRefused, RunMissing
<1> QED BY <1>1, <1>2

\* What InsertRun makes of the receipts and of the Runs.
ReceiptOfRun(ad, r, c, m) == [ad EXCEPT ![r] = Receipt(m, <<r, c>>)]
WithRun(rs, r, c, plan) == rs \cup {[id |-> <<r, c>>, plan |-> plan]}

LEMMA AdmissionGrows ==
  ASSUME NEW ad, NEW rs, AdmissionsFit(ad, rs), NEW r \in Starts, ~Made(ad, r),
         NEW c \in AllCallers, NEW m, NEW plan, plan \notin {PlanRefused, RunMissing}
  PROVE  /\ AdmissionsFit(ReceiptOfRun(ad, r, c, m), WithRun(rs, r, c, plan))
         /\ PlanIn(WithRun(rs, r, c, plan), <<r, c>>) = plan
         /\ \A s \in Starts : Made(ad, s) =>
              PlanIn(WithRun(rs, r, c, plan), ad[s].result) = PlanIn(rs, ad[s].result)
<1> DEFINE new == [id |-> <<r, c>>, plan |-> plan]
           next == ReceiptOfRun(ad, r, c, m)
           all == WithRun(rs, r, c, plan)
<1>1. /\ next = [s \in Starts |-> next[s]]
      /\ next[r] = Receipt(m, <<r, c>>) /\ \A s \in Starts : s # r => next[s] = ad[s]
  BY DEF AdmissionsFit, ReceiptOfRun
<1>2. Made(next, r) /\ next[r].command = m /\ next[r].result = <<r, c>>
  BY <1>1, ReceiptIsOne DEF Made
<1>3. \A s \in Starts : Made(ad, s) => Made(next, s) /\ next[s] = ad[s] /\ s # r
  BY <1>1 DEF Made
<1>4. \A run \in rs : run.id # <<r, c>>
  BY DEF AdmissionsFit
<1>5. new \in all /\ new.id = <<r, c>> /\ new.plan = plan /\ rs \subseteq all
      /\ \A run \in all : run \in rs \/ run = new
  BY DEF WithRun
<1> HIDE DEF new, next, all
<1>6. AdmissionsFit(next, all)
  <2>1. ASSUME NEW s \in Starts, Made(next, s)
        PROVE  /\ next[s] = Receipt(next[s].command, next[s].result)
               /\ \E run \in all : run.id = next[s].result
    <3>1. CASE s = r
      BY <1>1, <1>2, <1>5, <3>1
    <3>2. CASE s # r
      <4>1. next[s] = ad[s] /\ Made(ad, s)
        BY <1>1, <2>1, <3>2 DEF Made
      <4> QED BY <1>5, <4>1 DEF AdmissionsFit
    <3> QED BY <3>1, <3>2
  <2>2. ASSUME NEW run \in all
        PROVE  /\ \E s \in Starts : \E b \in AllCallers :
                    Made(next, s) /\ next[s].result = run.id /\ run.id = <<s, b>>
               /\ run.plan \notin {PlanRefused, RunMissing}
    <3>1. CASE run = new
      BY <1>2, <1>5, <3>1
    <3>2. CASE run \in rs
      BY <1>3, <3>2 DEF AdmissionsFit
    <3> QED BY <1>5, <3>1, <3>2
  <2>3. \A a, b \in all : a.id = b.id => a = b
    BY <1>4, <1>5 DEF AdmissionsFit
  <2> QED BY <1>1, <2>1, <2>2, <2>3 DEF AdmissionsFit
<1>7. PlanIn(all, <<r, c>>) = plan
  BY <1>5, <1>6, PlanIs
<1>8. ASSUME NEW s \in Starts, Made(ad, s)
      PROVE  PlanIn(all, ad[s].result) = PlanIn(rs, ad[s].result)
  <2>1. PICK run \in rs : run.id = ad[s].result
    BY <1>8 DEF AdmissionsFit
  <2>2. PlanIn(rs, run.id) = run.plan /\ PlanIn(all, run.id) = run.plan
    BY <1>5, <1>6, PlanIs
  <2> QED BY <2>1, <2>2
<1> QED BY <1>6, <1>7, <1>8 DEF next, all

----------------------------------------------------------------------------

SnapshotIn(rc, d) == \E r \in Authors : Made(rc, r) /\ rc[r].result = d

\* What a call holds is what its request has read or made, whatever others have
\* done since.
CallFits(k, c, mn, rc, ad) ==
  /\ k = [pc |-> k.pc, request |-> k.request, command |-> k.command, seen |-> k.seen,
          plan |-> k.plan]
  /\ k.pc # "idle" =>
       /\ k.request \in Requests /\ k.command \in mn[k.request] /\ c \in Callers[mn]
       /\ k.request \in Edits => Len(k.command.actions) \in Nat
  /\ k.pc = "commit" /\ k.request \in Creations => \E t \in Clock : k.seen = EmptyDocument(t)
  /\ k.pc = "commit" /\ k.request \in Edits =>
       \E r \in Authors : \E t \in Clock :
         /\ Made(rc, r) /\ rc[r].result.revision = k.command.base
         /\ k.seen \in Apply(rc[r].result, k.command.actions, t)
  /\ k.pc = "readiness" /\ k.request \in Edits =>
       rc[k.request] = Receipt(k.command, k.seen)
  /\ k.pc \in {"receipt", "readiness", "admit"} /\ k.request \in Starts => SnapshotIn(rc, k.seen)
  /\ k.pc \in {"readiness", "admit"} /\ k.request \in Starts =>
       k.seen.revision = k.command.revision /\ k.command.scope \in Scopes(k.seen)
  /\ k.pc = "admit" /\ k.request \in Starts => k.plan = FreezePlan(k.seen, k.command.scope)
  /\ k.pc = "reload" /\ k.request \in Starts =>
       Made(ad, k.request) /\ ad[k.request].command = k.command

Kept(a, b, R) == \A r \in R : Made(a, r) => Made(b, r) /\ b[r] = a[r]

LEMMA IdleFits ==
  ASSUME NEW c, NEW mn, NEW rc, NEW ad
  PROVE  CallFits(Idle, c, mn, rc, ad)
BY DEF CallFits, Idle

LEMMA CallKeeps ==
  ASSUME NEW k, NEW c, NEW mn, NEW rc, NEW ad, CallFits(k, c, mn, rc, ad),
         NEW rc2, Kept(rc, rc2, Authors), NEW ad2, Kept(ad, ad2, Starts)
  PROVE  CallFits(k, c, mn, rc2, ad2)
<1>1. k.pc = "commit" /\ k.request \in Edits =>
       \E r \in Authors : \E t \in Clock :
         /\ Made(rc2, r) /\ rc2[r].result.revision = k.command.base
         /\ k.seen \in Apply(rc2[r].result, k.command.actions, t)
  BY DEF CallFits, Kept
<1>2. k.pc = "readiness" /\ k.request \in Edits => rc2[k.request] = Receipt(k.command, k.seen)
  BY ReceiptIsOne DEF CallFits, Kept, Made, Authors
<1>3. k.pc \in {"receipt", "readiness", "admit"} /\ k.request \in Starts => SnapshotIn(rc2, k.seen)
  BY DEF CallFits, SnapshotIn, Kept
<1>4. k.pc = "reload" /\ k.request \in Starts =>
       Made(ad2, k.request) /\ ad2[k.request].command = k.command
  BY DEF CallFits, Kept
<1> QED BY <1>1, <1>2, <1>3, <1>4 DEF CallFits

EditingInvariant ==
  /\ menu \in Menus
  /\ ReceiptsFit(receipts, workflow)
  /\ AdmissionsFit(admissions, runs)
  /\ call = [c \in AllCallers |-> call[c]]
  /\ \A c \in AllCallers : CallFits(call[c], c, menu, receipts, admissions)

CallsFit ==
  /\ call = [c \in AllCallers |-> call[c]]
  /\ \A c \in AllCallers : CallFits(call[c], c, menu, receipts, admissions)

LEMMA OthersKeep ==
  ASSUME EditingInvariant, menu' = menu,
         Kept(receipts, receipts', Authors), Kept(admissions, admissions', Starts),
         NEW c \in AllCallers, NEW k, call' = [call EXCEPT ![c] = k],
         CallFits(k, c, menu, receipts', admissions')
  PROVE  CallsFit'
<1>1. call' = [b \in AllCallers |-> call'[b]] /\ call'[c] = k
      /\ \A b \in AllCallers : b # c => call'[b] = call[b]
  BY DEF EditingInvariant
<1>2. ASSUME NEW b \in AllCallers
      PROVE  CallFits(call'[b], b, menu, receipts', admissions')
  <2>1. CASE b = c
    BY <1>1, <2>1
  <2>2. CASE b # c
    <3>1. CallFits(call[b], b, menu, receipts, admissions)
      BY DEF EditingInvariant
    <3>2. CallFits(call[b], b, menu, receipts', admissions')
      BY <3>1, CallKeeps
    <3> QED BY <1>1, <2>2, <3>2
  <2> QED BY <2>1, <2>2
<1> QED BY <1>1, <1>2 DEF CallsFit

LEMMA InitFits ==
  ASSUME Init PROVE EditingInvariant
<1>1. ReceiptsFit(receipts, workflow)
  <2>1. \A r \in Authors : ~Made(receipts, r)
    BY DEF Init, Made, Authors
  <2>2. receipts = [r \in Authors |-> receipts[r]]
    BY DEF Init, Authors
  <2>3. workflow.revision = 0
    BY DEF Init, NoDocument
  <2> QED BY <2>1, <2>2, <2>3 DEF Init, ReceiptsFit
<1>2. AdmissionsFit(admissions, runs)
  BY DEF Init, AdmissionsFit, Made
<1>3. CallsFit
  BY IdleFits DEF Init, CallsFit
<1> QED BY <1>1, <1>2, <1>3 DEF Init, EditingInvariant, CallsFit

Moved(k, pc) ==
  [pc |-> pc, request |-> k.request, command |-> k.command, seen |-> k.seen, plan |-> k.plan]
Shown(k, pc, d) ==
  [pc |-> pc, request |-> k.request, command |-> k.command, seen |-> d, plan |-> k.plan]

LEMMA CallForms ==
  ASSUME EditingInvariant, NEW c \in AllCallers
  PROVE  /\ Refuse(c) => call' = [call EXCEPT ![c] = Idle]
         /\ \A answer : Answer(c, answer) => call' = [call EXCEPT ![c] = Idle]
         /\ \A pc : Go(c, pc) => call' = [call EXCEPT ![c] = Moved(call[c], pc)]
         /\ \A pc, d : Holding(c, pc, d) => call' = [call EXCEPT ![c] = Shown(call[c], pc, d)]
<1>1. call = [b \in AllCallers |-> call[b]]
      /\ call[c] = [pc |-> call[c].pc, request |-> call[c].request, command |-> call[c].command,
                    seen |-> call[c].seen, plan |-> call[c].plan]
  BY DEF EditingInvariant, CallFits
<1>2. \A pc : Go(c, pc) => call' = [call EXCEPT ![c] = Moved(call[c], pc)]
  BY <1>1 DEF Go, Moved
<1>3. \A pc, d : Holding(c, pc, d) => call' = [call EXCEPT ![c] = Shown(call[c], pc, d)]
  BY <1>1 DEF Holding, Shown
<1> QED BY <1>2, <1>3 DEF Refuse, Answer

\* A step of a call that leaves the rows alone.
LEMMA RowsStay ==
  ASSUME EditingInvariant, UNCHANGED <<menu, rows>>, NEW c \in AllCallers, NEW k,
         call' = [call EXCEPT ![c] = k], CallFits(k, c, menu, receipts, admissions)
  PROVE  EditingInvariant'
<1>1. menu' = menu /\ receipts' = receipts /\ admissions' = admissions /\ workflow' = workflow
      /\ runs' = runs
  BY DEF rows
<1>2. Kept(receipts, receipts', Authors) /\ Kept(admissions, admissions', Starts)
  BY <1>1 DEF Kept
<1>3. CallsFit'
  BY <1>1, <1>2, OthersKeep
<1> QED BY <1>1, <1>3 DEF EditingInvariant, CallsFit

LEMMA IdleStays ==
  ASSUME EditingInvariant, UNCHANGED <<menu, rows>>, NEW c \in AllCallers,
         call' = [call EXCEPT ![c] = Idle]
  PROVE  EditingInvariant'
BY IdleFits, RowsStay

LEMMA RequestKinds ==
  /\ \A r \in Creations : r \notin Edits /\ r \notin Starts
  /\ \A r \in Edits : r \notin Creations /\ r \notin Starts
  /\ \A r \in Starts : r \notin Creations /\ r \notin Edits
BY EditingAssumption

LEMMA CommandKinds ==
  ASSUME EditingInvariant, NEW r \in Edits, NEW m \in menu[r]
  PROVE  \A i \in 1 .. Len(m.actions) : IsAction(m.actions[i])
BY EditingAssumption DEF EditingInvariant

LEMMA IssueFits ==
  ASSUME EditingInvariant, NEW c \in AllCallers, NEW r \in Requests, NEW pc, Issue(c, r, pc),
         pc = (IF r \in Starts THEN "load" ELSE "receipt")
  PROVE  EditingInvariant'
<1>1. PICK m \in menu[r] :
        /\ r \in Edits => ValidActions(m.actions)
        /\ call' = [call EXCEPT ![c] = [pc |-> pc, request |-> r, command |-> m,
                                        seen |-> NoDocument, plan |-> "none"]]
  BY DEF Issue
<1> DEFINE k == [pc |-> pc, request |-> r, command |-> m, seen |-> NoDocument, plan |-> "none"]
<1>3. r \in Edits => Len(m.actions) \in Nat
  BY <1>1 DEF ValidActions, ActionLimit
<1> HIDE DEF k
<1>4. CallFits(k, c, menu, receipts, admissions)
  <2>1. c \in Callers[menu]
    BY DEF Issue
  <2>2. k.pc = pc /\ k.request = r /\ k.command = m
        /\ k = [pc |-> k.pc, request |-> k.request, command |-> k.command, seen |-> k.seen,
                plan |-> k.plan]
    BY DEF k
  <2>3. CASE r \in Starts
    BY <1>3, <2>1, <2>2, <2>3 DEF CallFits
  <2>4. CASE r \notin Starts
    BY <1>3, <2>1, <2>2, <2>4 DEF CallFits
  <2> QED BY <2>3, <2>4
<1>5. call' = [call EXCEPT ![c] = k]
  BY <1>1 DEF k
<1> QED BY <1>4, <1>5, RowsStay DEF Issue

\* What the invariant says of one call.
LEMMA OneCall ==
  ASSUME EditingInvariant, NEW c \in AllCallers
  PROVE  CallFits(call[c], c, menu, receipts, admissions)
BY DEF EditingInvariant

LEMMA RestoredIsRow ==
  ASSUME EditingInvariant, NEW d \in Restored
  PROVE  /\ d = workflow /\ Document(d) /\ SnapshotIn(receipts, d)
         /\ \E r \in Authors : Made(receipts, r) /\ receipts[r].result = d
BY RowIsOne DEF Restored, SnapshotIn, EditingInvariant

----------------------------------------------------------------------------

LEMMA LoadCreationReceiptFits ==
  ASSUME EditingInvariant, NEW c \in AllCallers, LoadCreationReceipt(c)
  PROVE  EditingInvariant'
<1>1. CASE Go(c, "load")
  <2>1. CallFits(Moved(call[c], "load"), c, menu, receipts, admissions)
    BY OneCall DEF LoadCreationReceipt, At, CallFits, Moved
  <2> QED BY <1>1, <2>1, CallForms, RowsStay DEF LoadCreationReceipt
<1>2. CASE ~Go(c, "load")
  BY <1>2, CallForms, IdleStays DEF LoadCreationReceipt
<1> QED BY <1>1, <1>2

LEMMA LoadProjectWorkflowFits ==
  ASSUME EditingInvariant, NEW c \in AllCallers, LoadProjectWorkflow(c)
  PROVE  EditingInvariant'
<1>1. CASE Refuse(c)
  BY <1>1, CallForms, IdleStays DEF LoadProjectWorkflow
<1>2. CASE ~Refuse(c)
  <2>1. PICK t \in Clock : Holding(c, "commit", EmptyDocument(t))
    BY <1>2 DEF LoadProjectWorkflow
  <2>2. CallFits(Shown(call[c], "commit", EmptyDocument(t)), c, menu, receipts, admissions)
    BY OneCall, RequestKinds DEF LoadProjectWorkflow, At, CallFits, Shown
  <2> QED BY <2>1, <2>2, CallForms, RowsStay DEF LoadProjectWorkflow
<1> QED BY <1>1, <1>2

LEMMA LoadMutationReceiptFits ==
  ASSUME EditingInvariant, NEW c \in AllCallers, LoadMutationReceipt(c)
  PROVE  EditingInvariant'
<1> DEFINE found == receipts[call[c].request]
<1>1. CASE Go(c, "load")
  <2>1. CallFits(Moved(call[c], "load"), c, menu, receipts, admissions)
    BY OneCall DEF LoadMutationReceipt, At, CallFits, Moved
  <2> QED BY <1>1, <2>1, CallForms, RowsStay DEF LoadMutationReceipt
<1>2. CASE found # NoReceipt /\ SameCommand(found, call[c].command)
           /\ Holding(c, "readiness", found.result)
  <2>1. found = Receipt(call[c].command, found.result)
    BY <1>2 DEF EditingInvariant, ReceiptsFit, LoadMutationReceipt, At, Authors, Made, SameCommand
  <2>2. CallFits(Shown(call[c], "readiness", found.result), c, menu, receipts, admissions)
    BY <2>1, OneCall, RequestKinds DEF LoadMutationReceipt, At, CallFits, Shown
  <2> QED BY <1>2, <2>2, CallForms, RowsStay DEF LoadMutationReceipt
<1>3. CASE Refuse(c)
  BY <1>3, CallForms, IdleStays DEF LoadMutationReceipt
<1> QED BY <1>1, <1>2, <1>3 DEF LoadMutationReceipt

LEMMA LoadAndApplyFits ==
  ASSUME EditingInvariant, NEW c \in AllCallers, LoadAndApply(c)
  PROVE  EditingInvariant'
<1>1. CASE Refuse(c)
  BY <1>1, CallForms, IdleStays DEF LoadAndApply
<1>2. CASE ~Refuse(c)
  <2> DEFINE m == call[c].command
             Results(t) == UNION {Apply(d, m.actions, t) : d \in {d \in Restored : d.revision = m.base}}
  <2>1. PICK t \in Clock : Results(t) # {} /\ Holding(c, "commit", CHOOSE d \in Results(t) : TRUE)
    BY <1>2 DEF LoadAndApply
  <2> DEFINE seen == CHOOSE d \in Results(t) : TRUE
  <2>2. seen \in Results(t)
    <3> HIDE DEF Results
    <3> QED BY <2>1
  <2> HIDE DEF seen
  <2>3. PICK d \in Restored : d.revision = m.base /\ seen \in Apply(d, m.actions, t)
    BY <2>2
  <2>4. \E r \in Authors : \E u \in Clock :
          /\ Made(receipts, r) /\ receipts[r].result.revision = m.base
          /\ seen \in Apply(receipts[r].result, m.actions, u)
    BY <2>3, RestoredIsRow
  <2>5. CallFits(Shown(call[c], "commit", seen), c, menu, receipts, admissions)
    BY <2>4, OneCall, RequestKinds DEF LoadAndApply, At, CallFits, Shown
  <2>6. Holding(c, "commit", seen)
    BY <2>1 DEF seen
  <2> QED BY <2>5, <2>6, CallForms, RowsStay DEF LoadAndApply
<1> QED BY <1>1, <1>2

\* The document a creation is about to insert, and the one an edit is.
LEMMA CreationIsFirst ==
  ASSUME EditingInvariant, NEW c \in AllCallers, At(c, "commit", Creations)
  PROVE  /\ \E t \in Clock : call[c].seen = EmptyDocument(t)
         /\ Document(call[c].seen) /\ call[c].seen.revision = 1
<1>1. PICK t \in Clock : call[c].seen = EmptyDocument(t)
  BY OneCall DEF At, CallFits
<1>2. t \in Nat
  BY EditingAssumption
<1> QED BY <1>1, <1>2, EmptyDocumentIsOne

LEMMA EditIsNext ==
  ASSUME EditingInvariant, NEW c \in AllCallers, At(c, "commit", Edits),
         workflow.revision = call[c].command.base
  PROVE  /\ workflow # NoDocument
         /\ \E t \in Clock : call[c].seen \in Apply(workflow, call[c].command.actions, t)
         /\ Document(call[c].seen) /\ call[c].seen.revision = workflow.revision + 1
         /\ call[c].seen.updated > workflow.updated
<1>1. PICK r \in Authors, t \in Clock :
        /\ Made(receipts, r) /\ receipts[r].result.revision = call[c].command.base
        /\ call[c].seen \in Apply(receipts[r].result, call[c].command.actions, t)
  BY OneCall DEF At, CallFits
<1>2. ReceiptsFit(receipts, workflow)
  BY DEF EditingInvariant
<1>3. Document(receipts[r].result)
  BY <1>1, <1>2 DEF ReceiptsFit
<1>4. workflow # NoDocument
  BY <1>1, <1>2, <1>3, RowIsOne DEF Document
<1>5. PICK s \in Authors : Made(receipts, s) /\ receipts[s].result = workflow
  BY <1>2, <1>4, RowIsOne
<1>6. r = s
  BY <1>1, <1>2, <1>5 DEF ReceiptsFit
<1>7. /\ call[c].request \in Edits /\ call[c].command \in menu[call[c].request]
      /\ Len(call[c].command.actions) \in Nat
  BY OneCall DEF At, CallFits
<1>8. t \in Nat
  BY EditingAssumption
<1>9. call[c].seen \in Apply(workflow, call[c].command.actions, t)
  BY <1>1, <1>5, <1>6
<1>10. \A i \in 1 .. Len(call[c].command.actions) :
         IsAction(call[c].command.actions[i])
  BY <1>7, CommandKinds
<1>11. Document(workflow)
  BY <1>3, <1>5, <1>6
<1> QED BY <1>4, <1>7, <1>8, <1>9, <1>10, <1>11, ApplyMakesDocuments

\* A receipt is inserted with the document it holds.
LEMMA InsertionFits ==
  ASSUME EditingInvariant, NEW c \in AllCallers, NEW r \in Authors, receipts[r] = NoReceipt,
         NEW m, NEW d, Document(d), d.revision = workflow.revision + 1, NEW k,
         workflow' = d, receipts' = WithReceipt(receipts, r, m, d),
         UNCHANGED <<menu, admissions, runs>>, call' = [call EXCEPT ![c] = k],
         CallFits(k, c, menu, receipts', admissions)
  PROVE  EditingInvariant'
<1>1. ReceiptsFit(receipts, workflow)
  BY DEF EditingInvariant
<1>2. ReceiptsFit(receipts', workflow')
  BY <1>1, LineGrows DEF Made
<1>3. Kept(receipts, receipts', Authors)
  BY <1>1 DEF Kept, Made, ReceiptsFit, WithReceipt
<1>4. Kept(admissions, admissions', Starts)
  BY DEF Kept
<1>5. CallsFit'
  BY <1>3, <1>4, OthersKeep
<1> QED BY <1>2, <1>5 DEF EditingInvariant, CallsFit

LEMMA CommitCreationFits ==
  ASSUME EditingInvariant, NEW c \in AllCallers, CommitCreation(c)
  PROVE  EditingInvariant'
<1> DEFINE r == call[c].request
           found == receipts[r]
<1>1. CASE found # NoReceipt
  <2>1. UNCHANGED <<menu, rows>> /\ call' = [call EXCEPT ![c] = Idle]
    BY <1>1, CallForms DEF CommitCreation, rows
  <2> QED BY <2>1, IdleStays
<1>2. CASE found = NoReceipt /\ workflow # NoDocument
  <2>1. UNCHANGED <<menu, rows>> /\ call' = [call EXCEPT ![c] = Idle]
    BY <1>2, CallForms DEF CommitCreation, rows
  <2> QED BY <2>1, IdleStays
<1>3. CASE found = NoReceipt /\ workflow = NoDocument
  <2>1. /\ workflow' = call[c].seen
        /\ receipts' = WithReceipt(receipts, r, call[c].command, call[c].seen)
        /\ call' = [call EXCEPT ![c] = Idle] /\ UNCHANGED <<menu, admissions, runs>>
    BY <1>3, CallForms DEF CommitCreation, WithReceipt
  <2>2. Document(call[c].seen) /\ call[c].seen.revision = workflow.revision + 1
    BY <1>3, CreationIsFirst DEF CommitCreation, NoDocument
  <2>3. r \in Authors
    BY DEF CommitCreation, At, Authors
  <2>4. CallFits(Idle, c, menu, receipts', admissions)
    BY IdleFits
  <2> QED BY <1>3, <2>1, <2>2, <2>3, <2>4, InsertionFits
<1> QED BY <1>1, <1>2, <1>3

LEMMA CommitMutationFits ==
  ASSUME EditingInvariant, NEW c \in AllCallers, CommitMutation(c)
  PROVE  EditingInvariant'
<1> DEFINE r == call[c].request
           found == receipts[r]
<1>a. r \in Edits /\ r \in Authors /\ call[c].pc = "commit"
  BY DEF CommitMutation, At, Authors
<1>1. CASE found # NoReceipt
  <2>1. UNCHANGED <<menu, rows>>
    BY <1>1 DEF CommitMutation, rows
  <2>2. CASE SameCommand(found, call[c].command)
    <3>1. Holding(c, "readiness", found.result)
      BY <1>1, <2>2 DEF CommitMutation
    <3>2. found = Receipt(call[c].command, found.result)
      BY <1>1, <1>a, <2>2 DEF EditingInvariant, ReceiptsFit, Made, SameCommand
    <3>3. CallFits(Shown(call[c], "readiness", found.result), c, menu, receipts, admissions)
      BY <1>a, <3>2, OneCall, RequestKinds DEF CallFits, Shown
    <3> QED BY <2>1, <3>1, <3>3, CallForms, RowsStay
  <2>3. CASE ~SameCommand(found, call[c].command)
    <3>1. call' = [call EXCEPT ![c] = Idle]
      BY <1>1, <2>3, CallForms DEF CommitMutation
    <3> QED BY <2>1, <3>1, IdleStays
  <2> QED BY <2>2, <2>3
<1>2. CASE found = NoReceipt /\ workflow.revision # call[c].command.base
  <2>1. UNCHANGED <<menu, rows>> /\ call' = [call EXCEPT ![c] = Idle]
    BY <1>2, CallForms DEF CommitMutation, rows
  <2> QED BY <2>1, IdleStays
<1>3. CASE found = NoReceipt /\ workflow.revision = call[c].command.base
  <2>1. /\ workflow' = call[c].seen
        /\ receipts' = WithReceipt(receipts, r, call[c].command, call[c].seen)
        /\ Go(c, "readiness") /\ UNCHANGED <<menu, admissions, runs>>
    BY <1>3 DEF CommitMutation, WithReceipt
  <2>2. Document(call[c].seen) /\ call[c].seen.revision = workflow.revision + 1
    BY <1>3, EditIsNext DEF CommitMutation
  <2>3. receipts'[r] = Receipt(call[c].command, call[c].seen)
    BY <1>a, <2>1 DEF EditingInvariant, ReceiptsFit, WithReceipt
  <2>4. CallFits(Moved(call[c], "readiness"), c, menu, receipts', admissions)
    BY <1>a, <2>3, OneCall, RequestKinds DEF CallFits, Moved
  <2>5. call' = [call EXCEPT ![c] = Moved(call[c], "readiness")]
    BY <2>1, CallForms
  <2> QED BY <1>3, <1>a, <2>1, <2>2, <2>4, <2>5, InsertionFits
<1> QED BY <1>1, <1>2, <1>3

----------------------------------------------------------------------------

LEMMA LoadWorkflowToRunFits ==
  ASSUME EditingInvariant, NEW c \in AllCallers, LoadWorkflowToRun(c)
  PROVE  EditingInvariant'
<1>1. CASE Restored = {}
  BY <1>1, CallForms, IdleStays DEF LoadWorkflowToRun
<1>2. CASE Restored # {}
  <2>1. PICK d \in Restored : TRUE
    BY <1>2
  <2>2. SnapshotIn(receipts, workflow)
    BY <2>1, RestoredIsRow
  <2>3. CallFits(Shown(call[c], "receipt", workflow), c, menu, receipts, admissions)
    BY <2>2, OneCall, RequestKinds DEF LoadWorkflowToRun, At, CallFits, Shown
  <2> QED BY <1>2, <2>3, CallForms, RowsStay DEF LoadWorkflowToRun
<1> QED BY <1>1, <1>2

LEMMA LoadAdmissionReceiptFits ==
  ASSUME EditingInvariant, NEW c \in AllCallers, LoadAdmissionReceipt(c)
  PROVE  EditingInvariant'
<1> DEFINE found == admissions[call[c].request]
<1>1. CASE Go(c, "readiness") /\ call[c].seen.revision = call[c].command.revision
           /\ call[c].command.scope \in Scopes(call[c].seen)
  <2>1. CallFits(Moved(call[c], "readiness"), c, menu, receipts, admissions)
    BY <1>1, OneCall, RequestKinds DEF LoadAdmissionReceipt, At, CallFits, Moved
  <2> QED BY <1>1, <2>1, CallForms, RowsStay DEF LoadAdmissionReceipt
<1>2. CASE Refuse(c) \/ \E answer : Answer(c, answer)
  BY <1>2, CallForms, IdleStays DEF LoadAdmissionReceipt
<1> QED BY <1>1, <1>2 DEF LoadAdmissionReceipt

LEMMA CheckAndFreezeFits ==
  ASSUME EditingInvariant, NEW c \in AllCallers, CheckAndFreeze(c)
  PROVE  EditingInvariant'
<1> DEFINE plan == FreezePlan(call[c].seen, call[c].command.scope)
           k == [pc |-> "admit", request |-> call[c].request, command |-> call[c].command,
                 seen |-> call[c].seen, plan |-> plan]
<1>1. CASE Refuse(c) \/ Answer(c, PlanRefused)
  BY <1>1, CallForms, IdleStays DEF CheckAndFreeze
<1>2. CASE call' = [call EXCEPT ![c].pc = "admit", ![c].plan = plan]
  <2>1. call' = [call EXCEPT ![c] = k]
    <3>1. call[c] = [pc |-> call[c].pc, request |-> call[c].request, command |-> call[c].command,
                     seen |-> call[c].seen, plan |-> call[c].plan]
      BY OneCall DEF CallFits
    <3> HIDE DEF plan
    <3>2. call' = [[call EXCEPT ![c].pc = "admit"] EXCEPT ![c].plan = plan]
      BY <1>2
    <3>3. call = [b \in AllCallers |-> call[b]]
      BY DEF EditingInvariant
    <3>4. call'[c] = k /\ \A b \in AllCallers : b # c => call'[b] = call[b]
      BY <3>1, <3>2, <3>3
    <3>5. call' = [b \in AllCallers |-> call'[b]]
      BY <3>2, <3>3
    <3> HIDE DEF k
    <3> QED BY <3>3, <3>4, <3>5
  <2> HIDE DEF plan
  <2>2. CallFits(k, c, menu, receipts, admissions)
    BY OneCall, RequestKinds DEF CheckAndFreeze, At, CallFits, plan
  <2> HIDE DEF k
  <2> QED BY <2>1, <2>2, RowsStay DEF CheckAndFreeze
<1> QED BY <1>1, <1>2 DEF CheckAndFreeze

\* A Run is inserted with its receipt.
LEMMA AdmissionOfRun ==
  ASSUME EditingInvariant, NEW c \in AllCallers, AdmitRun(c),
         NEW r, r = call[c].request, admissions[r] = NoReceipt
  PROVE  /\ r \in Starts /\ ~Made(admissions, r)
         /\ call[c].plan = FreezePlan(call[c].seen, call[c].command.scope)
         /\ call[c].plan \notin {PlanRefused, RunMissing}
         /\ admissions' = [admissions EXCEPT ![r] = Receipt(call[c].command, <<r, c>>)]
         /\ runs' = runs \cup {[id |-> <<r, c>>, plan |-> call[c].plan]}
         /\ AdmissionsFit(admissions', runs')
         /\ PlanIn(runs', <<r, c>>) = call[c].plan
         /\ \A s \in Starts : Made(admissions, s) =>
              PlanIn(runs', admissions[s].result) = PlanIn(runs, admissions[s].result)
<1>1. r \in Starts /\ call[c].pc = "admit" /\ ~Made(admissions, r)
  BY DEF AdmitRun, At, Made
<1>2. call[c].plan = FreezePlan(call[c].seen, call[c].command.scope)
  BY <1>1, OneCall DEF CallFits
<1>3. call[c].plan \notin {PlanRefused, RunMissing}
  BY <1>2, PlansAreNoRefusal
<1>4. /\ admissions' = [admissions EXCEPT ![r] = Receipt(call[c].command, <<r, c>>)]
      /\ runs' = runs \cup {[id |-> <<r, c>>, plan |-> call[c].plan]}
  <2>1. InsertRun(c)
    BY DEF AdmitRun
  <2> QED BY <2>1 DEF InsertRun, RunId
<1>5. AdmissionsFit(admissions, runs)
  BY DEF EditingInvariant
<1>6. /\ AdmissionsFit(admissions', runs')
      /\ PlanIn(runs', <<r, c>>) = call[c].plan
      /\ \A s \in Starts : Made(admissions, s) =>
           PlanIn(runs', admissions[s].result) = PlanIn(runs, admissions[s].result)
  <2>1. /\ admissions' = ReceiptOfRun(admissions, r, c, call[c].command)
        /\ runs' = WithRun(runs, r, c, call[c].plan)
    BY <1>4 DEF ReceiptOfRun, WithRun
  <2> QED BY <1>1, <1>3, <1>5, <2>1, AdmissionGrows
<1> QED BY <1>1, <1>2, <1>3, <1>4, <1>6

LEMMA AdmitRunFits ==
  ASSUME EditingInvariant, NEW c \in AllCallers, AdmitRun(c)
  PROVE  EditingInvariant'
<1> DEFINE r == call[c].request
           found == admissions[r]
<1>1. CASE found # NoReceipt
  <2>1. UNCHANGED <<menu, rows>>
    BY <1>1 DEF AdmitRun, rows
  <2>2. CASE SameCommand(found, call[c].command)
    <3>1. Go(c, "reload")
      BY <1>1, <2>2 DEF AdmitRun
    <3>2. CallFits(Moved(call[c], "reload"), c, menu, receipts, admissions)
      BY <1>1, <2>2, OneCall, RequestKinds DEF AdmitRun, At, CallFits, Moved, Made, SameCommand
    <3> QED BY <2>1, <3>1, <3>2, CallForms, RowsStay
  <2>3. CASE ~SameCommand(found, call[c].command)
    <3>1. call' = [call EXCEPT ![c] = Idle]
      BY <1>1, <2>3, CallForms DEF AdmitRun
    <3> QED BY <2>1, <3>1, IdleStays
  <2> QED BY <2>2, <2>3
<1>2. CASE found = NoReceipt
  <2>1. /\ r \in Starts /\ ~Made(admissions, r)
        /\ admissions' = [admissions EXCEPT ![r] = Receipt(call[c].command, <<r, c>>)]
        /\ AdmissionsFit(admissions', runs')
    BY <1>2, AdmissionOfRun
  <2>2. Go(c, "reload") /\ UNCHANGED <<menu, workflow, receipts>>
    BY <1>2 DEF AdmitRun
  <2>3. admissions'[r] = Receipt(call[c].command, <<r, c>>)
    BY <2>1 DEF EditingInvariant, AdmissionsFit
  <2>4. CallFits(Moved(call[c], "reload"), c, menu, receipts', admissions')
    <3>1. Made(admissions', r) /\ admissions'[r].command = call[c].command
      BY <2>3, ReceiptIsOne DEF Made
    <3>2. CallFits(call[c], c, menu, receipts', admissions)
      BY <2>2, OneCall
    <3>3. call[c].pc # "idle"
      BY DEF AdmitRun, At
    <3> QED BY <2>1, <3>1, <3>2, <3>3, RequestKinds DEF CallFits, Moved
  <2>5. call' = [call EXCEPT ![c] = Moved(call[c], "reload")]
    BY <2>2, CallForms
  <2>6. Kept(receipts, receipts', Authors) /\ Kept(admissions, admissions', Starts)
    BY <2>1, <2>2 DEF Kept, Made, EditingInvariant, AdmissionsFit
  <2>7. CallsFit'
    BY <2>2, <2>4, <2>5, <2>6, OthersKeep
  <2> QED BY <2>1, <2>2, <2>7 DEF EditingInvariant, CallsFit
<1> QED BY <1>1, <1>2

LEMMA NextFits ==
  ASSUME EditingInvariant, [Next]_vars
  PROVE  EditingInvariant'
<1>1. CASE UNCHANGED vars
  BY <1>1 DEF vars, EditingInvariant
<1>2. ASSUME NEW c \in AllCallers,
             WorkflowCreate(c) \/ WorkflowApplyMutation(c) \/ WorkflowStartRun(c)
      PROVE  EditingInvariant'
  <2>1. PICK r \in Requests : Issue(c, r, IF r \in Starts THEN "load" ELSE "receipt")
    BY <1>2, RequestKinds
       DEF WorkflowCreate, WorkflowApplyMutation, WorkflowStartRun, Requests
  <2> QED BY <2>1, IssueFits
<1>3. ASSUME NEW c \in AllCallers, CallFails(c) PROVE EditingInvariant'
  BY <1>3, CallForms, IdleStays DEF CallFails
<1>4. ASSUME NEW c \in AllCallers, AnswerMutation(c) PROVE EditingInvariant'
  BY <1>4, CallForms, IdleStays DEF AnswerMutation
<1>5. ASSUME NEW c \in AllCallers, ReloadRun(c) PROVE EditingInvariant'
  BY <1>5, CallForms, IdleStays DEF ReloadRun
<1> QED BY <1>1, <1>2, <1>3, <1>4, <1>5, LoadCreationReceiptFits, LoadProjectWorkflowFits,
           CommitCreationFits, LoadMutationReceiptFits, LoadAndApplyFits, CommitMutationFits,
           LoadWorkflowToRunFits, LoadAdmissionReceiptFits, CheckAndFreezeFits, AdmitRunFits
        DEF Next

\* Receipts, row, Runs and calls agree in every state, whatever calls overlap,
\* are retried or fail: what a call holds between two awaits is what its use
\* case may still commit or answer (WorkflowCreateUseCase,
\* WorkflowApplyMutationUseCase, WorkflowStartRunUseCase).
THEOREM EditingInvariantHolds == Spec => []EditingInvariant
<1>1. Init => EditingInvariant
  BY InitFits
<1>2. EditingInvariant /\ [Next]_vars => EditingInvariant'
  BY NextFits
<1> QED BY <1>1, <1>2, PTL DEF Spec

\* Every revision that was ever committed is a well-formed acyclic graph,
\* whatever actions the callers send (apply_mutation_command, try_restore).
THEOREM DocumentsAreSound == Spec => []SoundDocuments
<1>1. ASSUME EditingInvariant PROVE SoundDocuments
  <2>1. ASSUME NEW d \in Snapshots PROVE Sound(d)
    <3>1. PICK r \in Authors : Made(receipts, r) /\ receipts[r].result = d
      BY <1>1 DEF Snapshots, EditingInvariant, ReceiptsFit, Made
    <3>2. Document(d)
      BY <1>1, <3>1 DEF EditingInvariant, ReceiptsFit
    <3> QED BY <3>2, DocumentIsSound
  <2> QED BY <2>1 DEF SoundDocuments, Sound
<1> QED BY <1>1, EditingInvariantHolds, PTL

MadeBy(rc, ad, rs) ==
  [r \in Requests |->
     IF r \notin Starts THEN rc[r]
     ELSE IF ad[r] = NoReceipt THEN NoReceipt
     ELSE Receipt(ad[r].command, PlanIn(rs, ad[r].result))]
Heard(answers) == {t \in answers : Done(t)}
Commands == [r \in Requests |-> UNION {m[r] : m \in Menus}]
\* A step of the promise: Next, or nothing.
PromiseStep == [Promise!Next]_(Promise!promise)

LEMMA Mapping ==
  /\ Revisions = Line(receipts, workflow)
  /\ [r \in Requests |->
        IF r \notin Starts THEN receipts[r]
        ELSE IF admissions[r] = NoReceipt THEN NoReceipt
        ELSE Receipt(admissions[r].command, PlanOf(admissions[r].result))]
     = MadeBy(receipts, admissions, runs)
BY DEF Revisions, Line, Snapshots, MadeBy, PlanOf, RunRow, PlanIn

LEMMA MappingNext ==
  /\ Revisions' = Line(receipts', workflow')
  /\ [r \in Requests |->
        IF r \notin Starts THEN receipts[r]
        ELSE IF admissions[r] = NoReceipt THEN NoReceipt
        ELSE Receipt(admissions[r].command, PlanOf(admissions[r].result))]'
     = MadeBy(receipts', admissions', runs')
BY DEF Revisions, Line, Snapshots, MadeBy, PlanOf, RunRow, PlanIn

\* The abstract actions, of the mapped state.
Same == /\ Line(receipts', workflow') = Line(receipts, workflow)
        /\ MadeBy(receipts', admissions', runs') = MadeBy(receipts, admissions, runs)
        /\ Heard(told') = Heard(told)

Answers(r) ==
  LET made == MadeBy(receipts, admissions, runs)
  IN /\ made[r] # NoReceipt
     /\ Heard(told') = Heard(told) \cup
          {[request |-> r, command |-> made[r].command, answer |-> made[r].result]}
     /\ Line(receipts', workflow') = Line(receipts, workflow)
     /\ MadeBy(receipts', admissions', runs') = made

LEMMA SameMaps ==
  ASSUME Same PROVE UNCHANGED Promise!promise
BY Mapping, MappingNext DEF Same, Promise!promise, Heard

LEMMA AnswersMap ==
  ASSUME NEW r \in Requests, Answers(r) PROVE Promise!Next
<1>1. Promise!Answer(r)
  BY Mapping, MappingNext DEF Answers, Heard, Promise!Answer, Promise!Told, Promise!Unmade, NoReceipt
<1> QED BY <1>1 DEF Promise!Next, Requests

Creates(r, m) ==
  LET made == MadeBy(receipts, admissions, runs)
      next == MadeBy(receipts', admissions', runs')
      line == Line(receipts', workflow')
  IN /\ Line(receipts, workflow) = <<>>
     /\ \E t \in Clock : line = <<EmptyDocument(t)>>
     /\ made[r] = NoReceipt
     /\ next = [made EXCEPT ![r] = [command |-> m, result |-> Head(line)]]
     /\ Heard(told') = Heard(told) \cup
          {[request |-> r, command |-> next[r].command, answer |-> next[r].result]}

LEMMA CreatesMap ==
  ASSUME NEW r \in Creations, NEW m \in Commands[r], Creates(r, m) PROVE Promise!Next
<1>1. Promise!Create(r, m)
  BY Mapping, MappingNext
  DEF Creates, Heard, Promise!Create, Promise!Do, Promise!Told, Promise!Unmade, NoReceipt
<1> QED BY <1>1 DEF Promise!Next, Commands

Edited(r, m) ==
  LET made == MadeBy(receipts, admissions, runs)
      line == Line(receipts, workflow)
  IN /\ line # <<>> /\ m.base = Len(line)
     /\ \E t \in Clock : \E d \in Apply(line[Len(line)], m.actions, t) :
          /\ d.updated > line[Len(line)].updated
          /\ Line(receipts', workflow') = Append(line, d)
          /\ made[r] = NoReceipt
          /\ MadeBy(receipts', admissions', runs') =
               [made EXCEPT ![r] = [command |-> m, result |-> d]]
     /\ Heard(told') = Heard(told)

LEMMA EditedMaps ==
  ASSUME NEW r \in Edits, NEW m \in Commands[r], Edited(r, m) PROVE Promise!Next
<1>1. Promise!Edit(r, m)
  BY Mapping, MappingNext
  DEF Edited, Heard, Promise!Edit, Promise!Do, Promise!Told, Promise!Unmade, NoReceipt
<1> QED BY <1>1 DEF Promise!Next, Commands

Admitted(r, m) ==
  LET made == MadeBy(receipts, admissions, runs)
      line == Line(receipts, workflow)
  IN /\ m.revision \in DOMAIN line
     /\ m.scope \in Scopes(line[m.revision])
     /\ made[r] = NoReceipt
     /\ MadeBy(receipts', admissions', runs') =
          [made EXCEPT ![r] = [command |-> m, result |-> FreezePlan(line[m.revision], m.scope)]]
     /\ Line(receipts', workflow') = line
     /\ Heard(told') = Heard(told)

LEMMA AdmittedMaps ==
  ASSUME NEW r \in Starts, NEW m \in Commands[r], Admitted(r, m) PROVE Promise!Next
<1>1. Promise!Admit(r, m)
  BY Mapping, MappingNext
  DEF Admitted, Heard, Promise!Admit, Promise!Do, Promise!Told, Promise!Unmade, NoReceipt
<1> QED BY <1>1 DEF Promise!Next, Commands

----------------------------------------------------------------------------
(* The steps of the detailed specification.                                *)

Mapped == Same \/ Promise!Next

LEMMA QuietMaps ==
  ASSUME UNCHANGED <<menu, rows>>, Heard(told') = Heard(told)
  PROVE  Same
BY DEF Same, rows

LEMMA CommandOf ==
  ASSUME EditingInvariant, NEW c \in AllCallers, call[c].pc # "idle"
  PROVE  call[c].request \in Requests /\ call[c].command \in Commands[call[c].request]
BY OneCall DEF CallFits, EditingInvariant, Commands

LEMMA RefusalsAreNone ==
  /\ \A d : Document(d) => d \notin {PlanRefused, RunMissing}
  /\ \A t : t.answer \in {PlanRefused, RunMissing} => ~Done(t)
<1>1. ASSUME NEW d, Document(d) PROVE "revision" \in DOMAIN d
  BY <1>1 DEF Document, Workable
<1>2. "revision" \notin DOMAIN PlanRefused /\ "revision" \notin DOMAIN RunMissing
  BY DEF PlanRefused, RunMissing
<1> QED BY <1>1, <1>2 DEF Done

LEMMA MadeIsNoRefusal ==
  ASSUME EditingInvariant, NEW r \in Requests, MadeBy(receipts, admissions, runs)[r] # NoReceipt
  PROVE  MadeBy(receipts, admissions, runs)[r].result \notin {PlanRefused, RunMissing}
<1>1. CASE r \notin Starts
  <2>1. r \in Authors /\ Made(receipts, r) /\ MadeBy(receipts, admissions, runs)[r] = receipts[r]
    BY <1>1 DEF MadeBy, Requests, Authors, Made
  <2>2. Document(receipts[r].result)
    BY <2>1 DEF EditingInvariant, ReceiptsFit
  <2> QED BY <2>1, <2>2, RefusalsAreNone
<1>2. CASE r \in Starts
  <2>1. Made(admissions, r)
        /\ MadeBy(receipts, admissions, runs)[r].result = PlanIn(runs, admissions[r].result)
    BY <1>2, ReceiptIsOne DEF MadeBy, Made
  <2>2. PICK run \in runs : run.id = admissions[r].result
    BY <1>2, <2>1 DEF EditingInvariant, AdmissionsFit
  <2>3. PlanIn(runs, run.id) = run.plan
    BY PlanIs DEF EditingInvariant
  <2> QED BY <2>1, <2>2, <2>3 DEF EditingInvariant, AdmissionsFit
<1> QED BY <1>1, <1>2

LEMMA AnswerMaps ==
  ASSUME EditingInvariant, NEW c \in AllCallers, call[c].request \in Requests,
         UNCHANGED <<menu, rows>>, NEW answer, Answer(c, answer),
         NEW did, did = MadeBy(receipts, admissions, runs)[call[c].request], did # NoReceipt,
         did.command = call[c].command, did.result = answer
  PROVE  Promise!Next
<1>1. answer \notin {PlanRefused, RunMissing}
  BY MadeIsNoRefusal
<1>2. Heard(told') = Heard(told) \cup
        {[request |-> call[c].request, command |-> did.command, answer |-> did.result]}
  BY <1>1 DEF Answer, Heard, Done
<1>3. PICK r \in Requests : r = call[c].request
  OBVIOUS
<1>4. Answers(r)
  BY <1>2, <1>3 DEF Answers, rows
<1> QED BY <1>4, AnswersMap

LEMMA RefusedMaps ==
  ASSUME NEW c \in AllCallers, UNCHANGED <<menu, rows>>,
         Refuse(c) \/ UNCHANGED told \/ Answer(c, PlanRefused) \/ Answer(c, RunMissing)
  PROVE  Same
<1>1. Heard(told') = Heard(told)
  BY RefusalsAreNone DEF Refuse, Answer, Heard
<1> QED BY <1>1, QuietMaps

LEMMA ReceiptAnswers ==
  ASSUME EditingInvariant, NEW c \in AllCallers, call[c].request \in Authors,
         receipts[call[c].request] # NoReceipt,
         SameCommand(receipts[call[c].request], call[c].command),
         UNCHANGED <<menu, rows>>, Answer(c, receipts[call[c].request].result)
  PROVE  Promise!Next
<1>1. call[c].request \in Requests /\ call[c].request \notin Starts
  BY RequestKinds DEF Authors, Requests
<1>2. MadeBy(receipts, admissions, runs)[call[c].request] = receipts[call[c].request]
  BY <1>1 DEF MadeBy
<1> QED BY <1>1, <1>2, AnswerMaps DEF SameCommand

LEMMA LoadCreationReceiptMaps ==
  ASSUME EditingInvariant, NEW c \in AllCallers, LoadCreationReceipt(c)
  PROVE  Mapped
<1> DEFINE found == receipts[call[c].request]
<1>1. CASE UNCHANGED told \/ Refuse(c)
  BY <1>1, RefusedMaps DEF LoadCreationReceipt, Mapped
<1>2. CASE found # NoReceipt /\ SameCommand(found, call[c].command) /\ Answer(c, found.result)
  BY <1>2, ReceiptAnswers DEF LoadCreationReceipt, At, Authors, Mapped
<1> QED BY <1>1, <1>2 DEF LoadCreationReceipt

LEMMA AnswerMutationMaps ==
  ASSUME EditingInvariant, NEW c \in AllCallers, AnswerMutation(c)
  PROVE  Mapped
<1>1. call[c].request \in Authors
      /\ receipts[call[c].request] = Receipt(call[c].command, call[c].seen)
  BY OneCall DEF AnswerMutation, At, CallFits, Authors
<1> QED BY <1>1, ReceiptAnswers, ReceiptIsOne DEF AnswerMutation, SameCommand, Mapped

LEMMA AdmissionAnswers ==
  ASSUME EditingInvariant, NEW c \in AllCallers, call[c].request \in Starts,
         admissions[call[c].request] # NoReceipt,
         admissions[call[c].request].command = call[c].command,
         UNCHANGED <<menu, rows>>, Answer(c, PlanOf(admissions[call[c].request].result))
  PROVE  Promise!Next
<1>1. call[c].request \in Requests
  BY DEF Requests
<1>2. MadeBy(receipts, admissions, runs)[call[c].request] =
        Receipt(call[c].command, PlanOf(admissions[call[c].request].result))
  BY <1>1 DEF MadeBy, PlanOf, RunRow, PlanIn
<1> QED BY <1>1, <1>2, ReceiptIsOne, AnswerMaps

LEMMA LoadAdmissionReceiptMaps ==
  ASSUME EditingInvariant, NEW c \in AllCallers, LoadAdmissionReceipt(c)
  PROVE  Mapped
<1> DEFINE found == admissions[call[c].request]
<1>1. CASE UNCHANGED told \/ Refuse(c)
  BY <1>1, RefusedMaps DEF LoadAdmissionReceipt, Mapped
<1>2. CASE found # NoReceipt /\ SameCommand(found, call[c].command)
           /\ Answer(c, PlanOf(found.result))
  BY <1>2, AdmissionAnswers DEF LoadAdmissionReceipt, At, SameCommand, Mapped
<1> QED BY <1>1, <1>2 DEF LoadAdmissionReceipt

LEMMA ReloadRunMaps ==
  ASSUME EditingInvariant, NEW c \in AllCallers, ReloadRun(c)
  PROVE  Mapped
<1>1. CASE \E run \in runs : run.id = RunId(c)
  <2>1. PICK run \in runs : run.id = <<call[c].request, c>>
    BY <1>1 DEF RunId
  <2>2. PICK r \in Starts, b \in AllCallers :
          Made(admissions, r) /\ admissions[r].result = run.id /\ run.id = <<r, b>>
    BY DEF EditingInvariant, AdmissionsFit
  <2>3. r = call[c].request
    BY <2>1, <2>2
  <2>4. admissions[r].command = call[c].command
    BY <2>3, OneCall DEF ReloadRun, At, CallFits
  <2>5. Answer(c, PlanOf(admissions[r].result))
    BY <1>1, <2>1, <2>2 DEF ReloadRun, RunId
  <2> QED BY <2>2, <2>3, <2>4, <2>5, AdmissionAnswers DEF ReloadRun, Made, Mapped
<1>2. CASE ~\E run \in runs : run.id = RunId(c)
  BY <1>2, RefusedMaps DEF ReloadRun, Mapped
<1> QED BY <1>1, <1>2

\* Made by one request more.
LEMMA ReceiptMapped ==
  ASSUME EditingInvariant, NEW r \in Authors, NEW m, NEW d,
         receipts' = WithReceipt(receipts, r, m, d), UNCHANGED <<admissions, runs>>
  PROVE  /\ MadeBy(receipts, admissions, runs)[r] = receipts[r]
         /\ MadeBy(receipts', admissions', runs') =
              [MadeBy(receipts, admissions, runs) EXCEPT ![r] = [command |-> m, result |-> d]]
<1>1. r \in Requests /\ r \notin Starts
  BY RequestKinds DEF Authors, Requests
<1>2. receipts' = [s \in Authors |-> IF s = r THEN Receipt(m, d) ELSE receipts[s]]
  BY DEF EditingInvariant, ReceiptsFit, WithReceipt
<1>3. \A s \in Requests : s \notin Starts => s \in Authors
  BY DEF Requests, Authors
<1> QED BY <1>1, <1>2, <1>3 DEF MadeBy, Receipt

LEMMA AdmissionMapped ==
  ASSUME EditingInvariant, NEW c \in AllCallers, AdmitRun(c),
         NEW r, r = call[c].request, admissions[r] = NoReceipt
  PROVE  /\ MadeBy(receipts, admissions, runs)[r] = NoReceipt
         /\ MadeBy(receipts', admissions', runs') =
              [MadeBy(receipts, admissions, runs) EXCEPT
                 ![r] = [command |-> call[c].command, result |-> call[c].plan]]
<1>1. /\ r \in Starts /\ r \in Requests
      /\ admissions' = [admissions EXCEPT ![r] = Receipt(call[c].command, <<r, c>>)]
      /\ PlanIn(runs', <<r, c>>) = call[c].plan
      /\ \A s \in Starts : Made(admissions, s) =>
           PlanIn(runs', admissions[s].result) = PlanIn(runs, admissions[s].result)
  BY AdmissionOfRun DEF Requests
<1>2. receipts' = receipts
  BY DEF AdmitRun
<1>3. admissions'[r] = Receipt(call[c].command, <<r, c>>)
      /\ \A s \in Starts : s # r => admissions'[s] = admissions[s]
  BY <1>1 DEF EditingInvariant, AdmissionsFit
<1> DEFINE made == MadeBy(receipts, admissions, runs)
           next == MadeBy(receipts', admissions', runs')
<1>4. next[r] = Receipt(call[c].command, call[c].plan)
  BY <1>1, <1>3, ReceiptIsOne DEF MadeBy
<1>5. ASSUME NEW s \in Requests, s # r PROVE next[s] = made[s]
  <2>1. CASE s \notin Starts
    BY <1>2, <2>1 DEF MadeBy
  <2>2. CASE s \in Starts /\ admissions[s] = NoReceipt
    BY <1>3, <1>5, <2>2 DEF MadeBy
  <2>3. CASE s \in Starts /\ admissions[s] # NoReceipt
    <3>1. PlanIn(runs', admissions[s].result) = PlanIn(runs, admissions[s].result)
      BY <1>1, <2>3 DEF Made
    <3>2. admissions'[s] = admissions[s]
      BY <1>3, <1>5, <2>3
    <3> QED BY <2>3, <3>1, <3>2 DEF MadeBy
  <2> QED BY <2>1, <2>2, <2>3
<1>6. made[r] = NoReceipt
  BY <1>1 DEF MadeBy
<1>7. made = [s \in Requests |-> made[s]] /\ next = [s \in Requests |-> next[s]]
  BY DEF MadeBy
<1> HIDE DEF made, next
<1>8. next = [made EXCEPT ![r] = [command |-> call[c].command, result |-> call[c].plan]]
  BY <1>1, <1>4, <1>5, <1>7 DEF Receipt
<1> QED BY <1>6, <1>8 DEF made, next

LEMMA CommitCreationMaps ==
  ASSUME EditingInvariant, NEW c \in AllCallers, CommitCreation(c)
  PROVE  Mapped
<1> DEFINE found == receipts[call[c].request]
<1>a. UNCHANGED <<menu, admissions, runs>> /\ call[c].request \in Creations
      /\ call[c].request \in Authors /\ call[c].pc # "idle"
  BY DEF CommitCreation, At, Authors
<1>1. CASE found # NoReceipt
  <2>1. UNCHANGED <<menu, rows>>
    BY <1>1 DEF CommitCreation, rows
  <2>2. CASE SameCommand(found, call[c].command)
    BY <1>1, <1>a, <2>1, <2>2, ReceiptAnswers DEF CommitCreation, Mapped
  <2>3. CASE ~SameCommand(found, call[c].command)
    BY <1>1, <2>1, <2>3, RefusedMaps DEF CommitCreation, Mapped
  <2> QED BY <2>2, <2>3
<1>2. CASE found = NoReceipt /\ workflow # NoDocument
  <2>1. UNCHANGED <<menu, rows>> /\ Refuse(c)
    BY <1>2 DEF CommitCreation, rows
  <2> QED BY <2>1, RefusedMaps DEF Mapped
<1>3. CASE found = NoReceipt /\ workflow = NoDocument
  <2>1. PICK r \in Creations : r = call[c].request
    BY <1>a
  <2>2. PICK m \in Commands[r] : m = call[c].command
    BY <1>a, <2>1, CommandOf
  <2>3. PICK d : d = call[c].seen
    OBVIOUS
  <2>4. /\ workflow' = d /\ receipts' = WithReceipt(receipts, r, m, d)
        /\ Answer(c, d)
    BY <1>3, <2>1, <2>2, <2>3 DEF CommitCreation, WithReceipt
  <2>5. Document(d) /\ d.revision = workflow.revision + 1 /\ \E t \in Clock : d = EmptyDocument(t)
    BY <1>3, <2>3, CreationIsFirst DEF CommitCreation, NoDocument
  <2>6. r \in Authors /\ ~Made(receipts, r)
    BY <1>3, <1>a, <2>1 DEF Made
  <2>7. Line(receipts', workflow') = Append(Line(receipts, workflow), d)
    BY <2>4, <2>5, <2>6, LineGrows DEF EditingInvariant
  <2>8. Line(receipts, workflow) = <<>>
    BY <1>3 DEF Line, NoDocument
  <2>9. Line(receipts', workflow') = <<d>>
    BY <2>7, <2>8
  <2>10. Head(Line(receipts', workflow')) = d
    BY <2>9
  <2>11. /\ MadeBy(receipts, admissions, runs)[r] = NoReceipt
         /\ MadeBy(receipts', admissions', runs') =
              [MadeBy(receipts, admissions, runs) EXCEPT ![r] = [command |-> m, result |-> d]]
    <3>1. receipts[r] = NoReceipt
      BY <1>3, <2>1
    <3> QED BY <1>a, <2>4, <2>6, <3>1, ReceiptMapped
  <2>12. MadeBy(receipts', admissions', runs')[r] = [command |-> m, result |-> d]
    BY <2>11 DEF MadeBy, Requests
  <2>13. Heard(told') = Heard(told) \cup {[request |-> r, command |-> m, answer |-> d]}
    BY <2>1, <2>2, <2>4, <2>5, RefusalsAreNone DEF Answer, Heard, Done
  <2>14. Creates(r, m)
    BY <2>5, <2>8, <2>9, <2>10, <2>11, <2>12, <2>13 DEF Creates
  <2> QED BY <2>14, CreatesMap DEF Mapped
<1> QED BY <1>1, <1>2, <1>3

LEMMA CommitMutationMaps ==
  ASSUME EditingInvariant, NEW c \in AllCallers, CommitMutation(c)
  PROVE  Mapped
<1> DEFINE found == receipts[call[c].request]
<1>a. UNCHANGED <<menu, admissions, runs, told>> /\ call[c].request \in Edits
      /\ call[c].request \in Authors /\ call[c].pc # "idle"
  BY DEF CommitMutation, At, Authors
<1>1. CASE found # NoReceipt \/ workflow.revision # call[c].command.base
  <2>1. UNCHANGED <<menu, rows>>
    BY <1>1 DEF CommitMutation, rows
  <2> QED BY <1>a, <2>1, RefusedMaps DEF Mapped
<1>2. CASE found = NoReceipt /\ workflow.revision = call[c].command.base
  <2>1. PICK r \in Edits : r = call[c].request
    BY <1>a
  <2>2. PICK m \in Commands[r] : m = call[c].command
    BY <1>a, <2>1, CommandOf
  <2>3. PICK d : d = call[c].seen
    OBVIOUS
  <2>4. workflow' = d /\ receipts' = WithReceipt(receipts, r, m, d)
    BY <1>2, <2>1, <2>2, <2>3 DEF CommitMutation, WithReceipt
  <2>5. /\ Document(d) /\ d.revision = workflow.revision + 1 /\ d.updated > workflow.updated
        /\ workflow # NoDocument
        /\ \E t \in Clock : d \in Apply(workflow, m.actions, t)
    BY <1>2, <2>2, <2>3, EditIsNext DEF CommitMutation
  <2>6. r \in Authors /\ ~Made(receipts, r)
    BY <1>2, <1>a, <2>1 DEF Made
  <2>7. Line(receipts', workflow') = Append(Line(receipts, workflow), d)
    BY <2>4, <2>5, <2>6, LineGrows DEF EditingInvariant
  <2>8. PICK s \in Authors : Made(receipts, s) /\ receipts[s].result = workflow
    BY <2>5, RowIsOne DEF EditingInvariant
  <2>9. workflow.revision \in Nat \ {0}
    BY <2>5, RowIsOne DEF EditingInvariant, Document
  <2>10. Line(receipts, workflow)[workflow.revision] = workflow
    BY <2>8, LineIs DEF EditingInvariant
  <2>11. DOMAIN Line(receipts, workflow) = 1 .. workflow.revision
         /\ Len(Line(receipts, workflow)) = workflow.revision
    BY <2>9 DEF Line
  <2>12. Line(receipts, workflow) # <<>>
    BY <2>9, <2>11
  <2>13. /\ MadeBy(receipts, admissions, runs)[r] = NoReceipt
         /\ MadeBy(receipts', admissions', runs') =
              [MadeBy(receipts, admissions, runs) EXCEPT ![r] = [command |-> m, result |-> d]]
    <3>1. receipts[r] = NoReceipt
      BY <1>2, <2>1
    <3> QED BY <1>a, <2>4, <2>6, <3>1, ReceiptMapped
  <2>14. m.base = Len(Line(receipts, workflow))
    BY <1>2, <2>2, <2>11
  <2>15. Edited(r, m)
    BY <1>a, <2>5, <2>7, <2>10, <2>11, <2>12, <2>13, <2>14 DEF Edited
  <2> QED BY <2>15, EditedMaps DEF Mapped
<1> QED BY <1>1, <1>2

LEMMA AdmitRunMaps ==
  ASSUME EditingInvariant, NEW c \in AllCallers, AdmitRun(c)
  PROVE  Mapped
<1>a. UNCHANGED <<menu, workflow, receipts, told>> /\ call[c].request \in Starts
      /\ call[c].pc = "admit"
  BY DEF AdmitRun, At
<1>1. CASE admissions[call[c].request] # NoReceipt
  <2>1. UNCHANGED <<menu, rows>>
    BY <1>1 DEF AdmitRun, rows
  <2> QED BY <1>a, <2>1, RefusedMaps DEF Mapped
<1>2. CASE admissions[call[c].request] = NoReceipt
  <2>1. PICK r \in Starts : r = call[c].request
    BY <1>a
  <2>2. PICK m \in Commands[r] : m = call[c].command
    BY <1>a, <2>1, CommandOf
  <2>3. PICK d : d = call[c].seen
    OBVIOUS
  <2>4. /\ SnapshotIn(receipts, d) /\ d.revision = m.revision /\ m.scope \in Scopes(d)
        /\ call[c].plan = FreezePlan(d, m.scope)
    BY <1>a, <2>2, <2>3, OneCall DEF CallFits
  <2>5. PICK s \in Authors : Made(receipts, s) /\ receipts[s].result = d
    BY <2>4 DEF SnapshotIn
  <2>6. d.revision \in 1 .. workflow.revision /\ Line(receipts, workflow)[d.revision] = d
    <3>1. ReceiptsFit(receipts, workflow)
      BY DEF EditingInvariant
    <3>2. receipts[s].result.revision \in 1 .. workflow.revision
          /\ Line(receipts, workflow)[receipts[s].result.revision] = receipts[s].result
      BY <2>5, <3>1, LineIs
    <3> QED BY <2>5, <3>2
  <2>7. m.revision \in DOMAIN Line(receipts, workflow) /\ Line(receipts, workflow)[m.revision] = d
    BY <2>4, <2>6 DEF Line
  <2>8. /\ MadeBy(receipts, admissions, runs)[r] = NoReceipt
        /\ MadeBy(receipts', admissions', runs') =
             [MadeBy(receipts, admissions, runs) EXCEPT
                ![r] = [command |-> m, result |-> FreezePlan(d, m.scope)]]
    BY <1>2, <2>1, <2>2, <2>4, AdmissionMapped
  <2>9. Admitted(r, m)
    BY <1>a, <2>4, <2>7, <2>8 DEF Admitted
  <2> QED BY <2>9, AdmittedMaps DEF Mapped
<1> QED BY <1>1, <1>2

LEMMA StepMaps ==
  ASSUME EditingInvariant, [Next]_vars
  PROVE  Mapped
<1>1. CASE UNCHANGED vars
  BY <1>1 DEF vars, Same, Mapped
<1>2. ASSUME NEW c \in AllCallers,
             \/ WorkflowCreate(c) \/ WorkflowApplyMutation(c) \/ WorkflowStartRun(c)
             \/ CallFails(c) \/ LoadProjectWorkflow(c) \/ LoadMutationReceipt(c)
             \/ LoadAndApply(c) \/ LoadWorkflowToRun(c)
      PROVE  Mapped
  <2>1. UNCHANGED <<menu, rows, told>>
    BY <1>2 DEF WorkflowCreate, WorkflowApplyMutation, WorkflowStartRun, Issue, CallFails,
                LoadProjectWorkflow, LoadMutationReceipt, LoadAndApply, LoadWorkflowToRun, Refuse
  <2> QED BY <2>1, RefusedMaps DEF Mapped
<1>3. ASSUME NEW c \in AllCallers, CheckAndFreeze(c) PROVE Mapped
  BY <1>3, RefusedMaps DEF CheckAndFreeze, Mapped
<1> QED BY <1>1, <1>2, <1>3, LoadCreationReceiptMaps, CommitCreationMaps, CommitMutationMaps,
           AnswerMutationMaps, LoadAdmissionReceiptMaps, AdmitRunMaps, ReloadRunMaps
        DEF Next

LEMMA InitMaps ==
  ASSUME Init PROVE Promise!Init
<1>1. Line(receipts, workflow) = <<>>
  BY DEF Init, Line, NoDocument
<1>2. MadeBy(receipts, admissions, runs) = [r \in Requests |-> NoReceipt]
  BY EditingAssumption DEF Init, MadeBy, Requests
<1>3. Heard(told) = {}
  BY DEF Init, Heard
<1> QED BY <1>1, <1>2, <1>3, Mapping DEF Promise!Init, Promise!Unmade, NoReceipt, Requests, Heard

\* Calls, retries, conflicts and lost answers change nothing of what callers
\* can tell: one line of revisions, each made by one request from the one
\* before it, one plan for each admitted request, and answers that are what
\* the request did (commit_creation, commit_mutation, admit_run).
THEOREM EditingRefinesPromise == Spec => ImplementsPromise
<1>1. Init => Promise!Init
  BY InitMaps
<1>2. EditingInvariant /\ [Next]_vars => [Promise!Next]_(Promise!promise)
  BY StepMaps, SameMaps DEF Mapped
<1> QED BY <1>1, <1>2, EditingInvariantHolds, PTL DEF Spec, ImplementsPromise, Promise!Spec

----------------------------------------------------------------------------
(* What is upward of a node: the least set that takes nothing from outside. *)

Closed(b, S) == \A n \in S : SourcesOf(b, n) \subseteq S
Taken(b, S) == S \cup UNION {SourcesOf(b, n) : n \in S}
Growing(f, b, W) ==
  f = [found \in SUBSET W |->
         IF Taken(b, found) = found THEN found ELSE f[Taken(b, found)]]

LEMMA TakenFacts ==
  ASSUME NEW b, NEW S
  PROVE  /\ S \subseteq Taken(b, S)
         /\ Taken(b, S) = S <=> Closed(b, S)
         /\ \A U : Closed(b, U) /\ S \subseteq U => Taken(b, S) \subseteq U
BY DEF Taken, Closed

LEMMA GrowDefined ==
  ASSUME NEW b, NEW W, Closed(b, W)
  PROVE  \E f : Growing(f, b, W)
<1> DEFINE Hull(found) == {x \in W : \A S \in SUBSET W : found \subseteq S /\ Closed(b, S) => x \in S}
           f == [found \in SUBSET W |-> Hull(found)]
<1>1. ASSUME NEW found \in SUBSET W, Taken(b, found) = found PROVE Hull(found) = found
  BY <1>1, TakenFacts
<1>2. ASSUME NEW found \in SUBSET W
      PROVE  Taken(b, found) \in SUBSET W /\ Hull(found) = Hull(Taken(b, found))
  BY TakenFacts
<1> HIDE DEF Hull
<1>3. \A found \in SUBSET W :
        f[found] = IF Taken(b, found) = found THEN found ELSE f[Taken(b, found)]
  BY <1>1, <1>2
<1>4. f = [found \in SUBSET W |-> f[found]]
  OBVIOUS
<1> HIDE DEF f
<1>5. Growing(f, b, W)
  BY <1>3, <1>4 DEF Growing
<1> QED BY <1>5

\* It is closed, and part of everything closed that has the node.
LEMMA UpwardIs ==
  ASSUME NEW b, NEW W, IsFiniteSet(W), Closed(b, W), NEW s \in W
  PROVE  /\ s \in Upward(b, W, s) /\ Upward(b, W, s) \subseteq W /\ Closed(b, Upward(b, W, s))
         /\ \A S : s \in S /\ Closed(b, S) => Upward(b, W, s) \subseteq S
<1> DEFINE grow == CHOOSE f : Growing(f, b, W)
           Fine(found) == /\ found \subseteq grow[found] /\ grow[found] \subseteq W
                          /\ Closed(b, grow[found])
                          /\ \A S : found \subseteq S /\ Closed(b, S) => grow[found] \subseteq S
           bad == {rest \in SUBSET W : ~Fine(W \ rest)}
<1>1. Upward(b, W, s) = grow[{s}]
  BY DEF Upward, Growing, Taken
<1>2. Growing(grow, b, W)
  BY GrowDefined
<1> HIDE DEF grow
<1>3. \A found \in SUBSET W :
        grow[found] = IF Taken(b, found) = found THEN found ELSE grow[Taken(b, found)]
  BY <1>2 DEF Growing
<1>4. ASSUME NEW found \in SUBSET W, ~Fine(found)
      PROVE  /\ Taken(b, found) \in SUBSET W /\ found \subseteq Taken(b, found)
             /\ Taken(b, found) # found /\ ~Fine(Taken(b, found))
  <2>1. Taken(b, found) \in SUBSET W /\ found \subseteq Taken(b, found)
    BY TakenFacts
  <2>2. CASE Taken(b, found) = found
    <3>1. grow[found] = found /\ Closed(b, found)
      BY <1>3, <2>2, TakenFacts
    <3> QED BY <1>4, <3>1
  <2>3. CASE Taken(b, found) # found
    <3>1. grow[found] = grow[Taken(b, found)]
      BY <1>3, <2>3
    <3>2. \A S : found \subseteq S /\ Closed(b, S) => Taken(b, found) \subseteq S
      BY TakenFacts
    <3> QED BY <1>4, <2>1, <2>3, <3>1, <3>2
  <2> QED BY <2>2, <2>3
<1> HIDE DEF Fine
<1>5. bad = {}
  <2> SUFFICES ASSUME bad # {} PROVE FALSE
    OBVIOUS
  <2>1. bad \subseteq SUBSET W
    OBVIOUS
  <2> HIDE DEF bad
  <2>2. PICK rest \in bad : \A other \in bad : ~(other \subseteq rest /\ other # rest)
    BY <2>1, SmallestSubset
  <2>3. rest \in SUBSET W /\ ~Fine(W \ rest)
    BY DEF bad
  <2> DEFINE found == W \ rest
             more == Taken(b, found)
  <2>4. more \in SUBSET W /\ found \subseteq more /\ more # found /\ ~Fine(more)
    BY <1>4, <2>3
  <2>5. W \ more \subseteq rest /\ W \ more # rest /\ W \ (W \ more) = more
    BY <2>3, <2>4
  <2>6. W \ more \in bad
    BY <2>4, <2>5 DEF bad
  <2> QED BY <2>2, <2>5, <2>6
<1>6. Fine({s})
  <2>1. W \ {s} \in SUBSET W /\ W \ (W \ {s}) = {s}
    OBVIOUS
  <2> QED BY <1>5, <2>1
<1> QED BY <1>1, <1>6 DEF Fine

\* Two graphs that agree on what is upward of a node in one of them agree on
\* what is upward of it.
LEMMA SameUpward ==
  ASSUME NEW b, NEW W, IsFiniteSet(W), Closed(b, W),
         NEW c, NEW X, IsFiniteSet(X), Closed(c, X), NEW s \in W, s \in X,
         \A n \in Upward(b, W, s) : SourcesOf(c, n) = SourcesOf(b, n)
  PROVE  Upward(c, X, s) = Upward(b, W, s)
<1> DEFINE U == Upward(b, W, s)
           V == Upward(c, X, s)
<1>1. s \in U /\ Closed(b, U) /\ \A S : s \in S /\ Closed(b, S) => U \subseteq S
  BY UpwardIs
<1>2. s \in V /\ Closed(c, V) /\ \A S : s \in S /\ Closed(c, S) => V \subseteq S
  BY UpwardIs
<1> HIDE DEF U, V
<1>3. \A n \in U : SourcesOf(c, n) = SourcesOf(b, n)
  BY DEF U
<1>4. Closed(c, U)
  BY <1>1, <1>3 DEF Closed
<1>5. Closed(b, U \cap V)
  BY <1>1, <1>2, <1>3 DEF Closed
<1>6. V \subseteq U
  BY <1>1, <1>2, <1>4
<1>7. U \subseteq U \cap V
  BY <1>1, <1>2, <1>5
<1>8. U = V
  BY <1>6, <1>7
<1> QED BY <1>8 DEF U, V

----------------------------------------------------------------------------
(* The selected nodes of a scope, and their order.                         *)

LEMMA DocumentIsClosed ==
  ASSUME NEW d, Document(d)
  PROVE  Closed(d.bindings, NodeIds(d)) /\ IsFiniteSet(NodeIds(d)) /\ NodeIds(d) \subseteq Nat \ {0}
<1>1. ASSUME NEW t \in DOMAIN d.bindings, NEW i \in Items(d.bindings[t])
      PROVE  i.source \in NodeIds(d)
  BY DEF Document, DraftValid, BindingFits, ItemFits
<1>2. Closed(d.bindings, NodeIds(d))
  BY <1>1 DEF Closed, SourcesOf
<1> QED BY <1>2 DEF Document, Workable

LEMMA SelectedIs ==
  ASSUME NEW d, Document(d), NEW scope \in Scopes(d)
  PROVE  /\ SelectedNodes(d, scope) \subseteq NodeIds(d)
         /\ IsFiniteSet(SelectedNodes(d, scope))
         /\ Closed(d.bindings, SelectedNodes(d, scope))
         /\ scope \in SelectedNodes(d, scope) \cup {Whole}
<1>1. CASE scope = Whole
  BY <1>1, DocumentIsClosed DEF SelectedNodes
<1>2. CASE scope # Whole
  <2>1. scope \in NodeIds(d)
    BY <1>2 DEF Scopes
  <2>2. SelectedNodes(d, scope) = Upward(d.bindings, NodeIds(d), scope)
    BY <1>2 DEF SelectedNodes
  <2>3. SelectedNodes(d, scope) \subseteq NodeIds(d)
    BY <2>1, <2>2, DocumentIsClosed, UpwardIs
  <2> QED BY <2>1, <2>2, <2>3, DocumentIsClosed, UpwardIs, FS_Subset
<1> QED BY <1>1, <1>2

ArePlaced(f, d, selected, n) ==
  f = [i \in 0 .. n |-> IF i = 0 THEN <<>> ELSE Place(d, selected, f[i - 1])]

LEMMA PlacedDefined ==
  ASSUME NEW d, NEW selected, NEW n \in Nat
  PROVE  \E f : ArePlaced(f, d, selected, n)
<1> DEFINE Fits(f, k) == ArePlaced(f, d, selected, k)
           bad == {k \in Nat : ~\E f : Fits(f, k)}
<1> SUFFICES ASSUME bad # {} PROVE FALSE
  OBVIOUS
<1>1. PICK k \in bad : \A m \in bad : k <= m
  <2> HIDE DEF Fits
  <2>1. bad \subseteq Nat
    OBVIOUS
  <2> HIDE DEF bad
  <2> QED BY <2>1, LeastNumber
<1>2. k # 0
  <2>1. Fits([i \in 0 .. 0 |-> <<>>], 0)
    BY DEF ArePlaced
  <2> QED BY <2>1
<1>3. k \in Nat /\ k - 1 \in Nat /\ k - 1 < k
  BY <1>2
<1>4. k - 1 \notin bad
  <2> HIDE DEF bad
  <2> QED BY <1>1, <1>3
<1>5. PICK f : Fits(f, k - 1)
  BY <1>3, <1>4
<1> DEFINE g == [i \in 0 .. k |-> IF i = k THEN Place(d, selected, f[k - 1]) ELSE f[i]]
<1>6. Fits(g, k)
  <2>1. ASSUME NEW i \in 0 .. k
        PROVE  g[i] = IF i = 0 THEN <<>> ELSE Place(d, selected, g[i - 1])
    <3>1. CASE i = k
      BY <1>3, <3>1
    <3>2. CASE i # k
      <4>1. i \in 0 .. k - 1
        BY <1>3, <3>2
      <4>2. f[i] = IF i = 0 THEN <<>> ELSE Place(d, selected, f[i - 1])
        BY <1>5, <4>1 DEF ArePlaced
      <4>3. i # 0 => g[i - 1] = f[i - 1]
        BY <1>3, <4>1
      <4> QED BY <3>2, <4>2, <4>3
    <3> QED BY <3>1, <3>2
  <2>2. g = [i \in 0 .. k |-> g[i]]
    OBVIOUS
  <2> HIDE DEF g
  <2> QED BY <2>1, <2>2 DEF ArePlaced
<1>7. k \notin bad
  BY <1>6
<1> QED BY <1>1, <1>7

\* What is left of the selected nodes when the first j are placed.
Left(selected, s, j) == selected \ {s[k] : k \in 1 .. j}
\* The sequence places each time the least node that waits for none left.
Placing(d, selected, s) ==
  /\ s \in Seq(selected) /\ IsInjective(s)
  /\ \A j \in 1 .. Len(s) :
       LET ready == Ready(d, Left(selected, s, j - 1))
       IN s[j] \in ready /\ \A n \in ready : s[j] <= n

LEMMA PlaceOneMore ==
  ASSUME NEW d, NEW selected \in SUBSET Nat, NEW s, Placing(d, selected, s),
         Ready(d, selected \ ToSet(s)) # {}
  PROVE  /\ Placing(d, selected, Place(d, selected, s))
         /\ \E n \in selected \ ToSet(s) :
              selected \ ToSet(Place(d, selected, s)) = (selected \ ToSet(s)) \ {n}
<1> DEFINE ready == Ready(d, selected \ ToSet(s))
           n == CHOOSE n \in ready : \A m \in ready : n <= m
           next == Append(s, n)
<1>1. ready \subseteq selected \ ToSet(s) /\ ready \subseteq Nat /\ ready # {}
  BY DEF Ready
<1>2. Place(d, selected, s) = next
  BY <1>1 DEF Place, Ready
<1>3. n \in ready /\ \A m \in ready : n <= m
  <2> HIDE DEF ready
  <2> QED BY <1>1, LeastNumber
<1> HIDE DEF n, ready
<1>4. n \in selected /\ n \notin ToSet(s) /\ s \in Seq(selected) /\ Len(s) \in Nat
  BY <1>1, <1>3, LenProperties DEF Placing
<1>5. /\ next \in Seq(selected) /\ Len(next) = Len(s) + 1 /\ next[Len(s) + 1] = n
      /\ \A j \in 1 .. Len(s) : next[j] = s[j]
  BY <1>4, AppendProperties
<1> HIDE DEF next
<1>6. /\ DOMAIN s = 1 .. Len(s) /\ DOMAIN next = 1 .. Len(s) + 1
  BY <1>4, <1>5, LenProperties
<1>7. ToSet(s) = {s[j] : j \in 1 .. Len(s)} /\ ToSet(next) = ToSet(s) \cup {n}
  BY <1>4, <1>5, <1>6 DEF ToSet
<1>8. IsInjective(next)
  <2>1. ASSUME NEW i \in 1 .. Len(s) + 1, NEW j \in 1 .. Len(s) + 1, next[i] = next[j] PROVE i = j
    <3>1. CASE i \in 1 .. Len(s) /\ j \in 1 .. Len(s)
      BY <1>5, <1>6, <2>1, <3>1 DEF Placing, IsInjective
    <3>2. CASE i = Len(s) + 1 /\ j # Len(s) + 1
      BY <1>4, <1>5, <1>7, <2>1, <3>2
    <3>3. CASE j = Len(s) + 1 /\ i # Len(s) + 1
      BY <1>4, <1>5, <1>7, <2>1, <3>3
    <3> QED BY <1>4, <3>1, <3>2, <3>3
  <2> QED BY <1>6, <2>1 DEF IsInjective
<1>9. ASSUME NEW j \in 1 .. Len(s) + 1
      PROVE  LET waiting == Ready(d, Left(selected, next, j - 1))
             IN next[j] \in waiting /\ \A m \in waiting : next[j] <= m
  <2>1. CASE j = Len(s) + 1
    <3>1. Left(selected, next, j - 1) = selected \ ToSet(s)
      BY <1>4, <1>5, <1>7, <2>1 DEF Left
    <3> QED BY <1>3, <1>5, <2>1, <3>1 DEF ready
  <2>2. CASE j # Len(s) + 1
    <3>1. j \in 1 .. Len(s)
      BY <1>4, <2>2
    <3>2. Left(selected, next, j - 1) = Left(selected, s, j - 1)
      BY <1>4, <1>5, <3>1 DEF Left
    <3> QED BY <1>5, <3>1, <3>2 DEF Placing
  <2> QED BY <2>1, <2>2
<1>10. Placing(d, selected, next)
  BY <1>5, <1>8, <1>9 DEF Placing
<1> QED BY <1>2, <1>4, <1>7, <1>10

\* A set of an acyclic document's nodes is placed as a whole.
LEMMA OrderIs ==
  ASSUME NEW d, Document(d), NEW selected \in SUBSET NodeIds(d)
  PROVE  /\ Placing(d, selected, TopologicalOrder(d, selected))
         /\ ToSet(TopologicalOrder(d, selected)) = selected
<1> DEFINE size == Cardinality(selected)
           placed == CHOOSE f : ArePlaced(f, d, selected, size)
           Fine(i) == /\ Placing(d, selected, placed[i])
                      /\ Cardinality(selected \ ToSet(placed[i])) = size - i
           bad == {i \in 0 .. size : ~Fine(i)}
<1>1. selected \in SUBSET Nat /\ IsFiniteSet(selected) /\ size \in Nat
  BY DocumentIsClosed, FS_Subset, FS_CardinalityType
<1>2. TopologicalOrder(d, selected) = placed[size]
  BY DEF TopologicalOrder, ArePlaced
<1> HIDE DEF size
<1>3. ArePlaced(placed, d, selected, size)
  BY <1>1, PlacedDefined
<1> HIDE DEF placed
<1>4. \A i \in 0 .. size :
        placed[i] = IF i = 0 THEN <<>> ELSE Place(d, selected, placed[i - 1])
  BY <1>3 DEF ArePlaced
<1>5. Fine(0)
  <2>1. placed[0] = <<>>
    BY <1>1, <1>4
  <2>2. Placing(d, selected, <<>>)
    BY DEF Placing, IsInjective
  <2>3. ToSet(<<>>) = {}
    BY DEF ToSet
  <2>4. Cardinality(selected \ ToSet(placed[0])) = size
    <3>1. selected \ {} = selected
      OBVIOUS
    <3> QED BY <2>1, <2>3, <3>1 DEF size
  <2> QED BY <1>1, <2>1, <2>2, <2>4
<1>6. ASSUME NEW i \in 1 .. size, Fine(i - 1) PROVE Fine(i)
  <2> DEFINE left == selected \ ToSet(placed[i - 1])
  <2>1. left \in SUBSET NodeIds(d) /\ IsFiniteSet(left)
    BY <1>1, FS_Subset
  <2>2. Cardinality(left) # 0
    BY <1>1, <1>6
  <2>3. left # {}
    BY <2>2, FS_EmptySet
  <2>4. Ready(d, left) # {}
    <3> HIDE DEF left
    <3>1. \E n \in left : Sources(d, n) \cap left = {}
      BY <2>1, <2>3, NoCycles DEF Document, DraftValid, Workable
    <3> QED BY <3>1 DEF Ready
  <2>5. placed[i] = Place(d, selected, placed[i - 1])
    BY <1>1, <1>4
  <2>6. PICK n \in left : /\ Placing(d, selected, placed[i])
                          /\ selected \ ToSet(placed[i]) = left \ {n}
    BY <1>1, <1>6, <2>4, <2>5, PlaceOneMore
  <2>7. Cardinality(left \ {n}) = Cardinality(left) - 1
    BY <2>1, FS_RemoveElement
  <2> QED BY <1>1, <1>6, <2>6, <2>7
<1> HIDE DEF Fine
<1>7. bad = {}
  <2> SUFFICES ASSUME bad # {} PROVE FALSE
    OBVIOUS
  <2>1. bad \subseteq Nat
    OBVIOUS
  <2> HIDE DEF bad
  <2>2. PICK i \in bad : \A j \in bad : i <= j
    BY <2>1, LeastNumber
  <2>3. i \in 0 .. size /\ ~Fine(i)
    BY DEF bad
  <2>4. i # 0
    BY <1>5, <2>3
  <2>5. i \in 1 .. size /\ i - 1 \in 0 .. size
    BY <1>1, <2>3, <2>4
  <2>6. i - 1 \notin bad
    BY <2>2, <2>5
  <2> QED BY <1>6, <2>3, <2>5, <2>6 DEF bad
<1>8. Fine(size)
  BY <1>1, <1>7
<1>9. selected \ ToSet(placed[size]) = {}
  <2>1. IsFiniteSet(selected \ ToSet(placed[size]))
    BY <1>1, FS_Subset
  <2> QED BY <1>1, <1>8, <2>1, FS_EmptySet DEF Fine
<1>10. ToSet(placed[size]) \subseteq selected
  <2>1. placed[size] \in Seq(selected)
    BY <1>8 DEF Fine, Placing
  <2> QED BY <2>1, ElementOfSeq, LenProperties DEF ToSet
<1> QED BY <1>2, <1>8, <1>9, <1>10 DEF Fine

----------------------------------------------------------------------------
(* The frozen plan.                                                        *)

LEMMA BindingsAre ==
  ASSUME NEW d, NEW n, NEW t
  PROVE  /\ t \in DOMAIN BindingsOf(d, n) <=> t \in DOMAIN d.bindings /\ t[1] = n
         /\ t \in DOMAIN BindingsOf(d, n) => BindingsOf(d, n)[t] = d.bindings[t]
BY DEF BindingsOf, Restrict

LEMMA BindingSources ==
  ASSUME NEW d, NEW n
  PROVE  SourcesOf(BindingsOf(d, n), n) = Sources(d, n)
<1> DEFINE b == BindingsOf(d, n)
<1>1. {t \in DOMAIN b : t[1] = n} = {t \in DOMAIN d.bindings : t[1] = n}
  BY BindingsAre
<1>2. \A t \in DOMAIN b : b[t] = d.bindings[t]
  BY BindingsAre
<1> HIDE DEF b
<1>3. SourcesOf(b, n) = Sources(d, n)
  BY <1>1, <1>2 DEF Sources, SourcesOf
<1> QED BY <1>3 DEF b

LEMMA PlanFacts ==
  ASSUME NEW d, NEW scope
  PROVE  LET p == FreezePlan(d, scope)
             selected == SelectedNodes(d, scope)
         IN /\ p.revision = d.revision /\ p.scope = scope
            /\ p.order = TopologicalOrder(d, selected)
            /\ DOMAIN p.nodes = selected
            /\ \A n \in selected : p.nodes[n] = FrozenNode(d, n)
            /\ \A n \in selected : SourcesOf(p.nodes[n].bindings, n) = Sources(d, n)
            /\ \A n \in selected : SourcesOf(PlanBindings(p), n) = Sources(d, n)
<1> DEFINE p == FreezePlan(d, scope)
           selected == SelectedNodes(d, scope)
           B == PlanBindings(p)
<1>1. /\ p.revision = d.revision /\ p.scope = scope
      /\ p.order = TopologicalOrder(d, selected)
      /\ DOMAIN p.nodes = selected
      /\ \A n \in selected : p.nodes[n] = FrozenNode(d, n)
  BY DEF FreezePlan
<1> HIDE DEF p, selected
<1>3. /\ DOMAIN B = UNION {DOMAIN p.nodes[n].bindings : n \in DOMAIN p.nodes}
      /\ \A t \in DOMAIN B : B[t] = p.nodes[t[1]].bindings[t]
  BY DEF PlanBindings
<1> HIDE DEF B
<1>2. ASSUME NEW n \in selected PROVE p.nodes[n].bindings = BindingsOf(d, n)
  <2>1. FrozenNode(d, n).bindings = BindingsOf(d, n)
    BY DEF FrozenNode
  <2> QED BY <1>1, <2>1
<1>4. ASSUME NEW n \in selected PROVE SourcesOf(B, n) = Sources(d, n)
  <2> DEFINE here == {t \in DOMAIN d.bindings : t[1] = n}
  <2>1. ASSUME NEW t \in DOMAIN B, t[1] = n PROVE t \in here /\ B[t] = d.bindings[t]
    <3>1. PICK m \in selected : t \in DOMAIN p.nodes[m].bindings
      BY <1>1, <1>3
    <3>2. t \in DOMAIN BindingsOf(d, m)
      BY <1>2, <3>1
    <3>3. t \in DOMAIN d.bindings /\ t[1] = m
      BY <3>2, BindingsAre
    <3>4. p.nodes[n].bindings = BindingsOf(d, n) /\ t \in DOMAIN BindingsOf(d, n)
      BY <1>2, <2>1, <3>2, <3>3
    <3>5. BindingsOf(d, n)[t] = d.bindings[t]
      BY <3>4, BindingsAre
    <3> QED BY <1>3, <2>1, <3>3, <3>4, <3>5
  <2>2. ASSUME NEW t \in here PROVE t \in DOMAIN B
    <3>1. t \in DOMAIN BindingsOf(d, n)
      BY BindingsAre
    <3>2. t \in DOMAIN p.nodes[n].bindings
      BY <1>2, <3>1
    <3> QED BY <1>1, <1>3, <3>2
  <2>3. {t \in DOMAIN B : t[1] = n} = here
    BY <2>1, <2>2
  <2> QED BY <2>1, <2>3 DEF SourcesOf, Sources
<1>5. \A n \in selected : SourcesOf(p.nodes[n].bindings, n) = Sources(d, n)
  BY <1>2, BindingSources
<1> QED BY <1>1, <1>4, <1>5 DEF p, selected, B

\* What a plan needs for a node is what the document needs for it.
LEMMA PlanUpward ==
  ASSUME NEW d, Document(d), NEW scope \in Scopes(d), NEW n \in SelectedNodes(d, scope)
  PROVE  LET p == FreezePlan(d, scope)
         IN /\ IsFiniteSet(DOMAIN p.nodes) /\ Closed(PlanBindings(p), DOMAIN p.nodes)
            /\ n \in DOMAIN p.nodes
            /\ Upward(PlanBindings(p), DOMAIN p.nodes, n) = Upward(d.bindings, NodeIds(d), n)
<1> DEFINE p == FreezePlan(d, scope)
           selected == SelectedNodes(d, scope)
           B == PlanBindings(p)
<1>1. /\ DOMAIN p.nodes = selected
      /\ \A m \in selected : SourcesOf(B, m) = SourcesOf(d.bindings, m)
  BY PlanFacts DEF Sources
<1>2. /\ selected \subseteq NodeIds(d) /\ IsFiniteSet(selected) /\ Closed(d.bindings, selected)
  BY SelectedIs
<1> HIDE DEF p, selected, B
<1>3. Closed(B, selected)
  BY <1>1, <1>2 DEF Closed
<1>4. n \in selected
  BY DEF selected
<1>5. Upward(d.bindings, NodeIds(d), n) \subseteq selected
  BY <1>2, <1>4, DocumentIsClosed, UpwardIs
<1>6. Upward(B, selected, n) = Upward(d.bindings, NodeIds(d), n)
  <2>1. \A m \in Upward(d.bindings, NodeIds(d), n) : SourcesOf(B, m) = SourcesOf(d.bindings, m)
    BY <1>1, <1>5
  <2> QED BY <1>2, <1>3, <1>4, <2>1, DocumentIsClosed, SameUpward
<1> QED BY <1>1, <1>2, <1>3, <1>4, <1>6 DEF p, selected, B

\* WorkflowExecutionPlan::try_new accepts what freeze_plan makes of a document,
\* if it selects a node.
LEMMA FrozenPlansAreValid ==
  ASSUME NEW d, Document(d), NEW scope \in Scopes(d), SelectedNodes(d, scope) # {}
  PROVE  ValidPlan(FreezePlan(d, scope))
<1> DEFINE p == FreezePlan(d, scope)
           selected == SelectedNodes(d, scope)
           Needs(n) == SourcesOf(p.nodes[n].bindings, n)
           s == p.order
<1>1. /\ p.scope = scope /\ s = TopologicalOrder(d, selected) /\ DOMAIN p.nodes = selected
      /\ \A n \in selected : Needs(n) = Sources(d, n)
  BY PlanFacts
<1>2. /\ selected \in SUBSET NodeIds(d) /\ Closed(d.bindings, selected)
      /\ scope \in selected \cup {Whole}
  BY SelectedIs
<1>3. Placing(d, selected, s) /\ ToSet(s) = selected
  <2> HIDE DEF p, selected
  <2> QED BY <1>1, <1>2, OrderIs
<1>4. scope # Whole => Upward(PlanBindings(p), selected, scope) = selected
  <2> SUFFICES ASSUME scope # Whole PROVE Upward(PlanBindings(p), selected, scope) = selected
    OBVIOUS
  <2>1. selected = Upward(d.bindings, NodeIds(d), scope)
    BY DEF SelectedNodes
  <2>2. scope \in SelectedNodes(d, scope)
    BY <1>2
  <2> QED BY <1>1, <2>1, <2>2, PlanUpward
<1>5. selected # {}
  OBVIOUS
<1> HIDE DEF selected, s
<1>6. s # <<>>
  BY <1>3, <1>5 DEF ToSet
<1>7. s \in Seq(selected) /\ Len(s) \in Nat /\ DOMAIN s = 1 .. Len(s) /\ IsInjective(s)
  BY <1>3, LenProperties DEF Placing
<1>8. ASSUME NEW i \in DOMAIN s
      PROVE  LET left == {s[j] : j \in i .. Len(s)}
                 ready == {n \in left : Needs(n) \cap left = {}}
             IN /\ Needs(s[i]) \subseteq selected \ left
                /\ s[i] \in ready /\ \A n \in ready : s[i] <= n
  <2> DEFINE left == {s[j] : j \in i .. Len(s)}
  <2>1. left = Left(selected, s, i - 1)
    <3>1. selected = {s[j] : j \in 1 .. Len(s)}
      BY <1>3, <1>7 DEF ToSet
    <3>2. \A j, k \in 1 .. Len(s) : s[j] = s[k] => j = k
      BY <1>7 DEF IsInjective
    <3>3. i \in 1 .. Len(s)
      BY <1>7
    <3>4. ASSUME NEW n \in left PROVE n \in selected \ {s[k] : k \in 1 .. i - 1}
      <4>1. PICK j \in i .. Len(s) : n = s[j]
        OBVIOUS
      <4> QED BY <1>7, <3>1, <3>2, <3>3, <4>1
    <3>5. ASSUME NEW n \in selected \ {s[k] : k \in 1 .. i - 1} PROVE n \in left
      <4>1. PICK j \in 1 .. Len(s) : n = s[j]
        BY <3>1
      <4>2. j \in i .. Len(s)
        BY <1>7, <3>3, <3>5, <4>1
      <4> QED BY <4>1, <4>2
    <3> QED BY <3>4, <3>5 DEF Left
  <2> HIDE DEF left
  <2>2. left \subseteq selected
    BY <2>1 DEF Left
  <2>3. {n \in left : Needs(n) \cap left = {}} = Ready(d, left)
    BY <1>1, <2>2 DEF Ready
  <2>4. s[i] \in Ready(d, left) /\ \A n \in Ready(d, left) : s[i] <= n
    BY <1>3, <1>7, <2>1 DEF Placing
  <2>5. s[i] \in selected /\ Needs(s[i]) = Sources(d, s[i])
    BY <1>1, <2>2, <2>4 DEF Ready
  <2>6. Sources(d, s[i]) \subseteq selected
    BY <1>2, <2>5 DEF Closed, Sources
  <2>7. Sources(d, s[i]) \cap left = {}
    BY <2>4 DEF Ready
  <2>8. Needs(s[i]) \subseteq selected \ left
    BY <2>5, <2>6, <2>7
  <2> QED BY <2>3, <2>4, <2>8 DEF left
<1> QED BY <1>1, <1>2, <1>3, <1>4, <1>6, <1>7, <1>8 DEF ValidPlan, s

\* A plan frozen from a document without issues runs to its end.
LEMMA ReadyPlansRun ==
  ASSUME NEW d, Document(d), NEW scope \in Scopes(d), NEW outages,
         Issues(d, SelectedNodes(d, scope), outages) = {}, ValidPlan(FreezePlan(d, scope))
  PROVE  Runnable(FreezePlan(d, scope))
<1> DEFINE p == FreezePlan(d, scope)
           selected == SelectedNodes(d, scope)
<1>1. /\ DOMAIN p.nodes = selected /\ p.order = TopologicalOrder(d, selected)
      /\ \A n \in selected : p.nodes[n] = FrozenNode(d, n)
  BY PlanFacts
<1>2. selected \in SUBSET NodeIds(d)
  BY SelectedIs
<1>3. p.order \in Seq(selected)
  <2> HIDE DEF p, selected
  <2> QED BY <1>1, <1>2, OrderIs DEF Placing
<1>4. Issues(d, selected, outages) = {} /\ ValidPlan(p)
  BY Zenon
<1> HIDE DEF p, selected
<1> SUFFICES ASSUME NEW i \in DOMAIN p.order
             PROVE  LET n == p.order[i]
                        contract == Registry[p.nodes[n].contract]
                    IN /\ SourcesOf(p.nodes[n].bindings, n) \subseteq {p.order[j] : j \in 1 .. i - 1}
                       /\ \A k \in DOMAIN contract.inputs : contract.inputs[k].minimum > 0 =>
                            <<n, k>> \in DOMAIN p.nodes[n].bindings
                       /\ ProfileCompatible(p.nodes[n].contract, p.nodes[n].parameters)
  BY Zenon DEF Runnable, p
<1>5. PICK n \in selected : n = p.order[i]
  BY <1>3, ElementOfSeq, LenProperties
<1>6. i \in 1 .. Len(p.order) /\ Len(p.order) \in Nat
  BY <1>3, LenProperties
<1>7. SourcesOf(p.nodes[n].bindings, n) \subseteq {p.order[j] : j \in 1 .. i - 1}
  <2>1. SourcesOf(p.nodes[n].bindings, n) \subseteq
          ToSet(p.order) \ {p.order[j] : j \in i .. Len(p.order)}
    BY <1>4, <1>5 DEF ValidPlan
  <2>2. ToSet(p.order) = {p.order[j] : j \in 1 .. Len(p.order)}
    BY <1>3, LenProperties DEF ToSet
  <2>3. \A j \in 1 .. Len(p.order) : j \in 1 .. i - 1 \/ j \in i .. Len(p.order)
    BY <1>6
  <2> QED BY <2>1, <2>2, <2>3
<1> DEFINE ref == d.nodes[n].contract
           normal == Normalize(ref, d.nodes[n].parameters)
<1>8. /\ p.nodes[n].contract = ref /\ p.nodes[n].bindings = BindingsOf(d, n)
      /\ p.nodes[n].parameters \in normal
  <2>1. p.nodes[n] = FrozenNode(d, n)
    BY <1>1
  <2>2. normal # {}
    BY <1>2 DEF Document, DraftValid, ContractsResolve
  <2> HIDE DEF normal
  <2>3. (CHOOSE q \in normal : TRUE) \in normal
    BY <2>2
  <2>4. /\ FrozenNode(d, n).contract = ref /\ FrozenNode(d, n).bindings = BindingsOf(d, n)
        /\ FrozenNode(d, n).parameters = CHOOSE q \in normal : TRUE
    BY DEF FrozenNode, normal
  <2> QED BY <2>1, <2>3, <2>4
<1>9. /\ Registered(ref) /\ StructuralIssues(d, n) = {}
      /\ \A q \in normal : ProfileCompatible(ref, q)
  <2> DEFINE Own == IF ~Registered(ref) THEN {<<n, "unregistered">>}
                    ELSE StructuralIssues(d, n)
                           \cup {<<n, "profile">> : q \in {q \in normal :
                                   ~ProfileCompatible(ref, q) \/ ref \in outages}}
  <2>1. Own = {}
    BY <1>4 DEF Issues
  <2> QED BY <2>1
<1>10. ASSUME NEW k \in DOMAIN Registry[ref].inputs, Registry[ref].inputs[k].minimum > 0
       PROVE  <<n, k>> \in DOMAIN BindingsOf(d, n)
  <2>1. <<n, k>> \in DOMAIN d.bindings
    <3> SUFFICES ASSUME <<n, k>> \notin DOMAIN d.bindings PROVE FALSE
      OBVIOUS
    <3>1. <<n, k>> \in StructuralIssues(d, n)
      BY <1>10 DEF StructuralIssues, ContractOf
    <3> QED BY <1>9, <3>1, Zenon
  <2> QED BY <2>1, BindingsAre
<1> QED BY <1>5, <1>7, <1>8, <1>9, <1>10

----------------------------------------------------------------------------
(* Staleness.                                                              *)

LEMMA NormalizedOnce ==
  ASSUME NEW ref, NEW supplied, NEW q \in Normalize(ref, supplied)
  PROVE  (CHOOSE r \in Normalize(ref, supplied) : TRUE) = q
<1>1. PICK only : Normalize(ref, supplied) \subseteq {only}
  BY DEF Normalize
<1>2. (CHOOSE r \in Normalize(ref, supplied) : TRUE) \in Normalize(ref, supplied)
  OBVIOUS
<1> QED BY <1>1, <1>2

\* The nodes of p as d would freeze them now.
LEMMA NodeIsSame ==
  ASSUME NEW d, Document(d), NEW p, NEW n,
         p.nodes[n] = [contract |-> p.nodes[n].contract, parameters |-> p.nodes[n].parameters,
                       bindings |-> p.nodes[n].bindings]
  PROVE  ~NodeDiffers(d, p, n) <=> n \in NodeIds(d) /\ FrozenNode(d, n) = p.nodes[n]
<1> DEFINE normal == Normalize(d.nodes[n].contract, d.nodes[n].parameters)
           chosen == CHOOSE q \in normal : TRUE
<1>1. FrozenNode(d, n) = [contract |-> d.nodes[n].contract, parameters |-> chosen,
                          bindings |-> BindingsOf(d, n)]
  BY DEF FrozenNode
<1>2. n \in NodeIds(d) => Registered(d.nodes[n].contract) /\ normal # {}
  BY DEF Document, DraftValid, ContractsResolve
<1>3. \A q \in normal : chosen = q
  BY NormalizedOnce
<1> HIDE DEF normal
<1>4. normal # {} => chosen \in normal
  OBVIOUS
<1>5. NodeDiffers(d, p, n) <=>
        \/ n \notin NodeIds(d)
        \/ d.nodes[n].contract # p.nodes[n].contract
        \/ ~Registered(d.nodes[n].contract)
        \/ p.nodes[n].parameters \notin normal
        \/ BindingsOf(d, n) # p.nodes[n].bindings
  BY DEF NodeDiffers, normal
<1> HIDE DEF chosen
<1>6. ASSUME ~NodeDiffers(d, p, n) PROVE n \in NodeIds(d) /\ FrozenNode(d, n) = p.nodes[n]
  BY <1>1, <1>3, <1>5, <1>6
<1>7. ASSUME n \in NodeIds(d), FrozenNode(d, n) = p.nodes[n] PROVE ~NodeDiffers(d, p, n)
  <2>1. /\ d.nodes[n].contract = p.nodes[n].contract /\ chosen = p.nodes[n].parameters
        /\ BindingsOf(d, n) = p.nodes[n].bindings
    BY <1>1, <1>7
  <2> QED BY <1>2, <1>4, <1>5, <1>7, <2>1
<1> QED BY <1>6, <1>7

LEMMA StaleMeansDifferent ==
  ASSUME NEW d, Document(d), NEW scope \in Scopes(d), NEW n \in SelectedNodes(d, scope),
         NEW w, Document(w)
  PROVE  StaleIsDifferent(w, FreezePlan(d, scope), n)
<1> DEFINE p == FreezePlan(d, scope)
           B == PlanBindings(p)
           needed == Upward(B, DOMAIN p.nodes, n)
           now == Upward(w.bindings, NodeIds(w), n)
           next == FreezePlan(w, n)
<1>1. /\ DOMAIN p.nodes = SelectedNodes(d, scope)
      /\ \A m \in DOMAIN p.nodes : p.nodes[m] = FrozenNode(d, m)
      /\ \A m \in DOMAIN p.nodes : SourcesOf(p.nodes[m].bindings, m) = Sources(d, m)
      /\ \A m \in DOMAIN p.nodes : SourcesOf(B, m) = Sources(d, m)
  BY PlanFacts
<1>2. IsFiniteSet(DOMAIN p.nodes) /\ Closed(B, DOMAIN p.nodes) /\ n \in DOMAIN p.nodes
  BY PlanUpward
<1>3. Closed(w.bindings, NodeIds(w)) /\ IsFiniteSet(NodeIds(w)) /\ NodeIds(w) \subseteq Nat \ {0}
  BY DocumentIsClosed
<1>4. n # Whole
  BY SelectedIs, DocumentIsClosed DEF Whole
<1>5. /\ DOMAIN next.nodes = now
      /\ \A m \in now : next.nodes[m] = FrozenNode(w, m)
      /\ next.nodes = [m \in now |-> next.nodes[m]]
  <2>1. SelectedNodes(w, n) = now
    BY <1>4 DEF SelectedNodes
  <2> HIDE DEF now
  <2>2. next.nodes = [m \in now |-> FrozenNode(w, m)]
    BY <2>1 DEF FreezePlan
  <2> QED BY <2>2
<1>6. ASSUME NEW m \in DOMAIN p.nodes
      PROVE  /\ ~NodeDiffers(w, p, m) <=> m \in NodeIds(w) /\ FrozenNode(w, m) = p.nodes[m]
             /\ FrozenNode(w, m) = p.nodes[m] => SourcesOf(w.bindings, m) = SourcesOf(B, m)
  <2>1. p.nodes[m] = FrozenNode(d, m)
    BY <1>1
  <2>2. p.nodes[m] = [contract |-> p.nodes[m].contract, parameters |-> p.nodes[m].parameters,
                      bindings |-> p.nodes[m].bindings]
    <3> HIDE DEF p
    <3> QED BY <2>1 DEF FrozenNode
  <2>3. ~NodeDiffers(w, p, m) <=> m \in NodeIds(w) /\ FrozenNode(w, m) = p.nodes[m]
    <3> HIDE DEF p
    <3> QED BY <2>2, NodeIsSame
  <2>4. ASSUME FrozenNode(w, m) = p.nodes[m] PROVE SourcesOf(w.bindings, m) = SourcesOf(B, m)
    <3>1. FrozenNode(w, m).bindings = BindingsOf(w, m)
      BY DEF FrozenNode
    <3>2. SourcesOf(p.nodes[m].bindings, m) = Sources(w, m)
      <4> HIDE DEF p
      <4> QED BY <2>4, <3>1, BindingSources
    <3> QED BY <1>1, <3>2 DEF Sources
  <2> QED BY <2>3, <2>4
<1>7. needed \subseteq DOMAIN p.nodes /\ n \in needed
  <2> HIDE DEF p, B
  <2> QED BY <1>2, UpwardIs
<1> HIDE DEF p, B, next
<1>8. ASSUME n \in NodeIds(w), ~IsStale(w, p, n)
      PROVE  next.nodes = [m \in needed |-> p.nodes[m]]
  <2>1. \A m \in needed : ~NodeDiffers(w, p, m)
    BY <1>8 DEF IsStale, B
  <2>2. \A m \in needed : /\ FrozenNode(w, m) = p.nodes[m]
                          /\ SourcesOf(w.bindings, m) = SourcesOf(B, m)
    BY <1>6, <1>7, <2>1
  <2>3. now = needed
    BY <1>2, <1>3, <1>8, <2>2, SameUpward
  <2> QED BY <1>5, <2>2, <2>3
<1>9. ASSUME n \in NodeIds(w), next.nodes = [m \in needed |-> p.nodes[m]]
      PROVE  ~IsStale(w, p, n)
  <2>1. now \subseteq NodeIds(w)
    BY <1>3, <1>9, UpwardIs
  <2>2. DOMAIN next.nodes = needed /\ \A m \in needed : next.nodes[m] = p.nodes[m]
    <3> HIDE DEF needed
    <3> QED BY <1>9
  <2>3. \A m \in needed : m \in NodeIds(w) /\ FrozenNode(w, m) = p.nodes[m]
    <3> HIDE DEF needed, now
    <3> QED BY <1>5, <2>1, <2>2
  <2>4. \A m \in needed : ~NodeDiffers(w, p, m)
    <3> HIDE DEF needed
    <3> QED BY <1>6, <1>7, <2>3
  <2> QED BY <2>4 DEF IsStale, B
<1>10. n \notin NodeIds(w) => IsStale(w, p, n)
  BY <1>7 DEF IsStale, NodeDiffers, B
<1> QED BY <1>8, <1>9, <1>10 DEF StaleIsDifferent, p, B, next

----------------------------------------------------------------------------
(* What is admitted was ready; what is refused had no node.                *)

\* The plan was frozen from a committed document that was found to be ready.
Granted(rc, p) ==
  \E r \in Authors : Made(rc, r) /\
    \E scope \in Scopes(rc[r].result), outages \in Outages :
      /\ p = FreezePlan(rc[r].result, scope) /\ ValidPlan(p)
      /\ Issues(rc[r].result, SelectedNodes(rc[r].result, scope), outages) = {}
RefusedEmpty(rc, t) ==
  \E r \in Authors : Made(rc, r) /\ rc[r].result.revision = t.command.revision
                       /\ NodeIds(rc[r].result) = {}

PlansInvariant ==
  /\ \A run \in runs : Granted(receipts, run.plan)
  /\ \A c \in AllCallers : At(c, "admit", Starts) => Granted(receipts, call[c].plan)
  /\ \A t \in told : t.answer = PlanRefused => RefusedEmpty(receipts, t)

LEMMA GrantsKeep ==
  ASSUME NEW rc, NEW rc2, Kept(rc, rc2, Authors)
  PROVE  /\ \A p : Granted(rc, p) => Granted(rc2, p)
         /\ \A t : RefusedEmpty(rc, t) => RefusedEmpty(rc2, t)
<1>1. ASSUME NEW p, Granted(rc, p) PROVE Granted(rc2, p)
  <2>1. PICK r \in Authors : Made(rc, r) /\
          \E scope \in Scopes(rc[r].result), outages \in Outages :
            /\ p = FreezePlan(rc[r].result, scope) /\ ValidPlan(p)
            /\ Issues(rc[r].result, SelectedNodes(rc[r].result, scope), outages) = {}
    BY <1>1 DEF Granted
  <2>2. Made(rc2, r) /\ rc2[r] = rc[r]
    BY <2>1 DEF Kept
  <2> QED BY <2>1, <2>2 DEF Granted
<1>2. ASSUME NEW t, RefusedEmpty(rc, t) PROVE RefusedEmpty(rc2, t)
  BY <1>2 DEF RefusedEmpty, Kept
<1> QED BY <1>1, <1>2

LEMMA ReceiptsKeep ==
  ASSUME EditingInvariant, [Next]_vars
  PROVE  Kept(receipts, receipts', Authors)
<1>1. CASE receipts' = receipts
  BY <1>1 DEF Kept
<1>2. ASSUME NEW c \in AllCallers, CommitCreation(c) \/ CommitMutation(c), receipts' # receipts
      PROVE  Kept(receipts, receipts', Authors)
  <2>1. /\ ~Made(receipts, call[c].request)
        /\ receipts' = [receipts EXCEPT ![call[c].request] = Receipt(call[c].command, call[c].seen)]
    BY <1>2 DEF CommitCreation, CommitMutation, Made
  <2>2. \A r \in Authors : r # call[c].request => receipts'[r] = receipts[r]
    BY <2>1 DEF EditingInvariant, ReceiptsFit
  <2> QED BY <2>1, <2>2 DEF Kept, Made
<1>3. ASSUME NEW c \in AllCallers,
             \/ WorkflowCreate(c) \/ WorkflowApplyMutation(c) \/ WorkflowStartRun(c)
             \/ CallFails(c) \/ LoadCreationReceipt(c) \/ LoadProjectWorkflow(c)
             \/ LoadMutationReceipt(c) \/ LoadAndApply(c) \/ AnswerMutation(c)
             \/ LoadWorkflowToRun(c) \/ LoadAdmissionReceipt(c) \/ CheckAndFreeze(c)
             \/ AdmitRun(c) \/ ReloadRun(c)
      PROVE  receipts' = receipts
  BY <1>3 DEF WorkflowCreate, WorkflowApplyMutation, WorkflowStartRun, Issue, CallFails,
              LoadCreationReceipt, LoadProjectWorkflow, LoadMutationReceipt, LoadAndApply,
              AnswerMutation, LoadWorkflowToRun, LoadAdmissionReceipt, CheckAndFreeze, AdmitRun,
              ReloadRun, rows
<1> QED BY <1>1, <1>2, <1>3 DEF Next, vars

\* A step that admits no Run, refuses no plan and is not about to admit.
LEMMA QuietPlans ==
  ASSUME EditingInvariant, PlansInvariant, [Next]_vars, NEW c \in AllCallers,
         NEW k, call' = [call EXCEPT ![c] = k], k.pc # "admit", runs' = runs,
         \A t \in told' : t.answer = PlanRefused => t \in told
  PROVE  PlansInvariant'
<1>1. Kept(receipts, receipts', Authors)
  BY ReceiptsKeep
<1>2. \A run \in runs' : Granted(receipts', run.plan)
  BY <1>1, GrantsKeep DEF PlansInvariant
<1>3. ASSUME NEW b \in AllCallers, At(b, "admit", Starts)'
      PROVE  Granted(receipts', call'[b].plan)
  <2>1. call'[c] = k
    BY DEF EditingInvariant
  <2>2. b # c
    BY <1>3, <2>1 DEF At
  <2>3. call'[b] = call[b]
    BY <2>2 DEF EditingInvariant
  <2>4. Granted(receipts, call[b].plan)
    BY <1>3, <2>3 DEF PlansInvariant, At
  <2> QED BY <1>1, <2>3, <2>4, GrantsKeep
<1>4. ASSUME NEW t \in told', t.answer = PlanRefused PROVE RefusedEmpty(receipts', t)
  <2>1. t \in told
    BY <1>4
  <2> QED BY <1>1, <1>4, <2>1, GrantsKeep DEF PlansInvariant
<1> QED BY <1>2, <1>3, <1>4 DEF PlansInvariant

LEMMA AnswersStay ==
  ASSUME EditingInvariant, PlansInvariant, [Next]_vars, NEW c \in AllCallers, runs' = runs,
         Refuse(c) \/ \E answer : Answer(c, answer) /\ answer # PlanRefused
  PROVE  PlansInvariant'
<1>1. Idle.pc # "admit"
  BY DEF Idle
<1>2. CASE Refuse(c)
  BY <1>1, <1>2, QuietPlans DEF Refuse
<1>3. ASSUME NEW answer, Answer(c, answer), answer # PlanRefused PROVE PlansInvariant'
  <2>1. \A t \in told' : t.answer = PlanRefused => t \in told
    BY <1>3 DEF Answer
  <2> QED BY <1>1, <1>3, <2>1, QuietPlans DEF Answer
<1> QED BY <1>2, <1>3

LEMMA MovesStay ==
  ASSUME EditingInvariant, PlansInvariant, [Next]_vars, NEW c \in AllCallers, runs' = runs,
         told' = told, NEW k, call' = [call EXCEPT ![c] = k], k.pc # "admit"
  PROVE  PlansInvariant'
BY QuietPlans

LEMMA GoesStay ==
  ASSUME EditingInvariant, PlansInvariant, [Next]_vars, NEW c \in AllCallers, runs' = runs,
         told' = told, NEW pc, pc # "admit", Go(c, pc) \/ \E d : Holding(c, pc, d)
  PROVE  PlansInvariant'
<1>1. CASE Go(c, pc)
  <2>1. Moved(call[c], pc).pc # "admit"
    BY DEF Moved
  <2> QED BY <1>1, <2>1, CallForms, MovesStay
<1>2. ASSUME NEW d, Holding(c, pc, d) PROVE PlansInvariant'
  <2>1. Shown(call[c], pc, d).pc # "admit"
    BY DEF Shown
  <2> QED BY <1>2, <2>1, CallForms, MovesStay
<1> QED BY <1>1, <1>2

LEMMA ResultsAreNoRefusal ==
  ASSUME EditingInvariant
  PROVE  /\ \A r \in Authors : Made(receipts, r) => receipts[r].result # PlanRefused
         /\ \A r \in Starts : Made(admissions, r) => PlanOf(admissions[r].result) # PlanRefused
         /\ \A run \in runs : PlanOf(run.id) # PlanRefused
         /\ RunMissing # PlanRefused
<1>1. \A r \in Authors : Made(receipts, r) => receipts[r].result # PlanRefused
  BY RefusalsAreNone DEF EditingInvariant, ReceiptsFit
<1>2. ASSUME NEW run \in runs PROVE PlanOf(run.id) # PlanRefused
  <2>1. PlanIn(runs, run.id) = run.plan
    BY PlanIs DEF EditingInvariant
  <2>2. PlanOf(run.id) = PlanIn(runs, run.id)
    BY DEF PlanOf, RunRow, PlanIn
  <2> QED BY <2>1, <2>2 DEF EditingInvariant, AdmissionsFit
<1>3. ASSUME NEW r \in Starts, Made(admissions, r)
      PROVE  PlanOf(admissions[r].result) # PlanRefused
  <2>1. PICK run \in runs : run.id = admissions[r].result
    BY <1>3 DEF EditingInvariant, AdmissionsFit
  <2> QED BY <1>2, <2>1
<1>4. RunMissing # PlanRefused
  BY DEF RunMissing, PlanRefused
<1> QED BY <1>1, <1>2, <1>3, <1>4

LEMMA CheckAndFreezeGrants ==
  ASSUME EditingInvariant, PlansInvariant, [Next]_vars, NEW c \in AllCallers, CheckAndFreeze(c)
  PROVE  PlansInvariant'
<1>1. /\ SnapshotIn(receipts, call[c].seen)
      /\ call[c].seen.revision = call[c].command.revision
      /\ call[c].command.scope \in Scopes(call[c].seen)
      /\ call[c].request \in Starts
  BY OneCall DEF CheckAndFreeze, At, CallFits
<1>2. PICK r \in Authors : Made(receipts, r) /\ receipts[r].result = call[c].seen
  BY <1>1 DEF SnapshotIn
<1> DEFINE d == receipts[r].result
           scope == call[c].command.scope
           plan == FreezePlan(d, scope)
<1>3. Document(d) /\ scope \in Scopes(d)
  BY <1>1, <1>2 DEF EditingInvariant, ReceiptsFit
<1>4. UNCHANGED <<menu, workflow, receipts, admissions, runs>>
  BY DEF CheckAndFreeze, rows
<1>5. PICK outages \in Outages :
        \/ Refuse(c)
        \/ ~ValidPlan(plan) /\ Answer(c, PlanRefused)
        \/ /\ Issues(d, SelectedNodes(d, scope), outages) = {} /\ ValidPlan(plan)
           /\ call' = [call EXCEPT ![c].pc = "admit", ![c].plan = plan] /\ UNCHANGED told
  BY <1>2 DEF CheckAndFreeze
<1> HIDE DEF plan
<1>6. CASE Refuse(c)
  BY <1>4, <1>6, AnswersStay
<1>7. CASE ~ValidPlan(plan) /\ Answer(c, PlanRefused)
  <2>1. SelectedNodes(d, scope) = {}
    BY <1>3, <1>7, FrozenPlansAreValid DEF plan
  <2>2. NodeIds(d) = {}
    <3>1. scope = Whole
      BY <1>3, <2>1, SelectedIs
    <3> QED BY <2>1, <3>1 DEF SelectedNodes
  <2>3. d.revision = call[c].command.revision
    BY <1>1, <1>2
  <2>4. \A t \in told' : t.answer = PlanRefused => RefusedEmpty(receipts, t)
    BY <1>2, <1>7, <2>2, <2>3 DEF Answer, PlansInvariant, RefusedEmpty
  <2>5. \A b \in AllCallers : At(b, "admit", Starts)' => call'[b] = call[b]
    <3>1. call' = [call EXCEPT ![c] = Idle]
      BY <1>7 DEF Answer
    <3>2. call'[c] = Idle /\ \A b \in AllCallers : b # c => call'[b] = call[b]
      BY <3>1 DEF EditingInvariant
    <3> QED BY <3>2 DEF At, Idle
  <2> QED BY <1>4, <2>4, <2>5 DEF PlansInvariant, At
<1>8. CASE /\ Issues(d, SelectedNodes(d, scope), outages) = {} /\ ValidPlan(plan)
           /\ call' = [call EXCEPT ![c].pc = "admit", ![c].plan = plan] /\ UNCHANGED told
  <2>1. Granted(receipts, plan)
    BY <1>2, <1>3, <1>8 DEF Granted, plan
  <2>2. call' = [call EXCEPT ![c] = [[call[c] EXCEPT !.pc = "admit"] EXCEPT !.plan = plan]]
    BY <1>8 DEF EditingInvariant
  <2>3. /\ call[c] = [pc |-> call[c].pc, request |-> call[c].request, command |-> call[c].command,
                      seen |-> call[c].seen, plan |-> call[c].plan]
        /\ call = [b \in AllCallers |-> call[b]]
    BY OneCall DEF CallFits, EditingInvariant
  <2>4. call'[c].plan = plan /\ \A b \in AllCallers : b # c => call'[b] = call[b]
    BY <2>2, <2>3
  <2>5. \A b \in AllCallers : At(b, "admit", Starts)' => Granted(receipts, call'[b].plan)
    BY <2>1, <2>4 DEF PlansInvariant, At
  <2> QED BY <1>4, <1>8, <2>5 DEF PlansInvariant
<1> QED BY <1>5, <1>6, <1>7, <1>8

LEMMA AdmitRunGrants ==
  ASSUME EditingInvariant, PlansInvariant, [Next]_vars, NEW c \in AllCallers, AdmitRun(c)
  PROVE  PlansInvariant'
<1>1. CASE admissions[call[c].request] # NoReceipt
  <2>1. runs' = runs /\ told' = told /\ (Go(c, "reload") \/ Refuse(c))
    BY <1>1 DEF AdmitRun, Refuse
  <2> QED BY <2>1, GoesStay, AnswersStay
<1>2. CASE admissions[call[c].request] = NoReceipt
  <2>1. /\ runs' = runs \cup {[id |-> RunId(c), plan |-> call[c].plan]}
        /\ Go(c, "reload") /\ UNCHANGED <<receipts, told>>
    BY <1>2 DEF AdmitRun, InsertRun
  <2>2. Granted(receipts, call[c].plan)
    BY DEF AdmitRun, PlansInvariant
  <2>3. \A run \in runs' : Granted(receipts, run.plan)
    BY <2>1, <2>2 DEF PlansInvariant
  <2>4. call' = [call EXCEPT ![c] = Moved(call[c], "reload")]
    BY <2>1, CallForms
  <2>5. \A b \in AllCallers : At(b, "admit", Starts)' => b # c /\ call'[b] = call[b]
    BY <2>4 DEF EditingInvariant, At, Moved
  <2>6. \A b \in AllCallers : At(b, "admit", Starts)' => Granted(receipts, call'[b].plan)
    BY <2>5 DEF PlansInvariant, At
  <2> QED BY <2>1, <2>3, <2>6 DEF PlansInvariant
<1> QED BY <1>1, <1>2

LEMMA AnswersGrant ==
  ASSUME EditingInvariant, PlansInvariant, [Next]_vars, NEW c \in AllCallers,
         \/ LoadCreationReceipt(c) \/ CommitCreation(c) \/ AnswerMutation(c)
         \/ LoadAdmissionReceipt(c) \/ ReloadRun(c)
  PROVE  PlansInvariant'
<1>1. runs' = runs
  BY DEF LoadCreationReceipt, CommitCreation, AnswerMutation, LoadAdmissionReceipt, ReloadRun, rows
<1>2. CASE LoadCreationReceipt(c)
  <2>1. \/ Go(c, "load") /\ told' = told
        \/ Made(receipts, call[c].request) /\ Answer(c, receipts[call[c].request].result)
        \/ Refuse(c)
    BY <1>2 DEF LoadCreationReceipt, Made
  <2>2. call[c].request \in Authors
    BY <1>2 DEF LoadCreationReceipt, At, Authors
  <2> QED BY <1>1, <2>1, <2>2, GoesStay, AnswersStay, ResultsAreNoRefusal
<1>3. CASE CommitCreation(c)
  <2>1. \/ Made(receipts, call[c].request) /\ Answer(c, receipts[call[c].request].result)
        \/ Answer(c, call[c].seen)
        \/ Refuse(c)
    BY <1>3 DEF CommitCreation, Made
  <2>2. call[c].request \in Authors /\ At(c, "commit", Creations)
    BY <1>3 DEF CommitCreation, At, Authors
  <2>3. call[c].seen # PlanRefused
    BY <2>2, CreationIsFirst, RefusalsAreNone
  <2> QED BY <1>1, <2>1, <2>2, <2>3, AnswersStay, ResultsAreNoRefusal
<1>4. CASE AnswerMutation(c)
  <2>1. /\ call[c].request \in Authors
        /\ receipts[call[c].request] = Receipt(call[c].command, call[c].seen)
    BY <1>4, OneCall DEF AnswerMutation, At, CallFits, Authors
  <2>2. call[c].seen # PlanRefused
    BY <2>1, ReceiptIsOne, ResultsAreNoRefusal DEF Made
  <2> QED BY <1>1, <1>4, <2>2, AnswersStay DEF AnswerMutation
<1>5. CASE LoadAdmissionReceipt(c)
  <2>1. \/ Go(c, "readiness") /\ told' = told
        \/ /\ Made(admissions, call[c].request)
           /\ Answer(c, PlanOf(admissions[call[c].request].result))
        \/ Refuse(c)
    BY <1>5 DEF LoadAdmissionReceipt, Made
  <2>2. call[c].request \in Starts
    BY <1>5 DEF LoadAdmissionReceipt, At
  <2> QED BY <1>1, <2>1, <2>2, GoesStay, AnswersStay, ResultsAreNoRefusal
<1>6. CASE ReloadRun(c)
  <2>1. \/ \E run \in runs : Answer(c, PlanOf(run.id))
        \/ Answer(c, RunMissing)
    BY <1>6 DEF ReloadRun
  <2> QED BY <1>1, <2>1, AnswersStay, ResultsAreNoRefusal
<1> QED BY <1>2, <1>3, <1>4, <1>5, <1>6

LEMMA NextGrants ==
  ASSUME EditingInvariant, PlansInvariant, [Next]_vars
  PROVE  PlansInvariant'
<1>1. CASE UNCHANGED vars
  BY <1>1 DEF vars, PlansInvariant, At
<1>2. ASSUME NEW c \in AllCallers,
             WorkflowCreate(c) \/ WorkflowApplyMutation(c) \/ WorkflowStartRun(c)
      PROVE  PlansInvariant'
  <2>1. PICK r \in Requests : Issue(c, r, IF r \in Starts THEN "load" ELSE "receipt")
    BY <1>2, RequestKinds
       DEF WorkflowCreate, WorkflowApplyMutation, WorkflowStartRun, Requests
  <2>2. PICK k : call' = [call EXCEPT ![c] = k] /\ k.pc # "admit"
    BY <2>1 DEF Issue
  <2>3. runs' = runs /\ told' = told
    BY <2>1 DEF Issue, rows
  <2> QED BY <2>2, <2>3, MovesStay
<1>3. ASSUME NEW c \in AllCallers,
             \/ CallFails(c) \/ LoadProjectWorkflow(c) \/ LoadMutationReceipt(c)
             \/ LoadAndApply(c) \/ CommitMutation(c) \/ LoadWorkflowToRun(c)
      PROVE  PlansInvariant'
  <2>1. runs' = runs /\ told' = told
    BY <1>3 DEF CallFails, LoadProjectWorkflow, LoadMutationReceipt, LoadAndApply,
                CommitMutation, LoadWorkflowToRun, Refuse, rows
  <2>2. \/ Refuse(c)
        \/ \E pc \in {"load", "commit", "readiness", "receipt"} :
             Go(c, pc) \/ \E d : Holding(c, pc, d)
    BY <1>3 DEF CallFails, LoadProjectWorkflow, LoadMutationReceipt, LoadAndApply,
                CommitMutation, LoadWorkflowToRun
  <2> QED BY <2>1, <2>2, AnswersStay, GoesStay
<1> QED BY <1>1, <1>2, <1>3, AnswersGrant, CheckAndFreezeGrants, AdmitRunGrants DEF Next

\* What was admitted was frozen from a revision found to be ready, and a plan is
\* refused only of an empty document, although other calls edit the document
\* between the awaits (WorkflowStartRunUseCase).
THEOREM PlansInvariantHolds == Spec => [](EditingInvariant /\ PlansInvariant)
<1>1. Init => PlansInvariant
  BY DEF Init, PlansInvariant, At, Idle
<1>2. EditingInvariant /\ PlansInvariant /\ [Next]_vars => PlansInvariant'
  BY NextGrants
<1> QED BY <1>1, <1>2, EditingInvariantHolds, PTL DEF Spec

\* Every admitted plan can be executed to its end in its order, and none that
\* selects a node is refused by the plan's own check (WorkflowExecutionPlan::try_new).
THEOREM AdmittedPlansRun == Spec => []AdmittedPlansRunnable
<1>1. ASSUME EditingInvariant, PlansInvariant PROVE AdmittedPlansRunnable
  <2>1. ASSUME NEW run \in runs PROVE Runnable(run.plan)
    <3>1. PICK r \in Authors : Made(receipts, r) /\
            \E scope \in Scopes(receipts[r].result), outages \in Outages :
              /\ run.plan = FreezePlan(receipts[r].result, scope) /\ ValidPlan(run.plan)
              /\ Issues(receipts[r].result, SelectedNodes(receipts[r].result, scope), outages) = {}
      BY <1>1 DEF PlansInvariant, Granted
    <3>2. Document(receipts[r].result)
      BY <1>1, <3>1 DEF EditingInvariant, ReceiptsFit
    <3> QED BY <3>1, <3>2, ReadyPlansRun
  <2>2. ASSUME NEW t \in told, t.answer = PlanRefused
        PROVE  \E d \in Snapshots : d.revision = t.command.revision /\ NodeIds(d) = {}
    <3>1. PICK r \in Authors : /\ Made(receipts, r) /\ NodeIds(receipts[r].result) = {}
                               /\ receipts[r].result.revision = t.command.revision
      BY <1>1, <2>2 DEF PlansInvariant, RefusedEmpty
    <3>2. receipts[r].result \in Snapshots
      BY <1>1, <3>1 DEF Snapshots, Made, EditingInvariant, ReceiptsFit
    <3> QED BY <3>1, <3>2
  <2> QED BY <2>1, <2>2 DEF AdmittedPlansRunnable
<1> QED BY <1>1, PlansInvariantHolds, PTL

\* A Run's result is fresh exactly when running through its node now would
\* freeze the same work again, however the document was edited since
\* (WorkflowStaleResultPolicy).
THEOREM FreshIsReproducible == Spec => []FreshMeansReproducible
<1>1. ASSUME EditingInvariant, PlansInvariant PROVE FreshMeansReproducible
  <2> SUFFICES ASSUME NEW run \in runs, NEW n \in DOMAIN run.plan.nodes
               PROVE  StaleIsDifferent(workflow, run.plan, n)
    BY DEF FreshMeansReproducible
  <2>1. PICK r \in Authors : Made(receipts, r) /\
          \E scope \in Scopes(receipts[r].result) :
            run.plan = FreezePlan(receipts[r].result, scope)
    BY <1>1 DEF PlansInvariant, Granted
  <2>2. PICK scope \in Scopes(receipts[r].result) :
          run.plan = FreezePlan(receipts[r].result, scope)
    BY <2>1
  <2>3. Document(receipts[r].result) /\ ReceiptsFit(receipts, workflow)
        /\ receipts[r].result.revision <= workflow.revision
    BY <1>1, <2>1 DEF EditingInvariant, ReceiptsFit
  <2>4. Document(workflow)
    <3>1. workflow.revision # 0
      BY <2>3, RowIsOne DEF Document
    <3> QED BY <2>3, <3>1, RowIsOne
  <2>5. n \in SelectedNodes(receipts[r].result, scope)
    BY <2>2, PlanFacts
  <2> QED BY <2>2, <2>3, <2>4, <2>5, StaleMeansDifferent
<1> QED BY <1>1, PlansInvariantHolds, PTL
=============================================================================
