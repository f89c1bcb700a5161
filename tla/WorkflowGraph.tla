--------------------------- MODULE WorkflowGraph ----------------------------
(***************************************************************************)
(* The Workflow document: nodes and typed input bindings, the ten editing  *)
(* actions, the validity every stored document has, readiness, the plan a  *)
(* Run freezes, and staleness of a Run's result against the document.      *)
(*                                                                         *)
(* Pure functions.  An operation that may fail returns the set of its      *)
(* results: one, or none for an error.  Node identities are numbers, in    *)
(* the order the code sorts them.                                          *)
(***************************************************************************)
EXTENDS NodeCapability, SequencesExt

(* A document is [revision, updated, nodes, bindings].                     *)
(*   nodes:    id -> [contract, parameters, position]                      *)
(*   bindings: <<node, input>> -> [ordered, items]                         *)
(* An item is [id, source, output, role].                                  *)

EmptyDocument(created) ==
  [revision |-> 1, updated |-> created, nodes |-> <<>>, bindings |-> <<>>]

Items(b) == ToSet(b.items)
SourcesOf(bindings, n) ==
  UNION {{i.source : i \in Items(bindings[t])} : t \in {t \in DOMAIN bindings : t[1] = n}}
Sources(d, n) == SourcesOf(d.bindings, n)

Drop(f, k) == Restrict(f, DOMAIN f \ {k})
\* Replaces the items of a binding; an empty binding does not exist.
SetItems(d, target, items) ==
  [d EXCEPT !.bindings = IF items = <<>> THEN Drop(@, target)
                         ELSE Put(@, target, [ordered |-> TRUE, items |-> items])]

----------------------------------------------------------------------------
(* The ten actions.                                                        *)

AddNode(d, a) ==
  IF a.node \in DOMAIN d.nodes THEN {}
  ELSE {[d EXCEPT !.nodes = Put(@, a.node, a.as)]}

\* Bindings of the node go; so do the items other bindings take from it, and
\* the bindings that are left with none.
Remaining(b, n) ==
  LET Kept[i \in 0 .. Len(b.items)] ==
        IF i = 0 THEN <<>>
        ELSE IF b.items[i].source = n THEN Kept[i - 1] ELSE Append(Kept[i - 1], b.items[i])
  IN Kept[Len(b.items)]
RemoveNode(d, a) ==
  IF a.node \notin DOMAIN d.nodes THEN {}
  ELSE {[d EXCEPT
          !.nodes = Drop(@, a.node),
          !.bindings = [t \in {t \in DOMAIN @ : t[1] # a.node /\ Remaining(@[t], a.node) # <<>>} |->
             [@[t] EXCEPT !.items = Remaining(d.bindings[t], a.node)]]]}

ReplaceNodeParameters(d, a) ==
  IF a.node \notin DOMAIN d.nodes THEN {}
  ELSE {[d EXCEPT !.nodes[a.node].parameters = a.parameters]}

SelectNodeCapability(d, a) ==
  IF a.node \notin DOMAIN d.nodes THEN {}
  ELSE {[d EXCEPT !.nodes[a.node] =
          [contract |-> a.contract, parameters |-> a.parameters, position |-> @.position]]}

MoveNode(d, a) ==
  IF a.node \notin DOMAIN d.nodes THEN {}
  ELSE {[d EXCEPT !.nodes[a.node].position = a.position]}

BindSingleInput(d, a) ==
  IF a.target \in DOMAIN d.bindings THEN {}
  ELSE {[d EXCEPT !.bindings = Put(@, a.target, [ordered |-> FALSE, items |-> <<a.item>>])]}

InsertReferenceItem(d, a) ==
  LET bound == a.target \in DOMAIN d.bindings
      items == IF bound THEN d.bindings[a.target].items ELSE <<>>
  IN IF (bound /\ ~d.bindings[a.target].ordered) \/ a.index > Len(items) THEN {}
     ELSE {SetItems(d, a.target, InsertAt(items, a.index + 1, a.item))}

\* Where the item is, or nothing: the binding must be there and be ordered.
Position(d, target, item) ==
  IF target \notin DOMAIN d.bindings THEN {}
  ELSE {p \in DOMAIN d.bindings[target].items : d.bindings[target].items[p].id = item}
OrderedPosition(d, target, item) ==
  IF target \in DOMAIN d.bindings /\ d.bindings[target].ordered
  THEN Position(d, target, item) ELSE {}

MoveReferenceItem(d, a) ==
  {SetItems(d, a.target, InsertAt(RemoveAt(d.bindings[a.target].items, p), a.index + 1,
                                  d.bindings[a.target].items[p])) :
     p \in {p \in OrderedPosition(d, a.target, a.id) :
              a.index < Len(d.bindings[a.target].items)}}

RemoveInputItem(d, a) ==
  {SetItems(d, a.target, RemoveAt(d.bindings[a.target].items, p)) :
     p \in Position(d, a.target, a.id)}

SetInputItemRole(d, a) ==
  {[d EXCEPT !.bindings[a.target].items[p].role = a.role] :
     p \in OrderedPosition(d, a.target, a.id)}

ActionKinds ==
  {"AddNode", "RemoveNode", "ReplaceNodeParameters", "SelectNodeCapability", "MoveNode",
   "BindSingleInput", "InsertReferenceItem", "MoveReferenceItem", "RemoveInputItem",
   "SetInputItemRole"}
\* Identities of nodes are positive, for 0 is the scope of the whole Workflow.
IsAction(a) == a.kind \in ActionKinds /\ (a.kind = "AddNode" => a.node \in Nat \ {0})
ApplyAction(d, a) ==
  CASE a.kind = "AddNode" -> AddNode(d, a)
    [] a.kind = "RemoveNode" -> RemoveNode(d, a)
    [] a.kind = "ReplaceNodeParameters" -> ReplaceNodeParameters(d, a)
    [] a.kind = "SelectNodeCapability" -> SelectNodeCapability(d, a)
    [] a.kind = "MoveNode" -> MoveNode(d, a)
    [] a.kind = "BindSingleInput" -> BindSingleInput(d, a)
    [] a.kind = "InsertReferenceItem" -> InsertReferenceItem(d, a)
    [] a.kind = "MoveReferenceItem" -> MoveReferenceItem(d, a)
    [] a.kind = "RemoveInputItem" -> RemoveInputItem(d, a)
    [] a.kind = "SetInputItemRole" -> SetInputItemRole(d, a)

\* WorkflowApplyMutationCommand::try_new.
ActionLimit == 128
ValidActions(actions) ==
  /\ Len(actions) \in 1 .. ActionLimit
  /\ \A i \in DOMAIN actions :
       /\ actions[i].kind = "BindSingleInput" => actions[i].item.role = NoRole
       /\ actions[i].kind = "InsertReferenceItem" => actions[i].item.role # NoRole

----------------------------------------------------------------------------
(* Draft validity: WorkflowAggregate::try_restore.                         *)

NodeIds(d) == DOMAIN d.nodes
ContractOf(d, n) == Registry[d.nodes[n].contract]

\* Editing normalizes too: a node that lacks a required parameter is refused.
ContractsResolve(d) ==
  \A n \in NodeIds(d) :
    /\ Registered(d.nodes[n].contract)
    /\ Normalize(d.nodes[n].contract, d.nodes[n].parameters) # {}

ItemFits(d, target, item, input) ==
  /\ item.source # target[1] /\ item.source \in NodeIds(d)
  /\ item.output \in DOMAIN ContractOf(d, item.source).outputs
  /\ item.role \in DOMAIN input.accepts
  /\ ContractOf(d, item.source).outputs[item.output] \in input.accepts[item.role]

BindingFits(d, target) ==
  LET b == d.bindings[target]
      inputs == ContractOf(d, target[1]).inputs
      input == inputs[target[2]]
  IN /\ target[1] \in NodeIds(d) /\ target[2] \in DOMAIN inputs
     /\ b.ordered = input.ordered
     /\ Len(b.items) \in input.minimum .. input.maximum
     /\ \A i, j \in DOMAIN b.items : i # j =>
          <<b.items[i].source, b.items[i].output>> # <<b.items[j].source, b.items[j].output>>
     /\ \A i \in Items(b) : ItemFits(d, target, i, input)

\* Item identities are unique in the Workflow.
ItemsAreDistinct(d) ==
  \A t, u \in DOMAIN d.bindings :
    \A i \in DOMAIN d.bindings[t].items, j \in DOMAIN d.bindings[u].items :
      d.bindings[t].items[i].id = d.bindings[u].items[j].id => t = u /\ i = j

\* Mutant: only an edge from a node to itself is a cycle.
NoSelfEdge(d) == \A n \in NodeIds(d) : n \notin Sources(d, n)
\* reject_cycles: strip nodes that take nothing from those that are left.
RejectCycles(d) ==
  LET Visit[left \in SUBSET NodeIds(d)] ==
        LET ready == {n \in left : Sources(d, n) \cap left = {}}
        IN IF ready = {} THEN left ELSE Visit[left \ ready]
  IN Visit[NodeIds(d)] = {}

DraftValid(d) ==
  /\ ContractsResolve(d)
  /\ \A t \in DOMAIN d.bindings : BindingFits(d, t)
  /\ ItemsAreDistinct(d)
  /\ RejectCycles(d)

Larger(a, b) == IF a > b THEN a ELSE b

\* apply_mutation_command, once the base revision is found to be current.
Apply(d, actions, observed) ==
  LET Applied[i \in 0 .. Len(actions)] ==
        IF i = 0 THEN {d} ELSE UNION {ApplyAction(c, actions[i]) : c \in Applied[i - 1]}
      Next(c) == [revision |-> d.revision + 1, updated |-> Larger(observed, d.updated + 1),
                  nodes |-> c.nodes, bindings |-> c.bindings]
  IN {c \in {Next(c) : c \in Applied[Len(actions)]} : DraftValid(c)}

----------------------------------------------------------------------------
(* Readiness.                                                              *)

\* WorkflowReadinessPolicy::check.  A missing parameter is found here too,
\* though no stored document lacks one.
StructuralIssues(d, n) ==
  LET inputs == ContractOf(d, n).inputs
      Bound(k) == IF <<n, k>> \in DOMAIN d.bindings THEN Len(d.bindings[<<n, k>>].items) ELSE 0
  IN {<<n, k>> : k \in MissingParameters(d.nodes[n].contract, d.nodes[n].parameters)}
       \cup {<<n, k>> : k \in {k \in DOMAIN inputs : Bound(k) < inputs[k].minimum}}

\* Mutant: the providers are asked, the document is not.
OutagesOnly(d, selected, outages) ==
  {<<n, "profile">> : n \in {n \in selected : d.nodes[n].contract \in outages}}
\* check_readiness_for_nodes: outages are the contracts whose profile or Asset
\* is unavailable, or cannot be asked, at the moment.
Issues(d, selected, outages) ==
  UNION {IF ~Registered(d.nodes[n].contract) THEN {<<n, "unregistered">>}
         ELSE StructuralIssues(d, n)
                \cup {<<n, "profile">> : p \in
                       {p \in Normalize(d.nodes[n].contract, d.nodes[n].parameters) :
                          ~ProfileCompatible(d.nodes[n].contract, p)
                            \/ d.nodes[n].contract \in outages}} : n \in selected}

----------------------------------------------------------------------------
(* Run scope and the frozen plan.                                          *)

Whole == 0     \* otherwise the scope is ThroughNode: the node
Scopes(d) == NodeIds(d) \cup {Whole}

Upward(bindings, within, start) ==
  LET Grow[found \in SUBSET within] ==
        LET more == found \cup UNION {SourcesOf(bindings, n) : n \in found}
        IN IF more = found THEN found ELSE Grow[more]
  IN Grow[{start}]

\* selected_node_ids.
SelectedNodes(d, scope) ==
  IF scope = Whole THEN NodeIds(d) ELSE Upward(d.bindings, NodeIds(d), scope)

\* deterministic_topological_order: again and again, the least node that waits
\* for none that is left.
Place(d, selected, placed) ==
  LET left == selected \ ToSet(placed)
      ready == {n \in left : Sources(d, n) \cap left = {}}
  IN IF ready = {} THEN placed
     ELSE Append(placed, CHOOSE n \in ready : \A m \in ready : n <= m)
TopologicalOrder(d, selected) ==
  LET Placed[i \in 0 .. Cardinality(selected)] ==
        IF i = 0 THEN <<>> ELSE Place(d, selected, Placed[i - 1])
  IN Placed[Cardinality(selected)]

BindingsOf(d, n) == Restrict(d.bindings, {t \in DOMAIN d.bindings : t[1] = n})
FrozenNode(d, n) ==
  [contract |-> d.nodes[n].contract,
   parameters |-> CHOOSE p \in Normalize(d.nodes[n].contract, d.nodes[n].parameters) : TRUE,
   bindings |-> BindingsOf(d, n)]

FreezePlan(d, scope) ==
  LET selected == SelectedNodes(d, scope)
  IN [revision |-> d.revision, scope |-> scope, order |-> TopologicalOrder(d, selected),
      nodes |-> [n \in selected |-> FrozenNode(d, n)]]

PlanBindings(p) == [t \in UNION {DOMAIN p.nodes[n].bindings : n \in DOMAIN p.nodes} |->
                      p.nodes[t[1]].bindings[t]]

\* WorkflowExecutionPlan::try_new: its order is checked again, from the plan.
ValidPlan(p) ==
  LET planned == ToSet(p.order)
      Needs(n) == SourcesOf(p.nodes[n].bindings, n)
  IN /\ p.order # <<>>
     /\ IsInjective(p.order) /\ p.scope \in planned \cup {Whole}
     /\ \A i \in DOMAIN p.order :
          LET left == {p.order[j] : j \in i .. Len(p.order)}
              ready == {n \in left : Needs(n) \cap left = {}}
          IN /\ Needs(p.order[i]) \subseteq planned \ left
             /\ p.order[i] \in ready /\ \A n \in ready : p.order[i] <= n
     /\ p.scope # Whole => Upward(PlanBindings(p), planned, p.scope) = planned

----------------------------------------------------------------------------
(* Staleness of the result a Run has produced for a node.                  *)

NodeDiffers(d, p, n) ==
  \/ n \notin NodeIds(d)
  \/ d.nodes[n].contract # p.nodes[n].contract
  \/ ~Registered(d.nodes[n].contract)
  \/ p.nodes[n].parameters \notin Normalize(d.nodes[n].contract, d.nodes[n].parameters)
  \/ BindingsOf(d, n) # p.nodes[n].bindings

\* Mutant: only the node itself is compared.
NodeIsStale(d, p, n) == NodeDiffers(d, p, n)
IsStale(d, p, n) ==
  \E m \in Upward(PlanBindings(p), DOMAIN p.nodes, n) : NodeDiffers(d, p, m)
=============================================================================
