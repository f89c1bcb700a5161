--------------------------- MODULE EditorDocument ---------------------------
(***************************************************************************)
(* The Workflow as the window shows it, the edits a user makes to it, and  *)
(* the mutation actions that turn the accepted document into the draft.    *)
(*                                                                         *)
(* A draft is [nodes, inputs]: nodes as in a document, inputs a function   *)
(* from <<node, input>> to the <<source, output>> of its only edge.  The   *)
(* built-in contracts have no ordered references, and the editor refuses   *)
(* to save one.  The order of nodes and edges on the canvas is left out.   *)
(***************************************************************************)
EXTENDS WorkflowGraph

EmptyView == [nodes |-> <<>>, inputs |-> <<>>]

\* canonicalToEditorWorkflow, fromWorkflow and toWorkflow: what is shown of a document.
CanonicalToEditor(d) ==
  [nodes |-> d.nodes,
   inputs |-> [t \in DOMAIN d.bindings |->
                 <<d.bindings[t].items[1].source, d.bindings[t].items[1].output>>]]

\* What the canvas can hold: its edges are between its nodes, a node has the parameters
\* of its contract.
IsMap(f) == f = [k \in DOMAIN f |-> f[k]]
IsNode(node) ==
  /\ node = [contract |-> node.contract, parameters |-> node.parameters,
             position |-> node.position]
  /\ IsMap(node.parameters)
HasItsParameters(node) ==
  Registered(node.contract) =>
    DOMAIN node.parameters \subseteq DOMAIN Registry[node.contract].parameters
WellFormed(v) ==
  /\ v = [nodes |-> v.nodes, inputs |-> v.inputs]
  /\ IsMap(v.nodes) /\ IsFiniteSet(DOMAIN v.nodes)
  /\ IsMap(v.inputs) /\ IsFiniteSet(DOMAIN v.inputs)
  /\ \A n \in DOMAIN v.nodes : IsNode(v.nodes[n]) /\ HasItsParameters(v.nodes[n])
  /\ \A t \in DOMAIN v.inputs :
       /\ v.inputs[t] = <<v.inputs[t][1], v.inputs[t][2]>>
       /\ {t[1], v.inputs[t][1]} \subseteq DOMAIN v.nodes

\* A document that the window can show: one item for an input, of an identity that was
\* not drawn for a later revision.
IsBinding(b, revision) ==
  /\ b = [ordered |-> b.ordered, items |-> <<b.items[1]>>]
  /\ b.items[1].id[1] \in Nat => b.items[1].id[1] < revision
Tidy(d, revision) ==
  /\ d = [revision |-> d.revision, updated |-> d.updated, nodes |-> d.nodes,
          bindings |-> d.bindings]
  /\ IsMap(d.nodes) /\ IsFiniteSet(DOMAIN d.nodes)
  /\ IsMap(d.bindings) /\ IsFiniteSet(DOMAIN d.bindings)
  /\ \A n \in DOMAIN d.nodes : IsNode(d.nodes[n])
  /\ \A t \in DOMAIN d.bindings : IsBinding(d.bindings[t], revision)
\* The actions there are for single inputs; an item has an identity of its own.
SingleInputKinds ==
  {"AddNode", "RemoveNode", "ReplaceNodeParameters", "SelectNodeCapability", "MoveNode",
   "BindSingleInput", "RemoveInputItem"}
IsChange(a, revision) ==
  /\ a.kind \in SingleInputKinds
  /\ a.kind = "AddNode" => IsNode(a.as)
  /\ a.kind \in {"ReplaceNodeParameters", "SelectNodeCapability"} => IsMap(a.parameters)
  /\ a.kind = "BindSingleInput" /\ a.item.id[1] \in Nat => a.item.id[1] < revision
Showable(d) ==
  d.revision \in Nat \ {0} /\ Tidy(d, d.revision) /\ WellFormed(CanonicalToEditor(d))

----------------------------------------------------------------------------
(* Edits.                                                                  *)

SetParam(v, n, key, value) == [v EXCEPT !.nodes[n].parameters = Put(@, key, value)]
AddToCanvas(v, n, node) == [v EXCEPT !.nodes = Put(@, n, node)]
DragNode(v, n, position) == [v EXCEPT !.nodes[n].position = position]

\* deleteNode: the edges of the node go with it.
DeleteNode(v, n) ==
  [nodes |-> Drop(v.nodes, n),
   inputs |-> Restrict(v.inputs, {t \in DOMAIN v.inputs : t[1] # n /\ v.inputs[t][1] # n})]
DeleteEdge(v, target) == [v EXCEPT !.inputs = Drop(@, target)]

\* isValidConnection: compatible ports, no self-loop, no cycle.
ClosesCycle(v, source, target) ==
  LET Reached[found \in SUBSET DOMAIN v.nodes] ==
        LET more == found \cup {t[1] : t \in {t \in DOMAIN v.inputs : v.inputs[t][1] \in found}}
        IN IF more = found THEN found ELSE Reached[more]
  IN source \in Reached[{target}]
CanConnectPorts(output, input) ==
  \E role \in DOMAIN input.accepts : output \in input.accepts[role]
IsValidConnection(v, source, output, target) ==
  /\ source # target[1] /\ {source, target[1]} \subseteq DOMAIN v.nodes
  /\ ~ClosesCycle(v, source, target[1])
  /\ output \in DOMAIN ContractOf(v, source).outputs
  /\ target[2] \in DOMAIN ContractOf(v, target[1]).inputs
  /\ CanConnectPorts(ContractOf(v, source).outputs[output],
                     ContractOf(v, target[1]).inputs[target[2]])
\* upsertIncomingEdge: a new edge takes the place of the one the input has.
Connect(v, source, output, target) ==
  IF IsValidConnection(v, source, output, target)
  THEN [v EXCEPT !.inputs = Put(@, target, <<source, output>>)] ELSE v

\* The edits of the canvas, the library and the inspector.
Edited(v, e) ==
  CASE e.kind = "param" -> SetParam(v, e.node, e.key, e.value)
    [] e.kind = "add" -> AddToCanvas(v, e.node, e.as)
    [] e.kind = "drag" -> DragNode(v, e.node, e.position)
    [] e.kind = "delete" -> DeleteNode(v, e.node)
    [] e.kind = "unlink" -> DeleteEdge(v, e.target)
    [] e.kind = "connect" -> Connect(v, e.source, e.output, e.target)
\* A node comes from the library, with parameters of its contract.
EditKinds == {"param", "add", "drag", "delete", "unlink", "connect"}
IsEdit(e) == e.kind \in EditKinds /\ (e.kind = "add" => IsNode(e.as) /\ HasItsParameters(e.as))
Applicable(v, e) ==
  CASE e.kind = "param" ->      \* the Inspector has a field for what the contract declares
         /\ e.node \in DOMAIN v.nodes /\ Registered(v.nodes[e.node].contract)
         /\ e.key \in DOMAIN ContractOf(v, e.node).parameters
    [] e.kind \in {"drag", "delete"} -> e.node \in DOMAIN v.nodes
    [] e.kind = "add" -> e.node \notin DOMAIN v.nodes
    [] e.kind = "unlink" -> e.target \in DOMAIN v.inputs
    [] e.kind = "connect" -> TRUE

----------------------------------------------------------------------------
(* The difference between a document and a draft, as mutation actions.     *)

\* A value the serializer cannot type, such as the object the Inspector makes of the
\* Asset that is picked: an Asset's identity should be text.
IllTyped == "ill_typed"

\* parameterEntries keeps what the contract declares and throws for what it cannot type.
Declared(node) ==
  Restrict(node.parameters, DOMAIN node.parameters \cap DOMAIN Registry[node.contract].parameters)

Throws(node) ==
  \/ ~Registered(node.contract)
  \/ \E k \in DOMAIN Declared(node) : Declared(node)[k] = IllTyped

\* Entries are compared in order: the contract has the profile first, the document its
\* keys in order, so two equal sets with another parameter beside the profile differ.
SameEntries(old, new) ==
  old = new /\ ~(ProfileKey \in DOMAIN new /\ Cardinality(DOMAIN new) > 1)

NodeActions(base, v, n) ==
  LET node == v.nodes[n]
      old == base.nodes[n]
      entries == Declared(node)
      Unless(same, action) == IF same THEN <<>> ELSE <<action>>
  IN IF n \notin DOMAIN base.nodes
     THEN <<[kind |-> "AddNode", node |-> n, as |-> [node EXCEPT !.parameters = entries]]>>
     ELSE (IF old.contract # node.contract
           THEN <<[kind |-> "SelectNodeCapability", node |-> n, contract |-> node.contract,
                   parameters |-> entries]>>
           ELSE Unless(SameEntries(old.parameters, entries),
                       [kind |-> "ReplaceNodeParameters", node |-> n, parameters |-> entries]))
          \o Unless(old.position = node.position,
                    [kind |-> "MoveNode", node |-> n, position |-> node.position])

\* Mutant: an input that has lost its edge is left alone.
KeptBindings(base, v, t) ==
  IF t \in DOMAIN base.bindings \/ v.inputs[t][1] \notin DOMAIN v.nodes THEN <<>>
  ELSE <<[kind |-> "BindSingleInput", target |-> t,
          item |-> [id |-> <<base.revision, t>>, source |-> v.inputs[t][1],
                    output |-> v.inputs[t][2], role |-> NoRole]]>>

\* An input whose source has changed: its items are removed, whatever became of their
\* sources, and the new source is bound as an item with an identity of its own.
BindingActions(base, v, t) ==
  LET removed == [i \in DOMAIN base.bindings[t].items |->
                    [kind |-> "RemoveInputItem", target |-> t,
                     id |-> base.bindings[t].items[i].id]]
      bound == <<[kind |-> "BindSingleInput", target |-> t,
                  item |-> [id |-> <<base.revision, t>>, source |-> v.inputs[t][1],
                            output |-> v.inputs[t][2], role |-> NoRole]]>>
      Shown(inputs) == IF t \in DOMAIN inputs THEN <<inputs[t]>> ELSE <<>>
  IN IF Shown(CanonicalToEditor(base).inputs) = Shown(v.inputs) THEN <<>>
     ELSE (IF t \in DOMAIN base.bindings THEN removed ELSE <<>>)
            \o (IF t \in DOMAIN v.inputs /\ v.inputs[t][1] \in DOMAIN v.nodes
                THEN bound ELSE <<>>)

\* editorMutationActions: nothing when it throws.
EditorMutationActions(base, v) ==
  LET TargetsOf(n) == SetToSeq({t \in DOMAIN base.bindings \cup DOMAIN v.inputs : t[1] = n})
      nodes == SetToSeq(DOMAIN v.nodes)
      gone == SetToSeq(DOMAIN base.nodes \ DOMAIN v.nodes)
      removals == [i \in DOMAIN gone |-> [kind |-> "RemoveNode", node |-> gone[i]]]
      Bindings(n) == FlattenSeq([i \in DOMAIN TargetsOf(n) |->
                                   BindingActions(base, v, TargetsOf(n)[i])])
  IN IF \E n \in DOMAIN v.nodes : Throws(v.nodes[n]) THEN {}
     ELSE {removals \o FlattenSeq([i \in DOMAIN nodes |-> NodeActions(base, v, nodes[i])])
             \o FlattenSeq([i \in DOMAIN nodes |-> Bindings(nodes[i])])}
=============================================================================
