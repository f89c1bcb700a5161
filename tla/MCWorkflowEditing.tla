------------------------- MODULE MCWorkflowEditing -------------------------
(* Scenarios of Workflow editing, for TLC. *)
EXTENDS WorkflowEditing

\* A contract with ordered references, as the engine's tests declare them; none
\* of the built-in ones has any.
Collage == Contract(None, "references" :>
             OrderedReferences(1, 2, "subject" :> {"Image"} @@ "style" :> {"Image", "Video"}),
             "image" :> "Image")

Contracts == "collage" :> Collage @@ BuiltIn

Add(n, contract, parameters) ==
  [kind |-> "AddNode", node |-> n,
   as |-> [contract |-> contract, parameters |-> parameters, position |-> "home"]]
Delete(n) == [kind |-> "RemoveNode", node |-> n]
Replace(n, parameters) ==
  [kind |-> "ReplaceNodeParameters", node |-> n, parameters |-> parameters]
Select(n, contract, parameters) ==
  [kind |-> "SelectNodeCapability", node |-> n, contract |-> contract, parameters |-> parameters]
Move(n) == [kind |-> "MoveNode", node |-> n, position |-> "away"]
Bind(n, input, id, source, output) ==
  [kind |-> "BindSingleInput", target |-> <<n, input>>,
   item |-> [id |-> id, source |-> source, output |-> output, role |-> NoRole]]
Insert(n, id, source, role, index) ==
  [kind |-> "InsertReferenceItem", target |-> <<n, "references">>, index |-> index,
   item |-> [id |-> id, source |-> source, output |-> "image", role |-> role]]
Reorder(n, id, index) ==
  [kind |-> "MoveReferenceItem", target |-> <<n, "references">>, id |-> id, index |-> index]
Unbind(n, input, id) == [kind |-> "RemoveInputItem", target |-> <<n, input>>, id |-> id]
Role(n, id, role) ==
  [kind |-> "SetInputItemRole", target |-> <<n, "references">>, id |-> id, role |-> role]

Literal(n) == Add(n, "text.provide_literal", "text" :> "text")
Reader(n) == Add(n, "image.read_asset", "asset_id" :> "asset")
Image(n) == Add(n, "image.generate_from_text", ProfileKey :> "image.high_quality_general")
Video(n) == Add(n, "video.generate_from_image", ProfileKey :> "video.cinematic_image_animation")

\* An image (1) of a text (2), and a video (3) of the image.
Film == <<Literal(2), Image(1), Video(3), Bind(1, "prompt", 1, 2, "text"),
          Bind(3, "image", 2, 1, "image")>>
\* Two images (2, 3) for a collage (1).
Board == <<Reader(2), Reader(3), Add(1, "collage", None), Insert(1, 1, 2, "subject", 0),
           Insert(1, 2, 3, "style", 0)>>

Mutation(base, actions) == [base |-> base, actions |-> actions]
Start(revision, scope) == [revision |-> revision, scope |-> scope]
Create == [create |-> "workflow"]

FilmEdits ==
  {<<Replace(2, None)>>,                                  \* refused: required
   <<Replace(1, ProfileKey :> "retired")>>,
   <<Replace(1, ProfileKey :> "image.high_quality_general" @@ "aspect_ratio" :> "square")>>,  \* as before
   <<Replace(3, ProfileKey :> "video.cinematic_image_animation" @@ "duration_seconds" :> 10)>>,
   <<Move(2)>>,
   <<Delete(2)>>,                                         \* 1 lacks its prompt
   <<Delete(1), Reader(1), Bind(3, "image", 5, 1, "image")>>,
   <<Unbind(3, "image", 2)>>,
   <<Select(2, "image.read_asset", "asset_id" :> "asset")>>, \* refused: type
   <<Bind(3, "prompt", 1, 2, "text")>>,                   \* refused: item identity
   <<Bind(3, "prompt", 3, 2, "text")>>}
BoardEdits ==
  {<<Add(4, "collage", None), Insert(4, 3, 1, "subject", 0), Delete(3),
     Insert(1, 4, 4, "style", 1)>>,                       \* refused: cycle
   <<Add(4, "collage", None), Insert(4, 3, 1, "subject", 0)>>,
   <<Reorder(1, 1, 0)>>, <<Role(1, 2, "subject")>>, <<Unbind(1, "references", 2)>>,
   <<Delete(2), Delete(3)>>,
   <<Select(2, "text.provide_literal", "text" :> "text")>>} \* refused: type

Edits3 == {"edit", "edit2", "edit3"}
Nothing == [r \in {"create", "create2", "start", "start2"} \cup Edits3 |-> {}]

\* One caller authors a document, runs it, and changes it again.
Authoring(first, changes, later, scopes) ==
  [Nothing EXCEPT !["create"] = {Create},
                  !["edit"] = {Mutation(1, first)},
                  !["edit2"] = {Mutation(2, a) : a \in changes},
                  !["edit3"] = {Mutation(3, a) : a \in later},
                  !["start"] = {Start(2, s) : s \in scopes},
                  !["start2"] = {Start(3, Whole)}]

\* Two callers create, edit and start the same things at the same time.
Small(n) == <<Literal(n)>>
Conflict ==
  [Nothing EXCEPT !["create"] = {Create}, !["create2"] = {Create},
                  !["edit"] = {Mutation(1, Small(1)), Mutation(1, Small(2))},
                  !["edit2"] = {Mutation(1, Small(3)), Mutation(2, Small(3))},
                  !["start"] = {Start(1, Whole), Start(2, Whole)}]

FilmMenu == Authoring(Film, FilmEdits, {<<Delete(1)>>}, {1, 3})
BoardMenu == Authoring(Board, BoardEdits, {<<Reorder(1, 1, 0)>>}, {Whole, 1})
Scenarios == {FilmMenu, BoardMenu, Conflict}
CallersOf == [m \in Scenarios |-> IF m = Conflict THEN {"a", "b"} ELSE {"a"}]
AnyOutage == {{}, {"image.generate_from_text"}}
=============================================================================
