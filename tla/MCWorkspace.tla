---------------------------- MODULE MCWorkspace -----------------------------
(* Scenarios of the workspace, for TLC. *)
EXTENDS Workspace

\* A text (1) for an image (2).
Literal(text) == [contract |-> "text.provide_literal", parameters |-> "text" :> text,
                  position |-> "home"]
Image == [contract |-> "image.generate_from_text",
          parameters |-> ProfileKey :> "image.high_quality_general", position |-> "home"]
Film == [revision |-> 2, updated |-> 2, nodes |-> <<Literal("text"), Image>>,
         bindings |-> <<2, "prompt">> :> [ordered |-> FALSE, items |->
           <<[id |-> <<1, "prompt">>, source |-> 1, output |-> "text", role |-> NoRole]>>]]

Text(n, value) == [kind |-> "param", node |-> n, key |-> "text", value |-> value]
Library(n) == [kind |-> "add", node |-> n, as |-> Literal("text")]
Reader(n) == [kind |-> "add", node |-> n, as |->
  [contract |-> "image.read_asset", parameters |-> "asset_id" :> "asset", position |-> "home"]]
Pick(n) == [kind |-> "param", node |-> n, key |-> "asset_id", value |-> IllTyped]
Drag(n) == [kind |-> "drag", node |-> n, position |-> "away"]
Delete(n) == [kind |-> "delete", node |-> n]
Unlink == [kind |-> "unlink", target |-> <<2, "prompt">>]
Link(source) == [kind |-> "connect", source |-> source, output |-> "text", target |-> <<2, "prompt">>]

\* Projects 1 and 2 are there, 1 has the film.
Receipt(n) == [command |-> [op |-> "Create", name |-> "a"], outcome |-> Created(n, "a", 1)]
Two == "p1" :> Receipt(1) @@ "p2" :> Receipt(2)
Workflows == [p \in ProjectIds |-> IF p = 1 THEN <<[document |-> Film, by |-> "earlier"]>>
                                   ELSE <<>>]
Quiet == [committed |-> Two, workflows |-> Workflows, callers |-> {}, edits |-> {}, most |-> 0,
          waits |-> {}, opens |-> {}, assistant |-> {}, outages |-> 0,
          patient |-> TRUE]

\* One draft after another, and a Run of them.
Writing == [Quiet EXCEPT !.edits = {Text(1, "other"), Text(1, "bad"), Drag(2), Reader(3), Pick(3)},
                         !.most = 3, !.waits = {"open", "run"}, !.opens = {1}]
Linking == [Quiet EXCEPT !.edits = {Delete(1), Unlink, Library(3), Link(3), Link(1)},
                         !.most = 3, !.waits = {"open", "run"}, !.opens = {1}]
\* Saves that fail, or that the Assistant overtakes; the window is closed.
Failing == [Quiet EXCEPT !.edits = {Text(1, "other"), Drag(1)}, !.most = 2, !.outages = 1,
                         !.waits = {"open", "turn", "close"}, !.opens = {1},
                         !.assistant = {<<[kind |-> "MoveNode", node |-> 2, position |-> "away"]>>}]
\* One Project after another, the first draft made before any is open.
Switching == [Quiet EXCEPT !.edits = {Text(1, "other"), Library(1), Library(2)}, !.most = 2,
                           !.waits = {"open", "open2"}, !.opens = {1, 2},
                           !.outages = 1]
\* The same by a user who does not wait for what is being opened.
Impatient == [Switching EXCEPT !.patient = FALSE]
\* Three openings at a time, of which the last one counts.
Hurrying == [Quiet EXCEPT !.edits = {Text(1, "other")}, !.most = 1,
                          !.waits = {"open", "open2", "open3"}, !.opens = {1, 2}]
\* Two callers create and rename Projects while the window lists them.
Managing == [Quiet EXCEPT !.committed = "p1" :> Receipt(1),
                          !.callers = {"a", "b"}]
\* A Project that has just been created is opened.
Creating == [Managing EXCEPT !.callers = {"a"}, !.waits = {"open"}, !.opens = {1, 2}]
MCScenarios == {Writing, Linking, Failing, Switching, Impatient, Hurrying, Managing, Creating}
MCWaits == "open" :> "open" @@ "open2" :> "open" @@ "open3" :> "open" @@ "run" :> "run"
             @@ "turn" :> "assistant" @@ "close" :> "close"
Create(name) == [op |-> "Create", name |-> name]
Rename(p, base, name) == [op |-> "Rename", project |-> p, base |-> base, name |-> name]
MCCommands ==
  "a" :> {<<"c", Create("a")>>, <<"r", Rename(1, 1, "b")>>}
    @@ "b" :> {<<"c", Create("a")>>, <<"s", Rename(1, 1, "c")>>}
=============================================================================
