--------------------------- MODULE MCNodeExecution ---------------------------
(* Ready documents of a few nodes, for TLC. *)
EXTENDS NodeExecution

Is(contract, parameters) ==
  [contract |-> contract, parameters |-> parameters, position |-> "home"]
Text(text) == Is("text.provide_literal", "text" :> text)
Reader(media) == Is(media \o ".read_asset", "asset_id" :> "asset")
Image == Is("image.generate_from_text", ProfileKey :> "image.high_quality_general")
Video == Is("video.generate_from_image", ProfileKey :> "video.cinematic_image_animation")
Speech == Is("audio.synthesize_speech_from_text", ProfileKey :> "speech.multilingual_narration")

From(id, source, output) ==
  [ordered |-> FALSE, items |-> <<[id |-> id, source |-> source, output |-> output, role |-> NoRole]>>]
Document(nodes, bindings) ==
  [revision |-> 2, updated |-> 2, nodes |-> nodes, bindings |-> bindings]

\* A video (3) of an image (2) of a text (1).
Film == Document(<<Text("text"), Image, Video>>,
          <<2, "prompt">> :> From(1, 1, "text") @@ <<3, "image">> :> From(2, 2, "image"))
\* A video (3) of an imported image (2) and a text (1).
Animation == Document(<<Text("text"), Reader("image"), Video>>,
               <<3, "prompt">> :> From(1, 1, "text") @@ <<3, "image">> :> From(2, 2, "image"))
\* A text (1) read (2) and imaged (3): both take from it.
Narration == Document(<<Text("other"), Speech, Image>>,
               <<2, "text">> :> From(1, 1, "text") @@ <<3, "prompt">> :> From(2, 1, "text"))

AllDocuments == {Film, Animation, Narration}
Imported == "asset" :> "Image"
Outputs == <<"first", "second", "third">>
=============================================================================
