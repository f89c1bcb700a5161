--------------------------- MODULE NodeCapability ---------------------------
(***************************************************************************)
(* Node capability contracts: what a node of a Workflow may be given and   *)
(* what it publishes, the built-in contracts, the registry that resolves   *)
(* an exact contract, and the normalization of parameters.                 *)
(*                                                                         *)
(* A parameter map is a partial function from keys to values; a value is   *)
(* one of the few the constraints tell apart ("bad" satisfies none).       *)
(***************************************************************************)
EXTENDS FiniteSets, Naturals

CONSTANTS
  Registry,     \* exact contract reference -> contract
  Profiles      \* generation profiles: profile -> contracts it is active for

Media == {"Image", "Video", "Audio"}
DataTypes == {"Text"} \cup Media
NoRole == "no_role"
ProfileKey == "generation_profile_ref"

\* Maps: of one key, and with one more.
Only(k, v) == [x \in {k} |-> v]
Put(f, k, v) == [x \in DOMAIN f \cup {k} |-> IF x = k THEN v ELSE f[x]]

----------------------------------------------------------------------------
(* The parts of a contract.                                                *)

Parameter(required, allowed, default) ==
  [required |-> required, allowed |-> allowed, default |-> default]
Satisfies(parameter, value) == value \in parameter.allowed
Required(allowed) == Parameter(TRUE, allowed, "none")
OptionalWithDefault(allowed, default) == Parameter(FALSE, allowed, default)

\* accepts: the data types taken with each role; a single value has no role.
SingleValue(required, type) ==
  [ordered |-> FALSE, accepts |-> Only(NoRole, {type}),
   minimum |-> IF required THEN 1 ELSE 0, maximum |-> 1]
OrderedReferences(minimum, maximum, accepts) ==
  [ordered |-> TRUE, accepts |-> accepts, minimum |-> minimum, maximum |-> maximum]

Contract(parameters, inputs, outputs) ==
  [parameters |-> parameters, inputs |-> inputs, outputs |-> outputs]

ValidInput(i) ==
  /\ i.minimum <= i.maximum
  /\ DOMAIN i.accepts # {}
  /\ i.ordered => \A role \in DOMAIN i.accepts :
       role # NoRole /\ i.accepts[role] # {} /\ i.accepts[role] \subseteq Media

ValidContract(c) ==
  /\ \A k \in DOMAIN c.parameters :
       ~c.parameters[k].required => Satisfies(c.parameters[k], c.parameters[k].default)
  /\ \A k \in DOMAIN c.inputs : ValidInput(c.inputs[k])
  /\ DOMAIN c.outputs # {} /\ \A k \in DOMAIN c.outputs : c.outputs[k] \in DataTypes

----------------------------------------------------------------------------
(* The contracts of the nodes crate.                                       *)

None == <<>>
Texts == {"text", "other"}  \* 1 to 65 536 bytes
AspectRatios == {"square", "landscape"}
Durations == {5, 10}
Assets == {"asset"}
\* A reference to a profile is well formed whatever the catalog says of it.
ProfileRefs == DOMAIN Profiles \cup {"retired"}

FrozenCatalog ==
  [p \in {"image.high_quality_general", "video.cinematic_image_animation",
          "speech.multilingual_narration"} |->
     CASE p = "image.high_quality_general" -> {"image.generate_from_text"}
       [] p = "video.cinematic_image_animation" -> {"video.generate_from_image"}
       [] p = "speech.multilingual_narration" -> {"audio.synthesize_speech_from_text"}]

ProvideLiteral == Contract(Only("text", Required(Texts)), None, Only("text", "Text"))

GenerateImage ==
  Contract(Put(Only(ProfileKey, Required(ProfileRefs)),
               "aspect_ratio", OptionalWithDefault(AspectRatios, "square")),
           Only("prompt", SingleValue(TRUE, "Text")), Only("image", "Image"))

GenerateVideo ==
  Contract(Put(Only(ProfileKey, Required(ProfileRefs)),
               "duration_seconds", OptionalWithDefault(Durations, 5)),
           Put(Only("image", SingleValue(TRUE, "Image")), "prompt", SingleValue(FALSE, "Text")),
           Only("video", "Video"))

SynthesizeSpeech ==
  Contract(Only(ProfileKey, Required(ProfileRefs)), Only("text", SingleValue(TRUE, "Text")),
           Only("audio", "Audio"))

ReadAsset(output, type) ==
  Contract(Only("asset_id", Required(Assets)), None, Only(output, type))

BuiltIn ==
  [ref \in {"text.provide_literal", "image.generate_from_text", "video.generate_from_image",
            "audio.synthesize_speech_from_text", "image.read_asset", "video.read_asset",
            "audio.read_asset"} |->
     CASE ref = "text.provide_literal" -> ProvideLiteral
       [] ref = "image.generate_from_text" -> GenerateImage
       [] ref = "video.generate_from_image" -> GenerateVideo
       [] ref = "audio.synthesize_speech_from_text" -> SynthesizeSpeech
       [] ref = "image.read_asset" -> ReadAsset("image", "Image")
       [] ref = "video.read_asset" -> ReadAsset("video", "Video")
       [] ref = "audio.read_asset" -> ReadAsset("audio", "Audio")]

ASSUME RegistryAssumption ==
  /\ \A ref \in DOMAIN Registry : ValidContract(Registry[ref])
  /\ \A p \in DOMAIN Profiles : Profiles[p] \subseteq DOMAIN Registry

----------------------------------------------------------------------------
(* Operations, for the exact registered contract.                          *)

Registered(ref) == ref \in DOMAIN Registry

\* normalize_node_parameters: the complete map, or nothing for an error.
Normalize(ref, supplied) ==
  LET declared == Registry[ref].parameters
      Valid(k) == IF k \in DOMAIN supplied THEN Satisfies(declared[k], supplied[k])
                  ELSE ~declared[k].required
  IN IF DOMAIN supplied \subseteq DOMAIN declared /\ \A k \in DOMAIN declared : Valid(k)
     THEN {[k \in DOMAIN declared |->
              IF k \in DOMAIN supplied THEN supplied[k] ELSE declared[k].default]}
     ELSE {}

MissingParameters(ref, supplied) ==
  {k \in DOMAIN Registry[ref].parameters :
     Registry[ref].parameters[k].required /\ k \notin DOMAIN supplied}

ActiveFor(ref) == {p \in DOMAIN Profiles : ref \in Profiles[p]}
\* The catalog half of check_node_external_readiness; whether a compatible
\* profile, or the Asset, is available at the moment is for the caller to say.
ProfileCompatible(ref, normalized) ==
  ProfileKey \in DOMAIN normalized => normalized[ProfileKey] \in ActiveFor(ref)
=============================================================================
