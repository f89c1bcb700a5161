------------------------ MODULE NodeExecutionProofs --------------------------
(***************************************************************************)
(* Theorems of NodeExecution.                                              *)
(***************************************************************************)
EXTENDS NodeExecution, TLAPS

----------------------------------------------------------------------------
(* The built-in contracts.                                                 *)

VideoMaker == "video.generate_from_image"
SpeechMaker == "audio.synthesize_speech_from_text"
ImageMaker == "image.generate_from_text"
TextProvider == "text.provide_literal"

LEMMA BuiltInRefs ==
  /\ DOMAIN BuiltIn = {TextProvider, ImageMaker, VideoMaker, SpeechMaker} \cup Reading
  /\ Generating = {ImageMaker, VideoMaker, SpeechMaker}
  /\ TextProvider \notin Generating \cup Reading /\ Generating \cap Reading = {}
BY DEF BuiltIn, TextProvider, ImageMaker, VideoMaker, SpeechMaker, Reading, Generating, RequestKinds

LEMMA TextContract ==
  LET c == BuiltIn[TextProvider]
  IN /\ DOMAIN c.parameters = {"text"} /\ c.parameters["text"].allowed = Texts
     /\ DOMAIN c.inputs = {}
     /\ DOMAIN c.outputs = {"text"} /\ c.outputs["text"] = "Text"
<1>1. BuiltIn[TextProvider] = ProvideLiteral
  BY DEF BuiltIn, TextProvider
<1> QED
  BY <1>1 DEF ProvideLiteral, Contract, Only, None, Required, Parameter

LEMMA ImageContract ==
  LET c == BuiltIn[ImageMaker]
  IN /\ DOMAIN c.parameters = {ProfileKey, "aspect_ratio"}
     /\ DOMAIN c.inputs = {"prompt"}
     /\ c.inputs["prompt"].ordered = FALSE /\ c.inputs["prompt"].minimum = 1
     /\ c.inputs["prompt"].maximum = 1
     /\ DOMAIN c.inputs["prompt"].accepts = {NoRole}
     /\ c.inputs["prompt"].accepts[NoRole] = {"Text"}
     /\ DOMAIN c.outputs = {"image"} /\ c.outputs["image"] = "Image"
<1>1. BuiltIn[ImageMaker] = GenerateImage
  BY DEF BuiltIn, ImageMaker
<1> QED
  BY <1>1 DEF GenerateImage, Contract, Only, Put, SingleValue, ProfileKey

LEMMA VideoContract ==
  LET c == BuiltIn[VideoMaker]
  IN /\ DOMAIN c.parameters = {ProfileKey, "duration_seconds"}
     /\ DOMAIN c.inputs = {"prompt", "image"}
     /\ \A k \in {"prompt", "image"} :
          c.inputs[k].ordered = FALSE /\ c.inputs[k].maximum = 1
            /\ DOMAIN c.inputs[k].accepts = {NoRole}
     /\ c.inputs["image"].minimum = 1 /\ c.inputs["prompt"].minimum = 0
     /\ c.inputs["image"].accepts[NoRole] = {"Image"}
     /\ c.inputs["prompt"].accepts[NoRole] = {"Text"}
     /\ DOMAIN c.outputs = {"video"} /\ c.outputs["video"] = "Video"
<1>1. BuiltIn[VideoMaker] = GenerateVideo
  BY DEF BuiltIn, VideoMaker
<1> QED
  BY <1>1 DEF GenerateVideo, Contract, Only, Put, SingleValue, ProfileKey

LEMMA SpeechContract ==
  LET c == BuiltIn[SpeechMaker]
  IN /\ DOMAIN c.parameters = {ProfileKey}
     /\ DOMAIN c.inputs = {"text"}
     /\ c.inputs["text"].ordered = FALSE /\ c.inputs["text"].minimum = 1
     /\ c.inputs["text"].maximum = 1
     /\ DOMAIN c.inputs["text"].accepts = {NoRole}
     /\ c.inputs["text"].accepts[NoRole] = {"Text"}
     /\ DOMAIN c.outputs = {"audio"} /\ c.outputs["audio"] = "Audio"
<1>1. BuiltIn[SpeechMaker] = SynthesizeSpeech
  BY DEF BuiltIn, SpeechMaker
<1> QED
  BY <1>1 DEF SynthesizeSpeech, Contract, Only, SingleValue, ProfileKey

MediaKey == [ref \in Reading |-> CASE ref = "image.read_asset" -> "image"
                                   [] ref = "video.read_asset" -> "video"
                                   [] ref = "audio.read_asset" -> "audio"]
MediaType == [ref \in Reading |-> CASE ref = "image.read_asset" -> "Image"
                                    [] ref = "video.read_asset" -> "Video"
                                    [] ref = "audio.read_asset" -> "Audio"]
LEMMA ReaderContracts ==
  ASSUME NEW ref \in Reading
  PROVE  LET c == BuiltIn[ref]
         IN /\ DOMAIN c.parameters = {"asset_id"}
            /\ DOMAIN c.inputs = {}
            /\ DOMAIN c.outputs = {MediaKey[ref]} /\ c.outputs[MediaKey[ref]] = MediaType[ref]
            /\ MediaType[ref] \in Media
<1>1. BuiltIn[ref] = ReadAsset(MediaKey[ref], MediaType[ref])
  BY DEF BuiltIn, Reading, MediaKey, MediaType
<1>2. MediaType[ref] \in Media
  BY DEF MediaType, Reading, Media
<1> QED
  BY <1>1, <1>2 DEF ReadAsset, Contract, Only, None

----------------------------------------------------------------------------
(* What a ready document freezes.                                          *)

InputKeys(n) == {t[2] : t \in DOMAIN Node(n).bindings}
Item(n, k) == Node(n).bindings[<<n, k>>].items[1]
ParametersFit(n) ==
  LET parameters == BuiltIn[Ref(n)].parameters
  IN /\ DOMAIN Node(n).parameters = DOMAIN parameters
     /\ \A k \in DOMAIN parameters : Node(n).parameters[k] \in parameters[k].allowed
InputFits(n, k) ==
  LET input == BuiltIn[Ref(n)].inputs[k]
      b == Node(n).bindings[<<n, k>>]
  IN /\ k \in DOMAIN BuiltIn[Ref(n)].inputs /\ <<n, k>> \in DOMAIN Node(n).bindings
     /\ b.ordered = input.ordered
     /\ Len(b.items) = 1 /\ DOMAIN b.items = {1}
     /\ SourceOf(n, k) \in Nodes /\ SourceOf(n, k) \in SourcesOf(Node(n).bindings, n)
     /\ Item(n, k).output = OutputKey(SourceOf(n, k))
     /\ OutputType(SourceOf(n, k)) \in input.accepts[NoRole]
     /\ Item(n, k).role = NoRole
BindingsFit(n) ==
  /\ \A t \in DOMAIN Node(n).bindings : t = <<n, t[2]>>
  /\ \A k \in InputKeys(n) : InputFits(n, k)
  /\ \A k \in DOMAIN BuiltIn[Ref(n)].inputs :
       BuiltIn[Ref(n)].inputs[k].minimum # 0 => k \in InputKeys(n)
NodeFits(n) ==
  /\ n \in DOMAIN Produced /\ Produced[n] \notin DOMAIN Library
  /\ Ref(n) \in DOMAIN BuiltIn /\ ParametersFit(n) /\ BindingsFit(n)
  /\ Ref(n) \in Reading =>
       /\ Node(n).parameters["asset_id"] \in DOMAIN Library
       /\ Library[Node(n).parameters["asset_id"]] = OutputType(n)
  /\ Ref(n) \in Generating => ProfileOf(n) \in ActiveFor(Ref(n))
PlanFits == \A n \in Nodes : NodeFits(n)

\* The one output of a contract.
LEMMA OneOutput ==
  ASSUME NEW ref \in DOMAIN BuiltIn
  PROVE  \E k \in {"text", "image", "video", "audio"} : DOMAIN BuiltIn[ref].outputs = {k}
<1>1. ref \in {TextProvider, ImageMaker, VideoMaker, SpeechMaker} \cup Reading
  BY BuiltInRefs
<1>2. ASSUME NEW r \in Reading PROVE MediaKey[r] \in {"text", "image", "video", "audio"}
  BY DEF MediaKey, Reading
<1> QED
  BY <1>1, <1>2, TextContract, ImageContract, VideoContract, SpeechContract, ReaderContracts

LEMMA OutputOfNode ==
  ASSUME NEW n, Ref(n) \in DOMAIN BuiltIn
  PROVE  /\ DOMAIN BuiltIn[Ref(n)].outputs = {OutputKey(n)}
         /\ OutputType(n) = BuiltIn[Ref(n)].outputs[OutputKey(n)]
         /\ ContractOfNode(n) = BuiltIn[Ref(n)]
<1>1. ContractOfNode(n) = BuiltIn[Ref(n)]
  BY CompositionAssumption DEF ContractOfNode
<1>2. PICK k : DOMAIN BuiltIn[Ref(n)].outputs = {k}
  BY OneOutput
<1> QED
  BY <1>1, <1>2 DEF OutputKey, OutputType

\* The output of each contract.
LEMMA OutputTable ==
  ASSUME NEW n, Ref(n) \in DOMAIN BuiltIn
  PROVE  /\ Ref(n) = TextProvider => OutputKey(n) = "text" /\ OutputType(n) = "Text"
         /\ Ref(n) = ImageMaker => OutputKey(n) = "image" /\ OutputType(n) = "Image"
         /\ Ref(n) = VideoMaker => OutputKey(n) = "video" /\ OutputType(n) = "Video"
         /\ Ref(n) = SpeechMaker => OutputKey(n) = "audio" /\ OutputType(n) = "Audio"
         /\ Ref(n) \in Reading => OutputType(n) \in Media
         /\ OutputType(n) = "Text" => Ref(n) = TextProvider
         /\ OutputType(n) = "Image" => Ref(n) \in Reading \cup {ImageMaker}
<1> DEFINE k == OutputKey(n)
<1>1. /\ DOMAIN BuiltIn[Ref(n)].outputs = {k}
      /\ OutputType(n) = BuiltIn[Ref(n)].outputs[k]
  BY OutputOfNode
<1>2. Ref(n) = TextProvider => OutputKey(n) = "text" /\ OutputType(n) = "Text"
  BY <1>1, TextContract
<1>3. Ref(n) = ImageMaker => OutputKey(n) = "image" /\ OutputType(n) = "Image"
  BY <1>1, ImageContract
<1>4. Ref(n) = VideoMaker => OutputKey(n) = "video" /\ OutputType(n) = "Video"
  BY <1>1, VideoContract
<1>5. Ref(n) = SpeechMaker => OutputKey(n) = "audio" /\ OutputType(n) = "Audio"
  BY <1>1, SpeechContract
<1>6. Ref(n) \in Reading => OutputType(n) \in Media
  BY <1>1, ReaderContracts
<1>7. Ref(n) \in {TextProvider, ImageMaker, VideoMaker, SpeechMaker} \cup Reading
  BY BuiltInRefs
<1>8. "Text" \notin Media
  BY DEF Media
<1> QED
  BY <1>2, <1>3, <1>4, <1>5, <1>6, <1>7, <1>8

----------------------------------------------------------------------------

LEMMA InputTable ==
  ASSUME NEW ref \in DOMAIN BuiltIn, NEW k \in DOMAIN BuiltIn[ref].inputs
  PROVE  /\ BuiltIn[ref].inputs[k].ordered = FALSE
         /\ BuiltIn[ref].inputs[k].minimum \in {0, 1} /\ BuiltIn[ref].inputs[k].maximum = 1
         /\ DOMAIN BuiltIn[ref].inputs[k].accepts = {NoRole}
         /\ ref \in Generating
<1>1. ref \in {TextProvider, ImageMaker, VideoMaker, SpeechMaker} \cup Reading
  BY BuiltInRefs
<1>2. ref # TextProvider
  BY TextContract
<1>3. ref \notin Reading
  BY ReaderContracts
<1>4. CASE ref = ImageMaker
  BY <1>4, ImageContract, BuiltInRefs
<1>5. CASE ref = VideoMaker
  BY <1>5, VideoContract, BuiltInRefs
<1>6. CASE ref = SpeechMaker
  BY <1>6, SpeechContract, BuiltInRefs
<1> QED
  BY <1>1, <1>2, <1>3, <1>4, <1>5, <1>6

LEMMA RequiredAsset ==
  ASSUME NEW ref \in Reading
  PROVE  BuiltIn[ref].parameters["asset_id"].required
<1>1. PICK key, type : BuiltIn[ref] = ReadAsset(key, type)
  BY DEF BuiltIn, Reading
<1> QED
  BY <1>1 DEF ReadAsset, Contract, Only, Required, Parameter

\* The map of normal parameters.
LEMMA NormalMap ==
  ASSUME NEW ref \in DOMAIN BuiltIn, NEW supplied, NEW p \in Normalize(ref, supplied)
  PROVE  /\ DOMAIN p = DOMAIN BuiltIn[ref].parameters
         /\ \A k \in DOMAIN p : p[k] \in BuiltIn[ref].parameters[k].allowed
         /\ \A k \in DOMAIN p : BuiltIn[ref].parameters[k].required =>
              k \in DOMAIN supplied /\ p[k] = supplied[k]
<1> DEFINE declared == BuiltIn[ref].parameters
<1>1. Registry[ref].parameters = declared
  BY CompositionAssumption
<1>2. \A k \in DOMAIN declared :
        IF k \in DOMAIN supplied THEN Satisfies(declared[k], supplied[k]) ELSE ~declared[k].required
  BY <1>1 DEF Normalize
<1>3. p = [k \in DOMAIN declared |->
             IF k \in DOMAIN supplied THEN supplied[k] ELSE declared[k].default]
  BY <1>1 DEF Normalize
<1>4. \A k \in DOMAIN declared : ~declared[k].required => Satisfies(declared[k], declared[k].default)
  <2>1. ValidContract(BuiltIn[ref])
    BY RegistryAssumption, CompositionAssumption
  <2> QED
    BY <2>1 DEF ValidContract
<1> QED
  BY <1>2, <1>3, <1>4 DEF Satisfies

LEMMA FrozenPlanFits ==
  ASSUME NEW d \in Documents, plan = FreezePlan(d, Whole)
  PROVE  PlanFits
<1>1. /\ DraftValid(d) /\ Issues(d, NodeIds(d), {}) = {}
      /\ \A t \in DOMAIN d.bindings :
           t = <<t[1], t[2]>> /\ Items(d.bindings[t]) # {}
             /\ d.bindings[t].items \in Seq(Items(d.bindings[t]))
      /\ \A n \in NodeIds(d) : "asset_id" \in DOMAIN d.nodes[n].parameters =>
            /\ d.nodes[n].parameters["asset_id"] \in DOMAIN Library
            /\ Library[d.nodes[n].parameters["asset_id"]]
                 \in {ContractOf(d, n).outputs[k] : k \in DOMAIN ContractOf(d, n).outputs}
  BY ExecutionAssumption
<1>2. Nodes = NodeIds(d) /\ \A n \in Nodes : Node(n) = FrozenNode(d, n)
  BY DEF FreezePlan, SelectedNodes, Nodes, Node
<1>3. \A n \in NodeIds(d) :
        /\ d.nodes[n].contract \in DOMAIN BuiltIn
        /\ Normalize(d.nodes[n].contract, d.nodes[n].parameters) # {}
  BY <1>1, CompositionAssumption DEF DraftValid, ContractsResolve, Registered
<1>4. \A n \in Nodes : /\ Ref(n) = d.nodes[n].contract /\ Ref(n) \in DOMAIN BuiltIn
                       /\ Node(n).parameters \in Normalize(Ref(n), d.nodes[n].parameters)
                       /\ Node(n).bindings = BindingsOf(d, n)
                       /\ ContractOf(d, n) = BuiltIn[Ref(n)]
  BY <1>2, <1>3, CompositionAssumption DEF FrozenNode, Ref, ContractOf
<1> SUFFICES ASSUME NEW n \in Nodes PROVE NodeFits(n)
  BY DEF PlanFits
<1> DEFINE contract == BuiltIn[Ref(n)]
           supplied == d.nodes[n].parameters
<1>5. n \in DOMAIN Produced /\ Produced[n] \notin DOMAIN Library
  BY <1>2, IdentityAssumption DEF NodesOfDocuments
<1>6. /\ DOMAIN Node(n).parameters = DOMAIN contract.parameters
      /\ \A k \in DOMAIN contract.parameters :
           /\ Node(n).parameters[k] \in contract.parameters[k].allowed
           /\ contract.parameters[k].required =>
                k \in DOMAIN supplied /\ Node(n).parameters[k] = supplied[k]
  BY <1>4, NormalMap
<1>7. ParametersFit(n)
  BY <1>6 DEF ParametersFit
<1>8. ASSUME Ref(n) \in Reading
      PROVE  /\ Node(n).parameters["asset_id"] \in DOMAIN Library
             /\ Library[Node(n).parameters["asset_id"]] = OutputType(n)
  <2>1. "asset_id" \in DOMAIN supplied /\ Node(n).parameters["asset_id"] = supplied["asset_id"]
    BY <1>6, <1>8, ReaderContracts, RequiredAsset
  <2>2. {contract.outputs[k] : k \in DOMAIN contract.outputs} = {OutputType(n)}
    BY <1>4, OutputOfNode
  <2> QED
    BY <1>1, <1>2, <1>4, <2>1, <2>2
<1>9. StructuralIssues(d, n) = {}
      /\ \A p \in Normalize(Ref(n), supplied) : ProfileCompatible(Ref(n), p)
  <2>1. Registered(Ref(n))
    BY <1>4, CompositionAssumption DEF Registered
  <2> DEFINE Refused(x) ==
               {p \in Normalize(d.nodes[x].contract, d.nodes[x].parameters) :
                  ~ProfileCompatible(d.nodes[x].contract, p) \/ d.nodes[x].contract \in {}}
             Part(x) ==
               IF ~Registered(d.nodes[x].contract) THEN {<<x, "unregistered">>}
               ELSE StructuralIssues(d, x) \cup {<<x, "profile">> : p \in Refused(x)}
  <2>2. UNION {Part(x) : x \in NodeIds(d)} = {}
    BY <1>1 DEF Issues
  <2>3. Part(n) = {}
    <3> HIDE DEF Part
    <3> QED
      BY <1>2, <2>2
  <2>4. StructuralIssues(d, n) = {} /\ {<<n, "profile">> : p \in Refused(n)} = {}
    BY <1>4, <2>1, <2>3
  <2>5. Refused(n) = {}
    BY <2>4
  <2> QED
    BY <1>4, <2>4, <2>5
<1>10. Ref(n) \in Generating => ProfileOf(n) \in ActiveFor(Ref(n))
  <2>1. Ref(n) \in Generating => ProfileKey \in DOMAIN Node(n).parameters
    BY <1>6, BuiltInRefs, ImageContract, VideoContract, SpeechContract
  <2> QED
    BY <1>4, <1>9, <2>1 DEF ProfileCompatible, ProfileOf
<1>11. BindingsFit(n)
  <2>1. /\ DOMAIN Node(n).bindings = {t \in DOMAIN d.bindings : t[1] = n}
        /\ \A t \in DOMAIN Node(n).bindings : Node(n).bindings[t] = d.bindings[t]
    BY <1>4 DEF BindingsOf, Restrict
  <2>2. \A t \in DOMAIN Node(n).bindings : t = <<n, t[2]>>
    BY <1>1, <2>1
  <2>3. ASSUME NEW k \in InputKeys(n) PROVE InputFits(n, k)
    <3> DEFINE b == d.bindings[<<n, k>>]
               input == contract.inputs[k]
    <3>1. <<n, k>> \in DOMAIN Node(n).bindings /\ <<n, k>> \in DOMAIN d.bindings
          /\ Node(n).bindings[<<n, k>>] = b
      BY <2>1, <2>2 DEF InputKeys
    <3>2. BindingFits(d, <<n, k>>)
      BY <1>1, <3>1 DEF DraftValid
    <3>3. /\ k \in DOMAIN contract.inputs
          /\ b.ordered = input.ordered
          /\ Len(b.items) \in input.minimum .. input.maximum
          /\ \A i \in Items(b) : ItemFits(d, <<n, k>>, i, input)
      BY <1>4, <3>2 DEF BindingFits
    <3>4. input.minimum \in {0, 1} /\ input.maximum = 1 /\ DOMAIN input.accepts = {NoRole}
      BY <1>4, <3>3, InputTable
    <3>5. b.items \in Seq(Items(b)) /\ Items(b) # {}
      BY <1>1, <3>1
    <3>6. Len(b.items) = 1 /\ DOMAIN b.items = {1}
      <4>1. Len(b.items) \in Nat /\ DOMAIN b.items = 1 .. Len(b.items)
        BY <3>5
      <4>2. DOMAIN b.items # {}
        BY <3>5 DEF Items, ToSet
      <4>3. Len(b.items) <= 1
        BY <3>3, <3>4, <4>1
      <4>4. Len(b.items) # 0
        BY <4>1, <4>2
      <4> DEFINE length == Len(b.items)
      <4>5. length = 1
        <5>1. length \in Nat /\ length <= 1 /\ length # 0
          BY <4>1, <4>3, <4>4
        <5> HIDE DEF length
        <5> QED
          BY <5>1
      <4> QED
        BY <4>1, <4>5
    <3> DEFINE i == b.items[1]
    <3>7. i \in Items(b)
      BY <3>6 DEF Items, ToSet
    <3>8. ItemFits(d, <<n, k>>, i, input)
      BY <3>3, <3>7
    <3>9. /\ i.source \in Nodes
          /\ i.output \in DOMAIN BuiltIn[Ref(i.source)].outputs
          /\ i.role = NoRole
          /\ BuiltIn[Ref(i.source)].outputs[i.output] \in input.accepts[NoRole]
      BY <1>2, <1>4, <3>4, <3>8 DEF ItemFits
    <3>10. i.output = OutputKey(i.source) /\ OutputType(i.source) \in input.accepts[NoRole]
      BY <1>4, <3>9, OutputOfNode
    <3>11. i.source \in SourcesOf(Node(n).bindings, n)
      BY <3>1, <3>7 DEF SourcesOf
    <3>12. SourceOf(n, k) = i.source /\ Item(n, k) = i
      BY <3>1 DEF SourceOf, Item
    <3> QED
      BY <3>1, <3>3, <3>6, <3>9, <3>10, <3>11, <3>12 DEF InputFits
  <2>4. ASSUME NEW k \in DOMAIN contract.inputs, contract.inputs[k].minimum # 0
        PROVE  k \in InputKeys(n)
    <3>1. contract.inputs[k].minimum = 1
      BY <1>4, <2>4, InputTable
    <3>2. <<n, k>> \in DOMAIN d.bindings
      <4>1. SUFFICES ASSUME <<n, k>> \notin DOMAIN d.bindings PROVE FALSE
        OBVIOUS
      <4>2. <<n, k>> \in StructuralIssues(d, n)
        BY <1>4, <3>1, <4>1 DEF StructuralIssues
      <4> QED
        BY <1>9, <4>2
    <3> QED
      BY <2>1, <3>2 DEF InputKeys
  <2> QED
    BY <2>2, <2>3, <2>4 DEF BindingsFit
<1> QED
  BY <1>4, <1>5, <1>7, <1>8, <1>10, <1>11 DEF NodeFits

----------------------------------------------------------------------------
(* What the nodes of such a plan give, and are given.                      *)

AssetOf(n) == IF Ref(n) \in Reading THEN Node(n).parameters["asset_id"] ELSE Produced[n]
Gives(n) ==
  IF Ref(n) = TextProvider THEN [type |-> "Text", parts |-> <<Literal(Node(n).parameters["text"])>>]
  ELSE ManagedRef(OutputType(n), AssetOf(n), Digest(AssetOf(n)))
Output(n) == Only(OutputKey(n), Gives(n))
Given(n) ==
  [k \in InputKeys(n) |->
     [ordered |-> Node(n).bindings[<<n, k>>].ordered,
      items |-> [i \in DOMAIN Node(n).bindings[<<n, k>>].items |->
        LET item == Node(n).bindings[<<n, k>>].items[i]
        IN [id |-> item.id, role |-> item.role, value |-> Output(item.source)[item.output]]]]]

LEMMA GivesType ==
  ASSUME NEW n, Ref(n) \in DOMAIN BuiltIn
  PROVE  Gives(n).type = OutputType(n)
BY OutputTable DEF Gives, ManagedRef

\* A text of one literal is that literal.
LEMMA OneLiteral ==
  ASSUME NEW text, text # EmptyText
  PROVE  TextValue(<<Literal(text)>>) = {[type |-> "Text", parts |-> <<Literal(text)>>]}
<1> DEFINE parts == <<Literal(text)>>
           step(f, i) == IF i = 0 THEN <<>>
                         ELSE IF parts[i] = Literal(EmptyText) THEN f[i - 1]
                         ELSE Append(f[i - 1], parts[i])
           one == [i \in 0 .. 1 |-> IF i = 0 THEN <<>> ELSE parts]
           Kept == CHOOSE f : f = [i \in 0 .. Len(parts) |-> step(f, i)]
<1>1. Len(parts) = 1 /\ parts[1] = Literal(text) /\ parts[1] # Literal(EmptyText)
  BY DEF Literal
<1>2. Append(<<>>, parts[1]) = parts
  OBVIOUS
<1>3. one = [i \in 0 .. Len(parts) |-> step(one, i)]
  <2>1. \A i \in 0 .. 1 : i = 0 \/ i = 1
    OBVIOUS
  <2>2. one[0] = <<>> /\ one[1] = parts
    OBVIOUS
  <2>3. step(one, 0) = <<>>
    OBVIOUS
  <2>4. step(one, 1) = parts
    BY <1>1, <1>2, <2>2
  <2>5. \A i \in 0 .. 1 : one[i] = step(one, i)
    BY <2>1, <2>2, <2>3, <2>4
  <2> HIDE DEF step, parts
  <2> QED
    BY <1>1, <2>5
<1>4. Kept = [i \in 0 .. Len(parts) |-> step(Kept, i)]
  <2> HIDE DEF step, one, parts
  <2> QED
    BY <1>3
<1>5. Kept[1] = parts
  <2>1. Kept[0] = <<>> /\ Kept[1] = step(Kept, 1)
    <3> HIDE DEF Kept
    <3>1. \A i \in 0 .. 1 : Kept[i] = step(Kept, i)
      <4> HIDE DEF step, parts
      <4> QED
        BY <1>1, <1>4
    <3> QED
      BY <3>1
  <2> HIDE DEF Kept
  <2>2. step(Kept, 1) = Append(Kept[0], parts[1])
    BY <1>1
  <2> HIDE DEF step, parts
  <2> QED
    BY <1>2, <2>1, <2>2
<1>6. TextValue(parts) = IF Len(parts) > PartLimit \/ Kept[Len(parts)] = <<>> THEN {}
                         ELSE {[type |-> "Text", parts |-> Kept[Len(parts)]]}
  <2> HIDE DEF parts
  <2> QED
    BY DEF TextValue
<1>7. ~(Len(parts) > PartLimit)
  BY <1>1 DEF PartLimit
<1>8. parts # <<>>
  OBVIOUS
<1> QED
  <2> HIDE DEF Kept
  <2>1. TextValue(parts) = {[type |-> "Text", parts |-> parts]}
    <3> HIDE DEF parts
    <3> QED
      BY <1>1, <1>5, <1>6, <1>7, <1>8
  <2> QED
    BY <2>1

LEMMA TextOfNode ==
  ASSUME NEW n, NodeFits(n), Ref(n) = TextProvider
  PROVE  /\ TextValue(<<Literal(Node(n).parameters["text"])>>) = {Gives(n)}
         /\ DecodeValue(Gives(n)) = {Gives(n)}
<1>1. Node(n).parameters["text"] \in Texts
  BY TextContract DEF NodeFits, ParametersFit
<1>2. Node(n).parameters["text"] # EmptyText
  BY <1>1 DEF Texts, EmptyText
<1> QED
  BY <1>2, OneLiteral DEF Gives, DecodeValue

LEMMA OutputDecodes ==
  ASSUME NEW n, NodeFits(n)
  PROVE  DecodeOutputs(EncodeOutputs(Output(n))) = {Output(n)}
<1>1. DecodeValue(Gives(n)) = {Gives(n)}
  <2>1. CASE Ref(n) = TextProvider
    BY <2>1, TextOfNode
  <2>2. CASE Ref(n) # TextProvider
    <3>1. Gives(n).type # "Text"
      BY <2>2, GivesType, OutputTable DEF NodeFits
    <3> QED
      BY <3>1 DEF DecodeValue
  <2> QED
    BY <2>1, <2>2
<1>2. DOMAIN Output(n) = {OutputKey(n)} /\ Output(n)[OutputKey(n)] = Gives(n)
  BY DEF Output, Only
<1> DEFINE p == EncodeOutputs(Output(n))
<1>3. /\ p.values = Output(n) /\ DOMAIN p.expected = {OutputKey(n)}
      /\ p.expected[OutputKey(n)] = Gives(n).type
  BY <1>2 DEF EncodeOutputs
<1> HIDE DEF p
<1> QED
  BY <1>1, <1>2, <1>3 DEF DecodeOutputs, p

LEMMA OutputIsComplete ==
  ASSUME NEW n, NodeFits(n), NEW value, value.type = OutputType(n)
  PROVE  OutputSet(Ref(n), Only(OutputKey(n), value)) = {Only(OutputKey(n), value)}
BY OutputOfNode, CompositionAssumption DEF OutputSet, Only, NodeFits

\* Every check of the call's inputs passes.
LEMMA GivenItem ==
  ASSUME PlanFits, NEW n \in Nodes, NEW k \in InputKeys(n)
  PROVE  /\ InputFits(n, k)
         /\ Len(Given(n)[k].items) = 1 /\ DOMAIN Given(n)[k].items = {1}
         /\ Given(n)[k].items # <<>>
         /\ Given(n)[k].ordered = Node(n).bindings[<<n, k>>].ordered
         /\ Given(n)[k].items[1].role = NoRole
         /\ Given(n)[k].items[1].value = Gives(SourceOf(n, k))
<1>1. NodeFits(n) /\ InputFits(n, k)
  BY DEF PlanFits, NodeFits, BindingsFit
<1> DEFINE b == Node(n).bindings[<<n, k>>]
           given == [i \in DOMAIN b.items |->
             LET item == b.items[i]
             IN [id |-> item.id, role |-> item.role, value |-> Output(item.source)[item.output]]]
<1>2. Given(n)[k].ordered = b.ordered /\ Given(n)[k].items = given
  BY DEF Given
<1>3. DOMAIN b.items = {1} /\ b.items[1].role = NoRole
      /\ b.items[1].output = OutputKey(b.items[1].source) /\ b.items[1].source = SourceOf(n, k)
  BY <1>1 DEF InputFits, Item, SourceOf
<1>4. DOMAIN given = {1} /\ given[1].role = NoRole
      /\ given[1].value = Output(SourceOf(n, k))[OutputKey(SourceOf(n, k))]
  BY <1>3
<1>5. given[1].value = Gives(SourceOf(n, k))
  BY <1>4 DEF Output, Only
<1> HIDE DEF given
<1>6. Len(given) = 1
  <2>1. DOMAIN given = 1 .. 1
    BY <1>4
  <2>2. given = [i \in 1 .. 1 |-> given[i]]
    <3>1. given = [i \in DOMAIN given |-> given[i]]
      BY DEF given
    <3> QED
      BY <2>1, <3>1
  <2>3. given \in Seq({given[1]})
    BY <2>2
  <2> QED
    BY <2>1, <2>3
<1>7. given # <<>>
  BY <1>4
<1> QED
  BY <1>1, <1>2, <1>4, <1>5, <1>6, <1>7

LEMMA InputsAreAccepted ==
  ASSUME PlanFits, NEW n \in Nodes
  PROVE  InputSet(Ref(n), Given(n)) = {Given(n)}
<1> DEFINE inputs == BuiltIn[Ref(n)].inputs
<1>1. NodeFits(n) /\ Registry[Ref(n)].inputs = inputs
  BY CompositionAssumption DEF PlanFits
<1>2. DOMAIN Given(n) = InputKeys(n)
  BY DEF Given
<1>3. ASSUME NEW k \in InputKeys(n)
      PROVE  k \in DOMAIN inputs /\ InputMatches(inputs[k], Given(n)[k])
  <2> DEFINE v == Given(n)[k]
  <2>1. /\ InputFits(n, k) /\ Len(v.items) = 1 /\ DOMAIN v.items = {1} /\ v.items # <<>>
        /\ v.ordered = Node(n).bindings[<<n, k>>].ordered
        /\ v.items[1].role = NoRole /\ v.items[1].value = Gives(SourceOf(n, k))
    BY GivenItem
  <2>2. k \in DOMAIN inputs
    BY <2>1 DEF InputFits
  <2>3. inputs[k].minimum \in {0, 1} /\ inputs[k].maximum = 1 /\ DOMAIN inputs[k].accepts = {NoRole}
    BY <1>1, <2>2, InputTable DEF NodeFits
  <2>4. SourceOf(n, k) \in Nodes /\ OutputType(SourceOf(n, k)) \in inputs[k].accepts[NoRole]
        /\ v.ordered = inputs[k].ordered
    BY <2>1 DEF InputFits
  <2>5. Gives(SourceOf(n, k)).type \in inputs[k].accepts[NoRole]
    BY <2>4, GivesType DEF PlanFits, NodeFits
  <2>6. Items(v) = {v.items[1]}
    BY <2>1 DEF Items, ToSet
  <2>7. Len(v.items) \in inputs[k].minimum .. inputs[k].maximum
    BY <2>1, <2>3
  <2>8. v.items[1].role \in DOMAIN inputs[k].accepts
        /\ v.items[1].value.type \in inputs[k].accepts[v.items[1].role]
    BY <2>1, <2>3, <2>5
  <2>9. InputMatches(inputs[k], v)
    <3> HIDE DEF v, inputs
    <3> QED
      BY <2>1, <2>4, <2>6, <2>7, <2>8 DEF InputMatches
  <2> QED
    BY <2>2, <2>9
<1>4. \A k \in DOMAIN inputs : k \notin InputKeys(n) => inputs[k].minimum = 0
  BY <1>1 DEF NodeFits, BindingsFit
<1> QED
  BY <1>1, <1>2, <1>3, <1>4 DEF InputSet

----------------------------------------------------------------------------
(* The inductive invariant.                                                *)

\* An error that can be read back, and that refuses nothing.
FineError(e) ==
  /\ e = Error(e.contract, e.execution, e.stage, e.failure, e.target)
  /\ ValidError(e) /\ DecodeSource(e.failure) = {e.failure}
  /\ e.failure \notin Refusals
  /\ e.failure[1] = "Readiness" => e.failure[2].category \notin RefusedIssues

Needed(n) == SourcesOf(Node(n).bindings, n)
SourcesSucceeded(n) == \A m \in Needed(n) \cap Nodes : row.nodes[m].state = "Succeeded"

NodeStates == {"Pending", "Running", "Waiting", "Succeeded", "Failed", "Blocked", "Cancelled"}
NodeRow(n) ==
  LET s == row.nodes[n]
  IN /\ s = [state |-> s.state, started |-> s.started, finished |-> s.finished,
             outputs |-> s.outputs, failure |-> s.failure, blockedBy |-> s.blockedBy]
     /\ s.state \in NodeStates /\ ShapeIsValid(s)
     /\ s.outputs \subseteq {EncodeOutputs(Output(n))}
     /\ \A f \in s.failure : DecodeFailure(f) # {}
     /\ s.state = "Cancelled" => row.state = "Cancelled"
     /\ s.state = "Blocked" => \E m \in Nodes : row.nodes[m].state = "Failed"
RowShape ==
  /\ row = [state |-> row.state, nodes |-> row.nodes] /\ DOMAIN row.nodes = Nodes
  /\ row.state \in {"Queued", "Running", "Succeeded", "Failed", "Cancelled"}
  /\ row.state = "Queued" => \A n \in Nodes : row.nodes[n].state = "Pending"
  /\ row.state = "Succeeded" => \A n \in Nodes : row.nodes[n].state = "Succeeded"
  /\ row.state \in {"Cancelled", "Failed"} => \A n \in Nodes : row.nodes[n].state \notin Active
  /\ row.state = "Failed" => \E n \in Nodes : row.nodes[n].state = "Failed"
RowFits == RowShape /\ \A n \in Nodes : NodeRow(n)

\* A call that was begun has its node taken up, and not yet put down.
TakenUp == {"Running", "Cancelled"}

ExecutorFits ==
  /\ executor = [pc |-> executor.pc, batch |-> executor.batch, error |-> executor.error]
  /\ executor.error \in {"none", "storage", "transition"}
  /\ \A n \in executor.batch : /\ n \in Nodes /\ call[n].pc = "none"
                               /\ row.nodes[n].state \in TakenUp /\ SourcesSucceeded(n)

\* What the media of a call are, and what reading them may come to.
MediaOf(n) == IF Ref(n) \in Reading THEN Gives(n) ELSE Gives(SourceOf(n, "image"))
MediaReads(n) ==
  {<<"Readable", MediaOf(n)>>, <<"DeadlineExceeded">>, <<"Media", <<"StorageFailed">>>>,
   <<"Media", <<"Unavailable">>>>}

GoodOutcome(n) ==
  LET outcome == call[n].outcome
  IN \/ outcome = <<"Completed", Output(n)>> /\ Ref(n) \notin Generating /\ n \notin DOMAIN tasks
     \/ outcome = <<"Waiting">> /\ n \in DOMAIN tasks
     \/ /\ outcome = <<"Failed", CapabilityFailed(outcome[2][2])>>
        /\ FineError(outcome[2][2]) /\ n \notin DOMAIN tasks

Starting == {"start", "translate", "create"}
Under == {"readiness", "execute", "image", "reading", "read"} \cup Starting
CallFits(n) ==
  LET c == call[n]
  IN /\ c = [pc |-> c.pc, inputs |-> c.inputs, held |-> c.held, outcome |-> c.outcome,
             cancelled |-> c.cancelled, aborted |-> c.aborted, elapsed |-> c.elapsed]
     /\ c.pc \in Under \cup {"none", "ended", "committed"}
     /\ c.pc = "none" => c.outcome = <<>> /\ n \notin DOMAIN tasks
     /\ c.pc # "none" => c.inputs = Given(n) /\ SourcesSucceeded(n)
                           /\ row.nodes[n].state # "Pending"
     /\ c.pc \in Under \cup {"ended"} => row.nodes[n].state \in TakenUp
     /\ c.pc \in Under => c.outcome = <<>> /\ n \notin DOMAIN tasks
     /\ c.pc = "image" => Ref(n) = VideoMaker
     /\ c.pc \in {"reading", "read"} => Ref(n) \in Reading \cup {VideoMaker}
     /\ c.pc = "read" => c.held \in MediaReads(n)
     /\ c.pc \in Starting => Ref(n) \in Generating
                               /\ (Ref(n) = VideoMaker => c.held = <<"Readable", MediaOf(n)>>)
     /\ c.pc \in {"ended", "committed"} => GoodOutcome(n)
CallsFit == DOMAIN call = Nodes /\ \A n \in Nodes : CallFits(n)

TasksFit ==
  /\ DOMAIN tasks \subseteq Nodes
  /\ \A n \in Nodes :
       /\ n \in DOMAIN tasks => Ref(n) \in Generating /\ tasks[n] = Wanted(n)
       /\ row.nodes[n].state = "Waiting" => n \in DOMAIN tasks
       /\ \A f \in row.nodes[n].failure : (f.kind = "Capability") = (n \notin DOMAIN tasks)

AssetIs(a, type) ==
  a \in DOMAIN assets /\ assets[a].type = type /\ assets[a].digest = Digest(a)
AssetsFit ==
  /\ \A a \in DOMAIN Library : AssetIs(a, Library[a])
  /\ \A n \in Nodes : Ref(n) \in Generating /\ row.nodes[n].state = "Succeeded" =>
       AssetIs(Produced[n], OutputType(n))

Inductive ==
  PlanFits /\ RowFits /\ ExecutorFits /\ CallsFit /\ TasksFit /\ AssetsFit

----------------------------------------------------------------------------
(* Errors.                                                                 *)

LEMMA ErrorReadsBack ==
  ASSUME NEW e, e = Error(e.contract, e.execution, e.stage, e.failure, e.target),
         ValidError(e), DecodeSource(e.failure) = {e.failure}
  PROVE  /\ DecodeFailure(EncodeFailure(CapabilityFailed(e))) = {CapabilityFailed(e)}
         /\ EncodeFailure(CapabilityFailed(e)).kind = "Capability"
         /\ ReadsBack(<<"Failed", CapabilityFailed(e)>>)
<1> DEFINE f == CapabilityFailed(e)
           p == EncodeFailure(f)
<1>1. f[1] = "Capability" /\ f[2] = e
  BY DEF CapabilityFailed
<1>2. p = [kind |-> "Capability", contract |-> e.contract, execution |-> e.execution,
           stage |-> e.stage, failure |-> e.failure, target |-> e.target]
  BY <1>1 DEF EncodeFailure
<1>3. {Error(p.contract, p.execution, p.stage, s, p.target) : s \in DecodeSource(p.failure)} = {e}
  BY <1>2
<1>4. p.kind = "Capability"
  BY <1>2
<1> HIDE DEF p, f
<1>5. DecodeFailure(p) = {CapabilityFailed(x) : x \in {x \in {e} : ValidError(x)}}
  BY <1>3, <1>4 DEF DecodeFailure
<1>6. DecodeFailure(p) = {f}
  BY <1>5 DEF f
<1>7. ReadsBack(<<"Failed", f>>)
  BY <1>6 DEF ReadsBack, p
<1> QED
  BY <1>4, <1>6, <1>7 DEF p, f

Interrupting == {<<"Cancelled">>, <<"DeadlineExceeded">>}
MediaFailing == {<<"Media", <<"StorageFailed">>>>, <<"Media", <<"Unavailable">>>>}

LEMMA ErrorFields ==
  ASSUME NEW ref, NEW n, NEW stage, NEW failure, NEW target, NEW e,
         e = Error(ref, n, stage, failure, target)
  PROVE  /\ e = Error(e.contract, e.execution, e.stage, e.failure, e.target)
         /\ e.stage = stage /\ e.failure = failure /\ e.target = target
BY DEF Error

LEMMA TargetsOfResolution ==
  TargetsOf["ResolveInputs"] = {"Capability", "Parameter", "Input"}
    /\ TargetsOf["StartGenerationTask"] = {"Capability"}
BY DEF TargetsOf

LEMMA ResolutionErrorsAreFine ==
  ASSUME NEW ref, NEW n, NEW failure \in Interrupting \cup MediaFailing, NEW target,
         target[1] \in {"Capability", "Parameter", "Input"}
  PROVE  FineError(ResolutionError(ref, n, failure, target))
<1> DEFINE e == ResolutionError(ref, n, failure, target)
<1>1. /\ e = Error(e.contract, e.execution, e.stage, e.failure, e.target)
      /\ e.stage = "ResolveInputs" /\ e.failure = failure /\ e.target = target
  BY ErrorFields DEF ResolutionError
<1>2. failure[1] \in {"Cancelled", "DeadlineExceeded", "Media"}
  BY DEF Interrupting, MediaFailing
<1>3. failure \notin Refusals
  BY DEF Interrupting, MediaFailing, Refusals, InvalidInvocation, InvalidResult
<1>4. DecodeSource(failure) = {failure}
  BY <1>2 DEF DecodeSource
<1> HIDE DEF e
<1>5. ValidError(e)
  BY <1>1, <1>2, TargetsOfResolution DEF ValidError
<1> QED
  BY <1>1, <1>2, <1>3, <1>4, <1>5 DEF FineError, e

LEMMA StartErrorsAreFine ==
  ASSUME NEW ref, NEW n,
         NEW failure \in {"Cancelled", "DeadlineExceeded", "Unavailable", "Persistence"}
  PROVE  FineError(StartError(ref, n, failure))
<1> DEFINE e == StartError(ref, n, failure)
           f == <<"GenerationTaskStart", failure>>
<1>1. /\ e = Error(e.contract, e.execution, e.stage, e.failure, e.target)
      /\ e.stage = "StartGenerationTask" /\ e.failure = f /\ e.target = OfCapability
  BY ErrorFields DEF StartError
<1>2. f[1] = "GenerationTaskStart" /\ OfCapability[1] = "Capability"
  BY DEF OfCapability
<1>3. f \notin Refusals
  BY DEF Refusals, InvalidInvocation, InvalidResult
<1>4. DecodeSource(f) = {f}
  BY <1>2 DEF DecodeSource
<1> HIDE DEF e, f
<1>5. ValidError(e)
  BY <1>1, <1>2, TargetsOfResolution DEF ValidError
<1> QED
  BY <1>1, <1>2, <1>3, <1>4, <1>5 DEF FineError, e

LEMMA ReadinessErrorsAreFine ==
  ASSUME NEW ref, NEW n, NEW issue, ValidIssue(issue), issue.target[1] # "Capability",
         issue.category \notin RefusedIssues
  PROVE  FineError(ReadinessError(ref, n, issue))
<1> DEFINE target == OfParameter(issue.target[2])
           failure == <<"Readiness", issue>>
           e == Error(ref, n, "ResolveInputs", failure, target)
<1>1. /\ e = Error(e.contract, e.execution, e.stage, e.failure, e.target)
      /\ e.stage = "ResolveInputs" /\ e.failure = failure /\ e.target = target
  BY ErrorFields
<1>2. target[1] = "Parameter" /\ target[2] = issue.target[2]
      /\ failure[1] = "Readiness" /\ failure[2] = issue
  BY DEF OfParameter
<1>3. failure \notin Refusals
  BY DEF Refusals, InvalidInvocation, InvalidResult
<1>4. DecodeSource(failure) = {failure}
  BY <1>2 DEF DecodeSource, DecodeReadiness
<1> HIDE DEF e, failure, target
<1>5. ValidError(e)
  BY <1>1, <1>2, TargetsOfResolution DEF ValidError
<1>6. ReadinessError(ref, n, issue) = e
  BY <1>5 DEF ReadinessError, e, failure, target
<1> QED
  BY <1>1, <1>2, <1>3, <1>4, <1>5, <1>6 DEF FineError

----------------------------------------------------------------------------
(* The nodes of a plan that fits.                                          *)

LEMMA Contracts ==
  ASSUME NEW n, NodeFits(n)
  PROVE  Ref(n) \in {TextProvider, ImageMaker, VideoMaker, SpeechMaker} \cup Reading
BY BuiltInRefs DEF NodeFits

LEMMA NodeTable ==
  ASSUME NEW n, NodeFits(n)
  PROVE  /\ Ref(n) = TextProvider => HasParameters(n, {"text"}) /\ InputKeys(n) = {}
         /\ Ref(n) \in Reading => HasParameters(n, {"asset_id"}) /\ InputKeys(n) = {}
         /\ Ref(n) \in Generating => HasParameters(n, GenerationKeys(n))
                                       /\ ProfileKey \in GenerationKeys(n)
         /\ Ref(n) = ImageMaker => InputKeys(n) = {"prompt"} /\ TextInput(n) = "prompt"
         /\ Ref(n) = SpeechMaker => InputKeys(n) = {"text"} /\ TextInput(n) = "text"
         /\ Ref(n) = VideoMaker => /\ "image" \in InputKeys(n) /\ InputKeys(n) \subseteq {"image", "prompt"}
                              /\ TextInput(n) = "prompt"
<1> DEFINE inputs == BuiltIn[Ref(n)].inputs
<1>1. /\ DOMAIN Node(n).parameters = DOMAIN BuiltIn[Ref(n)].parameters
      /\ InputKeys(n) \subseteq DOMAIN inputs
      /\ \A k \in DOMAIN inputs : inputs[k].minimum # 0 => k \in InputKeys(n)
  BY DEF NodeFits, ParametersFit, BindingsFit, InputFits
<1>2. Ref(n) = TextProvider => HasParameters(n, {"text"}) /\ InputKeys(n) = {}
  BY <1>1, TextContract DEF HasParameters
<1>3. Ref(n) \in Reading => HasParameters(n, {"asset_id"}) /\ InputKeys(n) = {}
  BY <1>1, ReaderContracts DEF HasParameters
<1>4. Ref(n) = ImageMaker => /\ HasParameters(n, GenerationKeys(n)) /\ InputKeys(n) = {"prompt"}
                        /\ TextInput(n) = "prompt"
  BY <1>1, ImageContract DEF HasParameters, GenerationKeys, ImageMaker, TextInput
<1>5. Ref(n) = SpeechMaker => /\ HasParameters(n, GenerationKeys(n)) /\ InputKeys(n) = {"text"}
                         /\ TextInput(n) = "text"
  BY <1>1, SpeechContract DEF HasParameters, GenerationKeys, SpeechMaker, TextInput
<1>6. Ref(n) = VideoMaker => /\ HasParameters(n, GenerationKeys(n))
                        /\ "image" \in InputKeys(n) /\ InputKeys(n) \subseteq {"image", "prompt"}
                        /\ TextInput(n) = "prompt"
  BY <1>1, VideoContract DEF HasParameters, GenerationKeys, VideoMaker, TextInput
<1>7. ProfileKey \in GenerationKeys(n)
  BY DEF GenerationKeys
<1> QED
  BY <1>2, <1>3, <1>4, <1>5, <1>6, <1>7, BuiltInRefs

\* Where the text and the image of a generating node come from.
LEMMA TextSource ==
  ASSUME PlanFits, NEW n \in Nodes, Ref(n) \in Generating, TextInput(n) \in InputKeys(n)
  PROVE  LET m == SourceOf(n, TextInput(n))
         IN /\ m \in Nodes /\ m \in Needed(n) /\ Ref(m) = TextProvider
            /\ Gives(m) = [type |-> "Text", parts |-> <<Literal(Node(m).parameters["text"])>>]
<1> DEFINE k == TextInput(n)
           m == SourceOf(n, k)
<1>1. NodeFits(n) /\ InputFits(n, k)
  BY GivenItem DEF PlanFits
<1>2. BuiltIn[Ref(n)].inputs[k].accepts[NoRole] = {"Text"}
  BY <1>1, NodeTable, BuiltInRefs, ImageContract, VideoContract, SpeechContract
<1>3. m \in Nodes /\ m \in Needed(n) /\ OutputType(m) = "Text"
  BY <1>1, <1>2 DEF InputFits, Needed
<1>4. Ref(m) = TextProvider
  BY <1>3, OutputTable DEF PlanFits, NodeFits
<1> QED
  BY <1>3, <1>4 DEF Gives

LEMMA ImageSource ==
  ASSUME PlanFits, NEW n \in Nodes, Ref(n) = VideoMaker
  PROVE  LET m == SourceOf(n, "image")
         IN /\ m \in Nodes /\ m \in Needed(n) /\ Ref(m) \in Reading \cup {ImageMaker}
            /\ OutputType(m) = "Image"
            /\ Gives(m) = ManagedRef("Image", AssetOf(m), Digest(AssetOf(m)))
<1> DEFINE m == SourceOf(n, "image")
<1>1. NodeFits(n) /\ "image" \in InputKeys(n) /\ InputFits(n, "image")
  BY NodeTable, GivenItem DEF PlanFits
<1>2. m \in Nodes /\ m \in Needed(n) /\ OutputType(m) = "Image"
  BY <1>1, VideoContract DEF InputFits, Needed
<1>3. Ref(m) \in Reading \cup {ImageMaker}
  BY <1>2, OutputTable DEF PlanFits, NodeFits
<1>4. Ref(m) # TextProvider
  BY <1>3, BuiltInRefs
<1> QED
  BY <1>2, <1>3, <1>4 DEF Gives

\* A node that has succeeded gives its output.
LEMMA SucceededOutput ==
  ASSUME PlanFits, RowFits, NEW n \in Nodes, row.nodes[n].state = "Succeeded"
  PROVE  OutputsOf(n) = Output(n)
<1>1. row.nodes[n].outputs = {EncodeOutputs(Output(n))}
  <2>1. ShapeIsValid(row.nodes[n]) /\ row.nodes[n].outputs \subseteq {EncodeOutputs(Output(n))}
    BY DEF RowFits, NodeRow
  <2>2. row.nodes[n].outputs # {}
    BY <2>1 DEF ShapeIsValid
  <2> QED
    BY <2>1, <2>2
<1>2. DecodeOutputs(EncodeOutputs(Output(n))) = {Output(n)}
  BY OutputDecodes DEF PlanFits
<1>3. UNION {DecodeOutputs(p) : p \in row.nodes[n].outputs} = {Output(n)}
  BY <1>1, <1>2
<1> QED
  BY <1>3 DEF OutputsOf

LEMMA RowRestores ==
  ASSUME PlanFits, RowFits
  PROVE  Restores(row)
<1>1. ASSUME NEW n \in Nodes PROVE ShapeIsValid(row.nodes[n]) /\ Decodes(row.nodes[n])
  <2>1. NodeRow(n) /\ NodeFits(n)
    BY DEF RowFits, PlanFits
  <2>2. \A o \in row.nodes[n].outputs : DecodeOutputs(o) # {}
    BY <2>1, OutputDecodes DEF NodeRow
  <2> QED
    BY <2>1, <2>2 DEF NodeRow, Decodes
<1> QED
  BY <1>1 DEF RowFits, RowShape, Restores, In

LEMMA InputsResolve ==
  ASSUME PlanFits, RowFits, NEW n \in Nodes, SourcesSucceeded(n)
  PROVE  ResolveInputs(n) = {Given(n)}
<1> DEFINE bindings == Node(n).bindings
           Value(k) == [ordered |-> bindings[<<n, k>>].ordered,
                   items |-> [i \in DOMAIN bindings[<<n, k>>].items |->
                     LET item == bindings[<<n, k>>].items[i]
                     IN [id |-> item.id, role |-> item.role,
                         value |-> OutputsOf(item.source)[item.output]]]]
           Same(k) == [ordered |-> bindings[<<n, k>>].ordered,
                   items |-> [i \in DOMAIN bindings[<<n, k>>].items |->
                     LET item == bindings[<<n, k>>].items[i]
                     IN [id |-> item.id, role |-> item.role,
                         value |-> Output(item.source)[item.output]]]]
<1>1. ASSUME NEW k \in InputKeys(n) PROVE Value(k) = Same(k)
  <2>1. InputFits(n, k)
    BY GivenItem
  <2>2. \A i \in DOMAIN bindings[<<n, k>>].items :
          OutputsOf(bindings[<<n, k>>].items[i].source) = Output(bindings[<<n, k>>].items[i].source)
    <3>1. DOMAIN bindings[<<n, k>>].items = {1}
          /\ bindings[<<n, k>>].items[1].source \in Nodes \cap Needed(n)
      BY <2>1 DEF InputFits, SourceOf, Needed
    <3> QED
      BY <3>1, SucceededOutput DEF SourcesSucceeded
  <2> QED
    BY <2>2
<1>2. Given(n) = [k \in InputKeys(n) |-> Same(k)]
  BY DEF Given
<1>3. [k \in InputKeys(n) |-> Value(k)] = [k \in InputKeys(n) |-> Same(k)]
  <2> HIDE DEF Value, Same
  <2> QED
    BY <1>1
<1>4. ResolveInputs(n) = InputSet(Ref(n), [k \in InputKeys(n) |-> Value(k)])
  BY DEF ResolveInputs, InputKeys
<1> QED
  <2> HIDE DEF Value, Same
  <2> QED
    BY <1>2, <1>3, <1>4, InputsAreAccepted

\* The Asset of a call's media is there, by type and exact content.
LEMMA MediaAsset ==
  ASSUME PlanFits, AssetsFit, NEW n \in Nodes, CallFits(n), call[n].pc # "none",
         Ref(n) \in Reading \cup {VideoMaker}
  PROVE  /\ AssetIs(SelectionOf(n).asset, SelectionOf(n).type)
         /\ SelectionOf(n).digest \in {AnyDigest, Digest(SelectionOf(n).asset)}
         /\ MediaOf(n) = ManagedRef(SelectionOf(n).type, SelectionOf(n).asset,
                                    Digest(SelectionOf(n).asset))
         /\ Ref(n) = VideoMaker => InputOf(n, "image") = MediaOf(n)
<1>1. NodeFits(n)
  BY DEF PlanFits
<1>2. CASE Ref(n) \in Reading
  <2>1. SelectionOf(n) = Selection(Node(n).parameters["asset_id"], OutputType(n), AnyDigest)
    BY <1>2 DEF SelectionOf
  <2>2. AssetIs(Node(n).parameters["asset_id"], OutputType(n))
    BY <1>1, <1>2 DEF NodeFits, AssetsFit
  <2>3. Ref(n) # TextProvider /\ Ref(n) # VideoMaker
    BY <1>2, BuiltInRefs
  <2>4. MediaOf(n) = ManagedRef(OutputType(n), Node(n).parameters["asset_id"],
                                Digest(Node(n).parameters["asset_id"]))
    BY <1>2, <2>3 DEF MediaOf, Gives, AssetOf
  <2> QED
    BY <2>1, <2>2, <2>3, <2>4 DEF Selection
<1>3. CASE Ref(n) = VideoMaker
  <2> DEFINE m == SourceOf(n, "image")
  <2>1. /\ m \in Nodes /\ m \in Needed(n) /\ Ref(m) \in Reading \cup {ImageMaker}
        /\ OutputType(m) = "Image" /\ Gives(m) = ManagedRef("Image", AssetOf(m), Digest(AssetOf(m)))
    BY <1>3, ImageSource
  <2>2. Ref(n) \notin Reading
    BY <1>3, BuiltInRefs
  <2>3. InputOf(n, "image") = Gives(m)
    BY <1>1, <1>3, NodeTable, GivenItem DEF CallFits, InputOf
  <2>4. AssetIs(AssetOf(m), "Image")
    <3>1. CASE Ref(m) \in Reading
      BY <2>1, <3>1 DEF PlanFits, NodeFits, AssetsFit, AssetOf
    <3>2. CASE Ref(m) = ImageMaker
      <4>1. Ref(m) \in Generating /\ Ref(m) \notin Reading
        BY <3>2, BuiltInRefs
      <4>2. row.nodes[m].state = "Succeeded"
        BY <2>1 DEF CallFits, SourcesSucceeded
      <4> QED
        BY <2>1, <4>1, <4>2 DEF AssetsFit, AssetOf
    <3> QED
      BY <2>1, <3>1, <3>2
  <2>5. SelectionOf(n) = Selection(AssetOf(m), "Image", Digest(AssetOf(m)))
    BY <2>1, <2>2, <2>3 DEF SelectionOf, ManagedRef
  <2>6. MediaOf(n) = Gives(m)
    BY <2>2 DEF MediaOf
  <2> QED
    BY <2>1, <2>3, <2>4, <2>5, <2>6 DEF Selection
<1> QED
  BY <1>2, <1>3

LEMMA MediaIsRead ==
  ASSUME PlanFits, AssetsFit, NEW n \in Nodes, CallFits(n), call[n].pc # "none",
         Ref(n) \in Reading \cup {VideoMaker}, NEW past, NEW read \in Reads(SelectionOf(n), past)
  PROVE  read \in MediaReads(n)
<1> DEFINE s == SelectionOf(n)
<1>1. /\ AssetIs(s.asset, s.type) /\ s.digest \in {AnyDigest, Digest(s.asset)}
      /\ MediaOf(n) = ManagedRef(s.type, s.asset, Digest(s.asset))
  BY MediaAsset
<1> HIDE DEF s
<1>2. CASE past
  BY <1>2 DEF Reads, MediaReads
<1>3. CASE ~past
  <2>1. read \in ReadResults(s)
    BY <1>3 DEF Reads, s
  <2> QED
    BY <1>1, <2>1 DEF ReadResults, AssetIs, MediaReads
<1> QED
  BY <1>2, <1>3

----------------------------------------------------------------------------
(* The invariant gives the properties.                                     *)

LEMMA ConstructedOnesReadBack == ConstructedErrorsReadBack
<1>1. ASSUME NEW ref \in DOMAIN Registry, NEW e \in ConstructedErrors(ref, 1)
      PROVE  ReadsBack(<<"Failed", CapabilityFailed(e)>>)
  <2>1. SUFFICES /\ e = Error(e.contract, e.execution, e.stage, e.failure, e.target)
                 /\ ValidError(e) /\ DecodeSource(e.failure) = {e.failure}
    BY ErrorReadsBack
  <2>2. ASSUME NEW f \in Interruptions \cup MediaFailures \cup StartFailures
                           \cup {InvalidInvocation, InvalidResult}
        PROVE  /\ DecodeSource(f) = {f} /\ f[1] # "Readiness"
               /\ f \in Interruptions \cup MediaFailures =>
                    f[1] \in {"Cancelled", "DeadlineExceeded", "Media"}
               /\ f \in StartFailures => f[1] = "GenerationTaskStart"
    <3>1. /\ f \in Interruptions => f[1] \in {"Cancelled", "DeadlineExceeded"}
          /\ f \in MediaFailures => f[1] = "Media"
          /\ f \in StartFailures => f[1] = "GenerationTaskStart"
          /\ f = InvalidInvocation => f[1] = "InvalidCapabilityInvocation"
          /\ f = InvalidResult => f[1] = "InvalidCapabilityResult"
      BY DEF Interruptions, MediaFailures, StartFailures, InvalidInvocation, InvalidResult
    <3>2. /\ f[1] # "Readiness" /\ f[1] # "Provider"
          /\ f \in Interruptions \cup MediaFailures =>
               f[1] \in {"Cancelled", "DeadlineExceeded", "Media"}
      BY <3>1
    <3> QED
      BY <3>1, <3>2 DEF DecodeSource
  <2>3. ASSUME NEW f \in ProviderFailures
        PROVE  DecodeSource(f) = {f} /\ f[1] = "Provider"
    <3>1. PICK c \in ProviderCategories, accepted \in BOOLEAN, delayed \in BOOLEAN :
            f \in ProviderFailure(c, accepted, delayed)
      BY DEF ProviderFailures
    <3> DEFINE retryable == c \in AlwaysRetryable \/ (c = "DeadlineExceeded" /\ ~accepted)
    <3>2. f = <<"Provider", c, retryable, delayed>> /\ (delayed => retryable)
      BY <3>1 DEF ProviderFailure
    <3>3. f[1] = "Provider" /\ f[2] = c /\ f[3] = retryable /\ f[4] = delayed
      BY <3>2
    <3>4. RestoreProvider(c, retryable, delayed) = {f}
      BY <3>2 DEF RestoreProvider
    <3> HIDE DEF retryable
    <3> QED
      BY <3>3, <3>4 DEF DecodeSource
  <2>4. CASE e \in ResolutionErrors(ref, 1)
    <3>1. PICK f, t :
            /\ e = Error(ref, 1, "ResolveInputs", f, t)
            /\ \/ f \in Interruptions \cup {InvalidInvocation} /\ t = OfCapability
               \/ f \in Interruptions \cup MediaFailures /\ t[1] \in {"Parameter", "Input"}
      BY <2>4 DEF ResolutionErrors, ErrorsAt, OfParameter, OfInput
    <3>2. /\ e = Error(e.contract, e.execution, e.stage, e.failure, e.target)
          /\ e.stage = "ResolveInputs" /\ e.failure = f /\ e.target = t
      BY <3>1, ErrorFields
    <3>3. DecodeSource(f) = {f} /\ f[1] # "Readiness"
      BY <2>2, <3>1
    <3>4. \/ /\ f[1] \in {"Cancelled", "DeadlineExceeded", "Media"}
             /\ t[1] \in {"Capability", "Parameter", "Input"}
          \/ f[1] = "InvalidCapabilityInvocation" /\ t[1] = "Capability"
      <4>1. f \in Interruptions \cup MediaFailures =>
              f[1] \in {"Cancelled", "DeadlineExceeded", "Media"}
        BY <2>2
      <4> QED
        BY <3>1, <4>1 DEF OfCapability, InvalidInvocation
    <3>5. ValidError(e)
      BY <3>2, <3>4, TargetsOfResolution DEF ValidError
    <3> QED
      BY <3>2, <3>3, <3>5
  <2>5. CASE e \in CallErrors(ref, 1)
    <3>1. PICK stage, f :
            /\ e = Error(ref, 1, stage, f, OfCapability)
            /\ \/ stage = "CallProvider" /\ f \in Interruptions \cup ProviderFailures
               \/ stage = "StartGenerationTask" /\ f \in StartFailures
      BY <2>5 DEF CallErrors, ErrorsAt
    <3>2. /\ e = Error(e.contract, e.execution, e.stage, e.failure, e.target)
          /\ e.stage = stage /\ e.failure = f /\ e.target = OfCapability
      BY <3>1, ErrorFields
    <3>3. DecodeSource(f) = {f}
      BY <2>2, <2>3, <3>1
    <3>4. \/ stage = "CallProvider" /\ f[1] \in {"Cancelled", "DeadlineExceeded", "Provider"}
          \/ stage = "StartGenerationTask" /\ f[1] = "GenerationTaskStart"
      BY <2>2, <2>3, <3>1 DEF Interruptions
    <3>5. OfCapability[1] = "Capability" /\ TargetsOf["CallProvider"] = {"Capability"}
          /\ TargetsOf["StartGenerationTask"] = {"Capability"}
      BY DEF OfCapability, TargetsOf
    <3>6. ValidError(e)
      BY <3>2, <3>4, <3>5 DEF ValidError
    <3> QED
      BY <3>2, <3>3, <3>6
  <2>6. CASE e \in OutputErrors(ref, 1)
    <3>1. PICK stage, f, t :
            /\ e = Error(ref, 1, stage, f, t) /\ t[1] = "Output"
            /\ \/ stage = "WriteManagedMedia" /\ f \in Interruptions \cup MediaFailures
               \/ stage \in {"ValidateProviderResult", "AssembleOutputs"} /\ f = InvalidResult
      BY <2>6 DEF OutputErrors, ErrorsAt, OfOutput
    <3>2. /\ e = Error(e.contract, e.execution, e.stage, e.failure, e.target)
          /\ e.stage = stage /\ e.failure = f /\ e.target = t
      BY <3>1, ErrorFields
    <3>3. DecodeSource(f) = {f}
      BY <2>2, <3>1
    <3>4. \/ stage = "WriteManagedMedia" /\ f[1] \in {"Cancelled", "DeadlineExceeded", "Media"}
          \/ stage \in {"ValidateProviderResult", "AssembleOutputs"}
               /\ f[1] = "InvalidCapabilityResult"
      BY <2>2, <3>1 DEF InvalidResult
    <3>5. /\ TargetsOf["WriteManagedMedia"] = {"Capability", "Output"}
          /\ TargetsOf["ValidateProviderResult"] = {"Capability", "Output"}
          /\ TargetsOf["AssembleOutputs"] = {"Output"}
      BY DEF TargetsOf
    <3>6. ValidError(e)
      BY <3>1, <3>2, <3>4, <3>5 DEF ValidError
    <3> QED
      BY <3>2, <3>3, <3>6
  <2> QED
    BY <2>4, <2>5, <2>6 DEF ConstructedErrors
<1>2. ASSUME NEW f \in TaskFailures PROVE ReadsBack(<<"Failed", f>>)
  <2>1. PICK g : f = <<"GenerationTask", g>>
    BY DEF TaskFailures
  <2> QED
    BY <2>1 DEF ReadsBack, EncodeFailure, DecodeFailure
<1> QED
  BY <1>1, <1>2 DEF ConstructedErrorsReadBack

LEMMA GoodOutcomeOfCall ==
  ASSUME CallsFit, NEW n \in Nodes, call[n].outcome # <<>>
  PROVE  GoodOutcome(n)
BY DEF CallsFit, CallFits

LEMMA InductiveReadsBack == Inductive => OutcomesReadBack
<1> SUFFICES ASSUME Inductive PROVE OutcomesReadBack
  OBVIOUS
<1>1. ASSUME NEW n \in Nodes, call[n].outcome # <<>> PROVE ReadsBack(call[n].outcome)
  <2> DEFINE o == call[n].outcome
  <2>1. GoodOutcome(n) /\ NodeFits(n)
    BY <1>1, GoodOutcomeOfCall DEF Inductive, PlanFits
  <2>2. CASE o = <<"Completed", Output(n)>>
    BY <2>1, <2>2, OutputDecodes DEF ReadsBack
  <2>3. CASE o = <<"Waiting">>
    BY <2>3 DEF ReadsBack
  <2>4. CASE o = <<"Failed", CapabilityFailed(o[2][2])>> /\ FineError(o[2][2])
    BY <2>4, ErrorReadsBack DEF FineError
  <2> QED
    BY <2>1, <2>2, <2>3, <2>4 DEF GoodOutcome
<1> QED
  BY <1>1, ConstructedOnesReadBack, RowRestores DEF Inductive, OutcomesReadBack

LEMMA InductiveAgrees == Inductive => NodeAndTaskAgree
BY DEF Inductive, TasksFit, NodeAndTaskAgree

LEMMA InductiveNeverRefuses == Inductive => AdmittedNeverRefused
<1> SUFFICES ASSUME Inductive PROVE AdmittedNeverRefused
  OBVIOUS
<1>1. executor.error \notin {"inputs", "unreadable"}
  BY DEF Inductive, ExecutorFits
<1>2. ASSUME NEW n \in Nodes, call[n].outcome # <<>>, call[n].outcome[1] = "Failed"
      PROVE  LET failure == call[n].outcome[2][2].failure
             IN failure \notin Refusals
                  /\ (failure[1] = "Readiness" => failure[2].category \notin RefusedIssues)
  <2>1. GoodOutcome(n)
    BY <1>2, GoodOutcomeOfCall DEF Inductive
  <2>2. FineError(call[n].outcome[2][2])
    BY <1>2, <2>1 DEF GoodOutcome
  <2> QED
    BY <2>2 DEF FineError
<1> QED
  BY <1>1, <1>2 DEF AdmittedNeverRefused

----------------------------------------------------------------------------
(* The initial states.                                                     *)

LEMMA InitInductive == Init => Inductive
<1> SUFFICES ASSUME Init PROVE Inductive
  OBVIOUS
<1>1. PlanFits
  BY FrozenPlanFits DEF Init
<1>2. /\ row = [state |-> "Queued", nodes |-> [n \in Nodes |-> PendingNode]]
      /\ executor = [pc |-> "loop", batch |-> {}, error |-> "none"]
      /\ call = [n \in Nodes |-> NoCall] /\ tasks = <<>> /\ DOMAIN tasks = {}
  BY DEF Init
<1>3. \A n \in Nodes : row.nodes[n] = PendingNode /\ call[n] = NoCall
  BY <1>2
<1>4. RowShape
  BY <1>2 DEF RowShape, PendingNode
<1>5. ASSUME NEW n \in Nodes PROVE NodeRow(n)
  <2>1. ShapeIsValid(PendingNode)
    BY DEF ShapeIsValid, PendingNode
  <2>2. row.nodes[n] = PendingNode
    BY <1>3
  <2> QED
    BY <2>1, <2>2 DEF NodeRow, PendingNode, NodeStates
<1>6. ExecutorFits
  BY <1>2 DEF ExecutorFits
<1>7. ASSUME NEW n \in Nodes PROVE CallFits(n)
  BY <1>2, <1>3, <1>7 DEF CallFits, NoCall, CallAt, Under, Starting
<1>8. TasksFit
  BY <1>2, <1>3 DEF TasksFit, PendingNode
<1>9. AssetsFit
  BY <1>3 DEF Init, AssetsFit, AssetIs, PendingNode
<1> QED
  BY <1>1, <1>2, <1>4, <1>5, <1>6, <1>7, <1>8, <1>9 DEF Inductive, RowFits, CallsFit

----------------------------------------------------------------------------
(* What a step leaves alone.                                               *)

LEMMA PlanStays ==
  ASSUME plan' = plan
  PROVE  /\ Nodes' = Nodes /\ PlanFits' = PlanFits
         /\ \A n : /\ Ref(n)' = Ref(n) /\ Output(n)' = Output(n) /\ Given(n)' = Given(n)
                   /\ Needed(n)' = Needed(n) /\ Wanted(n)' = Wanted(n)
                   /\ MediaOf(n)' = MediaOf(n) /\ MediaReads(n)' = MediaReads(n)
                   /\ OutputType(n)' = OutputType(n)
<1>1. Nodes' = Nodes /\ \A n : Node(n)' = Node(n) /\ Ref(n)' = Ref(n)
  BY DEF Nodes, Node, Ref
<1>2. \A n : ContractOfNode(n)' = ContractOfNode(n)
  BY <1>1 DEF ContractOfNode
<1>3. \A n : OutputKey(n)' = OutputKey(n)
  BY <1>2 DEF OutputKey
<1>4. \A n : OutputType(n)' = OutputType(n)
  BY <1>2, <1>3 DEF OutputType
<1>5. \A n : AssetOf(n)' = AssetOf(n)
  BY <1>1 DEF AssetOf
<1>6. \A n : Gives(n)' = Gives(n)
  BY <1>1, <1>4, <1>5 DEF Gives
<1>7. \A n : Output(n)' = Output(n)
  BY <1>3, <1>6 DEF Output
<1>8. \A n : InputKeys(n)' = InputKeys(n)
  BY <1>1 DEF InputKeys
<1>9. ASSUME NEW n PROVE Given(n)' = Given(n)
  <2> DEFINE b == Node(n).bindings
             Value(k, i) == Output(b[<<n, k>>].items[i].source)[b[<<n, k>>].items[i].output]
             ItemsOf(k) == [i \in DOMAIN b[<<n, k>>].items |->
               [id |-> b[<<n, k>>].items[i].id, role |-> b[<<n, k>>].items[i].role,
                value |-> Value(k, i)]]
  <2>1. Given(n) = [k \in InputKeys(n) |-> [ordered |-> b[<<n, k>>].ordered, items |-> ItemsOf(k)]]
    BY DEF Given
  <2>2. Given(n)' = [k \in InputKeys(n)' |-> [ordered |-> b'[<<n, k>>].ordered, items |-> ItemsOf(k)']]
    BY DEF Given
  <2>3. b' = b
    BY <1>1
  <2> HIDE DEF b
  <2>4. \A k, i : Value(k, i)' = Value(k, i)
    BY <1>7, <2>3
  <2> HIDE DEF Value
  <2>5. \A k : ItemsOf(k)' = ItemsOf(k)
    BY <2>3, <2>4
  <2> HIDE DEF ItemsOf
  <2> QED
    BY <1>8, <2>1, <2>2, <2>3, <2>5
<1>10. \A n : Needed(n)' = Needed(n)
  BY <1>1 DEF Needed
<1>11. \A n, k : SourceOf(n, k)' = SourceOf(n, k) /\ Item(n, k)' = Item(n, k)
                   /\ Bound(n, k)' = Bound(n, k)
  BY <1>1 DEF SourceOf, Item, Bound
<1>12. \A n : MediaOf(n)' = MediaOf(n)
  BY <1>1, <1>6, <1>11 DEF MediaOf
<1>13. \A n : MediaReads(n)' = MediaReads(n)
  BY <1>12 DEF MediaReads
<1>14. \A n : TextInput(n)' = TextInput(n) /\ ImageOf(n)' = ImageOf(n) /\ ProfileOf(n)' = ProfileOf(n)
  BY <1>1 DEF TextInput, ImageOf, ProfileOf
<1>15. \A n : Wanted(n)' = Wanted(n)
  BY <1>1, <1>11, <1>14 DEF Wanted
<1>16. \A n, k : InputFits(n, k)' = InputFits(n, k)
  BY <1>1, <1>3, <1>4, <1>11 DEF InputFits
<1>17. \A n : ParametersFit(n)' = ParametersFit(n) /\ BindingsFit(n)' = BindingsFit(n)
  BY <1>1, <1>8, <1>16 DEF ParametersFit, BindingsFit
<1>18. \A n : NodeFits(n)' = NodeFits(n)
  BY <1>1, <1>4, <1>14, <1>17 DEF NodeFits
<1>19. PlanFits' = PlanFits
  BY <1>1, <1>18 DEF PlanFits
<1> QED
  BY <1>1, <1>4, <1>7, <1>9, <1>10, <1>12, <1>13, <1>15, <1>19

\* A call that keeps its place, while its node does not go back.
LEMMA CallStays ==
  ASSUME plan' = plan, NEW n \in Nodes, CallFits(n),
         call'[n] = [pc |-> call[n].pc, inputs |-> call[n].inputs, held |-> call[n].held,
                     outcome |-> call[n].outcome, cancelled |-> call'[n].cancelled,
                     aborted |-> call'[n].aborted, elapsed |-> call'[n].elapsed],
         n \in DOMAIN tasks' <=> n \in DOMAIN tasks,
         \A m \in Nodes : row.nodes[m].state = "Succeeded" => row.nodes'[m].state = "Succeeded",
         call[n].pc # "none" /\ row.nodes[n].state # "Pending" => row.nodes'[n].state # "Pending",
         call[n].pc \in Under \cup {"ended"} /\ row.nodes[n].state \in TakenUp =>
           row.nodes'[n].state \in TakenUp
  PROVE  CallFits(n)'
<1>1. /\ Nodes' = Nodes /\ Ref(n)' = Ref(n) /\ Output(n)' = Output(n) /\ Given(n)' = Given(n)
      /\ Needed(n)' = Needed(n) /\ MediaOf(n)' = MediaOf(n) /\ MediaReads(n)' = MediaReads(n)
  BY PlanStays
<1>2. /\ call'[n].pc = call[n].pc /\ call'[n].inputs = call[n].inputs
      /\ call'[n].held = call[n].held /\ call'[n].outcome = call[n].outcome
  OBVIOUS
<1>3. SourcesSucceeded(n) => SourcesSucceeded(n)'
  BY <1>1 DEF SourcesSucceeded
<1>4. GoodOutcome(n) => GoodOutcome(n)'
  BY <1>1, <1>2 DEF GoodOutcome
<1> QED
  BY <1>1, <1>2, <1>3, <1>4 DEF CallFits

\* The call of one node moves, or is begun; all else stays.
LEMMA OneCallMoves ==
  ASSUME Inductive, NEW n \in Nodes, UNCHANGED others,
         call[n].pc # "none",
         \E c : call' = [call EXCEPT ![n] = c],
         CallFits(n)'
  PROVE  Inductive'
<1> USE DEF Inductive, others
<1>1. PlanFits' /\ Nodes' = Nodes
        /\ \A m : Ref(m)' = Ref(m) /\ Wanted(m)' = Wanted(m) /\ Output(m)' = Output(m)
                    /\ Needed(m)' = Needed(m) /\ OutputType(m)' = OutputType(m)
  BY PlanStays
<1>2. DOMAIN call' = Nodes /\ \A m \in Nodes : m # n => call'[m] = call[m]
  BY DEF CallsFit
<1>3. RowFits'
  BY <1>1 DEF RowFits, RowShape, NodeRow, ShapeIsValid
<1>4. \A m \in Nodes : SourcesSucceeded(m)' = SourcesSucceeded(m)
  BY <1>1 DEF SourcesSucceeded
<1>5. ExecutorFits'
  <2>1. \A m \in executor.batch : m # n
    BY DEF ExecutorFits
  <2> QED
    BY <1>1, <1>2, <1>4, <2>1 DEF ExecutorFits
<1>6. ASSUME NEW m \in Nodes PROVE CallFits(m)'
  <2>1. CASE m = n
    BY <2>1
  <2>2. CASE m # n
    <3>1. CallFits(m) /\ call'[m] = call[m]
      BY <1>2, <2>2 DEF CallsFit
    <3>2. call'[m] = [pc |-> call[m].pc, inputs |-> call[m].inputs, held |-> call[m].held,
                      outcome |-> call[m].outcome, cancelled |-> call'[m].cancelled,
                      aborted |-> call'[m].aborted, elapsed |-> call'[m].elapsed]
      BY <3>1 DEF CallFits
    <3> QED
      BY <3>1, <3>2, CallStays
  <2> QED
    BY <2>1, <2>2
<1>7. TasksFit'
  BY <1>1 DEF TasksFit
<1>8. AssetsFit'
  BY <1>1 DEF AssetsFit, AssetIs
<1> QED
  BY <1>1, <1>2, <1>3, <1>5, <1>6, <1>7, <1>8 DEF CallsFit

----------------------------------------------------------------------------
(* The steps of a call.                                                    *)

\* The call with another place, reading and outcome.
Moved(n, pc, held, outcome) ==
  [pc |-> pc, inputs |-> call[n].inputs, held |-> held, outcome |-> outcome,
   cancelled |-> call[n].cancelled, aborted |-> call[n].aborted, elapsed |-> call[n].elapsed]

LEMMA CallRecord ==
  ASSUME CallsFit, NEW n \in Nodes
  PROVE  /\ CallFits(n) /\ n \in DOMAIN call
         /\ \A pc : Go(n, pc) =>
              call' = [call EXCEPT ![n] = Moved(n, pc, call[n].held, call[n].outcome)]
         /\ \A pc, held : call' = [call EXCEPT ![n].pc = pc, ![n].held = held] =>
              call' = [call EXCEPT ![n] = Moved(n, pc, held, call[n].outcome)]
         /\ \A outcome : EndWith(n, outcome) =>
              call' = [call EXCEPT ![n] = Moved(n, "ended", call[n].held, outcome)]
<1>1. CallFits(n) /\ n \in DOMAIN call
  BY DEF CallsFit
<1>2. call[n] = Moved(n, call[n].pc, call[n].held, call[n].outcome)
  BY <1>1 DEF CallFits, Moved
<1>3. \A pc : [call[n] EXCEPT !.pc = pc] = Moved(n, pc, call[n].held, call[n].outcome)
  BY <1>2 DEF Moved
<1>4. \A pc, held : [Moved(n, pc, call[n].held, call[n].outcome) EXCEPT !.held = held]
                      = Moved(n, pc, held, call[n].outcome)
  BY DEF Moved
<1>5. \A outcome : [Moved(n, "ended", call[n].held, call[n].outcome) EXCEPT !.outcome = outcome]
                      = Moved(n, "ended", call[n].held, outcome)
  BY DEF Moved
<1>6. ASSUME NEW pc, Go(n, pc)
      PROVE  call' = [call EXCEPT ![n] = Moved(n, pc, call[n].held, call[n].outcome)]
  BY <1>3, <1>6 DEF Go
<1>7. ASSUME NEW pc, NEW held, call' = [call EXCEPT ![n].pc = pc, ![n].held = held]
      PROVE  call' = [call EXCEPT ![n] = Moved(n, pc, held, call[n].outcome)]
  <2>1. call' = [call EXCEPT ![n] = [[call[n] EXCEPT !.pc = pc] EXCEPT !.held = held]]
    BY <1>1, <1>7
  <2> QED
    BY <1>3, <1>4, <2>1
<1>8. ASSUME NEW outcome, EndWith(n, outcome)
      PROVE  call' = [call EXCEPT ![n] = Moved(n, "ended", call[n].held, outcome)]
  <2>1. call' = [call EXCEPT ![n] = [[call[n] EXCEPT !.pc = "ended"] EXCEPT !.outcome = outcome]]
    BY <1>1, <1>8 DEF EndWith
  <2> QED
    BY <1>3, <1>5, <2>1
<1> QED
  BY <1>1, <1>6, <1>7, <1>8

LEMMA CallGoes ==
  ASSUME Inductive, NEW n \in Nodes, UNCHANGED others, call[n].pc \in Under,
         NEW pc \in Under, NEW held,
         call' = [call EXCEPT ![n] = Moved(n, pc, held, call[n].outcome)],
         pc = "image" => Ref(n) = VideoMaker,
         pc \in {"reading", "read"} => Ref(n) \in Reading \cup {VideoMaker},
         pc = "read" => held \in MediaReads(n),
         pc \in Starting => Ref(n) \in Generating
                              /\ (Ref(n) = VideoMaker => held = <<"Readable", MediaOf(n)>>)
  PROVE  Inductive'
<1>1. CallFits(n) /\ n \in DOMAIN call
  BY CallRecord DEF Inductive
<1>2. call'[n] = Moved(n, pc, held, call[n].outcome)
  BY <1>1
<1>3. /\ call'[n].pc = pc /\ call'[n].inputs = call[n].inputs /\ call'[n].held = held
      /\ call'[n].outcome = call[n].outcome
      /\ call'[n] = [pc |-> call'[n].pc, inputs |-> call'[n].inputs, held |-> call'[n].held,
                     outcome |-> call'[n].outcome, cancelled |-> call'[n].cancelled,
                     aborted |-> call'[n].aborted, elapsed |-> call'[n].elapsed]
  BY <1>2 DEF Moved
<1>4. plan' = plan /\ row' = row /\ tasks' = tasks
  BY DEF others
<1>5. /\ Ref(n)' = Ref(n) /\ Given(n)' = Given(n) /\ MediaOf(n)' = MediaOf(n)
      /\ MediaReads(n)' = MediaReads(n) /\ SourcesSucceeded(n)' = SourcesSucceeded(n)
  BY <1>4, PlanStays DEF SourcesSucceeded
<1>6. call[n].pc # "none" /\ pc \notin {"none", "ended", "committed"}
  BY DEF Under, Starting
<1>7. CallFits(n)'
  BY <1>1, <1>3, <1>4, <1>5, <1>6 DEF CallFits
<1> QED
  BY <1>6, <1>7, OneCallMoves

LEMMA CallEnds ==
  ASSUME Inductive, NEW n \in Nodes, UNCHANGED others, call[n].pc \in Under, NEW outcome,
         EndWith(n, outcome),
         \/ outcome = <<"Completed", Output(n)>> /\ Ref(n) \notin Generating
         \/ \E e : FineError(e) /\ outcome = <<"Failed", CapabilityFailed(e)>>
  PROVE  Inductive'
<1>1. /\ CallFits(n) /\ n \in DOMAIN call
      /\ call' = [call EXCEPT ![n] = Moved(n, "ended", call[n].held, outcome)]
  BY CallRecord DEF Inductive
<1>2. call'[n] = Moved(n, "ended", call[n].held, outcome)
  BY <1>1
<1>3. /\ call'[n].pc = "ended" /\ call'[n].inputs = call[n].inputs
      /\ call'[n].outcome = outcome
      /\ call'[n] = [pc |-> call'[n].pc, inputs |-> call'[n].inputs, held |-> call'[n].held,
                     outcome |-> call'[n].outcome, cancelled |-> call'[n].cancelled,
                     aborted |-> call'[n].aborted, elapsed |-> call'[n].elapsed]
  BY <1>2 DEF Moved
<1>4. plan' = plan /\ row' = row /\ tasks' = tasks
  BY DEF others
<1>5. /\ Ref(n)' = Ref(n) /\ Given(n)' = Given(n) /\ Output(n)' = Output(n)
      /\ SourcesSucceeded(n)' = SourcesSucceeded(n)
  BY <1>4, PlanStays DEF SourcesSucceeded
<1>6. call[n].pc # "none" /\ "ended" \notin Under
  BY DEF Under, Starting
<1>7. n \notin DOMAIN tasks
  BY <1>1 DEF CallFits
<1>8. GoodOutcome(n)'
  <2>1. CASE outcome = <<"Completed", Output(n)>> /\ Ref(n) \notin Generating
    BY <1>3, <1>4, <1>5, <1>7, <2>1 DEF GoodOutcome
  <2>2. CASE \E e : FineError(e) /\ outcome = <<"Failed", CapabilityFailed(e)>>
    <3>1. PICK e : FineError(e) /\ outcome = <<"Failed", CapabilityFailed(e)>>
      BY <2>2
    <3>2. outcome[2][2] = e
      BY <3>1 DEF CapabilityFailed
    <3> QED
      BY <1>3, <1>4, <1>7, <3>1, <3>2 DEF GoodOutcome
  <2> QED
    BY <2>1, <2>2
<1>9. CallFits(n)'
  BY <1>1, <1>3, <1>4, <1>5, <1>6, <1>8 DEF CallFits, Starting
<1> QED
  BY <1>1, <1>6, <1>9, OneCallMoves

LEMMA CallFails ==
  ASSUME Inductive, NEW n \in Nodes, UNCHANGED others, call[n].pc \in Under, NEW e,
         FineError(e), Fail(n, e)
  PROVE  Inductive'
BY CallEnds DEF Fail

LEMMA MediaTargetIs == \A n : MediaTarget(n)[1] \in {"Capability", "Parameter", "Input"}
BY DEF MediaTarget, OfParameter, OfInput

LEMMA CallIsInterrupted ==
  ASSUME Inductive, NEW n \in Nodes, UNCHANGED others, call[n].pc \in Under,
         NEW target, target[1] \in {"Capability", "Parameter", "Input"},
         FailInterrupted(n, target)
  PROVE  Inductive'
<1>1. <<Interruption(n)>> \in Interrupting \cup MediaFailing
  BY DEF Interruption, Interrupting
<1> QED
  BY <1>1, ResolutionErrorsAreFine, CallFails DEF FailInterrupted, FailResolving

LEMMA CallCompletes ==
  ASSUME Inductive, NEW n \in Nodes, UNCHANGED others, call[n].pc \in Under,
         Ref(n) \notin Generating, Complete(n, Gives(n))
  PROVE  Inductive'
<1>1. NodeFits(n)
  BY DEF Inductive, PlanFits
<1>2. Gives(n).type = OutputType(n)
  BY <1>1, GivesType DEF NodeFits
<1>3. OutputSet(Ref(n), Only(OutputKey(n), Gives(n))) = {Output(n)}
  BY <1>1, <1>2, OutputIsComplete DEF Output
<1>4. EndWith(n, <<"Completed", Output(n)>>)
  BY <1>3 DEF Complete
<1> QED
  BY <1>4, CallEnds

LEMMA KindTable ==
  /\ RequestKinds[ImageMaker] = "Image" /\ RequestKinds[VideoMaker] = "Video" /\ RequestKinds[SpeechMaker] = "Voice"
  /\ OutputOf["Image"] = "image" /\ OutputOf["Video"] = "video" /\ OutputOf["Voice"] = "audio"
  /\ TypeOf["Image"] = "Image" /\ TypeOf["Video"] = "Video" /\ TypeOf["Voice"] = "Audio"
BY DEF RequestKinds, OutputOf, TypeOf, ImageMaker, VideoMaker, SpeechMaker

LEMMA BoundInput ==
  ASSUME NEW n, NodeFits(n), NEW k
  PROVE  Bound(n, k) <=> k \in InputKeys(n)
<1>1. \A t \in DOMAIN Node(n).bindings : t = <<n, t[2]>>
  BY DEF NodeFits, BindingsFit
<1>2. k = <<n, k>>[2]
  OBVIOUS
<1> QED
  BY <1>1, <1>2 DEF Bound, InputKeys

\* The request of a call that starts its task is what the plan froze.
LEMMA RequestIs ==
  ASSUME Inductive, NEW n \in Nodes, call[n].pc \in Starting
  PROVE  LET r == StartRequest(n)
         IN /\ Ref(n) \in Generating
            /\ r.kind = RequestKinds[Ref(n)] /\ r.profile = ProfileOf(n)
            /\ r.output = OutputOf[r.kind]
            /\ r.image # {} <=> r.kind = "Video"
            /\ IsOneLiteral(r.text) \/ (r.kind = "Video" /\ r.text = <<>>)
            /\ r.profile \in DOMAIN Routes /\ Routes[r.profile] = r.kind
            /\ TaskRequest(n) = Wanted(n)
<1> DEFINE r == StartRequest(n)
           k == TextInput(n)
           m == SourceOf(n, k)
           s == SourceOf(n, "image")
<1>1. NodeFits(n) /\ CallFits(n) /\ PlanFits
  BY DEF Inductive, PlanFits, CallsFit
<1>2. /\ Ref(n) \in Generating /\ Ref(n) \in {ImageMaker, VideoMaker, SpeechMaker}
      /\ call[n].inputs = Given(n) /\ DOMAIN Given(n) = InputKeys(n)
  BY <1>1, BuiltInRefs DEF CallFits, Starting, Given
<1>3. /\ r.kind = RequestKinds[Ref(n)] /\ r.profile = ProfileOf(n) /\ r.output = OutputKey(n)
      /\ r.text = IF k \in DOMAIN call[n].inputs THEN InputOf(n, k).parts ELSE <<>>
      /\ r.image = IF "image" \in DOMAIN call[n].inputs THEN {call[n].held[2]} ELSE {}
      /\ r.choice = {Node(n).parameters[x] : x \in GenerationKeys(n) \ {ProfileKey}}
  BY DEF StartRequest
<1> HIDE DEF r
<1>4. OutputKey(n) = OutputOf[RequestKinds[Ref(n)]]
  BY <1>1, <1>2, OutputTable, KindTable DEF NodeFits
<1>5. "image" \in InputKeys(n) <=> Ref(n) = VideoMaker
  BY <1>1, <1>2, NodeTable DEF ImageMaker, VideoMaker, SpeechMaker
<1>6. Ref(n) = VideoMaker <=> RequestKinds[Ref(n)] = "Video"
  BY <1>2, KindTable
<1>7. Ref(n) # VideoMaker => k \in InputKeys(n)
  BY <1>1, <1>2, NodeTable
<1>8. ASSUME k \in InputKeys(n)
      PROVE  /\ r.text = <<Literal(Node(m).parameters["text"])>>
             /\ IsOneLiteral(r.text) /\ r.text # <<>>
             /\ r.text[1][2] = Node(m).parameters["text"]
  <2>1. InputOf(n, k) = Gives(m)
    BY <1>1, <1>2, <1>8, GivenItem DEF InputOf
  <2>2. Gives(m) = [type |-> "Text", parts |-> <<Literal(Node(m).parameters["text"])>>]
    BY <1>1, <1>2, <1>8, TextSource
  <2>3. r.text = <<Literal(Node(m).parameters["text"])>>
    BY <1>2, <1>3, <1>8, <2>1, <2>2
  <2> QED
    BY <2>3 DEF Literal, IsOneLiteral
<1>9. k \notin InputKeys(n) => r.text = <<>>
  BY <1>2, <1>3
<1>10. ASSUME Ref(n) = VideoMaker
       PROVE  r.image = {ManagedRef("Image", AssetOf(s), Digest(AssetOf(s)))}
                /\ ImageOf(s) = <<AssetOf(s), Digest(AssetOf(s))>>
  <2>1. call[n].held = <<"Readable", MediaOf(n)>>
    BY <1>1, <1>10 DEF CallFits
  <2>2. Ref(n) \notin Reading
    BY <1>10, BuiltInRefs
  <2>3. r.image = {Gives(s)}
    BY <1>2, <1>3, <1>5, <1>10, <2>1, <2>2 DEF MediaOf
  <2>4. Gives(s) = ManagedRef("Image", AssetOf(s), Digest(AssetOf(s)))
    BY <1>1, <1>10, ImageSource
  <2> QED
    BY <2>3, <2>4 DEF ImageOf, AssetOf
<1>11. Ref(n) # VideoMaker => r.image = {}
  BY <1>2, <1>3, <1>5
<1>12. r.profile \in DOMAIN Routes /\ Routes[r.profile] = r.kind
  BY <1>1, <1>2, <1>3, CompositionAssumption DEF NodeFits
<1>13. GenerationKeys(n) = DOMAIN Node(n).parameters
  BY <1>1, <1>2, NodeTable DEF HasParameters
<1>14. TaskRequest(n) = Wanted(n)
  <2> DEFINE text == IF Bound(n, k) THEN {Node(m).parameters["text"]} ELSE {}
             image == IF Bound(n, "image") THEN {ImageOf(s)} ELSE {}
  <2>1. (IF r.text = <<>> THEN {} ELSE {r.text[1][2]}) = text
    BY <1>1, <1>8, <1>9, BoundInput
  <2>2. {<<i.asset, i.digest>> : i \in r.image} = image
    <3>1. CASE Ref(n) = VideoMaker
      <4>1. {<<i.asset, i.digest>> : i \in r.image} = {ImageOf(s)}
        <5> DEFINE ref == ManagedRef("Image", AssetOf(s), Digest(AssetOf(s)))
        <5>1. ref.asset = AssetOf(s) /\ ref.digest = Digest(AssetOf(s))
          BY DEF ManagedRef
        <5>2. r.image = {ref} /\ ImageOf(s) = <<AssetOf(s), Digest(AssetOf(s))>>
          BY <1>10, <3>1
        <5>3. {<<i.asset, i.digest>> : i \in {ref}} = {<<ref.asset, ref.digest>>}
          OBVIOUS
        <5> HIDE DEF ref
        <5> QED
          BY <5>1, <5>2, <5>3
      <4> QED
        BY <1>1, <1>5, <3>1, <4>1, BoundInput
    <3>2. CASE Ref(n) # VideoMaker
      BY <1>1, <1>5, <1>11, <3>2, BoundInput
    <3> QED
      BY <3>1, <3>2
  <2>3. TaskRequest(n) =
          [kind |-> r.kind, profile |-> r.profile, choice |-> r.choice,
           text |-> IF r.text = <<>> THEN {} ELSE {r.text[1][2]},
           image |-> {<<i.asset, i.digest>> : i \in r.image}]
    BY DEF TaskRequest, r
  <2>4. r.choice = {Node(n).parameters[x] : x \in DOMAIN Node(n).parameters \ {ProfileKey}}
    BY <1>3, <1>13
  <2>5. Wanted(n) =
          [kind |-> RequestKinds[Ref(n)], profile |-> ProfileOf(n),
           choice |-> {Node(n).parameters[x] : x \in DOMAIN Node(n).parameters \ {ProfileKey}},
           text |-> text, image |-> image]
    BY DEF Wanted, ProfileOf
  <2> HIDE DEF text, image
  <2> QED
    BY <1>3, <2>1, <2>2, <2>3, <2>4, <2>5
<1>15. r.image # {} <=> r.kind = "Video"
  BY <1>3, <1>6, <1>10, <1>11
<1>16. IsOneLiteral(r.text) \/ (r.kind = "Video" /\ r.text = <<>>)
  BY <1>3, <1>6, <1>7, <1>8, <1>9
<1> QED
  BY <1>2, <1>3, <1>4, <1>12, <1>14, <1>15, <1>16 DEF r

LEMMA CheckReadinessStep ==
  ASSUME Inductive, NEW n \in Nodes, CheckReadiness(n)
  PROVE  Inductive'
<1>1. NodeFits(n) /\ CallFits(n) /\ PlanFits /\ AssetsFit /\ CallsFit
  BY DEF Inductive, PlanFits, CallsFit
<1>2. call[n].pc \in Under /\ "execute" \in Under /\ call[n].pc # "none" /\ UNCHANGED others
  BY DEF CheckReadiness, At, Under
<1>3. PICK issues \in ReadinessIssues(n) :
        IF issues = {} THEN Go(n, "execute")
        ELSE Fail(n, ReadinessError(Ref(n), n, CHOOSE i \in issues : TRUE))
  BY DEF CheckReadiness
<1>4. CASE issues = {}
  <2>1. call' = [call EXCEPT ![n] = Moved(n, "execute", call[n].held, call[n].outcome)]
    BY <1>1, <1>3, <1>4, CallRecord
  <2> QED
    BY <1>2, <2>1, CallGoes DEF Starting
<1>5. CASE issues # {}
  <2>1. SUFFICES ASSUME TRUE
                 PROVE  \E i : /\ issues = {i} /\ ValidIssue(i) /\ i.target[1] # "Capability"
                               /\ i.category \notin RefusedIssues
    <3>1. ASSUME NEW i, issues = {i}, ValidIssue(i), i.target[1] # "Capability",
                 i.category \notin RefusedIssues
          PROVE  Inductive'
      <4>1. Fail(n, ReadinessError(Ref(n), n, i))
        <5>1. (CHOOSE x \in issues : TRUE) = i
          BY <3>1
        <5> QED
          BY <1>3, <1>5, <5>1
      <4>2. FineError(ReadinessError(Ref(n), n, i))
        BY <3>1, ReadinessErrorsAreFine
      <4> QED
        BY <1>2, <4>1, <4>2, CallFails
    <3> QED
      BY <3>1
  <2>2. CASE Ref(n) \in Generating
    <3> DEFINE i == ProfileIssue("GenerationProfileAvailabilityIndeterminate", ProfileOf(n))
    <3>1. HasParameters(n, GenerationKeys(n)) /\ ProfileOf(n) \in ActiveFor(Ref(n))
      BY <1>1, <2>2, NodeTable DEF NodeFits
    <3>2. ProfileOf(n) \in DOMAIN Routes /\ Routes[ProfileOf(n)] = RequestKinds[Ref(n)]
      BY <2>2, <3>1, CompositionAssumption
    <3>3. issues \in {{i}, {}}
      BY <1>3, <2>2, <3>1, <3>2 DEF ReadinessIssues, ProfileIssues
    <3>4. ValidIssue(i) /\ i.target[1] # "Capability" /\ i.category \notin RefusedIssues
      BY DEF ProfileIssue, Issue, ValidIssue, ProfileCategories, AssetCategories, RefusedIssues,
             NoMismatch
    <3> QED
      BY <1>5, <3>3, <3>4
  <2>3. CASE Ref(n) \in Reading
    <3> DEFINE asset == SelectionOf(n).asset
               Fault(c) == AssetIssue(c, "asset_id", asset)
    <3>1. HasParameters(n, {"asset_id"}) /\ Ref(n) \notin Generating
      BY <1>1, <2>3, NodeTable, BuiltInRefs
    <3>2. PICK read \in Reads(SelectionOf(n), PastReadinessDeadline(n)) :
            issues = AssetIssueOf(n, read)
      BY <1>3, <2>3, <3>1 DEF ReadinessIssues
    <3>3. read \in MediaReads(n)
      BY <1>1, <1>2, <2>3, <3>2, MediaIsRead
    <3>4. issues \in {{}, {Fault("ManagedAssetUnavailable")},
                      {Fault("ManagedAssetReadinessIndeterminate")}}
      BY <3>2, <3>3 DEF MediaReads, AssetIssueOf
    <3>5. ASSUME NEW c \in {"ManagedAssetUnavailable", "ManagedAssetReadinessIndeterminate"}
          PROVE  /\ ValidIssue(Fault(c)) /\ Fault(c).target[1] # "Capability"
                 /\ Fault(c).category \notin RefusedIssues
      <4>1. Fault(c) = [category |-> c, target |-> <<"ManagedAsset", "asset_id", asset>>,
                        mismatch |-> NoMismatch]
        BY DEF AssetIssue, Issue
      <4>2. /\ Fault(c).category = c /\ Fault(c).target[1] = "ManagedAsset"
            /\ Fault(c).mismatch = NoMismatch
        BY <4>1
      <4>3. c \in AssetCategories /\ c # "ManagedAssetKindMismatch" /\ c \notin RefusedIssues
        BY DEF AssetCategories, RefusedIssues
      <4>4. ASSUME NEW i, i.category = c, i.target[1] = "ManagedAsset", i.mismatch = NoMismatch
            PROVE  ValidIssue(i)
        <5>1. (CASE i.category \in AssetCategories -> "ManagedAsset"
                 [] i.category \in ProfileCategories -> "GenerationProfile"
                 [] OTHER -> "Capability") = "ManagedAsset"
          BY <4>3, <4>4 DEF AssetCategories, ProfileCategories
        <5> QED
          BY <4>3, <4>4, <5>1 DEF ValidIssue
      <4>5. ValidIssue(Fault(c))
        BY <4>2, <4>4
      <4> QED
        BY <4>2, <4>3, <4>5
    <3> HIDE DEF Fault
    <3> QED
      BY <1>5, <3>4, <3>5
  <2>4. CASE Ref(n) \notin Generating \cup Reading
    <3>1. Ref(n) = TextProvider
      BY <1>1, <2>4, Contracts, BuiltInRefs
    <3>2. HasParameters(n, {"text"})
      BY <1>1, <3>1, NodeTable
    <3>3. issues = {}
      BY <1>3, <2>4, <3>2 DEF ReadinessIssues
    <3> QED
      BY <1>5, <3>3
  <2> QED
    BY <2>2, <2>3, <2>4
<1> QED
  BY <1>4, <1>5

LEMMA ProvideTextStep ==
  ASSUME Inductive, NEW n \in Nodes, ProvideText(n)
  PROVE  Inductive'
<1>1. NodeFits(n) /\ CallFits(n)
  BY DEF Inductive, PlanFits, CallsFit
<1>2. /\ Ref(n) = TextProvider /\ Ref(n) \notin Generating /\ UNCHANGED others
      /\ call[n].pc \in Under /\ call[n].pc # "none"
  BY BuiltInRefs DEF ProvideText, At, Under, TextProvider
<1>3. HasParameters(n, {"text"}) /\ DOMAIN call[n].inputs = {}
  BY <1>1, <1>2, NodeTable DEF CallFits, Given
<1>4. CASE Interrupted(n)
  <2>1. FailInterrupted(n, OfCapability)
    BY <1>3, <1>4 DEF ProvideText
  <2>2. OfCapability[1] = "Capability"
    BY DEF OfCapability
  <2> QED
    BY <1>2, <2>1, <2>2, CallIsInterrupted
<1>5. CASE ~Interrupted(n)
  <2>1. \E text \in TextValue(<<Literal(Node(n).parameters["text"])>>) : Complete(n, text)
    BY <1>3, <1>5 DEF ProvideText
  <2>2. Complete(n, Gives(n))
    BY <1>1, <1>2, <2>1, TextOfNode
  <2> QED
    BY <1>2, <2>2, CallCompletes
<1> QED
  BY <1>4, <1>5

LEMMA SelectAssetStep ==
  ASSUME Inductive, NEW n \in Nodes, SelectAsset(n)
  PROVE  Inductive'
<1>1. NodeFits(n) /\ CallFits(n) /\ CallsFit
  BY DEF Inductive, PlanFits, CallsFit
<1>2. /\ Ref(n) \in Reading /\ Ref(n) \notin Generating /\ UNCHANGED others
      /\ call[n].pc \in Under /\ call[n].pc # "none" /\ "reading" \in Under
  BY BuiltInRefs DEF SelectAsset, At, Under
<1>3. HasParameters(n, {"asset_id"}) /\ DOMAIN call[n].inputs = {}
  BY <1>1, <1>2, NodeTable DEF CallFits, Given
<1>4. CASE Interrupted(n)
  <2>1. FailInterrupted(n, MediaTarget(n))
    BY <1>3, <1>4 DEF SelectAsset
  <2> QED
    BY <1>2, <2>1, MediaTargetIs, CallIsInterrupted
<1>5. CASE ~Interrupted(n)
  <2>1. Go(n, "reading")
    BY <1>3, <1>5 DEF SelectAsset
  <2>2. call' = [call EXCEPT ![n] = Moved(n, "reading", call[n].held, call[n].outcome)]
    BY <1>1, <2>1, CallRecord
  <2> QED
    BY <1>2, <2>2, CallGoes DEF Starting
<1> QED
  BY <1>4, <1>5

\* The inputs of a generating node are what its capability takes.
LEMMA GivenParses ==
  ASSUME Inductive, NEW n \in Nodes, Ref(n) \in Generating, call[n].inputs = Given(n)
  PROVE  InputsParse(n)
<1>1. NodeFits(n) /\ PlanFits
  BY DEF Inductive, PlanFits
<1>2. DOMAIN Given(n) = InputKeys(n)
  BY DEF Given
<1>3. ASSUME TextInput(n) \in InputKeys(n)
      PROVE  /\ InputOf(n, TextInput(n)).type = "Text"
             /\ call[n].inputs[TextInput(n)].items[1].role = NoRole
  <2> DEFINE k == TextInput(n)
  <2>1. InputOf(n, k) = Gives(SourceOf(n, k)) /\ call[n].inputs[k].items[1].role = NoRole
    BY <1>1, <1>3, GivenItem DEF InputOf
  <2>2. Gives(SourceOf(n, k)).type = "Text"
    BY <1>1, <1>3, TextSource
  <2> QED
    BY <2>1, <2>2
<1>4. "image" \in InputKeys(n) <=> Ref(n) = VideoMaker
  BY <1>1, NodeTable, BuiltInRefs DEF ImageMaker, VideoMaker, SpeechMaker
<1>5. ASSUME "image" \in InputKeys(n)
      PROVE  InputOf(n, "image").type = "Image"
               /\ call[n].inputs["image"].items[1].role = NoRole
  <2>1. InputOf(n, "image") = Gives(SourceOf(n, "image"))
        /\ call[n].inputs["image"].items[1].role = NoRole
    BY <1>1, <1>5, GivenItem DEF InputOf
  <2>2. Gives(SourceOf(n, "image")).type = "Image"
    BY <1>1, <1>4, <1>5, ImageSource DEF ManagedRef
  <2> QED
    BY <2>1, <2>2
<1>6. IF Ref(n) = "video.generate_from_image"
      THEN "image" \in InputKeys(n) /\ InputKeys(n) \subseteq {"image", "prompt"}
      ELSE InputKeys(n) = {TextInput(n)}
  BY <1>1, NodeTable, BuiltInRefs DEF VideoMaker
<1> QED
  BY <1>2, <1>3, <1>5, <1>6 DEF InputsParse

LEMMA BeginGenerationStep ==
  ASSUME Inductive, NEW n \in Nodes, BeginGeneration(n)
  PROVE  Inductive'
<1>1. NodeFits(n) /\ CallFits(n) /\ CallsFit
  BY DEF Inductive, PlanFits, CallsFit
<1>2. /\ Ref(n) \in Generating /\ UNCHANGED others
      /\ call[n].pc \in Under /\ call[n].pc # "none"
  BY DEF BeginGeneration, At, Under
<1>3. HasParameters(n, GenerationKeys(n)) /\ InputsParse(n)
  BY <1>1, <1>2, NodeTable, GivenParses DEF CallFits
<1>4. CASE Interrupted(n)
  <2>1. FailInterrupted(n, OfCapability)
    BY <1>4 DEF BeginGeneration
  <2>2. OfCapability[1] = "Capability"
    BY DEF OfCapability
  <2> QED
    BY <1>2, <2>1, <2>2, CallIsInterrupted
<1>5. CASE ~Interrupted(n)
  <2> DEFINE pc == IF Ref(n) = VideoMaker THEN "image" ELSE "start"
  <2>1. Go(n, pc)
    BY <1>3, <1>5 DEF BeginGeneration, VideoMaker
  <2>2. call' = [call EXCEPT ![n] = Moved(n, pc, call[n].held, call[n].outcome)]
    BY <1>1, <2>1, CallRecord
  <2>3. pc \in Under /\ pc \notin {"reading", "read"} /\ (pc = "image" <=> Ref(n) = VideoMaker)
        /\ (pc \in Starting <=> Ref(n) # VideoMaker)
    BY DEF Under, Starting
  <2> HIDE DEF pc
  <2> QED
    BY <1>2, <2>2, <2>3, CallGoes
<1> QED
  BY <1>4, <1>5

LEMMA CheckImageStep ==
  ASSUME Inductive, NEW n \in Nodes, CheckImage(n)
  PROVE  Inductive'
<1>1. CallFits(n) /\ CallsFit
  BY DEF Inductive, CallsFit
<1>2. /\ call[n].pc = "image" /\ call[n].pc \in Under /\ "reading" \in Under /\ UNCHANGED others
      /\ Ref(n) = VideoMaker
  BY <1>1 DEF CheckImage, At, Under, CallFits
<1>3. CASE Interrupted(n)
  BY <1>2, <1>3, MediaTargetIs, CallIsInterrupted DEF CheckImage
<1>4. CASE ~Interrupted(n)
  <2>1. call' = [call EXCEPT ![n] = Moved(n, "reading", call[n].held, call[n].outcome)]
    BY <1>1, <1>4, CallRecord DEF CheckImage
  <2> QED
    BY <1>2, <2>1, CallGoes DEF Starting
<1> QED
  BY <1>3, <1>4

LEMMA ReadMediaStep ==
  ASSUME Inductive, NEW n \in Nodes, ReadMedia(n)
  PROVE  Inductive'
<1>1. CallFits(n) /\ CallsFit /\ PlanFits /\ AssetsFit
  BY DEF Inductive, CallsFit
<1>2. /\ call[n].pc = "reading" /\ call[n].pc \in Under /\ "read" \in Under /\ UNCHANGED others
      /\ Ref(n) \in Reading \cup {VideoMaker} /\ call[n].pc # "none"
  BY <1>1 DEF ReadMedia, At, Under, CallFits
<1>3. PICK read \in Reads(SelectionOf(n), PastDeadline(n)) :
        call' = [call EXCEPT ![n].pc = "read", ![n].held = read]
  BY DEF ReadMedia
<1>4. read \in MediaReads(n)
  BY <1>1, <1>2, MediaIsRead
<1>5. call' = [call EXCEPT ![n] = Moved(n, "read", read, call[n].outcome)]
  BY <1>1, <1>3, CallRecord
<1> QED
  BY <1>2, <1>4, <1>5, CallGoes DEF Starting

LEMMA UseMediaStep ==
  ASSUME Inductive, NEW n \in Nodes, UseMedia(n)
  PROVE  Inductive'
<1>1. CallFits(n) /\ CallsFit /\ PlanFits /\ AssetsFit
  BY DEF Inductive, CallsFit
<1>2. /\ call[n].pc = "read" /\ call[n].pc \in Under /\ "start" \in Under \cap Starting
      /\ UNCHANGED others /\ Ref(n) \in Reading \cup {VideoMaker} /\ call[n].pc # "none"
      /\ call[n].held \in MediaReads(n)
  BY <1>1 DEF UseMedia, At, Under, CallFits, Starting
<1>3. CASE Interrupted(n)
  BY <1>2, <1>3, MediaTargetIs, CallIsInterrupted DEF UseMedia
<1>4. CASE ~Interrupted(n) /\ call[n].held[1] # "Readable"
  <2>1. FailResolving(n, call[n].held, MediaTarget(n))
    BY <1>4 DEF UseMedia
  <2>2. call[n].held \in Interrupting \cup MediaFailing
    BY <1>2, <1>4 DEF MediaReads, Interrupting, MediaFailing
  <2> QED
    BY <1>2, <2>1, <2>2, MediaTargetIs, ResolutionErrorsAreFine, CallFails DEF FailResolving
<1>5. CASE ~Interrupted(n) /\ call[n].held[1] = "Readable"
  <2>1. call[n].held = <<"Readable", MediaOf(n)>> /\ call[n].held[2] = MediaOf(n)
    BY <1>2, <1>5 DEF MediaReads
  <2>2. CASE Ref(n) \in Reading
    <3>1. Complete(n, Gives(n)) /\ Ref(n) \notin Generating
      BY <1>5, <2>1, <2>2, BuiltInRefs DEF UseMedia, MediaOf
    <3> QED
      BY <1>2, <3>1, CallCompletes
  <2>3. CASE Ref(n) = VideoMaker
    <3>1. InputOf(n, "image") = MediaOf(n)
      BY <1>1, <1>2, MediaAsset, <2>3
    <3>2. Ref(n) \notin Reading /\ Ref(n) \in Generating
      BY <2>3, BuiltInRefs
    <3>3. Go(n, "start")
      BY <1>5, <2>1, <3>1, <3>2 DEF UseMedia
    <3>4. call' = [call EXCEPT ![n] = Moved(n, "start", call[n].held, call[n].outcome)]
      BY <1>1, <3>3, CallRecord
    <3> QED
      BY <1>2, <2>1, <3>2, <3>4, CallGoes
  <2> QED
    BY <1>2, <2>2, <2>3
<1> QED
  BY <1>3, <1>4, <1>5

LEMMA StartFails ==
  ASSUME Inductive, NEW n \in Nodes, UNCHANGED others, call[n].pc \in Under,
         NEW failure \in {"Cancelled", "DeadlineExceeded", "Unavailable", "Persistence"},
         FailStart(n, failure)
  PROVE  Inductive'
BY StartErrorsAreFine, CallFails DEF FailStart

LEMMA StartGoes ==
  ASSUME Inductive, NEW n \in Nodes, UNCHANGED others, call[n].pc \in Starting,
         NEW pc \in Starting, Go(n, pc)
  PROVE  Inductive'
<1>1. CallFits(n) /\ CallsFit
  BY DEF Inductive, CallsFit
<1>2. /\ call[n].pc \in Under /\ pc \in Under /\ pc \notin {"image", "reading", "read"}
      /\ Ref(n) \in Generating /\ (Ref(n) = VideoMaker => call[n].held = <<"Readable", MediaOf(n)>>)
  BY <1>1 DEF Under, Starting, CallFits
<1>3. call' = [call EXCEPT ![n] = Moved(n, pc, call[n].held, call[n].outcome)]
  BY <1>1, CallRecord
<1> QED
  BY <1>2, <1>3, CallGoes

LEMMA InterruptionIs == \A n : Interruption(n) \in {"Cancelled", "DeadlineExceeded"}
BY DEF Interruption

LEMMA StartTaskStep ==
  ASSUME Inductive, NEW n \in Nodes, StartTask(n)
  PROVE  Inductive'
<1>1. /\ call[n].pc \in Under /\ call[n].pc \in Starting /\ "translate" \in Starting
      /\ UNCHANGED others
  BY DEF StartTask, At, Under, Starting
<1> DEFINE r == StartRequest(n)
<1>2. r.output = OutputOf[r.kind] /\ (r.image # {} <=> r.kind = "Video")
  BY <1>1, RequestIs
<1>3. IF Interrupted(n) THEN FailStart(n, Interruption(n)) ELSE Go(n, "translate")
  BY <1>2 DEF StartTask
<1> QED
  BY <1>1, <1>3, InterruptionIs, StartFails, StartGoes

LEMMA TranslateStartStep ==
  ASSUME Inductive, NEW n \in Nodes, TranslateStart(n)
  PROVE  Inductive'
<1>1. /\ call[n].pc \in Under /\ call[n].pc \in Starting /\ "create" \in Starting
      /\ UNCHANGED others
  BY DEF TranslateStart, At, Under, Starting
<1> DEFINE r == StartRequest(n)
<1>2. /\ IsOneLiteral(r.text) \/ (r.kind = "Video" /\ r.text = <<>>)
      /\ r.profile \in DOMAIN Routes /\ Routes[r.profile] = r.kind
  BY <1>1, RequestIs
<1>3. IF Interrupted(n) THEN FailStart(n, Interruption(n)) ELSE Go(n, "create")
  BY <1>2 DEF TranslateStart
<1> QED
  BY <1>1, <1>3, InterruptionIs, StartFails, StartGoes

LEMMA CreateTaskStep ==
  ASSUME Inductive, NEW n \in Nodes, CreateTask(n)
  PROVE  Inductive'
<1>1. CallFits(n) /\ CallsFit /\ n \in DOMAIN call
  BY DEF Inductive, CallsFit
<1>2. /\ call[n].pc \in Under /\ call[n].pc \in Starting /\ call[n].pc # "none"
      /\ UNCHANGED <<plan, row, executor, canceller, woken, assets>>
  BY DEF CreateTask, At, Under, Starting
<1>3. n \notin DOMAIN tasks
  BY <1>1, <1>2 DEF CallFits
<1>4. TaskRequest(n) = Wanted(n) /\ Ref(n) \in Generating
  BY <1>2, RequestIs
<1>5. CASE \E failure \in {"Unavailable", "Persistence"} : FailStart(n, failure) /\ UNCHANGED tasks
  BY <1>2, <1>5, StartFails DEF others
<1>6. CASE tasks' = Put(tasks, n, Wanted(n)) /\ EndWith(n, <<"Waiting">>)
  <2>1. /\ DOMAIN tasks' = DOMAIN tasks \cup {n} /\ tasks'[n] = Wanted(n)
        /\ \A m \in DOMAIN tasks : tasks'[m] = tasks[m]
    BY <1>3, <1>6 DEF Put
  <2>2. call' = [call EXCEPT ![n] = Moved(n, "ended", call[n].held, <<"Waiting">>)]
    BY <1>1, <1>6, CallRecord
  <2>3. /\ call'[n] = Moved(n, "ended", call[n].held, <<"Waiting">>) /\ DOMAIN call' = Nodes
        /\ \A m \in Nodes : m # n => call'[m] = call[m]
    BY <1>1, <2>2 DEF CallsFit
  <2>4. /\ call'[n].pc = "ended" /\ call'[n].inputs = call[n].inputs
        /\ call'[n].outcome = <<"Waiting">>
        /\ call'[n] = [pc |-> call'[n].pc, inputs |-> call'[n].inputs, held |-> call'[n].held,
                       outcome |-> call'[n].outcome, cancelled |-> call'[n].cancelled,
                       aborted |-> call'[n].aborted, elapsed |-> call'[n].elapsed]
    BY <2>3 DEF Moved
  <2>5. /\ PlanFits' /\ Nodes' = Nodes
        /\ \A m : /\ Ref(m)' = Ref(m) /\ Wanted(m)' = Wanted(m) /\ Output(m)' = Output(m)
                  /\ Needed(m)' = Needed(m) /\ OutputType(m)' = OutputType(m)
                  /\ Given(m)' = Given(m)
    BY <1>2, PlanStays DEF Inductive
  <2>6. RowFits'
    BY <1>2, <2>5 DEF Inductive, RowFits, RowShape, NodeRow, ShapeIsValid
  <2>7. \A m \in Nodes : SourcesSucceeded(m)' = SourcesSucceeded(m)
    BY <1>2, <2>5 DEF SourcesSucceeded
  <2>8. ExecutorFits'
    <3>1. \A m \in executor.batch : m # n
      BY <1>2 DEF Inductive, ExecutorFits
    <3> QED
      BY <1>2, <2>3, <2>5, <2>7, <3>1 DEF Inductive, ExecutorFits
  <2>9. ASSUME NEW m \in Nodes PROVE CallFits(m)'
    <3>1. CASE m = n
      <4>1. GoodOutcome(n)'
        BY <2>1, <2>4 DEF GoodOutcome
      <4>2. "ended" \notin Under
        BY DEF Under, Starting
      <4> QED
        BY <1>1, <1>2, <2>4, <2>5, <2>7, <3>1, <4>1, <4>2 DEF CallFits, Starting
    <3>2. CASE m # n
      <4>1. CallFits(m) /\ call'[m] = call[m] /\ (m \in DOMAIN tasks' <=> m \in DOMAIN tasks)
        BY <2>1, <2>3, <3>2 DEF Inductive, CallsFit
      <4>2. call'[m] = [pc |-> call[m].pc, inputs |-> call[m].inputs, held |-> call[m].held,
                        outcome |-> call[m].outcome, cancelled |-> call'[m].cancelled,
                        aborted |-> call'[m].aborted, elapsed |-> call'[m].elapsed]
        BY <4>1 DEF CallFits
      <4> QED
        BY <1>2, <4>1, <4>2, CallStays
    <3> QED
      BY <3>1, <3>2
  <2>10. TasksFit'
    <3>1. row.nodes[n].state \in TakenUp
      BY <1>1, <1>2 DEF CallFits
    <3>2. row.nodes[n].failure = {}
      <4>1. ShapeIsValid(row.nodes[n])
        BY DEF Inductive, RowFits, NodeRow
      <4> QED
        BY <3>1, <4>1 DEF ShapeIsValid, TakenUp
    <3>3. ASSUME NEW m \in Nodes
          PROVE  /\ m \in DOMAIN tasks' => Ref(m)' \in Generating /\ tasks'[m] = Wanted(m)'
                 /\ row'.nodes[m].state = "Waiting" => m \in DOMAIN tasks'
                 /\ \A f \in row'.nodes[m].failure : (f.kind = "Capability") = (m \notin DOMAIN tasks')
      <4>1. CASE m = n
        BY <1>2, <1>4, <2>1, <2>5, <3>2, <4>1
      <4>2. CASE m # n
        BY <1>2, <2>1, <2>5, <4>2 DEF Inductive, TasksFit
      <4> QED
        BY <4>1, <4>2
    <3> QED
      BY <2>1, <2>5, <3>3 DEF Inductive, TasksFit
  <2>11. AssetsFit'
    BY <1>2, <2>5 DEF Inductive, AssetsFit, AssetIs
  <2> QED
    BY <2>3, <2>5, <2>6, <2>8, <2>9, <2>10, <2>11 DEF Inductive, CallsFit
<1> QED
  BY <1>3, <1>4, <1>5, <1>6 DEF CreateTask

LEMMA TimePassesStep ==
  ASSUME Inductive, NEW n \in Nodes, TimePasses(n)
  PROVE  Inductive'
<1>1. CallFits(n) /\ CallsFit /\ n \in DOMAIN call
  BY DEF Inductive, CallsFit
<1>2. call[n].pc # "none" /\ UNCHANGED others
  BY DEF TimePasses
<1>3. PICK elapsed : call' = [call EXCEPT ![n].elapsed = elapsed]
  BY <1>1 DEF TimePasses
<1> DEFINE c == [call[n] EXCEPT !.elapsed = elapsed]
<1>4. c = [pc |-> call[n].pc, inputs |-> call[n].inputs, held |-> call[n].held,
           outcome |-> call[n].outcome, cancelled |-> call[n].cancelled,
           aborted |-> call[n].aborted, elapsed |-> elapsed]
  BY <1>1 DEF CallFits
<1>5. call' = [call EXCEPT ![n] = c] /\ call'[n] = c
  BY <1>1, <1>3
<1>6. /\ plan' = plan /\ row' = row /\ tasks' = tasks
      /\ call'[n] = [pc |-> call[n].pc, inputs |-> call[n].inputs, held |-> call[n].held,
                     outcome |-> call[n].outcome, cancelled |-> call'[n].cancelled,
                     aborted |-> call'[n].aborted, elapsed |-> call'[n].elapsed]
  BY <1>2, <1>4, <1>5 DEF others
<1>7. CallFits(n)'
  BY <1>1, <1>6, CallStays
<1> QED
  BY <1>2, <1>5, <1>7, OneCallMoves

----------------------------------------------------------------------------
(* The steps that move the row, or the executor.                           *)

\* The calls but for their signals.
SameCalls ==
  /\ DOMAIN call' = Nodes
  /\ \A m \in Nodes :
       call'[m] = [pc |-> call[m].pc, inputs |-> call[m].inputs, held |-> call[m].held,
                   outcome |-> call[m].outcome, cancelled |-> call'[m].cancelled,
                   aborted |-> call'[m].aborted, elapsed |-> call'[m].elapsed]
\* The nodes go forward, those with a call by it only.
NodesGoOn ==
  \A m \in Nodes :
    /\ row.nodes[m].state = "Succeeded" => row'.nodes[m].state = "Succeeded"
    /\ row.nodes[m].state # "Pending" => row'.nodes[m].state # "Pending"
    /\ row.nodes[m].state \in TakenUp /\ call[m].pc \in Under \cup {"ended", "none"} =>
         row'.nodes[m].state \in TakenUp

LEMMA CallsAreRecords ==
  ASSUME CallsFit, call' = call
  PROVE  SameCalls
BY DEF CallsFit, CallFits, SameCalls

LEMMA CallsStay ==
  ASSUME CallsFit, plan' = plan, tasks' = tasks, SameCalls, NodesGoOn
  PROVE  CallsFit'
<1>1. Nodes' = Nodes
  BY PlanStays
<1>2. ASSUME NEW m \in Nodes PROVE CallFits(m)'
  BY <1>2, CallStays DEF CallsFit, SameCalls, NodesGoOn
<1> QED
  BY <1>1, <1>2 DEF CallsFit, SameCalls

LEMMA ExecutorStays ==
  ASSUME ExecutorFits, plan' = plan, SameCalls, NodesGoOn,
         executor' = [pc |-> executor'.pc, batch |-> executor'.batch, error |-> executor'.error],
         executor'.error \in {"none", "storage", "transition"},
         executor'.batch \subseteq executor.batch
  PROVE  ExecutorFits'
<1>1. Nodes' = Nodes /\ \A m : Needed(m)' = Needed(m)
  BY PlanStays
<1>2. ASSUME NEW m \in executor.batch
      PROVE  /\ m \in Nodes /\ call'[m].pc = "none" /\ row'.nodes[m].state \in TakenUp
             /\ SourcesSucceeded(m)'
  <2>1. /\ m \in Nodes /\ call[m].pc = "none" /\ row.nodes[m].state \in TakenUp
        /\ SourcesSucceeded(m)
    BY DEF ExecutorFits
  <2>2. call'[m].pc = "none"
    BY <2>1 DEF SameCalls
  <2>3. SourcesSucceeded(m)'
    BY <1>1, <2>1 DEF SourcesSucceeded, NodesGoOn
  <2> QED
    BY <2>1, <2>2, <2>3 DEF NodesGoOn
<1> QED
  BY <1>1, <1>2 DEF ExecutorFits

LEMMA TasksStay ==
  ASSUME TasksFit, plan' = plan, tasks' = tasks,
         \A m \in Nodes :
           /\ row'.nodes[m].state = "Waiting" => m \in DOMAIN tasks
           /\ \A f \in row'.nodes[m].failure : (f.kind = "Capability") = (m \notin DOMAIN tasks)
  PROVE  TasksFit'
<1>1. Nodes' = Nodes /\ \A m : Ref(m)' = Ref(m) /\ Wanted(m)' = Wanted(m)
  BY PlanStays
<1> QED
  BY <1>1 DEF TasksFit

LEMMA AssetsStay ==
  ASSUME AssetsFit, plan' = plan, assets' = assets,
         \A m \in Nodes : Ref(m) \in Generating /\ row'.nodes[m].state = "Succeeded" =>
           row.nodes[m].state = "Succeeded"
  PROVE  AssetsFit'
<1>1. Nodes' = Nodes /\ \A m : Ref(m)' = Ref(m) /\ OutputType(m)' = OutputType(m)
  BY PlanStays
<1> QED
  BY <1>1 DEF AssetsFit, AssetIs

LEMMA RowStays ==
  ASSUME Inductive, plan' = plan, row' = row
  PROVE  /\ RowFits' /\ NodesGoOn /\ Nodes' = Nodes
         /\ tasks' = tasks => TasksFit'
         /\ assets' = assets => AssetsFit'
<1>1. Nodes' = Nodes /\ \A m : Output(m)' = Output(m)
  BY PlanStays
<1>2. RowFits'
  BY <1>1 DEF Inductive, RowFits, RowShape, NodeRow, ShapeIsValid
<1>3. NodesGoOn
  BY DEF NodesGoOn
<1>4. tasks' = tasks => TasksFit'
  BY TasksStay DEF Inductive, TasksFit
<1>5. assets' = assets => AssetsFit'
  BY AssetsStay DEF Inductive
<1> QED
  BY <1>1, <1>2, <1>3, <1>4, <1>5

\* The signals of the calls, and the executor, without the row.
LEMMA SignalsStep ==
  ASSUME Inductive, plan' = plan, row' = row, tasks' = tasks, assets' = assets, SameCalls,
         executor' = [pc |-> executor'.pc, batch |-> executor'.batch, error |-> executor'.error],
         executor'.error \in {"none", "storage", "transition"},
         executor'.batch \subseteq executor.batch
  PROVE  Inductive'
BY RowStays, CallsStay, ExecutorStays, PlanStays DEF Inductive

LEMMA AbortStep ==
  ASSUME Inductive, NEW error \in {"storage", "transition"}, Abort(error),
         UNCHANGED <<plan, row, tasks, assets>>
  PROVE  Inductive'
<1>1. SameCalls
  <2>1. DOMAIN call' = Nodes /\ \A m \in Nodes :
          call'[m] = [call[m] EXCEPT !.aborted = @ \/ call[m].pc # "none"]
    BY DEF Abort
  <2>2. ASSUME NEW m \in Nodes
        PROVE  call'[m] = [pc |-> call[m].pc, inputs |-> call[m].inputs, held |-> call[m].held,
                   outcome |-> call[m].outcome, cancelled |-> call'[m].cancelled,
                   aborted |-> call'[m].aborted, elapsed |-> call'[m].elapsed]
    <3>1. CallFits(m)
      BY DEF Inductive, CallsFit
    <3> DEFINE aborted == call[m].aborted \/ call[m].pc # "none"
    <3>2. call'[m] = [call[m] EXCEPT !.aborted = aborted]
      BY <2>1
    <3> HIDE DEF aborted
    <3> QED
      BY <3>1, <3>2 DEF CallFits
  <2> QED
    BY <2>1, <2>2 DEF SameCalls
<1>2. executor' = [pc |-> "failed", batch |-> {}, error |-> error]
  BY DEF Abort
<1> QED
  BY <1>1, <1>2, SignalsStep

LEMMA TakeEffectStep ==
  ASSUME Inductive, TakeEffect
  PROVE  Inductive'
<1>1. /\ executor' = [pc |-> "loop", batch |-> {}, error |-> executor.error]
      /\ UNCHANGED <<plan, row, call, tasks, assets>>
  BY DEF TakeEffect
<1>2. SameCalls /\ executor.error \in {"none", "storage", "transition"}
  BY <1>1, CallsAreRecords DEF Inductive, ExecutorFits
<1> QED
  BY <1>1, <1>2, SignalsStep

LEMMA SignalCancelStep ==
  ASSUME Inductive, SignalCancel
  PROVE  Inductive'
<1>1. /\ UNCHANGED <<plan, row, executor, tasks, assets>>
      /\ call' = [n \in Nodes |-> IF call[n].pc \in {"none", "committed"} THEN call[n]
                              ELSE [call[n] EXCEPT !.cancelled = TRUE]]
  BY DEF SignalCancel
<1>2. ASSUME NEW m \in Nodes
      PROVE  call'[m] = [pc |-> call[m].pc, inputs |-> call[m].inputs, held |-> call[m].held,
                   outcome |-> call[m].outcome, cancelled |-> call'[m].cancelled,
                   aborted |-> call'[m].aborted, elapsed |-> call'[m].elapsed]
  <2>1. CallFits(m)
    BY DEF Inductive, CallsFit
  <2>2. call'[m] = call[m] \/ call'[m] = [call[m] EXCEPT !.cancelled = TRUE]
    BY <1>1
  <2> QED
    BY <2>1, <2>2 DEF CallFits
<1>3. SameCalls
  BY <1>1, <1>2 DEF SameCalls
<1>4. /\ executor' = [pc |-> executor'.pc, batch |-> executor'.batch, error |-> executor'.error]
      /\ executor'.error \in {"none", "storage", "transition"}
      /\ executor'.batch \subseteq executor.batch
  BY <1>1 DEF Inductive, ExecutorFits
<1> QED
  BY <1>1, <1>3, <1>4, SignalsStep

LEMMA ContentIsLostStep ==
  ASSUME Inductive, NEW a \in DOMAIN assets, ContentIsLost(a)
  PROVE  Inductive'
<1>1. /\ UNCHANGED <<plan, row, executor, call, tasks>>
      /\ assets' = [assets EXCEPT ![a].content = "Missing"]
  BY DEF ContentIsLost
<1>2. SameCalls /\ RowFits' /\ NodesGoOn /\ Nodes' = Nodes /\ TasksFit'
  BY <1>1, CallsAreRecords, RowStays DEF Inductive
<1>3. CallsFit'
  BY <1>1, <1>2, CallsStay DEF Inductive
<1>4. ExecutorFits'
  BY <1>1, <1>2, ExecutorStays DEF Inductive, ExecutorFits
<1>5. \A b, type : AssetIs(b, type) => AssetIs(b, type)'
  <2>1. ASSUME NEW b \in DOMAIN assets
        PROVE  assets'[b].type = assets[b].type /\ assets'[b].digest = assets[b].digest
    BY <1>1
  <2> QED
    BY <1>1, <2>1 DEF AssetIs
<1>6. AssetsFit'
  <2>1. \A m : Ref(m)' = Ref(m) /\ OutputType(m)' = OutputType(m)
    BY <1>1, PlanStays
  <2> QED
    BY <1>1, <1>2, <1>5, <2>1 DEF Inductive, AssetsFit
<1> QED
  BY <1>1, <1>2, <1>3, <1>4, <1>6, PlanStays DEF Inductive

LEMMA BuildCallStep ==
  ASSUME Inductive, NEW n \in Nodes, BuildCall(n)
  PROVE  Inductive'
<1> DEFINE given == [pc |-> "readiness", inputs |-> Given(n), held |-> <<>>, outcome |-> <<>>,
                     cancelled |-> canceller = "signalled", aborted |-> FALSE,
                     elapsed |-> "nothing"]
<1>1. /\ n \in executor.batch /\ UNCHANGED <<plan, row, tasks, assets>>
      /\ PlanFits /\ RowFits /\ CallsFit /\ CallFits(n)
  BY DEF BuildCall, Inductive, CallsFit
<1>2. call[n].pc = "none" /\ row.nodes[n].state \in TakenUp /\ SourcesSucceeded(n)
  BY <1>1 DEF Inductive, ExecutorFits
<1>3. ResolveInputs(n) = {Given(n)}
  BY <1>1, <1>2, InputsResolve
<1>4. /\ call' = [call EXCEPT ![n] = given]
      /\ executor' = [executor EXCEPT !.batch = executor.batch \ {n},
                        !.pc = IF executor.batch \ {n} = {} THEN "collect" ELSE "build"]
  <2>1. (CHOOSE i \in {Given(n)} : TRUE) = Given(n)
    OBVIOUS
  <2> QED
    BY <1>3, <2>1 DEF BuildCall, CallAt
<1>5. /\ DOMAIN call' = Nodes /\ call'[n] = given
      /\ \A m \in Nodes : m # n => call'[m] = call[m]
  BY <1>1, <1>4 DEF CallsFit
<1>6. /\ Nodes' = Nodes /\ PlanFits' /\ \A m : Needed(m)' = Needed(m) /\ Given(m)' = Given(m)
  BY <1>1, PlanStays
<1>7. \A m \in Nodes : SourcesSucceeded(m)' = SourcesSucceeded(m)
  BY <1>1, <1>6 DEF SourcesSucceeded
<1>8. ExecutorFits'
  <2>1. /\ executor' = [pc |-> executor'.pc, batch |-> executor.batch \ {n},
                        error |-> executor.error]
        /\ executor'.batch = executor.batch \ {n} /\ executor'.error = executor.error
    BY <1>4 DEF Inductive, ExecutorFits
  <2>2. ASSUME NEW m \in executor'.batch
        PROVE  /\ m \in Nodes' /\ call'[m].pc = "none" /\ row'.nodes[m].state \in TakenUp
               /\ SourcesSucceeded(m)'
    BY <1>1, <1>5, <1>6, <1>7, <2>1, <2>2 DEF Inductive, ExecutorFits
  <2> QED
    BY <2>1, <2>2 DEF Inductive, ExecutorFits
<1>9. CallFits(n)'
  <2>1. given.pc = "readiness" /\ given.inputs = Given(n) /\ given.outcome = <<>>
    OBVIOUS
  <2>2. n \notin DOMAIN tasks /\ "readiness" \in Under /\ row.nodes[n].state # "Pending"
    BY <1>1, <1>2 DEF CallFits, Under, TakenUp
  <2> HIDE DEF given
  <2>3. given = [pc |-> given.pc, inputs |-> given.inputs, held |-> given.held,
                 outcome |-> given.outcome, cancelled |-> given.cancelled,
                 aborted |-> given.aborted, elapsed |-> given.elapsed]
    BY DEF given
  <2> QED
    BY <1>1, <1>2, <1>5, <1>6, <1>7, <2>1, <2>2, <2>3 DEF CallFits, Starting
<1>10. ASSUME NEW m \in Nodes, m # n PROVE CallFits(m)'
  <2>1. CallFits(m) /\ call'[m] = call[m]
    BY <1>5, <1>10 DEF Inductive, CallsFit
  <2>2. call'[m] = [pc |-> call[m].pc, inputs |-> call[m].inputs, held |-> call[m].held,
                    outcome |-> call[m].outcome, cancelled |-> call'[m].cancelled,
                    aborted |-> call'[m].aborted, elapsed |-> call'[m].elapsed]
    BY <2>1 DEF CallFits
  <2> QED
    BY <1>1, <2>1, <2>2, CallStays
<1>11. RowFits' /\ TasksFit' /\ AssetsFit'
  BY <1>1, RowStays
<1> QED
  BY <1>5, <1>6, <1>8, <1>9, <1>10, <1>11 DEF Inductive, CallsFit

\* A step of the row: what its nodes keep, and what the others ask of it.
LEMMA RowStep ==
  ASSUME Inductive, UNCHANGED <<plan, tasks, assets>>, SameCalls, NodesGoOn,
         RowFits',
         executor' = [pc |-> executor'.pc, batch |-> executor'.batch, error |-> executor'.error],
         executor'.error \in {"none", "storage", "transition"},
         executor'.batch \subseteq executor.batch,
         \A m \in Nodes :
           /\ row'.nodes[m].state = "Waiting" => m \in DOMAIN tasks
           /\ \A f \in row'.nodes[m].failure : (f.kind = "Capability") = (m \notin DOMAIN tasks)
           /\ row'.nodes[m].state = "Succeeded" =>
                row.nodes[m].state = "Succeeded" \/ Ref(m) \notin Generating
  PROVE  Inductive'
BY PlanStays, CallsStay, ExecutorStays, TasksStay, AssetsStay DEF Inductive

\* What a node's row is, field by field.
LEMMA NodeRowIs ==
  ASSUME Inductive, NEW m \in Nodes
  PROVE  /\ NodeRow(m)
         /\ row.nodes[m].state \in NodeStates
         /\ row.nodes[m].state = "Pending" =>
              /\ ~row.nodes[m].started /\ ~row.nodes[m].finished
              /\ row.nodes[m].outputs = {} /\ row.nodes[m].failure = {}
              /\ row.nodes[m].blockedBy = {}
         /\ row.nodes[m].state \in {"Running", "Waiting"} =>
              /\ row.nodes[m].started /\ ~row.nodes[m].finished
              /\ row.nodes[m].outputs = {} /\ row.nodes[m].failure = {}
              /\ row.nodes[m].blockedBy = {}
         /\ row.nodes[m].state = "Waiting" => m \in DOMAIN tasks
         /\ \A f \in row.nodes[m].failure : (f.kind = "Capability") = (m \notin DOMAIN tasks)
         /\ m \in DOMAIN row.nodes
<1>1. NodeRow(m) /\ m \in DOMAIN row.nodes
  BY DEF Inductive, RowFits, RowShape
<1>2. row.nodes[m].state \in NodeStates /\ ShapeIsValid(row.nodes[m])
  BY <1>1 DEF NodeRow
<1>3. /\ row.nodes[m].state = "Waiting" => m \in DOMAIN tasks
      /\ \A f \in row.nodes[m].failure : (f.kind = "Capability") = (m \notin DOMAIN tasks)
  BY DEF Inductive, TasksFit
<1>4. row.nodes[m].state = "Pending" =>
        /\ ~row.nodes[m].started /\ ~row.nodes[m].finished
        /\ row.nodes[m].outputs = {} /\ row.nodes[m].failure = {}
        /\ row.nodes[m].blockedBy = {}
  BY <1>2 DEF ShapeIsValid
<1>5. row.nodes[m].state \in {"Running", "Waiting"} =>
        /\ row.nodes[m].started /\ ~row.nodes[m].finished
        /\ row.nodes[m].outputs = {} /\ row.nodes[m].failure = {}
        /\ row.nodes[m].blockedBy = {}
  BY <1>2 DEF ShapeIsValid
<1> QED
  BY <1>1, <1>2, <1>3, <1>4, <1>5

LEMMA StartRunStep ==
  ASSUME Inductive, row.state = "Queued", row' = [row EXCEPT !.state = "Running"],
         UNCHANGED <<plan, executor, call, tasks, assets>>
  PROVE  Inductive'
<1>1. /\ row'.state = "Running" /\ row'.nodes = row.nodes
      /\ row' = [state |-> row'.state, nodes |-> row'.nodes]
  BY DEF Inductive, RowFits, RowShape
<1>2. \A m \in Nodes : row.nodes[m].state = "Pending"
  BY DEF Inductive, RowFits, RowShape
<1>3. SameCalls /\ NodesGoOn
  BY <1>1, CallsAreRecords DEF Inductive, NodesGoOn
<1>4. RowFits'
  <2>1. RowShape'
    BY <1>1, PlanStays DEF Inductive, RowFits, RowShape
  <2>2. ASSUME NEW m \in Nodes PROVE NodeRow(m)'
    <3>1. NodeRow(m) /\ Output(m)' = Output(m)
      BY NodeRowIs, PlanStays
    <3> QED
      BY <1>1, <1>2, <3>1 DEF NodeRow, ShapeIsValid
  <2> QED
    BY <2>1, <2>2, PlanStays DEF RowFits
<1>5. /\ executor' = [pc |-> executor'.pc, batch |-> executor'.batch, error |-> executor'.error]
      /\ executor'.error \in {"none", "storage", "transition"}
      /\ executor'.batch \subseteq executor.batch
  BY DEF Inductive, ExecutorFits
<1>6. \A m \in Nodes :
           /\ row'.nodes[m].state = "Waiting" => m \in DOMAIN tasks
           /\ \A f \in row'.nodes[m].failure : (f.kind = "Capability") = (m \notin DOMAIN tasks)
           /\ row'.nodes[m].state = "Succeeded" =>
                row.nodes[m].state = "Succeeded" \/ Ref(m) \notin Generating
  BY <1>1, NodeRowIs
<1> QED
  BY <1>3, <1>4, <1>5, <1>6, RowStep

IsNode(s) ==
  s = [state |-> s.state, started |-> s.started, finished |-> s.finished,
       outputs |-> s.outputs, failure |-> s.failure, blockedBy |-> s.blockedBy]

LEMMA BlockersFailed ==
  ASSUME NEW n, FailedAncestors(n) # {}
  PROVE  \E x \in Nodes : row.nodes[x].state = "Failed"
<1>1. PICK x : x \in FailedAncestors(n)
  OBVIOUS
<1>2. x \in In(row, {"Failed"})
  BY <1>1 DEF FailedAncestors
<1> QED
  BY <1>2 DEF In

LEMMA BlockStep ==
  ASSUME Inductive, row.state = "Running",
         row' = [row EXCEPT !.nodes = [n \in Nodes |-> IF n \notin ToBlock THEN @[n]
                       ELSE [@[n] EXCEPT !.state = "Blocked", !.finished = TRUE,
                                         !.blockedBy = FailedAncestors(n)]]],
         UNCHANGED <<plan, executor, call, tasks, assets>>
  PROVE  Inductive'
<1>1. /\ row'.state = "Running" /\ row' = [state |-> row'.state, nodes |-> row'.nodes]
      /\ DOMAIN row'.nodes = Nodes
      /\ \A n \in Nodes : row'.nodes[n] = IF n \notin ToBlock THEN row.nodes[n]
                       ELSE [row.nodes[n] EXCEPT !.state = "Blocked", !.finished = TRUE,
                                         !.blockedBy = FailedAncestors(n)]
  BY DEF Inductive, RowFits, RowShape
<1>2. ASSUME NEW n \in ToBlock
      PROVE  /\ n \in Nodes /\ row.nodes[n].state = "Pending" /\ FailedAncestors(n) # {}
             /\ row'.nodes[n].state = "Blocked" /\ row'.nodes[n].finished
             /\ ~row'.nodes[n].started /\ row'.nodes[n].outputs = {}
             /\ row'.nodes[n].failure = {} /\ row'.nodes[n].blockedBy # {}
             /\ row'.nodes[n] = [state |-> row'.nodes[n].state, started |-> row'.nodes[n].started,
                  finished |-> row'.nodes[n].finished, outputs |-> row'.nodes[n].outputs,
                  failure |-> row'.nodes[n].failure, blockedBy |-> row'.nodes[n].blockedBy]
  <2>1. n \in Nodes /\ row.nodes[n].state = "Pending" /\ FailedAncestors(n) # {}
    BY DEF ToBlock, In
  <2>2. NodeRow(n)
    BY <2>1, NodeRowIs
  <2> DEFINE blockers == FailedAncestors(n)
  <2>3. row'.nodes[n] = [row.nodes[n] EXCEPT !.state = "Blocked", !.finished = TRUE,
                                             !.blockedBy = blockers]
    BY <1>1, <2>1
  <2> HIDE DEF blockers
  <2> DEFINE s == row.nodes[n]
             t == row'.nodes[n]
  <2>4. IsNode(s) /\ t = [s EXCEPT !.state = "Blocked", !.finished = TRUE, !.blockedBy = blockers]
    BY <2>2, <2>3 DEF NodeRow, IsNode
  <2> HIDE DEF s, t
  <2>5. /\ t.state = "Blocked" /\ t.finished /\ t.blockedBy = blockers
        /\ t.started = s.started /\ t.outputs = s.outputs /\ t.failure = s.failure
    BY <2>4 DEF IsNode
  <2>6. IsNode(t)
    BY <2>4 DEF IsNode
  <2> QED
    BY <2>1, <2>5, <2>6, NodeRowIs DEF blockers, s, t, IsNode
<1>3. \A n \in Nodes \ ToBlock : row'.nodes[n] = row.nodes[n]
  BY <1>1
<1>4. SameCalls /\ NodesGoOn
  BY <1>2, <1>3, CallsAreRecords DEF Inductive, NodesGoOn, TakenUp
<1>5. RowFits'
  <2>1. RowShape'
    BY <1>1, PlanStays DEF RowShape
  <2>2. ASSUME NEW m \in Nodes PROVE NodeRow(m)'
    <3>1. /\ NodeRow(m) /\ Output(m)' = Output(m) /\ Nodes' = Nodes
          /\ row'.nodes[m].state # "Cancelled"
      <4>1. NodeRow(m) /\ row.nodes[m].state # "Cancelled"
        BY NodeRowIs DEF NodeRow
      <4> QED
        BY <1>2, <1>3, <4>1, PlanStays
    <3>2. CASE m \in ToBlock
      <4>1. ShapeIsValid(row'.nodes[m])
        BY <1>2, <3>2 DEF ShapeIsValid
      <4>2. PICK x \in Nodes : row.nodes[x].state = "Failed"
        BY <1>2, <3>2, BlockersFailed
      <4>3. row'.nodes[x].state = "Failed"
        BY <1>2, <1>3, <4>2
      <4> QED
        BY <1>2, <3>1, <3>2, <4>1, <4>2, <4>3 DEF NodeRow, NodeStates, ShapeIsValid
    <3>3. CASE m \notin ToBlock
      <4>1. row'.nodes[m] = row.nodes[m]
        BY <1>3, <3>3
      <4>2. ASSUME NEW x \in Nodes, row.nodes[x].state = "Failed"
            PROVE  row'.nodes[x].state = "Failed"
        BY <1>2, <1>3, <4>2
      <4> QED
        BY <3>1, <4>1, <4>2 DEF NodeRow, ShapeIsValid
    <3> QED
      BY <3>2, <3>3
  <2> QED
    BY <2>1, <2>2, PlanStays DEF RowFits
<1>6. /\ executor' = [pc |-> executor'.pc, batch |-> executor'.batch, error |-> executor'.error]
      /\ executor'.error \in {"none", "storage", "transition"}
      /\ executor'.batch \subseteq executor.batch
  BY DEF Inductive, ExecutorFits
<1>7. ASSUME NEW m \in Nodes
      PROVE  /\ row'.nodes[m].state = "Waiting" => m \in DOMAIN tasks
             /\ \A f \in row'.nodes[m].failure : (f.kind = "Capability") = (m \notin DOMAIN tasks)
             /\ row'.nodes[m].state = "Succeeded" =>
                  row.nodes[m].state = "Succeeded" \/ Ref(m) \notin Generating
  BY <1>2, <1>3, NodeRowIs
<1> QED
  BY <1>4, <1>5, <1>6, <1>7, RowStep

LEMMA BatchStep ==
  ASSUME Inductive, row.state = "Running",
         row' = [row EXCEPT !.nodes = [n \in Nodes |-> IF n \notin Batch THEN @[n]
                       ELSE [@[n] EXCEPT !.state = "Running", !.started = TRUE]]],
         executor' = [executor EXCEPT !.pc = "build", !.batch = Batch],
         UNCHANGED <<plan, call, tasks, assets>>
  PROVE  Inductive'
<1>1. /\ row'.state = "Running" /\ row' = [state |-> row'.state, nodes |-> row'.nodes]
      /\ DOMAIN row'.nodes = Nodes
      /\ \A n \in Nodes : row'.nodes[n] = IF n \notin Batch THEN row.nodes[n]
                       ELSE [row.nodes[n] EXCEPT !.state = "Running", !.started = TRUE]
  BY DEF Inductive, RowFits, RowShape
<1>2. ASSUME NEW n \in Batch
      PROVE  /\ n \in Nodes /\ row.nodes[n].state = "Pending" /\ SourcesSucceeded(n)
             /\ call[n].pc = "none"
             /\ row'.nodes[n].state = "Running" /\ ~row'.nodes[n].finished
             /\ row'.nodes[n].started /\ row'.nodes[n].outputs = {}
             /\ row'.nodes[n].failure = {} /\ row'.nodes[n].blockedBy = {}
             /\ IsNode(row'.nodes[n])
  <2>1. /\ n \in Nodes /\ row.nodes[n].state = "Pending"
        /\ Needed(n) \subseteq In(row, {"Succeeded"})
    BY DEF Batch, Ready, In, Needed
  <2>2. NodeRow(n)
    BY <2>1, NodeRowIs
  <2> DEFINE s == row.nodes[n]
             t == row'.nodes[n]
  <2>3. IsNode(s) /\ t = [s EXCEPT !.state = "Running", !.started = TRUE]
    BY <1>1, <2>1, <2>2 DEF NodeRow, IsNode
  <2>4. SourcesSucceeded(n)
    BY <2>1 DEF SourcesSucceeded, In
  <2>5. CallFits(n)
    BY <2>1 DEF Inductive, CallsFit
  <2>6. call[n].pc = "none"
    BY <2>1, <2>5 DEF CallFits
  <2> HIDE DEF s, t
  <2>7. /\ t.state = "Running" /\ t.started /\ t.finished = s.finished
        /\ t.blockedBy = s.blockedBy /\ t.outputs = s.outputs /\ t.failure = s.failure
    BY <2>3 DEF IsNode
  <2>8. IsNode(t)
    BY <2>3 DEF IsNode
  <2> QED
    BY <2>1, <2>4, <2>6, <2>7, <2>8, NodeRowIs DEF s, t
<1>3. \A n \in Nodes \ Batch : row'.nodes[n] = row.nodes[n]
  BY <1>1
<1>4. SameCalls /\ NodesGoOn
  BY <1>2, <1>3, CallsAreRecords DEF Inductive, NodesGoOn, TakenUp
<1>5. RowFits'
  <2>1. RowShape'
    BY <1>1, PlanStays DEF RowShape
  <2>2. ASSUME NEW m \in Nodes PROVE NodeRow(m)'
    <3>1. /\ NodeRow(m) /\ Output(m)' = Output(m) /\ Nodes' = Nodes
          /\ row'.nodes[m].state # "Cancelled"
      <4>1. NodeRow(m) /\ row.nodes[m].state # "Cancelled"
        BY NodeRowIs DEF NodeRow
      <4> QED
        BY <1>2, <1>3, <4>1, PlanStays
    <3>2. CASE m \in Batch
      <4>1. ShapeIsValid(row'.nodes[m])
        BY <1>2, <3>2 DEF ShapeIsValid
      <4> QED
        BY <1>2, <3>1, <3>2, <4>1 DEF NodeRow, NodeStates, ShapeIsValid, IsNode
    <3>3. CASE m \notin Batch
      <4>1. row'.nodes[m] = row.nodes[m]
        BY <1>3, <3>3
      <4>2. ASSUME NEW x \in Nodes, row.nodes[x].state = "Failed"
            PROVE  row'.nodes[x].state = "Failed"
        BY <1>2, <1>3, <4>2
      <4> QED
        BY <3>1, <4>1, <4>2 DEF NodeRow, ShapeIsValid
    <3> QED
      BY <3>2, <3>3
  <2> QED
    BY <2>1, <2>2, PlanStays DEF RowFits
<1>6. ExecutorFits'
  <2>1. /\ executor' = [pc |-> executor'.pc, batch |-> executor'.batch, error |-> executor'.error]
        /\ executor'.error = executor.error /\ executor'.batch = Batch
        /\ executor.error \in {"none", "storage", "transition"}
    BY DEF Inductive, ExecutorFits
  <2>2. ASSUME NEW n \in Batch
        PROVE  /\ n \in Nodes' /\ call'[n].pc = "none" /\ row'.nodes[n].state \in TakenUp
               /\ SourcesSucceeded(n)'
    <3>1. SourcesSucceeded(n)'
      BY <1>2, <1>4, PlanStays DEF SourcesSucceeded, NodesGoOn
    <3> QED
      BY <1>2, <3>1, PlanStays DEF TakenUp
  <2> QED
    BY <2>1, <2>2 DEF ExecutorFits
<1>7. CallsFit'
  BY <1>4, CallsStay DEF Inductive
<1>8. ASSUME NEW m \in Nodes
      PROVE  /\ row'.nodes[m].state = "Waiting" => m \in DOMAIN tasks
             /\ \A f \in row'.nodes[m].failure : (f.kind = "Capability") = (m \notin DOMAIN tasks)
             /\ row'.nodes[m].state = "Succeeded" => row.nodes[m].state = "Succeeded"
  BY <1>2, <1>3, NodeRowIs
<1>9. TasksFit' /\ AssetsFit'
  BY <1>8, TasksStay, AssetsStay DEF Inductive
<1> QED
  BY <1>5, <1>6, <1>7, <1>9, PlanStays DEF Inductive

\* The Run ends when no node is left to go on: all have succeeded, unless one
\* has failed.
LEMMA FinishStep ==
  ASSUME Inductive, row.state = "Running", In(row, Active) = {},
         row' = [row EXCEPT !.state = IF In(row, {"Failed"}) # {} THEN "Failed" ELSE "Succeeded"],
         executor' = [executor EXCEPT !.pc = "done"],
         UNCHANGED <<plan, call, tasks, assets>>
  PROVE  Inductive'
<1> DEFINE ended == IF In(row, {"Failed"}) # {} THEN "Failed" ELSE "Succeeded"
<1>1. /\ row'.state = ended /\ row'.nodes = row.nodes
      /\ row' = [state |-> row'.state, nodes |-> row'.nodes]
  BY DEF Inductive, RowFits, RowShape
<1>2. ASSUME NEW m \in Nodes
      PROVE  row.nodes[m].state \in {"Succeeded", "Failed", "Blocked"}
  <2>1. NodeRow(m) /\ row.nodes[m].state \in NodeStates
    BY NodeRowIs
  <2>2. row.nodes[m].state \notin Active /\ row.nodes[m].state # "Cancelled"
    BY <2>1 DEF In, NodeRow
  <2> QED
    BY <2>1, <2>2 DEF NodeStates, Active
<1>3. ended = "Failed" => \E m \in Nodes : row.nodes[m].state = "Failed"
  BY DEF In
<1>4. ended = "Succeeded" => \A m \in Nodes : row.nodes[m].state = "Succeeded"
  <2>1. SUFFICES ASSUME ended = "Succeeded", NEW m \in Nodes
                 PROVE  row.nodes[m].state = "Succeeded"
    OBVIOUS
  <2>2. \A x \in Nodes : row.nodes[x].state # "Failed"
    BY <2>1 DEF In
  <2>3. row.nodes[m].state # "Blocked"
    BY <2>2, NodeRowIs DEF NodeRow
  <2> QED
    BY <1>2, <2>2, <2>3
<1>5. ended \in {"Failed", "Succeeded"}
  OBVIOUS
<1> HIDE DEF ended
<1>6. RowFits'
  <2>1. RowShape'
    <3>1. DOMAIN row'.nodes = Nodes' /\ Nodes' = Nodes
      BY <1>1, PlanStays DEF Inductive, RowFits, RowShape
    <3> QED
      BY <1>1, <1>2, <1>3, <1>4, <1>5, <3>1 DEF RowShape, Active
  <2>2. ASSUME NEW m \in Nodes PROVE NodeRow(m)'
    <3>1. NodeRow(m) /\ Output(m)' = Output(m) /\ Nodes' = Nodes
      BY NodeRowIs, PlanStays
    <3> QED
      BY <1>1, <1>2, <3>1 DEF NodeRow, ShapeIsValid
  <2> QED
    BY <2>1, <2>2, PlanStays DEF RowFits
<1>7. SameCalls /\ NodesGoOn
  BY <1>1, CallsAreRecords DEF Inductive, NodesGoOn
<1>8. /\ executor' = [pc |-> executor'.pc, batch |-> executor'.batch, error |-> executor'.error]
      /\ executor'.error \in {"none", "storage", "transition"}
      /\ executor'.batch \subseteq executor.batch
  BY DEF Inductive, ExecutorFits
<1>9. \A m \in Nodes :
        /\ row'.nodes[m].state = "Waiting" => m \in DOMAIN tasks
        /\ \A f \in row'.nodes[m].failure : (f.kind = "Capability") = (m \notin DOMAIN tasks)
        /\ row'.nodes[m].state = "Succeeded" =>
             row.nodes[m].state = "Succeeded" \/ Ref(m) \notin Generating
  BY <1>1, NodeRowIs
<1> QED
  BY <1>6, <1>7, <1>8, <1>9, RowStep

LEMMA LoopStep ==
  ASSUME Inductive, Loop
  PROVE  Inductive'
<1>1. Restores(row) /\ UNCHANGED <<plan, tasks, assets>>
  BY RowRestores DEF Inductive, Loop
<1>2. row.state \in {"Queued", "Running"} \cup Terminal
  BY DEF Inductive, RowFits, RowShape, Terminal
<1>3. CASE executor' = [executor EXCEPT !.pc = "done"] /\ UNCHANGED <<row, call>>
  <2>1. SameCalls
    BY <1>3, CallsAreRecords DEF Inductive
  <2>2. /\ executor' = [pc |-> executor'.pc, batch |-> executor'.batch, error |-> executor'.error]
        /\ executor'.error \in {"none", "storage", "transition"}
        /\ executor'.batch \subseteq executor.batch
    BY <1>3 DEF Inductive, ExecutorFits
  <2> QED
    BY <1>1, <1>3, <2>1, <2>2, SignalsStep
<1>4. CASE row.state = "Queued"
  BY <1>1, <1>4, StartRunStep DEF Loop, Terminal
<1>5. CASE row.state = "Running" /\ ToBlock # {}
  BY <1>1, <1>5, BlockStep DEF Loop, Terminal
<1>6. CASE row.state = "Running" /\ ToBlock = {} /\ Ready # {}
  BY <1>1, <1>6, BatchStep DEF Loop, Terminal
<1>7. CASE row.state = "Running" /\ ToBlock = {} /\ Ready = {} /\ In(row, {"Waiting"}) = {}
  <2>1. CASE In(row, Active) # {}
    <3>1. Abort("transition") /\ UNCHANGED row
      BY <1>1, <1>7, <2>1 DEF Loop, Terminal
    <3> QED
      BY <1>1, <3>1, AbortStep
  <2>2. CASE In(row, Active) = {}
    BY <1>1, <1>7, <2>2, FinishStep DEF Loop, Terminal
  <2> QED
    BY <2>1, <2>2
<1> QED
  <2>1. CASE row.state \in Terminal
    BY <1>1, <1>3, <2>1 DEF Loop
  <2>2. CASE row.state = "Running" /\ ToBlock = {} /\ Ready = {} /\ In(row, {"Waiting"}) # {}
    BY <1>1, <1>3, <2>2 DEF Loop, Terminal
  <2> QED
    BY <1>2, <1>4, <1>5, <1>6, <1>7, <2>1, <2>2

LEMMA CommitCancelStep ==
  ASSUME Inductive, CommitCancel
  PROVE  Inductive'
<1> DEFINE Moves == {m \in Nodes : row.nodes[m].state \in Active}
<1>1. /\ row' = [state |-> row'.state, nodes |-> row'.nodes] /\ row'.state = "Cancelled"
      /\ DOMAIN row'.nodes = Nodes
      /\ \A n \in Nodes : row'.nodes[n] = IF row.nodes[n].state \notin Active THEN row.nodes[n]
                          ELSE [row.nodes[n] EXCEPT !.state = "Cancelled", !.finished = TRUE]
      /\ UNCHANGED <<plan, executor, call, tasks, assets>>
  BY DEF CommitCancel
<1>2. ASSUME NEW n \in Moves
      PROVE  /\ row'.nodes[n].state = "Cancelled" /\ row'.nodes[n].finished
             /\ row'.nodes[n].outputs = {} /\ row'.nodes[n].failure = {}
             /\ row'.nodes[n].blockedBy = {} /\ IsNode(row'.nodes[n])
  <2>1. n \in Nodes /\ row.nodes[n].state \in {"Pending", "Running", "Waiting"}
    BY DEF Active
  <2>2. NodeRow(n)
    BY <2>1, NodeRowIs
  <2> DEFINE s == row.nodes[n]
             t == row'.nodes[n]
  <2>3. IsNode(s) /\ t = [s EXCEPT !.state = "Cancelled", !.finished = TRUE]
    BY <1>1, <2>1, <2>2 DEF NodeRow, IsNode, Active
  <2> HIDE DEF s, t
  <2>4. /\ t.state = "Cancelled" /\ t.finished
        /\ t.blockedBy = s.blockedBy /\ t.outputs = s.outputs /\ t.failure = s.failure
    BY <2>3 DEF IsNode
  <2>5. IsNode(t)
    BY <2>3 DEF IsNode
  <2> QED
    BY <2>1, <2>4, <2>5, NodeRowIs DEF s, t
<1>3. \A n \in Nodes \ Moves : row'.nodes[n] = row.nodes[n]
  BY <1>1
<1>4. \A n \in Nodes : row'.nodes[n].state \notin Active
  BY <1>2, <1>3 DEF Active
<1>5. SameCalls /\ NodesGoOn
  BY <1>1, <1>2, <1>3, CallsAreRecords DEF Inductive, NodesGoOn, TakenUp, Active
<1>6. RowFits'
  <2>1. RowShape'
    BY <1>1, <1>4, PlanStays DEF RowShape
  <2>2. ASSUME NEW m \in Nodes PROVE NodeRow(m)'
    <3>1. NodeRow(m) /\ Output(m)' = Output(m) /\ Nodes' = Nodes
      BY <1>1, NodeRowIs, PlanStays
    <3>2. CASE m \in Moves
      <4>1. ShapeIsValid(row'.nodes[m])
        BY <1>2, <3>2 DEF ShapeIsValid
      <4> QED
        BY <1>1, <1>2, <3>1, <3>2, <4>1 DEF NodeRow, NodeStates, ShapeIsValid, IsNode
    <3>3. CASE m \notin Moves
      <4>1. row'.nodes[m] = row.nodes[m]
        BY <1>3, <3>3
      <4>2. ASSUME NEW x \in Nodes, row.nodes[x].state = "Failed"
            PROVE  row'.nodes[x].state = "Failed"
        BY <1>1, <4>2 DEF Active
      <4> QED
        BY <1>1, <3>1, <4>1, <4>2 DEF NodeRow, ShapeIsValid
    <3> QED
      BY <3>2, <3>3
  <2> QED
    BY <1>1, <2>1, <2>2, PlanStays DEF RowFits
<1>7. /\ executor' = [pc |-> executor'.pc, batch |-> executor'.batch, error |-> executor'.error]
      /\ executor'.error \in {"none", "storage", "transition"}
      /\ executor'.batch \subseteq executor.batch
  BY <1>1 DEF Inductive, ExecutorFits
<1>8. ASSUME NEW m \in Nodes
      PROVE  /\ row'.nodes[m].state = "Waiting" => m \in DOMAIN tasks
             /\ \A f \in row'.nodes[m].failure : (f.kind = "Capability") = (m \notin DOMAIN tasks)
             /\ row'.nodes[m].state = "Succeeded" =>
                  row.nodes[m].state = "Succeeded" \/ Ref(m) \notin Generating
  BY <1>2, <1>3, NodeRowIs
<1> QED
  BY <1>1, <1>5, <1>6, <1>7, <1>8, RowStep

----------------------------------------------------------------------------
(* An outcome is settled.                                                  *)

\* A node that is settled, by its call or by its task.
LEMMA NodeSettles ==
  ASSUME Inductive, NEW n \in Nodes, row.nodes[n].state \in {"Running", "Waiting"},
         NEW outcome, NEW t, t = Settled(n, outcome)
  PROVE  /\ outcome = <<"Completed", Output(n)>> =>
              /\ IsNode(t) /\ t.state = "Succeeded" /\ t.started /\ t.finished
              /\ t.outputs = {EncodeOutputs(Output(n))} /\ t.failure = {} /\ t.blockedBy = {}
         /\ \A f : outcome = <<"Failed", f>> =>
              /\ IsNode(t) /\ t.state = "Failed" /\ t.started /\ t.finished
              /\ t.outputs = {} /\ t.failure = {EncodeFailure(f)} /\ t.blockedBy = {}
         /\ outcome = <<"Waiting">> =>
              /\ IsNode(t) /\ t.state = "Waiting" /\ t.started /\ ~t.finished
              /\ t.outputs = {} /\ t.failure = {} /\ t.blockedBy = {}
<1> DEFINE s == row.nodes[n]
<1>1. /\ IsNode(s) /\ s.started /\ ~s.finished /\ s.outputs = {} /\ s.failure = {}
      /\ s.blockedBy = {}
  BY NodeRowIs DEF NodeRow, IsNode
<1>2. \A state : SetNode(n, state) = [s EXCEPT !.state = state]
  BY DEF SetNode
<1> HIDE DEF s
<1>3. ASSUME NEW state, NEW u, u = SetNode(n, state)
      PROVE  /\ IsNode(u) /\ u.state = state /\ u.started /\ ~u.finished /\ u.outputs = {}
             /\ u.failure = {} /\ u.blockedBy = {}
  <2>1. u = [s EXCEPT !.state = state]
    BY <1>2, <1>3
  <2>2. IsNode(u)
    BY <1>1, <2>1 DEF IsNode
  <2>3. /\ u.state = state /\ u.started = s.started /\ u.finished = s.finished
        /\ u.outputs = s.outputs /\ u.failure = s.failure /\ u.blockedBy = s.blockedBy
    BY <1>1, <2>1 DEF IsNode
  <2> QED
    BY <1>1, <2>2, <2>3
<1>4. ASSUME outcome = <<"Completed", Output(n)>>
      PROVE  /\ IsNode(t) /\ t.state = "Succeeded" /\ t.started /\ t.finished
             /\ t.outputs = {EncodeOutputs(Output(n))} /\ t.failure = {} /\ t.blockedBy = {}
  <2> DEFINE u == SetNode(n, "Succeeded")
             kept == {EncodeOutputs(Output(n))}
  <2>1. t = [u EXCEPT !.outputs = kept, !.finished = TRUE]
    BY <1>4 DEF Settled
  <2>2. /\ IsNode(u) /\ u.state = "Succeeded" /\ u.started /\ u.failure = {} /\ u.blockedBy = {}
    BY <1>3
  <2> HIDE DEF u, kept
  <2>3. IsNode(t)
    BY <2>1, <2>2 DEF IsNode
  <2>4. /\ t.outputs = kept /\ t.finished /\ t.state = u.state /\ t.started = u.started
        /\ t.failure = u.failure /\ t.blockedBy = u.blockedBy
    BY <2>1, <2>2 DEF IsNode
  <2> QED
    BY <2>2, <2>3, <2>4 DEF kept
<1>5. ASSUME NEW f, outcome = <<"Failed", f>>
      PROVE  /\ IsNode(t) /\ t.state = "Failed" /\ t.started /\ t.finished
             /\ t.outputs = {} /\ t.failure = {EncodeFailure(f)} /\ t.blockedBy = {}
  <2> DEFINE u == SetNode(n, "Failed")
             kept == {EncodeFailure(f)}
  <2>1. t = [u EXCEPT !.failure = kept, !.finished = TRUE]
    BY <1>5 DEF Settled
  <2>2. /\ IsNode(u) /\ u.state = "Failed" /\ u.started /\ u.outputs = {} /\ u.blockedBy = {}
    BY <1>3
  <2> HIDE DEF u, kept
  <2>3. IsNode(t)
    BY <2>1, <2>2 DEF IsNode
  <2>4. /\ t.failure = kept /\ t.finished /\ t.state = u.state /\ t.started = u.started
        /\ t.outputs = u.outputs /\ t.blockedBy = u.blockedBy
    BY <2>1, <2>2 DEF IsNode
  <2> QED
    BY <2>2, <2>3, <2>4 DEF kept
<1>6. ASSUME outcome = <<"Waiting">>
      PROVE  /\ IsNode(t) /\ t.state = "Waiting" /\ t.started /\ ~t.finished
             /\ t.outputs = {} /\ t.failure = {} /\ t.blockedBy = {}
  <2>1. t = SetNode(n, "Waiting")
    BY <1>6 DEF Settled
  <2> QED
    BY <1>3, <2>1
<1> QED
  BY <1>4, <1>5, <1>6

\* The row of the Run when one of its nodes settles.
LEMMA RowSettles ==
  ASSUME Inductive, NEW n \in Nodes, row.nodes[n].state \in {"Running", "Waiting"},
         NEW outcome, row' = [row EXCEPT !.nodes[n] = Settled(n, outcome)], UNCHANGED plan,
         \/ outcome = <<"Completed", Output(n)>>
         \/ \E f : outcome = <<"Failed", f>> /\ DecodeFailure(EncodeFailure(f)) # {}
         \/ outcome = <<"Waiting">>
  PROVE  /\ RowFits' /\ row'.nodes[n] = Settled(n, outcome)
         /\ \A m \in Nodes : m # n => row'.nodes[m] = row.nodes[m]
         /\ row'.nodes[n].state \in {"Succeeded", "Failed", "Waiting"}
<1>1. /\ row' = [state |-> row'.state, nodes |-> row'.nodes] /\ row'.state = row.state
      /\ DOMAIN row'.nodes = Nodes /\ row'.nodes[n] = Settled(n, outcome)
      /\ \A m \in Nodes : m # n => row'.nodes[m] = row.nodes[m]
  BY DEF Inductive, RowFits, RowShape
<1>2. row.state = "Running"
  BY DEF Inductive, RowFits, RowShape, Active
<1> DEFINE t == Settled(n, outcome)
<1>3. /\ IsNode(t) /\ t.state \in {"Succeeded", "Failed", "Waiting"} /\ ShapeIsValid(t)
      /\ t.outputs \subseteq {EncodeOutputs(Output(n))}
      /\ \A f \in t.failure : DecodeFailure(f) # {}
  <2>1. CASE outcome = <<"Completed", Output(n)>>
    <3>1. /\ IsNode(t) /\ t.state = "Succeeded" /\ t.started /\ t.finished
          /\ t.outputs = {EncodeOutputs(Output(n))} /\ t.failure = {} /\ t.blockedBy = {}
      BY <2>1, NodeSettles
    <3> HIDE DEF t
    <3> QED
      BY <3>1 DEF ShapeIsValid
  <2>2. CASE \E f : outcome = <<"Failed", f>> /\ DecodeFailure(EncodeFailure(f)) # {}
    <3>1. PICK f : outcome = <<"Failed", f>> /\ DecodeFailure(EncodeFailure(f)) # {}
      BY <2>2
    <3>2. /\ IsNode(t) /\ t.state = "Failed" /\ t.started /\ t.finished
          /\ t.outputs = {} /\ t.failure = {EncodeFailure(f)} /\ t.blockedBy = {}
      BY <3>1, NodeSettles
    <3> HIDE DEF t
    <3> QED
      BY <3>1, <3>2 DEF ShapeIsValid
  <2>3. CASE outcome = <<"Waiting">>
    <3>1. /\ IsNode(t) /\ t.state = "Waiting" /\ t.started /\ ~t.finished
          /\ t.outputs = {} /\ t.failure = {} /\ t.blockedBy = {}
      BY <2>3, NodeSettles
    <3> HIDE DEF t
    <3> QED
      BY <3>1 DEF ShapeIsValid
  <2> QED
    BY <2>1, <2>2, <2>3
<1>4. row'.nodes[n] = t
  BY <1>1
<1> HIDE DEF t
<1>5. RowShape'
  BY <1>1, <1>2, PlanStays DEF RowShape
<1>6. ASSUME NEW m \in Nodes PROVE NodeRow(m)'
  <2>1. NodeRow(m) /\ Output(m)' = Output(m) /\ Nodes' = Nodes
    BY NodeRowIs, PlanStays
  <2>2. CASE m = n
    BY <1>3, <1>4, <2>1, <2>2 DEF NodeRow, NodeStates, IsNode, ShapeIsValid
  <2>3. CASE m # n
    <3>1. row'.nodes[m] = row.nodes[m]
      BY <1>1, <2>3
    <3>2. ASSUME NEW x \in Nodes, row.nodes[x].state = "Failed"
          PROVE  row'.nodes[x].state = "Failed"
      BY <1>1, <3>2
    <3> QED
      BY <1>1, <2>1, <3>1, <3>2 DEF NodeRow, ShapeIsValid
  <2> QED
    BY <2>2, <2>3
<1> QED
  BY <1>1, <1>3, <1>4, <1>5, <1>6, PlanStays DEF RowFits, t

LEMMA CollectResultStep ==
  ASSUME Inductive, NEW n \in Nodes, CollectResult(n)
  PROVE  Inductive'
<1>1. /\ Restores(row) /\ UNCHANGED <<plan, tasks, assets>> /\ call[n].pc = "ended"
      /\ CallFits(n) /\ NodeFits(n) /\ n \in DOMAIN call
  BY RowRestores DEF Inductive, CollectResult, CallsFit, PlanFits
<1>2. CASE Abort("storage") /\ UNCHANGED row
  BY <1>1, <1>2, AbortStep
<1>3. ASSUME /\ row' = IF row.state = "Cancelled" THEN row
                       ELSE [row EXCEPT !.nodes[n] = Settled(n, call[n].outcome)]
             /\ call' = [call EXCEPT ![n].pc = "committed"]
             /\ executor' = [executor EXCEPT !.pc =
                  IF \A m \in Nodes : call'[m].pc \in {"none", "committed"} \/ call'[m].aborted
                  THEN "loop" ELSE "collect"]
      PROVE  Inductive'
  <2> DEFINE outcome == call[n].outcome
  <2>1. GoodOutcome(n) /\ row.nodes[n].state \in TakenUp /\ SourcesSucceeded(n)
        /\ row.nodes[n].state # "Pending" /\ call[n].inputs = Given(n)
    BY <1>1 DEF CallFits
  <2>2. /\ call'[n] = [pc |-> "committed", inputs |-> call[n].inputs, held |-> call[n].held,
                       outcome |-> outcome, cancelled |-> call[n].cancelled,
                       aborted |-> call[n].aborted, elapsed |-> call[n].elapsed]
        /\ DOMAIN call' = Nodes /\ \A m \in Nodes : m # n => call'[m] = call[m]
    <3>1. call' = [call EXCEPT ![n] = [call[n] EXCEPT !.pc = "committed"]]
      BY <1>1, <1>3
    <3>2. [call[n] EXCEPT !.pc = "committed"]
            = [pc |-> "committed", inputs |-> call[n].inputs, held |-> call[n].held,
               outcome |-> outcome, cancelled |-> call[n].cancelled,
               aborted |-> call[n].aborted, elapsed |-> call[n].elapsed]
      BY <1>1 DEF CallFits
    <3> QED
      BY <1>1, <3>1, <3>2 DEF Inductive, CallsFit
  <2>3. /\ executor' = [pc |-> executor'.pc, batch |-> executor.batch, error |-> executor.error]
        /\ executor'.batch = executor.batch /\ executor'.error = executor.error
    <3> DEFINE pc == IF \A m \in Nodes : call'[m].pc \in {"none", "committed"} \/ call'[m].aborted
                     THEN "loop" ELSE "collect"
    <3>1. executor' = [executor EXCEPT !.pc = pc]
      BY <1>3
    <3> HIDE DEF pc
    <3> QED
      BY <3>1 DEF Inductive, ExecutorFits
  <2>4. ASSUME row.state # "Cancelled"
        PROVE  /\ row.nodes[n].state = "Running"
               /\ row' = [row EXCEPT !.nodes[n] = Settled(n, outcome)]
               /\ \/ outcome = <<"Completed", Output(n)>>
                  \/ \E f : outcome = <<"Failed", f>> /\ DecodeFailure(EncodeFailure(f)) # {}
                  \/ outcome = <<"Waiting">>
    <3>1. row.nodes[n].state = "Running"
      BY <2>1, <2>4, NodeRowIs DEF TakenUp, NodeRow
    <3>2. ASSUME outcome = <<"Failed", CapabilityFailed(outcome[2][2])>>,
                 FineError(outcome[2][2])
          PROVE  \E f : outcome = <<"Failed", f>> /\ DecodeFailure(EncodeFailure(f)) # {}
      BY <3>2, ErrorReadsBack DEF FineError
    <3> QED
      BY <1>3, <2>1, <2>4, <3>1, <3>2 DEF GoodOutcome
  <2>5. /\ RowFits' /\ Nodes' = Nodes
        /\ \A m \in Nodes : m # n => row'.nodes[m] = row.nodes[m]
        /\ row.nodes[n].state \notin {"Succeeded", "Pending"} /\ row'.nodes[n].state # "Pending"
    <3>1. CASE row.state = "Cancelled"
      BY <1>1, <1>3, <2>1, <3>1, RowStays DEF TakenUp
    <3>2. CASE row.state # "Cancelled"
      BY <1>1, <2>4, <3>2, RowSettles, PlanStays
    <3> QED
      BY <3>1, <3>2
  <2>6. \A m \in Nodes : row.nodes[m].state = "Succeeded" => row'.nodes[m].state = "Succeeded"
    BY <2>5
  <2>7. \A m \in Nodes : SourcesSucceeded(m) => SourcesSucceeded(m)'
    BY <1>1, <2>6, PlanStays DEF SourcesSucceeded
  <2>8. CallsFit'
    <3>1. CallFits(n)'
      <4>1. GoodOutcome(n)'
        <5>1. call'[n].outcome = outcome
          BY <2>2
        <5> QED
          BY <1>1, <2>1, <5>1, PlanStays DEF GoodOutcome
      <4>2. Given(n)' = Given(n)
        BY <1>1, PlanStays
      <4>3. "committed" \notin Under \cup {"ended", "none", "image", "reading", "read"} \cup Starting
        BY DEF Under, Starting
      <4> QED
        BY <1>1, <2>1, <2>2, <2>5, <2>7, <4>1, <4>2, <4>3 DEF CallFits
    <3>2. ASSUME NEW m \in Nodes, m # n PROVE CallFits(m)'
      <4>1. CallFits(m) /\ call'[m] = call[m] /\ row'.nodes[m] = row.nodes[m]
        BY <2>2, <2>5, <3>2 DEF Inductive, CallsFit
      <4>2. call'[m] = [pc |-> call[m].pc, inputs |-> call[m].inputs, held |-> call[m].held,
                        outcome |-> call[m].outcome, cancelled |-> call'[m].cancelled,
                        aborted |-> call'[m].aborted, elapsed |-> call'[m].elapsed]
        BY <4>1 DEF CallFits
      <4> QED
        BY <1>1, <2>6, <4>1, <4>2, CallStays
    <3> QED
      BY <2>2, <2>5, <3>1, <3>2 DEF CallsFit
  <2>9. ExecutorFits'
    <3>1. ASSUME NEW m \in executor.batch
          PROVE  /\ m \in Nodes' /\ call'[m].pc = "none" /\ row'.nodes[m].state \in TakenUp
                 /\ SourcesSucceeded(m)'
      <4>1. /\ m \in Nodes /\ call[m].pc = "none" /\ row.nodes[m].state \in TakenUp
            /\ SourcesSucceeded(m)
        BY DEF Inductive, ExecutorFits
      <4> QED
        BY <1>1, <2>2, <2>5, <2>7, <4>1
    <3> QED
      BY <2>3, <3>1 DEF Inductive, ExecutorFits
  <2>10. /\ row'.nodes[n].state = "Waiting" => n \in DOMAIN tasks
         /\ \A f \in row'.nodes[n].failure : (f.kind = "Capability") = (n \notin DOMAIN tasks)
         /\ row'.nodes[n].state = "Succeeded" => Ref(n) \notin Generating
    <3>1. CASE row.state = "Cancelled"
      BY <1>3, <2>5, <3>1, NodeRowIs
    <3>2. CASE row.state # "Cancelled"
      <4>1. row'.nodes[n] = Settled(n, outcome) /\ row.nodes[n].state \in {"Running", "Waiting"}
        BY <1>1, <2>4, <3>2, RowSettles
      <4>2. CASE outcome = <<"Completed", Output(n)>> /\ Ref(n) \notin Generating
        BY <4>1, <4>2, NodeSettles
      <4>3. CASE outcome = <<"Waiting">> /\ n \in DOMAIN tasks
        BY <4>1, <4>3, NodeSettles
      <4>4. CASE /\ outcome = <<"Failed", CapabilityFailed(outcome[2][2])>>
                 /\ FineError(outcome[2][2]) /\ n \notin DOMAIN tasks
        <5> DEFINE f == CapabilityFailed(outcome[2][2])
        <5>1. outcome = <<"Failed", f>> /\ EncodeFailure(f).kind = "Capability"
          BY <4>4, ErrorReadsBack DEF FineError
        <5> HIDE DEF f, outcome
        <5>2. row'.nodes[n].state = "Failed" /\ row'.nodes[n].failure = {EncodeFailure(f)}
          BY <4>1, <5>1, NodeSettles
        <5> QED
          BY <4>4, <5>1, <5>2
      <4> QED
        BY <2>1, <4>2, <4>3, <4>4 DEF GoodOutcome
    <3> QED
      BY <3>1, <3>2
  <2>11. TasksFit' /\ AssetsFit'
    <3>1. \A m \in Nodes :
            /\ row'.nodes[m].state = "Waiting" => m \in DOMAIN tasks
            /\ \A f \in row'.nodes[m].failure : (f.kind = "Capability") = (m \notin DOMAIN tasks)
            /\ Ref(m) \in Generating /\ row'.nodes[m].state = "Succeeded" =>
                 row.nodes[m].state = "Succeeded"
      BY <2>5, <2>10, NodeRowIs
    <3> QED
      BY <1>1, <3>1, TasksStay, AssetsStay DEF Inductive
  <2> QED
    BY <1>1, <2>5, <2>8, <2>9, <2>11, PlanStays DEF Inductive
<1> QED
  BY <1>1, <1>2, <1>3 DEF CollectResult

LEMMA CompleteTaskStep ==
  ASSUME Inductive, NEW n \in Nodes, CompleteTask(n)
  PROVE  Inductive'
<1> DEFINE type == TypeOf[tasks[n].kind]
           value == ManagedRef(type, Produced[n], Digest(Produced[n]))
           asset == [type |-> type, content |-> "Available", digest |-> Digest(Produced[n])]
<1>1. /\ row.nodes[n].state = "Waiting" /\ n \in DOMAIN tasks
      /\ UNCHANGED <<plan, executor, call, tasks>>
  BY DEF CompleteTask
<1>2. /\ NodeFits(n) /\ Ref(n) \in Generating /\ tasks[n].kind = RequestKinds[Ref(n)]
      /\ Ref(n) \in {ImageMaker, VideoMaker, SpeechMaker} /\ Ref(n) \notin Reading /\ Ref(n) # TextProvider
      /\ \A m \in Nodes : NodeFits(m)
  <2>1. Ref(n) \in Generating /\ tasks[n] = Wanted(n) /\ \A m \in Nodes : NodeFits(m)
    BY <1>1 DEF Inductive, PlanFits, TasksFit
  <2>2. Wanted(n).kind = RequestKinds[Ref(n)]
    BY DEF Wanted
  <2>3. Ref(n) \in {ImageMaker, VideoMaker, SpeechMaker} /\ Ref(n) \notin Reading /\ Ref(n) # TextProvider
    BY <2>1, BuiltInRefs DEF ImageMaker, VideoMaker, SpeechMaker, TextProvider
  <2> QED
    BY <2>1, <2>2, <2>3
<1>3. type = OutputType(n)
  BY <1>2, KindTable, OutputTable DEF NodeFits
<1>4. value = Gives(n) /\ value.type = OutputType(n)
  BY <1>2, <1>3 DEF Gives, AssetOf, ManagedRef
<1>5. OutputSet(Ref(n), Only(OutputKey(n), value)) = {Output(n)}
  BY <1>2, <1>4, OutputIsComplete DEF Output
<1>6. \/ /\ row' = [row EXCEPT !.nodes[n] = Settled(n, <<"Completed", Output(n)>>)]
         /\ assets' = Put(assets, Produced[n], asset)
      \/ /\ row' = [row EXCEPT !.nodes[n] =
                      Settled(n, <<"Failed", <<"GenerationTask", "ProviderRejected">>>>)]
         /\ UNCHANGED assets
  BY <1>5 DEF CompleteTask
<1> HIDE DEF type, value, asset
<1> DEFINE f == <<"GenerationTask", "ProviderRejected">>
<1>7. DecodeFailure(EncodeFailure(f)) # {} /\ EncodeFailure(f).kind = "GenerationTask"
  BY DEF EncodeFailure, DecodeFailure
<1>8. /\ RowFits' /\ Nodes' = Nodes
      /\ \A m \in Nodes : m # n => row'.nodes[m] = row.nodes[m]
      /\ row'.nodes[n].state \in {"Succeeded", "Failed", "Waiting"}
  <2>1. CASE row' = [row EXCEPT !.nodes[n] = Settled(n, <<"Completed", Output(n)>>)]
    BY <1>1, <2>1, RowSettles, PlanStays
  <2>2. CASE row' = [row EXCEPT !.nodes[n] = Settled(n, <<"Failed", f>>)]
    BY <1>1, <1>7, <2>2, RowSettles, PlanStays
  <2> QED
    BY <1>6, <2>1, <2>2
<1>9. SameCalls /\ NodesGoOn
  BY <1>1, <1>8, CallsAreRecords DEF Inductive, NodesGoOn, TakenUp
<1>10. CallsFit' /\ ExecutorFits'
  BY <1>1, <1>9, CallsStay, ExecutorStays DEF Inductive, ExecutorFits
<1>11. TasksFit'
  <2>1. \A g \in row'.nodes[n].failure : g.kind # "Capability"
    <3>1. CASE row' = [row EXCEPT !.nodes[n] = Settled(n, <<"Completed", Output(n)>>)]
      <4>1. row'.nodes[n] = Settled(n, <<"Completed", Output(n)>>)
        BY <1>1, <3>1, RowSettles
      <4> QED
        BY <1>1, <4>1, NodeSettles
    <3>2. CASE row' = [row EXCEPT !.nodes[n] = Settled(n, <<"Failed", f>>)]
      <4>1. row'.nodes[n] = Settled(n, <<"Failed", f>>)
        BY <1>1, <1>7, <3>2, RowSettles
      <4>2. row'.nodes[n].failure = {EncodeFailure(f)}
        BY <1>1, <4>1, NodeSettles
      <4> QED
        BY <1>7, <4>2
    <3> QED
      BY <1>6, <3>1, <3>2
  <2>2. \A m \in Nodes :
          /\ row'.nodes[m].state = "Waiting" => m \in DOMAIN tasks
          /\ \A g \in row'.nodes[m].failure : (g.kind = "Capability") = (m \notin DOMAIN tasks)
    BY <1>1, <1>8, <2>1, NodeRowIs
  <2> QED
    BY <1>1, <2>2, TasksStay DEF Inductive
<1>12. AssetsFit'
  <2>1. \A m : Ref(m)' = Ref(m) /\ OutputType(m)' = OutputType(m)
    BY <1>1, PlanStays
  <2>2. CASE assets' = Put(assets, Produced[n], asset)
    <3>1. /\ DOMAIN assets' = DOMAIN assets \cup {Produced[n]} /\ assets'[Produced[n]] = asset
          /\ \A a \in DOMAIN assets : a # Produced[n] => assets'[a] = assets[a]
      BY <2>2 DEF Put
    <3>2. \A a, x : AssetIs(a, x) /\ a # Produced[n] => AssetIs(a, x)'
      BY <3>1 DEF AssetIs
    <3>3. AssetIs(Produced[n], OutputType(n))'
      BY <1>3, <2>1, <3>1 DEF AssetIs, asset
    <3>4. \A a \in DOMAIN Library : a # Produced[n]
      BY <1>2 DEF NodeFits
    <3>5. \A m \in Nodes : m # n => Produced[m] # Produced[n]
      BY <1>2, IdentityAssumption DEF NodeFits, IsInjective
    <3>6. \A a \in DOMAIN Library : AssetIs(a, Library[a])'
      BY <3>2, <3>4 DEF Inductive, AssetsFit
    <3>7. ASSUME NEW m \in Nodes, Ref(m) \in Generating, row'.nodes[m].state = "Succeeded"
          PROVE  AssetIs(Produced[m], OutputType(m))'
      <4>1. CASE m = n
        BY <3>3, <4>1
      <4>2. CASE m # n
        BY <1>8, <2>1, <3>2, <3>5, <3>7, <4>2 DEF Inductive, AssetsFit
      <4> QED
        BY <4>1, <4>2
    <3> QED
      BY <1>8, <2>1, <3>6, <3>7 DEF AssetsFit
  <2>3. CASE /\ row' = [row EXCEPT !.nodes[n] = Settled(n, <<"Failed", f>>)]
             /\ UNCHANGED assets
    <3>1. row'.nodes[n] = Settled(n, <<"Failed", f>>)
      BY <1>1, <1>7, <2>3, RowSettles
    <3>2. row'.nodes[n].state = "Failed"
      BY <1>1, <3>1, NodeSettles
    <3> QED
      BY <1>1, <1>8, <2>3, <3>2, AssetsStay DEF Inductive
  <2> QED
    BY <1>6, <2>2, <2>3
<1> QED
  BY <1>1, <1>8, <1>10, <1>11, <1>12, PlanStays DEF Inductive

----------------------------------------------------------------------------
(* The theorems.                                                           *)

LEMMA StepOfCall ==
  ASSUME Inductive, NEW n \in Nodes, Step(n)
  PROVE  Inductive'
BY CheckReadinessStep, ProvideTextStep, SelectAssetStep, BeginGenerationStep, CheckImageStep,
   ReadMediaStep, UseMediaStep, StartTaskStep, TranslateStartStep, CreateTaskStep DEF Step

LEMMA NextInductive == Inductive /\ [Next]_vars => Inductive'
<1> SUFFICES ASSUME Inductive, [Next]_vars PROVE Inductive'
  OBVIOUS
<1>1. CASE Next
  BY <1>1, LoopStep, TakeEffectStep, CommitCancelStep, SignalCancelStep, BuildCallStep, StepOfCall,
     CollectResultStep, TimePassesStep, CompleteTaskStep, ContentIsLostStep DEF Next
<1>2. CASE UNCHANGED vars
  <2>1. /\ UNCHANGED <<plan, row, executor, call, tasks, assets>>
        /\ executor' = [pc |-> executor'.pc, batch |-> executor'.batch, error |-> executor'.error]
        /\ executor'.error \in {"none", "storage", "transition"}
        /\ executor'.batch \subseteq executor.batch
    BY <1>2 DEF vars, Inductive, ExecutorFits
  <2> QED
    BY <2>1, CallsAreRecords, SignalsStep DEF Inductive
<1> QED
  BY <1>1, <1>2

\* In every reachable state of a Run: the frozen plan fits its contracts, the
\* row is one the store restores, each call is at a place its capability has
\* with the inputs its plan gives it, its outcome is the node's output, the
\* task it left or an error the codec knows, and each task and each Asset is
\* what the plan asked for (execute_workflow_run and the capabilities).
THEOREM CallsAreSound == Spec => []Inductive
<1>1. Init => Inductive
  BY InitInductive
<1>2. Inductive /\ [Next]_vars => Inductive'
  BY NextInductive
<1> QED
  BY <1>1, <1>2, PTL DEF Spec

\* Every outcome a call can come to is stored in a form that is read back as
\* it was, and the row of the Run can always be restored.
THEOREM OutcomesAreReadBack == Spec => []OutcomesReadBack
BY CallsAreSound, InductiveReadsBack, PTL

\* A Generation Task is for exactly what the plan froze for its node, a node
\* waits only for a task that exists, and one whose capability failed has left
\* none behind.
THEOREM NodesAndTasksAgree == Spec => []NodeAndTaskAgree
BY CallsAreSound, InductiveAgrees, PTL

\* A plan that was ready when it was frozen is never refused by the checks its
\* execution repeats.
THEOREM AdmittedIsNeverRefused == Spec => []AdmittedNeverRefused
BY CallsAreSound, InductiveNeverRefuses, PTL
=============================================================================
