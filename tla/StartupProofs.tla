---------------------------- MODULE StartupProofs ----------------------------
(***************************************************************************)
(* The startup is well typed, its weights are always backed by memory, its *)
(* exits release what they should, and a file the tags can describe is     *)
(* read as it was stored: for every number of layers and every set of      *)
(* model files.                                                            *)
(***************************************************************************)
EXTENDS StartupProps, TLAPS

USE NumLayersAssumption

LEMMA OnlyOne == \A S : S # {} => Only(S) \in S
BY DEF Only

(* What a loader stores of a projection is one of the forms; only the      *)
(* loaders of GGUF files store copies.                                     *)
LEMMA PlacedForm ==
  ASSUME NEW kind \in Kinds, NEW role \in Roles, NEW t \in Tensors,
         NEW f \in Placed(kind, role, t)
  PROVE  /\ f \in Form
         /\ f.in = "heap" => ~Native(kind)
<1>1. CASE Native(kind)
  BY <1>1 DEF Placed, Native, Mapped, Form, Formats
<1>2. CASE ~Native(kind)
  <2>1. \A g \in AsF32(t) : g \in Form
    BY DEF AsF32, OnHeap, Form, Formats, GgufTypes
  <2>2. \A g \in Generic(t) : g \in Form
    BY <2>1 DEF Generic, Mapped, OnHeap, Form, Formats, GgufTypes
  <2>3. \A g \in Plain(t) \union RawQ4K(t) : g \in Form
    BY <2>1 DEF Plain, RawQ4K, Mapped, OnHeap, Form, Formats, GgufTypes
  <2>4. \A g \in OnlyQ2(t) \union RouterF32(t) : g \in Form
    BY DEF OnlyQ2, RouterF32, Mapped, Form, Formats, GgufTypes
  <2>5. \A g \in Sliced(t) : g \in Form
    BY DEF Sliced, Sliceable, Dequantisable, Mapped, Form, Formats, GgufTypes
  <2>6. f \in AsF32(t) \union Generic(t) \union Plain(t) \union RawQ4K(t)
              \union OnlyQ2(t) \union RouterF32(t) \union Sliced(t)
    BY <1>2 DEF Placed, Native, Roles, Kinds, Attn, Ffn, Routed, Shared
  <2>7. QED
    BY <1>2, <2>1, <2>2, <2>3, <2>4, <2>5, <2>6
<1>3. QED
  BY <1>1, <1>2

(* And of the tables.                                                      *)
LEMMA PlacedTables ==
  ASSUME NEW z \in ModelFiles
  PROVE  /\ \A f \in PlacedOutput(z) :
               f \in Form /\ (f.in = "heap" => ~Native(z.kind))
         /\ \A f \in PlacedEmbedding(z.kind, z.embd) :
               f \in Form /\ (f.in = "heap" => ~Native(z.kind))
<1>0. z.kind \in Kinds /\ z.embd \in Tensors
        /\ z.output \in Tensors \union {NoTensor}
  BY DEF ModelFiles
<1>1. CASE Native(z.kind)
  BY <1>0, <1>1 DEF PlacedOutput, PlacedEmbedding, Native, Mapped, Form,
     Formats, GgufTypes
<1>2. CASE ~Native(z.kind)
  BY <1>0, <1>2 DEF PlacedOutput, PlacedEmbedding, OnlyQ2, Mapped, OnHeap,
     Form,
     Formats, GgufTypes
<1>3. QED
  BY <1>1, <1>2

(* The tag of a projection that was stored is a format.                    *)
LEMMA TagType ==
  ASSUME NEW kind \in Kinds, NEW role \in Roles, NEW t \in Tensors,
         Placed(kind, role, t) # {}
  PROVE  Tag(kind, role, t) \in Formats
<1>1. CASE kind = "dense"
  <2>1. Placed(kind, role, t) = Generic(t)
    BY <1>1 DEF Placed, Native
  <2>2. PICK f : f = Only(Generic(t))
    OBVIOUS
  <2>3. f \in Generic(t)
    BY <2>1, <2>2, OnlyOne
  <2>4. f.as \in Formats
    BY <2>3 DEF Generic, AsF32, Mapped, OnHeap, Formats, GgufTypes
  <2>5. QED
    BY <1>1, <2>2, <2>4 DEF Tag, ExpertQuant
<1>2. CASE kind = "qwen3moe" /\ role \in Attn
  <2>1. Placed(kind, role, t) = Plain(t)
    BY <1>2 DEF Placed, Native, Attn, Ffn, Routed, Shared
  <2>2. PICK f : f = Only(Plain(t))
    OBVIOUS
  <2>3. f \in Plain(t)
    BY <2>1, <2>2, OnlyOne
  <2>4. f.as \in Formats
    BY <2>3 DEF Plain, AsF32, Mapped, OnHeap, Formats, GgufTypes
  <2>5. QED
    BY <1>2, <2>2, <2>4 DEF Tag, ExpertQuant, Attn, Shared
<1>3. CASE kind # "dense" /\ ~(kind = "qwen3moe" /\ role \in Attn)
  BY <1>3 DEF Tag, Tensors, Formats, GgufTypes
<1>4. QED
  BY <1>1, <1>2, <1>3

(* One turn of the layer loop: what it changes and what it leaves.         *)
LEMMA TurnOfLoop ==
  ASSUME NEW v \in Weights, NEW f \in ModelFiles, NEW l \in Layers,
         NEW S \in SUBSET Roles,
         \A r \in S : Placed(f.kind, r, f.tensor[<<l, r>>]) # {}
  PROVE  LET n == LoadProjections(v, f, l, S) IN
         /\ n \in Weights
         /\ \A s \in Slots :
              IF s[1] = l /\ s[2] \in S
              THEN /\ n.form[s] \in Placed(f.kind, s[2], f.tensor[s])
                   /\ n.tag[s] = Tag(f.kind, s[2], f.tensor[s])
              ELSE n.form[s] = v.form[s] /\ n.tag[s] = v.tag[s]
         /\ n.has_mla_quant =
              (v.has_mla_quant
               \/ (f.kind = "deepseek2"
                   /\ \E r \in S \intersect Attn :
                         f.tensor[<<l, r>>].type = "Q4_K"))
         /\ n.embd = v.embd /\ n.wcls = v.wcls /\ n.ternary = v.ternary
         /\ n.has_expert_quant = v.has_expert_quant
         /\ n.w13 = v.w13 /\ n.w2 = v.w2
<1> DEFINE here(s) == s[1] = l /\ s[2] \in S
           form(s) == Only(Placed(f.kind, s[2], f.tensor[s]))
           forms == [s \in Slots |-> IF here(s) THEN form(s) ELSE v.form[s]]
           tags == [s \in Slots |-> IF here(s)
                                    THEN Tag(f.kind, s[2], f.tensor[s])
                                    ELSE v.tag[s]]
           mla == v.has_mla_quant
                  \/ (f.kind = "deepseek2"
                      /\ \E r \in S \intersect Attn :
                            f.tensor[<<l, r>>].type = "Q4_K")
           n == LoadProjections(v, f, l, S)
<1>1. n = [v EXCEPT !.form = forms, !.tag = tags, !.has_mla_quant = mla]
  BY DEF LoadProjections
<1>2. \A s \in Slots : /\ s = <<s[1], s[2]>> /\ s[1] \in Layers
                       /\ s[2] \in Roles /\ f.tensor[s] \in Tensors
                       /\ f.kind \in Kinds
  BY DEF Slots, ModelFiles
<1>3. \A s \in Slots : here(s) => form(s) \in Placed(f.kind, s[2], f.tensor[s])
  BY <1>2, OnlyOne
<1> HIDE DEF form
<1>4. \A s \in Slots : here(s) =>
        form(s) \in Form /\ Tag(f.kind, s[2], f.tensor[s]) \in Formats
  BY <1>2, <1>3, PlacedForm, TagType
<1>5. forms \in [Slots -> Form \union {NoForm}] /\ tags \in [Slots -> Formats]
  BY <1>4 DEF Weights
<1> HIDE DEF forms, tags, mla, n
<1>6. n \in Weights /\ n.form = forms /\ n.tag = tags
      /\ n.has_mla_quant = mla
      /\ n.embd = v.embd /\ n.wcls = v.wcls /\ n.ternary = v.ternary
      /\ n.has_expert_quant = v.has_expert_quant
      /\ n.w13 = v.w13 /\ n.w2 = v.w2
  <2>1. mla \in BOOLEAN
    BY DEF mla, Weights
  <2>2. QED
    BY <1>1, <1>5, <2>1 DEF Weights
<1>7. \A s \in Slots : n.form[s] = IF here(s) THEN form(s) ELSE v.form[s]
  BY <1>6 DEF forms
<1>8. \A s \in Slots :
        n.tag[s] = IF here(s) THEN Tag(f.kind, s[2], f.tensor[s])
                   ELSE v.tag[s]
  BY <1>6 DEF tags
<1>9. QED
  BY <1>3, <1>6, <1>7, <1>8 DEF n, mla

(* The flags at the end of the loaders.                                    *)
LEMMA Flags ==
  ASSUME NEW v \in Weights, NEW f \in ModelFiles
  PROVE  LET n == SetFlags(v, f) IN
         /\ n \in Weights
         /\ n.form = v.form /\ n.embd = v.embd /\ n.wcls = v.wcls
         /\ n.ternary = v.ternary /\ n.has_mla_quant = v.has_mla_quant
         /\ n.has_expert_quant = ExpertQuant(f.kind)
         /\ \A s \in Slots :
              n.tag[s] = IF f.kind = "qwen35" /\ s[2] \in Attn \union Ffn
                         THEN "Q2_0" ELSE v.tag[s]
         /\ ExpertQuant(f.kind) /\ f.first < NumLayers =>
              /\ n.w13 = TypeAt(f, f.first, "gate")
              /\ n.w2 = TypeAt(f, f.first, "down")
<1> DEFINE n == SetFlags(v, f)
           tags == [s \in Slots |->
                      IF f.kind = "qwen35" /\ s[2] \in Attn \union Ffn
                      THEN "Q2_0" ELSE v.tag[s]]
           of(role) == f.tensor[<<f.first, role>>].type
           known == f.first < NumLayers
           w13 == IF ~ExpertQuant(f.kind) THEN v.w13
                  ELSE IF known THEN of("gate") ELSE "Q4_K"
           w2 == IF ~ExpertQuant(f.kind) THEN v.w2
                 ELSE IF known THEN of("down")
                 ELSE IF f.kind = "deepseek2" THEN "Q5_1" ELSE "Q4_K"
<1>1. n = [v EXCEPT !.tag = tags, !.has_expert_quant = ExpertQuant(f.kind),
                    !.w13 = w13, !.w2 = w2]
  BY DEF SetFlags
<1>2. known => of("gate") \in Formats /\ of("down") \in Formats
  <2>1. known => /\ <<f.first, "gate">> \in Slots
                 /\ <<f.first, "down">> \in Slots
    BY DEF ModelFiles, Slots, Layers, Roles, Routed
  <2>2. \A s \in Slots : f.tensor[s].type \in Formats
    BY DEF ModelFiles, Tensors, Formats
  <2>3. QED
    BY <2>1, <2>2
<1>3. /\ tags \in [Slots -> Formats]
      /\ \A s \in Slots :
           tags[s] = IF f.kind = "qwen35" /\ s[2] \in Attn \union Ffn
                     THEN "Q2_0" ELSE v.tag[s]
  BY DEF Weights, Formats, GgufTypes
<1>4. w13 \in Formats /\ w2 \in Formats
  BY <1>2 DEF Weights, Formats, GgufTypes
<1>5. ExpertQuant(f.kind) \in BOOLEAN
  BY DEF ExpertQuant
<1> HIDE DEF tags, w13, w2, n
<1>6. /\ n \in Weights
      /\ n.form = v.form /\ n.embd = v.embd /\ n.wcls = v.wcls
      /\ n.ternary = v.ternary /\ n.has_mla_quant = v.has_mla_quant
      /\ n.has_expert_quant = ExpertQuant(f.kind)
      /\ n.tag = tags /\ n.w13 = w13 /\ n.w2 = w2
  BY <1>1, <1>3, <1>4, <1>5 DEF Weights
<1>7. ExpertQuant(f.kind) /\ f.first < NumLayers =>
        /\ n.w13 = TypeAt(f, f.first, "gate")
        /\ n.w2 = TypeAt(f, f.first, "down")
  BY <1>6 DEF w13, w2, TypeAt
<1>8. QED
  BY <1>3, <1>6, <1>7 DEF n

-----------------------------------------------------------------------------
(* Types.                                                                  *)

LEMMA Lists ==
  /\ OnlyFile \in Seq(Resources) /\ WithHeader \in Seq(Resources)
  /\ WithWeights \in Seq(Resources) /\ WithState \in Seq(Resources)
  /\ WithBuffers \in Seq(Resources) /\ Cleanup \in Seq(Resources)
  /\ CleanupMemory \in Seq(Resources)
  /\ <<"pool">> \in Seq(Resources) /\ <<>> \in Seq(Resources)
BY DEF OnlyFile, WithHeader, WithWeights, WithState, WithBuffers, Cleanup,
   CleanupMemory, Resources

LEMMA EmptyType == EmptyWeights \in Weights
BY DEF EmptyWeights, Weights, NoForm, Formats, GgufTypes

LEMMA FileFacts ==
  ASSUME TypeOK
  PROVE  /\ file \in ModelFiles /\ file.kind \in Kinds /\ file.first \in Nat
         /\ file.embd \in Tensors /\ file.output \in Tensors \union {NoTensor}
         /\ \A s \in Slots : file.tensor[s] \in Tensors
BY DEF TypeOK, ModelFiles

(* The roles of one turn are roles.                                        *)
LEMMA TurnRoles == Turn \subseteq Roles
BY DEF Turn, RolesOf, Roles

(* The tables the end of a loader stores, by family.                       *)
LEMMA FinishedWeights ==
  ASSUME FinishWeights
  PROVE  \/ GivesUp(WithWeights)
         \/ /\ pc' = IF file.kind = "native_moe" THEN "native_experts"
                     ELSE "state"
            /\ UNCHANGED <<file, todo, code, bad, res>>
            /\ layer' = 0
            /\ \/ /\ Native(file.kind) \/ file.kind = "dense"
                  /\ \E c \in PlacedOutput(file) :
                        w' = [SetFlags(w, file) EXCEPT !.wcls = c]
               \/ /\ file.kind = "qwen35"
                  /\ \E e \in PlacedEmbedding(file.kind, file.embd),
                        c \in PlacedOutput(file) :
                        w' = [SetFlags(w, file) EXCEPT !.embd = e, !.wcls = c]
               \/ /\ ~Native(file.kind)
                  /\ file.kind \notin {"dense", "qwen35"}
                  /\ w' = SetFlags(w, file)
<1>1. CASE file.kind = "qwen35"
  BY <1>1 DEF FinishWeights, Goto, Native
<1>2. CASE Native(file.kind) \/ file.kind = "dense"
  BY <1>2 DEF FinishWeights, Goto, Native
<1>3. CASE ~Native(file.kind) /\ file.kind \notin {"dense", "qwen35"}
  BY <1>3 DEF FinishWeights, Goto
<1>4. QED
  BY <1>1, <1>2, <1>3

(* The weights stay well typed where the loaders write them.               *)
LEMMA LoadersTyped ==
  ASSUME TypeOK, LoadEmbedding \/ LoadLayer \/ FinishWeights
  PROVE  w' \in Weights
<1>1. /\ \A e \in PlacedEmbedding(file.kind, file.embd) : e \in Form
      /\ \A c \in PlacedOutput(file) : c \in Form
  BY PlacedTables, FileFacts
<1>2. CASE LoadEmbedding
  <2>1. ASSUME NEW e \in Form, NEW c \in Form \union {NoForm},
               w' = [w EXCEPT !.embd = e, !.wcls = c,
                              !.ternary = Native(file.kind)]
        PROVE  w' \in Weights
    <3>1. w \in Weights /\ Native(file.kind) \in BOOLEAN
      BY DEF TypeOK, Native
    <3>2. QED
      BY <2>1, <3>1 DEF Weights
  <2>2. QED
    BY <1>1, <1>2, <2>1 DEF LoadEmbedding, GivesUp, Goto, TypeOK
<1>3. CASE LoadLayer
  <2>1. layer \in Layers
    BY <1>3 DEF LoadLayer, TypeOK, Layers
  <2>2. PICK S \in SUBSET Roles : Placeable(S)
                /\ w' = LoadProjections(w, file, layer, S)
    <3>1. \A i : Turn \intersect Before(i) \in SUBSET Roles
      BY TurnRoles
    <3>2. QED
      BY <1>3, <3>1, TurnRoles DEF LoadLayer
  <2>3. \A r \in S : Placed(file.kind, r, file.tensor[<<layer, r>>]) # {}
    BY <2>2 DEF Placeable
  <2>4. QED
    BY <2>1, <2>2, <2>3, TurnOfLoop, FileFacts DEF TypeOK
<1>4. CASE FinishWeights
  <2>1. SetFlags(w, file) \in Weights
    BY Flags, FileFacts DEF TypeOK
  <2>3. \/ w' = w
        \/ w' = SetFlags(w, file)
        \/ \E c \in PlacedOutput(file) :
              w' = [SetFlags(w, file) EXCEPT !.wcls = c]
        \/ \E e \in PlacedEmbedding(file.kind, file.embd),
              c \in PlacedOutput(file) :
              w' = [SetFlags(w, file) EXCEPT !.embd = e, !.wcls = c]
    BY <1>4, FinishedWeights DEF FinishWeights, GivesUp
  <2>2. w \in Weights
    BY DEF TypeOK
  <2>5. CASE \E c \in PlacedOutput(file) :
               w' = [SetFlags(w, file) EXCEPT !.wcls = c]
    <3>1. PICK c \in Form : w' = [SetFlags(w, file) EXCEPT !.wcls = c]
      BY <1>1, <2>5
    <3>2. QED
      BY <2>1, <3>1 DEF Weights
  <2>6. CASE \E e \in PlacedEmbedding(file.kind, file.embd),
               c \in PlacedOutput(file) :
               w' = [SetFlags(w, file) EXCEPT !.embd = e, !.wcls = c]
    <3>1. PICK e \in Form, c \in Form :
             w' = [SetFlags(w, file) EXCEPT !.embd = e, !.wcls = c]
      BY <1>1, <2>6
    <3>2. QED
      BY <2>1, <3>1 DEF Weights
  <2>7. QED
    BY <2>1, <2>2, <2>3, <2>5, <2>6
<1>5. QED
  BY <1>2, <1>3, <1>4

(* The weights without their experts are weights.                          *)
LEMMA WithoutType ==
  ASSUME w \in Weights
  PROVE  /\ WithoutExperts \in Weights
         /\ \A s \in Slots : WithoutExperts.form[s] \in {NoForm, w.form[s]}
         /\ WithoutExperts.embd = w.embd /\ WithoutExperts.wcls = w.wcls
         /\ WithoutExperts.has_expert_quant = w.has_expert_quant
<1> DEFINE arrays == Routed \union Shared \union {"router"}
                     \union (IF file.kind = "deepseek2" THEN Attn \ {"wo"}
                             ELSE {})
           forms == [s \in Slots |-> IF s[2] \in arrays THEN NoForm
                                     ELSE w.form[s]]
<1>1. WithoutExperts = [w EXCEPT !.form = forms]
  BY DEF WithoutExperts
<1>2. /\ forms \in [Slots -> Form \union {NoForm}]
      /\ \A s \in Slots : forms[s] \in {NoForm, w.form[s]}
  BY DEF Weights
<1> HIDE DEF forms
<1>3. QED
  BY <1>1, <1>2 DEF Weights

(* One step keeps the types.                                               *)
LEMMA TypeStep ==
  ASSUME TypeOK, [Next]_vars
  PROVE  TypeOK'
<1> USE Lists
<1>1. CASE Opening
  <2>1. CASE CreatePool \/ MapFile
    BY <2>1 DEF CreatePool, MapFile, Goto, Acquire, Fail, GivesUp, TypeOK,
       Steps, Kept
  <2>2. CASE ReadHeader
    <3>1. CASE Fail(WithHeader)
      <4>1. PICK state \in {"held", "garbage"} :
               res' = [res EXCEPT !["hdr"] = state] /\ w' = w
        BY <2>2, <3>1 DEF ReadHeader, Goto, Fail
      <4>2. res' \in [Resources -> Kept]
        BY <4>1 DEF TypeOK, Kept
      <4>3. QED
        BY <3>1, <4>1, <4>2 DEF Fail, TypeOK, Steps
    <3>2. CASE ~Fail(WithHeader)
      <4>1. /\ Acquire("hdr") /\ Goto("config")
            /\ layer' = layer /\ w' = w
        BY <2>2, <3>2 DEF ReadHeader
      <4>2. res' \in [Resources -> Kept]
        BY <4>1 DEF Acquire, TypeOK, Kept
      <4>3. QED
        BY <4>1, <4>2 DEF Goto, TypeOK, Steps
    <3>3. QED
      BY <3>1, <3>2
  <2>3. CASE ReadConfig \/ ReadMoeConfig
    BY <2>3 DEF ReadConfig, ReadMoeConfig, Goto, Fail, GivesUp, TypeOK, Steps
  <2>4. CASE AllocPointers \/ AllocExperts
    BY <2>4 DEF AllocPointers, AllocExperts, Goto, Acquire, Fail, GivesUp,
       TypeOK, Steps, Kept
  <2>5. QED
    BY <1>1, <2>1, <2>2, <2>3, <2>4 DEF Opening
<1>2. CASE Loading
  <2>0. CASE ExpertsMapped
    BY <2>0 DEF ExpertsMapped, Goto, TypeOK, Steps
  <2>1. CASE AllocStore
    BY <2>1 DEF AllocStore, Goto, Acquire, Fail, GivesUp, TypeOK, Steps, Kept
  <2>2. CASE LoadEmbedding
    <3>1. w' \in Weights
      BY <2>2, LoadersTyped
    <3>2. /\ UNCHANGED <<file, layer, res, bad>>
          /\ \/ pc' = "layers" /\ UNCHANGED <<todo, code>>
             \/ pc' = "freeing" /\ todo' = WithWeights /\ code' = 1
      BY <2>2 DEF LoadEmbedding, Goto, Fail, GivesUp
    <3>3. QED
      BY <3>1, <3>2 DEF TypeOK, Steps
  <2>3. CASE LoadLayer
    <3>1. w' \in Weights
      BY <2>3, LoadersTyped
    <3>2. /\ UNCHANGED <<file, res, bad>>
          /\ layer < NumLayers
          /\ \/ layer' = layer + 1 /\ UNCHANGED <<pc, todo, code>>
             \/ /\ pc' = "freeing" /\ todo' = WithWeights /\ code' = 1
                /\ layer' = layer
      BY <2>3 DEF LoadLayer, Fail
    <3>3. layer' \in 0 .. NumLayers
      BY <3>2 DEF TypeOK
    <3>4. QED
      BY <3>1, <3>2, <3>3 DEF TypeOK, Steps
  <2>4. CASE FinishWeights
    <3>1. w' \in Weights
      BY <2>4, LoadersTyped
    <3>2. /\ UNCHANGED <<file, res, bad>>
          /\ layer' \in {layer, 0}
          /\ \/ pc' \in {"native_experts", "state"} /\ UNCHANGED <<todo, code>>
             \/ pc' = "freeing" /\ todo' = WithWeights /\ code' = 1
      BY <2>4, FinishedWeights DEF Fail, GivesUp
    <3>3. QED
      BY <3>1, <3>2 DEF TypeOK, Steps
  <2>5. QED
    BY <1>2, <2>0, <2>1, <2>2, <2>3, <2>4 DEF Loading
<1>3. CASE Preparing
  <2>1. CASE AllocState \/ AllocBuffers \/ AllocFamily
    BY <2>1 DEF AllocState, AllocBuffers, AllocFamily, Goto, Acquire, Fail,
       GivesUp, TypeOK, Steps, Kept
  <2>2. CASE LoadTokenizer
    BY <2>2 DEF LoadTokenizer, Goto, Acquire, Fail, GivesUp, TypeOK, Steps,
       Kept
  <2>3. CASE OpenMemory
    BY <2>3 DEF OpenMemory, Goto, TypeOK, Steps, Kept
  <2>4. QED
    BY <1>3, <2>1, <2>2, <2>3 DEF Preparing
<1>4. CASE Leaving
  <2>1. CASE Finish \/ Exit
    BY <2>1 DEF Finish, Exit, TypeOK, Steps
  <2>2. CASE Release
    <3>1. Head(todo) \in Resources /\ Tail(todo) \in Seq(Resources)
      BY <2>2 DEF Release, TypeOK
    <3>2. w' \in Weights
      BY <2>2, EmptyType, WithoutType DEF Release, TypeOK
    <3>3. res' \in [Resources -> Kept]
      BY <2>2 DEF Release, TypeOK, Kept
    <3>4. bad' \subseteq Resources \union {"payload"}
      BY <2>2, <3>1 DEF Release, TypeOK
    <3>5. QED
      BY <2>2, <3>1, <3>2, <3>3, <3>4 DEF Release, TypeOK
  <2>3. QED
    BY <1>4, <2>1, <2>2 DEF Leaving
<1>5. CASE UNCHANGED vars
  BY <1>5 DEF vars, TypeOK
<1>6. QED
  BY <1>1, <1>2, <1>3, <1>4, <1>5 DEF Next

(* Every reachable state of the startup is well typed.                     *)
THEOREM TypeCorrect == Spec => []TypeOK
<1>1. Init => TypeOK
  BY FilesAssumption, EmptyType, Lists
  DEF Init, TypeOK, Steps, Resources, Kept
<1>2. QED
  BY <1>1, TypeStep, PTL DEF Spec

-----------------------------------------------------------------------------
(* The way out.  What is acquired at every step; what the lists of an exit *)
(* still have to release, and in which order.                              *)

Opened == {"pool", "map", "header"}
Configured == Opened \union {"config", "moe_config", "pointers"}
Pointed == Configured \union {"experts"}
Stored == Pointed \union {"store"}
Loaded == Stored \union {"embedding", "layers", "native_experts", "state"}
WithBufs == Loaded \union {"buffers"}
WithCaches == WithBufs \union {"family"}
Leaves == {"freeing", "exit"}

\* r is held from the step after S on, if it applies.
HeldAfter(r, S, applies) ==
    res[r] = IF pc \in S \/ ~applies THEN "none" ELSE "held"
Acquiring ==
    pc \notin Leaves =>
      /\ code = 0 /\ bad = {}
      /\ pc \in {"header", "store"} => Gguf
      /\ pc = "experts" => IsMoe(file.kind)
      /\ pc = "family" => HasFamily
      /\ HeldAfter("pool", {"pool"}, TRUE)
      /\ HeldAfter("map", {"pool", "map"}, TRUE)
      /\ HeldAfter("hdr", Opened, Gguf)
      /\ HeldAfter("ptrs", Configured, TRUE)
      /\ HeldAfter("moe", Pointed, IsMoe(file.kind))
      /\ HeldAfter("store", Stored, Gguf)
      /\ HeldAfter("s", Loaded, TRUE)
      /\ HeldAfter("bufs", WithBufs, TRUE)
      /\ HeldAfter("family", WithCaches, HasFamily)
      /\ IF pc \in {"memory", "running"} THEN res["tok"] \in {"none", "held"}
         ELSE res["tok"] = "none"
      /\ IF pc = "running"
         THEN \/ res["emb"] = "held" /\ res["db"] = "held"
              \/ res["emb"] = "none" /\ res["db"] \in {"none", "freed"}
         ELSE res["emb"] = "none" /\ res["db"] = "none"

Listed(r) == \E i \in 1 .. Len(todo) : todo[i] = r
Precedes(a, b) ==
    res[a] = "held" =>
      \A i \in 1 .. Len(todo) :
         todo[i] = b => \E j \in 1 .. i - 1 : todo[j] = a
Releasing ==
    pc \in Leaves =>
      /\ \A r \in Resources :
           res[r] = "held" /\ (code = 0 \/ r \notin {"hdr", "store", "family"})
             => Listed(r)
      /\ \A i \in 1 .. Len(todo) :
           \/ res[todo[i]] \in {"none", "held"}
           \/ todo[i] = "hdr" /\ res["hdr"] = "garbage"
      /\ \A i, j \in 1 .. Len(todo) : todo[i] = todo[j] => i = j
      /\ \A r \in Resources :
           /\ res[r] = "garbage" =>
                r = "hdr" /\ code = 1 /\ res["ptrs"] = "none"
           /\ res[r] = "lost" => r = "family" /\ code = 1
      /\ Precedes("moe", "ptrs")
      /\ Precedes("ptrs", "map")
      /\ Precedes("ptrs", "store")
      /\ code = 0 => Precedes("family", "s")
      /\ code = 1 => ~Listed("family")
      /\ pc = "exit" => todo = <<>>
Blamed ==
    /\ bad \subseteq {"hdr", "payload"}
    /\ "hdr" \in bad => code = 1 /\ res["ptrs"] = "none"
    /\ "payload" \in bad => res["moe"] = "freed"
    /\ code = 0 /\ file.kind # "native_moe" => bad = {}

\* The flag is up before the engine can run, and stays while the experts are
\* there.
Flagged ==
    /\ pc \in {"native_experts", "state", "buffers", "family", "tokenizer",
              "memory", "running"}
         => w.has_expert_quant = ExpertQuant(file.kind)
    /\ pc \in Leaves /\ code = 0 /\ res["moe"] = "held"
         => w.has_expert_quant = ExpertQuant(file.kind)
    /\ res["moe"] = "held" => IsMoe(file.kind)

\* Weights refer to memory only while their arrays are there, and to copies
\* only in a GGUF file.
Refers == \/ \E s \in Slots : w.form[s] # NoForm
          \/ w.embd # NoForm \/ w.wcls # NoForm
Referring ==
    /\ pc \in Stored => ~Refers
    /\ Refers => res["ptrs"] = "held"
    /\ Native(file.kind) =>
         /\ \A s \in Slots : w.form[s].in # "heap"
         /\ w.embd.in # "heap" /\ w.wcls.in # "heap"
ExitInv == TypeOK /\ Acquiring /\ Releasing /\ Blamed /\ Flagged /\ Referring
           /\ Backed

(* Every failing step lists what it holds, but the header, the heap copies *)
(* and the caches of the family.                                           *)
LEMMA FailingLists ==
  ASSUME TypeOK, Acquiring, pc \notin Leaves, NEW list \in Seq(Resources),
         Fail(list), res' = res,
         \/ list = <<>> /\ pc = "pool"
         \/ list = <<"pool">> /\ pc = "map"
         \/ list = OnlyFile /\ pc \in Configured \ {"pool", "map", "header"}
         \/ list = WithHeader /\ pc = "config" /\ Gguf
         \/ list = WithWeights /\ pc \in Loaded \ Configured
         \/ list = WithState /\ pc = "buffers"
         \/ list = WithBuffers /\ pc \in {"family", "tokenizer"}
  PROVE  Releasing'
<1> USE DEF HeldAfter, Opened, Configured, Pointed, Stored, Loaded, WithBufs,
        WithCaches, Leaves
<1>1. /\ pc' = "freeing" /\ todo' = list /\ code' = 1 /\ file' = file
  BY DEF Fail
<1>2. /\ \A r \in Resources : res[r] \in {"none", "held", "freed"}
      /\ \A r \in Resources \ {"db"} : res[r] # "freed"
      /\ pc # "running" => res["db"] = "none"
  BY DEF Acquiring, Resources
<1>3. pc # "running" /\ pc # "memory"
  BY <1>1 DEF OnlyFile
<1>4. \A r \in Resources :
        res[r] = "held" /\ r \notin {"hdr", "store", "family"} =>
          \E i \in 1 .. Len(list) : list[i] = r
  <2> SUFFICES ASSUME NEW r \in Resources, res[r] = "held",
                      r \notin {"hdr", "store", "family"}
               PROVE  \E i \in 1 .. Len(list) : list[i] = r
    OBVIOUS
  <2>1. r \in {"pool", "map", "ptrs", "moe", "s", "bufs"}
    BY <1>3 DEF Acquiring, Resources
  <2>2. CASE list = <<>> /\ pc = "pool"
    BY <2>1, <2>2 DEF Acquiring
  <2>9. CASE list = <<"pool">> /\ pc = "map"
    <3>1. r \in {"pool"}
      BY <2>1, <2>9 DEF Acquiring
    <3>2. /\ list[1] = "pool" /\ Len(list) = 1
      BY <2>9
    <3>3. QED
      BY <3>1, <3>2
  <2>3. CASE list = OnlyFile /\ pc \in Configured \ {"pool", "map", "header"}
    <3>1. r \in {"map", "pool"}
      BY <2>1, <2>3 DEF Acquiring
    <3>2. /\ list[1] = "map" /\ list[2] = "pool" /\ Len(list) = 2
      BY <2>3 DEF OnlyFile
    <3>3. QED
      BY <3>1, <3>2
  <2>4. CASE list = WithHeader /\ pc = "config"
    <3>1. r \in {"map", "pool"}
      BY <2>1, <2>4 DEF Acquiring
    <3>2. /\ list[1] = "hdr" /\ list[2] = "map" /\ list[3] = "pool"
          /\ Len(list) = 3
      BY <2>4 DEF WithHeader
    <3>3. QED
      BY <3>1, <3>2
  <2>5. CASE list = WithWeights /\ pc \in Loaded \ Configured
    <3>1. r \in {"moe", "ptrs", "map", "pool"}
      BY <2>1, <2>5 DEF Acquiring
    <3>2. /\ list[1] = "moe" /\ list[2] = "ptrs" /\ list[3] = "map"
          /\ list[4] = "pool" /\ Len(list) = 4
      BY <2>5 DEF WithWeights
    <3>3. QED
      BY <3>1, <3>2
  <2>6. CASE list = WithState /\ pc = "buffers"
    <3>1. r \in {"s", "moe", "ptrs", "map", "pool"}
      BY <2>1, <2>6 DEF Acquiring
    <3>2. /\ list[1] = "s" /\ list[2] = "moe" /\ list[3] = "ptrs"
          /\ list[4] = "map" /\ list[5] = "pool" /\ Len(list) = 5
      BY <2>6 DEF WithState
    <3>3. QED
      BY <3>1, <3>2
  <2>7. CASE list = WithBuffers /\ pc \in {"family", "tokenizer"}
    <3>1. r \in {"bufs", "s", "moe", "ptrs", "map", "pool"}
      BY <2>1, <2>7 DEF Acquiring
    <3>2. /\ list[1] = "bufs" /\ list[2] = "s" /\ list[3] = "moe"
          /\ list[4] = "ptrs" /\ list[5] = "map" /\ list[6] = "pool"
          /\ Len(list) = 6
      BY <2>7 DEF WithBuffers
    <3>3. QED
      BY <3>1, <3>2
  <2>8. QED
    BY <2>2, <2>3, <2>4, <2>5, <2>6, <2>7, <2>9
<1>5. /\ \A i, j \in 1 .. Len(list) : list[i] = list[j] => i = j
      /\ \A i \in 1 .. Len(list) : list[i] # "family"
      /\ \A i \in 1 .. Len(list) :
           /\ list[i] = "ptrs" => \E j \in 1 .. i - 1 : list[j] = "moe"
           /\ list[i] = "map" /\ pc \notin Configured =>
                \E j \in 1 .. i - 1 : list[j] = "ptrs"
           /\ list[i] # "store"
  BY SMTT(30) DEF OnlyFile, WithHeader, WithWeights, WithState, WithBuffers
<1>6. pc \in Configured => res["ptrs"] = "none"
  BY DEF Acquiring
<1>7. \A i \in 1 .. Len(list) : list[i] \in Resources
  OBVIOUS
<1>8. QED
  BY <1>1, <1>2, <1>3, <1>4, <1>5, <1>6, <1>7 DEF Releasing, Precedes, Listed

(* The clean exit lists everything that is held.                           *)
LEMMA CleanupLists ==
  ASSUME TypeOK, Acquiring, Finish
  PROVE  Releasing'
<1> USE DEF HeldAfter, Opened, Configured, Pointed, Stored, Loaded, WithBufs,
        WithCaches, Leaves
<1>1. /\ pc = "running" /\ pc' = "freeing" /\ code' = code /\ code = 0
      /\ res' = res /\ file' = file
      /\ todo' = IF res["emb"] = "held" THEN CleanupMemory ELSE Cleanup
  BY DEF Finish, Acquiring
<1>2. /\ \A r \in Resources : res[r] \in {"none", "held", "freed"}
      /\ \A r \in Resources \ {"db"} : res[r] # "freed"
      /\ res["emb"] = "held" => res["db"] = "held"
      /\ res["emb"] # "held" => res["emb"] = "none" /\ res["db"] # "held"
  BY <1>1 DEF Acquiring, Resources
<1>3. CASE res["emb"] = "held"
  <2>1. todo' = CleanupMemory
    BY <1>1, <1>3
  <2>2. /\ \A r \in Resources : \E i \in 1 .. 12 : CleanupMemory[i] = r
        /\ Len(CleanupMemory) = 12
    BY DEF CleanupMemory, Resources
  <2>3. /\ \A i, j \in 1 .. 12 : CleanupMemory[i] = CleanupMemory[j] => i = j
        /\ \A i \in 1 .. 12 : CleanupMemory[i] \in Resources
    BY DEF CleanupMemory, Resources
  <2>4. \A i \in 1 .. 12 :
           /\ CleanupMemory[i] = "ptrs" => i = 8
           /\ CleanupMemory[i] \in {"map", "store"} => i > 8
           /\ CleanupMemory[i] = "s" => i = 6
    BY DEF CleanupMemory
  <2>5. /\ CleanupMemory[7] = "moe" /\ CleanupMemory[8] = "ptrs"
        /\ CleanupMemory[4] = "family"
    BY DEF CleanupMemory
  <2>6. res["db"] \in {"none", "held"}
    BY <1>2, <1>3
  <2> HIDE DEF Opened, Configured, Pointed, Stored, Loaded, WithBufs,
           WithCaches, HeldAfter
  <2>7. \A r \in Resources : Listed(r)'
    BY <2>1, <2>2 DEF Listed
  <2>8. /\ Precedes("moe", "ptrs")' /\ Precedes("ptrs", "map")'
        /\ Precedes("ptrs", "store")' /\ Precedes("family", "s")'
    BY <2>1, <2>2, <2>4, <2>5 DEF Precedes
  <2>9. \A i \in 1 .. Len(todo') : res'[todo'[i]] \in {"none", "held"}
    BY <1>1, <1>2, <2>1, <2>2, <2>3, <2>6
  <2>10. \A i, j \in 1 .. Len(todo') : todo'[i] = todo'[j] => i = j
    BY <2>1, <2>2, <2>3
  <2>11. \A r \in Resources : res'[r] # "garbage" /\ res'[r] # "lost"
    BY <1>1, <1>2
  <2>12. QED
    BY <1>1, <2>7, <2>8, <2>9, <2>10, <2>11 DEF Releasing
<1>4. CASE res["emb"] # "held"
  <2>1. todo' = Cleanup
    BY <1>1, <1>4
  <2>2. /\ \A r \in Resources \ {"emb", "db"} :
             \E i \in 1 .. 10 : Cleanup[i] = r
        /\ Len(Cleanup) = 10
    BY DEF Cleanup, Resources
  <2>3. /\ \A i, j \in 1 .. 10 : Cleanup[i] = Cleanup[j] => i = j
        /\ \A i \in 1 .. 10 : Cleanup[i] \in Resources \ {"emb", "db"}
    BY DEF Cleanup, Resources
  <2>4. \A i \in 1 .. 10 :
           /\ Cleanup[i] = "ptrs" => i = 6
           /\ Cleanup[i] \in {"map", "store"} => i > 6
           /\ Cleanup[i] = "s" => i = 4
    BY DEF Cleanup
  <2>5. Cleanup[5] = "moe" /\ Cleanup[6] = "ptrs" /\ Cleanup[2] = "family"
    BY DEF Cleanup
  <2> HIDE DEF Opened, Configured, Pointed, Stored, Loaded, WithBufs,
           WithCaches, HeldAfter
  <2>7. \A r \in Resources : res'[r] = "held" => Listed(r)'
    <3>1. \A r \in {"emb", "db"} : res'[r] # "held"
      BY <1>1, <1>2, <1>4
    <3>2. \A r \in Resources \ {"emb", "db"} : Listed(r)'
      BY <2>1, <2>2 DEF Listed
    <3>3. QED
      BY <3>1, <3>2
  <2>8. /\ Precedes("moe", "ptrs")' /\ Precedes("ptrs", "map")'
        /\ Precedes("ptrs", "store")' /\ Precedes("family", "s")'
    BY <2>1, <2>2, <2>4, <2>5 DEF Precedes
  <2>6. \A r \in Resources \ {"emb", "db"} : res[r] \in {"none", "held"}
    BY <1>2
  <2>9. \A i \in 1 .. Len(todo') : res'[todo'[i]] \in {"none", "held"}
    <3>1. \A i \in 1 .. 10 : res[Cleanup[i]] \in {"none", "held"}
      BY <2>3, <2>6
    <3>2. QED
      BY <1>1, <2>1, <2>2, <3>1
  <2>10. \A i, j \in 1 .. Len(todo') : todo'[i] = todo'[j] => i = j
    BY <2>1, <2>2, <2>3
  <2>11. \A r \in Resources : res'[r] # "garbage" /\ res'[r] # "lost"
    BY <1>1, <1>2
  <2>12. QED
    BY <1>1, <2>7, <2>8, <2>9, <2>10, <2>11 DEF Releasing
<1>5. QED
  BY <1>3, <1>4

(* A release keeps what the rest of the list relies on.                    *)
LEMMA ReleasingStep ==
  ASSUME TypeOK, Releasing, Release
  PROVE  Releasing'
<1> DEFINE r == Head(todo)
<1>1. /\ pc = "freeing" /\ pc' = pc /\ code' = code
      /\ Len(todo) \in Nat \ {0} /\ todo' = Tail(todo) /\ r = todo[1]
      /\ r \in Resources
      /\ \A i \in 1 .. Len(todo) : todo[i] \in Resources
  BY DEF Release, TypeOK
<1>2. /\ Len(todo') = Len(todo) - 1
      /\ \A i \in 1 .. Len(todo') : todo'[i] = todo[i + 1]
  BY <1>1 DEF TypeOK
<1>3. \A x \in Resources :
        res'[x] = IF x = r /\ res[x] # "none" THEN "freed"
                  ELSE IF x = "family" /\ r = "s" /\ res[x] = "held"
                       THEN "lost" ELSE res[x]
  BY DEF Release
<1> HIDE DEF r
<1>4. \A x \in Resources : res'[x] = "held" => res[x] = "held" /\ x # r
  BY <1>3
<1>5. \A x \in Resources : x # r /\ Listed(x) => Listed(x)'
  BY <1>1, <1>2 DEF Listed
<1>6. ASSUME NEW a \in Resources, NEW b \in Resources, Precedes(a, b)
      PROVE  Precedes(a, b)'
  <2> SUFFICES ASSUME res'[a] = "held", NEW i \in 1 .. Len(todo'),
                      todo'[i] = b
               PROVE  \E j \in 1 .. i - 1 : todo'[j] = a
    BY DEF Precedes
  <2>1. /\ i + 1 \in 1 .. Len(todo) /\ todo[i + 1] = b
        /\ res[a] = "held" /\ a # r
    BY <1>1, <1>2, <1>4
  <2>2. PICK k \in 1 .. i : todo[k] = a
    <3>1. i \in Nat /\ (i + 1) - 1 = i
      BY <1>1, <1>2
    <3>2. \E j \in 1 .. (i + 1) - 1 : todo[j] = a
      BY <1>6, <2>1 DEF Precedes
    <3>3. QED
      BY <3>1, <3>2
  <2>3. k # 1 /\ k - 1 \in 1 .. i - 1 /\ todo'[k - 1] = todo[k]
    BY <1>1, <1>2, <2>1, <2>2
  <2>4. QED
    BY <2>2, <2>3
<1>7. \A i \in 1 .. Len(todo') : todo'[i] # r
  BY <1>1, <1>2 DEF Releasing, Leaves
<1>8. /\ code = 0 => (r = "s" => res["family"] # "held")
      /\ code = 1 => ~Listed("family")
  BY <1>1 DEF Releasing, Leaves, Precedes, Resources
<1>9. /\ {"moe", "ptrs", "map", "store", "family", "s", "hdr"}
           \subseteq Resources
      /\ code \in {0, 1} /\ pc' \in Leaves /\ pc' # "exit"
      /\ \A i \in 1 .. Len(todo') : i + 1 \in 1 .. Len(todo)
      /\ code = 1 => ~Listed("family")'
  BY <1>1, <1>2, <1>8 DEF Resources, TypeOK, Leaves, Listed
<1>10. \A x \in Resources :
         res'[x] = "held"
           /\ (code' = 0 \/ x \notin {"hdr", "store", "family"})
         => Listed(x)'
  BY <1>1, <1>4, <1>5 DEF Releasing, Leaves
<1>11. \A i \in 1 .. Len(todo') :
         \/ res'[todo'[i]] \in {"none", "held"}
         \/ todo'[i] = "hdr" /\ res'["hdr"] = "garbage"
  <2> SUFFICES ASSUME NEW i \in 1 .. Len(todo')
               PROVE  \/ res'[todo'[i]] \in {"none", "held"}
                      \/ todo'[i] = "hdr" /\ res'["hdr"] = "garbage"
    OBVIOUS
  <2>1. todo'[i] = todo[i + 1] /\ todo'[i] \in Resources /\ todo'[i] # r
    BY <1>1, <1>2, <1>7, <1>9
  <2>2. todo'[i] = "family" => ~(r = "s" /\ res["family"] = "held")
    BY <1>8, <1>9, <2>1 DEF Listed
  <2>3. res'[todo'[i]] = res[todo[i + 1]]
    BY <1>3, <2>1, <2>2
  <2>4. QED
    BY <1>1, <1>9, <2>1, <2>3 DEF Releasing, Leaves
<1>12. \A i, j \in 1 .. Len(todo') : todo'[i] = todo'[j] => i = j
  BY <1>1, <1>2, <1>9 DEF Releasing, Leaves
<1>13. \A x \in Resources :
         /\ res'[x] = "garbage" =>
              x = "hdr" /\ code' = 1 /\ res'["ptrs"] = "none"
         /\ res'[x] = "lost" => x = "family" /\ code' = 1
  BY <1>1, <1>3, <1>8, <1>9 DEF Releasing, Leaves
<1>14. /\ Precedes("moe", "ptrs")' /\ Precedes("ptrs", "map")'
       /\ Precedes("ptrs", "store")'
       /\ code' = 0 => Precedes("family", "s")'
  BY <1>1, <1>6, <1>9 DEF Releasing, Leaves
<1>15. QED
  BY <1>1, <1>9, <1>10, <1>11, <1>12, <1>13, <1>14 DEF Releasing

(* What is freed and was no heap block.                                    *)
LEMMA BlamedStep ==
  ASSUME TypeOK, Acquiring, Releasing, Blamed, Flagged, Release
  PROVE  Blamed'
<1> DEFINE r == Head(todo)
<1>1. /\ pc \in Leaves /\ pc' = pc /\ code' = code /\ file' = file
      /\ r = todo[1] /\ 1 \in 1 .. Len(todo) /\ r \in Resources
  BY DEF Release, TypeOK, Leaves
<1>2. \A x \in Resources :
        res'[x] = IF x = r /\ res[x] # "none" THEN "freed"
                  ELSE IF x = "family" /\ r = "s" /\ res[x] = "held"
                       THEN "lost" ELSE res[x]
  BY DEF Release
<1>3. bad' = bad
        \union (IF res[r] \in {"none", "held"} THEN {} ELSE {r})
        \union (IF r = "moe" /\ res[r] = "held" /\ FreesExperts
                THEN {"payload"} ELSE {})
  BY DEF Release
<1>4. res[r] \in {"none", "held"}
        \/ (r = "hdr" /\ res["hdr"] = "garbage" /\ code = 1
            /\ res["ptrs"] = "none")
  BY <1>1 DEF Releasing, Resources
<1>5. code = 0 /\ file.kind # "native_moe" /\ res["moe"] = "held"
        => ~FreesExperts
  BY <1>1 DEF Flagged, FreesExperts, ExpertQuant, IsMoe
<1>6. {"ptrs", "moe"} \subseteq Resources
  BY DEF Resources
<1> HIDE DEF r
<1>7. bad' \subseteq {"hdr", "payload"}
  BY <1>3, <1>4 DEF Blamed
<1>8. "hdr" \in bad' => code' = 1 /\ res'["ptrs"] = "none"
  BY <1>1, <1>2, <1>3, <1>4, <1>6 DEF Blamed
<1>9. "payload" \in bad' => res'["moe"] = "freed"
  BY <1>1, <1>2, <1>3, <1>4, <1>6 DEF Blamed
<1>10. code' = 0 /\ file'.kind # "native_moe" => bad' = {}
  <2> SUFFICES ASSUME code = 0, file.kind # "native_moe" PROVE bad' = {}
    BY <1>1
  <2>1. bad = {} /\ res[r] \in {"none", "held"}
    BY <1>4 DEF Blamed
  <2>2. ~(r = "moe" /\ res[r] = "held" /\ FreesExperts)
    BY <1>5
  <2>3. QED
    BY <1>3, <2>1, <2>2
<1>11. QED
  BY <1>7, <1>8, <1>9, <1>10 DEF Blamed

(* The flag stays while the experts are there, and the weights refer to    *)
(* nothing once their arrays are gone.                                     *)
LEMMA WeightsReleased ==
  ASSUME TypeOK, Releasing, Flagged, Referring, Backed, Release
  PROVE  Flagged' /\ Referring' /\ Backed'
<1> DEFINE r == Head(todo)
<1>1. /\ pc = "freeing" /\ pc' = pc /\ code' = code /\ file' = file
      /\ r = todo[1] /\ 1 \in 1 .. Len(todo) /\ r \in Resources
  BY DEF Release, TypeOK
<1>2. \A x \in Resources :
        res'[x] = IF x = r /\ res[x] # "none" THEN "freed"
                  ELSE IF x = "family" /\ r = "s" /\ res[x] = "held"
                       THEN "lost" ELSE res[x]
  BY DEF Release
<1>3. w' = IF r = "ptrs" /\ res[r] = "held" THEN EmptyWeights
           ELSE IF r = "moe" /\ res[r] = "held" THEN WithoutExperts ELSE w
  BY DEF Release
<1>4. {"ptrs", "moe", "map", "store"} \subseteq Resources
  BY DEF Resources
<1>5. /\ r = "ptrs" => res["moe"] # "held"
      /\ r \in {"map", "store"} => res["ptrs"] # "held"
  <2>1. \A j \in 1 .. 1 - 1 : FALSE
    OBVIOUS
  <2>2. QED
    BY <1>1, <2>1 DEF Releasing, Precedes, Leaves
<1>6. /\ WithoutExperts.has_expert_quant = w.has_expert_quant
      /\ WithoutExperts.embd = w.embd /\ WithoutExperts.wcls = w.wcls
      /\ \A s \in Slots : WithoutExperts.form[s] \in {NoForm, w.form[s]}
  BY WithoutType DEF TypeOK
<1> HIDE DEF r
<1>7. Flagged'
  BY <1>1, <1>2, <1>3, <1>4, <1>5, <1>6 DEF Flagged, Leaves
<1>8. /\ EmptyWeights.embd = NoForm /\ EmptyWeights.wcls = NoForm
      /\ \A s \in Slots : EmptyWeights.form[s] = NoForm
      /\ NoForm.in # "heap"
  BY DEF EmptyWeights, NoForm
<1>9. CASE w' = EmptyWeights
  <2>1. ~Refers' /\ Backed'
    BY <1>8, <1>9 DEF Refers, Backed, BackedForm
  <2>2. Native(file'.kind) =>
          /\ \A s \in Slots : w'.form[s].in # "heap"
          /\ w'.embd.in # "heap" /\ w'.wcls.in # "heap"
    BY <1>8, <1>9
  <2>3. QED
    BY <1>7, <2>1, <2>2 DEF Referring
<1>10. CASE w' # EmptyWeights
  <2>1. /\ r # "ptrs" \/ res["ptrs"] # "held"
        /\ w'.embd = w.embd /\ w'.wcls = w.wcls
        /\ \A s \in Slots : w'.form[s] \in {NoForm, w.form[s]}
    BY <1>3, <1>6, <1>10
  <2>2. Refers' => Refers /\ res'["ptrs"] = "held" /\ res["ptrs"] = "held"
    BY <1>2, <1>4, <2>1 DEF Refers, Referring
  <2>3. Referring'
    <3>1. pc' \notin Stored
      BY <1>1 DEF Stored, Pointed, Configured, Opened
    <3>2. Native(file'.kind) =>
            /\ \A s \in Slots : w'.form[s].in # "heap"
            /\ w'.embd.in # "heap" /\ w'.wcls.in # "heap"
      BY <1>1, <1>8, <2>1 DEF Referring
    <3>3. QED
      BY <2>2, <3>1, <3>2 DEF Referring
  <2>4. Refers' => res'["map"] = res["map"] /\ res'["store"] = res["store"]
    BY <1>2, <1>4, <1>5, <2>2
  <2>5. ASSUME NEW f \in Form, BackedForm(f), Refers'
        PROVE  f # NoForm => res'[Behind[f.in]] = "held"
    BY <2>4, <2>5 DEF BackedForm, Behind, Form
  <2>6. /\ \A s \in Slots : w.form[s] \in Form \union {NoForm}
        /\ w.embd \in Form \union {NoForm} /\ w.wcls \in Form \union {NoForm}
    BY DEF TypeOK, Weights
  <2>7. \A s \in Slots :
           w'.form[s] # NoForm => res'[Behind[w'.form[s].in]] = "held"
    <3> SUFFICES ASSUME NEW s \in Slots, w'.form[s] # NoForm
                 PROVE  res'[Behind[w'.form[s].in]] = "held"
      OBVIOUS
    <3>1. w'.form[s] = w.form[s] /\ w.form[s] \in Form /\ Refers'
      BY <2>1, <2>6 DEF Refers
    <3>2. BackedForm(w.form[s])
      BY DEF Backed
    <3>3. QED
      BY <2>5, <3>1, <3>2
  <2>8. ASSUME NEW f \in {w.embd, w.wcls}, f # NoForm
        PROVE  res'[Behind[f.in]] = "held"
    <3>1. f \in Form /\ Refers'
      BY <2>1, <2>6, <2>8 DEF Refers
    <3>2. BackedForm(f)
      BY DEF Backed
    <3>3. QED
      BY <2>5, <2>8, <3>1, <3>2
  <2>9. Backed'
    BY <2>1, <2>7, <2>8 DEF Backed, BackedForm
  <2>10. QED
    BY <1>7, <2>3, <2>9
<1>11. QED
  BY <1>7, <1>9, <1>10

LEMMA Acquired ==
  ASSUME TypeOK, NEW r \in Resources, Acquire(r)
  PROVE  \A x \in Resources : res'[x] = IF x = r THEN "held" ELSE res[x]
BY DEF TypeOK, Acquire

(* Every step that does not fail acquires what its name says.              *)
LEMMA AcquiringStep ==
  ASSUME TypeOK, Acquiring, [Next]_vars
  PROVE  Acquiring'
<1> SUFFICES ASSUME pc' \notin Leaves
             PROVE  Acquiring'
  BY DEF Acquiring
<1> USE DEF HeldAfter, Opened, Configured, Pointed, Stored, Loaded, WithBufs,
        WithCaches, Leaves, Goto, Acquire, GivesUp, Fail
<1>1. CASE CreatePool
  BY <1>1 DEF CreatePool, Acquiring, TypeOK, Resources
<1>2. CASE MapFile
  BY <1>2 DEF MapFile, Acquiring, TypeOK, Resources, Gguf
<1>3. CASE ReadHeader
  <2>1. /\ pc = "header" /\ pc' = "config"
        /\ Acquire("hdr") /\ UNCHANGED <<file, code, bad>>
    BY <1>3 DEF ReadHeader, Gguf
  <2>2. \A x \in Resources :
           res'[x] = IF x = "hdr" THEN "held" ELSE res[x]
    BY <2>1, Acquired DEF Resources
  <2>3. QED
    BY <2>1, <2>2 DEF Acquiring, Gguf, HasFamily, Resources
<1>4. CASE ReadConfig \/ ReadMoeConfig
  BY <1>4 DEF ReadConfig, ReadMoeConfig, Acquiring, Gguf
<1>5. CASE AllocPointers
  <2>1. /\ pc = "pointers"
        /\ pc' = IF IsMoe(file.kind) THEN "experts"
                 ELSE IF Gguf THEN "store" ELSE "embedding"
        /\ Acquire("ptrs") /\ UNCHANGED <<file, code, bad>>
    BY <1>5 DEF AllocPointers, Gguf
  <2>2. \A x \in Resources :
           res'[x] = IF x = "ptrs" THEN "held" ELSE res[x]
    BY <2>1, Acquired DEF Resources
  <2>3. QED
    BY <2>1, <2>2 DEF Acquiring, Gguf, HasFamily, Resources
<1>6. CASE AllocExperts
  <2>1. /\ pc = "experts" /\ pc' = IF Gguf THEN "store" ELSE "embedding"
        /\ Acquire("moe") /\ UNCHANGED <<file, code, bad>>
    BY <1>6 DEF AllocExperts, Gguf
  <2>2. \A x \in Resources :
           res'[x] = IF x = "moe" THEN "held" ELSE res[x]
    BY <2>1, Acquired DEF Resources
  <2>3. QED
    BY <2>1, <2>2 DEF Acquiring, Gguf, HasFamily, Resources
<1>7. CASE AllocStore
  <2>1. /\ pc = "store" /\ pc' = "embedding"
        /\ Acquire("store") /\ UNCHANGED <<file, code, bad>>
    BY <1>7 DEF AllocStore, Gguf
  <2>2. \A x \in Resources :
           res'[x] = IF x = "store" THEN "held" ELSE res[x]
    BY <2>1, Acquired DEF Resources
  <2>3. QED
    BY <2>1, <2>2 DEF Acquiring, Gguf, HasFamily, Resources
<1>8. CASE LoadEmbedding
  <2>1. /\ pc = "embedding" /\ pc' = "layers"
        /\ UNCHANGED <<file, res, code, bad>>
    BY <1>8 DEF LoadEmbedding
  <2>2. QED
    BY <2>1 DEF Acquiring, Gguf
<1>9. CASE LoadLayer
  <2>1. /\ pc \in {"layers", "native_experts"} /\ pc' = pc
        /\ UNCHANGED <<file, res, code, bad>>
    BY <1>9 DEF LoadLayer
  <2>2. QED
    BY <2>1 DEF Acquiring, Gguf
<1>10. CASE FinishWeights
  <2>1. /\ pc = "layers" /\ pc' \in {"native_experts", "state"}
        /\ UNCHANGED <<file, res, code, bad>>
    BY <1>10, FinishedWeights DEF FinishWeights
  <2>2. QED
    BY <2>1 DEF Acquiring, Gguf
<1>11. CASE ExpertsMapped
  BY <1>11 DEF ExpertsMapped, Acquiring, Gguf
<1>12. CASE AllocState \/ AllocBuffers
  <2>1. CASE AllocState
    <3>1. /\ pc = "state" /\ pc' = "buffers"
          /\ Acquire("s") /\ UNCHANGED <<file, code, bad>>
      BY <2>1 DEF AllocState
    <3>2. \A x \in Resources :
             res'[x] = IF x = "s" THEN "held" ELSE res[x]
      BY <3>1, Acquired DEF Resources
    <3>3. QED
      BY <3>1, <3>2 DEF Acquiring, Gguf, HasFamily, Resources
  <2>2. CASE AllocBuffers
    <3>1. /\ pc = "buffers"
          /\ pc' = IF HasFamily THEN "family" ELSE "tokenizer"
          /\ Acquire("bufs") /\ UNCHANGED <<file, code, bad>>
      BY <2>2 DEF AllocBuffers
    <3>2. \A x \in Resources :
             res'[x] = IF x = "bufs" THEN "held" ELSE res[x]
      BY <3>1, Acquired DEF Resources
    <3>3. QED
      BY <3>1, <3>2 DEF Acquiring, Gguf, HasFamily, Resources
  <2>3. QED
    BY <1>12, <2>1, <2>2
<1>13. CASE AllocFamily
  <2>1. /\ pc = "family" /\ pc' = "tokenizer"
        /\ Acquire("family") /\ UNCHANGED <<file, code, bad>>
    BY <1>13 DEF AllocFamily, Gguf
  <2>2. \A x \in Resources :
           res'[x] = IF x = "family" THEN "held" ELSE res[x]
    BY <2>1, Acquired DEF Resources
  <2>3. QED
    BY <2>1, <2>2 DEF Acquiring, Gguf, HasFamily, Resources
<1>14. CASE LoadTokenizer
  <2>1. /\ pc = "tokenizer" /\ pc' = "memory"
        /\ Acquire("tok") \/ UNCHANGED res
        /\ UNCHANGED <<file, code, bad>>
    BY <1>14 DEF LoadTokenizer
  <2>2. /\ \A x \in Resources \ {"tok"} : res'[x] = res[x]
        /\ res'["tok"] \in {res["tok"], "held"}
    BY <2>1, Acquired DEF Resources
  <2>3. QED
    BY <2>1, <2>2 DEF Acquiring, Gguf, HasFamily, Resources
<1>15. CASE OpenMemory
  BY <1>15 DEF OpenMemory, Acquiring, TypeOK, Resources, Gguf, HasFamily
<1>16. CASE Leaving
  BY <1>16 DEF Leaving, Finish, Release, Exit
<1>17. CASE UNCHANGED vars
  BY <1>17 DEF vars, Acquiring, Gguf, HasFamily
<1>18. QED
  BY <1>1, <1>2, <1>3, <1>4, <1>5, <1>6, <1>7, <1>8, <1>9, <1>10, <1>11,
     <1>12, <1>13, <1>14, <1>15, <1>16, <1>17
  DEF Next, Opening, Loading, Preparing

(* A step out of the startup names the list of what it holds.              *)
LEMMA FailingSteps ==
  ASSUME TypeOK, Acquiring, pc \notin Leaves, pc' \in Leaves, Next,
         ~Finish, ~ReadHeader
  PROVE  \E list \in Seq(Resources) :
            /\ Fail(list) /\ res' = res
            /\ \/ list = <<>> /\ pc = "pool"
               \/ list = <<"pool">> /\ pc = "map"
               \/ list = OnlyFile
                  /\ pc \in Configured \ {"pool", "map", "header"}
               \/ list = WithHeader /\ pc = "config" /\ Gguf
               \/ list = WithWeights /\ pc \in Loaded \ Configured
               \/ list = WithState /\ pc = "buffers"
               \/ list = WithBuffers /\ pc \in {"family", "tokenizer"}
<1> USE Lists DEF Opened, Configured, Pointed, Stored, Loaded, Leaves, Goto,
        GivesUp
<1>1. CASE CreatePool \/ MapFile
  BY <1>1 DEF CreatePool, MapFile
<1>2. CASE ReadConfig \/ ReadMoeConfig
  BY <1>2 DEF ReadConfig, ReadMoeConfig
<1>3. CASE AllocPointers \/ AllocExperts
  BY <1>3 DEF AllocPointers, AllocExperts
<1>4. CASE AllocStore \/ LoadEmbedding
  BY <1>4 DEF AllocStore, LoadEmbedding
<1>5. CASE LoadLayer
  BY <1>5 DEF LoadLayer
<1>6. CASE FinishWeights
  BY <1>6, FinishedWeights DEF FinishWeights
<1>7. CASE AllocState \/ AllocBuffers
  BY <1>7 DEF AllocState, AllocBuffers
<1>8. CASE AllocFamily \/ LoadTokenizer
  BY <1>8 DEF AllocFamily, LoadTokenizer
<1>9. CASE ExpertsMapped \/ OpenMemory
  BY <1>9 DEF ExpertsMapped, OpenMemory
<1>10. CASE Release \/ Exit
  BY <1>10 DEF Release, Exit
<1>11. QED
  BY <1>1, <1>2, <1>3, <1>4, <1>5, <1>6, <1>7, <1>8, <1>9, <1>10
  DEF Next, Opening, Loading, Preparing, Leaving

(* A header that was never read is on the list, and is the only one.       *)
LEMMA HeaderLists ==
  ASSUME TypeOK, Acquiring, ReadHeader, pc' \in Leaves
  PROVE  Releasing'
<1>1. /\ pc = "header" /\ pc' = "freeing" /\ todo' = WithHeader
      /\ code' = 1 /\ file' = file
      /\ \E state \in {"held", "garbage"} :
            res' = [res EXCEPT !["hdr"] = state]
  BY DEF ReadHeader, Fail, Goto, Leaves
<1>2. \A r \in Resources :
         IF r = "hdr" THEN res'[r] \in {"held", "garbage"}
         ELSE res'[r] = res[r]
  BY <1>1 DEF TypeOK
<1>3. \A r \in Resources \ {"hdr"} :
         res[r] = IF r \in {"pool", "map"} THEN "held" ELSE "none"
  BY <1>1 DEF Acquiring, HeldAfter, Opened, Configured, Pointed, Stored,
     Loaded, WithBufs, WithCaches, Leaves, Resources
<1>4. /\ Len(todo') = 3 /\ todo'[1] = "hdr" /\ todo'[2] = "map"
      /\ todo'[3] = "pool"
  BY <1>1 DEF WithHeader
<1>5. {"hdr", "map", "pool", "moe", "ptrs", "family"} \subseteq Resources
  BY DEF Resources
<1>6. /\ \A r \in Resources :
            res'[r] = "held" /\ r # "hdr" => r \in {"map", "pool"}
      /\ res'["moe"] = "none" /\ res'["ptrs"] = "none"
      /\ res'["map"] = "held" /\ res'["pool"] = "held"
      /\ res'["hdr"] \in {"held", "garbage"}
      /\ \A r \in Resources :
            res'[r] # "lost" /\ (res'[r] = "garbage" => r = "hdr")
  BY <1>2, <1>3, <1>5
<1>7. /\ \A r \in Resources :
            res'[r] = "held" /\ r # "hdr" => Listed(r)'
      /\ ~Listed("family")'
  BY <1>4, <1>6 DEF Listed
<1>8. \A i \in 1 .. Len(todo') :
         \/ res'[todo'[i]] \in {"none", "held"}
         \/ todo'[i] = "hdr" /\ res'["hdr"] = "garbage"
  BY <1>4, <1>6
<1>9. \A i, j \in 1 .. Len(todo') : todo'[i] = todo'[j] => i = j
  BY <1>4
<1>10. Precedes("moe", "ptrs")' /\ Precedes("ptrs", "map")'
         /\ Precedes("ptrs", "store")'
  BY <1>6 DEF Precedes
<1>11. QED
  BY <1>1, <1>6, <1>7, <1>8, <1>9, <1>10 DEF Releasing, Leaves

(* What an exit path has to release, it has on its list.                   *)
LEMMA ReleasingNext ==
  ASSUME TypeOK, Acquiring, Releasing, [Next]_vars
  PROVE  Releasing'
<1> SUFFICES ASSUME pc' \in Leaves
             PROVE  Releasing'
  BY DEF Releasing
<1>1. CASE Finish
  BY <1>1, CleanupLists
<1>2. CASE Release
  BY <1>2, ReleasingStep
<1>3. CASE Exit \/ UNCHANGED vars
  <2>1. /\ UNCHANGED <<res, todo, code>> /\ pc \in Leaves
        /\ pc' = "exit" => todo = <<>>
    BY <1>3 DEF Exit, vars, Leaves, Releasing
  <2>2. QED
    BY <2>1 DEF Releasing, Listed, Precedes
<1>4. CASE ReadHeader
  BY <1>4, HeaderLists
<1>5. CASE pc \notin Leaves /\ Next /\ ~Finish /\ ~ReadHeader
  BY <1>5, FailingSteps, FailingLists
<1>6. pc \in Leaves /\ Next => Release \/ Exit
  BY DEF Next, Opening, Loading, Preparing, Leaving, Leaves, CreatePool,
     MapFile, ReadHeader, ReadConfig, ReadMoeConfig, AllocPointers,
     AllocExperts, AllocStore, LoadEmbedding, LoadLayer, FinishWeights,
     ExpertsMapped, AllocState, AllocBuffers, AllocFamily, LoadTokenizer,
     OpenMemory, Finish
<1>7. QED
  BY <1>1, <1>2, <1>3, <1>4, <1>5, <1>6

(* What the steps but a release leave alone.                               *)
LEMMA Quiet ==
  ASSUME TypeOK, Acquiring, [Next]_vars, ~Release
  PROVE  /\ file' = file /\ bad' = bad
         /\ pc \in Leaves => /\ pc' \in Leaves
                            /\ UNCHANGED <<w, res, code>>
         /\ pc \notin Leaves => bad = {} /\ code = 0
         /\ pc' \in Leaves /\ code' = 0 =>
               (pc \in Leaves \/ pc = "running") /\ UNCHANGED <<w, res, code>>
<1> USE DEF Leaves, Goto, Fail, GivesUp
<1>0. pc \notin Leaves => bad = {} /\ code = 0
  BY DEF Acquiring
<1>1. CASE CreatePool
  BY <1>0, <1>1 DEF CreatePool
<1>2. CASE MapFile
  BY <1>0, <1>2 DEF MapFile
<1>3. CASE ReadHeader
  BY <1>0, <1>3 DEF ReadHeader
<1>4. CASE ReadConfig \/ ReadMoeConfig
  BY <1>0, <1>4 DEF ReadConfig, ReadMoeConfig
<1>5. CASE AllocPointers
  BY <1>0, <1>5 DEF AllocPointers
<1>6. CASE AllocExperts \/ AllocStore
  BY <1>0, <1>6 DEF AllocExperts, AllocStore
<1>7. CASE LoadEmbedding
  <2>1. /\ pc = "embedding" /\ UNCHANGED <<file, bad>>
        /\ pc' = "layers" \/ (pc' = "freeing" /\ code' = 1)
    BY <1>7 DEF LoadEmbedding
  <2>2. QED
    BY <1>0, <2>1
<1>8. CASE LoadLayer
  <2>1. /\ pc \in {"layers", "native_experts"} /\ UNCHANGED <<file, bad>>
        /\ pc' = pc \/ (pc' = "freeing" /\ code' = 1)
    BY <1>8 DEF LoadLayer
  <2>2. QED
    BY <1>0, <2>1
<1>9. CASE FinishWeights
  <2>1. /\ pc = "layers" /\ UNCHANGED <<file, bad>>
        /\ \/ pc' \in {"native_experts", "state"}
           \/ pc' = "freeing" /\ code' = 1
    BY <1>9, FinishedWeights DEF FinishWeights
  <2>2. QED
    BY <1>0, <2>1
<1>10. CASE ExpertsMapped
  BY <1>0, <1>10 DEF ExpertsMapped
<1>11. CASE AllocState \/ AllocBuffers
  BY <1>0, <1>11 DEF AllocState, AllocBuffers
<1>12. CASE AllocFamily
  BY <1>0, <1>12 DEF AllocFamily
<1>13. CASE LoadTokenizer
  BY <1>0, <1>13 DEF LoadTokenizer
<1>14. CASE OpenMemory
  BY <1>0, <1>14 DEF OpenMemory
<1>15. CASE Finish \/ Exit \/ UNCHANGED vars
  BY <1>0, <1>15 DEF Finish, Exit, vars
<1>16. QED
  BY <1>1, <1>2, <1>3, <1>4, <1>5, <1>6, <1>7, <1>8, <1>9, <1>10, <1>11,
     <1>12, <1>13, <1>14, <1>15
  DEF Next, Opening, Loading, Preparing, Leaving

(* What is freed wrongly, over all the steps.                              *)
LEMMA BlamedNext ==
  ASSUME TypeOK, Acquiring, Releasing, Blamed, Flagged, [Next]_vars
  PROVE  Blamed'
<1>1. CASE Release
  BY <1>1, BlamedStep
<1>2. CASE ~Release
  <2>1. CASE pc \in Leaves
    BY <1>2, <2>1, Quiet DEF Blamed
  <2>2. CASE pc \notin Leaves
    BY <1>2, <2>2, Quiet DEF Blamed
  <2>3. QED
    BY <2>1, <2>2
<1>3. QED
  BY <1>1, <1>2

(* The flag over the steps but a release.                                  *)
LEMMA FlaggedNext ==
  ASSUME TypeOK, Acquiring, Flagged, [Next]_vars, ~Release
  PROVE  Flagged'
<1> DEFINE After == {"native_experts", "state", "buffers", "family",
                     "tokenizer", "memory", "running"}
           Right == w.has_expert_quant = ExpertQuant(file.kind)
<1>1. pc' \in Leaves /\ code' = 0 /\ res'["moe"] = "held" => Right'
  <2>1. pc' \in Leaves /\ code' = 0 =>
          /\ UNCHANGED <<file, w, res, code>>
          /\ pc \in Leaves \/ pc = "running"
    BY Quiet
  <2>2. QED
    BY <2>1 DEF Flagged
<1>2. res'["moe"] = "held" => IsMoe(file'.kind)
  <2>1. file' = file
    BY Quiet
  <2>2. CASE AllocExperts
    <3>1. pc = "experts"
      BY <2>2 DEF AllocExperts
    <3>2. QED
      BY <2>1, <3>1 DEF Acquiring, Leaves
  <2>3. CASE ~AllocExperts
    <3>1. res'["moe"] = res["moe"]
      <4> USE DEF Goto, Fail, GivesUp, Acquire
      <4>1. CASE CreatePool
        BY <4>1 DEF CreatePool, TypeOK, Resources
      <4>2. CASE MapFile
        BY <4>2 DEF MapFile, TypeOK, Resources
      <4>3. CASE ReadHeader
        BY <4>3 DEF ReadHeader, TypeOK, Resources
      <4>4. CASE AllocPointers
        BY <4>4 DEF AllocPointers, TypeOK, Resources
      <4>5. CASE AllocStore
        BY <4>5 DEF AllocStore, TypeOK, Resources
      <4>6. CASE AllocState
        BY <4>6 DEF AllocState, TypeOK, Resources
      <4>7. CASE AllocBuffers
        BY <4>7 DEF AllocBuffers, TypeOK, Resources
      <4>8. CASE AllocFamily
        BY <4>8 DEF AllocFamily, TypeOK, Resources
      <4>9. CASE LoadTokenizer
        BY <4>9 DEF LoadTokenizer, TypeOK, Resources
      <4>10. CASE ReadConfig \/ ReadMoeConfig
        BY <4>10 DEF ReadConfig, ReadMoeConfig
      <4>11. CASE LoadEmbedding
        BY <4>11 DEF LoadEmbedding
      <4>12. CASE LoadLayer
        BY <4>12 DEF LoadLayer
      <4>13. CASE FinishWeights
        BY <4>13, FinishedWeights
      <4>14. CASE ExpertsMapped
        BY <4>14 DEF ExpertsMapped
      <4>15. CASE OpenMemory
        BY <4>15 DEF OpenMemory, TypeOK, Resources
      <4>16. CASE Finish \/ Exit \/ UNCHANGED vars
        BY <4>16 DEF Finish, Exit, vars
      <4>17. QED
        BY <2>3, <4>1, <4>2, <4>3, <4>4, <4>5, <4>6, <4>7, <4>8, <4>9, <4>10,
           <4>11, <4>12, <4>13, <4>14, <4>15, <4>16
        DEF Next, Opening, Loading, Preparing, Leaving
    <3>2. QED
      BY <2>1, <3>1 DEF Flagged
  <2>4. QED
    BY <2>2, <2>3
<1>3. pc' \in After => Right'
  <2> SUFFICES ASSUME pc' \in After PROVE Right'
    OBVIOUS
  <2>0. file' = file
    BY Quiet
  <2>1. CASE FinishWeights
    <3> DEFINE n == SetFlags(w, file)
    <3>1. n \in Weights /\ n.has_expert_quant = ExpertQuant(file.kind)
      BY Flags, FileFacts DEF TypeOK
    <3>2. ~GivesUp(WithWeights)
      BY DEF GivesUp, Fail
    <3> HIDE DEF n
    <3>3. \/ w' = n
          \/ \E c : w' = [n EXCEPT !.wcls = c]
          \/ \E e, c : w' = [n EXCEPT !.embd = e, !.wcls = c]
      BY <2>1, <3>2, FinishedWeights DEF n
    <3>4. w'.has_expert_quant = n.has_expert_quant
      BY <3>1, <3>3 DEF Weights
    <3>5. QED
      BY <2>0, <3>1, <3>4
  <2>2. CASE LoadLayer
    <3>0. pc = "native_experts"
      BY <2>2 DEF LoadLayer, Fail
    <3>1. layer \in Layers
      BY <2>2 DEF LoadLayer, TypeOK, Layers
    <3>2. PICK S \in SUBSET Roles : Placeable(S)
                  /\ w' = LoadProjections(w, file, layer, S)
      <4>1. \A i : Turn \intersect Before(i) \in SUBSET Roles
        BY TurnRoles
      <4>2. QED
        BY <2>2, <4>1, TurnRoles DEF LoadLayer
    <3>3. w \in Weights
          /\ \A r \in S : Placed(file.kind, r, file.tensor[<<layer, r>>]) # {}
      BY <3>2 DEF TypeOK, Placeable
    <3>4. w'.has_expert_quant = w.has_expert_quant
      BY <3>1, <3>2, <3>3, TurnOfLoop, FileFacts
    <3>5. QED
      BY <2>0, <3>0, <3>4 DEF Flagged
  <2>3. CASE ~FinishWeights /\ ~LoadLayer
    <3>1. pc \in After /\ w' = w
      <4> USE DEF Goto, Fail, GivesUp
      <4>1. CASE CreatePool \/ MapFile \/ ReadHeader \/ ReadConfig
        BY <4>1 DEF CreatePool, MapFile, ReadHeader, ReadConfig
      <4>2. CASE ReadMoeConfig \/ AllocPointers \/ AllocExperts
        BY <4>2 DEF ReadMoeConfig, AllocPointers, AllocExperts
      <4>3. CASE AllocStore \/ LoadEmbedding
        BY <4>3 DEF AllocStore, LoadEmbedding
      <4>6. CASE ExpertsMapped \/ AllocState \/ AllocBuffers
        BY <4>6 DEF ExpertsMapped, AllocState, AllocBuffers
      <4>7. CASE AllocFamily \/ LoadTokenizer \/ OpenMemory
        BY <4>7 DEF AllocFamily, LoadTokenizer, OpenMemory
      <4>8. CASE Finish \/ Exit \/ UNCHANGED vars
        BY <4>8 DEF Finish, Exit, vars
      <4>9. QED
        BY <2>3, <4>1, <4>2, <4>3, <4>6, <4>7, <4>8
        DEF Next, Opening, Loading, Preparing, Leaving
    <3>2. QED
      BY <2>0, <3>1 DEF Flagged
  <2>4. QED
    BY <2>1, <2>2, <2>3
<1>4. QED
  BY <1>1, <1>2, <1>3 DEF Flagged

(* Only a release takes memory away from the weights.                      *)
LEMMA HeldStays ==
  ASSUME TypeOK, Acquiring, [Next]_vars, ~Release
  PROVE  /\ \A r \in {"ptrs", "map", "store"} :
               res[r] = "held" => res'[r] = "held"
         /\ pc' \in Stored => pc \in Stored
<1> USE DEF Goto, Fail, GivesUp, Acquire, Opened, Configured, Pointed, Stored
<1>1. CASE CreatePool
  BY <1>1 DEF CreatePool, TypeOK, Resources
<1>2. CASE MapFile
  BY <1>2 DEF MapFile, TypeOK, Resources
<1>3. CASE ReadHeader
  BY <1>3 DEF ReadHeader, TypeOK, Resources
<1>4. CASE AllocPointers
  BY <1>4 DEF AllocPointers, TypeOK, Resources
<1>5. CASE AllocExperts
  BY <1>5 DEF AllocExperts, TypeOK, Resources
<1>6. CASE AllocStore
  BY <1>6 DEF AllocStore, TypeOK, Resources
<1>7. CASE AllocState
  BY <1>7 DEF AllocState, TypeOK, Resources
<1>8. CASE AllocBuffers
  BY <1>8 DEF AllocBuffers, TypeOK, Resources
<1>9. CASE AllocFamily
  BY <1>9 DEF AllocFamily, TypeOK, Resources
<1>10. CASE LoadTokenizer
  BY <1>10 DEF LoadTokenizer, TypeOK, Resources
<1>11. CASE ReadConfig \/ ReadMoeConfig
  BY <1>11 DEF ReadConfig, ReadMoeConfig
<1>12. CASE LoadEmbedding
  <2>1. res' = res /\ pc' \in {"layers", "freeing"}
    BY <1>12 DEF LoadEmbedding
  <2>2. QED
    BY <2>1
<1>13. CASE LoadLayer
  <2>1. res' = res /\ pc' \in {"layers", "native_experts", "freeing"}
    BY <1>13 DEF LoadLayer
  <2>2. QED
    BY <2>1
<1>14. CASE FinishWeights
  <2>1. res' = res /\ pc' \in {"native_experts", "state", "freeing"}
    BY <1>14, FinishedWeights
  <2>2. QED
    BY <2>1
<1>15. CASE ExpertsMapped
  BY <1>15 DEF ExpertsMapped
<1>16. CASE OpenMemory
  BY <1>16 DEF OpenMemory, TypeOK, Resources
<1>17. CASE Finish \/ Exit \/ UNCHANGED vars
  BY <1>17 DEF Finish, Exit, vars
<1>18. QED
  BY <1>1, <1>2, <1>3, <1>4, <1>5, <1>6, <1>7, <1>8, <1>9, <1>10, <1>11,
     <1>12, <1>13, <1>14, <1>15, <1>16, <1>17
  DEF Next, Opening, Loading, Preparing, Leaving

(* Only the loaders write the weights, but for the releases.               *)
LEMMA OnlyLoaders ==
  ASSUME [Next]_vars, ~Release, ~LoadEmbedding, ~LoadLayer, ~FinishWeights
  PROVE  w' = w
<1> USE DEF Goto, Fail, GivesUp
<1>1. CASE Opening
  BY <1>1 DEF Opening, CreatePool, MapFile, ReadHeader, ReadConfig,
     ReadMoeConfig, AllocPointers, AllocExperts
<1>2. CASE AllocStore \/ ExpertsMapped \/ Preparing
  BY <1>2 DEF AllocStore, ExpertsMapped, Preparing, AllocState, AllocBuffers,
     AllocFamily, LoadTokenizer, OpenMemory
<1>3. CASE Finish \/ Exit \/ UNCHANGED vars
  BY <1>3 DEF Finish, Exit, vars
<1>4. QED
  BY <1>1, <1>2, <1>3 DEF Next, Loading, Leaving

(* No loader of a native file copies a tensor to the heap.                 *)
NoCopies(v) ==
    /\ \A s \in Slots : v.form[s].in # "heap"
    /\ v.embd.in # "heap" /\ v.wcls.in # "heap"
LEMMA NativeCopies ==
  ASSUME TypeOK, Native(file.kind), NoCopies(w),
         LoadEmbedding \/ LoadLayer \/ FinishWeights
  PROVE  NoCopies(w')
<1>1. /\ \A e \in PlacedEmbedding(file.kind, file.embd) : e.in # "heap"
      /\ \A c \in PlacedOutput(file) : c.in # "heap"
      /\ NoForm.in # "heap"
  BY PlacedTables, FileFacts DEF NoForm
<1>2. w \in Weights
  BY DEF TypeOK
<1>3. CASE LoadEmbedding
  <2>1. \/ w' = w
        \/ \E e, c : /\ w' = [w EXCEPT !.embd = e, !.wcls = c,
                                       !.ternary = Native(file.kind)]
                    /\ e.in # "heap" /\ c.in # "heap"
    BY <1>1, <1>3 DEF LoadEmbedding, GivesUp
  <2>2. \/ w' = w
        \/ w'.form = w.form /\ w'.embd.in # "heap" /\ w'.wcls.in # "heap"
    BY <1>2, <2>1 DEF Weights
  <2>3. QED
    BY <2>2 DEF NoCopies
<1>4. CASE LoadLayer
  <2>1. layer \in Layers
    BY <1>4 DEF LoadLayer, TypeOK, Layers
  <2>2. PICK S \in SUBSET Roles : Placeable(S)
                /\ w' = LoadProjections(w, file, layer, S)
    <3>1. \A i : Turn \intersect Before(i) \in SUBSET Roles
      BY TurnRoles
    <3>2. QED
      BY <1>4, <3>1, TurnRoles DEF LoadLayer
  <2>3. \A r \in S : Placed(file.kind, r, file.tensor[<<layer, r>>]) # {}
    BY <2>2 DEF Placeable
  <2>4. /\ \A s \in Slots :
             \/ w'.form[s] \in Placed(file.kind, s[2], file.tensor[s])
             \/ w'.form[s] = w.form[s]
        /\ w'.embd = w.embd /\ w'.wcls = w.wcls
    BY <1>2, <2>1, <2>2, <2>3, TurnOfLoop, FileFacts
  <2>5. \A s \in Slots : s[2] \in Roles
    BY DEF Slots
  <2>6. \A s \in Slots :
           \A f \in Placed(file.kind, s[2], file.tensor[s]) : f.in # "heap"
    BY <2>5, PlacedForm, FileFacts
  <2>7. QED
    BY <2>4, <2>6 DEF NoCopies
<1>5. CASE FinishWeights
  <2> DEFINE n == SetFlags(w, file)
  <2>1. /\ n \in Weights /\ n.form = w.form /\ n.embd = w.embd
        /\ n.wcls = w.wcls
    BY <1>2, Flags, FileFacts
  <2> HIDE DEF n
  <2>2. \/ w' = w
        \/ w' = n
        \/ \E c : w' = [n EXCEPT !.wcls = c] /\ c.in # "heap"
        \/ \E e, c : /\ w' = [n EXCEPT !.embd = e, !.wcls = c]
                    /\ e.in # "heap" /\ c.in # "heap"
    BY <1>1, <1>5, FinishedWeights DEF n, GivesUp
  <2>3. /\ w'.form = w.form
        /\ w'.embd = w.embd \/ w'.embd.in # "heap"
        /\ w'.wcls = w.wcls \/ w'.wcls.in # "heap"
    BY <2>1, <2>2 DEF Weights
  <2>4. QED
    BY <2>3 DEF NoCopies
<1>6. QED
  BY <1>3, <1>4, <1>5

(* The weights are backed, over the steps but a release.                   *)
LEMMA BackedNext ==
  ASSUME TypeOK, Acquiring, Referring, Backed, [Next]_vars, ~Release
  PROVE  Referring' /\ Backed'
<1>0. file' = file
  BY Quiet
<1>1. CASE LoadEmbedding \/ LoadLayer \/ FinishWeights
  <2>1. pc \in {"embedding", "layers", "native_experts"} /\ res' = res
    BY <1>1, FinishedWeights
    DEF LoadEmbedding, LoadLayer, FinishWeights, GivesUp
  <2>2. /\ res["ptrs"] = "held" /\ res["map"] = "held"
        /\ ~Native(file.kind) => res["store"] = "held"
    BY <2>1 DEF Acquiring, HeldAfter, Stored, Pointed, Configured, Opened,
       Leaves, Gguf
  <2>3. w' \in Weights
    BY <1>1, LoadersTyped
  <2>4. Native(file.kind) => NoCopies(w')
    BY <1>1, NativeCopies DEF Referring, NoCopies
  <2>5. pc' \notin Stored
    BY <1>1, FinishedWeights DEF LoadEmbedding, LoadLayer, FinishWeights,
       Goto, Fail, GivesUp, Stored, Pointed, Configured, Opened
  <2>6. ASSUME NEW f \in Form, Native(file.kind) => f.in # "heap"
        PROVE  res'[Behind[f.in]] = "held"
    BY <2>1, <2>2, <2>6 DEF Behind, Form
  <2>7. /\ \A s \in Slots : w'.form[s] # NoForm =>
               res'[Behind[w'.form[s].in]] = "held"
        /\ w'.embd # NoForm => res'[Behind[w'.embd.in]] = "held"
        /\ w'.wcls # NoForm => res'[Behind[w'.wcls.in]] = "held"
    <3>1. /\ \A s \in Slots : w'.form[s] \in Form \union {NoForm}
          /\ w'.embd \in Form \union {NoForm}
          /\ w'.wcls \in Form \union {NoForm}
      BY <2>3 DEF Weights
    <3>2. QED
      BY <2>4, <2>6, <3>1 DEF NoCopies
  <2>8. Backed'
    BY <2>7 DEF Backed, BackedForm
  <2>9. Referring'
    BY <1>0, <2>1, <2>2, <2>4, <2>5 DEF Referring, NoCopies
  <2>10. QED
    BY <2>8, <2>9
<1>2. CASE ~LoadEmbedding /\ ~LoadLayer /\ ~FinishWeights
  <2>1. w' = w
    BY <1>2, OnlyLoaders
  <2>2. /\ \A r \in {"ptrs", "map", "store"} :
              res[r] = "held" => res'[r] = "held"
        /\ pc' \in Stored => pc \in Stored
    BY HeldStays
  <2>3. Refers' = Refers
    BY <2>1 DEF Refers
  <2>4. Referring'
    BY <1>0, <2>1, <2>2, <2>3 DEF Referring
  <2>5. ASSUME NEW f \in Form \union {NoForm}, BackedForm(f)
        PROVE  f # NoForm => res'[Behind[f.in]] = "held"
    BY <2>2, <2>5 DEF BackedForm, Behind, Form
  <2>6. /\ \A s \in Slots : w.form[s] \in Form \union {NoForm}
        /\ w.embd \in Form \union {NoForm}
        /\ w.wcls \in Form \union {NoForm}
    BY DEF TypeOK, Weights
  <2>7. /\ \A s \in Slots : w'.form[s] # NoForm =>
               res'[Behind[w'.form[s].in]] = "held"
        /\ w'.embd # NoForm => res'[Behind[w'.embd.in]] = "held"
        /\ w'.wcls # NoForm => res'[Behind[w'.wcls.in]] = "held"
    BY <2>1, <2>5, <2>6 DEF Backed
  <2>8. QED
    BY <2>4, <2>7 DEF Backed, BackedForm
<1>3. QED
  BY <1>1, <1>2

(* Together.                                                               *)
LEMMA ExitStep ==
  ASSUME ExitInv, [Next]_vars
  PROVE  ExitInv'
<1>1. TypeOK' /\ Acquiring' /\ Releasing' /\ Blamed'
  BY TypeStep, AcquiringStep, ReleasingNext, BlamedNext DEF ExitInv
<1>2. CASE Release
  BY <1>1, <1>2, WeightsReleased DEF ExitInv
<1>3. CASE ~Release
  BY <1>1, <1>3, FlaggedNext, BackedNext DEF ExitInv
<1>4. QED
  BY <1>2, <1>3

LEMMA ExitInit == Init => ExitInv
<1> SUFFICES ASSUME Init PROVE ExitInv
  OBVIOUS
<1>1. TypeOK
  BY FilesAssumption, EmptyType, Lists
  DEF Init, TypeOK, Steps, Resources, Kept
<1>2. Acquiring
  BY DEF Init, Acquiring, HeldAfter, Opened, Configured, Pointed, Stored,
     Loaded, WithBufs, WithCaches, Leaves, Resources
<1>3. Releasing /\ Blamed
  BY DEF Init, Releasing, Blamed, Leaves
<1>4. Flagged
  BY DEF Init, Flagged, Leaves, Resources
<1>5. /\ EmptyWeights.embd = NoForm /\ EmptyWeights.wcls = NoForm
      /\ \A s \in Slots : EmptyWeights.form[s] = NoForm
      /\ NoForm.in # "heap"
  BY DEF EmptyWeights, NoForm
<1>6. Referring /\ Backed
  BY <1>5 DEF Init, Referring, Refers, Backed, BackedForm
<1>7. QED
  BY <1>1, <1>2, <1>3, <1>4, <1>6 DEF ExitInv

LEMMA ExitHolds == Spec => []ExitInv
BY ExitInit, ExitStep, PTL DEF Spec

(* No weight outlives the memory behind it, on any way out: main()'s       *)
(* cleanup and its error paths free the pointers first.                    *)
THEOREM AlwaysBacked == Spec => []Backed
<1>1. ExitInv => Backed
  BY DEF ExitInv
<1>2. QED
  BY <1>1, ExitHolds, PTL

(* The clean exit of main() frees all it acquired, once.                   *)
THEOREM CleanExit == Spec => []CleanExitFreesAll
<1>1. ExitInv => CleanExitFreesAll
  <2> SUFFICES ASSUME ExitInv, pc = "exit", code = 0
               PROVE  /\ \A r \in Resources : res[r] \in {"none", "freed"}
                      /\ file.kind # "native_moe" => bad = {}
    BY DEF CleanExitFreesAll
  <2>1. todo = <<>> /\ pc \in Leaves
    BY DEF ExitInv, Releasing, Leaves
  <2>2. \A r \in Resources : ~Listed(r)
    BY <2>1 DEF Listed
  <2>3. \A r \in Resources : res[r] \notin {"held", "garbage", "lost"}
    BY <2>1, <2>2 DEF ExitInv, Releasing
  <2>4. \A r \in Resources : res[r] \in {"none", "freed"}
    BY <2>3 DEF ExitInv, TypeOK, Kept
  <2>5. QED
    BY <2>4 DEF ExitInv, Blamed
<1>2. QED
  BY <1>1, ExitHolds, PTL

(* An error path of main() leaves the header, the heap copies and the      *)
(* caches of the family behind, and nothing else.                          *)
THEOREM ErrorExit == Spec => []ErrorExitReleases
<1>1. ExitInv => ErrorExitReleases
  <2> SUFFICES ASSUME ExitInv, pc = "exit", code = 1
               PROVE  /\ \A r \in Resources \ {"hdr", "store", "family"} :
                            res[r] \in {"none", "freed"}
                      /\ bad \subseteq {"hdr", "payload"}
                      /\ "hdr" \in bad => res["ptrs"] = "none"
                      /\ "payload" \in bad => res["moe"] = "freed"
    BY DEF ErrorExitReleases
  <2>1. todo = <<>> /\ pc \in Leaves
    BY DEF ExitInv, Releasing, Leaves
  <2>2. \A r \in Resources : ~Listed(r)
    BY <2>1 DEF Listed
  <2>3. \A r \in Resources \ {"hdr", "store", "family"} :
           res[r] \notin {"held", "garbage", "lost"}
    BY <2>1, <2>2 DEF ExitInv, Releasing
  <2>4. \A r \in Resources \ {"hdr", "store", "family"} :
           res[r] \in {"none", "freed"}
    BY <2>3 DEF ExitInv, TypeOK, Kept
  <2>5. QED
    BY <2>4 DEF ExitInv, Blamed
<1>2. QED
  BY <1>1, ExitHolds, PTL

-----------------------------------------------------------------------------
(* What the loaders have stored at every step of the way.                  *)

BeforeLoop == Stored \union {"embedding"}
FlagSteps == {"native_experts", "state", "buffers", "family", "tokenizer",
              "memory", "running"}
\* The slots that are filled.
Done(s) ==
    /\ s[2] \in RolesOf(file.kind, file.first, s[1])
    /\ pc = "layers" =>
          s[1] < layer /\ (Native(file.kind) => s[2] \in Attn \union Ffn)
    /\ pc = "native_experts" => s[2] \in Attn \union Ffn \/ s[1] < layer
Filled(s) ==
    IF Done(s)
    THEN /\ w.form[s] \in Placed(file.kind, s[2], file.tensor[s])
         /\ w.tag[s] = IF file.kind = "qwen35" /\ pc # "layers" THEN "Q2_0"
                       ELSE Tag(file.kind, s[2], file.tensor[s])
    ELSE file.kind # "qwen35" => w.tag[s] = "F32"
SomeQ4 == \E s \in Slots : /\ Done(s) /\ s[2] \in Attn
                           /\ file.tensor[s].type = "Q4_K"
Tables ==
    /\ file.kind # "qwen35" \/ pc # "layers" =>
         w.embd \in PlacedEmbedding(file.kind, file.embd)
    /\ ExpertQuant(file.kind) \/ pc # "layers" =>
         w.wcls \in PlacedOutput(file)
FlagsSet ==
    /\ w.has_expert_quant = ExpertQuant(file.kind)
    /\ ExpertQuant(file.kind) /\ file.first < NumLayers =>
         /\ w.w13 = TypeAt(file, file.first, "gate")
         /\ w.w2 = TypeAt(file, file.first, "down")
Contents ==
    /\ pc \in BeforeLoop => w = EmptyWeights /\ layer = 0
    /\ pc \notin BeforeLoop \union Leaves =>
         /\ \A s \in Slots : Filled(s)
         /\ w.has_mla_quant = (file.kind = "deepseek2" /\ SomeQ4)
         /\ w.ternary = Native(file.kind)
         /\ Tables
    /\ pc \in FlagSteps => FlagsSet
    /\ pc = "native_experts" => Native(file.kind)

(* The turn of the loop, slot by slot.                                     *)
LEMMA TurnFills ==
  ASSUME TypeOK, Contents, LoadLayer, pc' \notin Leaves
  PROVE  Contents'
<1>1. /\ pc \in {"layers", "native_experts"} /\ pc' = pc /\ file' = file
      /\ layer \in Layers /\ layer' = layer + 1
      /\ Placeable(Turn) /\ w' = LoadProjections(w, file, layer, Turn)
  <2>1. layer \in Layers
    BY DEF LoadLayer, TypeOK, Layers
  <2>2. QED
    BY <2>1 DEF LoadLayer, Fail, Leaves
<1>2. /\ \A s \in Slots :
            IF s[1] = layer /\ s[2] \in Turn
            THEN /\ w'.form[s] \in Placed(file.kind, s[2], file.tensor[s])
                 /\ w'.tag[s] = Tag(file.kind, s[2], file.tensor[s])
            ELSE w'.form[s] = w.form[s] /\ w'.tag[s] = w.tag[s]
      /\ w'.has_mla_quant =
           (w.has_mla_quant
            \/ (file.kind = "deepseek2"
                /\ \E r \in Turn \intersect Attn :
                      file.tensor[<<layer, r>>].type = "Q4_K"))
      /\ w'.embd = w.embd /\ w'.wcls = w.wcls /\ w'.ternary = w.ternary
      /\ w'.has_expert_quant = w.has_expert_quant
      /\ w'.w13 = w.w13 /\ w'.w2 = w.w2
  <2>1. w \in Weights
    BY DEF TypeOK
  <2>2. PICK S \in SUBSET Roles : S = Turn
    BY TurnRoles
  <2>3. /\ \A r \in S : Placed(file.kind, r, file.tensor[<<layer, r>>]) # {}
        /\ w' = LoadProjections(w, file, layer, S)
    BY <1>1, <2>2 DEF Placeable
  <2>4. QED
    BY <1>1, <2>1, <2>2, <2>3, TurnOfLoop, FileFacts
<1>3. \A s \in Slots : /\ s[1] \in Nat /\ s[1] \in Layers /\ s[2] \in Roles
                       /\ s = <<s[1], s[2]>>
  BY DEF Slots, Layers
<1>4. \A s \in Slots :
         Done(s)' <=> Done(s) \/ (s[1] = layer /\ s[2] \in Turn)
  <2> SUFFICES ASSUME NEW s \in Slots
               PROVE  Done(s)' <=> Done(s) \/ (s[1] = layer /\ s[2] \in Turn)
    OBVIOUS
  <2>1. s[1] < layer + 1 <=> s[1] < layer \/ s[1] = layer
    BY <1>1, <1>3 DEF Layers
  <2>2. CASE pc = "layers"
    BY <1>1, <2>1, <2>2, <1>3 DEF Done, Turn, RolesOf, Native, IsMoe,
       MoeLayer
  <2>3. CASE pc = "native_experts"
    <3>1. CASE Native(file.kind)
      BY <1>1, <2>1, <2>3, <3>1 DEF Done, Turn
    <3>2. QED
      BY <1>1, <2>1, <2>3, <3>1 DEF Done, Turn
  <2>4. QED
    BY <1>1, <2>2, <2>3
<1>5. pc = "native_experts" => FlagsSet
  BY DEF Contents, FlagSteps
<1>6. /\ \A s \in Slots : Filled(s)
      /\ w.has_mla_quant = (file.kind = "deepseek2" /\ SomeQ4)
      /\ w.ternary = Native(file.kind)
      /\ Tables
  BY <1>1 DEF Contents, BeforeLoop, Stored, Pointed, Configured, Opened,
     Leaves
<1>7. \A s \in Slots : Filled(s)'
  <2> SUFFICES ASSUME NEW s \in Slots PROVE Filled(s)'
    OBVIOUS
  <2>1. Filled(s)
    BY <1>6
  <2>2. pc # "layers" => file.kind # "qwen35"
    BY <1>1 DEF Contents, Native
  <2>3. CASE s[1] = layer /\ s[2] \in Turn
    BY <1>1, <1>2, <1>4, <2>2, <2>3 DEF Filled
  <2>4. CASE ~(s[1] = layer /\ s[2] \in Turn)
    BY <1>1, <1>2, <1>4, <2>1, <2>4 DEF Filled
  <2>5. QED
    BY <2>3, <2>4
<1>8. SomeQ4' <=> SomeQ4 \/ \E r \in Turn \intersect Attn :
                              file.tensor[<<layer, r>>].type = "Q4_K"
  <2>1. ASSUME NEW r \in Turn \intersect Attn,
               file.tensor[<<layer, r>>].type = "Q4_K"
        PROVE  SomeQ4'
    <3>1. <<layer, r>> \in Slots
      BY <1>1, TurnRoles DEF Slots
    <3>2. QED
      BY <1>1, <1>4, <2>1, <3>1 DEF SomeQ4
  <2>2. QED
    BY <1>1, <1>3, <1>4, <2>1 DEF SomeQ4
<1>9. Tables'
  BY <1>1, <1>2, <1>6 DEF Tables
<1>10. pc = "native_experts" => FlagsSet'
  BY <1>1, <1>2, <1>5 DEF FlagsSet, TypeAt
<1>11. QED
  BY <1>1, <1>2, <1>6, <1>7, <1>8, <1>9, <1>10
  DEF Contents, BeforeLoop, Stored, Pointed, Configured, Opened, Leaves,
      FlagSteps

(* The tables before the layers; no slot is filled yet.                    *)
LEMMA EmbeddingFills ==
  ASSUME TypeOK, Contents, LoadEmbedding, pc' \notin Leaves
  PROVE  Contents'
<1>1. /\ pc = "embedding" /\ pc' = "layers"
      /\ UNCHANGED <<file, layer>>
      /\ IF file.kind = "qwen35" THEN w' = w
         ELSE \E e \in PlacedEmbedding(file.kind, file.embd) :
                \E c \in IF ExpertQuant(file.kind)
                         THEN PlacedOutput(file)
                         ELSE {NoForm} :
                   w' = [w EXCEPT !.embd = e, !.wcls = c,
                                  !.ternary = Native(file.kind)]
  BY DEF LoadEmbedding, Goto, GivesUp, Fail, Leaves
<1>2. w = EmptyWeights /\ layer = 0 /\ w \in Weights
  BY <1>1, EmptyType DEF Contents, BeforeLoop
<1>3. /\ w'.tag = w.tag /\ w'.has_mla_quant = w.has_mla_quant
      /\ file.kind # "qwen35" => w'.ternary = Native(file.kind)
      /\ file.kind = "qwen35" => w'.ternary = w.ternary
      /\ file.kind # "qwen35" =>
            w'.embd \in PlacedEmbedding(file.kind, file.embd)
      /\ ExpertQuant(file.kind) =>
            w'.wcls \in PlacedOutput(file)
  <2>1. CASE file.kind = "qwen35"
    BY <1>1, <2>1 DEF ExpertQuant
  <2>2. CASE file.kind # "qwen35"
    <3>1. PICK e \in PlacedEmbedding(file.kind, file.embd),
               c \in IF ExpertQuant(file.kind)
                     THEN PlacedOutput(file) ELSE {NoForm} :
               w' = [w EXCEPT !.embd = e, !.wcls = c,
                              !.ternary = Native(file.kind)]
      BY <1>1, <2>2
    <3>2. QED
      BY <1>2, <2>2, <3>1 DEF Weights
  <2>3. QED
    BY <2>1, <2>2
<1>4. /\ w.ternary = FALSE /\ w.has_mla_quant = FALSE
      /\ \A s \in Slots : w.tag[s] = "F32"
  BY <1>2 DEF EmptyWeights
<1>5. \A s \in Slots : ~Done(s)'
  <2> SUFFICES ASSUME NEW s \in Slots PROVE ~Done(s)'
    OBVIOUS
  <2>1. s[1] \in Nat
    BY DEF Slots, Layers
  <2>2. pc' = "layers" /\ layer' = 0
    BY <1>1, <1>2
  <2>3. ~(s[1] < layer')
    BY <2>1, <2>2
  <2>4. QED
    BY <2>2, <2>3 DEF Done
<1>6. (\A s \in Slots : Filled(s)') /\ ~SomeQ4'
  BY <1>1, <1>3, <1>4, <1>5 DEF Filled, SomeQ4
<1>7. w'.ternary = Native(file.kind)
  <2>1. CASE file.kind = "qwen35"
    <3>1. Native(file.kind) = FALSE
      BY <2>1 DEF Native
    <3>2. w'.ternary = FALSE
      BY <1>3, <1>4, <2>1
    <3>3. QED
      BY <3>1, <3>2
  <2>2. QED
    BY <1>3, <2>1
<1>8. Tables'
  BY <1>1, <1>3 DEF Tables
<1>9. QED
  BY <1>1, <1>3, <1>4, <1>6, <1>7, <1>8
  DEF Contents, BeforeLoop, Stored, Pointed, Configured, Opened, FlagSteps

(* The end of the loaders: the flags and the tables that are left.         *)
LEMMA FinishFills ==
  ASSUME TypeOK, Contents, FinishWeights, pc' \notin Leaves
  PROVE  Contents'
<1> DEFINE n == SetFlags(w, file)
<1>1. /\ pc = "layers" /\ layer = NumLayers
      /\ pc' = IF file.kind = "native_moe" THEN "native_experts" ELSE "state"
      /\ file' = file /\ layer' = 0
      /\ \/ /\ Native(file.kind) \/ file.kind = "dense"
            /\ \E c \in PlacedOutput(file) :
                  w' = [n EXCEPT !.wcls = c]
         \/ /\ file.kind = "qwen35"
            /\ \E e \in PlacedEmbedding(file.kind, file.embd),
                  c \in PlacedOutput(file) :
                  w' = [n EXCEPT !.embd = e, !.wcls = c]
         \/ /\ ~Native(file.kind)
            /\ file.kind \notin {"dense", "qwen35"}
            /\ w' = n
  <2>1. ~GivesUp(WithWeights)
    BY DEF GivesUp, Fail, Leaves
  <2>2. pc = "layers" /\ layer = NumLayers
    BY DEF FinishWeights
  <2>3. QED
    BY <2>1, <2>2, FinishedWeights
<1>2. /\ n \in Weights
      /\ n.form = w.form /\ n.embd = w.embd /\ n.wcls = w.wcls
      /\ n.ternary = w.ternary /\ n.has_mla_quant = w.has_mla_quant
      /\ n.has_expert_quant = ExpertQuant(file.kind)
      /\ \A s \in Slots :
           n.tag[s] = IF file.kind = "qwen35" /\ s[2] \in Attn \union Ffn
                      THEN "Q2_0" ELSE w.tag[s]
      /\ ExpertQuant(file.kind) /\ file.first < NumLayers =>
           /\ n.w13 = TypeAt(file, file.first, "gate")
           /\ n.w2 = TypeAt(file, file.first, "down")
  <2>1. w \in Weights
    BY DEF TypeOK
  <2>2. QED
    BY <2>1, Flags, FileFacts
<1> HIDE DEF n
<1>3. /\ w'.form = n.form /\ w'.tag = n.tag /\ w'.ternary = n.ternary
      /\ w'.has_mla_quant = n.has_mla_quant
      /\ w'.has_expert_quant = n.has_expert_quant
      /\ w'.w13 = n.w13 /\ w'.w2 = n.w2
      /\ IF file.kind = "qwen35"
         THEN w'.embd \in PlacedEmbedding(file.kind, file.embd)
         ELSE w'.embd = n.embd
      /\ IF ExpertQuant(file.kind) THEN w'.wcls = n.wcls
         ELSE w'.wcls \in PlacedOutput(file)
  <2>1. CASE file.kind = "qwen35"
    BY <1>1, <1>2, <2>1 DEF Weights, ExpertQuant, Native
  <2>2. CASE Native(file.kind) \/ file.kind = "dense"
    BY <1>1, <1>2, <2>2 DEF Weights, ExpertQuant, Native
  <2>3. CASE ~Native(file.kind) /\ file.kind \notin {"dense", "qwen35"}
    <3>1. ExpertQuant(file.kind)
      BY <2>3, FileFacts DEF ExpertQuant, Kinds, Native
    <3>2. QED
      BY <1>1, <2>3, <3>1
  <2>4. QED
    BY <2>1, <2>2, <2>3
<1>4. /\ \A s \in Slots : Filled(s)
      /\ w.has_mla_quant = (file.kind = "deepseek2" /\ SomeQ4)
      /\ w.ternary = Native(file.kind)
      /\ Tables
  BY <1>1 DEF Contents, BeforeLoop, Stored, Pointed, Configured, Opened,
     Leaves
<1>5. \A s \in Slots : Done(s)' <=> Done(s)
  <2> SUFFICES ASSUME NEW s \in Slots PROVE Done(s)' <=> Done(s)
    OBVIOUS
  <2>1. s[1] \in Nat /\ s[1] < NumLayers /\ ~(s[1] < 0)
    BY DEF Slots, Layers
  <2>2. s[2] \in RolesOf(file.kind, file.first, s[1]) =>
          (file.kind = "native" => s[2] \in Attn \union Ffn)
    BY DEF RolesOf, MoeLayer, IsMoe
  <2>3. QED
    BY <1>1, <2>1, <2>2 DEF Done, Native
<1>6. \A s \in Slots : Filled(s)'
  <2> SUFFICES ASSUME NEW s \in Slots PROVE Filled(s)'
    OBVIOUS
  <2>1. Filled(s)
    BY <1>4
  <2>2. CASE file.kind = "qwen35"
    <3>1. Done(s) => s[2] \in Attn \union Ffn
      BY <2>2 DEF Done, RolesOf, MoeLayer, IsMoe
    <3>2. QED
      BY <1>1, <1>2, <1>3, <1>5, <2>1, <2>2, <3>1 DEF Filled
  <2>3. CASE file.kind # "qwen35"
    BY <1>1, <1>2, <1>3, <1>5, <2>1, <2>3 DEF Filled
  <2>4. QED
    BY <2>2, <2>3
<1>7. SomeQ4' <=> SomeQ4
  BY <1>1, <1>5 DEF SomeQ4
<1>8. Tables'
  BY <1>1, <1>2, <1>3, <1>4 DEF Tables
<1>9. FlagsSet'
  BY <1>1, <1>2, <1>3 DEF FlagsSet, TypeAt
<1>10. QED
  BY <1>1, <1>2, <1>3, <1>4, <1>6, <1>7, <1>8, <1>9
  DEF Contents, BeforeLoop, Stored, Pointed, Configured, Opened, FlagSteps,
      Native

(* The other steps leave the weights as they are.                          *)
LEMMA ContentsNext ==
  ASSUME TypeOK, Contents, [Next]_vars
  PROVE  Contents'
<1> SUFFICES ASSUME pc' \notin Leaves
             PROVE  Contents'
  BY DEF Contents, BeforeLoop, Stored, Pointed, Configured, Opened, Leaves,
     FlagSteps
<1> USE DEF Goto, Fail, GivesUp
<1>1. CASE LoadEmbedding \/ LoadLayer \/ FinishWeights
  BY <1>1, EmbeddingFills, TurnFills, FinishFills
<1>2. CASE Opening \/ AllocStore
  <2>1. /\ pc \in Stored /\ pc' \in BeforeLoop
        /\ UNCHANGED <<w, layer>>
    BY <1>2 DEF Opening, CreatePool, MapFile, ReadHeader, ReadConfig,
       ReadMoeConfig, AllocPointers, AllocExperts, AllocStore, Stored,
       Pointed, Configured, Opened, BeforeLoop, Leaves
  <2>2. QED
    BY <2>1 DEF Contents, BeforeLoop, FlagSteps, Stored, Pointed, Configured,
       Opened
<1>3. CASE ExpertsMapped \/ Preparing \/ UNCHANGED vars
  <2>1. /\ UNCHANGED <<file, w>>
        /\ \/ pc = "native_experts" /\ layer = NumLayers /\ pc' = "state"
           \/ /\ pc \in FlagSteps \ {"native_experts"}
              /\ pc' \in FlagSteps \ {"native_experts"}
           \/ UNCHANGED <<pc, layer>>
    BY <1>3 DEF ExpertsMapped, Preparing, AllocState, AllocBuffers,
       AllocFamily, LoadTokenizer, OpenMemory, vars, FlagSteps, Leaves
  <2>2. CASE UNCHANGED <<pc, layer>>
    BY <2>1, <2>2 DEF Contents, Filled, Done, SomeQ4, Tables, FlagsSet, TypeAt
  <2>3. CASE ~UNCHANGED <<pc, layer>>
    <3>1. pc \in FlagSteps /\ pc' \in FlagSteps \ {"native_experts"}
      BY <2>1, <2>3 DEF FlagSteps
    <3>2. \A s \in Slots : Done(s)' <=> Done(s)
      <4>1. \A s \in Slots : s[1] \in Nat /\ s[1] < NumLayers
        BY DEF Slots, Layers
      <4>2. QED
        BY <2>1, <2>3, <4>1 DEF Done, FlagSteps
    <3>3. /\ \A s \in Slots : Filled(s)
          /\ w.has_mla_quant = (file.kind = "deepseek2" /\ SomeQ4)
          /\ w.ternary = Native(file.kind)
          /\ Tables /\ FlagsSet
      BY <3>1 DEF Contents, BeforeLoop, Stored, Pointed, Configured, Opened,
         Leaves, FlagSteps
    <3>4. pc # "layers" /\ pc' # "layers"
      BY <3>1 DEF FlagSteps
    <3>5. /\ \A s \in Slots : Filled(s)'
          /\ SomeQ4' <=> SomeQ4
          /\ Tables' /\ FlagsSet'
      BY <2>1, <3>2, <3>3, <3>4 DEF Filled, SomeQ4, Tables, FlagsSet, TypeAt
    <3>6. QED
      BY <2>1, <3>1, <3>3, <3>5 DEF Contents, BeforeLoop, Stored, Pointed,
         Configured, Opened, FlagSteps
  <2>4. QED
    BY <2>2, <2>3
<1>4. CASE Leaving
  BY <1>4 DEF Leaving, Finish, Release, Exit, Leaves
<1>5. QED
  BY <1>1, <1>2, <1>3, <1>4 DEF Next, Loading

LEMMA ContentsInit == Init => Contents
BY DEF Init, Contents, BeforeLoop, Stored, Pointed, Configured, Opened,
   Leaves, FlagSteps

LEMMA ContentsHolds == Spec => [](TypeOK /\ Contents)
<1>1. Init => TypeOK /\ Contents
  BY FilesAssumption, EmptyType, Lists, ContentsInit
  DEF Init, TypeOK, Steps, Resources, Kept
<1>2. TypeOK /\ Contents /\ [Next]_vars => (TypeOK /\ Contents)'
  BY TypeStep, ContentsNext
<1>3. QED
  BY <1>1, <1>2, PTL DEF Spec

-----------------------------------------------------------------------------
(* What the kernels read of it.                                            *)

\* The running engine, slot by slot.
Ready ==
    /\ \A s \in Slots :
          IF s[2] \in RolesOf(file.kind, file.first, s[1])
          THEN /\ w.form[s] \in Placed(file.kind, s[2], file.tensor[s])
               /\ w.tag[s] = IF file.kind = "qwen35" THEN "Q2_0"
                             ELSE Tag(file.kind, s[2], file.tensor[s])
          ELSE file.kind # "qwen35" => w.tag[s] = "F32"
    /\ w.has_mla_quant <=>
          /\ file.kind = "deepseek2"
          /\ \E s \in Slots : /\ s[2] \in Attn
                             /\ TypeAt(file, s[1], s[2]) = "Q4_K"
    /\ w.ternary <=> Native(file.kind)
    /\ w.embd \in PlacedEmbedding(file.kind, file.embd)
    /\ w.wcls \in PlacedOutput(file)
    /\ w.has_expert_quant <=> ExpertQuant(file.kind)
    /\ ExpertQuant(file.kind) /\ file.first < NumLayers =>
         /\ w.w13 = TypeAt(file, file.first, "gate")
         /\ w.w2 = TypeAt(file, file.first, "down")

LEMMA RunningReady ==
  ASSUME TypeOK, Contents, pc = "running"
  PROVE  Ready
<1>1. /\ \A s \in Slots : Filled(s)
      /\ w.has_mla_quant = (file.kind = "deepseek2" /\ SomeQ4)
      /\ w.ternary = Native(file.kind)
      /\ Tables /\ FlagsSet
  BY DEF Contents, BeforeLoop, Stored, Pointed, Configured, Opened, Leaves,
     FlagSteps
<1>2. \A s \in Slots :
        Done(s) <=> s[2] \in RolesOf(file.kind, file.first, s[1])
  BY DEF Done
<1>3. SomeQ4 <=> \E s \in Slots :
                    s[2] \in Attn /\ TypeAt(file, s[1], s[2]) = "Q4_K"
  <2>1. \A s \in Slots : s = <<s[1], s[2]>>
    BY DEF Slots
  <2>2. \A s \in Slots : s[2] \in Attn => Done(s)
    BY <1>2 DEF RolesOf
  <2>3. QED
    BY <2>1, <2>2 DEF SomeQ4, TypeAt
<1>4. QED
  BY <1>1, <1>2, <1>3 DEF Ready, Filled, Tables, FlagsSet

(* A slot of a running engine: its tensor, its form, its tag.              *)
LEMMA SlotReady ==
  ASSUME TypeOK, Ready, NEW l \in Layers,
         NEW r \in RolesOf(file.kind, file.first, l)
  PROVE  /\ r \in Roles /\ <<l, r>> \in Slots
         /\ file.tensor[<<l, r>>] \in Tensors
         /\ w.form[<<l, r>>] \in Placed(file.kind, r, file.tensor[<<l, r>>])
         /\ w.tag[<<l, r>>] = IF file.kind = "qwen35" THEN "Q2_0"
                              ELSE Tag(file.kind, r, file.tensor[<<l, r>>])
<1>1. r \in Roles
  BY DEF RolesOf, Roles
<1>2. <<l, r>> \in Slots
  BY <1>1 DEF Slots
<1>3. file.tensor[<<l, r>>] \in Tensors
  BY <1>2, FileFacts
<1>4. QED
  BY <1>1, <1>2, <1>3 DEF Ready

(* The tag names the form a loader stored.                                 *)
LEMMA TagOf ==
  ASSUME NEW kind \in Kinds, NEW role \in Roles, NEW t \in Tensors,
         NEW f \in Placed(kind, role, t),
         kind = "dense" \/ (kind = "qwen3moe" /\ role \in Attn)
  PROVE  /\ Tag(kind, role, t) = f.as
         /\ f.as \in {"F16", "F32", "Q4_K", "Q4_K_X8"}
<1>1. CASE kind = "dense"
  <2>1. f \in Generic(t)
    BY <1>1 DEF Placed, Native
  <2>2. PICK c : c = Only(Generic(t))
    OBVIOUS
  <2>3. c \in Generic(t)
    BY <2>1, <2>2, OnlyOne
  <2>4. c = f
    BY <2>1, <2>3 DEF Generic, AsF32
  <2>5. Tag(kind, role, t) = c.as
    BY <1>1, <2>2 DEF Tag, ExpertQuant
  <2>6. f.as \in {"F16", "F32", "Q4_K", "Q4_K_X8"}
    BY <2>1 DEF Generic, AsF32, OnHeap, Mapped
  <2>7. QED
    BY <2>4, <2>5, <2>6
<1>2. CASE kind = "qwen3moe" /\ role \in Attn
  <2>1. f \in Plain(t)
    BY <1>2 DEF Placed, Native, Attn, Routed, Shared, Ffn
  <2>2. PICK c : c = Only(Plain(t))
    OBVIOUS
  <2>3. c \in Plain(t)
    BY <2>1, <2>2, OnlyOne
  <2>4. c = f
    BY <2>1, <2>3 DEF Plain, AsF32
  <2>5. Tag(kind, role, t) = c.as
    BY <1>2, <2>2 DEF Tag, ExpertQuant, Attn, Shared
  <2>6. f.as \in {"F16", "F32"}
    BY <2>1 DEF Plain, AsF32, OnHeap, Mapped
  <2>7. QED
    BY <2>4, <2>5, <2>6
<1>3. QED
  BY <1>1, <1>2

(* The projections the tags alone decide.                                  *)
LEMMA DenseReads ==
  ASSUME TypeOK, Ready, NEW l \in Layers,
         NEW r \in RolesOf(file.kind, file.first, l), r \in Attn \union Ffn,
         ~(file.kind = "deepseek2" /\ r \in Attn)
  PROVE  Reads(w, file.kind, l, r) = w.form[<<l, r>>].as
<1> DEFINE t == file.tensor[<<l, r>>]
           f == w.form[<<l, r>>]
           g == w.tag[<<l, r>>]
<1>1. /\ t \in Tensors /\ f \in Placed(file.kind, r, t)
      /\ g = IF file.kind = "qwen35" THEN "Q2_0" ELSE Tag(file.kind, r, t)
  BY SlotReady
<1>2. Reads(w, file.kind, l, r) =
        IF file.kind = "qwen35" /\ r \in Attn THEN "Q2_0"
        ELSE IF w.ternary THEN "ternary" ELSE Dispatch(g)
  BY DEF Reads, Attn, Ffn, Routed, Shared
<1>3. w.ternary <=> Native(file.kind)
  BY DEF Ready
<1> SUFFICES Reads(w, file.kind, l, r) = f.as
  OBVIOUS
<1> HIDE DEF t, f, g
<1>4. CASE Native(file.kind)
  BY <1>1, <1>2, <1>3, <1>4 DEF Placed, Mapped, Native
<1>5. CASE file.kind = "qwen35"
  BY <1>1, <1>2, <1>3, <1>5 DEF Placed, Mapped, Native, OnlyQ2, Dispatch
<1>6. CASE file.kind = "dense" \/ (file.kind = "qwen3moe" /\ r \in Attn)
  <2>1. g = f.as /\ f.as \in {"F16", "F32", "Q4_K", "Q4_K_X8"}
    <3>1. r \in Roles /\ file.kind \in Kinds
      BY FileFacts, SlotReady
    <3>2. QED
      BY <1>1, <1>6, <3>1, TagOf
  <2>2. QED
    BY <1>2, <1>3, <1>6, <2>1 DEF Dispatch, Native
<1>8. CASE ExpertQuant(file.kind) /\ r \in Ffn
  <2>1. f \in AsF32(t) /\ g = "F32"
    BY <1>1, <1>8 DEF Placed, Native, Tag, Attn, Routed, Shared, Ffn,
       ExpertQuant
  <2>2. f.as = "F32"
    BY <2>1 DEF AsF32, OnHeap
  <2>3. QED
    BY <1>2, <1>3, <1>8, <2>1, <2>2 DEF Dispatch, Native, ExpertQuant, Attn,
       Ffn
<1>9. QED
  BY <1>4, <1>5, <1>6, <1>8, FileFacts DEF Kinds, Native, ExpertQuant

(* The MLA projections: the flag of the model decides.                     *)
LEMMA MlaRead ==
  ASSUME TypeOK, Ready, MlaUniform(file), file.kind = "deepseek2",
         NEW l \in Layers, NEW r \in Attn
  PROVE  Reads(w, file.kind, l, r) = w.form[<<l, r>>].as
<1> DEFINE t == file.tensor[<<l, r>>]
           f == w.form[<<l, r>>]
           q4 == {s \in Layers \X Attn : file.tensor[s].type = "Q4_K"}
<1>1. r \in RolesOf(file.kind, file.first, l)
  BY DEF RolesOf
<1>2. t \in Tensors /\ f \in RawQ4K(t)
  <2>1. t \in Tensors /\ f \in Placed(file.kind, r, t)
    BY <1>1, SlotReady
  <2>2. QED
    BY <2>1 DEF Placed, Native, Attn, Routed, Shared, Ffn
<1>3. Reads(w, file.kind, l, r) = MlaReads(w)
  BY DEF Reads, Attn, Ffn, Routed, Shared
<1>4. ~w.ternary
  BY DEF Ready, Native
<1>5. <<l, r>> \in Layers \X Attn
  OBVIOUS
<1>6. w.has_mla_quant <=> \E s \in Slots :
                             s[2] \in Attn /\ TypeAt(file, s[1], s[2]) = "Q4_K"
  BY DEF Ready
<1>7. Layers \X Attn \subseteq Slots
  BY DEF Slots, Roles
<1> SUFFICES Reads(w, file.kind, l, r) = f.as
  OBVIOUS
<1>8. CASE q4 = {}
  <2>1. t.type # "Q4_K"
    BY <1>5, <1>8
  <2>2. ~w.has_mla_quant
    <3>1. \A s \in Slots : s[2] \in Attn => s \in Layers \X Attn
                                      /\ s = <<s[1], s[2]>>
      BY DEF Slots
    <3>2. QED
      BY <1>6, <1>8, <3>1 DEF TypeAt
  <2> HIDE DEF t, f, q4
  <2>3. f.as = "F32"
    BY <1>2, <2>1 DEF RawQ4K, AsF32, OnHeap
  <2>4. QED
    BY <1>3, <1>4, <2>2, <2>3 DEF MlaReads
<1>9. CASE q4 = Layers \X Attn
  <2>1. t.type = "Q4_K"
    BY <1>5, <1>9
  <2>2. w.has_mla_quant
    <3>1. <<l, r>> \in Slots /\ TypeAt(file, l, r) = "Q4_K"
      BY <1>5, <1>7, <2>1 DEF TypeAt
    <3>2. QED
      BY <1>6, <3>1
  <2> HIDE DEF t, f, q4
  <2>3. f.as = "Q4_K"
    BY <1>2, <2>1 DEF RawQ4K, OnHeap
  <2>4. QED
    BY <1>3, <2>2, <2>3 DEF MlaReads
<1>10. QED
  BY <1>8, <1>9 DEF MlaUniform

(* What is known of the experts of a layer.                                *)
LEMMA RoutedFacts ==
  ASSUME TypeOK, Ready, ExpertQuant(file.kind), NEW l \in Layers,
         MoeLayer(file.kind, file.first, l), NEW r \in Routed
  PROVE  /\ w.form[<<l, r>>].as = TypeAt(file, l, r)
         /\ TypeAt(file, l, r) \in GgufTypes
         /\ file.first \in Layers
         /\ MoeLayer(file.kind, file.first, file.first)
         /\ Reads(w, file.kind, l, r) =
              IF r = "down"
              THEN ExpertRead(OrGlobal(TypeAt(file, l, "down"), w.w2))
              ELSE IF w.w13 = "Q4_K" THEN "Q4_K"
              ELSE ExpertRead(OrGlobal(TypeAt(file, l, "gate"), w.w13))
         /\ w.w13 = TypeAt(file, file.first, "gate")
         /\ w.w2 = TypeAt(file, file.first, "down")
<1> DEFINE t(x) == file.tensor[<<l, x>>]
           f == w.form[<<l, r>>]
<1>1. /\ Routed \subseteq RolesOf(file.kind, file.first, l)
      /\ "gate" \in Routed /\ "down" \in Routed
  BY DEF RolesOf, Routed
<1>2. t(r) \in Tensors
  BY <1>1, SlotReady
<1>3. f \in Sliced(t(r))
  <2>1. f \in Placed(file.kind, r, t(r))
    BY <1>1, SlotReady
  <2>2. QED
    BY <2>1 DEF Placed, ExpertQuant, Native, Routed, Attn, Shared, Ffn
<1>4. w.tag[<<l, "gate">>] = t("gate").type
      /\ w.tag[<<l, "down">>] = t("down").type
  <2>1. \A x \in {"gate", "down"} : Tag(file.kind, x, t(x)) = t(x).type
    BY DEF Tag, ExpertQuant, Attn
  <2>2. file.kind # "qwen35"
    BY DEF ExpertQuant
  <2>3. \A x \in Routed : w.tag[<<l, x>>] = Tag(file.kind, x, t(x))
    BY <1>1, <2>2, SlotReady
  <2>4. QED
    BY <1>1, <2>1, <2>3
<1>5. /\ file.first < NumLayers /\ file.first \in Layers
      /\ MoeLayer(file.kind, file.first, file.first)
  BY FileFacts DEF MoeLayer, Layers
<1>6. /\ w.has_expert_quant
      /\ w.w13 = TypeAt(file, file.first, "gate")
      /\ w.w2 = TypeAt(file, file.first, "down")
  BY <1>5 DEF Ready
<1>7. Reads(w, file.kind, l, r) = RoutedReads(w, l, r)
  BY DEF Reads, Routed, Attn, Ffn, Shared
<1>8. RoutedReads(w, l, r) =
        IF r = "down" THEN ExpertRead(OrGlobal(t("down").type, w.w2))
        ELSE IF w.w13 = "Q4_K" THEN "Q4_K"
        ELSE ExpertRead(OrGlobal(t("gate").type, w.w13))
  BY <1>4, <1>6 DEF RoutedReads
<1>9. f.as = t(r).type /\ t(r).type \in GgufTypes
  BY <1>2, <1>3 DEF Sliced, Mapped, Tensors
<1>10. QED
  BY <1>5, <1>6, <1>7, <1>8, <1>9 DEF TypeAt

(* The experts: the tag of the layer, or the flag of the model.            *)
LEMMA RoutedRead ==
  ASSUME TypeOK, Ready, RoutedUniform(file), ExpertQuant(file.kind),
         NEW l \in Layers, MoeLayer(file.kind, file.first, l),
         NEW r \in Routed
  PROVE  Reads(w, file.kind, l, r) = w.form[<<l, r>>].as
<1> DEFINE g == TypeAt(file, l, "gate")
           d == TypeAt(file, l, "down")
           t == TypeAt(file, l, r)
<1>1. /\ w.form[<<l, r>>].as = t
      /\ Reads(w, file.kind, l, r) =
           IF r = "down" THEN ExpertRead(OrGlobal(d, w.w2))
           ELSE IF w.w13 = "Q4_K" THEN "Q4_K"
           ELSE ExpertRead(OrGlobal(g, w.w13))
      /\ w.w13 = TypeAt(file, file.first, "gate")
      /\ w.w2 = TypeAt(file, file.first, "down")
  BY RoutedFacts
<1>2. /\ TypeAt(file, l, "up") = g
      /\ w.w13 = "Q4_K" => g = "Q4_K"
      /\ g \in ExpertKernels \/ (g = "F32" /\ w.w13 = "F32")
      /\ d \in ExpertKernels \/ (d = "F32" /\ w.w2 = "F32")
  <2>1. l \in MoeLayers(file)
    BY DEF MoeLayers
  <2>2. QED
    BY <1>1, <2>1 DEF RoutedUniform
<1>3. "F32" \notin ExpertKernels /\ "Q4_K" \in ExpertKernels
  BY DEF ExpertKernels
<1>4. t = IF r = "down" THEN d ELSE g
  BY <1>2 DEF Routed
<1> HIDE DEF g, d, t
<1>5. QED
  BY <1>1, <1>2, <1>3, <1>4 DEF ExpertRead, OrGlobal

(* The router and the shared experts.                                      *)
LEMMA SharedRead ==
  ASSUME TypeOK, Ready, ExpertQuant(file.kind), NEW l \in Layers,
         NEW r \in RolesOf(file.kind, file.first, l),
         r \in Shared \union {"router"}
  PROVE  /\ Reads(w, file.kind, l, r) = w.form[<<l, r>>].as
         /\ r \in Shared =>
              w.tag[<<l, r>>] = file.tensor[<<l, r>>].type
<1> DEFINE t == file.tensor[<<l, r>>]
           f == w.form[<<l, r>>]
           g == w.tag[<<l, r>>]
<1>1. /\ t \in Tensors /\ f \in Placed(file.kind, r, t)
      /\ g = Tag(file.kind, r, t)
  BY SlotReady DEF ExpertQuant
<1>2. CASE r = "router"
  <2> SUFFICES Reads(w, file.kind, l, r) = f.as
    BY <1>2 DEF Shared
  <2>1. Reads(w, file.kind, l, r) = "F32"
    BY <1>2 DEF Reads, Routed, Shared, Attn, Ffn
  <2> HIDE DEF t, f, g
  <2>2. f \in RouterF32(t)
    BY <1>1, <1>2 DEF Placed, ExpertQuant, Native, Routed, Shared, Attn, Ffn
  <2>3. QED
    BY <2>1, <2>2 DEF RouterF32, Mapped
<1>3. CASE r \in Shared
  <2> SUFFICES Reads(w, file.kind, l, r) = f.as /\ g = t.type
    OBVIOUS
  <2>1. Reads(w, file.kind, l, r) = IF g = "Q4_K" THEN "Q4_K" ELSE "F32"
    BY <1>3 DEF Reads, Routed, Shared, Attn, Ffn
  <2> HIDE DEF t, f, g
  <2>2. f \in RawQ4K(t)
    BY <1>1, <1>3 DEF Placed, ExpertQuant, Native, Routed, Shared, Attn, Ffn
  <2>3. g = t.type
    BY <1>1, <1>3 DEF Tag, ExpertQuant, Attn, Shared
  <2>4. f.as = IF t.type = "Q4_K" THEN "Q4_K" ELSE "F32"
    BY <2>2 DEF RawQ4K, AsF32, OnHeap
  <2>5. QED
    BY <2>1, <2>3, <2>4
<1>4. QED
  BY <1>2, <1>3

(* The tables.                                                             *)
LEMMA TablesRead ==
  ASSUME TypeOK, Ready
  PROVE  /\ EmbeddingReads(w, file.kind) = w.embd.as
         /\ ClassifierReads(w, file.kind) = w.wcls.as
<1>1. /\ w.embd \in PlacedEmbedding(file.kind, file.embd)
      /\ w.wcls \in PlacedOutput(file)
  BY DEF Ready
<1>2. EmbeddingReads(w, file.kind) = w.embd.as
  BY <1>1 DEF PlacedEmbedding, EmbeddingReads, OnlyQ2, Mapped, OnHeap, Native
<1>3. ClassifierReads(w, file.kind) = w.wcls.as
  BY <1>1 DEF PlacedOutput, ClassifierReads, Mapped, OnHeap, Native
<1>4. QED
  BY <1>2, <1>3

(* The activations the kernels of a layer share.                           *)
LEMMA Fresh ==
  ASSUME TypeOK, Ready, SharedUniform(file), NEW l \in Layers
  PROVE  FreshActivations(w, file.kind, l)
<1> SUFFICES ASSUME file.kind = "deepseek2", w.tag[<<l, "sh3">>] = "Q4_K"
             PROVE  w.w13 = "Q4_K" \/ w.tag[<<l, "sh1">>] = "Q4_K"
  BY DEF FreshActivations
<1>1. <<l, "sh3">> \in Slots
  BY DEF Slots, Roles, Shared
<1>2. "sh3" \in RolesOf(file.kind, file.first, l)
  <2> SUFFICES ASSUME "sh3" \notin RolesOf(file.kind, file.first, l)
               PROVE  w.tag[<<l, "sh3">>] = "F32"
    OBVIOUS
  <2>1. \A s \in Slots :
           s[2] \notin RolesOf(file.kind, file.first, s[1]) => w.tag[s] = "F32"
    BY DEF Ready
  <2>2. QED
    BY <1>1, <2>1
<1>3. MoeLayer(file.kind, file.first, l)
  BY <1>2 DEF RolesOf, Attn, Ffn
<1>4. "sh1" \in RolesOf(file.kind, file.first, l)
  BY <1>3 DEF RolesOf, Shared
<1>5. /\ w.tag[<<l, "sh3">>] = file.tensor[<<l, "sh3">>].type
      /\ w.tag[<<l, "sh1">>] = file.tensor[<<l, "sh1">>].type
  BY <1>2, <1>4, SharedRead DEF ExpertQuant, Shared
<1>6. w.w13 = TypeAt(file, file.first, "gate")
  <2>1. file.first < NumLayers
    BY <1>3, FileFacts DEF MoeLayer, Layers
  <2>2. QED
    BY <2>1 DEF Ready, ExpertQuant
<1>7. l \in MoeLayers(file)
  BY <1>3 DEF MoeLayers
<1>8. QED
  BY <1>5, <1>6, <1>7 DEF SharedUniform, TypeAt

(* A file the tags and the flags can describe is read as it was stored, by *)
(* every kernel: the loaders of gguf_loader.c and the kernels of           *)
(* src/transformer agree, for every number of layers.                      *)
THEOREM FormatsAgree == Spec => []ReadsAsStored
<1>1. TypeOK /\ Contents => ReadsAsStored
  <2> SUFFICES ASSUME TypeOK, Contents, pc = "running", Uniform(file)
               PROVE  Understood
    BY DEF ReadsAsStored
  <2>1. Ready
    BY RunningReady
  <2>2. ASSUME NEW l \in Layers,
               NEW r \in RolesOf(file.kind, file.first, l)
        PROVE  Reads(w, file.kind, l, r) = w.form[<<l, r>>].as
    <3>1. \/ r \in Attn \/ r \in Ffn
          \/ /\ MoeLayer(file.kind, file.first, l)
             /\ r \in Routed \union Shared \union {"router"}
      BY DEF RolesOf
    <3>2. CASE r \in Attn /\ file.kind = "deepseek2"
      BY <2>1, <3>2, MlaRead DEF Uniform
    <3>3. CASE r \in Attn \union Ffn
                 /\ ~(file.kind = "deepseek2" /\ r \in Attn)
      BY <2>1, <3>3, DenseReads
    <3>4. CASE /\ MoeLayer(file.kind, file.first, l)
               /\ r \in Routed \union Shared \union {"router"}
      <4>1. ExpertQuant(file.kind)
        <5>1. l \in MoeLayers(file)
          BY <3>4 DEF MoeLayers
        <5>2. file.kind # "native_moe"
          BY <5>1 DEF Uniform, NoNativeExperts
        <5>3. QED
          BY <3>4, <5>2 DEF MoeLayer, IsMoe, ExpertQuant
      <4>2. CASE r \in Routed
        BY <2>1, <3>4, <4>1, <4>2, RoutedRead DEF Uniform
      <4>3. CASE r \in Shared \union {"router"}
        BY <2>1, <4>1, <4>3, SharedRead
      <4>4. QED
        BY <3>4, <4>2, <4>3
    <3>5. QED
      BY <3>1, <3>2, <3>3, <3>4
  <2>3. \A l \in Layers : FreshActivations(w, file.kind, l)
    BY <2>1, Fresh DEF Uniform
  <2>4. QED
    BY <2>1, <2>2, <2>3, TablesRead DEF Understood
<1>2. QED
  BY <1>1, ContentsHolds, PTL

(* The experts of a layer that is read as it was stored.                   *)
LEMMA RoutedNeeds ==
  ASSUME TypeOK, Ready, Understood, ExpertQuant(file.kind)
  PROVE  RoutedUniform(file)
<1> DEFINE g(l) == TypeAt(file, l, "gate")
           d(l) == TypeAt(file, l, "down")
<1>1. ASSUME NEW l \in Layers, MoeLayer(file.kind, file.first, l)
      PROVE  /\ TypeAt(file, l, "up") = g(l)
             /\ file.first \in Layers
             /\ MoeLayer(file.kind, file.first, file.first)
             /\ w.w13 = g(file.first) /\ w.w2 = d(file.first)
             /\ d(l) = ExpertRead(OrGlobal(d(l), w.w2))
             /\ g(l) = IF w.w13 = "Q4_K" THEN "Q4_K"
                       ELSE ExpertRead(OrGlobal(g(l), w.w13))
  <2>1. \A r \in Routed : r \in RolesOf(file.kind, file.first, l)
    BY <1>1 DEF RolesOf
  <2>2. \A r \in Routed : Reads(w, file.kind, l, r) = w.form[<<l, r>>].as
    BY <2>1 DEF Understood
  <2>3. \A r \in Routed :
          TypeAt(file, l, r) =
            IF r = "down" THEN ExpertRead(OrGlobal(d(l), w.w2))
            ELSE IF w.w13 = "Q4_K" THEN "Q4_K"
            ELSE ExpertRead(OrGlobal(g(l), w.w13))
    <3> SUFFICES ASSUME NEW r \in Routed
                 PROVE  TypeAt(file, l, r) =
                          IF r = "down" THEN ExpertRead(OrGlobal(d(l), w.w2))
                          ELSE IF w.w13 = "Q4_K" THEN "Q4_K"
                          ELSE ExpertRead(OrGlobal(g(l), w.w13))
      OBVIOUS
    <3>1. Reads(w, file.kind, l, r) = w.form[<<l, r>>].as
      BY <2>2
    <3>2. /\ w.form[<<l, r>>].as = TypeAt(file, l, r)
          /\ Reads(w, file.kind, l, r) =
               IF r = "down" THEN ExpertRead(OrGlobal(d(l), w.w2))
               ELSE IF w.w13 = "Q4_K" THEN "Q4_K"
               ELSE ExpertRead(OrGlobal(g(l), w.w13))
      BY <1>1, RoutedFacts
    <3>3. QED
      BY <3>1, <3>2
  <2>4. "gate" \in Routed /\ "up" \in Routed /\ "down" \in Routed
    BY DEF Routed
  <2>5. /\ file.first \in Layers
        /\ MoeLayer(file.kind, file.first, file.first)
        /\ w.w13 = g(file.first) /\ w.w2 = d(file.first)
    BY <1>1, <2>4, RoutedFacts
  <2>6. QED
    BY <2>3, <2>4, <2>5
<1>2. "F32" \notin ExpertKernels /\ "Q4_K" \in ExpertKernels
  BY DEF ExpertKernels
<1> SUFFICES ASSUME NEW l \in Layers, MoeLayer(file.kind, file.first, l)
             PROVE  /\ TypeAt(file, l, "up") = g(l)
                    /\ g(file.first) = "Q4_K" => g(l) = "Q4_K"
                    /\ \/ g(l) \in ExpertKernels
                       \/ g(l) = "F32" /\ g(file.first) = "F32"
                    /\ \/ d(l) \in ExpertKernels
                       \/ d(l) = "F32" /\ d(file.first) = "F32"
  BY DEF RoutedUniform, MoeLayers
<1> HIDE DEF g, d
<1>3. /\ d(l) = ExpertRead(OrGlobal(d(l), d(file.first)))
      /\ d(file.first) =
            ExpertRead(OrGlobal(d(file.first), d(file.first)))
  BY <1>1
<1>4. d(l) \in ExpertKernels \/ (d(l) = "F32" /\ d(file.first) = "F32")
  BY <1>2, <1>3 DEF ExpertRead, OrGlobal
<1>5. /\ g(l) = IF g(file.first) = "Q4_K" THEN "Q4_K"
                ELSE ExpertRead(OrGlobal(g(l), g(file.first)))
      /\ g(file.first) = IF g(file.first) = "Q4_K" THEN "Q4_K"
                ELSE ExpertRead(OrGlobal(g(file.first), g(file.first)))
      /\ TypeAt(file, l, "up") = g(l)
  BY <1>1
<1>6. g(l) \in ExpertKernels \/ (g(l) = "F32" /\ g(file.first) = "F32")
  BY <1>2, <1>5 DEF ExpertRead, OrGlobal
<1>7. QED
  BY <1>4, <1>5, <1>6

(* And the condition is exact: a running engine that reads every tensor as *)
(* it was stored runs a file the tags and the flags can describe.          *)
THEOREM MisreadOtherwise == Spec => []MixturesAreMisread
<1>1. TypeOK /\ Contents => MixturesAreMisread
  <2> SUFFICES ASSUME TypeOK, Contents, pc = "running", Understood
               PROVE  Uniform(file)
    BY DEF MixturesAreMisread
  <2>1. Ready
    BY RunningReady
  <2>2. MlaUniform(file)
    <3> SUFFICES ASSUME file.kind = "deepseek2",
                        NEW s \in Layers \X Attn, NEW z \in Layers \X Attn,
                        file.tensor[s].type = "Q4_K"
                 PROVE  file.tensor[z].type = "Q4_K"
      BY DEF MlaUniform
    <3>1. ASSUME NEW x \in Layers \X Attn
          PROVE  MlaReads(w) = "Q4_K" <=> file.tensor[x].type = "Q4_K"
      <4>1. /\ x[1] \in Layers /\ x[2] \in Attn /\ x = <<x[1], x[2]>>
            /\ x[2] \in RolesOf(file.kind, file.first, x[1])
        BY DEF RolesOf
      <4>2. w.form[x] \in Placed(file.kind, x[2], file.tensor[x])
        BY <2>1, <4>1, SlotReady
      <4>3. w.form[x] \in RawQ4K(file.tensor[x])
        BY <4>1, <4>2 DEF Placed, Native, Attn, Routed, Shared, Ffn
      <4>4. MlaReads(w) = w.form[x].as
        <5>1. Reads(w, file.kind, x[1], x[2]) = w.form[x].as
          BY <4>1 DEF Understood
        <5>2. QED
          BY <4>1, <5>1 DEF Reads, Attn, Ffn, Routed, Shared
      <4>5. QED
        BY <4>3, <4>4 DEF RawQ4K, AsF32, OnHeap
    <3>2. QED
      BY <3>1
  <2>3. RoutedUniform(file)
    BY <2>1, RoutedNeeds DEF RoutedUniform
  <2>4. SharedUniform(file)
    <3> SUFFICES ASSUME file.kind = "deepseek2", NEW l \in MoeLayers(file),
                        TypeAt(file, l, "sh3") = "Q4_K"
                 PROVE  "Q4_K" \in {TypeAt(file, l, "sh1"),
                                   TypeAt(file, file.first, "gate")}
      BY DEF SharedUniform
    <3>1. /\ l \in Layers /\ MoeLayer(file.kind, file.first, l)
          /\ ExpertQuant(file.kind)
      BY DEF MoeLayers, ExpertQuant
    <3>2. {"sh1", "sh3"} \subseteq RolesOf(file.kind, file.first, l)
      BY <3>1 DEF RolesOf, Shared
    <3>3. /\ w.tag[<<l, "sh3">>] = TypeAt(file, l, "sh3")
          /\ w.tag[<<l, "sh1">>] = TypeAt(file, l, "sh1")
      BY <2>1, <3>1, <3>2, SharedRead DEF Shared, TypeAt
    <3>4. "gate" \in Routed
      BY DEF Routed
    <3>5. w.w13 = TypeAt(file, file.first, "gate")
      BY <2>1, <3>1, <3>4, RoutedFacts
    <3>6. FreshActivations(w, file.kind, l)
      BY <3>1 DEF Understood
    <3>7. QED
      BY <3>3, <3>5, <3>6 DEF FreshActivations
  <2>5. NoNativeExperts(file)
    <3> SUFFICES ASSUME file.kind = "native_moe", NEW l \in MoeLayers(file)
                 PROVE  FALSE
      BY DEF NoNativeExperts
    <3>1. l \in Layers /\ "router" \in RolesOf(file.kind, file.first, l)
      BY DEF MoeLayers, RolesOf
    <3>2. w.form[<<l, "router">>]
             \in Placed(file.kind, "router", file.tensor[<<l, "router">>])
      BY <2>1, <3>1, SlotReady
    <3>3. w.form[<<l, "router">>].as = "ternary"
      BY <3>2 DEF Placed, Native, Mapped
    <3>4. Reads(w, file.kind, l, "router") = "F32"
      BY DEF Reads, Routed, Shared, Attn, Ffn
    <3>5. QED
      BY <3>1, <3>3, <3>4 DEF Understood
  <2>6. QED
    BY <2>2, <2>3, <2>4, <2>5 DEF Uniform
<1>2. QED
  BY <1>1, ContentsHolds, PTL
=============================================================================
