---------------------------- MODULE ModelWeights ----------------------------
(***************************************************************************)
(* What the loaders of src/core store of a model file and what the kernels *)
(* of src/transformer take it for.                                         *)
(*                                                                         *)
(* A tensor of the file has a type.  The loader of its family either keeps *)
(* a pointer into the mapping or fills a heap buffer, in the same or in    *)
(* another format, and leaves behind what the kernels go by: a tag per     *)
(* layer and projection, or flags of the whole model.  The kernels see a   *)
(* bare pointer: the format they read is the one the tags and the flags    *)
(* say.  Sizes are left out; a tensor of type Q4_K says whether its rows   *)
(* come in groups of eight (by8).                                          *)
(***************************************************************************)
EXTENDS Naturals
CONSTANT NumLayers          \* Config.n_layers
ASSUME NumLayersAssumption == NumLayers \in Nat \ {0}

Layers == 0 .. NumLayers - 1

\* The loaders: four for GGUF files, by architecture, and weights_map() for
\* the native format, with or without experts.
Kinds == {"dense", "deepseek2", "qwen3moe", "qwen35", "native", "native_moe"}
Native(kind) == kind \in {"native", "native_moe"}
IsMoe(kind) == kind \in {"deepseek2", "qwen3moe", "native_moe"}
ExpertQuant(kind) == kind \in {"deepseek2", "qwen3moe"}

\* What a projection is for.  Of deepseek2, wq, wk and wv are mla_wq,
\* mla_wkv_a and mla_wkv_b; of qwen35 they stand for the projections of
\* either kind of layer.
Attn == {"wq", "wk", "wv", "wo"}
Ffn == {"w1", "w2", "w3"}
Routed == {"gate", "up", "down"}
Shared == {"sh1", "sh2", "sh3"}
Roles == Attn \union Ffn \union Routed \union Shared \union {"router"}
Slots == Layers \X Roles

GgufTypes == {"F32", "F16", "BF16", "Q4_0", "Q4_1", "Q5_0", "Q5_1", "Q8_0",
              "Q2_K", "Q3_K", "Q4_K", "Q5_K", "Q6_K", "IQ4_NL", "Q2_0"}
Formats == GgufTypes \union {"Q4_K_X8", "ternary"}
Tensors == [type: GgufTypes, by8: BOOLEAN]
NoTensor == [type |-> "none", by8 |-> FALSE]

\* tensor_to_f32() knows them, the slicing of the experts knows them, the
\* expert kernels know them, the embedding is dequantised from them.
Dequantisable == GgufTypes \ {"Q4_1"}
Sliceable == Dequantisable \ {"Q2_0"}
ExpertKernels == {"Q2_K", "Q3_K", "Q4_K", "Q5_0", "Q5_1", "Q5_K", "Q6_K",
                  "Q8_0", "IQ4_NL"}
EmbeddingTypes == {"Q4_K", "Q8_0", "Q4_0", "Q5_0", "Q5_1", "Q5_K", "Q6_K"}

MoeLayer(kind, first, l) == IsMoe(kind) /\ l >= first
RolesOf(kind, first, l) ==
    Attn \union (IF ~MoeLayer(kind, first, l) THEN Ffn
                 ELSE Routed \union {"router"}
                      \union (IF kind = "qwen3moe" THEN {} ELSE Shared))

\* A model file: its loader, the first layer with experts, the types of its
\* tensors; the output tensor may be missing (tied to the embedding).
ModelFiles == [kind: Kinds, first: Nat, tensor: [Slots -> Tensors],
               embd: Tensors, output: Tensors \union {NoTensor}]

----------------------------------------------------------------------------
(* What the loaders store: the forms a tensor may end up in, none when the *)
(* loader refuses the file.                                                *)

Form == [as: Formats \union {"BF16"}, in: {"map", "heap"}]
NoForm == [as |-> "none", in |-> "none"]
Mapped(f) == [as |-> f, in |-> "map"]
OnHeap(f) == [as |-> f, in |-> "heap"]

\* The one form a projection ends up in.
Only(forms) == CHOOSE f \in forms : TRUE
AsF32(t) == IF t.type \in Dequantisable THEN {OnHeap("F32")} ELSE {}
\* LOAD_PROJ, Q3MOE_LOAD_PROJ, DS_LOAD_MLA_PROJ_HEAP and DS_LOAD_SHEXP_HEAP,
\* Q35_LOAD_Q2_0, the sliced experts, the router's gate.
Generic(t) ==
    IF t.type \in {"F16", "F32"} THEN {Mapped(t.type)}
    ELSE IF t.type = "Q4_K"
         THEN {IF t.by8 THEN OnHeap("Q4_K_X8") ELSE Mapped("Q4_K")}
         ELSE AsF32(t)
Plain(t) == IF t.type \in {"F16", "F32"} THEN {Mapped(t.type)} ELSE AsF32(t)
RawQ4K(t) == IF t.type = "Q4_K" THEN {OnHeap("Q4_K")} ELSE AsF32(t)
OnlyQ2(t) == IF t.type = "Q2_0" THEN {Mapped("Q2_0")} ELSE {}
Sliced(t) == IF t.type \in Sliceable THEN {Mapped(t.type)} ELSE {}
RouterF32(t) == IF t.type = "F32" THEN {Mapped("F32")} ELSE {}

Placed(kind, role, t) ==
    CASE Native(kind)     -> {Mapped("ternary")}
      [] kind = "dense"   -> Generic(t)
      [] kind = "qwen35"  -> OnlyQ2(t)
      [] OTHER ->
           CASE role \in Routed   -> Sliced(t)
             [] role = "router"   -> RouterF32(t)
             [] role \in Shared   -> RawQ4K(t)
             [] role \in Attn     -> IF kind = "qwen3moe" THEN Plain(t)
                                     ELSE RawQ4K(t)
             [] role \in Ffn      -> AsF32(t)

PlacedEmbedding(kind, t) ==
    CASE Native(kind)    -> {Mapped("BF16")}
      [] kind = "qwen35" -> OnlyQ2(t)
      [] kind = "dense"  -> IF t.type = "BF16" THEN {Mapped("BF16")}
                            ELSE IF t.type \in {"F32", "F16"}
                                 THEN {OnHeap("BF16")}
                                 ELSE IF t.type \in EmbeddingTypes
                                      THEN {OnHeap("F32")} ELSE {}
      [] OTHER -> IF t.type \in Dequantisable THEN {OnHeap("BF16")} ELSE {}

\* A mutant: a dense file without an output tensor is not tied.
PlacedOutput_Mut(file) ==
    {Mapped(IF Native(file.kind) THEN "BF16" ELSE file.output.type)}
\* The classifier.  In a dense file without an output tensor, or with one
\* that cannot be dequantised, it is the embedding's BF16 table; the others
\* refuse such a tensor.  qwen35 keeps the raw tensor, or a BF16 copy when a
\* format was asked for.
PlacedOutput(file) ==
    LET t == file.output
        tied == t.type \notin Dequantisable
        table == IF tied THEN file.embd ELSE t
    IN  CASE Native(file.kind)    -> {Mapped("BF16")}
          [] file.kind = "qwen35" -> IF t.type = "Q2_0"
                                     THEN {Mapped("Q2_0"), OnHeap("BF16")}
                                     ELSE {}
          [] file.kind = "dense"  -> IF table.type = "BF16"
                                     THEN {Mapped("BF16")}
                                     ELSE {OnHeap("BF16")}
          [] OTHER -> IF t.type \in Dequantisable \union {"none"}
                      THEN {OnHeap("BF16")} ELSE {}

\* A mutant: the type of the tensor is recorded, not that of the copy.
Tag_Mut(kind, role, t) == IF IsMoe(kind) THEN "F32" ELSE t.type
\* The tag a loader records for a projection; "F32" is 0, the value of the
\* tables it never writes.
Tag(kind, role, t) ==
    CASE kind = "dense" -> Only(Generic(t)).as
      [] kind = "qwen3moe" /\ role \in Attn ->
            Only(Plain(t)).as
      [] ExpertQuant(kind) /\ role \in {"gate", "down"} \union Shared ->
            t.type
      [] OTHER -> "F32"

----------------------------------------------------------------------------
(* The struct TransformerWeights, as far as formats go.                    *)

EmptyWeights ==
    [form |-> [s \in Slots |-> NoForm], tag |-> [s \in Slots |-> "F32"],
     embd |-> NoForm, wcls |-> NoForm, ternary |-> FALSE,
     has_mla_quant |-> FALSE, has_expert_quant |-> FALSE,
     w13 |-> "F32", w2 |-> "F32"]

\* One turn of the layer loop, for the projections S of layer l.
LoadProjections(w, file, l, S) ==
    LET here(s) == s[1] = l /\ s[2] \in S
        form(s) == Only(Placed(file.kind, s[2], file.tensor[s]))
        raw == \E r \in S \intersect Attn : file.tensor[<<l, r>>].type = "Q4_K"
    IN  [w EXCEPT !.form = [s \in Slots |-> IF here(s) THEN form(s)
                                            ELSE w.form[s]],
                  !.tag = [s \in Slots |->
                             IF here(s)
                             THEN Tag(file.kind, s[2], file.tensor[s])
                             ELSE w.tag[s]],
                  !.has_mla_quant = @ \/ (file.kind = "deepseek2" /\ raw)]

\* The end of the loaders: the flags, and the tags of qwen35.
SetFlags(w, file) ==
    LET of(role) == file.tensor[<<file.first, role>>].type
        q35(s) == file.kind = "qwen35" /\ s[2] \in Attn \union Ffn
        known == file.first < NumLayers
        quant == ExpertQuant(file.kind)
    IN  [w EXCEPT !.tag = [s \in Slots |-> IF q35(s) THEN "Q2_0"
                                           ELSE w.tag[s]],
                  !.has_expert_quant = quant,
                  !.w13 = IF ~quant THEN @
                          ELSE IF known THEN of("gate") ELSE "Q4_K",
                  !.w2 = IF ~quant THEN @
                         ELSE IF known THEN of("down")
                         ELSE IF file.kind = "deepseek2" THEN "Q5_1"
                         ELSE "Q4_K"]

----------------------------------------------------------------------------
(* What the kernels read.                                                  *)

\* tn_dense_matmul_dispatch() and, for Q/K/V and gate/up that all take
\* quantised activations, its _preq twin: the tag decides either way.
Dispatch(tag) ==
    IF tag \in {"F16", "Q4_K", "Q4_K_X8", "Q2_0"} THEN tag ELSE "F32"
\* dequant_expert_weight(): what it does not know it takes for F32.
ExpertRead(type) == IF type \in ExpertKernels THEN type ELSE "F32"
\* A tag 0 is taken as unset, and the flag of the whole model used instead.
OrGlobal(tag, global) == IF tag # "F32" THEN tag ELSE global

MlaReads(w) ==
    IF w.has_mla_quant THEN "Q4_K"
    ELSE IF w.ternary THEN "ternary" ELSE "F32"

\* A mutant: the sequential path for every layer.
RoutedReads_Mut(w, l, role) ==
    IF ~w.has_expert_quant THEN "ternary"
    ELSE IF role = "down" THEN ExpertRead(OrGlobal(w.tag[<<l, "down">>], w.w2))
         ELSE ExpertRead(OrGlobal(w.tag[<<l, "gate">>], w.w13))
RoutedReads(w, l, role) ==
    CASE ~w.has_expert_quant -> "ternary"
      [] role = "down" -> ExpertRead(OrGlobal(w.tag[<<l, "down">>], w.w2))
      [] OTHER -> IF w.w13 = "Q4_K" THEN "Q4_K"
                  ELSE ExpertRead(OrGlobal(w.tag[<<l, "gate">>], w.w13))

Reads(w, kind, l, role) ==
    CASE role = "router"    -> "F32"
      [] role \in Routed    -> RoutedReads(w, l, role)
      [] role \in Shared    -> IF w.tag[<<l, role>>] = "Q4_K" THEN "Q4_K"
                               ELSE "F32"
      [] role \in Attn \union Ffn ->
            CASE kind = "qwen35" /\ role \in Attn    -> "Q2_0"
              [] kind = "deepseek2" /\ role \in Attn -> MlaReads(w)
              [] OTHER -> IF w.ternary THEN "ternary"
                          ELSE Dispatch(w.tag[<<l, role>>])

\* The quantised activations moe_ffn_forward() shares between its kernels
\* are those of this layer, unless nobody quantised them.
FreshActivations(w, kind, l) ==
    kind = "deepseek2" /\ w.tag[<<l, "sh3">>] = "Q4_K"
       => w.w13 = "Q4_K" \/ w.tag[<<l, "sh1">>] = "Q4_K"

EmbeddingReads(w, kind) ==
    IF kind = "qwen35" THEN "Q2_0"
    ELSE IF w.embd.as = "F32" THEN "F32" ELSE "BF16"
ClassifierReads(w, kind) ==
    IF kind = "qwen35" /\ w.wcls.as = "Q2_0" THEN "Q2_0" ELSE "BF16"

----------------------------------------------------------------------------
(* The files whose kernels read what the loader stored.                    *)

MoeLayers(file) == {l \in Layers : MoeLayer(file.kind, file.first, l)}
TypeAt(file, l, role) == file.tensor[<<l, role>>].type

\* Every projection of the MLA attention is Q4_K, or none is.
MlaUniform(file) ==
    LET q4 == {s \in Layers \X Attn : file.tensor[s].type = "Q4_K"}
    IN  file.kind = "deepseek2" => q4 \in {{}, Layers \X Attn}

\* Gate and up agree in every layer; Q4_K in the first layer with experts
\* means Q4_K in all; and a type without an expert kernel is F32 in the first
\* such layer or a layer that falls back on one.
RoutedUniform(file) ==
    LET g(l) == TypeAt(file, l, "gate")
        d(l) == TypeAt(file, l, "down")
        f == file.first
    IN  ExpertQuant(file.kind) => \A l \in MoeLayers(file) :
          /\ TypeAt(file, l, "up") = g(l)
          /\ g(f) = "Q4_K" => g(l) = "Q4_K"
          /\ g(l) \in ExpertKernels \/ (g(l) = "F32" /\ g(f) = "F32")
          /\ d(l) \in ExpertKernels \/ (d(l) = "F32" /\ d(f) = "F32")

\* A Q4_K up projection of the shared expert finds activations quantised.
SharedUniform(file) ==
    file.kind = "deepseek2" => \A l \in MoeLayers(file) :
       TypeAt(file, l, "sh3") = "Q4_K"
          => "Q4_K" \in {TypeAt(file, l, "sh1"),
                         TypeAt(file, file.first, "gate")}

\* The router and the shared experts of a native file are packed ternary,
\* and read as F32.
NoNativeExperts(file) == file.kind = "native_moe" => MoeLayers(file) = {}

Uniform(file) ==
    /\ MlaUniform(file)
    /\ RoutedUniform(file)
    /\ SharedUniform(file)
    /\ NoNativeExperts(file)
=============================================================================
