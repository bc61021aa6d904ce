------------------------------- MODULE Startup -------------------------------
(***************************************************************************)
(* main(), from the thread pool to the running engine and down again: what *)
(* it acquires step by step, how the loader of the file's family fills the *)
(* weights layer by layer, and what every error path and the clean exit    *)
(* release, in their order.  Any step may fail: a file that is short or    *)
(* malformed, a tensor that is missing or of the wrong type, malloc.       *)
(***************************************************************************)
EXTENDS ModelWeights, Sequences
CONSTANT Files              \* the model files considered
ASSUME FilesAssumption ==
    /\ Files \subseteq ModelFiles
    /\ \A f \in Files : f.kind = "qwen3moe" => f.first = 0

VARIABLES file,             \* the model file that was named
          pc,               \* the step main() is at
          layer,            \* the loop counter of the loader
          w,                \* the TransformerWeights
          res,              \* what is acquired of every resource
          todo,             \* the releases left of an exit path
          code,             \* the exit status
          bad               \* what was freed that was not a live heap block
vars == <<file, pc, layer, w, res, todo, code, bad>>

\* ThreadPool, MappedFile, GGUFHeader, the pointer arrays of the weights and
\* those of the experts, GGUFWeightStore, RunState and its buffers, the
\* caches of a family (MLA, qwen35, qwen3moe), Tokenizer, VectorDB, Embedder.
Resources == {"pool", "map", "hdr", "ptrs", "moe", "store", "s", "bufs",
              "family", "tok", "db", "emb"}
Kept == {"none", "held", "freed", "lost", "garbage"}
Gguf == ~Native(file.kind)
HasFamily == file.kind \in {"deepseek2", "qwen35", "qwen3moe"}
HasMoeConfig == HasFamily \/ file.kind = "native_moe"

Init ==
    /\ file \in Files
    /\ pc = "pool"
    /\ layer = 0
    /\ w = EmptyWeights
    /\ res = [r \in Resources |-> "none"]
    /\ todo = <<>>
    /\ code = 0
    /\ bad = {}

Goto(step) == pc' = step /\ UNCHANGED <<file, todo, code, bad>>
Acquire(r) == res' = [res EXCEPT ![r] = "held"]
\* return 1 after the releases of list.
Fail(list) ==
    /\ pc' = "freeing"
    /\ todo' = list
    /\ code' = 1
    /\ UNCHANGED <<file, layer, bad>>
GivesUp(list) == Fail(list) /\ UNCHANGED <<w, res>>

\* The error paths: before the weights, with weights, with a run state.
OnlyFile == <<"map", "pool">>
WithHeader == <<"hdr", "map", "pool">>
WithWeights == <<"moe", "ptrs", "map", "pool">>
WithState == <<"s", "moe", "ptrs", "map", "pool">>
\* A mutant: the header of the run state is forgotten.
WithBuffers_Mut == <<"bufs", "moe", "ptrs", "map", "pool">>
WithBuffers == <<"bufs", "s", "moe", "ptrs", "map", "pool">>
\* The cleanup at the end of main(), and its first steps when the memory is
\* on; what was never acquired is skipped.
Cleanup == <<"tok", "family", "bufs", "s", "moe", "ptrs", "store", "hdr",
             "map", "pool">>
CleanupMemory == <<"emb", "db", "tok", "family", "bufs", "s", "moe", "ptrs",
                   "store", "hdr", "map", "pool">>

----------------------------------------------------------------------------
(* Opening the file.                                                       *)

CreatePool ==
    /\ pc = "pool"
    /\ \/ Acquire("pool") /\ Goto("map") /\ UNCHANGED <<layer, w>>
       \/ GivesUp(<<>>)

MapFile ==
    /\ pc = "map"
    /\ \/ /\ Acquire("map")
          /\ Goto(IF Gguf THEN "header" ELSE "config")
          /\ UNCHANGED <<layer, w>>
       \/ GivesUp(<<"pool">>)

\* Of a file too short, or of one with too many keys, the header is freed
\* with a count of entries nobody filled.
ReadHeader ==
    /\ pc = "header"
    /\ \/ Acquire("hdr") /\ Goto("config") /\ UNCHANGED <<layer, w>>
       \/ \E state \in {"held", "garbage"} :
             /\ Fail(WithHeader)
             /\ res' = [res EXCEPT !["hdr"] = state]
             /\ UNCHANGED w

ReadConfig ==
    /\ pc = "config"
    /\ \/ /\ Goto(IF HasMoeConfig THEN "moe_config" ELSE "pointers")
          /\ UNCHANGED <<layer, w, res>>
       \/ GivesUp(IF Gguf THEN WithHeader ELSE OnlyFile)

ReadMoeConfig ==
    /\ pc = "moe_config"
    /\ \/ Goto("pointers") /\ UNCHANGED <<layer, w, res>>
       \/ GivesUp(OnlyFile)

AllocPointers ==
    /\ pc = "pointers"
    /\ \/ /\ Acquire("ptrs")
          /\ Goto(IF IsMoe(file.kind) THEN "experts"
                  ELSE IF Gguf THEN "store" ELSE "embedding")
          /\ UNCHANGED <<layer, w>>
       \/ GivesUp(OnlyFile)

AllocExperts ==
    /\ pc = "experts"
    /\ \/ /\ Acquire("moe")
          /\ Goto(IF Gguf THEN "store" ELSE "embedding")
          /\ UNCHANGED <<layer, w>>
       \/ GivesUp(WithWeights)

----------------------------------------------------------------------------
(* weights_from_gguf() and weights_map().                                  *)

AllocStore ==
    /\ pc = "store"
    /\ \/ Acquire("store") /\ Goto("embedding") /\ UNCHANGED <<layer, w>>
       \/ GivesUp(WithWeights)

\* The tables before the layers: both for deepseek2 and qwen3moe, the
\* embedding for a dense file and a native one, none for qwen35.
LoadEmbedding ==
    /\ pc = "embedding"
    /\ \/ /\ Goto("layers")
          /\ UNCHANGED <<layer, res>>
          /\ IF file.kind = "qwen35" THEN UNCHANGED w
             ELSE \E e \in PlacedEmbedding(file.kind, file.embd) :
                    \E c \in IF ExpertQuant(file.kind)
                             THEN PlacedOutput(file)
                             ELSE {NoForm} :
                       w' = [w EXCEPT !.embd = e, !.wcls = c,
                                      !.ternary = Native(file.kind)]
       \/ file.kind # "qwen35" /\ GivesUp(WithWeights)

\* The order in which a turn of the loop places its projections.
Order ==
    CASE Native(file.kind) ->
            <<{"wq"}, {"wk"}, {"wv"}, {"wo"}, {"w1"}, {"w3"}, {"w2"},
              {"router"}, {"gate"}, {"up"}, {"down"},
              {"sh1"}, {"sh3"}, {"sh2"}>>
      [] file.kind = "qwen35" ->
            <<{"w1"}, {"w3"}, {"w2"}, {"wq"}, {"wk"}, {"wv"}, {"wo"}>>
      [] OTHER ->
            <<{"wq"}, {"wk"}, {"wv"}, {"wo"}, {"w1"}, {"w2"}, {"w3"},
              {"router"}, Routed, {"sh1"}, {"sh2"}, {"sh3"}>>
Before(i) == UNION {Order[j] : j \in 1 .. i - 1}
\* The native format has its experts after the dense part of all layers.
Turn == LET all == RolesOf(file.kind, file.first, layer)
        IN  IF ~Native(file.kind) THEN all
            ELSE IF pc = "layers" THEN all \intersect (Attn \union Ffn)
                 ELSE all \ (Attn \union Ffn)
Placeable(S) ==
    \A r \in S : Placed(file.kind, r, file.tensor[<<layer, r>>]) # {}

\* A turn is complete or stops at a projection, the earlier ones stored.
LoadLayer ==
    /\ pc \in {"layers", "native_experts"}
    /\ layer < NumLayers
    /\ \/ /\ Placeable(Turn)
          /\ w' = LoadProjections(w, file, layer, Turn)
          /\ layer' = layer + 1
          /\ UNCHANGED <<file, pc, res, todo, code, bad>>
       \/ \E i \in 1 .. Len(Order) :
             /\ Order[i] \intersect Turn # {}
             /\ Placeable(Turn \intersect Before(i))
             /\ w' = LoadProjections(w, file, layer, Turn \intersect Before(i))
             /\ Fail(WithWeights)
             /\ UNCHANGED res

\* After the layers: the final norm, the tables that are still missing, the
\* flags; in a native file the classifier is the embedding.
FinishWeights ==
    /\ pc = "layers"
    /\ layer = NumLayers
    /\ \/ /\ Goto(IF file.kind = "native_moe" THEN "native_experts"
                  ELSE "state")
          /\ layer' = 0
          /\ UNCHANGED res
          /\ LET flagged == SetFlags(w, file) IN
             CASE Native(file.kind) \/ file.kind = "dense" ->
                    \E c \in PlacedOutput(file) :
                       w' = [flagged EXCEPT !.wcls = c]
               [] file.kind = "qwen35" ->
                    \E e \in PlacedEmbedding(file.kind, file.embd),
                       c \in PlacedOutput(file) :
                       w' = [flagged EXCEPT !.embd = e, !.wcls = c]
               [] OTHER -> w' = flagged
       \/ GivesUp(WithWeights)

ExpertsMapped ==
    /\ pc = "native_experts"
    /\ layer = NumLayers
    /\ Goto("state")
    /\ layer' = 0
    /\ UNCHANGED <<w, res>>

----------------------------------------------------------------------------
(* The run state, the tokenizer and the memory.                            *)

AllocState ==
    /\ pc = "state"
    /\ \/ Acquire("s") /\ Goto("buffers") /\ UNCHANGED <<layer, w>>
       \/ GivesUp(WithWeights)

AllocBuffers ==
    /\ pc = "buffers"
    /\ \/ /\ Acquire("bufs")
          /\ Goto(IF HasFamily THEN "family" ELSE "tokenizer")
          /\ UNCHANGED <<layer, w>>
       \/ GivesUp(WithState)

AllocFamily ==
    /\ pc = "family"
    /\ \/ Acquire("family") /\ Goto("tokenizer") /\ UNCHANGED <<layer, w>>
       \/ GivesUp(WithBuffers)

\* Only a tokenizer that was named on the command line has to load.
LoadTokenizer ==
    /\ pc = "tokenizer"
    /\ \/ Acquire("tok") /\ Goto("memory") /\ UNCHANGED <<layer, w>>
       \/ Goto("memory") /\ UNCHANGED <<layer, w, res>>
       \/ GivesUp(WithBuffers)

\* A memory that cannot be opened is disabled, its database closed again.
OpenMemory ==
    /\ pc = "memory"
    /\ Goto("running")
    /\ UNCHANGED <<layer, w>>
    /\ \/ res' = [res EXCEPT !["db"] = "held", !["emb"] = "held"]
       \/ res' = [res EXCEPT !["db"] = "freed"]
       \/ UNCHANGED res

----------------------------------------------------------------------------
(* The way out.                                                            *)

\* Mutants: the heap copies before the pointers into them; the caches of the
\* family not at all.
FinishCopiesFirst_Mut ==
    /\ pc = "running"
    /\ pc' = "freeing"
    /\ todo' = <<"tok", "family", "bufs", "s", "store", "moe", "ptrs",
                "hdr", "map", "pool">>
    /\ UNCHANGED <<file, layer, w, res, code, bad>>
FinishNoFamily_Mut ==
    /\ pc = "running"
    /\ pc' = "freeing"
    /\ todo' = <<"tok", "bufs", "s", "moe", "ptrs", "store", "hdr", "map",
                "pool">>
    /\ UNCHANGED <<file, layer, w, res, code, bad>>
Finish ==
    /\ pc = "running"
    /\ pc' = "freeing"
    /\ todo' = IF res["emb"] = "held" THEN CleanupMemory ELSE Cleanup
    /\ UNCHANGED <<file, layer, w, res, code, bad>>

\* moe_weights_free() frees every expert unless the flag says that they are
\* pointers into the mapping.
FreesExperts ==
    /\ ~w.has_expert_quant
    /\ \E s \in Slots : s[2] \in Routed /\ w.form[s].in = "map"
\* The arrays of the experts and of the MLA projections go with "moe", all
\* the others with "ptrs".
WithoutExperts ==
    LET arrays == Routed \union Shared \union {"router"}
                  \union (IF file.kind = "deepseek2" THEN Attn \ {"wo"}
                          ELSE {})
    IN  [w EXCEPT !.form = [s \in Slots |-> IF s[2] \in arrays THEN NoForm
                                            ELSE w.form[s]]]

\* One release.  free(s) loses the caches of the family hanging off it.
Release ==
    /\ pc = "freeing"
    /\ todo # <<>>
    /\ todo' = Tail(todo)
    /\ UNCHANGED <<file, pc, layer, code>>
    /\ LET r == Head(todo)
           held == res[r] = "held"
       IN  /\ res' = [x \in Resources |->
                        IF x = r /\ res[x] # "none" THEN "freed"
                        ELSE IF x = "family" /\ r = "s" /\ res[x] = "held"
                             THEN "lost" ELSE res[x]]
           /\ w' = IF r = "ptrs" /\ held THEN EmptyWeights
                   ELSE IF r = "moe" /\ held THEN WithoutExperts ELSE w
           /\ bad' = bad
                 \union (IF res[r] \in {"none", "held"} THEN {} ELSE {r})
                 \union (IF r = "moe" /\ held /\ FreesExperts
                         THEN {"payload"} ELSE {})

Exit ==
    /\ pc = "freeing"
    /\ todo = <<>>
    /\ pc' = "exit"
    /\ UNCHANGED <<file, layer, w, res, todo, code, bad>>

Opening == CreatePool \/ MapFile \/ ReadHeader \/ ReadConfig \/ ReadMoeConfig
           \/ AllocPointers \/ AllocExperts
Loading == AllocStore \/ LoadEmbedding \/ LoadLayer \/ FinishWeights
           \/ ExpertsMapped
Preparing == AllocState \/ AllocBuffers \/ AllocFamily \/ LoadTokenizer
             \/ OpenMemory
Leaving == Finish \/ Release \/ Exit
Next == Opening \/ Loading \/ Preparing \/ Leaving
Spec == Init /\ [][Next]_vars
=============================================================================
