---------------------------- MODULE StartupProps ----------------------------
(***************************************************************************)
(* What main() and the loaders promise: the kernels read every tensor in   *)
(* the format it was stored in, the memory behind it is there as long as   *)
(* the weights refer to it, and every way out releases what was acquired,  *)
(* once.                                                                   *)
(***************************************************************************)
EXTENDS Startup

Steps == {"pool", "map", "header", "config", "moe_config", "pointers",
          "experts", "store", "embedding", "layers", "native_experts",
          "state", "buffers", "family", "tokenizer", "memory", "running",
          "freeing", "exit"}
Weights == [form : [Slots -> Form \union {NoForm}], tag : [Slots -> Formats],
            embd : Form \union {NoForm}, wcls : Form \union {NoForm},
            ternary : BOOLEAN, has_mla_quant : BOOLEAN,
            has_expert_quant : BOOLEAN, w13 : Formats, w2 : Formats]

\* The state of the startup is well typed: main() in src/cli/main.c.
TypeOK ==
    /\ file \in ModelFiles
    /\ pc \in Steps
    /\ layer \in 0 .. NumLayers
    /\ w \in Weights
    /\ res \in [Resources -> Kept]
    /\ todo \in Seq(Resources)
    /\ code \in {0, 1}
    /\ bad \subseteq Resources \union {"payload"}

Understood ==
    /\ \A l \in Layers :
          /\ \A role \in RolesOf(file.kind, file.first, l) :
                Reads(w, file.kind, l, role) = w.form[<<l, role>>].as
          /\ FreshActivations(w, file.kind, l)
    /\ EmbeddingReads(w, file.kind) = w.embd.as
    /\ ClassifierReads(w, file.kind) = w.wcls.as

\* A file whose mixture of types the tags and the flags can express runs:
\* the engine starts only with every tensor stored in the format its kernel
\* reads, whatever layer, projection or family (weights_from_gguf() against
\* moe_ffn_forward(), MLA_MATMUL and tn_dense_matmul_dispatch()).
ReadsAsStored == pc = "running" /\ Uniform(file) => Understood

\* And the condition is exact: every other file that loads is misread by
\* some kernel, without an error (the flags of the whole model in
\* weights_from_gguf_deepseek2() and moe_weights_map()'s packed experts).
MixturesAreMisread == pc = "running" /\ Understood => Uniform(file)

Behind == [map |-> "map", heap |-> "store"]
BackedForm(f) == f # NoForm => res[Behind[f.in]] = "held"
\* No weight outlives its memory: on every way out the pointers go before
\* the heap copies and the mapping they point into (the cleanup of main()).
Backed ==
    /\ \A s \in Slots : BackedForm(w.form[s])
    /\ BackedForm(w.embd)
    /\ BackedForm(w.wcls)

\* The clean exit frees everything that was acquired, nothing twice, and for
\* every family but the native experts nothing else (main(), "Cleanup").
CleanExitFreesAll ==
    pc = "exit" /\ code = 0 =>
       /\ \A r \in Resources : res[r] \in {"none", "freed"}
       /\ file.kind # "native_moe" => bad = {}

\* Every error path gives back the threads, the mapping, the weights and the
\* run state; it leaves the header, the heap copies and the family's caches,
\* frees nothing twice, and frees what is no heap block in two ways only: a
\* header that was never read, and experts still taken for heap blocks.
ErrorExitReleases ==
    pc = "exit" /\ code = 1 =>
       /\ \A r \in Resources \ {"hdr", "store", "family"} :
             res[r] \in {"none", "freed"}
       /\ bad \subseteq {"hdr", "payload"}
       /\ "hdr" \in bad => res["ptrs"] = "none"
       /\ "payload" \in bad => res["moe"] = "freed"

\* moe_weights_free() frees no pointer into the mapping: "For mmap'd files
\* the data was NOT heap alloc'd (pointed into the mmap), so we only free
\* the pointer array itself" (moe_weights.c).
MappedExpertsKept == "payload" \notin bad
=============================================================================
