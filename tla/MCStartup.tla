----------------------------- MODULE MCStartup -----------------------------
(***************************************************************************)
(* Instances of Startup for TLC: files of one type throughout, with the    *)
(* first layer with experts anywhere, and every file that differs from     *)
(* such a file in one tensor, in the gate and up experts of a layer, in    *)
(* the experts of a layer or in one of the two tables.                     *)
(***************************************************************************)
EXTENDS StartupProps

Two == 2
T(type) == [type |-> type, by8 |-> TRUE]
Odd == [type |-> "Q4_K", by8 |-> FALSE]
Base == {T("F16"), T("Q4_K"), Odd, T("Q6_K"), T("Q2_0")}
Other == {T("F32"), T("BF16"), T("Q4_K"), T("Q6_K"), T("Q4_1")}

BaseOf(kind) == IF kind = "qwen35" THEN {T("Q2_0")}
                 ELSE IF Native(kind) THEN {T("F32")} ELSE Base
PlainFile(kind, first, b) ==
    [kind |-> kind, first |-> first,
     tensor |-> [s \in Slots |-> IF s[2] = "router" THEN T("F32") ELSE b],
     embd |-> b, output |-> b]
PlainFiles ==
    UNION {{PlainFile(kind, first, b) : b \in BaseOf(kind)} :
             <<kind, first>> \in {k \in Kinds \X (0 .. NumLayers) :
                                    k[2] = 0 \/ k[1] \in {"deepseek2",
                                                          "native_moe"}}}
Groups(f) ==
    UNION {{{<<l, r>>} : r \in RolesOf(f.kind, f.first, l)} :
             l \in Layers}
    \union (IF ExpertQuant(f.kind)
            THEN {{<<l, "gate">>, <<l, "up">>} : l \in MoeLayers(f)}
                 \union {{l} \X Routed : l \in MoeLayers(f)}
            ELSE {})
Varied(f) ==
    IF Native(f.kind) THEN {}
    ELSE {[f EXCEPT !.tensor = [s \in Slots |-> IF s \in g THEN t
                                                   ELSE f.tensor[s]]] :
             g \in Groups(f), t \in Other}
         \union {[f EXCEPT !.embd = t] : t \in Other}
         \union {[f EXCEPT !.output = t] : t \in Other \union {NoTensor}}
MCFiles == PlainFiles \union UNION {Varied(p) : p \in PlainFiles}
=============================================================================
