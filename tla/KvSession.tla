----------------------------- MODULE KvSession -----------------------------
(***************************************************************************)
(* One run state and everybody who writes its KV cache: the generation     *)
(* loop, the agent loop, images, retrieved memories and tool results.  The *)
(* program is sequential here; what is hard is that each writer has its    *)
(* own idea of the next position (`pos_offset`, the agent's `pos`,         *)
(* `current_pos`) and that the sliding window is only initialised by the   *)
(* loops, not by the injections.                                           *)
(*                                                                         *)
(* A token is the number of the forward pass that fed it; 0 is a slot that *)
(* was never written.  generate_with_reasoning() is called by nobody and   *)
(* left out: it is the only loop that could outgrow the window, since the  *)
(* window is as large as seq_len (main.c:438,479).                         *)
(***************************************************************************)
EXTENDS KvWindow

CONSTANTS Window,      \* max_seq_len of the run state, and cfg->seq_len
          PrefixLens,  \* lengths of the chat prefix an image is fed with
          TokenLimits, \* values of max_tokens
          MaxInject,   \* bound: tokens of one image, memory or tool result
          MinFree,     \* AUTO_RETRIEVE_MIN_FREE_TOKENS
          MaxFeeds     \* bound: forward passes of a session

ASSUME WindowAssumption == Window \in Nat \ {0}
ASSUME InputsAssumption ==
  /\ PrefixLens \subseteq Nat
  /\ TokenLimits \subseteq Int
  /\ MaxInject \in Nat
  /\ MinFree \in Nat
  /\ MaxFeeds \in Nat

Slots == 0 .. Window - 1
Kinds == {"oneshot", "repl", "server"}
Modes == {"idle", "prefix", "image", "memory", "asked", "generate", "agent",
          "tool", "done"}
Writers == {"prefix", "image", "memory", "tool", "generate", "agent"}

VARIABLES kind,       \* main's execution mode
          sw,         \* s->sw
          currentPos, \* s->current_pos
          cache,      \* key and value cache: the token in each slot
          mode,       \* the loop that runs
          step,       \* its counter: `step` in generate, `pos` in the agent
          nPrompt,    \* n_prompt of the loop
          limit,      \* max_tokens of the loop
          base,       \* pos_offset of the loop, 0 for the agent
          left,       \* tokens an injection has still to feed
          emitted,    \* tokens_generated
          fed,        \* number of forward passes so far
          first,      \* value of `fed` when the loop started
          hist,       \* the token last fed at each logical position
          by,         \* and the writer that fed it
          blind,      \* positions last fed before the window was initialised
          last        \* the last forward pass of the loop or injection

session == <<kind, nPrompt, limit, base, first>>
history == <<hist, by, blind, last>>
vars == <<session, sw, currentPos, cache, mode, step, left, emitted, fed,
          history>>

NoPass == [writer |-> "none", pos |-> 0, slot |-> 0]

Init ==
  /\ kind \in Kinds
  /\ sw = ZeroWindow /\ currentPos = 0
  /\ cache = [s \in Slots |-> 0]
  /\ mode = "idle" /\ step = 0 /\ nPrompt = 0 /\ limit = 0 /\ base = 0
  /\ left = 0 /\ emitted = 0 /\ fed = 0 /\ first = 0
  /\ hist = [p \in Slots |-> 0] /\ by = [p \in Slots |-> "none"]
  /\ blind = {} /\ last = NoPass

\* transformer_forward() at position p: every layer maps p, writes the key
\* and the value there, and attends.  A slot outside the cache is one of the
\* next head's, or of nobody's.
Forward(writer, p) ==
  LET slot  == MapPosition(sw, p)
      token == fed + 1
  IN /\ fed < MaxFeeds
     /\ fed' = token
     /\ \/ slot \in Slots /\ cache' = [cache EXCEPT ![slot] = token]
        \/ slot \notin Slots /\ cache' = cache
        \/ slot \notin Slots
           /\ cache' = [cache EXCEPT ![slot % Window] = token]
     /\ hist' = IF p \in Slots THEN [hist EXCEPT ![p] = token] ELSE hist
     /\ by' = IF p \in Slots THEN [by EXCEPT ![p] = writer] ELSE by
     /\ blind' = IF sw.window = 0 THEN blind \cup ({p} \cap Slots)
                                  ELSE blind \ {p}
     /\ last' = [writer |-> writer, pos |-> p, slot |-> slot]
     /\ UNCHANGED <<session, sw>>

-----------------------------------------------------------------------------
\* Injections: all of them feed at current_pos and advance it.

\* vision_pipeline_run(): main's --image, before anything else, or an image
\* of a chat request.  There is no chat prefix where there is no prompt.
BeginImage ==
  /\ mode = "idle" /\ (kind = "server" \/ (fed = 0 /\ sw = ZeroWindow))
  /\ mode' = "prefix"
  /\ left' \in (IF kind = "repl" THEN {0} ELSE PrefixLens)
  /\ UNCHANGED <<session, sw, currentPos, cache, step, emitted, fed,
                 history>>

\* Mutant: one token too many.
Inject_Mut(writer) ==
  /\ mode = writer /\ left >= 0
  /\ Forward(writer, currentPos)
  /\ currentPos' = currentPos + 1
  /\ left' = left - 1
  /\ UNCHANGED <<mode, step, emitted>>

Inject(writer) ==
  /\ mode = writer /\ left > 0
  /\ Forward(writer, currentPos)
  /\ currentPos' = currentPos + 1
  /\ left' = left - 1
  /\ UNCHANGED <<mode, step, emitted>>

\* The chat prefix is fed without a look at the size of the cache.
FeedPrefix == Inject("prefix")

PrefixDone ==
  /\ mode = "prefix" /\ left = 0
  /\ mode' = "image"
  /\ left' \in 1 .. MaxInject
  /\ UNCHANGED <<session, sw, currentPos, cache, step, emitted, fed,
                 history>>

\* inject_vision_into_kv_cache(): one patch.
FeedPatch == currentPos < Window /\ Inject("image")

\* inject_text_into_kv(): one token of a memory or of a tool's result.
FeedText ==
  /\ currentPos < Window
  /\ \E writer \in {"memory", "tool"} : Inject(writer)

InjectionEnds(writer) ==
  /\ mode = writer
  /\ left = 0 \/ currentPos >= Window
  /\ left' = 0
  /\ UNCHANGED <<session, sw, currentPos, cache, emitted, fed,
                 history>>

ImageDone == InjectionEnds("image") /\ mode' = "idle" /\ step' = step

\* auto_retrieve_and_inject(), before the generation of a REPL line.
BeginMemory ==
  /\ mode = "idle" /\ kind = "repl"
  /\ Window - currentPos >= MinFree
  /\ mode' = "memory"
  /\ left' \in 1 .. MaxInject
  /\ UNCHANGED <<session, sw, currentPos, cache, step, emitted, fed,
                 history>>

MemoryDone == InjectionEnds("memory") /\ mode' = "asked" /\ step' = step
-----------------------------------------------------------------------------
\* The loops.

\* The part both loops share: count the prompt, pin it, start at 0.
Start(loop, offset) ==
  /\ nPrompt' \in 0 .. Window
  /\ limit' \in TokenLimits
  /\ sw' = InitWindow(Window, nPrompt' + offset)
  /\ base' = offset /\ first' = fed
  /\ mode' = loop /\ step' = 0 /\ emitted' = 0 /\ last' = NoPass
  /\ UNCHANGED <<kind, currentPos, cache, left, fed, hist, by, blind>>

\* generate_with_callback() up to its loop.
StartGenerate == mode \in {"idle", "asked"} /\ Start("generate", currentPos)

AfterGenerate == IF kind = "oneshot" THEN "done" ELSE "idle"

\* The prompt cannot be laid out or encoded, or there is no memory for it.
GenerateFails ==
  /\ mode \in {"idle", "asked"}
  /\ mode' = AfterGenerate
  /\ UNCHANGED <<session, sw, currentPos, cache, step, left, emitted, fed,
                 history>>

\* run_agent_loop() up to its loop: no offset.
StartAgent == mode = "idle" /\ kind = "repl" /\ Start("agent", 0)

\* Mutant: one iteration too many.
InBudget_Mut == step <= nPrompt + limit

\* The loop condition of generate on max_tokens: total_steps.
InBudget == step < nPrompt + limit

\* Mutant: one iteration more than the loop's bound allows.
MoreSteps_Mut == step + base <= Window

\* The loop condition of generate on the context.
MoreSteps == step + base < Window

\* Mutant: the position of the step, without pos_offset.
AbsolutePosition_Mut == step

AbsolutePosition == step + base

\* One iteration of generate's loop.
GenerateStep ==
  /\ mode = "generate" /\ InBudget /\ MoreSteps
  /\ Forward("generate", AbsolutePosition)
  /\ \/ /\ step < nPrompt - 1                   \* still in the prompt
        /\ step' = step + 1 /\ UNCHANGED <<mode, emitted>>
     \/ /\ step >= nPrompt - 1                  \* end of sequence
        /\ mode' = AfterGenerate /\ UNCHANGED <<step, emitted>>
     \/ /\ step >= nPrompt - 1                  \* the callback says stop
        /\ mode' = AfterGenerate /\ emitted' = emitted + 1
        /\ step' = step
     \/ /\ step >= nPrompt - 1                  \* go on
        /\ emitted' = emitted + 1 /\ step' = step + 1 /\ mode' = mode
  /\ UNCHANGED <<currentPos, left>>

GenerateEnds ==
  /\ mode = "generate" /\ ~(InBudget /\ MoreSteps)
  /\ mode' = AfterGenerate
  /\ UNCHANGED <<session, sw, currentPos, cache, step, left, emitted, fed,
                 history>>

\* One iteration of the agent's loop, up to the tag it may have found.
AgentStep ==
  /\ mode = "agent" /\ step < limit /\ step < Window
  /\ Forward("agent", step)
  /\ \/ /\ step < nPrompt - 1
        /\ step' = step + 1 /\ UNCHANGED <<mode, left>>
     \/ /\ step >= nPrompt - 1                  \* no tag, go on
        /\ step' = step + 1 /\ UNCHANGED <<mode, left>>
     \/ /\ step >= nPrompt - 1                  \* end of sequence
        /\ mode' = "idle" /\ UNCHANGED <<step, left>>
     \/ /\ step >= nPrompt - 1                  \* a tag with a result
        /\ mode' = "tool" /\ left' \in 1 .. MaxInject /\ step' = step
  /\ UNCHANGED <<currentPos, emitted>>

\* Mutant: the loop goes on where the injection ended.
ToolDone_Mut ==
  /\ InjectionEnds("tool")
  /\ \/ mode' = "agent" /\ step' = currentPos
     \/ mode' = "idle" /\ step' = step

\* The rest of the iteration after inject_text_into_kv().
ToolDone ==
  /\ InjectionEnds("tool")
  /\ \/ mode' = "agent" /\ step' = step + 1
     \/ mode' = "idle" /\ step' = step

AgentEnds ==
  /\ mode = "agent" /\ (step >= limit \/ step >= Window)
  /\ mode' = "idle"
  /\ UNCHANGED <<session, sw, currentPos, cache, step, left, emitted, fed,
                 history>>

Next ==
  \/ BeginImage \/ FeedPrefix \/ PrefixDone \/ FeedPatch \/ ImageDone
  \/ BeginMemory \/ FeedText \/ MemoryDone
  \/ StartGenerate \/ GenerateFails \/ GenerateStep \/ GenerateEnds
  \/ StartAgent \/ AgentStep \/ ToolDone \/ AgentEnds

Spec == Init /\ [][Next]_vars
=============================================================================
