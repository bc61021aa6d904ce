--------------------------- MODULE KvSessionProps ---------------------------
(***************************************************************************)
(* What the writers of the KV cache owe to each other.                     *)
(***************************************************************************)
EXTENDS KvSession

\* Every variable keeps its type; the counters of the loops never go below
\* zero.
TypeOK ==
  /\ kind \in Kinds /\ mode \in Modes
  /\ sw \in [window : {0, Window}, spl : Nat]
  /\ sw.window = 0 => sw = ZeroWindow
  /\ currentPos \in Nat /\ step \in Nat /\ nPrompt \in Nat /\ limit \in Int
  /\ base \in Nat /\ left \in Nat /\ emitted \in Nat /\ first \in Nat
  /\ fed \in Nat
  /\ cache \in [Slots -> Nat] /\ hist \in [Slots -> Nat]
  /\ by \in [Slots -> Writers \cup {"none"}] /\ blind \subseteq Slots
  /\ last \in [writer : Writers \cup {"none"}, pos : Nat, slot : Nat]

\* Keys and values are only stored inside the cache (attention.c:165-170),
\* whatever the loops and the injections think the next position is.  The
\* exception is the chat prefix of an image, fed with no look at the size
\* (vision_pipeline.c:154-159): it may leave the cache, but only in a server
\* whose earlier requests used all of it up.
WritesInRange ==
  \/ last.writer = "none" \/ last.slot \in Slots
  \/ last.writer = "prefix" /\ kind = "server" /\ currentPos > Window

\* The token that the attention at position p reads for position t.
Seen(p, t) == cache[ReadSlots(sw, p)[t]]

\* Every pass through an initialised window attends to each position up to
\* its own once, and finds there the token last fed at that position, unless
\* that was before the window was initialised.  A generation finds from its
\* pos_offset on its own tokens, in order, and none of another run.  The
\* agent, which starts at 0 over whatever was injected there, finds nothing
\* of an earlier run either, but not only its own tokens: where a result was
\* injected it finds the result, at the first tool call in place of the
\* prompt (agent_loop.c:211), which sliding_window.h:12 calls pinned.
SeesWholeContext ==
  last.writer # "none" /\ last.pos < Window /\ sw.window > 0 =>
    /\ DOMAIN ReadSlots(sw, last.pos) = 0 .. last.pos
    /\ \A t \in (0 .. last.pos) \ blind : Seen(last.pos, t) = hist[t]
    /\ last.writer = "generate" =>
         \A t \in base .. last.pos :
           Seen(last.pos, t) = first + 1 + (t - base)
    /\ last.writer = "agent" =>
         \A t \in 0 .. last.pos :
           /\ Seen(last.pos, t) = hist[t] /\ hist[t] > first
           /\ by[t] = "agent" \/ (by[t] = "tool" /\ t < currentPos)

\* The prompt of a generation stays in its slots until the generation ends
\* (sliding_window.h:12): the i-th token of the run is where the attention
\* will look for position base + i.
PromptPinned ==
  mode = "generate" =>
    \A i \in 0 .. nPrompt - 1 :
      i < fed - first =>
        cache[MapPosition(sw, base + i)] = first + i + 1

\* A generation leaves alone the slots below pos_offset: images, memories
\* and tool results that were injected before it (generate.c:121).
GenerationKeepsInjected ==
  [][mode = "generate" =>
       \A s \in Slots : s < base => cache'[s] = cache[s]]_vars

\* auto_retrieve.h:8-9: what was injected into the KV cache (memories, and
\* images in the same way) is seen by the model as part of its context in the
\* generation that follows.
InjectedIsSeen ==
  last.writer = "generate" =>
    \A t \in 0 .. base - 1 : Seen(last.pos, t) = hist[t]

\* A generation emits at most max_tokens + 1 tokens, the first of them right
\* after the prompt (generate.c:136), and only as many as the cache has room
\* for.  generate.h:25 calls max_tokens the maximum: the loop's bound lets
\* one token more through.
TokenBudget ==
  emitted > 0 =>
    emitted <= limit + 1 /\ base + nPrompt + emitted <= Window + 1
=============================================================================
