------------------------------ MODULE KvWindow ------------------------------
(***************************************************************************)
(* The position arithmetic of src/kv_cache/sliding_window.c and the order  *)
(* in which an attention layer walks the cache.  A sliding window is a     *)
(* record of `window_size` and `system_prompt_len` (spl): the first spl    *)
(* slots are pinned, the others form a ring.  `write_head` and `wrapped`   *)
(* are written by sw_advance() and read by nobody; they are left out.      *)
(***************************************************************************)
EXTENDS Integers

\* sw_init().
InitWindow(size, prompt) == [window |-> size, spl |-> prompt]

\* What run_state_alloc_ex() leaves behind: a window of all zero bytes.
ZeroWindow == InitWindow(0, 0)

\* Mutant: the ring starts at slot 0, over the pinned prompt.
MapPosition_Mut(sw, p) ==
  LET circular == sw.window - sw.spl IN
  IF p < sw.spl THEN p
  ELSE IF circular <= 0 THEN sw.spl
  ELSE (p - sw.spl) % circular

\* sw_map_position(): the slot of logical position p.
MapPosition(sw, p) ==
  LET circular == sw.window - sw.spl IN
  IF p < sw.spl THEN p
  ELSE IF circular <= 0 THEN sw.spl
  ELSE sw.spl + ((p - sw.spl) % circular)

\* sw_valid_count(): how many positions a token at p attends to.
ValidCount(sw, p) == IF p + 1 > sw.window THEN sw.window ELSE p + 1

\* The logical position of the t-th of them: the last ones once p has
\* outgrown the window, the first ones otherwise.
HistoryPosition(sw, p, t) ==
  LET valid == ValidCount(sw, p) IN
  IF p >= valid THEN p - valid + 1 + t ELSE t

\* The slots the attention at position p reads, in the order it reads them.
ReadSlots(sw, p) ==
  [t \in 0 .. ValidCount(sw, p) - 1 |->
     MapPosition(sw, HistoryPosition(sw, p, t))]
=============================================================================
