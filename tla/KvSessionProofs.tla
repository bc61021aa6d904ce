-------------------------- MODULE KvSessionProofs --------------------------
(***************************************************************************)
(* The slots of the sliding window, and what the writers of the KV cache   *)
(* owe to each other, for every size of the cache, every prompt and every  *)
(* sequence of runs and injections.                                        *)
(***************************************************************************)
EXTENDS KvSessionProps, TLAPS

(* Division with remainder.                                                *)
LEMMA Remainder ==
  ASSUME NEW n \in Nat \ {0}, NEW a \in Nat
  PROVE  /\ a \div n \in Nat
         /\ a % n \in 0 .. n - 1
         /\ a = n * (a \div n) + (a % n)
BY Z3

(* A number below the divisor is its own remainder.                        *)
LEMMA SmallRemainder ==
  ASSUME NEW n \in Nat \ {0}, NEW a \in 0 .. n - 1
  PROVE  a % n = a
BY Z3

(* Two numbers less than n apart have different remainders.                *)
LEMMA RemaindersDiffer ==
  ASSUME NEW n \in Nat \ {0}, NEW a \in Nat, NEW b \in Nat,
         a < b, b < a + n
  PROVE  a % n # b % n
<1> DEFINE q == a \div n
           r == b \div n
<1>1. /\ q \in Nat /\ a % n \in 0 .. n - 1 /\ a = n * q + (a % n)
      /\ r \in Nat /\ b % n \in 0 .. n - 1 /\ b = n * r + (b % n)
  BY Remainder
<1>2. SUFFICES ASSUME a % n = b % n PROVE FALSE
  OBVIOUS
<1> HIDE DEF q, r
<1>3. n * r - n * q = b - a
  BY <1>1, <1>2, Z3
<1>4. n * (r - q) = b - a
  BY <1>1, <1>3, Z3
<1>5. n * (r - q) > 0 /\ n * (r - q) < n /\ r - q \in Int
  BY <1>1, <1>4
<1>6. CASE r - q <= 0
  <2>1. n * (r - q) <= 0
    BY <1>5, <1>6, Z3
  <2>2. QED
    BY <1>5, <2>1
<1>7. CASE r - q >= 1
  <2>1. n * (r - q) >= n
    BY <1>5, <1>7, Z3
  <2>2. QED
    BY <1>5, <2>1
<1>8. QED
  BY <1>5, <1>6, <1>7

-----------------------------------------------------------------------------
(* The window.                                                             *)

(* Below the size of the window a position is its own slot, whatever the   *)
(* length of the prompt (sliding_window.c:15 and :25).                     *)
THEOREM MapIdentity ==
  ASSUME NEW size \in Nat, NEW spl \in Nat, NEW p \in 0 .. size - 1
  PROVE  MapPosition(InitWindow(size, spl), p) = p
<1>1. CASE p < spl
  BY <1>1 DEF MapPosition, InitWindow
<1>2. CASE p >= spl
  <2>1. /\ size - spl \in Nat \ {0}
        /\ p - spl \in 0 .. (size - spl) - 1
    BY <1>2
  <2>2. (p - spl) % (size - spl) = p - spl
    BY <2>1, SmallRemainder
  <2>3. QED
    BY <1>2, <2>1, <2>2 DEF MapPosition, InitWindow
<1>3. QED
  BY <1>1, <1>2

(* A prompt shorter than the window leaves every position a slot, and no   *)
(* position behind the prompt ever gets one of the pinned slots            *)
(* (sliding_window.h:37-44).                                               *)
THEOREM MapInRange ==
  ASSUME NEW size \in Nat, NEW spl \in Nat, spl < size, NEW p \in Nat
  PROVE  /\ MapPosition(InitWindow(size, spl), p) \in 0 .. size - 1
         /\ p >= spl => MapPosition(InitWindow(size, spl), p) >= spl
<1>1. CASE p < spl
  BY <1>1 DEF MapPosition, InitWindow
<1>2. CASE p >= spl
  <2>1. size - spl \in Nat \ {0} /\ p - spl \in Nat
    BY <1>2
  <2>2. (p - spl) % (size - spl) \in 0 .. (size - spl) - 1
    BY <2>1, Remainder
  <2>3. QED
    BY <1>2, <2>1, <2>2 DEF MapPosition, InitWindow
<1>3. QED
  BY <1>1, <1>2

(* The ring keeps its last size - spl positions apart: until a whole turn  *)
(* later nothing overwrites a position behind the prompt.                  *)
THEOREM RingKeepsLastTurn ==
  ASSUME NEW size \in Nat, NEW spl \in Nat, spl < size,
         NEW p \in Nat, NEW q \in Nat,
         spl <= p, p < q, q < p + (size - spl)
  PROVE  MapPosition(InitWindow(size, spl), p)
           # MapPosition(InitWindow(size, spl), q)
<1>1. /\ size - spl \in Nat \ {0} /\ p - spl \in Nat /\ q - spl \in Nat
      /\ p - spl < q - spl /\ q - spl < (p - spl) + (size - spl)
  OBVIOUS
<1>2. (p - spl) % (size - spl) # (q - spl) % (size - spl)
  BY <1>1, RemaindersDiffer
<1>3. /\ (p - spl) % (size - spl) \in 0 .. (size - spl) - 1
      /\ (q - spl) % (size - spl) \in 0 .. (size - spl) - 1
  BY <1>1, Remainder
<1>4. QED
  BY <1>1, <1>2, <1>3 DEF MapPosition, InitWindow

-----------------------------------------------------------------------------
(* The invariant.                                                          *)

(* Which loops run in which execution mode, and with which window.         *)
Modal ==
  /\ mode \in {"memory", "asked", "agent", "tool"} => kind = "repl"
  /\ mode \in {"generate", "agent", "tool"} => sw.window = Window
  /\ mode \in {"prefix", "image"} => kind = "server" \/ sw = ZeroWindow

(* Injections advance current_pos one by one from 0, so the positions that *)
(* are blind are the first ones: slot 0 is one of them as soon as there    *)
(* are any.                                                                *)
BlindFirst == sw.window = 0 => blind = {t \in Slots : t < currentPos}

(* The exhausted cache of a server: a prefix was fed beyond the last slot, *)
(* and nothing is ever fed inside again.                                   *)
Exhausted == kind = "server" /\ currentPos > Window

NothingInside ==
  Exhausted => last.writer = "none" \/ last.pos >= Window

(* Every slot holds the token last fed at the position of its number.      *)
Intact ==
  ~Exhausted => \A t \in Slots \ blind : cache[t] = hist[t]

(* A running generation has fed `step` tokens from pos_offset on, and they *)
(* are all there.                                                          *)
Placed ==
  mode = "generate" =>
    /\ base = currentPos /\ sw.spl = nPrompt + base
    /\ fed = first + step
    /\ step > 0 => step + base <= Window
    /\ \A i \in 0 .. step - 1 : cache[base + i] = first + i + 1

(* Position t was fed by the present run of the agent: by the agent itself *)
(* or by the result of one of its tools.                                   *)
OfThisRun(t) ==
  /\ t \notin blind /\ hist[t] > first
  /\ by[t] = "agent" \/ (by[t] = "tool" /\ t < currentPos)

(* So were all positions the agent has passed; at a tool call it has fed   *)
(* its own one already.                                                    *)
AgentPlaced ==
  mode \in {"agent", "tool"} =>
    /\ first <= fed
    /\ \A t \in Slots :
         t < step \/ (mode = "tool" /\ t = step) => OfThisRun(t)

(* What the last pass of a loop found, the end of the loop included.       *)
Found ==
  /\ last.writer = "generate" =>
       \A t \in base .. last.pos : cache[t] = first + 1 + (t - base)
  /\ last.writer = "agent" => \A t \in 0 .. last.pos : OfThisRun(t)

IInv ==
  /\ TypeOK /\ Modal /\ BlindFirst /\ NothingInside /\ Intact /\ Placed
  /\ WritesInRange /\ AgentPlaced /\ Found

-----------------------------------------------------------------------------
(* One forward pass.                                                       *)

USE WindowAssumption

LEMMA SlotTyped ==
  ASSUME TypeOK, NEW p \in Nat
  PROVE  MapPosition(sw, p) \in Nat
<1>1. sw.window \in Nat /\ sw.spl \in Nat
  BY DEF TypeOK
<1>2. CASE p < sw.spl \/ sw.window - sw.spl <= 0
  BY <1>1, <1>2 DEF MapPosition
<1>3. CASE p >= sw.spl /\ sw.window - sw.spl > 0
  <2>1. sw.window - sw.spl \in Nat \ {0} /\ p - sw.spl \in Nat
    BY <1>1, <1>3
  <2>2. (p - sw.spl) % (sw.window - sw.spl) \in Nat
    BY <2>1, Remainder
  <2>3. QED
    BY <1>1, <1>3, <2>2 DEF MapPosition
<1>4. QED
  BY <1>1, <1>2, <1>3

LEMMA ForwardTyped ==
  ASSUME TypeOK, NEW writer \in Writers, NEW p \in Nat, Forward(writer, p)
  PROVE  /\ fed' = fed + 1 /\ fed' \in Nat
         /\ cache' \in [Slots -> Nat] /\ hist' \in [Slots -> Nat]
         /\ by' \in [Slots -> Writers \cup {"none"}]
         /\ blind' \subseteq Slots
         /\ last' \in [writer : Writers \cup {"none"}, pos : Nat, slot : Nat]
         /\ last'.writer = writer /\ last'.pos = p
         /\ last'.slot = MapPosition(sw, p)
         /\ UNCHANGED <<session, sw>>
<1> DEFINE slot == MapPosition(sw, p)
<1>1. slot \in Nat
  BY SlotTyped
<1>2. slot % Window \in Slots
  BY <1>1, Remainder DEF Slots
<1> HIDE DEF slot
<1>3. /\ fed' = fed + 1
      /\ \/ slot \in Slots /\ cache' = [cache EXCEPT ![slot] = fed + 1]
         \/ slot \notin Slots /\ cache' = cache
         \/ cache' = [cache EXCEPT ![slot % Window] = fed + 1]
      /\ hist' = IF p \in Slots THEN [hist EXCEPT ![p] = fed + 1] ELSE hist
      /\ by' = IF p \in Slots THEN [by EXCEPT ![p] = writer] ELSE by
      /\ blind' = IF sw.window = 0 THEN blind \cup ({p} \cap Slots)
                                   ELSE blind \ {p}
      /\ last' = [writer |-> writer, pos |-> p, slot |-> slot]
      /\ UNCHANGED <<session, sw>>
  BY DEF Forward, slot
<1>4. /\ fed \in Nat /\ cache \in [Slots -> Nat] /\ hist \in [Slots -> Nat]
      /\ by \in [Slots -> Writers \cup {"none"}] /\ blind \subseteq Slots
  BY DEF TypeOK
<1>5. fed' \in Nat
  BY <1>3, <1>4
<1>6. cache' \in [Slots -> Nat]
  BY <1>2, <1>3, <1>4, <1>5
<1>7. hist' \in [Slots -> Nat] /\ blind' \subseteq Slots
  BY <1>3, <1>4, <1>5
<1>8. by' \in [Slots -> Writers \cup {"none"}]
  BY <1>3, <1>4
<1>9. QED
  BY <1>1, <1>3, <1>5, <1>6, <1>7, <1>8 DEF slot

(* A position inside an initialised window is its own slot.                *)
LEMMA OwnSlot ==
  ASSUME TypeOK, sw.window = Window, NEW p \in Slots
  PROVE  MapPosition(sw, p) = p
<1>1. sw.spl \in Nat /\ sw = InitWindow(Window, sw.spl)
  BY DEF TypeOK, InitWindow
<1>2. p \in 0 .. Window - 1
  BY DEF Slots
<1>3. QED
  BY <1>1, <1>2, MapIdentity

LEMMA ForwardInside ==
  ASSUME TypeOK, sw.window = Window, NEW writer \in Writers,
         NEW p \in Slots, Forward(writer, p)
  PROVE  /\ cache' = [cache EXCEPT ![p] = fed + 1]
         /\ hist' = [hist EXCEPT ![p] = fed + 1]
         /\ by' = [by EXCEPT ![p] = writer]
         /\ blind' = blind \ {p}
         /\ last'.slot = p
<1>1. MapPosition(sw, p) = p
  BY OwnSlot
<1>2. Window # 0
  OBVIOUS
<1>3. QED
  BY <1>1, <1>2 DEF Forward

(* Before the window is initialised every position has slot 0.             *)
LEMMA ForwardBlind ==
  ASSUME TypeOK, sw.window = 0, NEW writer \in Writers, NEW p \in Nat,
         Forward(writer, p)
  PROVE  /\ cache' = [cache EXCEPT ![0] = fed + 1]
         /\ hist' = IF p \in Slots THEN [hist EXCEPT ![p] = fed + 1] ELSE hist
         /\ blind' = blind \cup ({p} \cap Slots)
         /\ last'.slot = 0
<1>1. sw = ZeroWindow
  BY DEF TypeOK
<1>2. MapPosition(sw, p) = 0
  BY <1>1 DEF MapPosition, ZeroWindow, InitWindow
<1>3. 0 \in Slots
  BY DEF Slots
<1>4. QED
  BY <1>2, <1>3 DEF Forward

(* What a forward pass inside the cache, or before the window is           *)
(* initialised, leaves true.                                               *)
LEMMA ForwardIntact ==
  ASSUME TypeOK, BlindFirst, Intact, NEW writer \in Writers, NEW p \in Nat,
         Forward(writer, p), ~Exhausted,
         \/ sw.window = Window /\ p \in Slots
         \/ sw.window = 0 /\ p = currentPos
  PROVE  \A t \in Slots \ blind' : cache'[t] = hist'[t]
<1>1. /\ cache \in [Slots -> Nat] /\ hist \in [Slots -> Nat]
      /\ blind \subseteq Slots /\ fed \in Nat /\ currentPos \in Nat
      /\ \A t \in Slots \ blind : cache[t] = hist[t]
  BY DEF TypeOK, Intact
<1>2. CASE sw.window = Window /\ p \in Slots
  <2>1. /\ cache' = [cache EXCEPT ![p] = fed + 1]
        /\ hist' = [hist EXCEPT ![p] = fed + 1]
        /\ blind' = blind \ {p}
    BY <1>2, ForwardInside
  <2>2. QED
    BY <1>1, <2>1
<1>3. CASE sw.window = 0 /\ p = currentPos
  <2>1. /\ cache' = [cache EXCEPT ![0] = fed + 1]
        /\ hist' = IF p \in Slots THEN [hist EXCEPT ![p] = fed + 1] ELSE hist
        /\ blind' = blind \cup ({p} \cap Slots)
    BY <1>3, ForwardBlind
  <2>0. 0 \in Slots
    BY DEF Slots
  <2>2. 0 \in blind'
    <3>1. CASE currentPos = 0
      BY <1>3, <2>0, <2>1, <3>1
    <3>2. CASE currentPos > 0
      BY <1>3, <2>0, <2>1, <3>2 DEF BlindFirst
    <3>3. QED
      BY <1>1, <3>1, <3>2
  <2>3. ASSUME NEW t \in Slots \ blind'
        PROVE  cache'[t] = hist'[t]
    <3>1. t # 0 /\ t # p /\ t \in Slots \ blind
      BY <2>1, <2>2, <2>3
    <3>2. cache'[t] = cache[t]
      BY <1>1, <2>1, <3>1
    <3>3. hist'[t] = hist[t]
      BY <1>1, <2>1, <3>1
    <3>4. QED
      BY <1>1, <3>1, <3>2, <3>3
  <2>4. QED
    BY <2>3
<1>4. QED
  BY <1>2, <1>3

-----------------------------------------------------------------------------
(* The steps.                                                              *)

(* Steps that feed nothing and start no generation.                        *)
LEMMA QuietStep ==
  ASSUME IInv,
         UNCHANGED <<session, sw, currentPos, cache, fed, history>>,
         mode' \in Modes, step' \in Nat, left' \in Nat, emitted' \in Nat,
         mode' = "generate" => mode = "generate" /\ step' = step,
         mode' \in {"agent", "tool"} =>
           \/ mode' = mode /\ step' = step
           \/ mode = "tool" /\ mode' = "agent" /\ step' = step + 1,
         Modal'
  PROVE  IInv'
<1>1. UNCHANGED <<kind, nPrompt, limit, base, first, hist, by, blind, last>>
  BY DEF session, history
<1>2. TypeOK'
  BY <1>1 DEF IInv, TypeOK
<1>3. BlindFirst' /\ NothingInside' /\ Intact' /\ WritesInRange'
  BY <1>1 DEF IInv, BlindFirst, NothingInside, Intact, Exhausted,
              WritesInRange
<1>4. Placed'
  BY <1>1 DEF IInv, Placed
<1>5. \A t : OfThisRun(t) => OfThisRun(t)'
  BY <1>1 DEF OfThisRun
<1>6. Found'
  BY <1>1, <1>5 DEF IInv, Found
<1>7. AgentPlaced'
  <2>1. SUFFICES ASSUME mode' \in {"agent", "tool"}
                 PROVE  AgentPlaced'
    BY DEF AgentPlaced
  <2>2. mode \in {"agent", "tool"} /\ step \in Nat
    BY <2>1 DEF IInv, TypeOK
  <2>3. \A t \in Slots : t < step' \/ (mode' = "tool" /\ t = step')
                          => t < step \/ (mode = "tool" /\ t = step)
    BY <2>1, <2>2 DEF Slots
  <2>4. QED
    BY <1>1, <1>5, <2>2, <2>3 DEF IInv, AgentPlaced
<1>8. QED
  BY <1>2, <1>3, <1>4, <1>6, <1>7 DEF IInv

(* One token of an injection.                                              *)
LEMMA InjectStep ==
  ASSUME IInv, NEW writer \in {"prefix", "image", "memory", "tool"},
         Inject(writer), writer = "prefix" \/ currentPos < Window
  PROVE  IInv'
<1> DEFINE p == currentPos
<1>1. /\ mode = writer /\ Forward(writer, p) /\ left > 0
      /\ p' = p + 1 /\ left' = left - 1
      /\ UNCHANGED <<mode, step, emitted>>
  BY DEF Inject
<1>2. TypeOK /\ p \in Nat /\ writer \in Writers /\ left \in Nat
  BY DEF IInv, TypeOK, Writers
<1>3. /\ fed' = fed + 1 /\ fed' \in Nat
      /\ cache' \in [Slots -> Nat] /\ hist' \in [Slots -> Nat]
      /\ by' \in [Slots -> Writers \cup {"none"}] /\ blind' \subseteq Slots
      /\ last' \in [writer : Writers \cup {"none"}, pos : Nat, slot : Nat]
      /\ last'.writer = writer /\ last'.pos = p
      /\ UNCHANGED <<session, sw>>
  BY <1>1, <1>2, ForwardTyped
<1>4. UNCHANGED <<kind, nPrompt, limit, base, first>>
  BY <1>3 DEF session
<1>5. TypeOK'
  BY <1>1, <1>2, <1>3, <1>4 DEF TypeOK
<1>6. Modal'
  BY <1>1, <1>3, <1>4 DEF IInv, Modal
<1>7. Placed'
  BY <1>1 DEF Placed
<1>8. BlindFirst'
  <2>1. CASE sw.window = 0
    <3>1. blind' = blind \cup ({p} \cap Slots)
      BY <1>1, <1>2, <2>1, ForwardBlind
    <3>2. blind = {t \in Slots : t < p}
      BY <2>1 DEF IInv, BlindFirst
    <3>3. blind' = {t \in Slots : t < p + 1}
      <4>1. \A t \in Slots : (t < p \/ t = p) <=> t < p + 1
        BY <1>2 DEF Slots
      <4>2. \A t : t \in blind' <=> t \in Slots /\ (t < p \/ t = p)
        BY <3>1, <3>2, Zenon
      <4>3. QED
        BY <4>1, <4>2
    <3>4. QED
      BY <1>1, <3>3 DEF BlindFirst
  <2>2. CASE sw.window # 0
    BY <1>3, <2>2 DEF BlindFirst
  <2>3. QED
    BY <2>1, <2>2
<1>m. AgentPlaced' /\ Found'
  <2>1. Found'
    BY <1>3 DEF Found
  <2>2. CASE writer # "tool"
    BY <1>1, <2>1, <2>2 DEF AgentPlaced
  <2>3. CASE writer = "tool"
    <3>1. /\ mode = "tool" /\ sw.window = Window /\ p \in Slots
          /\ first <= fed /\ first \in Nat /\ fed \in Nat
          /\ hist \in [Slots -> Nat]
          /\ by \in [Slots -> Writers \cup {"none"}]
          /\ \A t \in Slots : t < step \/ t = step => OfThisRun(t)
      BY <1>1, <1>2, <2>3 DEF IInv, TypeOK, Modal, AgentPlaced, Slots
    <3>2. /\ hist' = [hist EXCEPT ![p] = fed + 1]
          /\ by' = [by EXCEPT ![p] = "tool"]
          /\ blind' = blind \ {p}
      BY <1>1, <1>2, <2>3, <3>1, ForwardInside
    <3>3. ASSUME NEW t \in Slots, t < step \/ t = step
          PROVE  OfThisRun(t)'
      <4>1. CASE t = p
        <5>1. hist'[t] = fed + 1 /\ by'[t] = "tool" /\ t \notin blind'
          BY <3>1, <3>2, <4>1
        <5>2. t < currentPos' /\ hist'[t] > first'
          BY <1>1, <1>2, <1>4, <3>1, <4>1, <5>1
        <5>3. QED
          BY <5>1, <5>2 DEF OfThisRun
      <4>2. CASE t # p
        <5>1. OfThisRun(t)
          BY <3>1, <3>3
        <5>2. hist'[t] = hist[t] /\ by'[t] = by[t] /\ t \in Nat
          BY <3>1, <3>2, <4>2 DEF Slots
        <5>3. QED
          BY <1>1, <1>2, <1>4, <3>2, <5>1, <5>2 DEF OfThisRun
      <4>3. QED
        BY <4>1, <4>2
    <3>4. first' <= fed'
      BY <1>3, <1>4, <3>1
    <3>5. QED
      BY <1>1, <2>1, <3>3, <3>4 DEF AgentPlaced
  <2>4. QED
    BY <2>2, <2>3
<1>9. CASE (sw.window = Window /\ p \in Slots) \/ sw.window = 0
  <2>1. last'.slot \in Slots
    BY <1>1, <1>2, <1>9, ForwardInside, ForwardBlind DEF Slots
  <2>2. WritesInRange'
    BY <2>1 DEF WritesInRange
  <2>3. NothingInside'
    BY <1>1, <1>2, <1>3, <1>4 DEF NothingInside, Exhausted
  <2>4. Intact'
    <3>1. CASE Exhausted
      BY <1>1, <1>2, <1>4, <3>1 DEF Intact, Exhausted
    <3>2. CASE ~Exhausted
      <4>1. \A t \in Slots \ blind' : cache'[t] = hist'[t]
        BY <1>1, <1>2, <1>9, <3>2, ForwardIntact DEF IInv
      <4>2. QED
        BY <4>1 DEF Intact
    <3>3. QED
      BY <3>1, <3>2
  <2>5. QED
    BY <1>5, <1>6, <1>7, <1>8, <1>m, <2>2, <2>3, <2>4 DEF IInv
<1>10. CASE sw.window = Window /\ p \notin Slots
  <2>1. p >= Window /\ writer = "prefix" /\ kind = "server"
    BY <1>1, <1>2, <1>10 DEF IInv, Modal, Slots, ZeroWindow, InitWindow
  <2>2. Exhausted'
    BY <1>1, <1>2, <1>4, <2>1 DEF Exhausted
  <2>3. NothingInside' /\ Intact' /\ WritesInRange'
    BY <1>3, <1>4, <2>1, <2>2
       DEF NothingInside, Intact, WritesInRange, Exhausted
  <2>4. QED
    BY <1>5, <1>6, <1>7, <1>8, <1>m, <2>3 DEF IInv
<1>11. QED
  BY <1>2, <1>9, <1>10 DEF TypeOK

(* The start of a loop.                                                    *)
LEMMA StartStep ==
  ASSUME IInv, NEW loop \in {"generate", "agent"}, NEW offset \in Nat,
         Start(loop, offset),
         loop = "generate" => offset = currentPos,
         loop = "agent" => kind = "repl"
  PROVE  IInv'
<1>2. TypeOK /\ currentPos \in Nat
  BY DEF IInv, TypeOK
<1>3. /\ nPrompt' \in Nat /\ limit' \in Int
      /\ sw' = [window |-> Window, spl |-> nPrompt' + offset]
      /\ base' = offset /\ first' = fed
      /\ mode' = loop /\ step' = 0 /\ emitted' = 0 /\ last' = NoPass
      /\ UNCHANGED <<kind, currentPos, cache, left, fed, hist, by, blind>>
  BY InputsAssumption DEF Start, InitWindow
<1>4. /\ sw' \in [window : {0, Window}, spl : Nat]
      /\ sw'.window = Window /\ sw'.spl = nPrompt' + offset
  <2>1. PICK n \in Nat : n = nPrompt'
    BY <1>3
  <2>2. n + offset \in Nat
    OBVIOUS
  <2>3. sw' = [window |-> Window, spl |-> n + offset]
    BY <1>3, <2>1
  <2>4. QED
    BY <2>1, <2>2, <2>3
<1>5. TypeOK'
  BY <1>2, <1>3, <1>4 DEF TypeOK, Modes, NoPass
<1>6. Modal' /\ BlindFirst'
  BY <1>3, <1>4 DEF Modal, BlindFirst
<1>7. NothingInside' /\ Intact' /\ WritesInRange'
  BY <1>3 DEF IInv, NothingInside, Intact, WritesInRange, Exhausted, NoPass
<1>8. Placed'
  BY <1>2, <1>3, <1>4 DEF Placed, TypeOK
<1>9. AgentPlaced' /\ Found'
  <2>1. Found'
    BY <1>3 DEF Found, NoPass
  <2>2. \A t \in Slots : ~(t < step') /\ mode' # "tool"
    BY <1>3 DEF Slots
  <2>3. first' <= fed'
    BY <1>2, <1>3 DEF TypeOK
  <2>4. QED
    BY <2>1, <2>2, <2>3 DEF AgentPlaced
<1>10. QED
  BY <1>5, <1>6, <1>7, <1>8, <1>9 DEF IInv

(* One token of a generation.                                              *)
LEMMA GenerateFeeds ==
  ASSUME IInv, GenerateStep
  PROVE  IInv'
<1> DEFINE p == step + base
<1>1. /\ mode = "generate" /\ p < Window /\ Forward("generate", p)
      /\ mode' \in {"generate", "idle", "done"}
      /\ mode' = "generate" => step' = step + 1
      /\ step' \in {step, step + 1} /\ emitted' \in {emitted, emitted + 1}
      /\ UNCHANGED <<currentPos, left>>
  BY DEF GenerateStep, MoreSteps, AbsolutePosition, AfterGenerate
<1>2. /\ TypeOK /\ step \in Nat /\ base \in Nat /\ emitted \in Nat
      /\ currentPos \in Nat /\ fed \in Nat /\ first \in Nat
      /\ cache \in [Slots -> Nat]
      /\ base = currentPos /\ fed = first + step
      /\ sw.window = Window /\ sw.spl = nPrompt + base
      /\ \A i \in 0 .. step - 1 : cache[base + i] = first + i + 1
      /\ step > 0 => p <= Window
  BY <1>1 DEF IInv, TypeOK, Placed, Modal
<1>3. p \in Slots /\ "generate" \in Writers /\ p \in Nat
  BY <1>1, <1>2 DEF Slots, Writers
<1>4. /\ fed' = fed + 1 /\ fed' \in Nat
      /\ cache' \in [Slots -> Nat] /\ hist' \in [Slots -> Nat]
      /\ by' \in [Slots -> Writers \cup {"none"}] /\ blind' \subseteq Slots
      /\ last' \in [writer : Writers \cup {"none"}, pos : Nat, slot : Nat]
      /\ UNCHANGED <<session, sw>>
  BY <1>1, <1>2, <1>3, ForwardTyped
<1>5. UNCHANGED <<kind, nPrompt, limit, base, first>>
  BY <1>4 DEF session
<1>6. cache' = [cache EXCEPT ![p] = fed + 1] /\ last'.slot = p
  BY <1>1, <1>2, <1>3, ForwardInside
<1>7. TypeOK'
  BY <1>1, <1>2, <1>4, <1>5 DEF TypeOK, Modes
<1>8. Modal' /\ BlindFirst' /\ WritesInRange'
  BY <1>1, <1>2, <1>3, <1>4, <1>5, <1>6
     DEF IInv, Modal, BlindFirst, WritesInRange
<1>9. ~Exhausted /\ ~Exhausted'
  BY <1>1, <1>2, <1>5 DEF Exhausted
<1>10. NothingInside' /\ Intact'
  <2>1. \A t \in Slots \ blind' : cache'[t] = hist'[t]
    BY <1>1, <1>2, <1>3, <1>9, ForwardIntact DEF IInv
  <2>2. QED
    BY <1>9, <2>1 DEF NothingInside, Intact
<1>11. Placed'
  <2>1. SUFFICES ASSUME mode' = "generate" PROVE Placed'
    BY DEF Placed
  <2>2. step' = step + 1 /\ p + 1 <= Window
    BY <1>1, <1>2, <2>1
  <2>3. ASSUME NEW i \in 0 .. step
        PROVE  cache'[base + i] = first + i + 1
    <3>1. base + i \in Slots
      BY <1>2, <1>3, <2>3 DEF Slots
    <3>2. CASE i = step
      BY <1>2, <1>3, <1>6, <3>2
    <3>3. CASE i < step
      <4>1. base + i # p /\ i \in 0 .. step - 1
        BY <1>2, <2>3, <3>3
      <4>2. QED
        BY <1>2, <1>6, <3>1, <4>1
    <3>4. QED
      BY <1>2, <2>3, <3>2, <3>3
  <2>4. QED
    BY <1>1, <1>2, <1>4, <1>5, <2>2, <2>3 DEF Placed
<1>12. AgentPlaced' /\ Found'
  <2>1. last'.writer = "generate" /\ last'.pos = p
    BY <1>1, <1>2, <1>3, ForwardTyped
  <2>2. ASSUME NEW t \in base .. p
        PROVE  cache'[t] = first + 1 + (t - base)
    <3>1. t \in Slots
      BY <1>1, <1>2, <2>2 DEF Slots
    <3>2. CASE t = p
      BY <1>2, <1>3, <1>6, <3>2
    <3>3. CASE t # p
      <4>1. t - base \in 0 .. step - 1 /\ base + (t - base) = t
        BY <1>2, <2>2, <3>3
      <4>2. cache[t] = first + (t - base) + 1
        BY <1>2, <4>1
      <4>3. cache'[t] = cache[t]
        BY <1>2, <1>6, <3>1, <3>3
      <4>4. QED
        BY <1>2, <4>1, <4>2, <4>3
    <3>4. QED
      BY <3>2, <3>3
  <2>3. Found'
    BY <1>5, <2>1, <2>2 DEF Found
  <2>4. QED
    BY <1>1, <2>3 DEF AgentPlaced
<1>13. QED
  BY <1>7, <1>8, <1>10, <1>11, <1>12 DEF IInv

(* One token of the agent.                                                 *)
LEMMA AgentFeeds ==
  ASSUME IInv, AgentStep
  PROVE  IInv'
<1>1. /\ mode = "agent" /\ step < Window /\ Forward("agent", step)
      /\ mode' \in {"agent", "idle", "tool"}
      /\ mode' = "agent" => step' = step + 1
      /\ mode' = "tool" => step' = step
      /\ step' \in {step, step + 1} /\ left' \in {left} \cup Nat
      /\ UNCHANGED <<currentPos, emitted>>
  BY InputsAssumption DEF AgentStep
<1>2. /\ TypeOK /\ step \in Nat /\ sw.window = Window /\ kind = "repl"
      /\ left \in Nat
  BY <1>1 DEF IInv, TypeOK, Modal
<1>3. step \in Slots /\ "agent" \in Writers
  BY <1>1, <1>2 DEF Slots, Writers
<1>4. /\ fed' = fed + 1 /\ fed' \in Nat
      /\ cache' \in [Slots -> Nat] /\ hist' \in [Slots -> Nat]
      /\ by' \in [Slots -> Writers \cup {"none"}] /\ blind' \subseteq Slots
      /\ last' \in [writer : Writers \cup {"none"}, pos : Nat, slot : Nat]
      /\ UNCHANGED <<session, sw>>
  BY <1>1, <1>2, <1>3, ForwardTyped
<1>5. UNCHANGED <<kind, nPrompt, limit, base, first>>
  BY <1>4 DEF session
<1>6. last'.slot = step
  BY <1>1, <1>2, <1>3, ForwardInside
<1>7. TypeOK'
  BY <1>1, <1>2, <1>4, <1>5 DEF TypeOK, Modes
<1>8. Modal' /\ BlindFirst' /\ WritesInRange' /\ Placed'
  BY <1>1, <1>2, <1>3, <1>4, <1>5, <1>6
     DEF Modal, BlindFirst, WritesInRange, Placed
<1>9. ~Exhausted /\ ~Exhausted'
  BY <1>2, <1>5 DEF Exhausted
<1>10. NothingInside' /\ Intact'
  <2>1. \A t \in Slots \ blind' : cache'[t] = hist'[t]
    BY <1>1, <1>2, <1>3, <1>9, ForwardIntact DEF IInv
  <2>2. QED
    BY <1>9, <2>1 DEF NothingInside, Intact
<1>11. AgentPlaced' /\ Found'
  <2>1. /\ first <= fed /\ first \in Nat /\ fed \in Nat
        /\ currentPos \in Nat /\ hist \in [Slots -> Nat]
        /\ by \in [Slots -> Writers \cup {"none"}]
        /\ \A t \in Slots : t < step => OfThisRun(t)
    BY <1>1, <1>2 DEF IInv, TypeOK, AgentPlaced
  <2>2. /\ hist' = [hist EXCEPT ![step] = fed + 1]
        /\ by' = [by EXCEPT ![step] = "agent"]
        /\ blind' = blind \ {step}
        /\ last'.writer = "agent" /\ last'.pos = step
    BY <1>1, <1>2, <1>3, ForwardInside, ForwardTyped
  <2>3. ASSUME NEW t \in Slots, t < step \/ t = step
        PROVE  OfThisRun(t)'
    <3>1. CASE t = step
      <4>1. hist'[t] = fed + 1 /\ by'[t] = "agent" /\ t \notin blind'
        BY <2>1, <2>2, <3>1
      <4>2. hist'[t] > first'
        BY <1>5, <2>1, <4>1
      <4>3. QED
        BY <4>1, <4>2 DEF OfThisRun
    <3>2. CASE t # step
      <4>1. OfThisRun(t) /\ hist'[t] = hist[t] /\ by'[t] = by[t]
        BY <2>1, <2>2, <2>3, <3>2
      <4>2. QED
        BY <1>1, <1>5, <2>2, <4>1 DEF OfThisRun
    <3>3. QED
      BY <3>1, <3>2
  <2>4. Found'
    <3>1. \A t \in 0 .. step : t \in Slots /\ (t < step \/ t = step)
      BY <1>2, <1>3 DEF Slots
    <3>2. QED
      BY <2>2, <2>3, <3>1 DEF Found
  <2>5. AgentPlaced'
    <3>1. first' <= fed'
      BY <1>4, <1>5, <2>1
    <3>2. \A t \in Slots : t < step' \/ (mode' = "tool" /\ t = step')
                             => mode' = "idle" \/ t < step \/ t = step
      BY <1>1, <1>2 DEF Slots
    <3>3. QED
      BY <2>3, <3>1, <3>2 DEF AgentPlaced
  <2>6. QED
    BY <2>4, <2>5
<1>12. QED
  BY <1>7, <1>8, <1>10, <1>11 DEF IInv

-----------------------------------------------------------------------------
(* The theorems.                                                           *)

LEMMA InitIInv == Init => IInv
<1>1. SUFFICES ASSUME Init PROVE IInv
  OBVIOUS
<1>2. TypeOK
  BY <1>1 DEF Init, TypeOK, ZeroWindow, InitWindow, Kinds, Modes, NoPass
<1>3. BlindFirst
  BY <1>1 DEF Init, BlindFirst, Slots
<1>4. Modal /\ NothingInside /\ Intact /\ Placed /\ WritesInRange
  BY <1>1 DEF Init, Modal, NothingInside, Intact, Placed, WritesInRange,
              NoPass, ZeroWindow, InitWindow
<1>5. AgentPlaced /\ Found
  BY <1>1 DEF Init, AgentPlaced, Found, NoPass
<1>6. QED
  BY <1>2, <1>3, <1>4, <1>5 DEF IInv

LEMMA NextIInv == IInv /\ [Next]_vars => IInv'
<1> SUFFICES ASSUME IInv, [Next]_vars PROVE IInv'
  OBVIOUS
<1>t. /\ mode \in Modes /\ step \in Nat /\ left \in Nat /\ emitted \in Nat
      /\ Modal
  BY DEF IInv, TypeOK
<1>1. CASE BeginImage
  <2>1. left' \in Nat
    BY <1>1, InputsAssumption DEF BeginImage
  <2>2. Modal'
    BY <1>1, <1>t DEF BeginImage, Modal, session
  <2>3. QED
    BY <1>1, <1>t, <2>1, <2>2, QuietStep DEF BeginImage, Modes
<1>2. CASE FeedPrefix
  BY <1>2, InjectStep DEF FeedPrefix
<1>3. CASE PrefixDone
  <2>1. left' \in Nat
    BY <1>3, InputsAssumption DEF PrefixDone
  <2>2. Modal'
    BY <1>3, <1>t DEF PrefixDone, Modal, session
  <2>3. QED
    BY <1>3, <1>t, <2>1, <2>2, QuietStep DEF PrefixDone, Modes
<1>4. CASE FeedPatch
  BY <1>4, InjectStep DEF FeedPatch
<1>5. CASE ImageDone
  <2>1. Modal'
    BY <1>5, <1>t DEF ImageDone, InjectionEnds, Modal, session
  <2>2. QED
    BY <1>5, <1>t, <2>1, QuietStep DEF ImageDone, InjectionEnds, Modes
<1>6. CASE BeginMemory
  <2>1. left' \in Nat
    BY <1>6, InputsAssumption DEF BeginMemory
  <2>2. Modal'
    BY <1>6, <1>t DEF BeginMemory, Modal, session
  <2>3. QED
    BY <1>6, <1>t, <2>1, <2>2, QuietStep DEF BeginMemory, Modes
<1>7. CASE FeedText
  BY <1>7, InjectStep DEF FeedText
<1>8. CASE MemoryDone
  <2>1. Modal'
    BY <1>8, <1>t DEF MemoryDone, InjectionEnds, Modal, session
  <2>2. QED
    BY <1>8, <1>t, <2>1, QuietStep DEF MemoryDone, InjectionEnds, Modes
<1>9. CASE StartGenerate
  <2>1. currentPos \in Nat
    BY DEF IInv, TypeOK
  <2>2. QED
    BY <1>9, <2>1, StartStep DEF StartGenerate
<1>10. CASE GenerateStep
  BY <1>10, GenerateFeeds
<1>11. CASE GenerateEnds
  <2>1. mode' \in {"idle", "done"}
    BY <1>11 DEF GenerateEnds, AfterGenerate
  <2>2. Modal'
    BY <1>11, <2>1, <1>t DEF GenerateEnds, Modal, session
  <2>3. QED
    BY <1>11, <1>t, <2>1, <2>2, QuietStep DEF GenerateEnds, Modes
<1>12. CASE StartAgent
  BY <1>12, StartStep DEF StartAgent
<1>13. CASE AgentStep
  BY <1>13, AgentFeeds
<1>14. CASE ToolDone
  <2>1. Modal'
    BY <1>14, <1>t DEF ToolDone, InjectionEnds, Modal, session
  <2>2. QED
    BY <1>14, <1>t, <2>1, QuietStep DEF ToolDone, InjectionEnds, Modes
<1>15. CASE AgentEnds
  <2>1. Modal'
    BY <1>15, <1>t DEF AgentEnds, Modal, session
  <2>2. QED
    BY <1>15, <1>t, <2>1, QuietStep DEF AgentEnds, Modes
<1>16. CASE GenerateFails
  <2>1. mode' \in {"idle", "done"}
    BY <1>16 DEF GenerateFails, AfterGenerate
  <2>2. Modal'
    BY <1>16, <2>1, <1>t DEF GenerateFails, Modal, session
  <2>3. QED
    BY <1>16, <1>t, <2>1, <2>2, QuietStep DEF GenerateFails, Modes
<1>17. CASE UNCHANGED vars
  <2>1. Modal'
    BY <1>17, <1>t DEF vars, session, Modal
  <2>2. QED
    BY <1>17, <1>t, <2>1, QuietStep DEF vars, history
<1>18. QED
  BY <1>1, <1>2, <1>3, <1>4, <1>5, <1>6, <1>7, <1>8, <1>9, <1>10, <1>11,
     <1>12, <1>13, <1>14, <1>15, <1>16, <1>17 DEF Next

(* The invariant holds in every state.                                     *)
THEOREM Invariance == Spec => []IInv
BY InitIInv, NextIInv, PTL DEF Spec

(* Every variable keeps its type.                                          *)
THEOREM TypeCorrect == Spec => []TypeOK
<1>1. IInv => TypeOK
  BY DEF IInv
<1>2. QED
  BY <1>1, Invariance, PTL

(* Nothing but a chat prefix of an exhausted server is ever stored outside *)
(* the cache.                                                              *)
THEOREM StoresInRange == Spec => []WritesInRange
<1>1. IInv => WritesInRange
  BY DEF IInv
<1>2. QED
  BY <1>1, Invariance, PTL

(* A pass finds the token last fed at every position that was not fed      *)
(* blindly: a generation its own ones from pos_offset on, the agent those  *)
(* of its run and of the results its tools injected.                       *)
THEOREM ContextComplete == Spec => []SeesWholeContext
<1>1. IInv => SeesWholeContext
  <2> SUFFICES ASSUME IInv, last.writer # "none", last.pos < Window,
                      sw.window > 0
               PROVE  SeesWholeContext
    BY DEF SeesWholeContext
  <2> DEFINE p == last.pos
  <2>1. /\ TypeOK /\ p \in Nat /\ p < Window /\ sw.window = Window
        /\ base \in Nat
    BY DEF IInv, TypeOK
  <2>2. ValidCount(sw, p) = p + 1
    BY <2>1 DEF ValidCount
  <2>3. \A t \in 0 .. p : HistoryPosition(sw, p, t) = t
    BY <2>1, <2>2 DEF HistoryPosition
  <2>4. DOMAIN ReadSlots(sw, p) = 0 .. p
    BY <2>1, <2>2 DEF ReadSlots
  <2>5. ASSUME NEW t \in 0 .. p
        PROVE  t \in Slots /\ Seen(p, t) = cache[t]
    <3>1. t \in Slots
      BY <2>1, <2>5 DEF Slots
    <3>2. ReadSlots(sw, p)[t] = t
      BY <2>1, <2>2, <2>3, <2>5, <3>1, OwnSlot DEF ReadSlots
    <3>3. QED
      BY <3>1, <3>2 DEF Seen
  <2>6. \A t \in (0 .. p) \ blind : Seen(p, t) = hist[t]
    <3>1. ~Exhausted
      BY <2>1 DEF IInv, NothingInside
    <3>2. QED
      BY <2>5, <3>1 DEF IInv, Intact
  <2>7. last.writer = "generate" =>
          \A t \in base .. p : Seen(p, t) = first + 1 + (t - base)
    <3>1. \A t \in base .. p : t \in 0 .. p
      BY <2>1
    <3>2. QED
      BY <2>5, <3>1 DEF IInv, Found
  <2>8. last.writer = "agent" =>
          \A t \in 0 .. p :
            /\ Seen(p, t) = hist[t] /\ hist[t] > first
            /\ by[t] = "agent" \/ (by[t] = "tool" /\ t < currentPos)
    BY <2>6 DEF IInv, Found, OfThisRun
  <2> HIDE DEF p
  <2>9. QED
    BY <2>4, <2>6, <2>7, <2>8 DEF SeesWholeContext, p
<1>2. QED
  BY <1>1, Invariance, PTL

(* A generation never loses a token of its prompt.                         *)
THEOREM PromptStays == Spec => []PromptPinned
<1>1. IInv => PromptPinned
  <2> SUFFICES ASSUME IInv, mode = "generate", NEW i \in 0 .. nPrompt - 1,
                      i < fed - first
               PROVE  cache[MapPosition(sw, base + i)] = first + i + 1
    BY DEF PromptPinned
  <2>1. /\ base \in Nat /\ step \in Nat /\ first \in Nat /\ nPrompt \in Nat
        /\ fed = first + step
        /\ \A j \in 0 .. step - 1 : cache[base + j] = first + j + 1
        /\ sw.spl = nPrompt + base
    BY DEF IInv, TypeOK, Placed
  <2>2. MapPosition(sw, base + i) = base + i
    BY <2>1 DEF MapPosition
  <2>3. i \in 0 .. step - 1
    BY <2>1
  <2>4. QED
    BY <2>1, <2>2, <2>3
<1>2. QED
  BY <1>1, Invariance, PTL

(* How many tokens a running generation has emitted: none in its prompt,   *)
(* then one in every step, the last step of the prompt included.           *)
Counted ==
  mode = "generate" =>
    emitted = IF step < nPrompt THEN 0
              ELSE IF nPrompt = 0 THEN step ELSE step - nPrompt + 1

(* A generation emits at most one token more than max_tokens.              *)
THEOREM BudgetKept == Spec => []TokenBudget
<1> DEFINE B == Counted /\ TokenBudget
<1>1. Init => B
  BY DEF Init, Counted, TokenBudget
<1>2. IInv /\ B /\ [Next]_vars => B'
  <2> SUFFICES ASSUME IInv, B, [Next]_vars PROVE B'
    OBVIOUS
  <2>1. CASE StartGenerate \/ StartAgent
    <3>1. emitted' = 0 /\ step' = 0 /\ nPrompt' \in Nat
      BY <2>1 DEF StartGenerate, StartAgent, Start
    <3>2. Counted'
      <4>1. CASE nPrompt' = 0
        <5>1. ~(step' < nPrompt')
          BY <3>1, <4>1
        <5>2. QED
          BY <3>1, <4>1, <5>1 DEF Counted
      <4>2. CASE nPrompt' # 0
        <5>1. step' < nPrompt'
          BY <3>1, <4>2
        <5>2. QED
          BY <3>1, <5>1 DEF Counted
      <4>3. QED
        BY <4>1, <4>2
    <3>3. ~(emitted' > 0)
      BY <3>1
    <3>4. QED
      BY <3>2, <3>3 DEF TokenBudget
  <2>2. CASE GenerateStep
    <3>1. /\ mode = "generate" /\ step < nPrompt + limit
          /\ step + base < Window
          /\ Forward("generate", step + base)
          /\ \/ step < nPrompt - 1 /\ step' = step + 1 /\ emitted' = emitted
             \/ mode' # "generate" /\ emitted' = emitted
             \/ step >= nPrompt - 1 /\ mode' # "generate"
                /\ emitted' = emitted + 1
             \/ step >= nPrompt - 1 /\ step' = step + 1
                /\ emitted' = emitted + 1
      BY <2>2 DEF GenerateStep, InBudget, MoreSteps, AbsolutePosition,
                  AfterGenerate
    <3>2. UNCHANGED <<nPrompt, limit, base>>
      BY <3>1 DEF Forward, session
    <3>3. /\ step \in Nat /\ nPrompt \in Nat /\ limit \in Int /\ base \in Nat
          /\ emitted \in Nat
      BY DEF IInv, TypeOK
    <3>4. Counted'
      BY <3>1, <3>2, <3>3 DEF Counted
    <3>5. TokenBudget'
      BY <3>1, <3>2, <3>3 DEF Counted, TokenBudget
    <3>6. QED
      BY <3>4, <3>5
  <2>3. CASE ~(StartGenerate \/ StartAgent \/ GenerateStep)
    <3>1. /\ UNCHANGED <<emitted, nPrompt, limit, base>>
          /\ mode' = "generate" => mode = "generate" /\ step' = step
      BY <2>3 DEF Next, BeginImage, FeedPrefix, PrefixDone, FeedPatch,
                  ImageDone, BeginMemory, FeedText, MemoryDone,
                  GenerateFails, GenerateEnds, AgentStep, ToolDone,
                  AgentEnds, Inject, InjectionEnds, Forward, AfterGenerate,
                  session, vars
    <3>2. QED
      BY <3>1 DEF Counted, TokenBudget
  <2>4. QED
    BY <2>1, <2>2, <2>3
<1>3. QED
  BY <1>1, <1>2, Invariance, PTL DEF Spec

(* A generation never overwrites what was injected before it.              *)
THEOREM InjectedKept == Spec => GenerationKeepsInjected
<1> DEFINE A == mode = "generate" =>
                  \A s \in Slots : s < base => cache'[s] = cache[s]
<1>1. IInv /\ [Next]_vars => A
  <2> SUFFICES ASSUME IInv, [Next]_vars, mode = "generate",
                      NEW s \in Slots, s < base
               PROVE  cache'[s] = cache[s]
    OBVIOUS
  <2>1. CASE GenerateStep
    <3>1. /\ TypeOK /\ step \in Nat /\ base \in Nat /\ sw.window = Window
          /\ cache \in [Slots -> Nat] /\ s \in Nat
      BY DEF IInv, TypeOK, Modal, Slots
    <3>2. step + base < Window /\ Forward("generate", step + base)
      BY <2>1 DEF GenerateStep, MoreSteps, AbsolutePosition
    <3>3. step + base \in Slots /\ "generate" \in Writers
      BY <3>1, <3>2 DEF Slots, Writers
    <3>4. cache' = [cache EXCEPT ![step + base] = fed + 1]
      BY <3>1, <3>2, <3>3, ForwardInside
    <3>5. QED
      BY <3>1, <3>4
  <2>2. CASE ~GenerateStep
    <3>1. cache' = cache
      BY <2>2 DEF Next, BeginImage, FeedPrefix, PrefixDone, FeedPatch,
                  ImageDone, BeginMemory, FeedText, MemoryDone,
                  StartGenerate, StartAgent, Start, GenerateEnds, AgentStep,
                  GenerateFails,
                  ToolDone, AgentEnds, Inject, InjectionEnds, vars
    <3>2. QED
      BY <3>1
  <2>3. QED
    BY <2>1, <2>2
<1>2. QED
  BY <1>1, Invariance, PTL DEF Spec, GenerationKeepsInjected

=============================================================================
