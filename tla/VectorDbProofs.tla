--------------------------- MODULE VectorDbProofs ---------------------------
(***************************************************************************)
(* The memory database keeps its file in order for every set of memories,  *)
(* every number of entries and any number of kills and failing writes.     *)
(***************************************************************************)
EXTENDS VectorDbProps, SequenceTheorems, TLAPS

(* The fields of a file. *)
Cells == Stored \X Fields

(***************************************************************************)
(* The inductive invariant.  Where things stand between two steps: who may *)
(* be running, and what may be waiting in the stream.                      *)
(***************************************************************************)
Settled ==
  /\ pc # "idle" => db = "open"
  /\ db # "open" => buf = <<>> /\ hbuf = {} /\ mem = <<>>
  /\ pc \in {"create", "append"} => buf = <<>>
  /\ pc \in {"append", "rewind"} => hbuf = {}
  /\ pc \in {"append", "rewind", "header", "seek"} => new \in Memories
  /\ file # "ready" => hdr = 0

(* The header of the file, the one that waits and num_entries never        *)
(* overtake each other.                                                    *)
Counted ==
  /\ db = "open" => hdr <= Len(mem)
  /\ \A n \in hbuf : hdr <= n /\ n <= Len(mem)

(* As long as no write failed, every record in memory is in the file or on *)
(* its way there, and a header only waits while it is being written.       *)
Ahead ==
  faults = 0 =>
    /\ HeaderBehindBody
    /\ hbuf # {} => pc \in {"create", "header"}
    /\ db = "open" =>
         3 * Len(mem) <= Len(body) + Len(buf)
                         + (IF pc \in {"seek", "append"} THEN 3 ELSE 0)

-----------------------------------------------------------------------------
(* Sequences.                                                              *)

(* A part of a sequence. *)
LEMMA Part ==
  ASSUME NEW S, NEW s \in Seq(S), NEW a \in 1 .. Len(s) + 1,
         NEW b \in a - 1 .. Len(s)
  PROVE  SubSeq(s, a, b) \in Seq(S) /\ Len(SubSeq(s, a, b)) = b - a + 1
<1>1. \A i \in a .. b : s[i] \in S
  BY ElementOfSeq, LenProperties
<1>2. a \in Int /\ b \in Int
  BY LenProperties
<1>3. /\ SubSeq(s, a, b) \in Seq(S)
      /\ Len(SubSeq(s, a, b)) = IF a <= b THEN b - a + 1 ELSE 0
  BY <1>1, <1>2, SubSeqProperties
<1>4. QED
  BY <1>2, <1>3, LenProperties

(* A record is three fields. *)
LEMMA RecordIs ==
  ASSUME NEW m \in Stored
  PROVE  Record(m) \in Seq(Cells) /\ Len(Record(m)) = 3
BY DEF Record, Cells, Fields

(* What a flush that stops short does to the fields that wait. *)
LEMMA FlushPartTyped ==
  ASSUME body \in Seq(Cells), buf \in Seq(Cells), FlushPart
  PROVE  /\ body' \in Seq(Cells) /\ buf' \in Seq(Cells)
         /\ Len(body') + Len(buf') = Len(body) + Len(buf)
         /\ Len(body') >= Len(body)
         /\ UNCHANGED <<file, hdr, hbuf>>
<1>1. PICK k \in 0 .. Len(buf) :
        /\ body' = body \o SubSeq(buf, 1, k)
        /\ buf' = SubSeq(buf, k + 1, Len(buf))
  BY DEF FlushPart
<1>2. Len(buf) \in Nat /\ Len(body) \in Nat
  BY LenProperties
<1>3. /\ SubSeq(buf, 1, k) \in Seq(Cells) /\ Len(SubSeq(buf, 1, k)) = k
      /\ SubSeq(buf, k + 1, Len(buf)) \in Seq(Cells)
      /\ Len(SubSeq(buf, k + 1, Len(buf))) = Len(buf) - k
  <2>1. 1 \in 1 .. Len(buf) + 1 /\ k \in 1 - 1 .. Len(buf)
    BY <1>2
  <2>2. k + 1 \in 1 .. Len(buf) + 1 /\ Len(buf) \in (k + 1) - 1 .. Len(buf)
    BY <1>2
  <2>3. SubSeq(buf, 1, k) \in Seq(Cells) /\ Len(SubSeq(buf, 1, k)) = k - 1 + 1
    BY <2>1, Part
  <2>4. /\ SubSeq(buf, k + 1, Len(buf)) \in Seq(Cells)
        /\ Len(SubSeq(buf, k + 1, Len(buf))) = Len(buf) - (k + 1) + 1
    BY <2>2, Part
  <2>5. QED
    BY <1>2, <2>3, <2>4
<1>4. body' \in Seq(Cells) /\ Len(body') = Len(body) + k
  BY <1>1, <1>3, ConcatProperties
<1>5. UNCHANGED <<file, hdr, hbuf>>
  BY DEF FlushPart
<1>6. buf' \in Seq(Cells) /\ Len(buf') = Len(buf) - k
  BY <1>1, <1>3
<1>7. QED
  BY <1>2, <1>4, <1>5, <1>6

(* What a flush that succeeds does. *)
LEMMA FlushAllTyped ==
  ASSUME TypeOK, FlushAll
  PROVE  /\ body' \in Seq(Cells) /\ buf' = <<>> /\ hbuf' = {}
         /\ Len(body') = Len(body) + Len(buf)
         /\ hdr' = hdr \/ hdr' \in hbuf
         /\ hdr' \in Nat /\ file' \in {file, "ready"}
         /\ hbuf = {} => hdr' = hdr /\ file' = file
         /\ hbuf # {} => file' = "ready"
<1>1. /\ body \in Seq(Cells) /\ buf \in Seq(Cells) /\ hdr \in Nat
      /\ hbuf \subseteq Nat
  BY DEF TypeOK, Cells
<1>2. body' \in Seq(Cells) /\ Len(body') = Len(body) + Len(buf)
  BY <1>1, ConcatProperties DEF FlushAll
<1>3. hbuf # {} => hdr' \in hbuf
  BY DEF FlushAll
<1>4. QED
  BY <1>1, <1>2, <1>3 DEF FlushAll

-----------------------------------------------------------------------------
(* Types.                                                                  *)

(* Every action, from a well-typed state. *)
LEMMA NextTypeOK ==
  ASSUME TypeOK, Settled, [Next]_vars
  PROVE  TypeOK'
<1> USE DEF Cells
<1>t. /\ file \in {"absent", "empty", "ready"} /\ hdr \in Nat
      /\ body \in Seq(Cells) /\ buf \in Seq(Cells)
      /\ hbuf \subseteq Nat /\ \A m, n \in hbuf : m = n
      /\ db \in {"closed", "open", "disabled"} /\ mem \in Seq(Stored)
      /\ pc \in {"idle", "create", "seek", "append", "rewind", "header"}
      /\ new \in Stored /\ Junk \in Stored
      /\ acked \in Seq(Memories) /\ safe \in Seq(Memories)
      /\ faults \in Nat /\ crashes \in Nat
  BY DEF TypeOK, Stored
<1>e. \A S : <<>> \in Seq(S)
  BY EmptySeq
<1>f. ASSUME Flush
      PROVE  /\ file' \in {"absent", "empty", "ready"} /\ hdr' \in Nat
             /\ body' \in Seq(Cells) /\ buf' \in Seq(Cells)
             /\ hbuf' \subseteq Nat /\ \A m, n \in hbuf' : m = n
             /\ faults' \in Nat
  <2>1. CASE FlushAll /\ NoFault
    BY <1>t, <1>e, <2>1, FlushAllTyped DEF NoFault
  <2>2. CASE FlushPart /\ Fault
    <3>1. /\ body' \in Seq(Cells) /\ buf' \in Seq(Cells)
          /\ file' = file /\ hdr' = hdr /\ hbuf' = hbuf
      BY <1>t, <2>2, FlushPartTyped
    <3>2. faults' \in Nat
      BY <1>t, <2>2 DEF Fault
    <3>3. QED
      BY <1>t, <3>1, <3>2
  <2>3. QED
    BY <1>f, <2>1, <2>2 DEF Flush
<1>1. CASE OpenNew
  BY <1>1, <1>t DEF OpenNew, TypeOK
<1>2. CASE CreateHeader
  BY <1>2, <1>t, <1>f DEF CreateHeader, TypeOK
<1>3. CASE OpenExisting
  <2>1. mem' \in Seq(Stored)
    <3>1. CASE mem' = <<>>
      BY <3>1, <1>e
    <3>2. CASE \E k \in 0 .. hdr : Decoded(k)
      <4>1. PICK k \in 0 .. hdr : Decoded(k)
        BY <3>2
      <4>2. \A i \in 1 .. hdr :
              (IF i <= k THEN body[3 * i][1] ELSE Junk) \in Stored
        <5> SUFFICES ASSUME NEW i \in 1 .. hdr, i <= k
                     PROVE  body[3 * i][1] \in Stored
          BY <1>t
        <5>1. i \in 1 .. k /\ InPlace(i)
          BY <4>1, <1>t DEF Decoded
        <5>2. 3 * i \in 1 .. Len(body)
          BY <5>1, <1>t, LenProperties DEF InPlace
        <5>3. body[3 * i] \in Cells
          BY <5>2, <1>t, ElementOfSeq
        <5>4. QED
          BY <5>3
      <4>3. mem' \in [1 .. hdr -> Stored]
        BY <4>1, <4>2 DEF Decoded
      <4>4. QED
        BY <4>3, <1>t, SeqDef
    <3>3. QED
      BY <1>3, <3>1, <3>2 DEF OpenExisting
  <2>2. QED
    BY <1>3, <1>t, <2>1 DEF OpenExisting, TypeOK, disk, stdio
<1>4. CASE \E m \in Memories : Remember(m)
  <2>1. PICK m \in Memories : Remember(m)
    BY <1>4
  <2>2. m \in Stored
    BY DEF Stored
  <2>3. mem' \in Seq(Stored)
    BY <2>1, <2>2, <1>t, AppendProperties DEF Remember
  <2>4. QED
    BY <2>1, <2>2, <2>3, <1>t DEF Remember, TypeOK, disk, stdio
<1>5. CASE SeekEnd
  <2>1. Flush
    BY <1>5 DEF SeekEnd, Flush
  <2>2. QED
    BY <1>5, <1>t, <1>f, <2>1 DEF SeekEnd, Fails, TypeOK
<1>6. CASE AppendRecord
  <2> DEFINE r == Record(new)
  <2>1. PICK j \in 0 .. 3, k \in 0 .. 3 :
          /\ k <= j
          /\ body' = body \o SubSeq(r, 1, k) /\ buf' = SubSeq(r, k + 1, j)
    BY <1>6 DEF AppendRecord
  <2>2. r \in Seq(Cells) /\ Len(r) = 3
    BY <1>t, RecordIs
  <2>3. SubSeq(r, 1, k) \in Seq(Cells) /\ SubSeq(r, k + 1, j) \in Seq(Cells)
    <3>1. 1 \in 1 .. 3 + 1 /\ k \in 1 - 1 .. 3
      OBVIOUS
    <3>2. k + 1 \in 1 .. 3 + 1 /\ j \in (k + 1) - 1 .. 3
      BY <2>1
    <3>3. QED
      BY <2>2, <3>1, <3>2, Part
  <2>4. body' \in Seq(Cells) /\ buf' \in Seq(Cells)
    BY <2>1, <2>3, <1>t, ConcatProperties
  <2>5. QED
    BY <1>6, <1>t, <2>4
       DEF AppendRecord, Fault, NoFault, Fails, TypeOK
<1>7. CASE Rewind
  <2>1. mem \in Seq(Stored) => Len(mem) \in Nat
    BY LenProperties
  <2>2. CASE body' = body \o buf /\ buf' = <<>> /\ hbuf' = {Len(mem)}
             /\ NoFault
    <3>1. body' \in Seq(Cells)
      BY <2>2, <1>t, ConcatProperties
    <3>2. QED
      BY <1>7, <1>t, <1>e, <2>1, <2>2, <3>1 DEF Rewind, NoFault, TypeOK
  <2>3. CASE \E k \in 0 .. Len(buf) - 1 :
               /\ Fault /\ hbuf' = hbuf
               /\ body' = body \o SubSeq(buf, 1, k)
               /\ buf' = Append(SubSeq(buf, k + 1, Len(buf)),
                                <<Junk, "header">>)
    <3>1. PICK k \in 0 .. Len(buf) - 1 :
               /\ Fault /\ hbuf' = hbuf
               /\ body' = body \o SubSeq(buf, 1, k)
               /\ buf' = Append(SubSeq(buf, k + 1, Len(buf)),
                                <<Junk, "header">>)
      BY <2>3
    <3>2. Len(buf) \in Nat
      BY <1>t, LenProperties
    <3>3. /\ 1 \in 1 .. Len(buf) + 1 /\ k \in 1 - 1 .. Len(buf)
          /\ k + 1 \in 1 .. Len(buf) + 1
          /\ Len(buf) \in (k + 1) - 1 .. Len(buf)
      BY <3>2
    <3>4. /\ SubSeq(buf, 1, k) \in Seq(Cells)
          /\ SubSeq(buf, k + 1, Len(buf)) \in Seq(Cells)
      BY <3>3, <1>t, Part
    <3>5. <<Junk, "header">> \in Cells
      BY <1>t DEF Fields
    <3>6. body' \in Seq(Cells) /\ buf' \in Seq(Cells)
      BY <3>1, <3>4, <3>5, <1>t, ConcatProperties, AppendProperties
    <3>7. /\ pc' = "header" /\ hbuf' = hbuf /\ faults' \in Nat
          /\ UNCHANGED <<file, hdr, db, mem, new, acked, safe, crashes>>
      BY <1>7, <1>t, <3>1 DEF Rewind, Fault
    <3>8. QED
      BY <1>t, <3>6, <3>7 DEF TypeOK
  <2>4. QED
    BY <1>7, <2>2, <2>3 DEF Rewind
<1>8. CASE WriteHeader
  <2>1. new \in Memories
    BY <1>8 DEF WriteHeader, Settled
  <2>2. acked' \in Seq(Memories)
    BY <1>8, <2>1, <1>t, AppendProperties DEF WriteHeader
  <2>3. safe' \in Seq(Memories)
    BY <1>8, <2>2, <1>t DEF WriteHeader
  <2>4. QED
    BY <1>8, <1>t, <1>f, <2>2, <2>3 DEF WriteHeader, TypeOK
<1>9. CASE HeaderFails
  BY <1>9, <1>t DEF HeaderFails, Fault, Fails, TypeOK, disk, stdio
<1>10. CASE Close
  <2>1. CASE db = "open" /\ FlushAll /\ NoFault
    <3>1. Flush
      BY <2>1 DEF Flush
    <3>2. QED
      BY <1>10, <1>t, <1>e, <1>f, <3>1 DEF Close, TypeOK
  <2>2. CASE /\ Fault /\ buf' = <<>> /\ hbuf' = {} /\ UNCHANGED <<file, hdr>>
             /\ \E k \in 0 .. Len(buf) : body' = body \o SubSeq(buf, 1, k)
    <3>1. PICK k \in 0 .. Len(buf) : body' = body \o SubSeq(buf, 1, k)
      BY <2>2
    <3>2. 1 \in 1 .. Len(buf) + 1 /\ k \in 1 - 1 .. Len(buf)
      BY <1>t, LenProperties
    <3>3. SubSeq(buf, 1, k) \in Seq(Cells)
      BY <3>2, <1>t, Part
    <3>4. body' \in Seq(Cells)
      BY <3>1, <3>3, <1>t, ConcatProperties
    <3>5. QED
      BY <1>10, <1>t, <1>e, <2>2, <3>4 DEF Close, Fault, TypeOK
  <2>3. CASE UNCHANGED <<disk, stdio>> /\ NoFault
    BY <1>10, <1>t, <1>e, <2>3 DEF Close, NoFault, TypeOK, disk, stdio
  <2>4. QED
    BY <1>10, <2>1, <2>2, <2>3 DEF Close
<1>11. CASE Crash
  BY <1>11, <1>t, <1>e DEF Crash, TypeOK, disk
<1>12. CASE UNCHANGED vars
  BY <1>12, <1>t DEF vars, disk, stdio, TypeOK
<1>13. QED
  BY <1>1, <1>2, <1>3, <1>4, <1>5, <1>6, <1>7, <1>8, <1>9, <1>10, <1>11,
     <1>12 DEF Next

-----------------------------------------------------------------------------
(* Order.                                                                  *)

Ordered == TypeOK /\ Settled /\ Counted /\ Ahead

(* What the types say of lengths. *)
LEMMA Lengths ==
  ASSUME TypeOK
  PROVE  /\ Len(body) \in Nat /\ Len(buf) \in Nat /\ Len(mem) \in Nat
         /\ hdr \in Nat /\ hbuf \subseteq Nat
         /\ faults \in Nat /\ crashes \in Nat
         /\ Len(<<>>) = 0
BY LenProperties, EmptySeq DEF TypeOK

LEMMA NextSettled ==
  ASSUME TypeOK, Settled, [Next]_vars
  PROVE  Settled'
<1>t. pc \in {"idle", "create", "seek", "append", "rewind", "header"}
  BY DEF TypeOK
<1>a. ASSUME FlushAll
      PROVE  /\ buf' = <<>> /\ hbuf' = {}
             /\ file' # "ready" => hdr' = 0
  BY <1>a DEF FlushAll, Settled
<1>p. ASSUME FlushPart
      PROVE  hbuf' = hbuf /\ (file' # "ready" => hdr' = 0)
  BY <1>p DEF FlushPart, Settled
<1>1. CASE OpenNew
  BY <1>1 DEF OpenNew, Settled
<1>2. CASE CreateHeader
  BY <1>2, <1>a, <1>p DEF CreateHeader, Flush, Settled
<1>3. CASE OpenExisting
  BY <1>3 DEF OpenExisting, Settled, disk, stdio
<1>4. CASE \E m \in Memories : Remember(m)
  BY <1>4 DEF Remember, Idle, Settled, disk, stdio
<1>5. CASE SeekEnd
  <2>1. CASE FlushAll /\ pc' = "append" /\ new' = new
    BY <1>5, <2>1, <1>a DEF SeekEnd, Settled
  <2>2. CASE FlushPart /\ Fails
    BY <1>5, <2>2, <1>p DEF SeekEnd, Fails, Settled
  <2>3. QED
    BY <1>5, <2>1, <2>2 DEF SeekEnd
<1>6. CASE AppendRecord
  <2>1. UNCHANGED <<file, hdr, hbuf, db, mem>> /\ db = "open" /\ hbuf = {}
    BY <1>6 DEF AppendRecord, Settled
  <2>2. (pc' = "rewind" /\ new' = new) \/ pc' = "idle"
    BY <1>6 DEF AppendRecord, Fails
  <2>3. new \in Memories
    BY <1>6 DEF AppendRecord, Settled
  <2>4. QED
    BY <2>1, <2>2, <2>3 DEF Settled
<1>7. CASE Rewind
  BY <1>7 DEF Rewind, Settled
<1>8. CASE WriteHeader
  BY <1>8, <1>a, <1>p DEF WriteHeader, Flush, Settled
<1>9. CASE HeaderFails
  BY <1>9 DEF HeaderFails, Fails, Settled, disk, stdio
<1>10. CASE Close
  <2>1. buf' = <<>> /\ hbuf' = {} /\ (file' # "ready" => hdr' = 0)
    BY <1>10, <1>a DEF Close, Settled, disk, stdio
  <2>2. QED
    BY <1>10, <2>1 DEF Close, Settled
<1>11. CASE Crash
  BY <1>11 DEF Crash, Settled, disk
<1>12. CASE UNCHANGED vars
  BY <1>12 DEF vars, disk, stdio, Settled
<1>13. QED
  BY <1>1, <1>2, <1>3, <1>4, <1>5, <1>6, <1>7, <1>8, <1>9, <1>10, <1>11,
     <1>12 DEF Next

LEMMA NextCounted ==
  ASSUME Ordered, [Next]_vars
  PROVE  Counted' /\ hdr' >= hdr
<1>t. /\ TypeOK /\ Settled /\ Counted
      /\ Len(mem) \in Nat /\ hdr \in Nat /\ hbuf \subseteq Nat
      /\ Len(<<>>) = 0
  BY Lengths DEF Ordered
<1>a. ASSUME FlushAll
      PROVE  /\ hbuf' = {} /\ hdr' >= hdr
             /\ db = "open" => hdr' <= Len(mem)
  BY <1>a, <1>t, FlushAllTyped DEF Counted
<1>p. ASSUME FlushPart
      PROVE  hbuf' = hbuf /\ hdr' = hdr
  BY <1>p DEF FlushPart
<1>f. ASSUME FlushAll \/ FlushPart, mem' = mem, db' = db
      PROVE  Counted' /\ hdr' >= hdr
  <2>1. CASE FlushAll
    <3>1. hbuf' = {} /\ hdr' >= hdr /\ (db = "open" => hdr' <= Len(mem))
      BY <2>1, <1>a
    <3>2. QED
      BY <1>f, <3>1 DEF Counted
  <2>2. CASE FlushPart
    <3>1. hbuf' = hbuf /\ hdr' = hdr
      BY <2>2, <1>p
    <3>2. QED
      BY <1>f, <1>t, <3>1 DEF Counted
  <2>3. QED
    BY <1>f, <2>1, <2>2
<1>1. CASE OpenNew
  BY <1>1, <1>t DEF OpenNew, Settled, Counted
<1>2. CASE CreateHeader
  BY <1>2, <1>f DEF CreateHeader, Flush
<1>3. CASE OpenExisting
  <2>1. hdr' = hdr /\ hbuf' = {}
    BY <1>3, <1>t DEF OpenExisting, Settled, disk, stdio
  <2>2. db' = "open" => Len(mem') = hdr
    BY <1>3, <1>t DEF OpenExisting, Decoded
  <2>3. QED
    BY <1>t, <2>1, <2>2 DEF Counted
<1>4. CASE \E m \in Memories : Remember(m)
  <2>1. PICK m \in Memories : Remember(m)
    BY <1>4
  <2>2. mem \in Seq(Stored) /\ m \in Stored
    BY <1>t DEF TypeOK, Stored
  <2>3. Len(mem') = Len(mem) + 1
    BY <2>1, <2>2, AppendProperties DEF Remember
  <2>4. QED
    BY <1>t, <2>1, <2>3 DEF Remember, Idle, Counted, disk, stdio
<1>5. CASE SeekEnd
  BY <1>5, <1>f DEF SeekEnd
<1>6. CASE AppendRecord
  BY <1>6, <1>t DEF AppendRecord, Counted
<1>7. CASE Rewind
  <2>1. hdr' = hdr /\ mem' = mem /\ db' = db /\ db = "open"
    BY <1>7, <1>t DEF Rewind, Settled
  <2>2. hbuf' = {Len(mem)} \/ hbuf' = hbuf
    BY <1>7 DEF Rewind
  <2>3. CASE hbuf' = {Len(mem)}
    <3>1. hdr <= Len(mem)
      BY <1>t, <2>1 DEF Counted
    <3>2. QED
      BY <1>t, <2>1, <2>3, <3>1 DEF Counted
  <2>4. CASE hbuf' = hbuf
    BY <1>t, <2>1, <2>4 DEF Counted
  <2>5. QED
    BY <2>2, <2>3, <2>4
<1>8. CASE WriteHeader
  BY <1>8, <1>f DEF WriteHeader, Flush
<1>9. CASE HeaderFails
  BY <1>9, <1>t DEF HeaderFails, Counted, disk, stdio
<1>10. CASE Close
  <2>1. hbuf' = {} /\ hdr' >= hdr /\ db' = "closed"
    <3>1. CASE FlushAll
      BY <1>10, <1>a, <3>1 DEF Close
    <3>2. CASE hbuf' = {} /\ hdr' = hdr
      BY <1>10, <1>t, <3>2 DEF Close
    <3>3. CASE db = "disabled" /\ UNCHANGED <<disk, stdio>>
      BY <1>10, <1>t, <3>3 DEF Close, Settled, disk, stdio
    <3>4. QED
      BY <1>10, <3>1, <3>2, <3>3 DEF Close
  <2>2. QED
    BY <1>t, <2>1 DEF Counted
<1>11. CASE Crash
  BY <1>11, <1>t DEF Crash, Counted, disk
<1>12. CASE UNCHANGED vars
  BY <1>12, <1>t DEF vars, disk, stdio, Counted
<1>13. QED
  BY <1>1, <1>2, <1>3, <1>4, <1>5, <1>6, <1>7, <1>8, <1>9, <1>10, <1>11,
     <1>12 DEF Next

LEMMA NextAhead ==
  ASSUME Ordered, [Next]_vars
  PROVE  Ahead'
<1> SUFFICES ASSUME faults' = 0
             PROVE  /\ 3 * hdr' <= Len(body')
                    /\ hbuf' # {} => pc' \in {"create", "header"}
                    /\ db' = "open" =>
                         3 * Len(mem') <= Len(body') + Len(buf')
                           + (IF pc' \in {"seek", "append"} THEN 3 ELSE 0)
  BY DEF Ahead, HeaderBehindBody
<1>t. /\ TypeOK /\ Settled /\ Counted
      /\ Len(body) \in Nat /\ Len(buf) \in Nat /\ Len(mem) \in Nat
      /\ hdr \in Nat /\ hbuf \subseteq Nat /\ faults \in Nat
      /\ Len(<<>>) = 0
  BY Lengths DEF Ordered
<1>n. /\ ~Fault
      /\ faults' = faults \/ faults' = faults + 1
  BY <1>t DEF Next, vars, Fault, NoFault, OpenNew, CreateHeader, Flush,
              OpenExisting, Remember, SeekEnd, AppendRecord, Rewind,
              WriteHeader, HeaderFails, Close, Crash
<1>h. /\ faults = 0 /\ 3 * hdr <= Len(body)
      /\ hbuf # {} => pc \in {"create", "header"}
      /\ db = "open" =>
           3 * Len(mem) <= Len(body) + Len(buf)
                           + (IF pc \in {"seek", "append"} THEN 3 ELSE 0)
  BY <1>t, <1>n DEF Ordered, Ahead, HeaderBehindBody
<1>a. ASSUME FlushAll
      PROVE  /\ Len(body') = Len(body) + Len(buf) /\ Len(body') \in Nat
             /\ Len(buf') = 0 /\ hbuf' = {}
             /\ hdr' = hdr \/ hdr' \in hbuf
             /\ hbuf = {} => hdr' = hdr
  BY <1>a, <1>t, FlushAllTyped
<1>w. ASSUME FlushAll, hbuf = {} \/ pc \in {"create", "header"},
             hbuf # {} => db = "open"
      PROVE  3 * hdr' <= Len(body')
  <2>1. CASE hdr' = hdr
    BY <1>w, <1>a, <1>h, <1>t, <2>1
  <2>2. CASE hdr' \in hbuf
    <3>1. hdr' \in Nat /\ hdr' <= Len(mem)
      BY <1>t, <2>2 DEF Counted
    <3>2. 3 * Len(mem) <= Len(body) + Len(buf)
      BY <1>w, <1>h, <1>t, <2>2
    <3>3. QED
      BY <1>w, <1>a, <1>t, <3>1, <3>2
  <2>3. QED
    BY <1>w, <1>a, <2>1, <2>2
<1>1. CASE OpenNew
  BY <1>1, <1>t, <1>h DEF OpenNew, Settled
<1>2. CASE CreateHeader
  <2>1. FlushAll /\ pc = "create" /\ pc' = "idle" /\ mem' = mem /\ db' = db
    BY <1>2, <1>n DEF CreateHeader, Flush
  <2>2. db = "open"
    BY <1>t, <2>1 DEF Settled
  <2>3. QED
    BY <1>t, <1>h, <1>a, <1>w, <2>1, <2>2
<1>3. CASE OpenExisting
  <2>1. body' = body /\ buf' = buf /\ hdr' = hdr /\ hbuf' = {} /\ pc' = pc
    BY <1>3, <1>t DEF OpenExisting, Settled, disk, stdio
  <2>2. db' = "open" => Len(mem') = hdr
    BY <1>3, <1>t DEF OpenExisting, Decoded
  <2>3. pc = "idle"
    BY <1>3, <1>t DEF OpenExisting, Settled
  <2>4. QED
    BY <1>t, <1>h, <2>1, <2>2, <2>3
<1>4. CASE \E m \in Memories : Remember(m)
  <2>1. PICK m \in Memories : Remember(m)
    BY <1>4
  <2>2. mem \in Seq(Stored) /\ m \in Stored
    BY <1>t DEF TypeOK, Stored
  <2>3. Len(mem') = Len(mem) + 1
    BY <2>1, <2>2, AppendProperties DEF Remember
  <2>4. /\ pc = "idle" /\ db = "open" /\ pc' = "seek"
        /\ body' = body /\ buf' = buf /\ hdr' = hdr /\ hbuf' = hbuf
    BY <2>1 DEF Remember, Idle, disk, stdio
  <2>5. QED
    BY <1>t, <1>h, <2>3, <2>4
<1>5. CASE SeekEnd
  <2>1. /\ FlushAll /\ pc = "seek" /\ pc' = "append"
        /\ mem' = mem /\ db' = db
    BY <1>5, <1>n DEF SeekEnd
  <2>2. db = "open" /\ hbuf = {}
    BY <1>t, <1>h, <2>1 DEF Settled
  <2>3. QED
    BY <1>t, <1>h, <1>a, <1>w, <2>1, <2>2
<1>6. CASE AppendRecord
  <2> DEFINE r == Record(new)
  <2>1. PICK k \in 0 .. 3 :
          body' = body \o SubSeq(r, 1, k) /\ buf' = SubSeq(r, k + 1, 3)
    BY <1>6, <1>n DEF AppendRecord
  <2>2. r \in Seq(Cells) /\ Len(r) = 3 /\ body \in Seq(Cells)
    BY <1>t, RecordIs DEF TypeOK, Cells
  <2>3. /\ 1 \in 1 .. 3 + 1 /\ k \in 1 - 1 .. 3
        /\ k + 1 \in 1 .. 3 + 1 /\ 3 \in (k + 1) - 1 .. 3
    OBVIOUS
  <2>4. /\ SubSeq(r, 1, k) \in Seq(Cells) /\ Len(SubSeq(r, 1, k)) = k - 1 + 1
        /\ Len(SubSeq(r, k + 1, 3)) = 3 - (k + 1) + 1
    BY <2>2, <2>3, Part
  <2>5. Len(body') = Len(body) + (k - 1 + 1) /\ Len(buf') = 3 - (k + 1) + 1
    BY <2>1, <2>2, <2>4, ConcatProperties
  <2>6. /\ pc = "append" /\ pc' = "rewind" /\ buf = <<>> /\ hbuf' = {}
        /\ hdr' = hdr /\ mem' = mem /\ db' = db /\ db = "open"
    BY <1>6, <1>n, <1>t DEF AppendRecord, Settled
  <2>7. QED
    BY <1>t, <1>h, <2>5, <2>6
<1>7. CASE Rewind
  <2>1. /\ body' = body \o buf /\ buf' = <<>> /\ hdr' = hdr /\ mem' = mem
        /\ pc = "rewind" /\ pc' = "header"
    BY <1>7, <1>n DEF Rewind
  <2>2. body \in Seq(Cells) /\ buf \in Seq(Cells) /\ db = "open"
    BY <1>t, <2>1 DEF TypeOK, Cells, Settled
  <2>3. Len(body') = Len(body) + Len(buf)
    BY <2>1, <2>2, ConcatProperties
  <2>4. QED
    BY <1>t, <1>h, <2>1, <2>2, <2>3
<1>8. CASE WriteHeader
  <2>1. FlushAll /\ pc = "header" /\ pc' = "idle" /\ mem' = mem /\ db' = db
    BY <1>8, <1>n DEF WriteHeader, Flush
  <2>2. db = "open"
    BY <1>t, <2>1 DEF Settled
  <2>3. QED
    BY <1>t, <1>h, <1>a, <1>w, <2>1, <2>2
<1>9. CASE HeaderFails
  BY <1>9, <1>n DEF HeaderFails
<1>10. CASE Close
  <2>1. pc = "idle" /\ pc' = "idle" /\ hbuf = {} /\ db' = "closed"
    BY <1>10, <1>h DEF Close
  <2>2. CASE FlushAll
    BY <1>t, <1>h, <1>a, <1>w, <2>1, <2>2
  <2>3. CASE UNCHANGED <<disk, stdio>>
    BY <1>t, <1>h, <2>1, <2>3 DEF disk, stdio
  <2>4. QED
    BY <1>10, <1>n, <2>2, <2>3 DEF Close
<1>11. CASE Crash
  BY <1>11, <1>h DEF Crash, disk
<1>12. CASE UNCHANGED vars
  BY <1>12, <1>h DEF vars, disk, stdio
<1>13. QED
  BY <1>1, <1>2, <1>3, <1>4, <1>5, <1>6, <1>7, <1>8, <1>9, <1>10, <1>11,
     <1>12 DEF Next

-----------------------------------------------------------------------------
(* What the file holds.                                                    *)

(* The i-th record of the fields b is that of m. *)
RecordAt(b, i, m) ==
  /\ b[3 * i - 2] = <<m, "embedding">>
  /\ b[3 * i - 1] = <<m, "text_len">>
  /\ b[3 * i] = <<m, "text">>

(* b is the records of ms and nothing else. *)
Holds(b, ms) ==
  /\ Len(b) = 3 * Len(ms)
  /\ \A i \in 1 .. Len(ms) : RecordAt(b, i, ms[i])

(* A reader finds a record where its three fields are. *)
LEMMA ThreeFields ==
  ASSUME NEW b \in Seq(Cells), NEW i \in Nat, 1 <= i, 3 * i <= Len(b),
         NEW m \in Stored
  PROVE  SubSeq(b, 3 * i - 2, 3 * i) = Record(m) <=> RecordAt(b, i, m)
<1> DEFINE s == SubSeq(b, 3 * i - 2, 3 * i)
<1>1. Len(b) \in Nat
  BY LenProperties
<1>2. \A j \in 3 * i - 2 .. 3 * i : b[j] \in Cells
  BY <1>1, ElementOfSeq
<1>3. 3 * i - 2 \in Int /\ 3 * i \in Int
  OBVIOUS
<1>4. /\ s \in Seq(Cells)
      /\ Len(s) = IF 3 * i - 2 <= 3 * i THEN 3 * i - (3 * i - 2) + 1 ELSE 0
      /\ \A j \in 1 .. 3 * i - (3 * i - 2) + 1 : s[j] = b[3 * i - 2 + j - 1]
  BY <1>2, <1>3, SubSeqProperties
<1>5. /\ Len(s) = 3
      /\ s[1] = b[3 * i - 2] /\ s[2] = b[3 * i - 1] /\ s[3] = b[3 * i]
  <2>1. 3 * i - (3 * i - 2) + 1 = 3 /\ 3 * i - 2 <= 3 * i
    OBVIOUS
  <2>2. /\ 3 * i - 2 + 1 - 1 = 3 * i - 2 /\ 3 * i - 2 + 2 - 1 = 3 * i - 1
        /\ 3 * i - 2 + 3 - 1 = 3 * i
    OBVIOUS
  <2>3. /\ Len(s) = 3
        /\ \A j \in 1 .. 3 : s[j] = b[3 * i - 2 + j - 1]
    BY <1>4, <2>1
  <2>4. QED
    BY <2>2, <2>3
<1>6. /\ Record(m) \in Seq(Cells) /\ Len(Record(m)) = 3
      /\ Record(m)[1] = <<m, "embedding">>
      /\ Record(m)[2] = <<m, "text_len">> /\ Record(m)[3] = <<m, "text">>
  BY RecordIs DEF Record
<1>7. ASSUME RecordAt(b, i, m)
      PROVE  s = Record(m)
  <2>1. s[1] = Record(m)[1] /\ s[2] = Record(m)[2] /\ s[3] = Record(m)[3]
    BY <1>5, <1>6, <1>7 DEF RecordAt
  <2>2. \A j \in 1 .. 3 : j = 1 \/ j = 2 \/ j = 3
    OBVIOUS
  <2>3. \A j \in 1 .. 3 : s[j] = Record(m)[j]
    BY <2>1, <2>2
  <2>4. QED
    BY <1>4, <1>5, <1>6, <2>3, SeqEqual
<1>8. ASSUME s = Record(m)
      PROVE  RecordAt(b, i, m)
  BY <1>5, <1>6, <1>8 DEF RecordAt
<1>9. QED
  BY <1>7, <1>8

(* One more record at the end. *)
LEMMA HoldsAppend ==
  ASSUME NEW b \in Seq(Cells), NEW ms \in Seq(Stored), NEW m \in Stored,
         Holds(b, ms)
  PROVE  Holds(b \o Record(m), Append(ms, m))
<1> DEFINE c == b \o Record(m)
           ns == Append(ms, m)
<1>1. Len(b) \in Nat /\ Len(ms) \in Nat /\ Len(b) = 3 * Len(ms)
  BY LenProperties DEF Holds
<1>2. /\ Record(m) \in Seq(Cells) /\ Len(Record(m)) = 3
      /\ Record(m)[1] = <<m, "embedding">>
      /\ Record(m)[2] = <<m, "text_len">> /\ Record(m)[3] = <<m, "text">>
  BY RecordIs DEF Record
<1>3. /\ Len(c) = Len(b) + 3
      /\ \A j \in 1 .. Len(b) + 3 :
           c[j] = IF j <= Len(b) THEN b[j] ELSE Record(m)[j - Len(b)]
  <2> DEFINE r == Record(m)
  <2>1. r \in Seq(Cells) /\ Len(r) = 3
    BY <1>2
  <2> HIDE DEF r
  <2>2. /\ Len(b \o r) = Len(b) + Len(r)
        /\ \A j \in 1 .. Len(b) + Len(r) :
             (b \o r)[j] = IF j <= Len(b) THEN b[j] ELSE r[j - Len(b)]
    BY <2>1, ConcatProperties
  <2>3. QED
    BY <2>1, <2>2 DEF r
<1>4. /\ Len(ns) = Len(ms) + 1
      /\ \A j \in 1 .. Len(ms) : ns[j] = ms[j]
      /\ ns[Len(ms) + 1] = m
  BY AppendProperties
<1>5. ASSUME NEW i \in 1 .. Len(ms)
      PROVE  RecordAt(c, i, ns[i])
  <2>1. /\ c[3 * i - 2] = b[3 * i - 2] /\ c[3 * i - 1] = b[3 * i - 1]
        /\ c[3 * i] = b[3 * i]
    BY <1>1, <1>3
  <2>2. RecordAt(b, i, ms[i])
    BY DEF Holds
  <2>3. QED
    BY <1>4, <2>1, <2>2 DEF RecordAt
<1>6. RecordAt(c, Len(ms) + 1, ns[Len(ms) + 1])
  <2> DEFINE i == Len(ms) + 1
  <2>1. /\ 3 * i - 2 = Len(b) + 1 /\ 3 * i - 1 = Len(b) + 2
        /\ 3 * i = Len(b) + 3
    BY <1>1
  <2>2. /\ c[Len(b) + 1] = Record(m)[1] /\ c[Len(b) + 2] = Record(m)[2]
        /\ c[Len(b) + 3] = Record(m)[3]
    BY <1>1, <1>3
  <2>3. QED
    BY <1>2, <1>4, <2>1, <2>2 DEF RecordAt
<1>7. QED
  BY <1>1, <1>3, <1>4, <1>5, <1>6 DEF Holds

(* A record written in two parts is a record. *)
LEMMA TwoParts ==
  ASSUME NEW b \in Seq(Cells), NEW m \in Stored, NEW k \in 0 .. 3
  PROVE  (b \o SubSeq(Record(m), 1, k)) \o SubSeq(Record(m), k + 1, 3)
           = b \o Record(m)
<1> DEFINE r == Record(m)
<1>1. r \in Seq(Cells) /\ Len(r) = 3
  BY RecordIs
<1>2. /\ 1 \in 1 .. 3 + 1 /\ k \in 1 - 1 .. 3 /\ 3 \in k .. 3
      /\ k + 1 \in 1 .. 3 + 1 /\ 3 \in (k + 1) - 1 .. 3
  OBVIOUS
<1>3. SubSeq(r, 1, k) \in Seq(Cells) /\ SubSeq(r, k + 1, 3) \in Seq(Cells)
  BY <1>1, <1>2, Part
<1>4. SubSeq(r, 1, k) \o SubSeq(r, k + 1, 3) = SubSeq(r, 1, 3)
  BY <1>1, <1>2, ConcatAdjacentSubSeq
<1>5. SubSeq(r, 1, 3) = r
  BY <1>1, SubSeqFull
<1>6. QED
  <2> DEFINE x == SubSeq(r, 1, k)
             y == SubSeq(r, k + 1, 3)
  <2>1. x \in Seq(Cells) /\ y \in Seq(Cells) /\ x \o y = r
    BY <1>3, <1>4, <1>5
  <2> HIDE DEF x, y
  <2>2. (b \o x) \o y = b \o (x \o y)
    <3>1. b \in Seq(Cells) /\ x \in Seq(Cells) /\ y \in Seq(Cells)
      BY <2>1
    <3>2. QED
      BY <3>1, ConcatAssociative
  <2>3. (b \o x) \o y = b \o r
    BY <2>1, <2>2
  <2>4. QED
    BY <2>3 DEF x, y

(* The file only grows at its end. *)
LEMMA BodyGrows ==
  ASSUME TypeOK, [Next]_vars
  PROVE  /\ Len(body') >= Len(body)
         /\ \A i \in 1 .. Len(body) : body'[i] = body[i]
<1>1. body \in Seq(Cells) /\ buf \in Seq(Cells) /\ new \in Stored
  BY DEF TypeOK, Cells
<1>2. Len(body) \in Nat /\ Len(buf) \in Nat
  BY <1>1, LenProperties
<1>3. ASSUME NEW s \in Seq(Cells), body' = body \o s
      PROVE  /\ Len(body') >= Len(body)
             /\ \A i \in 1 .. Len(body) : body'[i] = body[i]
  BY <1>1, <1>2, <1>3, ConcatProperties, LenProperties
<1>4. ASSUME NEW k \in 0 .. Len(buf)
      PROVE  SubSeq(buf, 1, k) \in Seq(Cells)
  <2>1. 1 \in 1 .. Len(buf) + 1 /\ k \in 1 - 1 .. Len(buf)
    BY <1>2
  <2>2. QED
    BY <1>1, <2>1, Part
<1>5. ASSUME NEW k \in 0 .. 3
      PROVE  SubSeq(Record(new), 1, k) \in Seq(Cells)
  <2>1. Record(new) \in Seq(Cells) /\ Len(Record(new)) = 3
    BY <1>1, RecordIs
  <2>2. 1 \in 1 .. 3 + 1 /\ k \in 1 - 1 .. 3
    OBVIOUS
  <2>3. QED
    BY <2>1, <2>2, Part
<1>6. \/ body' = body
      \/ body' = body \o buf
      \/ \E k \in 0 .. Len(buf) : body' = body \o SubSeq(buf, 1, k)
      \/ \E k \in 0 .. 3 : body' = body \o SubSeq(Record(new), 1, k)
  <2>1. CASE Rewind
    <3>1. \A k \in 0 .. Len(buf) - 1 : k \in 0 .. Len(buf)
      BY <1>2
    <3>2. QED
      BY <2>1, <3>1 DEF Rewind
  <2>2. CASE ~Rewind
    BY <2>2 DEF Next, vars, disk, OpenNew, CreateHeader, Flush, FlushAll,
                FlushPart, OpenExisting, Remember, SeekEnd, AppendRecord,
                WriteHeader, HeaderFails, Close, Crash
  <2>3. QED
    BY <2>1, <2>2
<1>7. QED
  BY <1>1, <1>2, <1>3, <1>4, <1>5, <1>6

-----------------------------------------------------------------------------
(* Records that stay.                                                      *)

(* Before the first failing write and the first kill: where each call has  *)
(* left the file and the memory.                                           *)
Undisturbed ==
  faults + crashes = 0 =>
    /\ safe = acked /\ hdr = Len(acked)
    /\ db # "disabled" /\ (file = "empty" => pc = "create")
    /\ pc # "rewind" => buf = <<>>
    /\ pc \notin {"create", "header"} => hbuf = {}
    /\ pc = "create" => hbuf = {0}
    /\ pc = "header" => hbuf = {Len(mem)}
    /\ Idle \/ pc = "create" => mem = acked
    /\ pc \in {"seek", "append", "rewind", "header"} =>
         mem = Append(acked, new)
    /\ pc \in {"idle", "create", "seek", "append"} => Holds(body, acked)
    /\ pc = "rewind" => Holds(body \o buf, mem)
    /\ pc = "header" => Holds(body, mem)

(* The records of `safe` are the first ones of the file and are counted.   *)
Kept ==
  /\ Len(safe) <= hdr /\ 3 * Len(safe) <= Len(body)
  /\ \A i \in 1 .. Len(safe) : RecordAt(body, i, safe[i])

(* They are the first ones of an open database.                            *)
Loaded ==
  db = "open" =>
    /\ Len(safe) <= Len(mem)
    /\ \A i \in 1 .. Len(safe) : mem[i] = safe[i]

IInv == Ordered /\ Undisturbed /\ Kept /\ Loaded

(* What follows a flush that succeeds before anything has gone wrong. *)
LEMMA QuietFlush ==
  ASSUME TypeOK, FlushAll
  PROVE  /\ buf = <<>> => body' = body
         /\ \A n : hbuf = {n} => hdr' = n
         /\ hbuf = {} => hdr' = hdr /\ file' = file
         /\ hbuf # {} => file' = "ready"
         /\ buf' = <<>> /\ hbuf' = {}
<1>1. body \in Seq(Cells)
  BY DEF TypeOK, Cells
<1>2. buf = <<>> => body' = body
  BY <1>1, ConcatEmptySeq DEF FlushAll
<1>3. QED
  BY <1>2 DEF FlushAll

LEMMA NextUndisturbed ==
  ASSUME IInv, [Next]_vars
  PROVE  Undisturbed'
<1> SUFFICES ASSUME faults' + crashes' = 0
             PROVE  Undisturbed'
  BY DEF Undisturbed
<1>t. /\ TypeOK /\ Settled /\ faults \in Nat /\ crashes \in Nat
      /\ body \in Seq(Cells) /\ buf \in Seq(Cells) /\ mem \in Seq(Stored)
      /\ acked \in Seq(Memories)
      /\ pc \in {"idle", "create", "seek", "append", "rewind", "header"}
      /\ file \in {"absent", "empty", "ready"}
      /\ db \in {"closed", "open", "disabled"}
  BY DEF IInv, Ordered, TypeOK, Cells
<1>n. /\ faults' = faults \/ faults' = faults + 1
      /\ crashes' = crashes \/ crashes' = crashes + 1
  BY <1>t DEF Next, vars, Fault, NoFault, OpenNew, CreateHeader, Flush,
              OpenExisting, Remember, SeekEnd, AppendRecord, Rewind,
              WriteHeader, HeaderFails, Close, Crash
<1>z. faults' = 0 /\ crashes' = 0 /\ faults = 0 /\ crashes = 0
      /\ ~Fault /\ ~Crash
  <2>1. faults' = 0 /\ crashes' = 0 /\ faults = 0 /\ crashes = 0
    BY <1>t, <1>n
  <2>2. QED
    BY <2>1 DEF Fault, Crash
<1>h. /\ safe = acked /\ hdr = Len(acked)
      /\ db # "disabled" /\ (file = "empty" => pc = "create")
      /\ pc # "rewind" => buf = <<>>
      /\ pc \notin {"create", "header"} => hbuf = {}
      /\ pc = "create" => hbuf = {0}
      /\ pc = "header" => hbuf = {Len(mem)}
      /\ Idle \/ pc = "create" => mem = acked
      /\ pc \in {"seek", "append", "rewind", "header"} =>
           mem = Append(acked, new)
      /\ pc \in {"idle", "create", "seek", "append"} => Holds(body, acked)
      /\ pc = "rewind" => Holds(body \o buf, mem)
      /\ pc = "header" => Holds(body, mem)
  <2>1. faults + crashes = 0
    BY <1>z
  <2>2. QED
    BY <2>1 DEF IInv, Undisturbed
<1>e. Len(<<>>) = 0 /\ \A q \in Seq(Memories) : Len(q) = 0 => q = <<>>
  BY EmptySeq, LenProperties
<1>1. CASE OpenNew
  <2>1. hdr = 0 /\ mem = <<>> /\ buf = <<>> /\ pc = "idle"
    BY <1>1, <1>t DEF OpenNew, Settled
  <2>2. acked = <<>>
    BY <1>t, <1>h, <1>e, <2>1
  <2>3. QED
    BY <1>1, <1>h, <2>1, <2>2 DEF OpenNew, Undisturbed, Idle
<1>2. CASE CreateHeader
  <2>1. /\ FlushAll /\ pc = "create" /\ pc' = "idle"
        /\ UNCHANGED <<db, mem, new, acked, safe, crashes>>
    BY <1>2, <1>z DEF CreateHeader, Flush
  <2>2. buf = <<>> /\ hbuf = {0}
    BY <1>h, <2>1
  <2>3. /\ body' = body /\ hdr' = 0 /\ file' = "ready"
        /\ buf' = <<>> /\ hbuf' = {}
    BY <1>t, <2>1, <2>2, QuietFlush
  <2>4. hdr = 0
    BY <2>1, <2>2, <1>t DEF IInv, Ordered, Counted, TypeOK
  <2>5. QED
    BY <1>h, <2>1, <2>3, <2>4 DEF Undisturbed, Idle
<1>3. CASE OpenExisting
  <2>1. /\ pc = "idle" /\ db = "closed" /\ file = "ready"
        /\ buf = <<>> /\ hbuf = {}
    BY <1>3, <1>t, <1>h DEF OpenExisting, Settled
  <2>2. Holds(body, acked) /\ hdr = Len(acked) /\ Len(acked) \in Nat
    BY <1>t, <1>h, <2>1, LenProperties
  <2>3. ASSUME NEW i \in 1 .. hdr
        PROVE  InPlace(i) /\ body[3 * i][1] = acked[i]
    <3>1. RecordAt(body, i, acked[i]) /\ 3 * i <= Len(body) /\ i \in Nat
      BY <2>2, <2>3 DEF Holds
    <3>2. acked[i] \in Memories
      BY <1>t, <2>2, <2>3, ElementOfSeq
    <3>3. acked[i] \in Stored
      BY <3>2 DEF Stored
    <3>4. SubSeq(body, 3 * i - 2, 3 * i) = Record(acked[i])
      BY <1>t, <2>2, <2>3, <3>1, <3>3, ThreeFields
    <3>5. InPlace(i)
      BY <3>1, <3>2, <3>4 DEF InPlace
    <3>6. body[3 * i] = <<acked[i], "text">>
      BY <3>1 DEF RecordAt
    <3>7. QED
      BY <3>5, <3>6
  <2>4. ~(\E i \in 1 .. hdr : ~InPlace(i))
    BY <2>3
  <2>5. PICK k \in 0 .. hdr : Decoded(k)
    BY <1>3, <2>1, <2>4 DEF OpenExisting
  <2>6. db' = "open"
    BY <1>3, <2>1, <2>4 DEF OpenExisting
  <2>7. k = hdr
    <3>1. k < hdr => k + 1 \in 1 .. hdr
      BY <2>2
    <3>2. QED
      BY <2>2, <2>3, <2>5, <3>1 DEF Decoded
  <2>8. mem' = [i \in 1 .. hdr |-> acked[i]]
    BY <2>2, <2>3, <2>5, <2>7 DEF Decoded
  <2>9. mem' = acked
    <3>1. acked \in [1 .. hdr -> Memories]
      BY <1>t, <2>2, LenProperties
    <3>2. QED
      BY <2>8, <3>1
  <2>10. QED
    BY <1>3, <1>h, <2>1, <2>6, <2>9
       DEF OpenExisting, Undisturbed, Idle, disk, stdio
<1>4. CASE \E m \in Memories : Remember(m)
  <2>1. PICK m \in Memories : Remember(m)
    BY <1>4
  <2>2. /\ pc = "idle" /\ db = "open" /\ mem = acked
        /\ mem' = Append(acked, m) /\ new' = m /\ pc' = "seek"
    BY <1>h, <2>1 DEF Remember, Idle
  <2>3. QED
    BY <1>h, <2>1, <2>2 DEF Remember, Undisturbed, Idle, disk, stdio
<1>5. CASE SeekEnd
  <2>1. /\ FlushAll /\ pc = "seek" /\ pc' = "append" /\ new' = new
        /\ UNCHANGED <<db, mem, acked, safe, crashes>>
    BY <1>5, <1>z DEF SeekEnd
  <2>2. body' = body /\ hdr' = hdr /\ file' = file /\ buf' = <<>> /\ hbuf' = {}
    BY <1>t, <1>h, <2>1, QuietFlush
  <2>3. QED
    BY <1>h, <2>1, <2>2 DEF Undisturbed, Idle
<1>6. CASE AppendRecord
  <2>1. PICK k \in 0 .. 3 : /\ body' = body \o SubSeq(Record(new), 1, k)
                            /\ buf' = SubSeq(Record(new), k + 1, 3)
    <3>1. PICK j \in 0 .. 3, k \in 0 .. 3 :
            /\ k <= j
            /\ body' = body \o SubSeq(Record(new), 1, k)
            /\ buf' = SubSeq(Record(new), k + 1, j)
            /\ \/ j = 3 /\ NoFault /\ pc' = "rewind" /\ new' = new
               \/ j < 3 /\ Fault /\ Fails
      BY <1>6, Zenon DEF AppendRecord
    <3>2. j = 3
      BY <1>z, <3>1
    <3>3. QED
      BY <3>1, <3>2
  <2>2. /\ pc = "append" /\ pc' = "rewind" /\ new' = new
        /\ UNCHANGED <<file, hdr, hbuf, db, mem, acked, safe, crashes>>
    BY <1>6, <1>z DEF AppendRecord
  <2>3. new \in Stored /\ acked \in Seq(Stored)
    BY <1>t, <2>2, SeqMonotonic DEF Settled, Stored
  <2>4. body' \o buf' = body \o Record(new)
    BY <1>t, <2>1, <2>3, TwoParts
  <2>5. Holds(body \o Record(new), Append(acked, new))
    BY <1>t, <1>h, <2>2, <2>3, HoldsAppend
  <2>6. Holds(body' \o buf', mem')
    BY <1>h, <2>2, <2>4, <2>5
  <2>7. QED
    BY <1>h, <2>2, <2>6 DEF Undisturbed, Idle
<1>7. CASE Rewind
  <2>1. /\ body' = body \o buf /\ buf' = <<>> /\ hbuf' = {Len(mem)}
        /\ pc = "rewind" /\ pc' = "header"
        /\ UNCHANGED <<file, hdr, db, mem, new, acked, safe, crashes>>
    BY <1>7, <1>z DEF Rewind
  <2>2. QED
    BY <1>h, <2>1 DEF Undisturbed, Idle
<1>8. CASE WriteHeader
  <2>1. /\ FlushAll /\ pc = "header" /\ pc' = "idle"
        /\ acked' = Append(acked, new)
        /\ safe' = IF faults' + crashes = 0 THEN acked' ELSE safe
        /\ UNCHANGED <<db, mem, crashes>>
    BY <1>8, <1>z DEF WriteHeader, Flush
  <2>2. safe' = acked' /\ acked' = mem
    BY <1>h, <1>z, <2>1
  <2>3. /\ body' = body /\ hdr' = Len(mem) /\ file' = "ready"
        /\ buf' = <<>> /\ hbuf' = {}
    BY <1>t, <1>h, <2>1, QuietFlush
  <2>4. QED
    BY <1>h, <2>1, <2>2, <2>3 DEF Undisturbed, Idle
<1>9. CASE HeaderFails
  BY <1>9, <1>z DEF HeaderFails
<1>10. CASE Close
  <2>1. FlushAll /\ pc = "idle" /\ db' = "closed"
        /\ UNCHANGED <<pc, new, acked, safe, crashes>>
    BY <1>10, <1>h, <1>z DEF Close
  <2>2. body' = body /\ hdr' = hdr /\ file' = file /\ buf' = <<>> /\ hbuf' = {}
    BY <1>t, <1>h, <2>1, QuietFlush
  <2>3. QED
    BY <1>h, <2>1, <2>2 DEF Undisturbed, Idle
<1>12. CASE UNCHANGED vars
  BY <1>12, <1>h DEF vars, disk, stdio, Undisturbed, Idle
<1>13. QED
  BY <1>z, <1>1, <1>2, <1>3, <1>4, <1>5, <1>6, <1>7, <1>8, <1>9, <1>10,
     <1>12 DEF Next

(* A record that is kept is found where it is. *)
LEMMA KeptInPlace ==
  ASSUME TypeOK, Kept, NEW i \in 1 .. Len(safe)
  PROVE  InPlace(i) /\ body[3 * i][1] = safe[i]
<1>1. body \in Seq(Cells) /\ safe \in Seq(Memories)
  BY DEF TypeOK, Cells
<1>2. Len(body) \in Nat /\ Len(safe) \in Nat
  BY <1>1, LenProperties
<1>3. RecordAt(body, i, safe[i]) /\ 3 * i <= Len(body)
  BY <1>2 DEF Kept
<1>4. safe[i] \in Memories
  BY <1>1, ElementOfSeq
<1>5. safe[i] \in Stored
  BY <1>4 DEF Stored
<1>6. SubSeq(body, 3 * i - 2, 3 * i) = Record(safe[i])
  BY <1>1, <1>2, <1>3, <1>5, ThreeFields
<1>7. InPlace(i)
  BY <1>3, <1>4, <1>6 DEF InPlace
<1>8. body[3 * i] = <<safe[i], "text">>
  BY <1>3 DEF RecordAt
<1>9. QED
  BY <1>7, <1>8

(* `safe` changes only where a save is acknowledged and nothing has gone   *)
(* wrong; it then is what is in memory.                                    *)
LEMMA SafeGrows ==
  ASSUME IInv, [Next]_vars
  PROVE  \/ safe' = safe
         \/ /\ WriteHeader /\ safe' = mem /\ mem' = mem /\ db' = db
            /\ body' = body /\ hdr' = Len(mem) /\ Holds(body, mem)
<1>1. CASE WriteHeader /\ faults' + crashes = 0
  <2>1. TypeOK /\ faults \in Nat /\ crashes \in Nat
    BY DEF IInv, Ordered, TypeOK
  <2>2. /\ (FlushAll /\ faults' = faults) \/ (FlushPart /\ faults' = faults + 1)
        /\ pc = "header" /\ acked' = Append(acked, new) /\ safe' = acked'
        /\ UNCHANGED <<db, mem, crashes>>
    BY <1>1 DEF WriteHeader, Flush, Fault, NoFault
  <2>3. FlushAll /\ faults + crashes = 0
    BY <1>1, <2>1, <2>2
  <2>4. /\ mem = Append(acked, new) /\ hbuf = {Len(mem)} /\ buf = <<>>
        /\ Holds(body, mem)
    BY <2>2, <2>3 DEF IInv, Undisturbed
  <2>5. body' = body /\ hdr' = Len(mem)
    BY <2>1, <2>3, <2>4, QuietFlush
  <2>6. QED
    BY <1>1, <2>2, <2>4, <2>5
<1>2. CASE ~(WriteHeader /\ faults' + crashes = 0)
  BY <1>2 DEF Next, vars, OpenNew, CreateHeader, OpenExisting, Remember,
              SeekEnd, AppendRecord, Rewind, WriteHeader, HeaderFails, Close,
              Crash
<1>3. QED
  BY <1>1, <1>2

LEMMA NextKept ==
  ASSUME IInv, [Next]_vars
  PROVE  Kept'
<1>1. /\ TypeOK /\ Kept
      /\ Len(body) \in Nat /\ Len(safe) \in Nat /\ Len(mem) \in Nat
      /\ hdr \in Nat
  BY Lengths, LenProperties DEF IInv, Ordered, TypeOK
<1>2. TypeOK'
  BY NextTypeOK DEF IInv, Ordered
<1>3. hdr' >= hdr /\ hdr' \in Nat
  BY <1>2, NextCounted DEF IInv, TypeOK
<1>4. /\ Len(body') >= Len(body) /\ Len(body') \in Nat
      /\ \A i \in 1 .. Len(body) : body'[i] = body[i]
  BY <1>1, <1>2, BodyGrows, LenProperties DEF TypeOK
<1>5. CASE safe' = safe
  <2>1. Len(safe) <= hdr' /\ 3 * Len(safe) <= Len(body')
    BY <1>1, <1>3, <1>4 DEF Kept
  <2>2. ASSUME NEW i \in 1 .. Len(safe)
        PROVE  RecordAt(body', i, safe[i])
    <3>1. RecordAt(body, i, safe[i]) /\ 3 * Len(safe) <= Len(body)
      BY <1>1 DEF Kept
    <3>2. /\ 3 * i - 2 \in 1 .. Len(body) /\ 3 * i - 1 \in 1 .. Len(body)
          /\ 3 * i \in 1 .. Len(body)
      BY <1>1, <3>1
    <3>3. /\ body'[3 * i - 2] = body[3 * i - 2]
          /\ body'[3 * i - 1] = body[3 * i - 1]
          /\ body'[3 * i] = body[3 * i]
      BY <1>4, <3>2
    <3>4. QED
      BY <3>1, <3>3 DEF RecordAt
  <2>3. QED
    BY <1>5, <2>1, <2>2 DEF Kept
<1>6. CASE /\ safe' = mem /\ body' = body /\ hdr' = Len(mem)
           /\ Holds(body, mem)
  BY <1>1, <1>6 DEF Holds, Kept
<1>7. QED
  BY <1>5, <1>6, SafeGrows

LEMMA NextLoaded ==
  ASSUME IInv, [Next]_vars
  PROVE  Loaded'
<1>1. /\ TypeOK /\ Kept /\ Loaded /\ Settled
      /\ Len(safe) \in Nat /\ Len(mem) \in Nat /\ hdr \in Nat
  BY Lengths, LenProperties DEF IInv, Ordered, TypeOK
<1>2. CASE safe' # safe
  BY <1>1, <1>2, SafeGrows DEF Loaded
<1>3. CASE safe' = safe /\ mem' = mem /\ db' = db
  BY <1>1, <1>3 DEF Loaded
<1>4. CASE db' = "closed"
  BY <1>4 DEF Loaded
<1>5. CASE OpenNew
  <2>1. hdr = 0 /\ safe' = safe
    BY <1>1, <1>5 DEF OpenNew, Settled
  <2>2. Len(safe) = 0 /\ mem' = mem
    BY <1>1, <1>5, <2>1 DEF Kept, OpenNew
  <2>3. QED
    BY <1>1, <2>1, <2>2 DEF Loaded
<1>6. CASE OpenExisting
  <2> SUFFICES ASSUME db' = "open"
               PROVE  Loaded'
    BY DEF Loaded
  <2>1. safe' = safe /\ \E k \in 0 .. hdr : Decoded(k)
    BY <1>6 DEF OpenExisting
  <2>2. PICK k \in 0 .. hdr : Decoded(k)
    BY <2>1
  <2>3. Len(safe) <= hdr
    BY <1>1 DEF Kept
  <2>4. Len(safe) <= k
    <3> SUFFICES ASSUME k < Len(safe)
                 PROVE  FALSE
      BY <1>1
    <3>1. k + 1 \in 1 .. Len(safe) /\ k < hdr
      BY <1>1, <2>3
    <3>2. InPlace(k + 1)
      BY <1>1, <3>1, KeptInPlace
    <3>3. QED
      BY <2>2, <3>1, <3>2 DEF Decoded
  <2>5. mem' = [i \in 1 .. hdr |-> IF i <= k THEN body[3 * i][1] ELSE Junk]
    BY <2>2 DEF Decoded
  <2>6. Len(mem') = hdr
    BY <1>1, <2>5
  <2>7. ASSUME NEW i \in 1 .. Len(safe)
        PROVE  mem'[i] = safe[i]
    <3>1. i \in 1 .. hdr /\ i <= k
      BY <1>1, <2>3, <2>4
    <3>2. mem'[i] = body[3 * i][1]
      BY <2>5, <3>1
    <3>3. QED
      BY <1>1, <3>2, KeptInPlace
  <2>8. QED
    BY <2>1, <2>3, <2>6, <2>7 DEF Loaded
<1>7. CASE \E m \in Memories : Remember(m)
  <2>1. PICK m \in Memories : Remember(m)
    BY <1>7
  <2>2. mem \in Seq(Stored) /\ m \in Stored
    BY <1>1 DEF TypeOK, Stored
  <2>3. /\ Len(mem') = Len(mem) + 1
        /\ \A i \in 1 .. Len(mem) : mem'[i] = mem[i]
    BY <2>1, <2>2, AppendProperties DEF Remember
  <2>4. safe' = safe /\ db = "open"
    BY <2>1 DEF Remember, Idle
  <2>5. QED
    BY <1>1, <2>3, <2>4 DEF Loaded
<1>8. QED
  BY <1>2, <1>3, <1>4, <1>5, <1>6, <1>7
     DEF Next, vars, CreateHeader, SeekEnd, AppendRecord, Rewind,
         WriteHeader, HeaderFails, Close, Crash

-----------------------------------------------------------------------------
(* The theorems.                                                           *)

(* The invariant holds in every state.                                     *)
THEOREM Invariance == Spec => []IInv
<1>1. Init => IInv
  <2> SUFFICES ASSUME Init
               PROVE  IInv
    OBVIOUS
  <2>1. \A S : <<>> \in Seq(S) /\ Len(<<>>) = 0
    BY EmptySeq
  <2>2. TypeOK
    BY <2>1 DEF Init, TypeOK, Stored
  <2>3. Settled /\ Counted /\ Ahead
    BY <2>1 DEF Init, Settled, Counted, Ahead, HeaderBehindBody
  <2>4. Holds(<<>>, <<>>)
    BY <2>1 DEF Holds
  <2>5. Undisturbed
    BY <2>1, <2>4 DEF Init, Undisturbed, Idle
  <2>6. Kept /\ Loaded
    BY <2>1 DEF Init, Kept, Loaded
  <2>7. QED
    BY <2>2, <2>3, <2>5, <2>6 DEF IInv, Ordered
<1>2. IInv /\ [Next]_vars => IInv'
  <2> SUFFICES ASSUME IInv, [Next]_vars
               PROVE  IInv'
    OBVIOUS
  <2>1. Ordered
    BY DEF IInv
  <2>2. TypeOK' /\ Settled'
    BY <2>1, NextTypeOK, NextSettled DEF Ordered
  <2>3. Counted' /\ Ahead'
    BY <2>1, NextCounted, NextAhead
  <2>4. Undisturbed' /\ Kept' /\ Loaded'
    BY NextUndisturbed, NextKept, NextLoaded
  <2>5. QED
    BY <2>2, <2>3, <2>4 DEF IInv, Ordered
<1>3. QED
  BY <1>1, <1>2, PTL DEF Spec

(* Every variable keeps its type.                                          *)
THEOREM TypeCorrect == Spec => []TypeOK
<1>1. IInv => TypeOK
  BY DEF IInv, Ordered
<1>2. QED
  BY <1>1, Invariance, PTL

(* Without failing writes the header never counts a record that is not in  *)
(* the file.                                                               *)
THEOREM HeaderFollows == Spec => []HeaderBehindBody
<1>1. IInv => HeaderBehindBody
  BY DEF IInv, Ordered, Ahead, HeaderBehindBody
<1>2. QED
  BY <1>1, Invariance, PTL

(* The count of the file never goes back.                                  *)
THEOREM HeaderGrows == Spec => HeaderNeverShrinks
<1>1. IInv /\ [Next]_vars => [hdr' >= hdr]_vars
  <2> SUFFICES ASSUME IInv, [Next]_vars
               PROVE  hdr' >= hdr
    OBVIOUS
  <2>1. Ordered
    BY DEF IInv
  <2>2. QED
    BY <2>1, NextCounted
<1>2. QED
  BY <1>1, Invariance, PTL DEF Spec, HeaderNeverShrinks

(* Without failing writes and kills the file is the memory between calls.  *)
THEOREM FileIsMemory == Spec => []FileMirrorsMemory
<1>1. IInv => FileMirrorsMemory
  <2> SUFFICES ASSUME IInv, faults + crashes = 0
               PROVE  /\ db # "disabled"
                      /\ pc = "idle" => OnDisk(acked) /\ buf = <<>> /\ hbuf = {}
                      /\ Idle => mem = acked
    BY DEF FileMirrorsMemory
  <2>1. /\ TypeOK /\ db # "disabled" /\ hdr = Len(acked)
        /\ pc = "idle" => Holds(body, acked) /\ buf = <<>> /\ hbuf = {}
        /\ Idle => mem = acked
    BY DEF IInv, Ordered, Undisturbed
  <2>2. ASSUME pc = "idle"
        PROVE  OnDisk(acked)
    <3>1. /\ body \in Seq(Cells) /\ acked \in Seq(Memories)
          /\ Len(acked) \in Nat /\ DOMAIN acked = 1 .. Len(acked)
      BY <2>1, LenProperties DEF TypeOK, Cells
    <3>2. Holds(body, acked)
      BY <2>1, <2>2
    <3>3. ASSUME NEW i \in DOMAIN acked
          PROVE  SubSeq(body, 3 * i - 2, 3 * i) = Record(acked[i])
      <4>1. i \in Nat /\ 1 <= i /\ 3 * i <= Len(body)
        BY <3>1, <3>2 DEF Holds
      <4>2. acked[i] \in Memories
        BY <3>1, ElementOfSeq
      <4>3. acked[i] \in Stored
        BY <4>2 DEF Stored
      <4>4. RecordAt(body, i, acked[i])
        BY <3>1, <3>2 DEF Holds
      <4>5. QED
        BY <3>1, <4>1, <4>3, <4>4, ThreeFields
    <3>4. QED
      BY <2>1, <3>2, <3>3 DEF OnDisk, Holds
  <2>3. QED
    BY <2>1, <2>2
<1>2. QED
  BY <1>1, Invariance, PTL

(* The records acknowledged before anything went wrong are shown. *)
LEMMA EarlierShown == IInv => EarlierSurvive
<1> SUFFICES ASSUME IInv, db = "open"
             PROVE  IsPrefix(safe, mem)
  BY DEF EarlierSurvive
<1>1. /\ safe \in Seq(Memories) /\ mem \in Seq(Stored)
      /\ Len(safe) \in Nat /\ Len(mem) \in Nat
      /\ Len(safe) <= Len(mem)
      /\ \A i \in 1 .. Len(safe) : mem[i] = safe[i]
  BY LenProperties DEF IInv, Ordered, TypeOK, Loaded
<1>2. safe \in Seq(Stored)
  BY <1>1, SeqMonotonic DEF Stored
<1>3. SubSeq(safe, 1, Len(safe)) = safe
  BY <1>2, SubSeqFull
<1>4. /\ SubSeq(mem, 1, Len(safe)) \in Seq(Stored)
      /\ Len(SubSeq(mem, 1, Len(safe))) = Len(safe)
      /\ \A i \in 1 .. Len(safe) : SubSeq(mem, 1, Len(safe))[i] = mem[i]
  <2>1. \A i \in 1 .. Len(safe) : mem[i] \in Stored
    BY <1>1, ElementOfSeq
  <2>2. /\ SubSeq(mem, 1, Len(safe)) \in Seq(Stored)
        /\ Len(SubSeq(mem, 1, Len(safe))) =
             IF 1 <= Len(safe) THEN Len(safe) - 1 + 1 ELSE 0
        /\ \A i \in 1 .. Len(safe) - 1 + 1 :
             SubSeq(mem, 1, Len(safe))[i] = mem[1 + i - 1]
    BY <1>1, <2>1, SubSeqProperties
  <2>3. QED
    BY <1>1, <2>2
<1>5. SubSeq(mem, 1, Len(safe)) = safe
  BY <1>1, <1>2, <1>4, SeqEqual
<1>6. QED
  BY <1>1, <1>3, <1>5 DEF IsPrefix

(* What was acknowledged before anything went wrong is in every database   *)
(* that is opened later.                                                   *)
THEOREM EarlierKept == Spec => []EarlierSurvive
BY Invariance, EarlierShown, PTL

-----------------------------------------------------------------------------
(* One kill.                                                               *)

(* Where the one kill has left the file, until the next save is            *)
(* acknowledged, and what an open then finds.  The count of the file is    *)
(* that of the acknowledged saves; no call but a save can change it.       *)
AfterKill ==
  /\ db # "closed" => file # "absent"
  /\ Len(safe) <= Len(acked)
  /\ faults = 0 /\ crashes = 1 /\ acked = safe =>
       /\ file # "absent" /\ pc # "create" /\ hdr = Len(acked)
       /\ db = "open" => file = "ready"
       /\ db = "disabled" => file = "empty"
       /\ Idle => mem = acked

(* The file does not vanish, and what is safe was acknowledged. *)
LEMMA NextAfterKillShape ==
  ASSUME IInv, AfterKill, [Next]_vars
  PROVE  /\ file # "absent" => file' # "absent"
         /\ db' # "closed" => file' # "absent"
         /\ Len(safe') <= Len(acked')
<1>t. /\ TypeOK /\ Settled
      /\ acked \in Seq(Memories) /\ safe \in Seq(Memories)
      /\ Len(acked) \in Nat /\ Len(safe) \in Nat
      /\ Len(safe) <= Len(acked)
      /\ db # "closed" => file # "absent"
  BY LenProperties DEF IInv, Ordered, TypeOK, AfterKill
<1>1. file' = file \/ file' = "ready" \/ file' = "empty"
  BY DEF Next, vars, disk, FlushAll, FlushPart, OpenNew, CreateHeader, Flush,
         OpenExisting, Remember, SeekEnd, AppendRecord, Rewind, WriteHeader,
         HeaderFails, Close, Crash
<1>2. db' # "closed" => file' # "absent"
  <2>1. CASE OpenNew
    BY <2>1 DEF OpenNew
  <2>2. CASE OpenExisting
    BY <2>2 DEF OpenExisting, disk
  <2>3. CASE ~OpenNew /\ ~OpenExisting
    <3>1. db' = db \/ db' = "closed"
      BY <2>3 DEF Next, vars, CreateHeader, Remember, SeekEnd, AppendRecord,
                  Rewind, WriteHeader, HeaderFails, Close, Crash
    <3>2. QED
      BY <1>t, <1>1, <3>1
  <2>4. QED
    BY <2>1, <2>2, <2>3
<1>3. Len(safe') <= Len(acked')
  <2>1. CASE WriteHeader
    <3>1. acked' = Append(acked, new) /\ (safe' = acked' \/ safe' = safe)
      BY <2>1 DEF WriteHeader
    <3>2. new \in Memories
      BY <1>t, <2>1 DEF WriteHeader, Settled
    <3>3. Len(acked') = Len(acked) + 1
      BY <1>t, <3>1, <3>2, AppendProperties
    <3>4. QED
      BY <1>t, <3>1, <3>3
  <2>2. CASE ~WriteHeader
    <3>1. acked' = acked /\ safe' = safe
      BY <2>2 DEF Next, vars, OpenNew, CreateHeader, OpenExisting, Remember,
                  SeekEnd, AppendRecord, Rewind, HeaderFails, Close, Crash
    <3>2. QED
      BY <1>t, <3>1
  <2>3. QED
    BY <2>1, <2>2
<1>4. QED
  BY <1>1, <1>2, <1>3

LEMMA NextAfterKill ==
  ASSUME IInv, AfterKill, [Next]_vars
  PROVE  AfterKill'
<1>s. /\ file # "absent" => file' # "absent"
      /\ db' # "closed" => file' # "absent"
      /\ Len(safe') <= Len(acked')
  BY NextAfterKillShape
<1> SUFFICES ASSUME faults' = 0, crashes' = 1, acked' = safe'
             PROVE  /\ file' # "absent" /\ pc' # "create"
                    /\ hdr' = Len(acked')
                    /\ db' = "open" => file' = "ready"
                    /\ db' = "disabled" => file' = "empty"
                    /\ db' = "open" /\ pc' = "idle" => mem' = acked'
  BY <1>s DEF AfterKill, Idle
<1>t. /\ TypeOK /\ Settled /\ Kept /\ faults \in Nat /\ crashes \in Nat
      /\ acked \in Seq(Memories) /\ safe \in Seq(Memories)
      /\ Len(acked) \in Nat /\ Len(safe) \in Nat /\ Len(safe) <= Len(acked)
      /\ file \in {"absent", "empty", "ready"} /\ hdr \in Nat
      /\ db \in {"closed", "open", "disabled"}
  BY LenProperties DEF IInv, Ordered, TypeOK, AfterKill
<1>n. /\ faults' = faults \/ faults' = faults + 1
      /\ crashes' = crashes \/ (Crash /\ crashes' = crashes + 1)
  BY DEF Next, vars, Fault, NoFault, OpenNew, CreateHeader, Flush,
         OpenExisting, Remember, SeekEnd, AppendRecord, Rewind, WriteHeader,
         HeaderFails, Close, Crash
<1>z. faults = 0 /\ ~Fault
  BY <1>t, <1>n DEF Fault
\* The kill itself: everything until then went well.
<1>1. CASE Crash
  <2>1. /\ crashes = 0 /\ db # "closed" /\ file' = file /\ hdr' = hdr
        /\ acked' = acked /\ db' = "closed" /\ pc' = "idle"
    BY <1>1, <1>t DEF Crash, disk
  <2>2. faults + crashes = 0
    BY <1>z, <2>1
  <2>3. hdr = Len(acked) /\ file # "absent"
    BY <2>1, <2>2 DEF IInv, Undisturbed, AfterKill
  <2>4. QED
    BY <2>1, <2>3
\* Another save is acknowledged, and is not among the ones from before.
<1>2. CASE WriteHeader
  <2>1. acked' = Append(acked, new) /\ new \in Memories
    BY <1>2, <1>t DEF WriteHeader, Settled
  <2>2. safe' = safe
    <3>1. crashes = 1
      BY <1>2 DEF WriteHeader
    <3>2. QED
      BY <1>2, <3>1 DEF WriteHeader
  <2>3. Len(acked') = Len(acked) + 1
    BY <1>t, <2>1, AppendProperties
  <2>4. QED
    BY <1>t, <2>2, <2>3
<1>3. CASE ~Crash /\ ~WriteHeader
  <2>1. crashes = 1 /\ acked' = acked /\ safe' = safe
    BY <1>3, <1>n DEF Next, vars, OpenNew, CreateHeader, OpenExisting,
       Remember, SeekEnd, AppendRecord, Rewind, HeaderFails, Close
  <2>h. /\ file # "absent" /\ pc # "create" /\ hdr = Len(acked)
        /\ db = "open" => file = "ready"
        /\ db = "disabled" => file = "empty"
        /\ db = "open" /\ pc = "idle" => mem = acked
        /\ acked = safe
    BY <1>z, <2>1 DEF AfterKill, Idle
  <2>b. hbuf # {} => pc = "header"
    BY <1>z, <2>h DEF IInv, Ordered, Ahead
  <2>f. ASSUME FlushAll, hbuf = {}
        PROVE  hdr' = hdr /\ file' = file
    BY <1>t, <2>f, QuietFlush
  <2>2. CASE OpenExisting
    <3>1. /\ hdr' = hdr /\ file' = file /\ db = "closed" /\ pc = "idle"
          /\ pc' = "idle"
      BY <1>t, <2>2 DEF OpenExisting, disk, Settled
    <3>2. ASSUME NEW i \in 1 .. hdr
          PROVE  InPlace(i) /\ body[3 * i][1] = acked[i]
      BY <1>t, <2>h, <3>2, KeptInPlace
    <3>3. db' = "disabled" => file = "empty"
      BY <1>t, <2>2, <2>h, <3>2 DEF OpenExisting
    <3>4. ASSUME db' = "open"
          PROVE  file = "ready" /\ mem' = acked
      <4>1. file = "ready" /\ \E k \in 0 .. hdr : Decoded(k)
        BY <2>2, <3>4 DEF OpenExisting
      <4>2. PICK k \in 0 .. hdr : Decoded(k)
        BY <4>1
      <4>3. k = hdr
        <5>1. k < hdr => k + 1 \in 1 .. hdr
          BY <1>t
        <5>2. QED
          BY <1>t, <3>2, <4>2, <5>1 DEF Decoded
      <4>4. mem' = [i \in 1 .. hdr |-> acked[i]]
        BY <1>t, <3>2, <4>2, <4>3 DEF Decoded
      <4>5. acked \in [1 .. Len(acked) -> Memories]
        BY <1>t, LenProperties
      <4>6. QED
        BY <2>h, <4>1, <4>4, <4>5
    <3>5. QED
      BY <2>1, <2>h, <3>1, <3>3, <3>4
  <2>3. CASE \E m \in Memories : Remember(m)
    <3>1. /\ hdr' = hdr /\ file' = file /\ db' = db /\ pc' = "seek"
      BY <2>3 DEF Remember, disk
    <3>2. QED
      BY <2>1, <2>h, <3>1
  <2>4. CASE SeekEnd
    <3>1. FlushAll /\ pc = "seek" /\ pc' = "append" /\ db' = db
      BY <1>z, <2>4 DEF SeekEnd
    <3>2. hdr' = hdr /\ file' = file
      BY <2>b, <2>f, <3>1
    <3>3. QED
      BY <2>1, <2>h, <3>1, <3>2
  <2>5. CASE AppendRecord
    <3>1. hdr' = hdr /\ file' = file /\ db' = db /\ pc' = "rewind"
      BY <1>z, <2>5 DEF AppendRecord
    <3>2. QED
      BY <2>1, <2>h, <3>1
  <2>6. CASE Rewind
    <3>1. hdr' = hdr /\ file' = file /\ db' = db /\ pc' = "header"
      BY <2>6 DEF Rewind
    <3>2. QED
      BY <2>1, <2>h, <3>1
  <2>7. CASE Close
    <3>1. pc = "idle" /\ pc' = "idle" /\ db' = "closed"
      BY <2>7 DEF Close
    <3>2. hdr' = hdr /\ file' = file
      BY <1>z, <2>7, <2>b, <2>f, <3>1 DEF Close, disk
    <3>3. QED
      BY <2>1, <2>h, <3>1, <3>2
  <2>8. CASE UNCHANGED vars
    BY <2>1, <2>8, <2>h DEF vars, disk
  <2>9. QED
    BY <1>3, <1>z, <2>h, <2>2, <2>3, <2>4, <2>5, <2>6, <2>7, <2>8
       DEF Next, OpenNew, CreateHeader, HeaderFails
<1>4. QED
  BY <1>1, <1>2, <1>3

(* The file is as the one kill left it in every state.                     *)
THEOREM KillIsKept == Spec => []AfterKill
<1>1. Init => AfterKill
  <2>1. Init => Len(safe) <= Len(acked)
    BY EmptySeq DEF Init
  <2>2. QED
    BY <2>1 DEF Init, AfterKill
<1>2. IInv /\ AfterKill /\ [Next]_vars => AfterKill'
  BY NextAfterKill
<1>3. QED
  BY <1>1, <1>2, Invariance, PTL DEF Spec

(* A kill in the middle of a save loses that save and nothing else.        *)
THEOREM KilledOnce == Spec => []KillLosesNothing
<1>1. AfterKill => KillLosesNothing
  BY DEF AfterKill, KillLosesNothing
<1>2. QED
  BY <1>1, KillIsKept, PTL

-----------------------------------------------------------------------------
(* The refinement.                                                         *)

(* Who may be saving, and what nothing but saves has done to the list.     *)
LEMMA Saving ==
  ASSUME IInv
  PROVE  /\ faults \in Nat /\ crashes \in Nat
         /\ db # "open" => pc = "idle"
         /\ Storing => db = "open" /\ new \in Memories
         /\ Storing => new # Junk
         /\ faults + crashes = 0 => safe = acked
         /\ faults + crashes = 0 /\ hdr = 0 => acked = <<>>
<1>1. /\ TypeOK /\ Settled /\ Undisturbed
      /\ faults \in Nat /\ crashes \in Nat /\ acked \in Seq(Memories)
  BY DEF IInv, Ordered, TypeOK
<1>2. Storing => db = "open" /\ new \in Memories
  BY <1>1 DEF Settled, Storing
<1>3. faults + crashes = 0 /\ hdr = 0 => acked = <<>>
  BY <1>1, EmptySeq DEF Undisturbed
<1>4. QED
  BY <1>1, <1>2, <1>3, JunkAssumption DEF Settled, Undisturbed

(* What the list sees of the database. *)
Trouble == IF faults + crashes = 0 THEN "none"
           ELSE IF faults = 0 /\ crashes = 1 /\ acked = safe THEN "killed"
           ELSE "more"
Phase == IF db = "disabled" THEN "useless" ELSE db
Pending == IF Storing THEN new ELSE Junk

(* How a step changes the account of accidents. *)
LEMMA TroubleIs ==
  ASSUME IInv
  PROVE  /\ NoFault /\ UNCHANGED <<crashes, acked, safe>> => Trouble' = Trouble
         /\ Fault /\ crashes' = crashes => Trouble' = "more"
<1>1. faults \in Nat /\ crashes \in Nat
  BY Saving
<1>2. ASSUME Fault, crashes' = crashes
      PROVE  Trouble' = "more"
  <2>1. faults' = faults + 1
    BY <1>2 DEF Fault
  <2>2. faults' + crashes' # 0 /\ faults' # 0
    BY <1>1, <1>2, <2>1
  <2>3. QED
    BY <2>2 DEF Trouble
<1>3. QED
  BY <1>2 DEF NoFault, Trouble

(* Between the steps of a save the list stands still, disturbed or not. *)
LEMMA Standing ==
  ASSUME IInv, UNCHANGED <<acked, safe, mem, crashes>>,
         Phase' = Phase, Pending' = Pending, NoFault \/ Fault
  PROVE  [DL!Next]_(DL!vars)
<1>1. CASE NoFault
  <2>1. Trouble' = Trouble
    BY <1>1, TroubleIs
  <2>2. QED
    BY <2>1 DEF DL!vars, Phase, Pending, Trouble
<1>2. CASE Fault
  <2>1. Trouble' = "more"
    BY <1>2, TroubleIs
  <2>2. DL!Mishap
    BY <2>1 DEF DL!Mishap, DL!Disturbed, Phase, Pending, Trouble
  <2>3. QED
    BY <2>2 DEF DL!Next
<1>3. QED
  BY <1>1, <1>2

(* A save that gives up was disturbed. *)
LEMMA GivingUp ==
  ASSUME IInv, Storing, Fails, Fault,
         UNCHANGED <<acked, safe, mem, db, crashes>>
  PROVE  [DL!Next]_(DL!vars)
<1>1. Trouble' = "more"
  BY TroubleIs
<1>2. Pending # Junk /\ Pending' = Junk /\ Phase' = Phase
  BY Saving DEF Pending, Phase, Storing, Fails
<1>3. DL!Refuse
  BY <1>1, <1>2 DEF DL!Refuse, DL!Disturbed, Phase, Pending, Trouble
<1>4. QED
  BY <1>3 DEF DL!Next

(* An open shows the list, or what is left of it. *)
LEMMA Opening ==
  ASSUME IInv, IInv', AfterKill', EarlierSurvive',
         OpenNew \/ OpenExisting
  PROVE  [DL!Next]_(DL!vars)
<1>1. /\ db = "closed" /\ pc = "idle" /\ pc' \in {"idle", "create"}
      /\ UNCHANGED <<acked, safe, new, faults, crashes>>
      /\ db' \in {"open", "disabled"}
  BY Saving DEF OpenNew, OpenExisting, disk
<1>2. /\ Trouble' = Trouble /\ Phase = "closed"
      /\ Pending = Junk /\ Pending' = Junk
  BY <1>1 DEF Trouble, Phase, Pending, Storing
<1>3. CASE db' = "open"
  <2>1. IsPrefix(safe, mem')
    BY <1>1, <1>3 DEF EarlierSurvive
  <2>2. ASSUME Trouble # "more"
        PROVE  mem' = acked
    <3>1. CASE Trouble = "none"
      <4>1. faults' + crashes' = 0
        BY <1>1, <3>1 DEF Trouble
      <4>2. QED
        BY <1>1, <1>3, <4>1 DEF IInv, Undisturbed, Idle
    <3>2. CASE Trouble = "killed"
      <4>1. faults' = 0 /\ crashes' = 1 /\ acked' = safe'
        BY <1>1, <3>2 DEF Trouble
      <4>2. pc' # "create"
        BY <4>1 DEF AfterKill
      <4>3. QED
        BY <1>1, <1>3, <4>1, <4>2 DEF AfterKill, Idle
    <3>3. QED
      BY <2>2, <3>1, <3>2 DEF Trouble
  <2>3. DL!Open
    BY <1>1, <1>2, <1>3, <2>1, <2>2
       DEF DL!Open, DL!IsPrefix, IsPrefix, Phase, Pending, Trouble
  <2>4. QED
    BY <2>3 DEF DL!Next
<1>4. CASE db' = "disabled"
  <2>1. Trouble # "none" /\ mem' = mem
    <3>1. faults' + crashes' # 0
      BY <1>4 DEF IInv, Undisturbed
    <3>2. mem = <<>> /\ mem' = <<>>
      BY <1>1, <1>4 DEF IInv, Ordered, Settled
    <3>3. QED
      BY <1>1, <3>1, <3>2 DEF Trouble
  <2>2. ASSUME Trouble = "killed"
        PROVE  acked = <<>>
    <3>1. faults' = 0 /\ crashes' = 1 /\ acked' = safe'
      BY <1>1, <2>2 DEF Trouble
    <3>2. file' = "empty" /\ hdr' = Len(acked')
      BY <1>4, <3>1 DEF AfterKill
    <3>3. hdr' = 0
      BY <3>2 DEF IInv, Ordered, Settled
    <3>4. acked \in Seq(Memories)
      BY DEF IInv, Ordered, TypeOK
    <3>5. QED
      BY <1>1, <3>2, <3>3, <3>4, EmptySeq
  <2>3. DL!Unreadable
    BY <1>1, <1>2, <1>4, <2>1, <2>2
       DEF DL!Unreadable, Phase, Pending, Trouble
  <2>4. QED
    BY <2>3 DEF DL!Next
<1>5. QED
  BY <1>1, <1>3, <1>4

(* A save is acknowledged. *)
LEMMA Acknowledging ==
  ASSUME IInv, AfterKill, WriteHeader
  PROVE  [DL!Next]_(DL!vars)
<1>1. /\ Storing /\ ~Storing' /\ acked' = Append(acked, new)
      /\ UNCHANGED <<mem, db, crashes>>
      /\ NoFault \/ Fault
  BY DEF WriteHeader, Storing, Flush
<1>2. Phase' = Phase /\ Phase = "open" /\ Pending = new /\ Pending # Junk
      /\ Pending' = Junk
  BY <1>1, Saving DEF Phase, Pending
<1>3. \/ Trouble = "none" /\ Trouble' = Trouble /\ safe' = acked'
      \/ Trouble' = "more" /\ safe' = safe
  <2>1. CASE faults' + crashes = 0
    <3>1. faults + crashes = 0
      BY <1>1, <2>1, Saving DEF NoFault, Fault
    <3>2. QED
      BY <1>1, <2>1, <3>1 DEF WriteHeader, Trouble
  <2>2. CASE faults' + crashes # 0
    <3>1. safe' = safe
      BY <2>2 DEF WriteHeader
    <3>2. CASE faults' = 0 /\ crashes' = 1
      <4>1. acked' # safe'
        <5>1. /\ acked \in Seq(Memories) /\ safe \in Seq(Memories)
              /\ new \in Memories
          BY <1>1, Saving DEF IInv, Ordered, TypeOK
        <5>2. Len(acked') = Len(acked) + 1
          BY <1>1, <5>1, AppendProperties
        <5>3. Len(safe) <= Len(acked)
          BY DEF AfterKill
        <5>4. QED
          BY <3>1, <5>1, <5>2, <5>3, LenProperties
      <4>2. QED
        BY <1>1, <2>2, <3>1, <4>1 DEF Trouble
    <3>3. QED
      BY <1>1, <2>2, <3>1, <3>2 DEF Trouble
  <2>3. QED
    BY <2>1, <2>2
<1>4. DL!Acknowledge
  BY <1>1, <1>2, <1>3 DEF DL!Acknowledge, DL!Disturbed, DL!Smooth, Phase,
     Pending, Trouble
<1>5. QED
  BY <1>4 DEF DL!Next

(* Every step is a step of the list, or leaves it alone. *)
LEMMA ListStep ==
  ASSUME IInv, AfterKill, IInv', AfterKill', EarlierSurvive', [Next]_vars
  PROVE  [DL!Next]_(DL!vars)
<1>t. db \in {"closed", "open", "disabled"}
  BY DEF IInv, Ordered, TypeOK
<1>1. CASE OpenNew \/ OpenExisting
  BY <1>1, Opening
<1>2. CASE CreateHeader
  <2>1. Phase' = Phase /\ Pending' = Pending /\ (NoFault \/ Fault)
    BY <1>2 DEF CreateHeader, Flush, Phase, Pending, Storing
  <2>2. QED
    BY <1>2, <2>1, Standing DEF CreateHeader
<1>3. CASE \E m \in Memories : Remember(m)
  <2>1. PICK m \in Memories : Remember(m)
    BY <1>3
  <2>2. /\ db = "open" /\ db' = db /\ ~Storing /\ Storing' /\ new' = m
        /\ UNCHANGED <<acked, safe, faults, crashes>>
        /\ mem' = Append(mem, m)
        /\ \A i \in DOMAIN mem : mem[i] # m
    BY <2>1 DEF Remember, Idle, Storing, Known
  <2>3. /\ Phase = "open" /\ Phase' = Phase
        /\ Pending = Junk /\ Pending' = m /\ Trouble' = Trouble
    BY <2>2 DEF Phase, Pending, Trouble
  <2>4. DL!Begin(m)
    BY <2>2, <2>3 DEF DL!Begin, Phase, Pending, Trouble
  <2>5. QED
    BY <2>4 DEF DL!Next
<1>4. CASE SeekEnd
  <2>1. CASE Fails /\ Fault
    BY <1>4, <2>1, GivingUp DEF SeekEnd, Storing
  <2>2. CASE NoFault /\ pc' = "append" /\ new' = new
    <3>1. Phase' = Phase /\ Pending' = Pending
      BY <1>4, <2>2 DEF SeekEnd, Phase, Pending, Storing
    <3>2. QED
      BY <1>4, <2>2, <3>1, Standing DEF SeekEnd
  <2>3. QED
    BY <1>4, <2>1, <2>2 DEF SeekEnd
<1>5. CASE AppendRecord
  <2>1. CASE Fails /\ Fault
    BY <1>5, <2>1, GivingUp DEF AppendRecord, Storing
  <2>2. CASE NoFault /\ pc' = "rewind" /\ new' = new
    <3>1. Phase' = Phase /\ Pending' = Pending
      BY <1>5, <2>2 DEF AppendRecord, Phase, Pending, Storing
    <3>2. QED
      BY <1>5, <2>2, <3>1, Standing DEF AppendRecord
  <2>3. QED
    BY <1>5, <2>1, <2>2 DEF AppendRecord
<1>6. CASE Rewind
  <2>1. Phase' = Phase /\ Pending' = Pending /\ (NoFault \/ Fault)
    BY <1>6 DEF Rewind, Phase, Pending, Storing
  <2>2. QED
    BY <1>6, <2>1, Standing DEF Rewind
<1>7. CASE WriteHeader
  BY <1>7, Acknowledging
<1>8. CASE HeaderFails
  BY <1>8, GivingUp DEF HeaderFails, Storing
<1>9. CASE Close
  <2>1. /\ pc = "idle" /\ pc' = pc /\ db # "closed" /\ db' = "closed"
        /\ mem' = <<>> /\ UNCHANGED <<acked, safe, crashes>>
        /\ NoFault \/ Fault
    BY <1>9 DEF Close
  <2>2. /\ Phase # "closed" /\ Phase' = "closed"
        /\ Pending = Junk /\ Pending' = Junk
    BY <2>1 DEF Phase, Pending, Storing
  <2>3. Trouble' = Trouble \/ Trouble' = "more"
    BY <2>1, TroubleIs
  <2>4. DL!Close
    BY <2>1, <2>2, <2>3
       DEF DL!Close, DL!Disturbed, DL!Smooth, Phase, Pending, Trouble
  <2>5. QED
    BY <2>4 DEF DL!Next
<1>10. CASE Crash
  <2>1. /\ db # "closed" /\ db' = "closed" /\ pc' = "idle"
        /\ mem' = <<>> /\ UNCHANGED <<acked, safe, faults>>
        /\ crashes' = crashes + 1
    BY <1>10 DEF Crash
  <2>2. Phase # "closed" /\ Phase' = "closed" /\ Pending' = Junk
    BY <2>1 DEF Phase, Pending, Storing
  <2>3. Trouble' = IF Trouble = "none" THEN "killed" ELSE "more"
    BY <2>1, Saving DEF Trouble
  <2>4. DL!Kill
    BY <2>1, <2>2, <2>3 DEF DL!Kill, Phase, Pending, Trouble
  <2>5. QED
    BY <2>4 DEF DL!Next
<1>11. CASE UNCHANGED vars
  BY <1>11 DEF vars, Storing, DL!vars
<1>12. QED
  BY <1>1, <1>2, <1>3, <1>4, <1>5, <1>6, <1>7, <1>8, <1>9, <1>10, <1>11
     DEF Next

(* The database is a durable list: every step of it is a step of the list  *)
(* or leaves the list alone, for any number of kills and failing writes.   *)
THEOREM RefinesDurableList == Spec => ImplementsDurableList
<1>1. Init => DL!Init
  BY DEF Init, DL!Init, Storing
<1>2. /\ IInv /\ AfterKill /\ [Next]_vars
      /\ IInv' /\ AfterKill' /\ EarlierSurvive'
      => [DL!Next]_(DL!vars)
  BY ListStep
<1>3. QED
  BY <1>1, <1>2, Invariance, KillIsKept, EarlierKept, PTL
     DEF Spec, ImplementsDurableList, DL!Spec

=============================================================================
