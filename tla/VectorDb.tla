------------------------------ MODULE VectorDb ------------------------------
(***************************************************************************)
(* The memory database (src/rag/vector_db.c, saved to by auto_save.c): an  *)
(* append-only file, a header that counts its records, and a copy of the   *)
(* records in memory.  stdio stands between the two: what fwrite() took    *)
(* may reach the file at once, at the next flush, or, if the process is    *)
(* killed, never.  What has reached the file survives a kill.              *)
(*                                                                         *)
(* The file behind its header is a sequence of fields.  A record is three  *)
(* of them, its embedding, its text_len and its text; a field that was cut *)
(* counts as written, since whatever follows is misplaced either way.      *)
(***************************************************************************)
EXTENDS Integers, Sequences

CONSTANTS Memories,    \* memories, no two of them similar
          Junk,        \* what a misplaced record decodes to
          MaxEntries,  \* VRDB_MAX_ENTRIES
          MaxFaults,   \* bound: failing writes of a history
          MaxCrashes   \* bound: kills of a history

ASSUME JunkAssumption == Junk \notin Memories
ASSUME BoundsAssumption ==
  MaxEntries \in Nat /\ MaxFaults \in Nat /\ MaxCrashes \in Nat

Fields == {"embedding", "text_len", "text", "header"}
Stored == Memories \cup {Junk}

VARIABLES file,    \* no file, one without a header, or one with a header
          hdr,     \* num_entries in its header
          body,    \* the fields behind the header
          buf,     \* fields that stdio holds back, to go to the end
          hbuf,    \* the header that stdio holds back, to go to the start
          db,      \* closed, open, or disabled since it could not be read
          mem,     \* the records in memory, num_entries of them
          pc,      \* the call that is running
          new,     \* the memory it stores
          acked,   \* memories whose save returned 0, in that order
          safe,    \* those that returned before the first fault or kill
          faults, crashes

disk == <<file, hdr, body>>
stdio == <<buf, hbuf>>
vars == <<disk, stdio, db, mem, pc, new, acked, safe, faults, crashes>>

Init ==
  /\ file = "absent" /\ hdr = 0 /\ body = <<>>
  /\ buf = <<>> /\ hbuf = {}
  /\ db = "closed" /\ mem = <<>> /\ pc = "idle" /\ new = Junk
  /\ acked = <<>> /\ safe = <<>> /\ faults = 0 /\ crashes = 0

Record(m) == <<<<m, "embedding">>, <<m, "text_len">>, <<m, "text">>>>

Fault == faults < MaxFaults /\ faults' = faults + 1
NoFault == faults' = faults

-----------------------------------------------------------------------------
\* stdio.  A flush writes everything, or stops short of the last field.

FlushAll ==
  /\ body' = body \o buf /\ buf' = <<>>
  /\ hdr' = IF hbuf = {} THEN hdr ELSE CHOOSE n \in hbuf : TRUE
  /\ file' = IF hbuf = {} THEN file ELSE "ready"
  /\ hbuf' = {}

FlushPart ==
  /\ buf # <<>> \/ hbuf # {}
  /\ \E k \in 0 .. Len(buf) :
       /\ k < Len(buf) \/ buf = <<>>
       /\ body' = body \o SubSeq(buf, 1, k)
       /\ buf' = SubSeq(buf, k + 1, Len(buf))
  /\ UNCHANGED <<file, hdr, hbuf>>

Flush ==
  \/ FlushAll /\ NoFault
  \/ FlushPart /\ Fault

-----------------------------------------------------------------------------
\* vector_db_open().

\* There is no file: create it and write a header that counts no record.
OpenNew ==
  /\ db = "closed" /\ file = "absent"
  /\ file' = "empty" /\ hbuf' = {0}
  /\ db' = "open" /\ pc' = "create"
  /\ UNCHANGED <<hdr, body, buf, mem, new, acked, safe, faults, crashes>>

\* Mutant: the call is taken for a save.
CreateHeader_Mut ==
  /\ pc = "create" /\ Flush /\ pc' = "idle"
  /\ acked' = Append(acked, new)
  /\ UNCHANGED <<db, mem, new, safe, crashes>>

\* fflush(), whose result is ignored.
CreateHeader ==
  /\ pc = "create" /\ Flush /\ pc' = "idle"
  /\ UNCHANGED <<db, mem, new, acked, safe, crashes>>

\* The i-th record is where a reader that has read the others looks for it.
InPlace(i) ==
  /\ 3 * i <= Len(body)
  /\ \E m \in Memories : SubSeq(body, 3 * i - 2, 3 * i) = Record(m)

\* All records are in place, or the ones from k + 1 on decode to junk: that
\* takes a text_len that happens to be valid, and enough bytes behind it.
Decoded(k) ==
  /\ \A i \in 1 .. k : InPlace(i)
  /\ k < hdr => ~InPlace(k + 1) /\ Len(body) > 3 * k + 1
  /\ mem' = [i \in 1 .. hdr |-> IF i <= k THEN body[3 * i][1] ELSE Junk]

OpenExisting ==
  /\ db = "closed" /\ file # "absent"
  /\ \/ /\ file = "ready"
        /\ \E k \in 0 .. hdr : Decoded(k)
        /\ db' = "open"
     \/ /\ file = "ready" => \E i \in 1 .. hdr : ~InPlace(i)
        /\ db' = "disabled" /\ mem' = <<>>
  /\ UNCHANGED <<disk, stdio, pc, new, acked, safe, faults, crashes>>

-----------------------------------------------------------------------------
\* auto_save_memory() and vector_db_store().

Known(m) == \E i \in DOMAIN mem : mem[i] = m

Idle == db = "open" /\ pc = "idle"

\* No similar entry, and room for one more: into memory first.
Remember(m) ==
  /\ Idle /\ Len(mem) < MaxEntries /\ ~Known(m)
  /\ mem' = Append(mem, m) /\ new' = m /\ pc' = "seek"
  /\ UNCHANGED <<disk, stdio, db, acked, safe, faults, crashes>>

\* An error is returned; the record stays in memory.
Fails == pc' = "idle" /\ new' = Junk

\* fseek() to the end flushes what an earlier failure left behind.
SeekEnd ==
  /\ pc = "seek"
  /\ \/ FlushAll /\ NoFault /\ pc' = "append" /\ new' = new
     \/ FlushPart /\ Fault /\ Fails
  /\ UNCHANGED <<db, mem, acked, safe, crashes>>

\* Mutant: no seek to the end, the record lands behind the header.
AppendRecord_Mut ==
  /\ pc = "append" /\ NoFault
  /\ body' = Record(new) \o SubSeq(body, 4, Len(body))
  /\ pc' = "rewind"
  /\ UNCHANGED <<file, hdr, stdio, db, mem, new, acked, safe, crashes>>

\* Three calls of fwrite(); any of the fields may already go to the file.
AppendRecord ==
  /\ pc = "append"
  /\ LET r == Record(new) IN
     \E j \in 0 .. 3, k \in 0 .. 3 :
       /\ k <= j
       /\ body' = body \o SubSeq(r, 1, k) /\ buf' = SubSeq(r, k + 1, j)
       /\ \/ j = 3 /\ NoFault /\ pc' = "rewind" /\ new' = new
          \/ j < 3 /\ Fault /\ Fails
  /\ UNCHANGED <<file, hdr, hbuf, db, mem, acked, safe, crashes>>

\* Mutant: the header is written without a rewind, before the record.
Rewind_Mut ==
  /\ pc = "rewind"
  /\ hdr' = Len(mem) /\ NoFault
  /\ pc' = "header"
  /\ UNCHANGED <<file, body, buf, hbuf>>
  /\ UNCHANGED <<db, mem, new, acked, safe, crashes>>

\* write_header(): rewind() flushes the record and reports nothing.  If that
\* fails the stream stays at the end and the header is put there.
Rewind ==
  /\ pc = "rewind"
  /\ \/ /\ body' = body \o buf /\ buf' = <<>>
        /\ hbuf' = {Len(mem)} /\ NoFault
     \/ /\ Fault /\ hbuf' = hbuf
        /\ \E k \in 0 .. Len(buf) - 1 :
             /\ body' = body \o SubSeq(buf, 1, k)
             /\ buf' = Append(SubSeq(buf, k + 1, Len(buf)),
                              <<Junk, "header">>)
  /\ pc' = "header"
  /\ UNCHANGED <<file, hdr, db, mem, new, acked, safe, crashes>>

\* Mutant: the header is left to a later flush.
WriteHeader_Mut ==
  /\ pc = "header"
  /\ UNCHANGED <<disk, stdio>> /\ NoFault
  /\ pc' = "idle" /\ new' = Junk
  /\ acked' = Append(acked, new)
  /\ safe' = IF faults' + crashes = 0 THEN acked' ELSE safe
  /\ UNCHANGED <<db, mem, crashes>>

\* fflush(), whose result is ignored: the save is acknowledged.
WriteHeader ==
  /\ pc = "header" /\ Flush
  /\ pc' = "idle" /\ new' = Junk
  /\ acked' = Append(acked, new)
  /\ safe' = IF faults' + crashes = 0 THEN acked' ELSE safe
  /\ UNCHANGED <<db, mem, crashes>>

\* fwrite() of the header fails: the stream was full after a failed rewind.
HeaderFails ==
  /\ pc = "header" /\ buf # <<>>
  /\ Fault /\ Fails
  /\ UNCHANGED <<disk, stdio, db, mem, acked, safe, crashes>>

-----------------------------------------------------------------------------
\* vector_db_close(), or the end of a process that went on without memory.
Close ==
  /\ pc = "idle"
  /\ \/ /\ db = "open"
        /\ \/ FlushAll /\ NoFault
           \/ /\ Fault /\ buf' = <<>> /\ hbuf' = {}
              /\ buf # <<>> \/ hbuf # {}
              /\ \E k \in 0 .. Len(buf) : body' = body \o SubSeq(buf, 1, k)
              /\ UNCHANGED <<file, hdr>>
     \/ db = "disabled" /\ UNCHANGED <<disk, stdio>> /\ NoFault
  /\ db' = "closed" /\ mem' = <<>>
  /\ UNCHANGED <<pc, new, acked, safe, crashes>>

\* The process is killed: what stdio held back is gone.
Crash ==
  /\ db # "closed" /\ crashes < MaxCrashes
  /\ crashes' = crashes + 1
  /\ buf' = <<>> /\ hbuf' = {}
  /\ db' = "closed" /\ mem' = <<>> /\ pc' = "idle" /\ new' = Junk
  /\ UNCHANGED <<disk, acked, safe, faults>>

Next ==
  \/ OpenNew \/ CreateHeader \/ OpenExisting
  \/ \E m \in Memories : Remember(m)
  \/ SeekEnd \/ AppendRecord \/ Rewind \/ WriteHeader \/ HeaderFails
  \/ Close \/ Crash

Spec == Init /\ [][Next]_vars
=============================================================================
