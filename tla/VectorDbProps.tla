--------------------------- MODULE VectorDbProps ---------------------------
(***************************************************************************)
(* What the memory database promises across kills and failing writes.      *)
(***************************************************************************)
EXTENDS VectorDb, SequencesExt

\* Every variable keeps its type, and no more than one header waits in the
\* stream.
TypeOK ==
  /\ file \in {"absent", "empty", "ready"} /\ hdr \in Nat
  /\ body \in Seq(Stored \X Fields) /\ buf \in Seq(Stored \X Fields)
  /\ hbuf \subseteq Nat /\ \A m, n \in hbuf : m = n
  /\ db \in {"closed", "open", "disabled"} /\ mem \in Seq(Stored)
  /\ pc \in {"idle", "create", "seek", "append", "rewind", "header"}
  /\ new \in Stored
  /\ acked \in Seq(Memories) /\ safe \in Seq(Memories)
  /\ faults \in Nat /\ crashes \in Nat

\* The file holds exactly the records of ms, whole and in order.
OnDisk(ms) ==
  /\ hdr = Len(ms) /\ Len(body) = 3 * Len(ms)
  /\ \A i \in DOMAIN ms : SubSeq(body, 3 * i - 2, 3 * i) = Record(ms[i])

\* Without failing writes and kills the file and the memory hold the same
\* records between two calls (vector_db.c:159-181), over any number of
\* closes and opens, and the file can always be opened again.
FileMirrorsMemory ==
  faults + crashes = 0 =>
    /\ db # "disabled"
    /\ pc = "idle" => OnDisk(acked) /\ buf = <<>> /\ hbuf = {}
    /\ Idle => mem = acked

\* A process killed in the middle of a save (vector_db.c:172-181) loses that
\* save and nothing else: the next open finds everything acknowledged, and
\* it succeeds, unless the kill came before the first header was written.
KillLosesNothing ==
  faults = 0 /\ crashes = 1 /\ acked = safe =>
    /\ db = "disabled" => file = "empty"
    /\ Idle => mem = acked

\* What was acknowledged before the first failing write or kill stays: every
\* later open that succeeds finds it, at its place, whatever happens to
\* later records.
EarlierSurvive == db = "open" => IsPrefix(safe, mem)

\* The header is written after the record (vector_db.c:171-181): without
\* failing writes it never counts a record that is not in the file, however
\* often the process is killed.
HeaderBehindBody == faults = 0 => 3 * hdr <= Len(body)

\* num_entries of the file never goes back, not even after a kill or a
\* failing write: no step hides a record that was once counted.
HeaderNeverShrinks == [][hdr' >= hdr]_vars

\* vector_db.h:26: "On open, all records are loaded"; auto_save.h:43: 0 means
\* saved successfully.  A memory that was saved is there after any later open,
\* at least where everything that was read is a genuine record.
AllRecordsLoaded ==
  db = "open" /\ ~Known(Junk) => \A i \in DOMAIN acked : Known(acked[i])

-----------------------------------------------------------------------------
\* The list that the saves make up, whatever happens to the process.

Storing == pc \in {"seek", "append", "rewind", "header"}

DL == INSTANCE DurableList WITH
  Nothing <- Junk,
  list <- acked, kept <- safe, view <- mem,
  phase <- IF db = "disabled" THEN "useless" ELSE db,
  pending <- IF Storing THEN new ELSE Junk,
  trouble <- IF faults + crashes = 0 THEN "none"
             ELSE IF faults = 0 /\ crashes = 1 /\ acked = safe THEN "killed"
             ELSE "more"

\* The database implements it through its header, its records and a stream
\* that may lose or tear whatever it holds back (vector_db.c:63-181).
ImplementsDurableList == DL!Spec
=============================================================================
