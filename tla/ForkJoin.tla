------------------------------ MODULE ForkJoin ------------------------------
(***************************************************************************)
(* What a thread pool promises its caller: dispatch(total) returns after   *)
(* every row 0 .. total-1 has been processed exactly once and no other row *)
(* at all, and once the pool is closed nothing is processed any more.      *)
(***************************************************************************)
EXTENDS Integers

CONSTANT MaxTotal    \* largest task the caller dispatches (rows)

Rows == 0 .. MaxTotal - 1

VARIABLES phase,     \* "idle", "running" a task, or "closed"
          size,      \* rows of the current (or last) task
          count      \* count[r]: how often row r was processed for that task

vars == <<phase, size, count>>

Init == /\ phase = "idle"
        /\ size = 0
        /\ count = [r \in Rows |-> 0]

Begin(t) == /\ phase = "idle"
            /\ phase' = "running"
            /\ size' = t
            /\ count' = [r \in Rows |-> 0]

(* Some thread processes a batch of rows nobody has processed yet. *)
Work(S) == /\ phase = "running"
           /\ \A r \in S : r < size /\ count[r] = 0
           /\ count' = [r \in Rows |-> IF r \in S THEN 1 ELSE count[r]]
           /\ UNCHANGED <<phase, size>>

(* dispatch() returns only when the whole task is done; the caller may     *)
(* process the last batch, S, itself on its way out.                       *)
End(S) == /\ phase = "running"
          /\ \A r \in S : r < size /\ count[r] = 0
          /\ \A r \in Rows \ S : r < size => count[r] = 1
          /\ phase' = "idle"
          /\ count' = [r \in Rows |-> IF r \in S THEN 1 ELSE count[r]]
          /\ UNCHANGED size

Close == /\ phase = "idle"
         /\ phase' = "closed"
         /\ UNCHANGED <<size, count>>

Progress == \E S \in SUBSET Rows : (S # {} /\ Work(S)) \/ End(S)

Next == Progress \/ Close \/ \E t \in 1 .. MaxTotal : Begin(t)

SafeSpec == Init /\ [][Next]_vars

(* A task that was started is finished. *)
Spec == SafeSpec /\ WF_vars(Progress)
=============================================================================
