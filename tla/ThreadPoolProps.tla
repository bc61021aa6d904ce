-------------------------- MODULE ThreadPoolProps ---------------------------
(* What the thread pool is for, stated over ThreadPool.                    *)
EXTENDS ThreadPool

Dispatching == {"reset", "bump", "wake", "run", "spin", "lock", "test",
                "block", "sleep"}
OwnerStates == Dispatching \cup {"create", "idle", "join", "freed"}
Waiting     == {"spin", "spinEpoch", "lock", "test", "block", "sleep"}
Serving     == {"check", "claim", "load", "run", "finish"}
PcStates    == Waiting \cup Serving \cup {"unborn", "signal", "exited"}

(* Every variable has the type its declaration in thread_pool.h gives it.  *)
TypeOK ==
  /\ blocking \in BOOLEAN
  /\ owner \in OwnerStates
  /\ pc \in [Workers -> PcStates]
  /\ last \in [Workers -> 0 .. EpochModulus - 1]
  /\ spins \in [Workers \cup {Owner} -> Nat]
  /\ slot \in [Workers -> Nat]
  /\ task \in [Workers -> 0 .. MaxTotal]
  /\ mutex \in Workers \cup {Owner, Nobody}
  /\ epoch \in 0 .. EpochModulus - 1
  /\ claimed \in Nat
  /\ remaining \in Int
  /\ total \in 0 .. MaxTotal
  /\ shutdown \in BOOLEAN
  /\ hits \in [Rows -> Nat]

(* threadpool_dispatch() returns only when the task function has been      *)
(* called exactly once on each row of the task and on no other row.        *)
JoinIsComplete ==
  owner = "idle" => \A r \in Rows : hits[r] = IF r < total THEN 1 ELSE 0

(* No worker is between adopting an epoch and its decrement of             *)
(* spin_remaining while the owner rewrites the task, the claim counter and *)
(* the join counter, and the task a worker holds is the current one: a     *)
(* straggler never takes a slice of a later task with the earlier task's   *)
(* parameters.                                                             *)
NoStraggler ==
  \A w \in Workers :
    /\ pc[w] \in Serving => owner \in Dispatching \ {"reset", "bump"}
    /\ pc[w] \in {"run", "finish"} => task[w] = total

(* spin_claimed is reset with no lock and counted up by the workers in any *)
(* order, yet the slices they hold at a time are distinct, exist, and are  *)
(* not the owner's: a worker that served a task twice, or claimed before   *)
(* the reset, would hold another one (thread_pool.c:92-93,151).            *)
ClaimsDistinct ==
  \A w \in Workers : pc[w] \in {"load", "run", "finish"} =>
    /\ slot[w] \in 0 .. NumWorkers - 1
    /\ \A v \in Workers \ {w} :
         pc[v] \in {"load", "run", "finish"} => slot[v] # slot[w]

(* The epoch is bumped outside the mutex, yet no worker that is about to   *)
(* wait or waits can miss it: whoever waits with an unseen epoch will      *)
(* still be woken by the broadcast that is to come; and nobody waits       *)
(* through a shutdown.                                                     *)
NoLostWorkWakeup ==
  \A w \in Workers : pc[w] \in {"block", "sleep"} =>
    /\ epoch # last[w] => owner = "wake"
    /\ ~shutdown

(* spin_remaining is decremented outside the mutex, yet an owner that is   *)
(* about to wait or waits with nothing left to wait for is about to be     *)
(* signalled.                                                              *)
NoLostDoneWakeup ==
  owner \in {"block", "sleep"} /\ remaining = 0 =>
    \E w \in Workers : pc[w] = "signal"

(* Every dispatch returns: no wakeup is lost and no worker leaves without  *)
(* its decrement.                                                          *)
DispatchReturns == owner \in Dispatching ~> owner = "idle"

(* threadpool_destroy() and a failed create return: every worker sees      *)
(* `shutdown`, although the spinning ones read it without the mutex.       *)
DestroyReturns == owner = "join" ~> owner = "freed"

(* The pool implements fork-join.                                          *)
FJ == INSTANCE ForkJoin WITH
        phase <- IF owner \in Dispatching THEN "running"
                 ELSE IF owner \in {"join", "freed"} THEN "closed" ELSE "idle",
        size  <- total,
        count <- hits
ImplementsForkJoin == FJ!Spec
=============================================================================
