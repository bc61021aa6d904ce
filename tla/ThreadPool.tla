----------------------------- MODULE ThreadPool -----------------------------
(***************************************************************************)
(* src/src/threading/thread_pool.c: the caller-participates thread pool    *)
(* every matrix product runs on.  NumWorkers OS threads claim slices       *)
(* 0 .. NumWorkers-1 of a task with an atomic counter; the thread that     *)
(* calls threadpool_dispatch() (the owner) runs the last slice itself and  *)
(* waits for the others.  Workers and owner first spin, then sleep on a    *)
(* condition variable; with twice as many threads as physical cores they   *)
(* sleep at once.                                                          *)
(*                                                                         *)
(* One owner creates the pool, dispatches any number of tasks one after    *)
(* another, and destroys the pool.  An action is one access to shared      *)
(* state; a mutex is held across actions wherever the code waits on a      *)
(* condition, since the code changes both wait predicates (spin_epoch,     *)
(* spin_remaining) outside the mutex.  Critical sections that neither wait *)
(* nor read those counters are one action, enabled when the mutex is free. *)
(* `shutdown` is a plain bool the workers read without the mutex: such a   *)
(* read may miss a write that has already happened.                        *)
(*                                                                         *)
(* An operator whose name ends in _Mut is a mutation of the definition     *)
(* that follows it; no behaviour uses it.                                  *)
(***************************************************************************)
EXTENDS Integers, FiniteSets, Slices

CONSTANTS
  Workers,        \* the OS threads: tp->threads
  Owner,          \* the thread that creates, dispatches on and destroys tp
  Nobody,         \* holder of a free mutex
  CoreCounts,     \* what detect_physical_cores() may return
  SpinLimit,      \* SPIN_LIMIT
  EpochModulus,   \* range of the unsigned spin_epoch (2^32 in the build)
  MaxTotal        \* bound: largest task that is dispatched, in rows

ASSUME WorkersAssumption ==
  /\ IsFiniteSet(Workers)
  /\ Owner \notin Workers
  /\ Nobody \notin Workers \cup {Owner}

ASSUME NumberAssumption ==
  /\ CoreCounts \subseteq Nat \ {0}
  /\ SpinLimit \in Nat \ {0}
  /\ EpochModulus \in Nat \ {0, 1}
  /\ MaxTotal \in Nat \ {0}

NumWorkers == Cardinality(Workers)
NumThreads == NumWorkers + 1
Rows       == 0 .. MaxTotal - 1

VARIABLES
  blocking,   \* tp->use_blocking_wait, fixed by threadpool_create()
  owner,      \* where the owner stands
  pc,         \* pc[w]: where worker w stands
  last,       \* last[w]: w's local last_epoch
  spins,      \* spins[t]: local spin counter of w and of the owner
  slot,       \* slot[w]: w's local idx
  task,       \* task[w]: the task_total (fn, arg) w has read
  mutex,      \* holder of tp->mutex
  epoch,      \* tp->spin_epoch
  claimed,    \* tp->spin_claimed
  remaining,  \* tp->spin_remaining
  total,      \* tp->task_total, standing for task_fn and task_arg too
  shutdown,   \* tp->shutdown
  hits        \* history: times each row was processed in this dispatch

locals == <<last, spins, slot, task>>
shared == <<epoch, claimed, remaining, total, shutdown>>
vars   == <<blocking, owner, pc, locals, mutex, shared, hits>>

(* Where an idle worker waits: spinning, or straight on the condition.     *)
Entry == IF blocking THEN "lock" ELSE "spin"

(* The values a read of `shutdown` outside the mutex may return.           *)
RacyShutdown == {FALSE, shutdown}

(* pthread_cond_broadcast(&cond_work) by a thread that holds the mutex.    *)
WakeWorkers == [w \in Workers |-> IF pc[w] = "sleep" THEN "lock" ELSE pc[w]]

(* One more call of the task function on every row of S.                   *)
Process(S) == hits' = [r \in Rows |-> IF r \in S THEN hits[r] + 1 ELSE hits[r]]

Init ==
  /\ \E cores \in CoreCounts : blocking = (NumThreads >= cores * 2)
  /\ owner = "create"
  /\ pc = [w \in Workers |-> "unborn"]
  /\ last = [w \in Workers |-> 0]
  /\ spins = [t \in Workers \cup {Owner} |-> 0]
  /\ slot = [w \in Workers |-> 0]
  /\ task = [w \in Workers |-> 0]
  /\ mutex = Nobody
  /\ epoch = 0 /\ claimed = 0 /\ remaining = 0 /\ total = 0
  /\ shutdown = FALSE
  /\ hits = [r \in Rows |-> 0]

-----------------------------------------------------------------------------
(* The worker: worker_entry().                                             *)

Goto(w, from, to) == /\ pc[w] = from
                     /\ pc' = [pc EXCEPT ![w] = to]

(* Mutation: the worker does not record the epoch it has seen.             *)
SpinEpoch_Mut(w) ==
  /\ epoch # last[w]
  /\ Goto(w, "spinEpoch", "check")
  /\ UNCHANGED <<blocking, owner, locals, mutex, shared, hits>>

(* One turn of the spin loop is a racy look at shutdown ...                *)
SpinShutdown(w) ==
  /\ \E seen \in RacyShutdown :
       Goto(w, "spin", IF seen THEN "exited" ELSE "spinEpoch")
  /\ UNCHANGED <<blocking, owner, locals, mutex, shared, hits>>

(* ... and an acquire load of the epoch; after SpinLimit turns the worker  *)
(* goes to sleep on the condition.                                         *)
SpinEpoch(w) ==
  /\ IF epoch # last[w]
       THEN /\ Goto(w, "spinEpoch", "check")
            /\ last' = [last EXCEPT ![w] = epoch]
            /\ spins' = [spins EXCEPT ![w] = 0]
       ELSE /\ UNCHANGED last
            /\ IF spins[w] + 1 < SpinLimit
                 THEN /\ Goto(w, "spinEpoch", "spin")
                      /\ spins' = [spins EXCEPT ![w] = @ + 1]
                 ELSE /\ Goto(w, "spinEpoch", "lock")
                      /\ spins' = [spins EXCEPT ![w] = 0]
  /\ UNCHANGED <<blocking, owner, slot, task, mutex, shared, hits>>

LockWork(w) ==
  /\ Goto(w, "lock", "test")
  /\ mutex = Nobody
  /\ mutex' = w
  /\ UNCHANGED <<blocking, owner, locals, shared, hits>>

(* The while condition of the wait loop and, when it fails, the rest of    *)
(* the critical section.  A worker that saw shutdown here sees it again at *)
(* the check that follows, so it leaves; one that saw a new epoch adopts   *)
(* it.                                                                     *)
TestWork(w) ==
  /\ mutex = w
  /\ \/ /\ ~shutdown /\ epoch = last[w]
        /\ Goto(w, "test", "block")
        /\ UNCHANGED <<last, mutex>>
     \/ /\ shutdown
        /\ Goto(w, "test", "exited")
        /\ mutex' = Nobody
        /\ UNCHANGED last
     \/ /\ ~shutdown /\ epoch # last[w]
        /\ Goto(w, "test", "check")
        /\ last' = [last EXCEPT ![w] = epoch]
        /\ mutex' = Nobody
  /\ UNCHANGED <<blocking, owner, spins, slot, task, shared, hits>>

(* pthread_cond_wait(&cond_work) gives the mutex up and sleeps in one step *)
BlockWork(w) ==
  /\ Goto(w, "block", "sleep")
  /\ mutex' = Nobody
  /\ UNCHANGED <<blocking, owner, locals, shared, hits>>

(* ... and may return without having been signalled.                       *)
SpuriousWork(w) ==
  /\ Goto(w, "sleep", "lock")
  /\ UNCHANGED <<blocking, owner, locals, mutex, shared, hits>>

(* `if (tp->shutdown) return NULL` after the wait.                         *)
CheckShutdown(w) ==
  /\ \E seen \in RacyShutdown :
       Goto(w, "check", IF seen THEN "exited" ELSE "claim")
  /\ UNCHANGED <<blocking, owner, locals, mutex, shared, hits>>

Claim(w) ==
  /\ Goto(w, "claim", "load")
  /\ slot' = [slot EXCEPT ![w] = claimed]
  /\ claimed' = claimed + 1
  /\ UNCHANGED <<blocking, owner, last, spins, task, mutex, epoch, remaining,
                 total, shutdown, hits>>

Load(w) ==
  /\ Goto(w, "load", "run")
  /\ task' = [task EXCEPT ![w] = total]
  /\ UNCHANGED <<blocking, owner, last, spins, slot, mutex, shared, hits>>

Run(w) ==
  /\ Goto(w, "run", "finish")
  /\ Process(Slice(slot[w], NumThreads, task[w]))
  /\ UNCHANGED <<blocking, owner, locals, mutex, shared>>

(* spin_remaining drops; the worker that brings it to 0 wakes the owner.   *)
Finish(w) ==
  /\ Goto(w, "finish", IF remaining = 1 THEN "signal" ELSE Entry)
  /\ remaining' = remaining - 1
  /\ UNCHANGED <<blocking, owner, locals, mutex, epoch, claimed, total,
                 shutdown, hits>>

(* Mutation: the done signal is sent without the mutex.                    *)
SignalDone_Mut(w) ==
  /\ Goto(w, "signal", Entry)
  /\ owner' = IF owner = "sleep" THEN "lock" ELSE owner
  /\ UNCHANGED <<blocking, locals, mutex, shared, hits>>

SignalDone(w) ==
  /\ mutex = Nobody
  /\ Goto(w, "signal", Entry)
  /\ owner' = IF owner = "sleep" THEN "lock" ELSE owner
  /\ UNCHANGED <<blocking, locals, mutex, shared, hits>>

WorkerStep(w) ==
  \/ SpinShutdown(w) \/ SpinEpoch(w)
  \/ LockWork(w) \/ TestWork(w) \/ BlockWork(w)
  \/ CheckShutdown(w) \/ Claim(w) \/ Load(w) \/ Run(w)
  \/ Finish(w) \/ SignalDone(w)

-----------------------------------------------------------------------------
(* The owner: threadpool_create().                                         *)

OwnerGoto(from, to) == /\ owner = from
                       /\ owner' = to

(* pthread_create() succeeds: the worker may run before create returns.    *)
CreateWorker(w) ==
  /\ owner = "create"
  /\ Goto(w, "unborn", Entry)
  /\ UNCHANGED <<blocking, owner, locals, mutex, shared, hits>>

CreateReturns ==
  /\ OwnerGoto("create", "idle")
  /\ \A w \in Workers : pc[w] # "unborn"
  /\ UNCHANGED <<blocking, pc, locals, mutex, shared, hits>>

(* Mutation: no broadcast.                                                 *)
ShutDown_Mut ==
  /\ mutex = Nobody
  /\ shutdown' = TRUE
  /\ UNCHANGED <<blocking, pc, locals, mutex, epoch, claimed, remaining,
                 total, hits>>

(* `shutdown = true` and a broadcast, under the mutex.                     *)
ShutDown ==
  /\ mutex = Nobody
  /\ shutdown' = TRUE
  /\ pc' = WakeWorkers
  /\ UNCHANGED <<blocking, locals, mutex, epoch, claimed, remaining, total,
                 hits>>

(* pthread_create() fails: the threads created so far are shut down.       *)
CreateFails ==
  /\ \E w \in Workers : pc[w] = "unborn"
  /\ OwnerGoto("create", "join")
  /\ ShutDown

(* threadpool_destroy(), and the end of a failed create: join the threads  *)
(* that were created, then free the pool.                                  *)
Destroy ==
  /\ OwnerGoto("idle", "join")
  /\ ShutDown

JoinAndFree ==
  /\ OwnerGoto("join", "freed")
  /\ \A w \in Workers : pc[w] \in {"unborn", "exited"}
  /\ UNCHANGED <<blocking, pc, locals, mutex, shared, hits>>

-----------------------------------------------------------------------------
(* The owner: threadpool_dispatch().                                       *)

WriteTask(t) ==
  /\ OwnerGoto("idle", "reset")
  /\ total' = t
  /\ hits' = [r \in Rows |-> 0]
  /\ UNCHANGED <<blocking, pc, locals, mutex, epoch, claimed, remaining,
                 shutdown>>

(* Mutation: the join counter is one too small.                            *)
ResetCounters_Mut ==
  /\ OwnerGoto("reset", IF NumWorkers > 0 THEN "bump" ELSE "run")
  /\ claimed' = 0
  /\ remaining' = NumWorkers - 1
  /\ UNCHANGED <<blocking, pc, locals, mutex, epoch, total, shutdown, hits>>

(* Mutation: the claim counter goes on where the last task left it.        *)
ResetCountersKeepsClaims_Mut ==
  /\ OwnerGoto("reset", IF NumWorkers > 0 THEN "bump" ELSE "run")
  /\ remaining' = NumWorkers
  /\ UNCHANGED <<blocking, pc, locals, mutex, epoch, claimed, total, shutdown,
                 hits>>

ResetCounters ==
  /\ OwnerGoto("reset", IF NumWorkers > 0 THEN "bump" ELSE "run")
  /\ claimed' = 0
  /\ remaining' = NumWorkers
  /\ UNCHANGED <<blocking, pc, locals, mutex, epoch, total, shutdown, hits>>

(* Mutation: the epoch does not wrap.                                      *)
BumpEpoch_Mut ==
  /\ OwnerGoto("bump", "wake")
  /\ epoch' = epoch + 1
  /\ UNCHANGED <<blocking, pc, locals, mutex, claimed, remaining, total,
                 shutdown, hits>>

(* The epoch is bumped outside the mutex ...                               *)
BumpEpoch ==
  /\ OwnerGoto("bump", "wake")
  /\ epoch' = (epoch + 1) % EpochModulus
  /\ UNCHANGED <<blocking, pc, locals, mutex, claimed, remaining, total,
                 shutdown, hits>>

(* Mutation: the broadcast is sent without the mutex.                      *)
Broadcast_Mut ==
  /\ OwnerGoto("wake", "run")
  /\ pc' = WakeWorkers
  /\ UNCHANGED <<blocking, locals, mutex, shared, hits>>

(* ... and the sleepers are woken under it.                                *)
Broadcast ==
  /\ OwnerGoto("wake", "run")
  /\ mutex = Nobody
  /\ pc' = WakeWorkers
  /\ UNCHANGED <<blocking, locals, mutex, shared, hits>>

RunOwnSlice ==
  /\ OwnerGoto("run", IF NumWorkers = 0 THEN "idle"
                      ELSE IF blocking THEN "lock" ELSE "spin")
  /\ Process(Slice(NumThreads - 1, NumThreads, total))
  /\ UNCHANGED <<blocking, pc, locals, mutex, shared>>

SpinRemaining ==
  /\ \/ /\ ~(remaining > 0)
        /\ OwnerGoto("spin", "idle")
        /\ spins' = [spins EXCEPT ![Owner] = 0]
     \/ /\ remaining > 0 /\ spins[Owner] + 1 < SpinLimit
        /\ OwnerGoto("spin", "spin")
        /\ spins' = [spins EXCEPT ![Owner] = @ + 1]
     \/ /\ remaining > 0 /\ spins[Owner] + 1 >= SpinLimit
        /\ OwnerGoto("spin", "lock")
        /\ spins' = [spins EXCEPT ![Owner] = 0]
  /\ UNCHANGED <<blocking, pc, last, slot, task, mutex, shared, hits>>

LockDone ==
  /\ OwnerGoto("lock", "test")
  /\ mutex = Nobody
  /\ mutex' = Owner
  /\ UNCHANGED <<blocking, pc, locals, shared, hits>>

TestDone ==
  /\ mutex = Owner
  /\ \/ /\ ~(remaining > 0)
        /\ OwnerGoto("test", "idle")
        /\ mutex' = Nobody
     \/ /\ remaining > 0
        /\ OwnerGoto("test", "block")
        /\ UNCHANGED mutex
  /\ UNCHANGED <<blocking, pc, locals, shared, hits>>

BlockDone ==
  /\ OwnerGoto("block", "sleep")
  /\ mutex' = Nobody
  /\ UNCHANGED <<blocking, pc, locals, shared, hits>>

SpuriousDone ==
  /\ OwnerGoto("sleep", "lock")
  /\ UNCHANGED <<blocking, pc, locals, mutex, shared, hits>>

(* What the owner does without being asked: everything but starting a task *)
(* or a teardown, and failing to create a thread.                          *)
OwnerStep ==
  \/ (\E w \in Workers : CreateWorker(w)) \/ CreateReturns \/ JoinAndFree
  \/ ResetCounters \/ BumpEpoch \/ Broadcast \/ RunOwnSlice
  \/ SpinRemaining \/ LockDone \/ TestDone \/ BlockDone

Next ==
  \/ \E w \in Workers : WorkerStep(w) \/ SpuriousWork(w)
  \/ OwnerStep \/ SpuriousDone
  \/ CreateFails \/ Destroy
  \/ \E t \in 1 .. MaxTotal : WriteTask(t)

(* Every thread that can run again and again does run: the scheduler runs  *)
(* every runnable thread, and a thread that keeps finding the mutex free   *)
(* gets it.  Nothing forces a caller to dispatch or to destroy the pool,   *)
(* and nothing may rely on a spurious wakeup.                              *)
Fairness == SF_vars(OwnerStep) /\ \A w \in Workers : SF_vars(WorkerStep(w))

Spec     == Init /\ [][Next]_vars
FairSpec == Spec /\ Fairness
=============================================================================
