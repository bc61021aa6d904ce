-------------------------- MODULE ThreadPoolProofs --------------------------
(***************************************************************************)
(* The thread pool is correct for any number of workers, any task size,    *)
(* any spin limit and any number (above one) of epochs.                    *)
(*                                                                         *)
(* The inductive invariant says what the two counters count.  In the part  *)
(* of a dispatch in which the epoch has been bumped, spin_remaining is the *)
(* number of workers that have not seen the epoch or are still serving it, *)
(* and spin_claimed the number of those that have taken a slice of it; the *)
(* slices taken are 0 .. spin_claimed-1, each by one worker, and the rows  *)
(* processed so far are those of the slices that are done.                 *)
(***************************************************************************)
EXTENDS ThreadPoolProps, SliceTheorems, FiniteSetTheorems

(* The part of a dispatch in which workers may be serving it.              *)
InCall == Dispatching \ {"reset", "bump"}

(* Workers that have yet to finish their part of the task, workers that    *)
(* have claimed a slice of it, and workers that have processed theirs.     *)
Owing     == {w \in Workers : last[w] # epoch \/ pc[w] \in Serving}
Claimants == {w \in Workers : /\ last[w] = epoch
                              /\ pc[w] \notin {"check", "claim"}}
Done      == {w \in Claimants : pc[w] \notin {"load", "run"}}

(* tp->mutex is held by whoever stands at the test of a wait loop or is    *)
(* about to wait; shutdown is set by the teardown and never cleared.       *)
Locking ==
  /\ \A w \in Workers : pc[w] \in {"test", "block"} <=> mutex = w
  /\ owner \in {"test", "block"} <=> mutex = Owner
  /\ shutdown <=> owner \in {"join", "freed"}
  /\ \A w \in Workers : pc[w] = "exited" => shutdown
  /\ owner \notin {"create", "join", "freed"} =>
       \A w \in Workers : pc[w] # "unborn"

(* A worker serves the current epoch only.  Between two tasks every worker *)
(* has seen the epoch and serves nobody; within one, spin_remaining counts *)
(* the workers that owe.                                                   *)
Counting ==
  /\ \A w \in Workers : pc[w] \in Serving => last[w] = epoch
  /\ owner \notin InCall => Owing = {}
  /\ owner = "bump" => claimed = 0 /\ remaining = NumWorkers
  /\ owner \in InCall => remaining = Cardinality(Owing)

(* spin_claimed counts the workers that have claimed a slice, and they     *)
(* hold the slices below it, one each.                                     *)
Claiming ==
  owner \in InCall =>
    /\ claimed = Cardinality(Claimants)
    /\ \A w \in Claimants : slot[w] \in 0 .. claimed - 1
    /\ \A w, v \in Claimants : slot[w] = slot[v] => w = v
    /\ \A i \in 0 .. claimed - 1 : \E w \in Claimants : slot[w] = i
    /\ \A w \in Workers : pc[w] \in {"run", "finish"} => task[w] = total

(* The rows processed so far: those of the slices that are done.           *)
Processed(r) ==
  \/ /\ owner \notin {"wake", "run"}
     /\ r \in Slice(NumThreads - 1, NumThreads, total)
  \/ \E w \in Done : r \in Slice(slot[w], NumThreads, total)

Progressing ==
  /\ owner \in {"create", "reset", "bump"} => \A r \in Rows : hits[r] = 0
  /\ owner = "create" => total = 0
  /\ owner \in InCall =>
       \A r \in Rows : hits[r] = IF Processed(r) THEN 1 ELSE 0

IInv ==
  /\ TypeOK /\ Locking /\ NoLostWorkWakeup
  /\ Counting /\ NoLostDoneWakeup
  /\ Claiming
  /\ Progressing /\ JoinIsComplete

(* Facts about the constants.                                              *)
LEMMA Constants ==
  /\ NumWorkers \in Nat
  /\ NumThreads \in Nat \ {0}
  /\ NumThreads - 1 = NumWorkers
BY WorkersAssumption, FS_CardinalityType DEF NumWorkers, NumThreads

-----------------------------------------------------------------------------
(* Types.                                                                  *)

LEMMA TypingStep ==
  ASSUME TypeOK, [Next]_vars
  PROVE  TypeOK'
<1> USE TypeOK, Constants, NumberAssumption
    DEF TypeOK, OwnerStates, Dispatching, PcStates, Waiting, Serving, Goto,
        OwnerGoto, Entry, WakeWorkers, ShutDown, Process, locals, shared
<1>1. ASSUME NEW w \in Workers, SpinShutdown(w) PROVE TypeOK'
  BY <1>1 DEF SpinShutdown
<1>2. ASSUME NEW w \in Workers, SpinEpoch(w) PROVE TypeOK'
  BY <1>2 DEF SpinEpoch
<1>3. ASSUME NEW w \in Workers, LockWork(w) PROVE TypeOK'
  BY <1>3 DEF LockWork
<1>4. ASSUME NEW w \in Workers, TestWork(w) PROVE TypeOK'
  BY <1>4 DEF TestWork
<1>5. ASSUME NEW w \in Workers, BlockWork(w) PROVE TypeOK'
  BY <1>5 DEF BlockWork
<1>6. ASSUME NEW w \in Workers, SpuriousWork(w) PROVE TypeOK'
  BY <1>6 DEF SpuriousWork
<1>7. ASSUME NEW w \in Workers, CheckShutdown(w) PROVE TypeOK'
  BY <1>7 DEF CheckShutdown
<1>8. ASSUME NEW w \in Workers, Claim(w) PROVE TypeOK'
  BY <1>8 DEF Claim
<1>9. ASSUME NEW w \in Workers, Load(w) PROVE TypeOK'
  BY <1>9 DEF Load
<1>10. ASSUME NEW w \in Workers, Run(w) PROVE TypeOK'
  BY <1>10 DEF Run
<1>11. ASSUME NEW w \in Workers, Finish(w) PROVE TypeOK'
  BY <1>11 DEF Finish
<1>12. ASSUME NEW w \in Workers, SignalDone(w) PROVE TypeOK'
  BY <1>12 DEF SignalDone
<1>13. ASSUME NEW w \in Workers, CreateWorker(w) PROVE TypeOK'
  BY <1>13 DEF CreateWorker
<1>14. ASSUME CreateReturns PROVE TypeOK'
  BY <1>14 DEF CreateReturns
<1>15. ASSUME CreateFails PROVE TypeOK'
  BY <1>15 DEF CreateFails
<1>16. ASSUME Destroy PROVE TypeOK'
  BY <1>16 DEF Destroy
<1>17. ASSUME JoinAndFree PROVE TypeOK'
  BY <1>17 DEF JoinAndFree
<1>18. ASSUME ResetCounters PROVE TypeOK'
  BY <1>18 DEF ResetCounters
<1>19. ASSUME BumpEpoch PROVE TypeOK'
  BY <1>19 DEF BumpEpoch
<1>20. ASSUME Broadcast PROVE TypeOK'
  BY <1>20 DEF Broadcast
<1>21. ASSUME RunOwnSlice PROVE TypeOK'
  BY <1>21 DEF RunOwnSlice
<1>22. ASSUME SpinRemaining PROVE TypeOK'
  BY <1>22 DEF SpinRemaining
<1>23. ASSUME LockDone PROVE TypeOK'
  BY <1>23 DEF LockDone
<1>24. ASSUME TestDone PROVE TypeOK'
  BY <1>24 DEF TestDone
<1>25. ASSUME BlockDone PROVE TypeOK'
  BY <1>25 DEF BlockDone
<1>26. ASSUME SpuriousDone PROVE TypeOK'
  BY <1>26 DEF SpuriousDone
<1>27. ASSUME NEW t \in 1 .. MaxTotal, WriteTask(t) PROVE TypeOK'
  BY <1>27 DEF WriteTask
<1>28. ASSUME UNCHANGED vars PROVE TypeOK'
  BY <1>28 DEF vars, locals, shared
<1>29. QED
  BY <1>1, <1>2, <1>3, <1>4, <1>5, <1>6, <1>7, <1>8, <1>9, <1>10, <1>11,
     <1>12, <1>13, <1>14, <1>15, <1>16, <1>17, <1>18, <1>19, <1>20, <1>21,
     <1>22, <1>23, <1>24, <1>25, <1>26, <1>27, <1>28
  DEF Next, WorkerStep, OwnerStep

-----------------------------------------------------------------------------
(* The mutex, the shutdown flag and the wakeups of the workers.            *)

Waking == Locking /\ NoLostWorkWakeup

LEMMA WakingStep ==
  ASSUME TypeOK, Waking, [Next]_vars
  PROVE  Waking'
<1> DEFINE Typed == /\ pc \in [Workers -> PcStates]
                    /\ last \in [Workers -> 0 .. EpochModulus - 1]
                    /\ mutex \in Workers \cup {Owner, Nobody}
                    /\ shutdown \in BOOLEAN
<1>t. Typed
  BY DEF TypeOK
<1> USE <1>t, Waking, WorkersAssumption
    DEF PcStates, Waiting, Serving, Goto, OwnerGoto, Entry, WakeWorkers,
        ShutDown, locals, shared, Waking, Locking, NoLostWorkWakeup
<1>1. ASSUME NEW w \in Workers, SpinShutdown(w) PROVE Waking'
  <2>1. PICK seen \in {FALSE, shutdown} :
          Goto(w, "spin", IF seen THEN "exited" ELSE "spinEpoch")
    BY <1>1 DEF SpinShutdown, RacyShutdown
  <2>2. CASE seen = TRUE
    BY <1>1, <2>1, <2>2 DEF SpinShutdown
  <2>3. CASE seen = FALSE
    BY <1>1, <2>1, <2>3 DEF SpinShutdown
  <2>4. QED
    BY <2>1, <2>2, <2>3
<1>2. ASSUME NEW w \in Workers, SpinEpoch(w) PROVE Waking'
  BY <1>2 DEF SpinEpoch
<1>3. ASSUME NEW w \in Workers, LockWork(w) PROVE Waking'
  BY <1>3 DEF LockWork
<1>4. ASSUME NEW w \in Workers, TestWork(w) PROVE Waking'
  BY <1>4 DEF TestWork
<1>5. ASSUME NEW w \in Workers, BlockWork(w) PROVE Waking'
  BY <1>5 DEF BlockWork
<1>6. ASSUME NEW w \in Workers, SpuriousWork(w) PROVE Waking'
  BY <1>6 DEF SpuriousWork
<1>7. ASSUME NEW w \in Workers, CheckShutdown(w) PROVE Waking'
  <2>1. PICK seen \in {FALSE, shutdown} :
          Goto(w, "check", IF seen THEN "exited" ELSE "claim")
    BY <1>7 DEF CheckShutdown, RacyShutdown
  <2>2. CASE seen = TRUE
    BY <1>7, <2>1, <2>2 DEF CheckShutdown
  <2>3. CASE seen = FALSE
    BY <1>7, <2>1, <2>3 DEF CheckShutdown
  <2>4. QED
    BY <2>1, <2>2, <2>3
<1>8. ASSUME NEW w \in Workers, Claim(w) PROVE Waking'
  BY <1>8 DEF Claim
<1>9. ASSUME NEW w \in Workers, Load(w) PROVE Waking'
  BY <1>9 DEF Load
<1>10. ASSUME NEW w \in Workers, Run(w) PROVE Waking'
  BY <1>10 DEF Run
<1>11. ASSUME NEW w \in Workers, Finish(w) PROVE Waking'
  BY <1>11 DEF Finish
<1>12. ASSUME NEW w \in Workers, SignalDone(w) PROVE Waking'
  BY <1>12 DEF SignalDone
<1>13. ASSUME NEW w \in Workers, CreateWorker(w) PROVE Waking'
  BY <1>13 DEF CreateWorker
<1>14. ASSUME CreateReturns PROVE Waking'
  BY <1>14 DEF CreateReturns
<1>15. ASSUME CreateFails PROVE Waking'
  BY <1>15 DEF CreateFails
<1>16. ASSUME Destroy PROVE Waking'
  BY <1>16 DEF Destroy
<1>17. ASSUME JoinAndFree PROVE Waking'
  BY <1>17 DEF JoinAndFree
<1>18. ASSUME ResetCounters PROVE Waking'
  BY <1>18 DEF ResetCounters
<1>19. ASSUME BumpEpoch PROVE Waking'
  BY <1>19 DEF BumpEpoch
<1>20. ASSUME Broadcast PROVE Waking'
  BY <1>20 DEF Broadcast
<1>21. ASSUME RunOwnSlice PROVE Waking'
  BY <1>21 DEF RunOwnSlice
<1>22. ASSUME SpinRemaining PROVE Waking'
  BY <1>22 DEF SpinRemaining
<1>23. ASSUME LockDone PROVE Waking'
  BY <1>23 DEF LockDone
<1>24. ASSUME TestDone PROVE Waking'
  BY <1>24 DEF TestDone
<1>25. ASSUME BlockDone PROVE Waking'
  BY <1>25 DEF BlockDone
<1>26. ASSUME SpuriousDone PROVE Waking'
  BY <1>26 DEF SpuriousDone
<1>27. ASSUME NEW t \in 1 .. MaxTotal, WriteTask(t) PROVE Waking'
  BY <1>27 DEF WriteTask
<1>28. ASSUME UNCHANGED vars PROVE Waking'
  BY <1>28 DEF vars, locals, shared
<1>29. QED
  BY <1>1, <1>2, <1>3, <1>4, <1>5, <1>6, <1>7, <1>8, <1>9, <1>10, <1>11,
     <1>12, <1>13, <1>14, <1>15, <1>16, <1>17, <1>18, <1>19, <1>20, <1>21,
     <1>22, <1>23, <1>24, <1>25, <1>26, <1>27, <1>28
  DEF Next, WorkerStep, OwnerStep

-----------------------------------------------------------------------------
(* The join counter and the wakeup of the owner.                           *)

Joining == Counting /\ NoLostDoneWakeup

LEMMA OwingIsFinite == IsFiniteSet(Owing) /\ Owing \subseteq Workers
BY WorkersAssumption, FS_Subset DEF Owing

LEMMA JoiningStep ==
  ASSUME TypeOK, Waking, Joining, [Next]_vars
  PROVE  Joining'
<1> DEFINE Typed == /\ pc \in [Workers -> PcStates]
                    /\ last \in [Workers -> 0 .. EpochModulus - 1]
                    /\ mutex \in Workers \cup {Owner, Nobody}
                    /\ shutdown \in BOOLEAN
                    /\ remaining \in Int
<1>t. Typed
  BY DEF TypeOK
<1> DEFINE Frame == /\ Owing' = Owing
                    /\ \A w \in Workers :
                         pc'[w] \in Serving => last'[w] = epoch'
                    /\ UNCHANGED <<claimed, remaining>>
                    /\ owner' \in InCall <=> owner \in InCall
                    /\ owner' = "bump" <=> owner = "bump"
<1>f. Frame => Counting'
  BY DEF Joining, Counting
<1> HIDE DEF Frame
<1> USE <1>t, Waking, Joining, WorkersAssumption
    DEF PcStates, Waiting, Serving, InCall, Dispatching, Goto, OwnerGoto,
        Entry, WakeWorkers, ShutDown, locals, shared, Waking, Locking,
        Joining, NoLostDoneWakeup
<1>1. ASSUME NEW w \in Workers, SpinShutdown(w) PROVE Joining'
  <2>1. PICK seen \in {FALSE, shutdown} :
          Goto(w, "spin", IF seen THEN "exited" ELSE "spinEpoch")
    BY <1>1 DEF SpinShutdown, RacyShutdown
  <2>2. Frame
    <3>1. CASE seen = TRUE
      BY <1>1, <2>1, <3>1 DEF SpinShutdown, Frame, Owing, Counting
    <3>2. CASE seen = FALSE
      BY <1>1, <2>1, <3>2 DEF SpinShutdown, Frame, Owing, Counting
    <3>3. QED
      BY <2>1, <3>1, <3>2
  <2>3. NoLostDoneWakeup'
    BY <1>1, <2>1 DEF SpinShutdown
  <2>4. QED
    BY <2>2, <2>3, <1>f
<1>2. ASSUME NEW w \in Workers, SpinEpoch(w) PROVE Joining'
  BY <1>2, <1>f DEF SpinEpoch, Frame, Owing, Counting
<1>3. ASSUME NEW w \in Workers, LockWork(w) PROVE Joining'
  BY <1>3, <1>f DEF LockWork, Frame, Owing, Counting
<1>4. ASSUME NEW w \in Workers, TestWork(w) PROVE Joining'
  BY <1>4, <1>f DEF TestWork, Frame, Owing, Counting
<1>5. ASSUME NEW w \in Workers, BlockWork(w) PROVE Joining'
  BY <1>5, <1>f DEF BlockWork, Frame, Owing, Counting
<1>6. ASSUME NEW w \in Workers, SpuriousWork(w) PROVE Joining'
  BY <1>6, <1>f DEF SpuriousWork, Frame, Owing, Counting
<1>7. ASSUME NEW w \in Workers, CheckShutdown(w) PROVE Joining'
  <2>1. PICK seen \in {FALSE, shutdown} :
          Goto(w, "check", IF seen THEN "exited" ELSE "claim")
    BY <1>7 DEF CheckShutdown, RacyShutdown
  <2>2. seen = FALSE
    BY <2>1 DEF Counting, Owing
  <2>3. Frame
    BY <1>7, <2>1, <2>2 DEF CheckShutdown, Frame, Owing, Counting
  <2>4. NoLostDoneWakeup'
    BY <1>7, <2>1, <2>2 DEF CheckShutdown
  <2>5. QED
    BY <2>3, <2>4, <1>f
<1>8. ASSUME NEW w \in Workers, Claim(w) PROVE Joining'
  <2>1. Owing' = Owing /\ owner \in InCall
    BY <1>8 DEF Claim, Counting, Owing
  <2>2. Counting'
    BY <1>8, <2>1 DEF Claim, Counting
  <2>3. NoLostDoneWakeup'
    BY <1>8 DEF Claim
  <2>4. QED
    BY <2>2, <2>3
<1>9. ASSUME NEW w \in Workers, Load(w) PROVE Joining'
  BY <1>9, <1>f DEF Load, Frame, Owing, Counting
<1>10. ASSUME NEW w \in Workers, Run(w) PROVE Joining'
  BY <1>10, <1>f DEF Run, Frame, Owing, Counting
<1>11. ASSUME NEW w \in Workers, Finish(w) PROVE Joining'
  <2>1. w \in Owing /\ Owing' = Owing \ {w}
    BY <1>11 DEF Finish, Owing, Counting
  <2>2. Cardinality(Owing') = Cardinality(Owing) - 1
    BY <2>1, OwingIsFinite, FS_RemoveElement
  <2>3. owner \in InCall /\ owner' = owner /\ remaining' = remaining - 1
    BY <1>11, <2>1 DEF Finish, Counting
  <2>4. Counting'
    BY <1>11, <2>2, <2>3 DEF Finish, Counting
  <2>5. NoLostDoneWakeup'
    BY <1>11 DEF Finish
  <2>6. QED
    BY <2>4, <2>5
<1>12. ASSUME NEW w \in Workers, SignalDone(w) PROVE Joining'
  BY <1>12, <1>f DEF SignalDone, Frame, Owing, Counting
<1>13. ASSUME NEW w \in Workers, CreateWorker(w) PROVE Joining'
  BY <1>13, <1>f DEF CreateWorker, Frame, Owing, Counting
<1>14. ASSUME CreateReturns PROVE Joining'
  BY <1>14, <1>f DEF CreateReturns, Frame, Owing, Counting
<1>15. ASSUME CreateFails PROVE Joining'
  BY <1>15, <1>f DEF CreateFails, Frame, Owing, Counting
<1>16. ASSUME Destroy PROVE Joining'
  BY <1>16, <1>f DEF Destroy, Frame, Owing, Counting
<1>17. ASSUME JoinAndFree PROVE Joining'
  BY <1>17, <1>f DEF JoinAndFree, Frame, Owing, Counting
<1>18. ASSUME ResetCounters PROVE Joining'
  <2>1. Owing' = Owing /\ Owing = {}
    BY <1>18 DEF ResetCounters, Counting, Owing
  <2>2. Cardinality(Owing') = 0
    BY <2>1, FS_EmptySet
  <2>3. NumWorkers > 0 \/ NumWorkers = 0
    BY Constants
  <2>4. Counting'
    BY <1>18, <2>1, <2>2, <2>3 DEF ResetCounters, Counting
  <2>5. NoLostDoneWakeup'
    BY <1>18 DEF ResetCounters
  <2>6. QED
    BY <2>4, <2>5
<1>19. ASSUME BumpEpoch PROVE Joining'
  <2>1. epoch' # epoch
    BY <1>19, NumberAssumption, TypeOK DEF BumpEpoch, TypeOK
  <2>2. Owing' = Workers /\ \A v \in Workers : pc'[v] \notin Serving
    BY <1>19, <2>1 DEF BumpEpoch, Counting, Owing
  <2>3. Counting'
    BY <1>19, <2>2 DEF BumpEpoch, Counting, NumWorkers
  <2>4. NoLostDoneWakeup'
    BY <1>19 DEF BumpEpoch
  <2>5. QED
    BY <2>3, <2>4
<1>20. ASSUME Broadcast PROVE Joining'
  BY <1>20, <1>f DEF Broadcast, Frame, Owing, Counting
<1>21. ASSUME RunOwnSlice PROVE Joining'
  <2>1. CASE NumWorkers = 0
    <3>1. Workers = {}
      BY <2>1, FS_EmptySet DEF NumWorkers
    <3>2. Owing' = {}
      BY <3>1 DEF Owing
    <3>3. QED
      BY <1>21, <2>1, <3>1, <3>2 DEF RunOwnSlice, Counting
  <2>2. CASE NumWorkers # 0
    <3>1. Frame
      BY <1>21, <2>2 DEF RunOwnSlice, Frame, Owing, Counting
    <3>2. NoLostDoneWakeup'
      BY <1>21, <2>2 DEF RunOwnSlice
    <3>3. QED
      BY <3>1, <3>2, <1>f
  <2>3. QED
    BY <2>1, <2>2
<1>22. ASSUME SpinRemaining PROVE Joining'
  <2>1. CASE owner' = "idle"
    <3>1. Owing = {}
      BY <1>22, <2>1, OwingIsFinite, FS_EmptySet, FS_CardinalityType
         DEF SpinRemaining, Counting
    <3>2. Owing' = Owing
      BY <1>22 DEF SpinRemaining, Owing
    <3>3. QED
      BY <1>22, <2>1, <3>1, <3>2 DEF SpinRemaining, Counting, Owing
  <2>2. CASE owner' # "idle"
    <3>1. Frame
      BY <1>22, <2>2 DEF SpinRemaining, Frame, Owing, Counting
    <3>2. NoLostDoneWakeup'
      BY <1>22, <2>2 DEF SpinRemaining
    <3>3. QED
      BY <3>1, <3>2, <1>f
  <2>3. QED
    BY <2>1, <2>2
<1>23. ASSUME LockDone PROVE Joining'
  BY <1>23, <1>f DEF LockDone, Frame, Owing, Counting
<1>24. ASSUME TestDone PROVE Joining'
  <2>1. CASE owner' = "idle"
    <3>1. Owing = {}
      BY <1>24, <2>1, OwingIsFinite, FS_EmptySet, FS_CardinalityType
         DEF TestDone, Counting
    <3>2. Owing' = Owing
      BY <1>24 DEF TestDone, Owing
    <3>3. QED
      BY <1>24, <2>1, <3>1, <3>2 DEF TestDone, Counting, Owing
  <2>2. CASE owner' # "idle"
    <3>1. Frame
      BY <1>24, <2>2 DEF TestDone, Frame, Owing, Counting
    <3>2. NoLostDoneWakeup'
      BY <1>24, <2>2 DEF TestDone
    <3>3. QED
      BY <3>1, <3>2, <1>f
  <2>3. QED
    BY <2>1, <2>2
<1>25. ASSUME BlockDone PROVE Joining'
  BY <1>25, <1>f DEF BlockDone, Frame, Owing, Counting
<1>26. ASSUME SpuriousDone PROVE Joining'
  BY <1>26, <1>f DEF SpuriousDone, Frame, Owing, Counting
<1>27. ASSUME NEW t \in 1 .. MaxTotal, WriteTask(t) PROVE Joining'
  BY <1>27, <1>f DEF WriteTask, Frame, Owing, Counting
<1>28. ASSUME UNCHANGED vars PROVE Joining'
  BY <1>28, <1>f DEF vars, Frame, Owing, Counting
<1>29. QED
  BY <1>1, <1>2, <1>3, <1>4, <1>5, <1>6, <1>7, <1>8, <1>9, <1>10, <1>11,
     <1>12, <1>13, <1>14, <1>15, <1>16, <1>17, <1>18, <1>19, <1>20, <1>21,
     <1>22, <1>23, <1>24, <1>25, <1>26, <1>27, <1>28
  DEF Next, WorkerStep, OwnerStep

-----------------------------------------------------------------------------
(* The claim counter and the slices the workers hold.                      *)

LEMMA ClaimantsAreFinite ==
  IsFiniteSet(Claimants) /\ Claimants \subseteq Workers
BY WorkersAssumption, FS_Subset DEF Claimants

LEMMA ClaimingStep ==
  ASSUME TypeOK, Waking, Joining, Claiming, [Next]_vars
  PROVE  Claiming'
<1> DEFINE Typed == /\ pc \in [Workers -> PcStates]
                    /\ last \in [Workers -> 0 .. EpochModulus - 1]
                    /\ slot \in [Workers -> Nat]
                    /\ task \in [Workers -> 0 .. MaxTotal]
                    /\ shutdown \in BOOLEAN
                    /\ claimed \in Nat
<1>t. Typed
  BY DEF TypeOK
<1> DEFINE Frame == /\ owner' \in InCall => owner \in InCall
                    /\ Claimants' = Claimants
                    /\ UNCHANGED <<claimed, slot, total>>
                    /\ \A w \in Workers : pc'[w] \in {"run", "finish"} =>
                         pc[w] \in {"run", "finish"} /\ task'[w] = task[w]
<1>f. Frame => Claiming'
  BY DEF Claiming, InCall, Dispatching
<1> HIDE DEF Frame
<1> USE <1>t, WorkersAssumption
    DEF PcStates, Waiting, Serving, InCall, Dispatching, Goto, OwnerGoto,
        Entry, WakeWorkers, ShutDown, locals, shared
<1>1. ASSUME NEW w \in Workers, SpinShutdown(w) PROVE Claiming'
  <2>1. PICK seen \in {FALSE, shutdown} :
          Goto(w, "spin", IF seen THEN "exited" ELSE "spinEpoch")
    BY <1>1 DEF SpinShutdown, RacyShutdown
  <2>2. CASE seen = TRUE
    BY <1>1, <2>1, <2>2, <1>f DEF SpinShutdown, Frame, Claimants
  <2>3. CASE seen = FALSE
    BY <1>1, <2>1, <2>3, <1>f DEF SpinShutdown, Frame, Claimants
  <2>4. QED
    BY <2>1, <2>2, <2>3
<1>2. ASSUME NEW w \in Workers, SpinEpoch(w) PROVE Claiming'
  BY <1>2, <1>f DEF SpinEpoch, Frame, Claimants
<1>3. ASSUME NEW w \in Workers, LockWork(w) PROVE Claiming'
  BY <1>3, <1>f DEF LockWork, Frame, Claimants
<1>4. ASSUME NEW w \in Workers, TestWork(w) PROVE Claiming'
  BY <1>4, <1>f DEF TestWork, Frame, Claimants
<1>5. ASSUME NEW w \in Workers, BlockWork(w) PROVE Claiming'
  BY <1>5, <1>f DEF BlockWork, Frame, Claimants
<1>6. ASSUME NEW w \in Workers, SpuriousWork(w) PROVE Claiming'
  BY <1>6, <1>f DEF SpuriousWork, Frame, Claimants
<1>7. ASSUME NEW w \in Workers, CheckShutdown(w) PROVE Claiming'
  <2>1. PICK seen \in {FALSE, shutdown} :
          Goto(w, "check", IF seen THEN "exited" ELSE "claim")
    BY <1>7 DEF CheckShutdown, RacyShutdown
  <2>2. seen = FALSE
    BY <2>1 DEF Joining, Counting, Owing, Waking, Locking
  <2>3. Frame
    BY <1>7, <2>1, <2>2 DEF CheckShutdown, Frame, Claimants
  <2>4. QED
    BY <2>3, <1>f
<1>8. ASSUME NEW w \in Workers, Claim(w) PROVE Claiming'
  <2>1. last[w] = epoch /\ owner \in InCall
    BY <1>8 DEF Claim, Joining, Counting, Owing
  <2>2. w \in Workers \ Claimants /\ Claimants' = Claimants \cup {w}
    BY <1>8, <2>1 DEF Claim, Claimants
  <2>3. Cardinality(Claimants') = Cardinality(Claimants) + 1
    BY <2>2, ClaimantsAreFinite, FS_AddElement
  <2>4. /\ claimed = Cardinality(Claimants)
        /\ \A v \in Claimants : slot[v] \in 0 .. claimed - 1
        /\ \A v, u \in Claimants : slot[v] = slot[u] => v = u
        /\ \A i \in 0 .. claimed - 1 : \E v \in Claimants : slot[v] = i
        /\ \A v \in Workers : pc[v] \in {"run", "finish"} => task[v] = total
    BY <2>1 DEF Claiming
  <2>5. /\ claimed' = claimed + 1
        /\ slot'[w] = claimed
        /\ \A v \in Claimants : slot'[v] = slot[v]
    BY <1>8, <2>2, ClaimantsAreFinite DEF Claim
  <2>6. \A v \in Claimants' : slot'[v] \in 0 .. claimed' - 1
    BY <2>2, <2>4, <2>5
  <2>7. \A v, u \in Claimants' : slot'[v] = slot'[u] => v = u
    BY <2>2, <2>4, <2>5
  <2>8. \A i \in 0 .. claimed' - 1 : \E v \in Claimants' : slot'[v] = i
    <3> SUFFICES ASSUME NEW i \in 0 .. claimed'  - 1
                 PROVE  \E v \in Claimants' : slot'[v] = i
      OBVIOUS
    <3>1. CASE i = claimed
      BY <2>2, <2>5, <3>1
    <3>2. CASE i # claimed
      BY <2>2, <2>4, <2>5, <3>2
    <3>3. QED
      BY <3>1, <3>2
  <2>9. \A v \in Workers : pc'[v] \in {"run", "finish"} => task'[v] = total'
    BY <1>8, <2>4 DEF Claim
  <2>10. QED
    BY <2>3, <2>4, <2>5, <2>6, <2>7, <2>8, <2>9 DEF Claiming
<1>9. ASSUME NEW w \in Workers, Load(w) PROVE Claiming'
  <2>1. Claimants' = Claimants
    BY <1>9 DEF Load, Claimants
  <2>2. QED
    BY <1>9, <2>1 DEF Load, Claiming, Claimants
<1>10. ASSUME NEW w \in Workers, Run(w) PROVE Claiming'
  BY <1>10, <1>f DEF Run, Frame, Claimants
<1>11. ASSUME NEW w \in Workers, Finish(w) PROVE Claiming'
  BY <1>11, <1>f DEF Finish, Frame, Claimants
<1>12. ASSUME NEW w \in Workers, SignalDone(w) PROVE Claiming'
  BY <1>12, <1>f DEF SignalDone, Frame, Claimants
<1>13. ASSUME NEW w \in Workers, CreateWorker(w) PROVE Claiming'
  BY <1>13 DEF CreateWorker, Claiming
<1>14. ASSUME CreateReturns PROVE Claiming'
  BY <1>14 DEF CreateReturns, Claiming
<1>15. ASSUME CreateFails PROVE Claiming'
  BY <1>15 DEF CreateFails, Claiming
<1>16. ASSUME Destroy PROVE Claiming'
  BY <1>16 DEF Destroy, Claiming
<1>17. ASSUME JoinAndFree PROVE Claiming'
  BY <1>17 DEF JoinAndFree, Claiming
<1>18. ASSUME ResetCounters PROVE Claiming'
  <2>1. CASE NumWorkers = 0
    <3>1. Workers = {}
      BY <2>1, WorkersAssumption, FS_EmptySet DEF NumWorkers
    <3>2. Claimants' = {}
      BY <3>1 DEF Claimants
    <3>3. Cardinality(Claimants') = 0
      BY <3>2, FS_EmptySet
    <3>4. QED
      BY <1>18, <3>1, <3>2, <3>3 DEF ResetCounters, Claiming
  <2>2. CASE NumWorkers # 0
    BY <1>18, <2>2, Constants DEF ResetCounters, Claiming
  <2>3. QED
    BY <2>1, <2>2
<1>19. ASSUME BumpEpoch PROVE Claiming'
  <2>1. epoch' # epoch
    BY <1>19, NumberAssumption, TypeOK DEF BumpEpoch, TypeOK
  <2>2. /\ \A v \in Workers : last[v] = epoch /\ pc[v] \notin Serving
        /\ claimed = 0
    BY <1>19 DEF BumpEpoch, Joining, Counting, Owing
  <2>3. Claimants' = {}
    BY <1>19, <2>1, <2>2 DEF BumpEpoch, Claimants
  <2>4. Cardinality(Claimants') = 0
    BY <2>3, FS_EmptySet
  <2>5. QED
    BY <1>19, <2>2, <2>3, <2>4 DEF BumpEpoch, Claiming
<1>20. ASSUME Broadcast PROVE Claiming'
  BY <1>20, <1>f DEF Broadcast, Frame, Claimants
<1>21. ASSUME RunOwnSlice PROVE Claiming'
  BY <1>21, <1>f DEF RunOwnSlice, Frame, Claimants
<1>22. ASSUME SpinRemaining PROVE Claiming'
  BY <1>22, <1>f DEF SpinRemaining, Frame, Claimants
<1>23. ASSUME LockDone PROVE Claiming'
  BY <1>23, <1>f DEF LockDone, Frame, Claimants
<1>24. ASSUME TestDone PROVE Claiming'
  BY <1>24, <1>f DEF TestDone, Frame, Claimants
<1>25. ASSUME BlockDone PROVE Claiming'
  BY <1>25, <1>f DEF BlockDone, Frame, Claimants
<1>26. ASSUME SpuriousDone PROVE Claiming'
  BY <1>26, <1>f DEF SpuriousDone, Frame, Claimants
<1>27. ASSUME NEW t \in 1 .. MaxTotal, WriteTask(t) PROVE Claiming'
  BY <1>27 DEF WriteTask, Claiming
<1>28. ASSUME UNCHANGED vars PROVE Claiming'
  BY <1>28, <1>f DEF vars, Frame, Claimants
<1>29. QED
  BY <1>1, <1>2, <1>3, <1>4, <1>5, <1>6, <1>7, <1>8, <1>9, <1>10, <1>11,
     <1>12, <1>13, <1>14, <1>15, <1>16, <1>17, <1>18, <1>19, <1>20, <1>21,
     <1>22, <1>23, <1>24, <1>25, <1>26, <1>27, <1>28
  DEF Next, WorkerStep, OwnerStep

-----------------------------------------------------------------------------
(* The rows that have been processed.                                      *)

(* The slices the workers hold are none of the owner's.                    *)
LEMMA SlotRange ==
  ASSUME TypeOK, Claiming, owner \in InCall
  PROVE  \A w \in Claimants :
           slot[w] \in 0 .. NumThreads - 1 /\ slot[w] # NumWorkers
<1>1. Cardinality(Claimants) <= NumWorkers
  BY WorkersAssumption, FS_Subset, ClaimantsAreFinite DEF NumWorkers
<1>2. claimed \in Nat /\ claimed <= NumWorkers
  BY <1>1 DEF Claiming, TypeOK
<1>3. QED
  BY <1>2, Constants DEF Claiming

(* When nobody owes anything, every row of the task has been processed.    *)
LEMMA AllProcessed ==
  ASSUME TypeOK, Joining, Claiming, Progressing,
         owner \in InCall \ {"wake", "run"},
         ~(remaining > 0)
  PROVE  \A r \in Rows : hits[r] = IF r < total THEN 1 ELSE 0
<1>1. Owing = {}
  BY OwingIsFinite, FS_EmptySet, FS_CardinalityType
     DEF Joining, Counting, TypeOK
<1>2. Done = Workers /\ Claimants = Workers
  BY <1>1 DEF Owing, Done, Claimants, Serving
<1>3. claimed = NumWorkers
  BY <1>2 DEF Claiming, NumWorkers
<1>4. total \in Nat /\ Rows \subseteq Nat
  BY NumberAssumption DEF TypeOK, Rows
<1>5. ASSUME NEW r \in Rows, r < total PROVE Processed(r)
  <2>1. PICK i \in 0 .. NumThreads - 1 : r \in Slice(i, NumThreads, total)
    BY <1>4, <1>5, Constants, SlicesCover
  <2>2. CASE i = NumWorkers
    BY <2>1, <2>2, Constants DEF Processed
  <2>3. CASE i # NumWorkers
    <3>1. PICK w \in Claimants : slot[w] = i
      BY <1>3, <2>1, <2>3, Constants DEF Claiming
    <3>2. QED
      BY <1>2, <2>1, <3>1 DEF Processed
  <2>4. QED
    BY <2>2, <2>3
<1>6. ASSUME NEW r \in Rows, ~(r < total) PROVE ~Processed(r)
  <2>1. \A i \in 0 .. NumThreads - 1 : r \notin Slice(i, NumThreads, total)
    BY <1>4, <1>6, Constants, SliceInTask
  <2>2. NumThreads - 1 \in 0 .. NumThreads - 1
    BY Constants
  <2>3. QED
    BY <1>2, <2>1, <2>2, SlotRange DEF Processed
<1>7. QED
  BY <1>5, <1>6 DEF Progressing

(* The rows a worker is about to process are rows of the task that nobody  *)
(* has processed.                                                          *)
LEMMA RunIsFresh ==
  ASSUME TypeOK, Joining, Claiming, NEW w \in Workers, pc[w] = "run"
  PROVE  /\ owner \in InCall /\ w \in Claimants \ Done /\ task[w] = total
         /\ \A r \in Slice(slot[w], NumThreads, total) :
              ~Processed(r) /\ r \in Rows /\ r < total
<1>1. owner \in InCall /\ w \in Claimants \ Done /\ task[w] = total
  BY DEF Joining, Counting, Owing, Claimants, Done, Claiming, Serving
<1>2. \A v \in Done : v \in Claimants /\ slot[v] # slot[w]
  BY <1>1 DEF Done, Claiming
<1>3. /\ slot[w] \in 0 .. NumThreads - 1 /\ slot[w] # NumThreads - 1
      /\ \A v \in Done : slot[v] \in 0 .. NumThreads - 1
      /\ NumThreads - 1 \in 0 .. NumThreads - 1
  BY <1>1, <1>2, SlotRange, Constants
<1>4. total \in Nat /\ total <= MaxTotal /\ MaxTotal \in Nat
  BY NumberAssumption DEF TypeOK
<1>5. \A r \in Slice(slot[w], NumThreads, total) : ~Processed(r)
  BY <1>2, <1>3, <1>4, Constants, SlicesDisjoint DEF Processed
<1>6. Slice(slot[w], NumThreads, total) \subseteq 0 .. total - 1
  BY <1>3, <1>4, Constants, SliceInTask
<1>7. QED
  BY <1>1, <1>4, <1>5, <1>6 DEF Rows

(* So are the rows the owner is about to process.                          *)
LEMMA OwnRunIsFresh ==
  ASSUME TypeOK, Claiming, owner = "run"
  PROVE  \A r \in Slice(NumThreads - 1, NumThreads, total) :
           ~Processed(r) /\ r \in Rows /\ r < total
<1>1. /\ \A v \in Done : slot[v] \in 0 .. NumThreads - 1
      /\ \A v \in Done : slot[v] # NumThreads - 1
      /\ NumThreads - 1 \in 0 .. NumThreads - 1
  BY SlotRange, Constants DEF Done, InCall, Dispatching
<1>2. total \in Nat /\ total <= MaxTotal /\ MaxTotal \in Nat
  BY NumberAssumption DEF TypeOK
<1>3. \A r \in Slice(NumThreads - 1, NumThreads, total) : ~Processed(r)
  BY <1>1, <1>2, Constants, SlicesDisjoint DEF Processed
<1>4. Slice(NumThreads - 1, NumThreads, total) \subseteq 0 .. total - 1
  BY <1>1, <1>2, Constants, SliceInTask
<1>5. QED
  BY <1>2, <1>3, <1>4 DEF Rows

(* A pool without workers leaves the whole task to the owner.              *)
LEMMA OwnRunIsAll ==
  ASSUME TypeOK, Claiming, owner = "run", NumWorkers = 0
  PROVE  \A r \in Rows :
           /\ ~Processed(r)
           /\ r < total => r \in Slice(NumThreads - 1, NumThreads, total)
<1>1. Workers = {} /\ NumThreads = 1
  BY WorkersAssumption, FS_EmptySet DEF NumWorkers, NumThreads
<1>2. total \in Nat /\ Rows \subseteq Nat
  BY NumberAssumption DEF TypeOK, Rows
<1>3. TAKE r \in Rows
<1>4. ~Processed(r)
  BY <1>1 DEF Processed, Done, Claimants
<1>5. ASSUME r < total PROVE r \in Slice(NumThreads - 1, NumThreads, total)
  <2>1. r \in 0 .. total - 1 /\ 1 \in Nat \ {0}
    BY <1>2, <1>5
  <2>2. PICK i \in 0 .. 1 - 1 : r \in Slice(i, 1, total)
    BY <1>2, <2>1, SlicesCover
  <2>3. QED
    BY <1>1, <2>2
<1>6. QED
  BY <1>4, <1>5

LEMMA ProgressingStep ==
  ASSUME TypeOK, Waking, Joining, Claiming, Progressing, JoinIsComplete,
         [Next]_vars
  PROVE  Progressing' /\ JoinIsComplete'
<1> DEFINE Typed == /\ pc \in [Workers -> PcStates]
                    /\ last \in [Workers -> 0 .. EpochModulus - 1]
                    /\ slot \in [Workers -> Nat]
                    /\ shutdown \in BOOLEAN
                    /\ owner \in OwnerStates
                    /\ total \in 0 .. MaxTotal
                    /\ hits \in [Rows -> Nat]
           Goal == Progressing' /\ JoinIsComplete'
<1>t. Typed
  BY DEF TypeOK
<1> DEFINE Frame == /\ Done' = Done
                    /\ \A w \in Done : slot'[w] = slot[w]
                    /\ UNCHANGED <<hits, total>>
                    /\ owner' \in InCall => owner \in InCall
                    /\ owner' \in {"wake", "run"} <=> owner \in {"wake", "run"}
                    /\ owner' \in {"create", "reset", "bump"} =>
                         owner \in {"create", "reset", "bump"}
                    /\ owner' \in {"create", "idle"} => owner' = owner
<1>f. Frame => Goal
  BY DEF Progressing, JoinIsComplete, Processed, InCall, Dispatching
<1> HIDE DEF Frame
<1> USE <1>t
    DEF PcStates, Waiting, Serving, InCall, Dispatching, OwnerStates, Goto,
        OwnerGoto, Entry, WakeWorkers, ShutDown, locals, shared
<1>1. ASSUME NEW w \in Workers, SpinShutdown(w) PROVE Goal
  <2>1. PICK seen \in {FALSE, shutdown} :
          Goto(w, "spin", IF seen THEN "exited" ELSE "spinEpoch")
    BY <1>1 DEF SpinShutdown, RacyShutdown
  <2>2. CASE seen = TRUE
    BY <1>1, <2>1, <2>2, <1>f DEF SpinShutdown, Frame, Done, Claimants
  <2>3. CASE seen = FALSE
    BY <1>1, <2>1, <2>3, <1>f DEF SpinShutdown, Frame, Done, Claimants
  <2>4. QED
    BY <2>1, <2>2, <2>3
<1>2. ASSUME NEW w \in Workers, SpinEpoch(w) PROVE Goal
  BY <1>2, <1>f DEF SpinEpoch, Frame, Done, Claimants
<1>3. ASSUME NEW w \in Workers, LockWork(w) PROVE Goal
  BY <1>3, <1>f DEF LockWork, Frame, Done, Claimants
<1>4. ASSUME NEW w \in Workers, TestWork(w) PROVE Goal
  BY <1>4, <1>f DEF TestWork, Frame, Done, Claimants
<1>5. ASSUME NEW w \in Workers, BlockWork(w) PROVE Goal
  BY <1>5, <1>f DEF BlockWork, Frame, Done, Claimants
<1>6. ASSUME NEW w \in Workers, SpuriousWork(w) PROVE Goal
  BY <1>6, <1>f DEF SpuriousWork, Frame, Done, Claimants
<1>7. ASSUME NEW w \in Workers, CheckShutdown(w) PROVE Goal
  <2>1. PICK seen \in {FALSE, shutdown} :
          Goto(w, "check", IF seen THEN "exited" ELSE "claim")
    BY <1>7 DEF CheckShutdown, RacyShutdown
  <2>2. seen = FALSE
    BY <2>1 DEF Joining, Counting, Owing, Waking, Locking
  <2>3. Frame
    BY <1>7, <2>1, <2>2 DEF CheckShutdown, Frame, Done, Claimants
  <2>4. QED
    BY <2>3, <1>f
<1>8. ASSUME NEW w \in Workers, Claim(w) PROVE Goal
  BY <1>8, <1>f DEF Claim, Frame, Done, Claimants
<1>9. ASSUME NEW w \in Workers, Load(w) PROVE Goal
  BY <1>9, <1>f DEF Load, Frame, Done, Claimants
<1>10. ASSUME NEW w \in Workers, Run(w) PROVE Goal
  <2>1. /\ owner \in InCall /\ w \in Claimants \ Done /\ task[w] = total
        /\ \A r \in Slice(slot[w], NumThreads, total) : ~Processed(r)
    BY <1>10, RunIsFresh DEF Run
  <2>2. Done' = Done \cup {w}
    BY <1>10, <2>1 DEF Run, Done, Claimants
  <2>3. \A r \in Rows : Processed(r)' <=>
          Processed(r) \/ r \in Slice(slot[w], NumThreads, total)
    BY <1>10, <2>2 DEF Run, Processed
  <2>4. \A r \in Rows : hits'[r] =
          IF r \in Slice(slot[w], NumThreads, total)
            THEN hits[r] + 1 ELSE hits[r]
    BY <1>10, <2>1 DEF Run, Process
  <2>5. \A r \in Rows : hits'[r] = IF Processed(r)' THEN 1 ELSE 0
    BY <2>1, <2>3, <2>4 DEF Progressing
  <2>6. QED
    BY <1>10, <2>1, <2>5 DEF Run, Progressing, JoinIsComplete
<1>11. ASSUME NEW w \in Workers, Finish(w) PROVE Goal
  BY <1>11, <1>f DEF Finish, Frame, Done, Claimants
<1>12. ASSUME NEW w \in Workers, SignalDone(w) PROVE Goal
  BY <1>12, <1>f DEF SignalDone, Frame, Done, Claimants
<1>13. ASSUME NEW w \in Workers, CreateWorker(w) PROVE Goal
  BY <1>13, <1>f DEF CreateWorker, Frame, Done, Claimants
<1>14. ASSUME CreateReturns PROVE Goal
  BY <1>14, NumberAssumption
     DEF CreateReturns, Progressing, JoinIsComplete, Rows
<1>15. ASSUME CreateFails PROVE Goal
  BY <1>15 DEF CreateFails, Progressing, JoinIsComplete
<1>16. ASSUME Destroy PROVE Goal
  BY <1>16 DEF Destroy, Progressing, JoinIsComplete
<1>17. ASSUME JoinAndFree PROVE Goal
  BY <1>17 DEF JoinAndFree, Progressing, JoinIsComplete
<1>18. ASSUME ResetCounters PROVE Goal
  <2>1. CASE NumWorkers = 0
    <3>1. Workers = {}
      BY <2>1, WorkersAssumption, FS_EmptySet DEF NumWorkers
    <3>2. Done' = {}
      BY <3>1 DEF Done, Claimants
    <3>3. QED
      BY <1>18, <2>1, <3>2
         DEF ResetCounters, Progressing, JoinIsComplete, Processed
  <2>2. CASE NumWorkers # 0
    BY <1>18, <2>2, Constants DEF ResetCounters, Progressing, JoinIsComplete
  <2>3. QED
    BY <2>1, <2>2
<1>19. ASSUME BumpEpoch PROVE Goal
  <2>1. epoch' # epoch
    BY <1>19, NumberAssumption, TypeOK DEF BumpEpoch, TypeOK
  <2>2. \A v \in Workers : last[v] = epoch
    BY <1>19 DEF BumpEpoch, Joining, Counting, Owing
  <2>3. Done' = {}
    BY <1>19, <2>1, <2>2 DEF BumpEpoch, Done, Claimants
  <2>4. QED
    BY <1>19, <2>3 DEF BumpEpoch, Progressing, JoinIsComplete, Processed
<1>20. ASSUME Broadcast PROVE Goal
  BY <1>20, <1>f DEF Broadcast, Frame, Done, Claimants
<1>21. ASSUME RunOwnSlice PROVE Goal
  <2>1. \A r \in Slice(NumThreads - 1, NumThreads, total) :
          ~Processed(r) /\ r < total
    BY <1>21, OwnRunIsFresh DEF RunOwnSlice
  <2>2. Done' = Done /\ UNCHANGED <<slot, total>> /\ owner = "run"
    BY <1>21 DEF RunOwnSlice, Done, Claimants
  <2>3. \A r \in Rows : hits'[r] =
          IF Processed(r) \/ r \in Slice(NumThreads - 1, NumThreads, total)
            THEN 1 ELSE 0
    BY <1>21, <2>1 DEF RunOwnSlice, Process, Progressing
  <2>4. CASE NumWorkers = 0
    <3>1. owner' = "idle"
      BY <1>21, <2>4 DEF RunOwnSlice
    <3>2. \A r \in Rows :
            /\ ~Processed(r)
            /\ r < total => r \in Slice(NumThreads - 1, NumThreads, total)
      BY <2>2, <2>4, OwnRunIsAll
    <3>3. \A r \in Rows : hits'[r] = IF r < total' THEN 1 ELSE 0
      <4> TAKE r \in Rows
      <4>1. r < total <=> r \in Slice(NumThreads - 1, NumThreads, total)
        BY <2>1, <3>2
      <4>2. total' = total
        BY <2>2
      <4>3. QED
        BY <2>3, <3>2, <4>1, <4>2
    <3>4. QED
      BY <3>1, <3>3 DEF Progressing, JoinIsComplete
  <2>5. CASE NumWorkers # 0
    <3>1. owner' \in {"spin", "lock"}
      BY <1>21, <2>5 DEF RunOwnSlice
    <3>2. \A r \in Rows : Processed(r)' <=>
            Processed(r) \/ r \in Slice(NumThreads - 1, NumThreads, total)
      BY <2>2, <3>1 DEF Processed
    <3>3. QED
      BY <2>3, <3>1, <3>2 DEF Progressing, JoinIsComplete
  <2>6. QED
    BY <2>4, <2>5
<1>22. ASSUME SpinRemaining PROVE Goal
  <2>1. CASE owner' = "idle"
    <3>1. \A r \in Rows : hits[r] = IF r < total THEN 1 ELSE 0
      BY <1>22, <2>1, AllProcessed DEF SpinRemaining
    <3>2. QED
      BY <1>22, <2>1, <3>1 DEF SpinRemaining, Progressing, JoinIsComplete
  <2>2. CASE owner' # "idle"
    <3>1. Frame
      BY <1>22, <2>2 DEF SpinRemaining, Frame, Done, Claimants
    <3>2. QED
      BY <3>1, <1>f
  <2>3. QED
    BY <2>1, <2>2
<1>23. ASSUME LockDone PROVE Goal
  BY <1>23, <1>f DEF LockDone, Frame, Done, Claimants
<1>24. ASSUME TestDone PROVE Goal
  <2>1. CASE owner' = "idle"
    <3>1. \A r \in Rows : hits[r] = IF r < total THEN 1 ELSE 0
      BY <1>24, <2>1, AllProcessed DEF TestDone
    <3>2. QED
      BY <1>24, <2>1, <3>1 DEF TestDone, Progressing, JoinIsComplete
  <2>2. CASE owner' # "idle"
    <3>1. Frame
      BY <1>24, <2>2 DEF TestDone, Frame, Done, Claimants
    <3>2. QED
      BY <3>1, <1>f
  <2>3. QED
    BY <2>1, <2>2
<1>25. ASSUME BlockDone PROVE Goal
  BY <1>25, <1>f DEF BlockDone, Frame, Done, Claimants
<1>26. ASSUME SpuriousDone PROVE Goal
  BY <1>26, <1>f DEF SpuriousDone, Frame, Done, Claimants
<1>27. ASSUME NEW t \in 1 .. MaxTotal, WriteTask(t) PROVE Goal
  BY <1>27 DEF WriteTask, Progressing, JoinIsComplete
<1>28. ASSUME UNCHANGED vars PROVE Goal
  BY <1>28, <1>f DEF vars, Frame, Done, Claimants
<1>29. QED
  BY <1>1, <1>2, <1>3, <1>4, <1>5, <1>6, <1>7, <1>8, <1>9, <1>10, <1>11,
     <1>12, <1>13, <1>14, <1>15, <1>16, <1>17, <1>18, <1>19, <1>20, <1>21,
     <1>22, <1>23, <1>24, <1>25, <1>26, <1>27, <1>28
  DEF Next, WorkerStep, OwnerStep

-----------------------------------------------------------------------------
(* The theorems.                                                           *)

LEMMA InitIInv == Init => IInv
<1> SUFFICES ASSUME Init PROVE IInv
  OBVIOUS
<1> USE Init, WorkersAssumption, NumberAssumption, Constants
    DEF Init
<1>1. TypeOK
  <2>1. blocking \in BOOLEAN
    <3>1. PICK cores \in CoreCounts : blocking = (NumThreads >= cores * 2)
      OBVIOUS
    <3>2. CASE NumThreads >= cores * 2
      BY <3>1, <3>2
    <3>3. CASE ~(NumThreads >= cores * 2)
      BY <3>1, <3>3
    <3>4. QED
      BY <3>2, <3>3
  <2>2. 0 \in 0 .. EpochModulus - 1 /\ 0 \in 0 .. MaxTotal
    OBVIOUS
  <2>3. owner \in OwnerStates /\ pc \in [Workers -> PcStates]
    BY DEF OwnerStates, PcStates
  <2>4. /\ last \in [Workers -> 0 .. EpochModulus - 1]
        /\ spins \in [Workers \cup {Owner} -> Nat]
        /\ slot \in [Workers -> Nat] /\ task \in [Workers -> 0 .. MaxTotal]
        /\ hits \in [Rows -> Nat]
    BY <2>2
  <2>5. /\ mutex \in Workers \cup {Owner, Nobody}
        /\ epoch \in 0 .. EpochModulus - 1
        /\ claimed \in Nat /\ remaining \in Int
        /\ total \in 0 .. MaxTotal
    BY <2>2
  <2>6. shutdown \in BOOLEAN
    BY Zenon
  <2>7. QED
    BY <2>1, <2>3, <2>4, <2>5, <2>6, Zenon DEF TypeOK
<1>2. Owing = {}
  BY DEF Owing, Serving
<1>3. /\ Locking /\ NoLostWorkWakeup /\ NoLostDoneWakeup
  BY DEF Locking, NoLostWorkWakeup, NoLostDoneWakeup
<1>4. Counting /\ Claiming /\ Progressing /\ JoinIsComplete
  BY <1>2 DEF Counting, Claiming, Progressing, JoinIsComplete, InCall,
              Dispatching, Serving
<1>5. QED
  BY <1>1, <1>3, <1>4 DEF IInv

LEMMA NextIInv == IInv /\ [Next]_vars => IInv'
BY TypingStep, WakingStep, JoiningStep, ClaimingStep, ProgressingStep
   DEF IInv, Waking, Joining

(* The inductive invariant: what the counters count at every step.         *)
THEOREM Invariance == Spec => []IInv
BY InitIInv, NextIInv, PTL DEF Spec

(* Every variable of the pool keeps its type; the epoch wraps.             *)
THEOREM TypeCorrect == Spec => []TypeOK
<1>1. IInv => TypeOK
  BY DEF IInv
<1>2. QED
  BY <1>1, Invariance, PTL

(* threadpool_dispatch() returns only when the task function has been      *)
(* called exactly once on each row of the task and on no other row.        *)
THEOREM JoinComplete == Spec => []JoinIsComplete
<1>1. IInv => JoinIsComplete
  BY DEF IInv
<1>2. QED
  BY <1>1, Invariance, PTL

(* No worker takes a slice of a task with the parameters of an earlier     *)
(* one, and none is at work while the owner rewrites them.                 *)
THEOREM Stragglers == Spec => []NoStraggler
<1>1. IInv => NoStraggler
  <2> SUFFICES ASSUME IInv PROVE NoStraggler
    OBVIOUS
  <2>1. \A w \in Workers : pc[w] \in Serving => owner \in InCall
    BY DEF IInv, Counting, Owing
  <2>2. \A w \in Workers : pc[w] \in {"run", "finish"} => task[w] = total
    BY <2>1 DEF IInv, Claiming, Serving
  <2>3. QED
    BY <2>1, <2>2 DEF NoStraggler, InCall
<1>2. QED
  BY <1>1, Invariance, PTL

(* Workers hold distinct slices, none of them the owner's.                 *)
THEOREM DistinctClaims == Spec => []ClaimsDistinct
<1>1. IInv => ClaimsDistinct
  <2> SUFFICES ASSUME IInv,
                      NEW w \in Workers, pc[w] \in {"load", "run", "finish"}
               PROVE  /\ slot[w] \in 0 .. NumWorkers - 1
                      /\ \A v \in Workers \ {w} :
                           pc[v] \in {"load", "run", "finish"} =>
                             slot[v] # slot[w]
    BY DEF ClaimsDistinct
  <2>1. \A v \in Workers : pc[v] \in {"load", "run", "finish"} =>
          owner \in InCall /\ v \in Claimants
    BY DEF IInv, Counting, Owing, Claimants, Serving
  <2>2. slot[w] \in 0 .. NumThreads - 1 /\ slot[w] # NumWorkers
    BY <2>1, SlotRange DEF IInv
  <2>3. QED
    BY <2>1, <2>2, Constants DEF IInv, Claiming
<1>2. QED
  BY <1>1, Invariance, PTL

(* A worker that waits with an unseen epoch is still to be woken by the    *)
(* broadcast, although the epoch changes outside the mutex (dispatch).     *)
THEOREM NoLostWakeup == Spec => []NoLostWorkWakeup
<1>1. IInv => NoLostWorkWakeup
  BY DEF IInv
<1>2. QED
  BY <1>1, Invariance, PTL

(* An owner that waits for nobody is still to be woken by the last worker, *)
(* although the join counter changes outside the mutex (worker_entry).     *)
THEOREM OwnerWoken == Spec => []NoLostDoneWakeup
<1>1. IInv => NoLostDoneWakeup
  BY DEF IInv
<1>2. QED
  BY <1>1, Invariance, PTL

-----------------------------------------------------------------------------
(* The pool implements fork-join.                                          *)

LEMMA ForkJoinInit == Init => FJ!Init
BY DEF Init, FJ!Init, FJ!Rows, Rows, Dispatching

LEMMA ForkJoinStep ==
  ASSUME IInv, [Next]_vars
  PROVE  [FJ!Next]_(FJ!vars)
<1> DEFINE Phase == IF owner \in Dispatching THEN "running"
                    ELSE IF owner \in {"join", "freed"} THEN "closed"
                    ELSE "idle"
           Goal == [FJ!Next]_(FJ!vars)
           Stutter == Phase' = Phase /\ UNCHANGED <<total, hits>>
<1>r. FJ!Rows = Rows
  BY DEF FJ!Rows, Rows
<1>s. Stutter => Goal
  BY DEF FJ!vars
<1>t. /\ TypeOK /\ Joining /\ Claiming /\ Progressing
      /\ hits \in [Rows -> Nat]
  BY DEF IInv, Joining, TypeOK
<1> USE DEF Goto, OwnerGoto, ShutDown, locals, shared, Dispatching
<1>1. ASSUME NEW w \in Workers, SpinShutdown(w) PROVE Goal
  BY <1>1, <1>s DEF SpinShutdown
<1>2. ASSUME NEW w \in Workers, SpinEpoch(w) PROVE Goal
  BY <1>2, <1>s DEF SpinEpoch
<1>3. ASSUME NEW w \in Workers, LockWork(w) PROVE Goal
  BY <1>3, <1>s DEF LockWork
<1>4. ASSUME NEW w \in Workers, TestWork(w) PROVE Goal
  BY <1>4, <1>s DEF TestWork
<1>5. ASSUME NEW w \in Workers, BlockWork(w) PROVE Goal
  BY <1>5, <1>s DEF BlockWork
<1>6. ASSUME NEW w \in Workers, SpuriousWork(w) PROVE Goal
  BY <1>6, <1>s DEF SpuriousWork
<1>7. ASSUME NEW w \in Workers, CheckShutdown(w) PROVE Goal
  BY <1>7, <1>s DEF CheckShutdown
<1>8. ASSUME NEW w \in Workers, Claim(w) PROVE Goal
  BY <1>8, <1>s DEF Claim
<1>9. ASSUME NEW w \in Workers, Load(w) PROVE Goal
  BY <1>9, <1>s DEF Load
<1>10. ASSUME NEW w \in Workers, Run(w) PROVE Goal
  <2>1. /\ owner \in InCall /\ task[w] = total
        /\ \A r \in Slice(slot[w], NumThreads, total) :
             ~Processed(r) /\ r \in Rows /\ r < total
    BY <1>10, <1>t, RunIsFresh DEF Run
  <2> DEFINE S == Slice(slot[w], NumThreads, total)
  <2>2. \A r \in S : r \in Rows /\ r < total /\ hits[r] = 0
    BY <1>t, <2>1 DEF Progressing
  <2>3. hits' = [r \in Rows |-> IF r \in S THEN hits[r] + 1 ELSE hits[r]]
    BY <1>10, <2>1 DEF Run, Process
  <2> HIDE DEF S
  <2>4. hits' = [r \in Rows |-> IF r \in S THEN 1 ELSE hits[r]]
    BY <2>2, <2>3
  <2>5. Phase = "running" /\ Phase' = "running" /\ total' = total
    BY <1>10, <2>1 DEF Run, InCall
  <2>6. CASE S = {}
    BY <1>s, <1>t, <2>4, <2>5, <2>6
  <2>7. CASE S # {}
    <3>1. FJ!Work(S)
      BY <1>r, <2>2, <2>4, <2>5 DEF FJ!Work
    <3>2. S \in SUBSET FJ!Rows
      BY <1>r, <2>2
    <3>3. QED
      BY <2>7, <3>1, <3>2 DEF FJ!Next, FJ!Progress
  <2>8. QED
    BY <2>6, <2>7
<1>11. ASSUME NEW w \in Workers, Finish(w) PROVE Goal
  BY <1>11, <1>s DEF Finish
<1>12. ASSUME NEW w \in Workers, SignalDone(w) PROVE Goal
  BY <1>12, <1>s DEF SignalDone
<1>13. ASSUME NEW w \in Workers, CreateWorker(w) PROVE Goal
  BY <1>13, <1>s DEF CreateWorker
<1>14. ASSUME CreateReturns PROVE Goal
  BY <1>14, <1>s DEF CreateReturns
<1>15. ASSUME CreateFails PROVE Goal
  BY <1>15 DEF CreateFails, FJ!Next, FJ!Close
<1>16. ASSUME Destroy PROVE Goal
  BY <1>16 DEF Destroy, FJ!Next, FJ!Close
<1>17. ASSUME JoinAndFree PROVE Goal
  BY <1>17, <1>s DEF JoinAndFree
<1>18. ASSUME ResetCounters PROVE Goal
  BY <1>18, <1>s DEF ResetCounters
<1>19. ASSUME BumpEpoch PROVE Goal
  BY <1>19, <1>s DEF BumpEpoch
<1>20. ASSUME Broadcast PROVE Goal
  BY <1>20, <1>s DEF Broadcast
<1>21. ASSUME RunOwnSlice PROVE Goal
  <2> DEFINE S == Slice(NumThreads - 1, NumThreads, total)
  <2>1. \A r \in S : ~Processed(r) /\ r \in Rows /\ r < total
    BY <1>21, <1>t, OwnRunIsFresh DEF RunOwnSlice
  <2>2. \A r \in S : r \in Rows /\ r < total /\ hits[r] = 0
    BY <1>21, <1>t, <2>1 DEF Progressing, RunOwnSlice, InCall
  <2>3. hits' = [r \in Rows |-> IF r \in S THEN hits[r] + 1 ELSE hits[r]]
    BY <1>21 DEF RunOwnSlice, Process
  <2>4. Phase = "running" /\ total' = total
    BY <1>21 DEF RunOwnSlice
  <2>5. NumWorkers = 0 => \A r \in Rows \ S : ~(r < total)
    BY <1>21, <1>t, OwnRunIsAll DEF RunOwnSlice
  <2> HIDE DEF S
  <2>6. hits' = [r \in Rows |-> IF r \in S THEN 1 ELSE hits[r]]
    BY <2>2, <2>3
  <2>7. S \in SUBSET FJ!Rows
    BY <1>r, <2>2
  <2>8. CASE NumWorkers = 0
    <3>1. Phase' = "idle"
      BY <1>21, <2>8 DEF RunOwnSlice
    <3>2. FJ!End(S)
      BY <1>r, <2>2, <2>4, <2>5, <2>6, <2>8, <3>1 DEF FJ!End
    <3>3. QED
      BY <2>7, <3>2 DEF FJ!Next, FJ!Progress
  <2>9. CASE NumWorkers # 0
    <3>1. Phase' = "running"
      BY <1>21, <2>9 DEF RunOwnSlice
    <3>2. CASE S = {}
      BY <1>s, <1>t, <2>4, <2>6, <3>1, <3>2
    <3>3. CASE S # {}
      <4>1. FJ!Work(S)
        BY <1>r, <2>2, <2>4, <2>6, <3>1 DEF FJ!Work
      <4>2. QED
        BY <2>7, <3>3, <4>1 DEF FJ!Next, FJ!Progress
    <3>4. QED
      BY <3>2, <3>3
  <2>10. QED
    BY <2>8, <2>9
<1>22. ASSUME SpinRemaining PROVE Goal
  <2>1. CASE owner' # "idle"
    BY <1>22, <2>1, <1>s DEF SpinRemaining
  <2>2. CASE owner' = "idle"
    <3>1. \A r \in Rows : hits[r] = IF r < total THEN 1 ELSE 0
      BY <1>22, <1>t, <2>2, AllProcessed DEF SpinRemaining, InCall
    <3>2. hits = [r \in Rows |-> IF r \in {} THEN 1 ELSE hits[r]]
      BY <1>t
    <3>3. FJ!End({})
      BY <1>22, <1>r, <2>2, <3>1, <3>2 DEF SpinRemaining, FJ!End
    <3>4. QED
      BY <3>3 DEF FJ!Next, FJ!Progress
  <2>3. QED
    BY <2>1, <2>2
<1>23. ASSUME LockDone PROVE Goal
  BY <1>23, <1>s DEF LockDone
<1>24. ASSUME TestDone PROVE Goal
  <2>1. CASE owner' # "idle"
    BY <1>24, <2>1, <1>s DEF TestDone
  <2>2. CASE owner' = "idle"
    <3>1. \A r \in Rows : hits[r] = IF r < total THEN 1 ELSE 0
      BY <1>24, <1>t, <2>2, AllProcessed DEF TestDone, InCall
    <3>2. hits = [r \in Rows |-> IF r \in {} THEN 1 ELSE hits[r]]
      BY <1>t
    <3>3. FJ!End({})
      BY <1>24, <1>r, <2>2, <3>1, <3>2 DEF TestDone, FJ!End
    <3>4. QED
      BY <3>3 DEF FJ!Next, FJ!Progress
  <2>3. QED
    BY <2>1, <2>2
<1>25. ASSUME BlockDone PROVE Goal
  BY <1>25, <1>s DEF BlockDone
<1>26. ASSUME SpuriousDone PROVE Goal
  BY <1>26, <1>s DEF SpuriousDone
<1>27. ASSUME NEW t \in 1 .. MaxTotal, WriteTask(t) PROVE Goal
  <2>1. FJ!Begin(t)
    BY <1>27, <1>r DEF WriteTask, FJ!Begin
  <2>2. QED
    BY <2>1 DEF FJ!Next
<1>28. ASSUME UNCHANGED vars PROVE Goal
  BY <1>28, <1>s DEF vars
<1>29. QED
  BY <1>1, <1>2, <1>3, <1>4, <1>5, <1>6, <1>7, <1>8, <1>9, <1>10, <1>11,
     <1>12, <1>13, <1>14, <1>15, <1>16, <1>17, <1>18, <1>19, <1>20, <1>21,
     <1>22, <1>23, <1>24, <1>25, <1>26, <1>27, <1>28
  DEF Next, WorkerStep, OwnerStep

(* A dispatch is a fork-join: for the caller the pool behaves like a       *)
(* single thread that processes each row of each task exactly once before  *)
(* threadpool_dispatch() returns, and nothing once the pool is torn down.  *)
THEOREM RefinesForkJoin == Spec => FJ!SafeSpec
BY ForkJoinInit, ForkJoinStep, Invariance, PTL DEF Spec, FJ!SafeSpec
=============================================================================
