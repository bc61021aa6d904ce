\* 4 threads on 4 cores (spin, then sleep) or on 2 cores (sleep at once).
CONSTANTS
  Workers = {w1, w2, w3}
  Owner = Owner
  Nobody = Nobody
  CoreCounts = {2, 4}
  SpinLimit = 1
  EpochModulus = 2
  MaxTotal = 5
SPECIFICATION Spec
SYMMETRY WorkerSymmetry
INVARIANTS
  TypeOK JoinIsComplete NoStraggler ClaimsDistinct
  NoLostWorkWakeup NoLostDoneWakeup
\* The pool stops for good once it is freed.
CHECK_DEADLOCK FALSE
