\* Liveness and refinement, in both wait modes; no symmetry.
CONSTANTS
  Workers = {w1, w2}
  Owner = Owner
  Nobody = Nobody
  CoreCounts = {1, 4}
  SpinLimit = 2
  EpochModulus = 2
  MaxTotal = 3
SPECIFICATION FairSpec
PROPERTIES
  DispatchReturns DestroyReturns ImplementsForkJoin
CHECK_DEADLOCK FALSE
