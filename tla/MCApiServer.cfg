\* Three connections: two generations and a cancel, three generations, ...
CONSTANTS
  Conns = {c1, c2, c3}
  None = None
  MaxTokens = 2
SPECIFICATION Spec
SYMMETRY ConnSymmetry
INVARIANTS
  TypeOK GenerationExclusive RegistryFollowsGeneration
  CancelHitsOnlyItsTarget
PROPERTY ImplementsGenerations
\* The process ends; and a server nobody connects to or signals waits for good.
CHECK_DEADLOCK FALSE
