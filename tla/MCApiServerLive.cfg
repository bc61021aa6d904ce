\* Two connections, with fairness; no symmetry.
CONSTANTS
  Conns = {c1, c2}
  None = None
  MaxTokens = 1
SPECIFICATION FairSpec
PROPERTIES
  NoThreadAfterStop NeverBlocked StopReturns
\* The process ends; and a server nobody connects to or signals waits for good.
CHECK_DEADLOCK FALSE
