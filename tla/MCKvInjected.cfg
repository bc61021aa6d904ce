\* An injection and the generation that follows it.
SPECIFICATION Spec
CONSTANTS
  Window = 4
  PrefixLens = {0, 1}
  TokenLimits = {0, 1, 4}
  MaxInject = 3
  MinFree = 2
  MaxFeeds = 9
\* One-shot sessions end, and forward passes are bounded by MaxFeeds.
CHECK_DEADLOCK FALSE
INVARIANT InjectedIsSeen
