\* Four slots, nine forward passes: two injections and two runs fit.
SPECIFICATION Spec
CONSTANTS
  Window = 4
  PrefixLens = {0, 1}
  TokenLimits = {0, 1, 4}
  MaxInject = 3
  MinFree = 2
  MaxFeeds = 9
INVARIANT TypeOK
INVARIANT WritesInRange
INVARIANT SeesWholeContext
INVARIANT PromptPinned
INVARIANT TokenBudget
PROPERTY GenerationKeepsInjected
\* One-shot sessions end, and forward passes are bounded by MaxFeeds.
CHECK_DEADLOCK FALSE
