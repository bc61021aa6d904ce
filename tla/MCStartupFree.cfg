SPECIFICATION Spec
CONSTANTS
  NumLayers = 2
  Files <- MCFiles
INVARIANT MappedExpertsKept
CHECK_DEADLOCK FALSE
