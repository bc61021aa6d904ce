SPECIFICATION Spec
CONSTANTS
  NumLayers = 2
  Files <- MCFiles
INVARIANT TypeOK
INVARIANT ReadsAsStored
INVARIANT MixturesAreMisread
INVARIANT Backed
INVARIANT CleanExitFreesAll
INVARIANT ErrorExitReleases
\* The process ends.
CHECK_DEADLOCK FALSE
