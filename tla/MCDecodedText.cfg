SPECIFICATION Spec
CONSTANTS
  Tags <- MCTags
  OPEN_TAG <- MCOpenTag
  CLOSE_TAG <- MCCloseTag
  Vocabulary <- MCVocabulary
  Allowed <- MCAllowed
  ExitCodes = {0, 1}
  BufferSize = 11
  TagSize = 4
  OutputSize = 8
  OutSize = 4
  PipeSize = 2
  Timeout = 2
  MaxPieces = 5
INVARIANT TypeOK
INVARIANT TagsAsSaid
INVARIANT TakenWasSaid
INVARIANT ShownIsOutside
INVARIANT ResultIsTheChilds
PROPERTY CallReturns
\* The run ends.
CHECK_DEADLOCK FALSE
