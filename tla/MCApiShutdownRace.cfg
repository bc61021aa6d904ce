\* One connection that outlives api_server_stop().
CONSTANTS
  Conns = {c1}
  None = None
  MaxTokens = 1
SPECIFICATION Spec
INVARIANT NoUseAfterFree
\* The process ends; and a server nobody connects to or signals waits for good.
CHECK_DEADLOCK FALSE
