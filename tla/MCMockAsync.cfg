CONSTANTS
  MaxReq = 2
  Files <- MCFiles
  NULL = NULL
SPECIFICATION Spec
INVARIANTS TypeOK QueueOwnsUnreleased
PROPERTIES QueueRefinement DispatchReturns
\* Once the service frees its client (FileAsyncCtx_free) nothing more
\* happens to it: that state is a real end.
CHECK_DEADLOCK FALSE
