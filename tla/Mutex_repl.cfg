SPECIFICATION FairSpec
CONSTANTS
  Threads  = {t1, t2, t3}
  Nobody   = Nobody
  Repl     = TRUE
  MaxCalls = 2
INVARIANTS Exclusive
PROPERTIES HolderUnlocks LockReturns
CHECK_DEADLOCK FALSE
