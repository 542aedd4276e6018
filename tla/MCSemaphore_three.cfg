SPECIFICATION FairSpec
CONSTANTS
  t1 = t1  t2 = t2  t3 = t3
  Threads    <- MCThreads
  InitVals   <- MCInitVals
  Posts      <- MCPosts
  Timeouts   <- MCTimeouts
  SEMVMX     = 2
  MaxTime    = 2
  MaxSignals = 1
  MaxCalls   = 1
INVARIANT TokensConserved
PROPERTIES NotBeforeTime NoLostWakeup TimedwaitReturns
CHECK_DEADLOCK FALSE
