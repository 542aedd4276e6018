SPECIFICATION FairSpec
CONSTANTS
  t1 = t1  t2 = t2  w1 = w1  w2 = w2  a = a
  NoValue = NoValue
  NoThread = NoThread
  Values <- MCValues
  Threads <- MCThreads
  Waiters <- MCWaiters
  Repl = TRUE
INVARIANTS WaitReturnsResult HandlesSafe
PROPERTIES WaitReturns
CHECK_DEADLOCK FALSE
