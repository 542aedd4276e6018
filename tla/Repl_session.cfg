SPECIFICATION FairSpec
CONSTANTS
  Main    = main
  Exec    = exec
  Workers = {}
  Kinds   = {"int", "bool"}
  Returns = {0, 5}
  Magic   = 77
  Null    = 0
  MaxExprs = 2
  MaxInts  = 3
INVARIANT NoStaleHandle
PROPERTIES InterruptNeverEndsRepl InterruptEndsTest
CHECK_DEADLOCK FALSE
