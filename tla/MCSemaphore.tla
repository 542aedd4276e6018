---------------------------- MODULE MCSemaphore ----------------------------
(* Three threads: one that posts and two that compete for a token.         *)
EXTENDS Semaphore

CONSTANTS t1, t2, t3

MCThreads  == {t1, t2, t3}
MCInitVals == {-1, 0}
MCPosts    == {0, 1}
MCTimeouts == {1}
=============================================================================
