--------------------------- MODULE MCThreadHandle ---------------------------
(* Two threads and two waits: copies of one handle, or one handle each.    *)
EXTENDS ThreadHandle

CONSTANTS t1, t2, w1, w2, a

MCThreads == {t1, t2}
MCWaiters == {w1, w2}
MCValues  == {a}
=============================================================================
