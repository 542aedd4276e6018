------------------------------ MODULE MCEmutls ------------------------------
(* Two threads and two variables, in arrays that first hold one object and   *)
(* then four. One address is left over.                                      *)
EXTENDS Emutls

TwoThreads   == {"t1", "t2"}
TwoVariables == {"v1", "v2"}
FiveAddresses == {"a1", "a2", "a3", "a4", "a5"}
=============================================================================
