----------------------------- MODULE MCKeyedMutex -----------------------------
(*****************************************************************************)
(* A small instance of KeyedMutex for TLC.                                   *)
(*****************************************************************************)
EXTENDS KeyedMutex

CONSTANTS k1, k2, t1, t2, t3, t4

TwoKeys == {k1, k2}
FourTasks == {t1, t2, t3, t4}
===============================================================================
