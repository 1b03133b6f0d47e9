----------------------------- MODULE MCWindows ------------------------------
(* One link used by two threads, which are interchangeable: every property *)
(* checked is an invariant.                                                *)
EXTENDS Windows, TLC

CONSTANTS t1, t2

MCThreads == {t1, t2}

ThreadSymmetry == Permutations(MCThreads)
=============================================================================
