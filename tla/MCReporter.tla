----------------------------- MODULE MCReporter -----------------------------
(* One reporter with a queue of one line.                                  *)
EXTENDS Reporter
=============================================================================
