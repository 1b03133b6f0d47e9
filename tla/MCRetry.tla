------------------------------ MODULE MCRetry -------------------------------
(* Three threads and three retries.                                          *)
EXTENDS Retry
=============================================================================
