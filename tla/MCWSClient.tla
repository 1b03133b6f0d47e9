----------------------------- MODULE MCWSClient -----------------------------
(* WSClient with frames of one size.                                       *)
EXTENDS WSClient

MCSize(f) == 1
=============================================================================
