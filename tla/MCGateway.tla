----------------------------- MODULE MCGateway -----------------------------
(* Gateway with data frames of sizes 1 and 2 and a HELLO_ACK of size 1.    *)
EXTENDS Gateway

MCSize(f) == IF f = 2 THEN 2 ELSE 1

(* Bound: no step is taken once all four data frames have been handed over. *)
ThreeFrames == nextA + nextB <= 5
=============================================================================
