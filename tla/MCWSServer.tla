----------------------------- MODULE MCWSServer -----------------------------
(* The server with two clients, frames of size 1 and a queue of one frame. *)
EXTENDS WSServer

CONSTANTS c1, c2

MCClients == {c1, c2}

MCSize(f) == 1
=============================================================================
