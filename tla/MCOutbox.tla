------------------------------ MODULE MCOutbox ------------------------------
(* Outbox with four frames of sizes 1, 2, 1, 3 and two reporter sessions.  *)
EXTENDS Outbox

MCSize(f) == <<1, 2, 1, 3>>[f]
=============================================================================
