--------------------------- MODULE MCClientGroup ----------------------------
(* Two callers, one path.                                                  *)
EXTENDS ClientGroup
=============================================================================
