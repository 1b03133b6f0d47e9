-------------------------- MODULE MCObserverSocket --------------------------
(* Two connections dialled one after the other.                            *)
EXTENDS ObserverSocket
=============================================================================
