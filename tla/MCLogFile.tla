----------------------------- MODULE MCLogFile ------------------------------
(* Two exporters that rotate by time, on a platform with advisory locks.   *)
EXTENDS LogFile
=============================================================================
