--------------------------- MODULE SessionStream ---------------------------
(***************************************************************************)
(* What a reporter promises the observer at the other end of its sink      *)
(* (rxplus/reacting/reporter.py, _emit and _begin_session): on every       *)
(* connection a session opens with a snapshot numbered 0, each line that   *)
(* follows reports the next change under the next number, and a gap in the *)
(* numbers appears only before a snapshot that shows the source again.     *)
(* What the observer is shown never goes back within a connection.         *)
(***************************************************************************)
EXTENDS Integers

VARIABLES
    version,   \* changes made at the source so far
    at,        \* the version the observer is shown; 0 before a session
    seq        \* number of the last line on the connection; -1 if none

streamVars == <<version, at, seq>>

Init == version = 1 /\ at = 0 /\ seq = -1

Changes == version' = version + 1 /\ UNCHANGED <<at, seq>>

Connects == at' = 0 /\ seq' = -1 /\ UNCHANGED version

ShowsSource == at' >= at /\ at' \in 1..version

Opens == seq' = 0 /\ ShowsSource /\ UNCHANGED version

Follows == seq >= 0 /\ seq' = seq + 1 /\ at' = at + 1 /\ UNCHANGED version

Recovers == seq >= 0 /\ seq' > seq + 1 /\ ShowsSource /\ UNCHANGED version

Next == Changes \/ Connects \/ Opens \/ Follows \/ Recovers

Stream == Init /\ [][Next]_streamVars
=============================================================================
