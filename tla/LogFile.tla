------------------------------ MODULE LogFile -------------------------------
(***************************************************************************)
(* The log file exporters of several processes that share one base name    *)
(* (FileLogRecordExporter, rxplus/telemetry/exporters.py).                 *)
(*                                                                         *)
(* A file is named by the second it was first opened in, so exporters meet *)
(* on a file when they open within one second.  Each file has a lock file. *)
(***************************************************************************)
EXTENDS Integers, FiniteSets

CONSTANTS
    Exporters,    \* one per process
    None,         \* no file
    Flock,        \* the platform has advisory locks (fcntl)
    Rotation,     \* rotate_interval: "never", "records" or "time"
    Interval,     \* after so many records, or seconds (more than 0)
    MaxAge,       \* max_log_age in seconds
    MaxTime,      \* bound: seconds
    MaxExports    \* bound: exports

Files == 0..MaxTime

VARIABLES
    now,       \* the clock
    disk,      \* the log files there are
    lockFiles, \* fallback: the files whose lock file exists
    exp,       \* per exporter: where export() is, its file, the lock it holds
    exports    \* exports begun

vars == <<now, disk, lockFiles, exp, exports>>

(* file: _current_logfile; open: it has a handle on it; linked: that       *)
(* handle's file is still the one of that name.                            *)
Fresh == [at |-> "idle", file |-> None, open |-> FALSE, linked |-> FALSE,
          records |-> 0, created |-> 0, lock |-> None]

Init ==
    /\ now = 0
    /\ disk = {}
    /\ lockFiles = {}
    /\ exp = [e \in Exporters |-> Fresh]
    /\ exports = 0

Ticks ==
    /\ now < MaxTime
    /\ now' = now + 1
    /\ UNCHANGED <<disk, lockFiles, exp, exports>>

-----------------------------------------------------------------------------
(* _should_rotate, with what it reads.                                     *)
ShouldRotate(x) ==
    \/ Rotation = "records" /\ x.records >= Interval
    \/ Rotation = "time" /\ x.file # None /\ now - x.created >= Interval

(* _rotate_file if needed; then a name for the file, if there is none.     *)
Rotated(x) ==
    IF ShouldRotate(x)
    THEN [x EXCEPT !.file = None, !.open = FALSE, !.records = 0]
    ELSE x

Named(x) ==
    IF x.file = None
    THEN [x EXCEPT !.file = now, !.created = now, !.records = 0]
    ELSE x

(* _cleanup_old_logs, by whoever has just named a file.                    *)
TooOld(x) == IF Rotated(x).file = None THEN {f \in disk \ {now} : f < now - MaxAge} ELSE {}

(* _ensure_file_open of exporter e, which then goes on to `at'.            *)
EnsuresOpen(e, at) ==
    LET x == Named(Rotated(exp[e]))
        gone == TooOld(exp[e])
    IN  /\ disk' = (disk \ gone) \union (IF x.open THEN {} ELSE {x.file})
        /\ exp' = [o \in Exporters |->
               IF o = e THEN [x EXCEPT !.at = at, !.open = TRUE,
                                       !.linked = IF x.open THEN @ ELSE TRUE]
               ELSE [exp[o] EXCEPT !.linked = @ /\ exp[o].file \notin gone]]

Exports(e) ==
    /\ exp[e].at = "idle"
    /\ exports < MaxExports
    /\ exports' = exports + 1
    /\ EnsuresOpen(e, "lock")
    /\ UNCHANGED <<now, lockFiles>>

(* _acquire_lock: the advisory lock of the lock file, or its creation.     *)
Locks(e) ==
    LET f == exp[e].file
    IN  /\ exp[e].at = "lock"
        /\ IF Flock THEN /\ \A o \in Exporters : exp[o].lock # f
                         /\ UNCHANGED lockFiles
                    ELSE /\ f \notin lockFiles
                         /\ lockFiles' = lockFiles \union {f}
        /\ exp' = [exp EXCEPT ![e].at = "check", ![e].lock = f]
        /\ UNCHANGED <<now, disk, exports>>

(* lock_timeout: the export fails, and the lock file is unlinked on the    *)
(* way out, whoever made it, unless that is not permitted: the             *)
(* PermissionError is swallowed.  (Flock = FALSE is the platform without   *)
(* fcntl.  Where fcntl is there and flock() fails, opening the lock file   *)
(* for it has just made the file that this wait finds: not modelled.)      *)
TimesOut(e) ==
    /\ exp[e].at = "lock"
    /\ ~Flock
    /\ exp[e].file \in lockFiles
    /\ lockFiles' \in {lockFiles \ {exp[e].file}, lockFiles}
    /\ exp' = [exp EXCEPT ![e].at = "idle"]
    /\ UNCHANGED <<now, disk, exports>>

(* _ensure_file_open again, under the lock of the file named before it.    *)
ChecksAgain(e) ==
    /\ exp[e].at = "check"
    /\ EnsuresOpen(e, "write")
    /\ UNCHANGED <<now, lockFiles, exports>>

Unlocks(e) == lockFiles' = IF Flock THEN lockFiles ELSE lockFiles \ {exp[e].lock}

(* The batch is written and flushed, or fails; either way the lock goes.   *)
Writes(e) ==
    /\ exp[e].at = "write"
    /\ \E n \in {0, 1} :
          exp' = [exp EXCEPT ![e].at = "idle", ![e].records = @ + n, ![e].lock = None]
    /\ Unlocks(e)
    /\ UNCHANGED <<now, disk, exports>>

(* shutdown(): the file is closed, its name kept.                          *)
ShutsDown(e) ==
    /\ exp[e].at = "idle" /\ exp[e].open
    /\ exp' = [exp EXCEPT ![e].open = FALSE]
    /\ UNCHANGED <<now, disk, lockFiles, exports>>

Next ==
    \/ Ticks
    \/ \E e \in Exporters :
          \/ Exports(e) \/ Locks(e) \/ TimesOut(e) \/ ChecksAgain(e) \/ Writes(e)
          \/ ShutsDown(e)

Spec == Init /\ [][Next]_vars

-----------------------------------------------------------------------------

(* Two exporters never write to the same file at once: "Cross-process file *)
(* lock with waiting", as the docstring of the lock says.                  *)
Exclusive ==
    \A e, o \in Exporters :
        e # o /\ exp[e].at = "write" /\ exp[o].at = "write" =>
            exp[e].file # exp[o].file \/ ~exp[e].linked \/ ~exp[o].linked
=============================================================================
