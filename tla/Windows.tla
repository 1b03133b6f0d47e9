------------------------------ MODULE Windows -------------------------------
(***************************************************************************)
(* The counts of one link between the threads that record them and the     *)
(* reporter's clock thread that closes their windows and reports them      *)
(* (rxplus/reacting/_window.py, handles.py, and the part of reporter.py    *)
(* that closes windows, sheds and begins sessions).                        *)
(*                                                                         *)
(* A thread's call reads the shared time base without a lock, one field    *)
(* after the other, and records under the lock of the link's shard; the    *)
(* clock thread takes that lock only to move windows out and to read the   *)
(* depth.  Shards share nothing but the clock's scalars, so one link, in   *)
(* the one shard that holds it, stands for all.  Time is counted in        *)
(* windows: window k of the session that began at T is the time T + k.     *)
(* Of a total only items and delta are kept, what the other counts do is   *)
(* the same; the link has no sampler and no capacity.                      *)
(***************************************************************************)
EXTENDS Integers, FiniteSets, FiniteSetsExt

CONSTANTS
    Threads,      \* the threads that use the link
    Cap,          \* most totals held before counts are refused
    MaxLag,       \* most windows the clock thread may fall behind
    MaxCalls,     \* bound: calls of all threads
    MaxTime,      \* bound: the time
    MaxSessions   \* bound: sessions begun

ASSUME WindowsAssumption ==
    /\ IsFiniteSet(Threads)
    /\ {Cap, MaxLag, MaxCalls, MaxTime, MaxSessions} \subseteq Nat

NoItem == -2       \* the thread has no item in the link
NotCounted == -1   \* the token of an item that entered while not live

VARIABLES
    now,         \* the monotonic clock
    st,          \* _Live: live, session, T, closed, pending, saturated
    win,         \* the shard: the totals of the windows it holds
    acc,         \* the link's Accumulator: session, backlog, nonzero
    call,        \* per thread: the call under way
    token,       \* per thread: the token of the item it put in the link
    calls,       \* calls made
    clock,       \* the clock thread: where it is, and its locals
    watched,     \* the link is in _watched
    backlogSeen, \* the backlog the observer was last told
    sure,        \* no recovery snapshot has replaced a depth in this session
    clean,       \* no call was under way at the step that began the session
    recorded, told, given  \* items recorded; reported; given up

callVars == <<call, token, calls>>
seenVars == <<watched, backlogSeen, sure, clean>>
itemVars == <<recorded, told, given>>
vars == <<now, st, win, acc, callVars, clock, seenVars, itemVars>>

Empty == [k \in {} |-> [items |-> 0, delta |-> 0]]

(* No window begins after MaxTime.                                         *)
Sum(w, field) ==
    LET part[n \in 0..MaxTime + 1] ==
          IF n = 0 THEN 0
          ELSE part[n - 1] + (IF n - 1 \in DOMAIN w THEN w[n - 1][field] ELSE 0)
    IN  part[MaxTime + 1]

Total(w) == [items |-> Sum(w, "items"), delta |-> Sum(w, "delta")]

IdleCall == [at |-> "idle", t |-> 0, s |-> 0, k |-> 0, counts |-> FALSE]

IdleClock ==
    [at |-> "idle", open |-> FALSE, t |-> 0, k |-> 0, first |-> 0, end |-> 0,
     closing |-> Empty, total |-> [items |-> 0, delta |-> 0], value |-> 0,
     watch |-> FALSE]

NewAcc == [session |-> -1, backlog |-> 0, nonzero |-> FALSE]

Init ==
    /\ now = 0
    /\ st = [live |-> FALSE, session |-> -1, T |-> 0, closed |-> 0,
             pending |-> 0, saturated |-> FALSE]
    /\ win = Empty
    /\ acc = NewAcc
    /\ call = [th \in Threads |-> IdleCall]
    /\ token = [th \in Threads |-> NoItem]
    /\ calls = 0
    /\ clock = IdleClock
    /\ watched = FALSE /\ backlogSeen = 0 /\ sure = TRUE /\ clean = TRUE
    /\ recorded = 0 /\ told = 0 /\ given = 0

Tick ==
    /\ now < MaxTime
    /\ now' = now + 1
    /\ UNCHANGED <<st, win, acc, callVars, clock, seenVars, itemVars>>

WindowOf(t) == Max({t - st.T, 0})

-----------------------------------------------------------------------------
(* Link.enter and Link.leave in a thread: an item enters, then leaves.     *)

Enters(th) == token[th] = NoItem

Starts(th) ==
    /\ call[th].at = "idle"
    /\ calls < MaxCalls
    /\ calls' = calls + 1
    /\ \/ /\ st.live
          /\ call' = [call EXCEPT ![th].at = "clock"]
          /\ UNCHANGED token
       \/ /\ ~st.live
          /\ token' = [token EXCEPT ![th] = IF Enters(th) THEN NotCounted ELSE NoItem]
          /\ UNCHANGED call
    /\ UNCHANGED <<now, st, win, acc, clock, seenVars, itemVars>>

(* The calls' reads of the time base, each on its own.                     *)
Reads(th, at, next, read) ==
    /\ call[th].at = at
    /\ call' = [call EXCEPT ![th] = [read EXCEPT !.at = next]]
    /\ UNCHANGED <<now, st, win, acc, token, calls, clock, seenVars, itemVars>>

ReadsClock(th) ==
    Reads(th, "clock", IF Enters(th) THEN "session" ELSE "judge", [call[th] EXCEPT !.t = now])

Judges(th) == Reads(th, "judge", "session", [call[th] EXCEPT !.counts = token[th] >= st.T])

ReadsSession(th) == Reads(th, "session", "window", [call[th] EXCEPT !.s = st.session])

ReadsT(th) == Reads(th, "window", "record", [call[th] EXCEPT !.k = WindowOf(call[th].t)])

(* Fault: an item that entered before the session is counted out of it.    *)
AlwaysOut(th) == IF Enters(th) THEN 1 ELSE -1

(* Accumulator.record, under the shard's lock: a count for a closed window *)
(* goes to the current one, the backlog never becomes negative and is kept *)
(* even when the cap refuses a new total.                                  *)
Delta(th) == IF Enters(th) THEN 1 ELSE IF call[th].counts THEN -1 ELSE 0

(* Fault: leaving is not clamped.                                          *)
UnclampedChange(th) == Delta(th)

Change(th) == IF acc.backlog + Delta(th) < 0 THEN -acc.backlog ELSE Delta(th)

Target(th) == Max({call[th].k, st.closed})

Added(th) ==
    LET k == Target(th)
        old == IF k \in DOMAIN win THEN win[k] ELSE [items |-> 0, delta |-> 0]
        new == [items |-> old.items + (IF Enters(th) THEN 0 ELSE 1),
                delta |-> old.delta + Change(th)]
    IN  [j \in DOMAIN win \union {k} |-> IF j = k THEN new ELSE win[j]]

Record(th) ==
    \/ /\ call[th].s # acc.session
       /\ UNCHANGED <<acc, st, win, recorded>>
    \/ /\ call[th].s = acc.session
       /\ acc' = [acc EXCEPT !.backlog = @ + Change(th)]
       /\ \/ /\ Target(th) \notin DOMAIN win
             /\ st.pending >= Cap
             /\ st' = [st EXCEPT !.saturated = TRUE]
             /\ UNCHANGED <<win, recorded>>
          \/ /\ Target(th) \in DOMAIN win \/ st.pending < Cap
             /\ win' = Added(th)
             /\ st' = IF Target(th) \in DOMAIN win THEN st ELSE [st EXCEPT !.pending = @ + 1]
             /\ recorded' = recorded + (IF Enters(th) THEN 0 ELSE 1)

Records(th) ==
    /\ call[th].at = "record"
    /\ Record(th)
    /\ token' = [token EXCEPT ![th] = IF Enters(th) THEN call[th].t ELSE NoItem]
    /\ call' = [call EXCEPT ![th] = IdleCall]
    /\ UNCHANGED <<now, calls, clock, seenVars, told, given>>

Caller(th) ==
    Starts(th) \/ ReadsClock(th) \/ Judges(th) \/ ReadsSession(th) \/ ReadsT(th) \/ Records(th)

-----------------------------------------------------------------------------
(* The clock thread, from one access to shared state to the next.          *)

Pending == Cardinality(DOMAIN win) + Cardinality(DOMAIN clock.closing)

Behind(lag) == st.saturated \/ lag > MaxLag \/ Pending > Cap

(* _run_step: time has passed since any earlier reading.  The sink decides *)
(* whether the session goes on and whether another begins.                 *)
StepStarts ==
    /\ clock.at = "idle"
    /\ now < MaxTime
    /\ now' = now + 1
    /\ \/ /\ clock.open
          /\ clock' = [clock EXCEPT !.at = "close", !.t = now']
          /\ UNCHANGED st
       \/ /\ clock.open
          /\ st' = [st EXCEPT !.live = FALSE]
          /\ clock' \in {[clock EXCEPT !.at = "begin", !.t = now', !.open = FALSE],
                         [clock EXCEPT !.open = FALSE]}
       \/ /\ ~clock.open
          /\ clock' = [clock EXCEPT !.at = "begin", !.t = now']
          /\ UNCHANGED st
    /\ clean' = IF clock'.open THEN clean ELSE \A th \in Threads : call[th].at = "idle"
    /\ UNCHANGED <<win, acc, callVars, watched, backlogSeen, sure, itemVars>>

(* _begin_session, field by field.                                         *)
BeginsSession ==
    /\ clock.at = "begin"
    /\ st.session + 1 < MaxSessions
    /\ st' = [st EXCEPT !.session = @ + 1]
    /\ clock' = [clock EXCEPT !.at = "anchor"]
    /\ UNCHANGED <<now, win, acc, callVars, seenVars, itemVars>>

Anchors ==
    /\ clock.at = "anchor"
    /\ st' = [st EXCEPT !.T = clock.t]
    /\ clock' = [clock EXCEPT !.at = "clear"]
    /\ UNCHANGED <<now, win, acc, callVars, seenVars, itemVars>>

Clears ==
    /\ clock.at = "clear"
    /\ win' = Empty
    /\ given' = given + Sum(win, "items")
    /\ st' = [st EXCEPT !.closed = 0, !.pending = 0, !.saturated = FALSE]
    /\ clock' = [clock EXCEPT !.at = "start"]
    /\ UNCHANGED <<now, acc, callVars, seenVars, recorded, told>>

StartsAcc ==
    /\ clock.at = "start"
    /\ acc' = [NewAcc EXCEPT !.session = st.session]
    /\ clock' = [clock EXCEPT !.at = "live"]
    /\ UNCHANGED <<now, st, win, callVars, seenVars, itemVars>>

GoesLive ==
    /\ clock.at = "live"
    /\ st' = [st EXCEPT !.live = TRUE]
    /\ clock' = [IdleClock EXCEPT !.open = TRUE]
    /\ watched' = FALSE /\ backlogSeen' = 0 /\ sure' = TRUE
    /\ UNCHANGED <<now, win, acc, callVars, clean, itemVars>>

(* _close_until: nothing ended, or the clock has fallen behind, or windows *)
(* below end are closed and moved out under the lock.                      *)
ClosesUntil ==
    /\ clock.at = "close"
    /\ LET end == WindowOf(clock.t)
       IN  \/ /\ end <= st.closed
              /\ clock' = [clock EXCEPT !.at = "idle"]
              /\ UNCHANGED st
           \/ /\ end > st.closed
              /\ Behind(end - st.closed)
              /\ clock' = [clock EXCEPT !.at = "shed"]
              /\ UNCHANGED st
           \/ /\ end > st.closed
              /\ ~Behind(end - st.closed)
              /\ clock' = [clock EXCEPT !.at = "take", !.k = st.closed,
                                        !.first = st.closed, !.end = end]
              /\ st' = [st EXCEPT !.closed = end, !.pending = Pending]
    /\ UNCHANGED <<now, win, acc, callVars, seenVars, itemVars>>

(* Fault: the window still open is moved out too, and never visited.       *)
UpTo(end) == {j \in DOMAIN win : j <= end}

Below(end) == {j \in DOMAIN win : j < end}

(* What was recorded late, below the first window to close, counts in it.  *)
Merged(k, end) ==
    LET of(j) == {i \in Below(end) : Max({i, k}) = j}
    IN  [j \in {Max({i, k}) : i \in Below(end)} |-> Total([i \in of(j) |-> win[i]])]

Takes ==
    /\ clock.at = "take"
    /\ clock' = [clock EXCEPT !.at = "window", !.closing = Merged(clock.k, clock.end)]
    /\ win' = [j \in DOMAIN win \ Below(clock.end) |-> win[j]]
    /\ UNCHANGED <<now, st, acc, callVars, seenVars, itemVars>>

(* _close_windows chooses the next window: without anything watched, the   *)
(* next one that holds counts.                                             *)
NextWindow ==
    IF watched THEN clock.k
    ELSE Min({j \in DOMAIN clock.closing : j >= clock.k} \union {clock.end})

Done(c) == [c EXCEPT !.at = "idle", !.closing = Empty]

Without(w, k) == [j \in DOMAIN w \ {k} |-> w[j]]

(* One window: its flow is emitted, and the writer's queue may overflow.   *)
ClosesOne ==
    /\ clock.at = "window"
    /\ ~(clock.k > clock.first /\ clock.k < clock.end /\ Behind(WindowOf(now) - clock.k))
    /\ IF clock.k >= clock.end \/ NextWindow >= clock.end
       THEN clock' = Done(clock) /\ UNCHANGED told
       ELSE LET k == NextWindow
                total == IF k \in DOMAIN clock.closing THEN clock.closing[k]
                         ELSE [items |-> 0, delta |-> 0]
            IN  /\ told' = told + total.items
                /\ clock' \in
                     {[clock EXCEPT !.at = at, !.k = k, !.total = total,
                                    !.closing = Without(@, k)] :
                        at \in {"quiet"} \union (IF total.items > 0 THEN {"snapshot"} ELSE {})}
    /\ UNCHANGED <<now, st, win, acc, callVars, seenVars, recorded, given>>

GivesUp ==
    /\ clock.at = "window"
    /\ clock.k > clock.first /\ clock.k < clock.end
    /\ Behind(WindowOf(now) - clock.k)
    /\ clock' = [clock EXCEPT !.at = "shed"]
    /\ UNCHANGED <<now, st, win, acc, callVars, seenVars, itemVars>>

(* The overflow of a flow lost that flow; the recovery snapshot lists the  *)
(* backlog of the moment, and the window goes on.                          *)
RecoverySnapshot ==
    /\ acc' = [acc EXCEPT !.nonzero = acc.backlog # 0]
    /\ backlogSeen' = acc.backlog
    /\ sure' = FALSE

SnapshotsInWindow ==
    /\ clock.at = "snapshot"
    /\ RecoverySnapshot
    /\ watched' = (watched \/ acc.backlog # 0)
    /\ clock' = [clock EXCEPT !.at = "quiet"]
    /\ UNCHANGED <<now, st, win, callVars, clean, itemVars>>

(* Accumulator.quiet reads the backlog without the lock.                   *)
Quiet == ~acc.nonzero /\ clock.total.delta = 0 /\ acc.backlog = 0

TestsQuiet ==
    /\ clock.at = "quiet"
    /\ \/ /\ Quiet
          /\ watched' = FALSE
          /\ clock' = [clock EXCEPT !.at = "window", !.k = @ + 1]
       \/ /\ ~Quiet
          /\ clock' = [clock EXCEPT !.at = "depth"]
          /\ UNCHANGED watched
    /\ UNCHANGED <<now, st, win, acc, callVars, backlogSeen, sure, clean, itemVars>>

Later == Sum(win, "delta") + Sum(clock.closing, "delta")

(* Fault: changes in the windows still held are taken for the past.        *)
DepthUncorrected == Max({acc.backlog, 0})

DepthNow == Max({acc.backlog - Later, 0})

(* Accumulator.depth under the lock; NoItem when there is none to emit.    *)
ReadsDepth ==
    /\ clock.at = "depth"
    /\ acc' = [acc EXCEPT !.nonzero = DepthNow # 0]
    /\ clock' = [clock EXCEPT
            !.at = "emit",
            !.value = IF DepthNow = 0 /\ ~acc.nonzero THEN NoItem ELSE DepthNow,
            !.watch = DepthNow # 0 \/ acc.backlog # 0]
    /\ UNCHANGED <<now, st, win, callVars, seenVars, itemVars>>

EmitsDepth ==
    /\ clock.at = "emit"
    /\ \/ /\ backlogSeen' = IF clock.value = NoItem THEN backlogSeen ELSE clock.value
          /\ UNCHANGED <<acc, sure>>
       \/ clock.value # NoItem /\ RecoverySnapshot
    /\ watched' = clock.watch
    /\ clock' = [clock EXCEPT !.at = "window", !.k = @ + 1]
    /\ UNCHANGED <<now, st, win, callVars, clean, itemVars>>

(* _shed: every count held is given up, then a recovery snapshot.          *)
Sheds ==
    /\ clock.at = "shed"
    /\ given' = given + Sum(win, "items") + Sum(clock.closing, "items")
    /\ win' = Empty
    /\ st' = [st EXCEPT !.closed = Max({WindowOf(now), @}), !.pending = 0, !.saturated = FALSE]
    /\ clock' = [clock EXCEPT !.at = "recover", !.closing = Empty]
    /\ UNCHANGED <<now, acc, callVars, seenVars, recorded, told>>

Recovers ==
    /\ clock.at = "recover"
    /\ RecoverySnapshot
    /\ watched' = (watched \/ acc.backlog # 0)
    /\ clock' = [clock EXCEPT !.at = "idle"]
    /\ UNCHANGED <<now, st, win, callVars, clean, itemVars>>

ClockThread ==
    \/ StepStarts
    \/ BeginsSession \/ Anchors \/ Clears \/ StartsAcc \/ GoesLive
    \/ ClosesUntil \/ Takes \/ ClosesOne \/ GivesUp \/ SnapshotsInWindow
    \/ TestsQuiet \/ ReadsDepth \/ EmitsDepth \/ Sheds \/ Recovers

Next == Tick \/ ClockThread \/ \E th \in Threads : Caller(th)

Spec == Init /\ [][Next]_vars

-----------------------------------------------------------------------------
(* What the windows promise.                                               *)

(* Every variable keeps its type; the backlog, the observer's too, is      *)
(* never negative, whatever session an item entered in.                    *)
WindowsTypeOK ==
    /\ now \in 0..MaxTime
    /\ st \in [live : BOOLEAN, session : -1..MaxSessions, T : 0..MaxTime, closed : 0..MaxTime,
               pending : Nat, saturated : BOOLEAN]
    /\ acc \in [session : -1..MaxSessions, backlog : Nat, nonzero : BOOLEAN]
    /\ token \in [Threads -> NoItem..MaxTime]
    /\ {watched, sure, clean} \subseteq BOOLEAN
    /\ backlogSeen \in Nat

(* Every item recorded is reported in one window, held for one, or given   *)
(* up by a Loss or a new session: none twice, none forgotten.              *)
ItemsConserved ==
    recorded = told + given + Sum(win, "items") + Sum(clock.closing, "items")

(* Between two windows the observer holds the depth at the last boundary:  *)
(* the backlog without what is counted in windows still held.              *)
DepthExact ==
    clean /\ sure /\ clock.open /\ ~st.saturated /\ clock.at \in {"idle", "window"} =>
        backlogSeen = acc.backlog - Later

(* Once every count is reported, the observer holds the number of items    *)
(* that entered in this session and are still in the link, whatever was    *)
(* shed or recovered before.                                               *)
Settled ==
    /\ clock.open /\ clock.at = "idle" /\ ~st.saturated
    /\ win = Empty
    /\ \A th \in Threads : call[th].at = "idle"

DepthSettles ==
    clean /\ Settled => backlogSeen = Cardinality({th \in Threads : token[th] >= st.T})

(* The comment where a session begins says the previous session's counts   *)
(* "are dropped whole".                                                    *)
OldCountsDropped == clock.at = "start" => win = Empty
=============================================================================
