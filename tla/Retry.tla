------------------------------- MODULE Retry --------------------------------
(***************************************************************************)
(* One subscription of retry_with_signal (rxplus/opt.py): the thread that  *)
(* subscribes, the threads on which the source's attempts fail and delayed *)
(* retries run, and the subscriber that disposes.                          *)
(*                                                                         *)
(* An attempt's source fails or completes at most once, on the thread that *)
(* is subscribing to it (before subscribe() returns) or on another one at  *)
(* any time.  What should_retry and delay_s answer is arbitrary.  Values   *)
(* that pass through and spans are left out; the element that is reported  *)
(* while a subscription uses it is kept by its count.                      *)
(***************************************************************************)
EXTENDS Integers, FiniteSets

CONSTANTS
    Threads,     \* threads that may run the operator's callbacks
    Main,        \* the one that subscribes
    MaxRetries,  \* max_retries
    MaxSync      \* max_sync_retries

ASSUME RetryAssumption ==
    /\ IsFiniteSet(Threads) /\ Main \in Threads
    /\ {MaxRetries, MaxSync} \subseteq Nat

Attempts == 1..MaxRetries + 1

VARIABLES
    source,       \* per attempt: its source and our subscription to it
    generation,   \* the number of the newest attempt
    live,         \* the attempt whose subscription is stored; 0 if none
    attempts,     \* failures signalled to the subscriber
    syncFailures, \* sync_failures
    timers,       \* retries waiting on the scheduler
    waiting,      \* the one stored for dispose(); 0 if none
    disposed,     \* disposed
    over,         \* on_completed or on_error went to the subscriber
    active,       \* subscriptions that use the reported element
    ended,        \* this one has given it up
    returned,     \* the operator's subscribe function has returned
    disposer,     \* where _dispose is, and the subscription it took
    th            \* per thread: where it is, and its trampoline

shared == <<source, generation, live, attempts, syncFailures, timers, waiting, over,
            active, ended>>
vars == <<shared, disposed, returned, disposer, th>>

IdleThread ==
    [at |-> "idle", g |-> 0, active |-> FALSE, pending |-> FALSE, sync |-> FALSE, delayed |-> FALSE,
     timer |-> 0]

Running == [IdleThread EXCEPT !.at = "loop", !.active = TRUE, !.pending = TRUE]

(* _acquire.                                                               *)
Acquired == active = 1 /\ ended = FALSE

Init ==
    /\ source = [g \in Attempts |-> "none"]
    /\ generation = 0 /\ live = 0 /\ attempts = 0 /\ syncFailures = 0
    /\ timers = {} /\ waiting = 0
    /\ Acquired
    /\ disposed = FALSE /\ over = FALSE /\ returned = FALSE
    /\ disposer = [at |-> "none", current |-> 0]
    /\ th = [t \in Threads |-> IF t = Main THEN Running ELSE IdleThread]

Disposed(g) == [source EXCEPT ![g] = IF @ = "running" THEN "disposed" ELSE @]

Released == active - 1

(* _finish: once per subscription, whichever comes first.                  *)
Finishes == ended' = TRUE /\ active' = IF ended THEN active ELSE Released

Goes(t, at) == th' = [th EXCEPT ![t].at = at]

-----------------------------------------------------------------------------
(* _run and _subscribe_once in thread t.                                   *)

Only(changed) == UNCHANGED <<disposed, disposer>> /\ changed

(* Fault: the request that the loop serves stays pending.                  *)
ServedTwice(t) == [th[t] EXCEPT !.at = "begin"]

Served(t) == [th[t] EXCEPT !.pending = FALSE, !.at = "begin"]

Loops(t) ==
    /\ th[t].at = "loop"
    /\ IF th[t].pending /\ ~disposed
       THEN th' = [th EXCEPT ![t] = Served(t)] /\ UNCHANGED returned
       ELSE /\ th' = [th EXCEPT ![t] = IdleThread]
            /\ returned' = (returned \/ t = Main)
    /\ Only(UNCHANGED shared)

Begins(t) ==
    /\ th[t].at = "begin"
    /\ Goes(t, IF disposed THEN "after" ELSE "generation")
    /\ Only(UNCHANGED <<shared, returned>>)

(* Under generation_lock; then source.subscribe() is called.               *)
Subscribes(t) ==
    /\ th[t].at = "generation"
    /\ generation' = generation + 1
    /\ source' = [source EXCEPT ![generation'] = "running"]
    /\ th' = [th EXCEPT ![t].at = "in", ![t].g = generation']
    /\ Only(UNCHANGED <<live, attempts, syncFailures, timers, waiting, over, active, ended, returned>>)

SubscribeReturns(t) ==
    /\ th[t].at = "in"
    /\ Goes(t, "store")
    /\ Only(UNCHANGED <<shared, returned>>)

(* Fault: an attempt that was subscribing when dispose() came is kept.     *)
StaleIfOvertaken(g) == g # generation

(* Fault: the subscription of an attempt that was overtaken is kept.       *)
StaleIfDisposed(g) == disposed

Stale(g) == disposed \/ g # generation

(* Under generation_lock; what is replaced or stale is disposed.           *)
Stores(t) ==
    LET g == th[t].g
    IN  /\ th[t].at = "store"
        /\ \/ /\ Stale(g)
              /\ source' = Disposed(g)
              /\ UNCHANGED live
           \/ /\ ~Stale(g)
              /\ source' = IF live = 0 THEN source ELSE Disposed(live)
              /\ live' = g
        /\ Goes(t, "after")
        /\ Only(UNCHANGED <<generation, attempts, syncFailures, timers, waiting, over, active, ended, returned>>)

(* A subscribe() that returned without a synchronous failure ends a streak. *)
EndsStreak(t) ==
    /\ th[t].at = "after"
    /\ syncFailures' = IF th[t].pending THEN syncFailures ELSE 0
    /\ Goes(t, "loop")
    /\ Only(UNCHANGED <<source, generation, live, attempts, timers, waiting, over, active, ended, returned>>)

-----------------------------------------------------------------------------
(* The source of attempt g ends in thread t: in the middle of its own      *)
(* subscribe(), or in a thread that does nothing else.                     *)

Emits(t, g) ==
    /\ source[g] = "running"
    /\ th[t].at = "idle" \/ (th[t].at = "in" /\ th[t].g = g)

Completes(t, g) ==
    /\ Emits(t, g)
    /\ source' = [source EXCEPT ![g] = "ended"]
    /\ over' = TRUE
    /\ Finishes
    /\ Only(UNCHANGED <<generation, live, attempts, syncFailures, timers, waiting, returned, th>>)

(* _on_error up to the retry: an error that is not to be retried, or one   *)
(* retry too many, ends the stream.                                        *)
Counted(t, delayed) ==
    IF ~delayed /\ th[t].at = "in" THEN syncFailures + 1 ELSE 0

Surfaces == over' = TRUE /\ Finishes /\ UNCHANGED th

GoesToRetry(t, delayed) ==
    /\ th' = [th EXCEPT ![t].at = "retry", ![t].delayed = delayed, ![t].sync = th[t].at = "in"]
    /\ UNCHANGED <<over, active, ended>>

(* The subscriber may also raise at the signal of the restart.             *)
Fails(t, g) ==
    /\ Emits(t, g)
    /\ source' = [source EXCEPT ![g] = "ended"]
    /\ \/ Surfaces /\ UNCHANGED <<attempts, syncFailures>>
       \/ /\ attempts < MaxRetries
          /\ \E delayed \in BOOLEAN :
                /\ syncFailures' = Counted(t, delayed)
                /\ IF Counted(t, delayed) > MaxSync
                   THEN attempts' = attempts /\ Surfaces
                   ELSE /\ attempts' = attempts + 1
                        /\ Surfaces \/ GoesToRetry(t, delayed)
    /\ Only(UNCHANGED <<generation, live, timers, waiting, returned>>)

(* Back to what the thread was doing when the error came.                  *)
Back(t) == IF th[t].sync THEN [th[t] EXCEPT !.at = "in"] ELSE IdleThread

(* _retry: at once by the trampoline of this thread, or by a timer.        *)
Retries(t) ==
    /\ th[t].at = "retry"
    /\ \/ /\ disposed
          /\ th' = [th EXCEPT ![t] = Back(t)]
          /\ UNCHANGED timers
       \/ /\ ~disposed /\ ~th[t].delayed
          /\ th' = [th EXCEPT ![t] =
                IF th[t].active THEN [Back(t) EXCEPT !.pending = TRUE] ELSE Running]
          /\ UNCHANGED timers
       \/ /\ ~disposed /\ th[t].delayed
          /\ timers' = timers \union {attempts}
          /\ th' = [th EXCEPT ![t].at = "timer", ![t].timer = attempts]
    /\ Only(UNCHANGED <<source, generation, live, attempts, syncFailures, waiting, over, active, ended, returned>>)

(* A timer may have fired, and a later one been stored, before this.       *)
StoresTimer(t) ==
    /\ th[t].at = "timer"
    /\ waiting' = th[t].timer
    /\ Goes(t, "check")
    /\ Only(UNCHANGED <<source, generation, live, attempts, syncFailures, timers, over, active, ended, returned>>)

ChecksTimer(t) ==
    /\ th[t].at = "check"
    /\ timers' = IF disposed THEN timers \ {waiting} ELSE timers
    /\ th' = [th EXCEPT ![t] = Back(t)]
    /\ Only(UNCHANGED <<source, generation, live, attempts, syncFailures, waiting, over, active, ended, returned>>)

TimerFires(t) ==
    /\ th[t].at = "idle"
    /\ \E timer \in timers : timers' = timers \ {timer}
    /\ th' = [th EXCEPT ![t] = Running]
    /\ Only(UNCHANGED <<source, generation, live, attempts, syncFailures, waiting, over, active, ended, returned>>)

-----------------------------------------------------------------------------
(* _dispose: only once the subscriber has been given the disposable.       *)

Disposes ==
    /\ returned /\ disposer.at = "none"
    /\ disposed' = TRUE
    /\ live' = 0
    /\ disposer' = [at |-> "waiting", current |-> live]
    /\ UNCHANGED <<source, generation, attempts, syncFailures, timers, waiting, over, active, ended, returned, th>>

CancelsTimer ==
    /\ disposer.at = "waiting"
    /\ timers' = timers \ {waiting}
    /\ disposer' = [disposer EXCEPT !.at = "current"]
    /\ UNCHANGED <<source, generation, live, attempts, syncFailures, waiting, over,
                   active, ended, disposed, returned, th>>

DisposesCurrent ==
    /\ disposer.at = "current"
    /\ source' = IF disposer.current = 0 THEN source ELSE Disposed(disposer.current)
    /\ disposer' = [disposer EXCEPT !.at = "done"]
    /\ Finishes
    /\ UNCHANGED <<generation, live, attempts, syncFailures, timers, waiting, over,
                   disposed, returned, th>>

Thread(t) ==
    \/ Loops(t) \/ Begins(t) \/ Subscribes(t) \/ SubscribeReturns(t) \/ Stores(t)
    \/ EndsStreak(t) \/ Retries(t) \/ StoresTimer(t) \/ ChecksTimer(t) \/ TimerFires(t)
    \/ \E g \in Attempts : Completes(t, g) \/ Fails(t, g)

Disposer == Disposes \/ CancelsTimer \/ DisposesCurrent

Next == Disposer \/ \E t \in Threads : Thread(t)

Spec == Init /\ [][Next]_vars

-----------------------------------------------------------------------------

(* Every variable keeps its type; each failure starts one attempt at most. *)
RetryTypeOK ==
    /\ source \in [Attempts -> {"none", "running", "ended", "disposed"}]
    /\ generation \in 0..attempts + 1 /\ live \in 0..generation
    /\ attempts \in 0..MaxRetries /\ syncFailures \in 0..MaxSync + 1
    /\ timers \subseteq 1..attempts /\ waiting \in 0..attempts
    /\ {disposed, over, returned, ended} \subseteq BOOLEAN
    /\ active \in 0..1

Quiet == returned /\ \A t \in Threads : th[t].at = "idle"

(* Once dispose() is through and no callback runs, no attempt is still     *)
(* subscribed, whether it was subscribing, overtaken or scheduled while    *)
(* dispose() ran; a timer that was not cancelled starts none.  The element *)
(* was given up, once.                                                     *)
NothingAfterDispose ==
    Quiet /\ disposer.at = "done" =>
        active = 0 /\ \A g \in Attempts : source[g] # "running"

(* The comment on waiting: "A retry waiting on the scheduler: cancelled on *)
(* dispose."                                                               *)
TimersCancelled == Quiet /\ disposer.at = "done" => timers = {}

(* Until then a stream that has not ended goes on: a retry waits, or an    *)
(* attempt runs and its subscription is the one that dispose() would find; *)
(* and its element is still reported.                                      *)
NeverForgotten ==
    Quiet /\ disposer.at = "none" /\ ~over =>
        /\ timers # {} \/ (live # 0 /\ source[live] = "running")
        /\ active = 1
=============================================================================
