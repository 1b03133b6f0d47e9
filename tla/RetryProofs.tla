---------------------------- MODULE RetryProofs -----------------------------
(***************************************************************************)
(* Proofs about Retry, for any number of threads, retries and failures in  *)
(* a row: once dispose() is through and no callback runs, nothing is left. *)
(*                                                                         *)
(* An attempt whose source runs is always somebody's: the stored one, the  *)
(* one dispose() has taken, or one that a thread is subscribing to and     *)
(* will store or dispose of.  After dispose() nothing is stored again.     *)
(***************************************************************************)
EXTENDS Retry, FiniteSetTheorems, TLAPS

ThreadRecord ==
    [at : {"idle", "loop", "begin", "generation", "in", "store", "after", "retry", "timer", "check"},
     g : Nat, active : BOOLEAN, pending : BOOLEAN, sync : BOOLEAN, delayed : BOOLEAN, timer : Nat]

TypesInv ==
    /\ source \in [Attempts -> {"none", "running", "ended", "disposed"}]
    /\ generation \in Nat /\ live \in Nat /\ attempts \in Nat
    /\ th \in [Threads -> ThreadRecord]
    /\ disposer \in [at : {"none", "waiting", "current", "done"}, current : Nat]
    /\ disposed \in BOOLEAN /\ ended \in BOOLEAN

(* A thread between the start of an attempt and the storing of it.         *)
Subscribing(t, g) == th[t].at \in {"in", "store"} /\ th[t].g = g

Taken(g) == disposer.at \in {"waiting", "current"} /\ disposer.current = g

Owned ==
    \A g \in Attempts : source[g] = "running" =>
        live = g \/ Taken(g) \/ \E t \in Threads : Subscribing(t, g)

(* After dispose() has begun no subscription is stored.                    *)
DisposeIsFinal ==
    /\ disposed <=> disposer.at # "none"
    /\ disposed => live = 0
    /\ disposer.at = "done" => ended

(* The element is given up exactly when the subscription has ended.        *)
GivenUpOnce == active = IF ended THEN 0 ELSE 1

RInv == TypesInv /\ Owned /\ DisposeIsFinal /\ GivenUpOnce

USE RetryAssumption

(* Giving up twice is giving up once.                                      *)
LEMMA FinishesOnce ==
    ASSUME ended \in BOOLEAN, GivenUpOnce, Finishes
    PROVE  ended' = TRUE /\ GivenUpOnce'
BY DEF Finishes, GivenUpOnce, Released

LEMMA RunningThread == IdleThread \in ThreadRecord /\ Running \in ThreadRecord
BY DEF IdleThread, Running, ThreadRecord

(* What only one thread does to itself, and to nothing that owns.          *)
LEMMA ThreadMoves ==
    ASSUME RInv, NEW t \in Threads, NEW r \in ThreadRecord, th' = [th EXCEPT ![t] = r],
           th[t].at \in {"in", "store"} => r.at \in {"in", "store"} /\ r.g = th[t].g,
           attempts' \in Nat,
           UNCHANGED <<source, generation, live, disposed, disposer, active, ended>>
    PROVE  RInv'
<1>1. TypesInv' /\ DisposeIsFinal' /\ GivenUpOnce'
  BY DEF RInv, TypesInv, DisposeIsFinal, GivenUpOnce
<1>2. Owned'
  <2> SUFFICES ASSUME NEW g \in Attempts, source'[g] = "running"
               PROVE  (live = g \/ Taken(g) \/ \E u \in Threads : Subscribing(u, g))'
    BY DEF Owned
  <2>1. live = g \/ Taken(g) \/ \E u \in Threads : Subscribing(u, g)
    BY DEF RInv, Owned
  <2>2. ASSUME NEW u \in Threads, Subscribing(u, g) PROVE Subscribing(u, g)'
    BY <2>2 DEF RInv, TypesInv, Subscribing
  <2>. QED BY <2>1, <2>2 DEF Taken
<1>. QED BY <1>1, <1>2 DEF RInv

LEMMA LoopSteps ==
    ASSUME RInv, NEW t \in Threads,
           Loops(t) \/ Begins(t) \/ SubscribeReturns(t) \/ EndsStreak(t)
    PROVE  RInv'
<1>1. th[t] \in ThreadRecord /\ attempts \in Nat /\ th \in [Threads -> ThreadRecord]
  BY DEF RInv, TypesInv
<1>2. ASSUME Loops(t) PROVE RInv'
  <2>1. Served(t) \in ThreadRecord
    BY <1>1 DEF Served, ThreadRecord
  <2>2. PICK r \in {Served(t), IdleThread} : th' = [th EXCEPT ![t] = r]
    BY <1>2 DEF Loops
  <2>3. /\ th[t].at = "loop" /\ attempts' \in Nat
        /\ UNCHANGED <<source, generation, live, disposed, disposer, active, ended>>
    BY <1>1, <1>2 DEF Loops, Only, shared
  <2>. QED BY <2>1, <2>2, <2>3, RunningThread, ThreadMoves
<1>3. ASSUME Begins(t) \/ SubscribeReturns(t) \/ EndsStreak(t) PROVE RInv'
  <2>1. PICK at \in {"after", "generation", "store", "loop"} :
          /\ Goes(t, at)
          /\ th[t].at \in {"in", "store"} => at = "store"
    BY <1>3 DEF Begins, SubscribeReturns, EndsStreak
  <2> DEFINE r == [th[t] EXCEPT !.at = at]
  <2>2. r \in ThreadRecord /\ r.at = at /\ r.g = th[t].g
    BY <1>1 DEF ThreadRecord
  <2>3. th' = [th EXCEPT ![t] = r]
    BY <2>1 DEF Goes
  <2>4. /\ attempts' \in Nat
        /\ UNCHANGED <<source, generation, live, disposed, disposer, active, ended>>
    BY <1>1, <1>3 DEF Begins, SubscribeReturns, EndsStreak, Only, shared
  <2>. HIDE DEF r
  <2>. QED BY <2>1, <2>2, <2>3, <2>4, ThreadMoves
<1>. QED BY <1>2, <1>3

LEMMA BackRecord ==
    ASSUME NEW t \in Threads, th[t] \in ThreadRecord
    PROVE  Back(t) \in ThreadRecord /\ [Back(t) EXCEPT !.pending = TRUE] \in ThreadRecord
BY DEF Back, IdleThread, ThreadRecord

LEMMA RetrySteps ==
    ASSUME RInv, NEW t \in Threads,
           Retries(t) \/ StoresTimer(t) \/ ChecksTimer(t) \/ TimerFires(t)
    PROVE  RInv'
<1>1. th[t] \in ThreadRecord /\ attempts \in Nat /\ th \in [Threads -> ThreadRecord]
  BY DEF RInv, TypesInv
<1>2. /\ th[t].at \notin {"in", "store"} /\ attempts' \in Nat
      /\ UNCHANGED <<source, generation, live, disposed, disposer, active, ended>>
  BY <1>1 DEF Retries, StoresTimer, ChecksTimer, TimerFires, Only
<1>3. \E r \in ThreadRecord : th' = [th EXCEPT ![t] = r]
  <2>1. CASE Retries(t)
    <3>1. CASE th' = [th EXCEPT ![t] = Back(t)]
      BY <1>1, <3>1, BackRecord
    <3>2. CASE th' = [th EXCEPT ![t] =
                        IF th[t].active THEN [Back(t) EXCEPT !.pending = TRUE] ELSE Running]
      BY <1>1, <3>2, BackRecord, RunningThread
    <3>3. CASE th' = [th EXCEPT ![t].at = "timer", ![t].timer = attempts]
      <4> DEFINE r == [th[t] EXCEPT !.at = "timer", !.timer = attempts]
      <4>1. r \in ThreadRecord
        BY <1>1 DEF ThreadRecord
      <4>2. th' = [th EXCEPT ![t] = r]
        BY <1>1, <3>3
      <4>. QED BY <4>1, <4>2
    <3>. QED BY <2>1, <3>1, <3>2, <3>3 DEF Retries
  <2>2. CASE StoresTimer(t)
    <3> DEFINE r == [th[t] EXCEPT !.at = "check"]
    <3>1. r \in ThreadRecord
      BY <1>1 DEF ThreadRecord
    <3>2. th' = [th EXCEPT ![t] = r]
      BY <2>2 DEF StoresTimer, Goes
    <3>. QED BY <3>1, <3>2
  <2>3. CASE ChecksTimer(t) \/ TimerFires(t)
    BY <1>1, <2>3, BackRecord, RunningThread DEF ChecksTimer, TimerFires
  <2>. QED BY <2>1, <2>2, <2>3
<1>. QED BY <1>2, <1>3, ThreadMoves

(* An attempt begins: its thread is subscribing to it.                     *)
LEMMA SubscribesStep ==
    ASSUME RInv, NEW t \in Threads, Subscribes(t)
    PROVE  RInv'
<1> DEFINE n == generation + 1
<1>1. /\ n \in Nat /\ th[t] \in ThreadRecord /\ th[t].at = "generation"
      /\ generation' = n /\ source' = [source EXCEPT ![n] = "running"]
      /\ th' = [th EXCEPT ![t].at = "in", ![t].g = n]
      /\ UNCHANGED <<live, attempts, disposed, disposer, active, ended>>
  BY DEF RInv, TypesInv, Subscribes, Only
<1>. HIDE DEF n
<1>2. /\ th' \in [Threads -> ThreadRecord] /\ th'[t].at = "in" /\ th'[t].g = n
      /\ \A u \in Threads \ {t} : th'[u] = th[u]
  BY <1>1 DEF RInv, TypesInv, ThreadRecord
<1>3. TypesInv' /\ DisposeIsFinal' /\ GivenUpOnce'
  BY <1>1, <1>2 DEF RInv, TypesInv, DisposeIsFinal, GivenUpOnce
<1>4. Owned'
  <2> SUFFICES ASSUME NEW g \in Attempts, source'[g] = "running"
               PROVE  (live = g \/ Taken(g) \/ \E u \in Threads : Subscribing(u, g))'
    BY DEF Owned
  <2>1. CASE g = n
    BY <1>2, <2>1 DEF Subscribing
  <2>2. CASE g # n
    <3>1. source[g] = "running"
      BY <1>1, <2>2 DEF RInv, TypesInv
    <3>2. live = g \/ Taken(g) \/ \E u \in Threads : Subscribing(u, g)
      BY <3>1 DEF RInv, Owned
    <3>3. ASSUME NEW u \in Threads, Subscribing(u, g) PROVE Subscribing(u, g)'
      BY <1>1, <1>2, <3>3 DEF Subscribing
    <3>. QED BY <1>1, <3>2, <3>3 DEF Taken
  <2>. QED BY <2>1, <2>2
<1>. QED BY <1>3, <1>4 DEF RInv

(* A source that ends, or is disposed of, runs no more.                    *)
LEMMA StopsRunning ==
    ASSUME NEW S \in [Attempts -> {"none", "running", "ended", "disposed"}], NEW g
    PROVE  LET D == [S EXCEPT ![g] = IF @ = "running" THEN "disposed" ELSE @]
           IN  /\ D \in [Attempts -> {"none", "running", "ended", "disposed"}]
               /\ \A h \in Attempts : D[h] = "running" => h # g /\ S[h] = "running"
OBVIOUS

(* The subscription is stored, or disposed of because it is stale.         *)
LEMMA StoresStep ==
    ASSUME RInv, NEW t \in Threads, Stores(t)
    PROVE  RInv'
<1> DEFINE g == th[t].g
           r == [th[t] EXCEPT !.at = "after"]
<1>1. /\ g \in Nat /\ r \in ThreadRecord /\ r.at = "after" /\ th[t].at = "store"
      /\ th' = [th EXCEPT ![t] = r]
      /\ UNCHANGED <<generation, attempts, disposed, disposer, active, ended>>
  BY DEF RInv, TypesInv, ThreadRecord, Stores, Goes, Only
<1>. HIDE DEF r
<1>2. /\ th' \in [Threads -> ThreadRecord]
      /\ \A u \in Threads, h \in Attempts : h # g /\ Subscribing(u, h) => Subscribing(u, h)'
  BY <1>1 DEF RInv, TypesInv, Subscribing
<1>3. ASSUME Stale(g), source' = Disposed(g), UNCHANGED live PROVE RInv'
  <2>1. /\ source' \in [Attempts -> {"none", "running", "ended", "disposed"}]
        /\ \A h \in Attempts : source'[h] = "running" => h # g /\ source[h] = "running"
    BY <1>3, StopsRunning DEF RInv, TypesInv, Disposed
  <2>2. TypesInv' /\ DisposeIsFinal' /\ GivenUpOnce'
    BY <1>1, <1>2, <1>3, <2>1 DEF RInv, TypesInv, DisposeIsFinal, GivenUpOnce
  <2>3. Owned'
    <3> SUFFICES ASSUME NEW h \in Attempts, source'[h] = "running"
                 PROVE  (live = h \/ Taken(h) \/ \E u \in Threads : Subscribing(u, h))'
      BY DEF Owned
    <3>1. h # g /\ (live = h \/ Taken(h) \/ \E u \in Threads : Subscribing(u, h))
      BY <2>1 DEF RInv, Owned
    <3>. QED BY <1>1, <1>2, <1>3, <3>1 DEF Taken
  <2>. QED BY <2>2, <2>3 DEF RInv
<1>4. ASSUME ~Stale(g), live' = g,
             source' = IF live = 0 THEN source ELSE Disposed(live)
      PROVE  RInv'
  <2>1. ~disposed
    BY <1>4 DEF Stale
  <2>2. /\ source' \in [Attempts -> {"none", "running", "ended", "disposed"}]
        /\ \A h \in Attempts : source'[h] = "running" => h # live /\ source[h] = "running"
    <3>1. CASE live = 0
      BY <1>4, <3>1 DEF RInv, TypesInv, Attempts
    <3>2. CASE live # 0
      BY <1>4, <3>2, StopsRunning DEF RInv, TypesInv, Disposed
    <3>. QED BY <3>1, <3>2
  <2>3. TypesInv' /\ DisposeIsFinal' /\ GivenUpOnce'
    BY <1>1, <1>2, <1>4, <2>1, <2>2 DEF RInv, TypesInv, DisposeIsFinal, GivenUpOnce
  <2>4. Owned'
    <3> SUFFICES ASSUME NEW h \in Attempts, source'[h] = "running"
                 PROVE  (live = h \/ Taken(h) \/ \E u \in Threads : Subscribing(u, h))'
      BY DEF Owned
    <3>1. Taken(h) \/ \E u \in Threads : Subscribing(u, h)
      BY <2>2 DEF RInv, Owned
    <3>. QED BY <1>1, <1>2, <1>4, <3>1 DEF Taken
  <2>. QED BY <2>3, <2>4 DEF RInv
<1>. QED BY <1>3, <1>4 DEF Stores

(* The source of g completes or fails: it runs no more, and the thread     *)
(* that was subscribing to it owns nothing else.                           *)
LEMMA SourceEnds ==
    ASSUME RInv, NEW t \in Threads, NEW g \in Attempts, Emits(t, g),
           source' = [source EXCEPT ![g] = "ended"],
           th' \in [Threads -> ThreadRecord], \A u \in Threads \ {t} : th'[u] = th[u],
           attempts' \in Nat, ended' \in BOOLEAN, GivenUpOnce', ended => ended',
           UNCHANGED <<generation, live, disposed, disposer>>
    PROVE  RInv'
<1>1. /\ source' \in [Attempts -> {"none", "running", "ended", "disposed"}]
      /\ \A h \in Attempts : source'[h] = "running" => h # g /\ source[h] = "running"
  BY DEF RInv, TypesInv
<1>2. TypesInv' /\ DisposeIsFinal'
  BY <1>1 DEF RInv, TypesInv, DisposeIsFinal
<1>3. Owned'
  <2> SUFFICES ASSUME NEW h \in Attempts, source'[h] = "running"
               PROVE  (live = h \/ Taken(h) \/ \E u \in Threads : Subscribing(u, h))'
    BY DEF Owned
  <2>1. h # g /\ (live = h \/ Taken(h) \/ \E u \in Threads : Subscribing(u, h))
    BY <1>1 DEF RInv, Owned
  <2>2. ASSUME NEW u \in Threads, Subscribing(u, h) PROVE Subscribing(u, h)'
    <3>1. u # t
      BY <2>1, <2>2 DEF Subscribing, Emits
    <3>. QED BY <2>2, <3>1 DEF Subscribing
  <2>. QED BY <2>1, <2>2 DEF Taken
<1>. QED BY <1>2, <1>3 DEF RInv

LEMMA SourceSteps ==
    ASSUME RInv, NEW t \in Threads, NEW g \in Attempts, Completes(t, g) \/ Fails(t, g)
    PROVE  RInv'
<1>1. /\ th[t] \in ThreadRecord /\ th \in [Threads -> ThreadRecord]
      /\ attempts \in Nat /\ ended \in BOOLEAN /\ GivenUpOnce
  BY DEF RInv, TypesInv
<1>2. /\ Emits(t, g) /\ source' = [source EXCEPT ![g] = "ended"]
      /\ UNCHANGED <<generation, live, disposed, disposer>>
  BY DEF Completes, Fails, Only
<1>3. /\ attempts' \in Nat
      /\ \/ Finishes /\ UNCHANGED th
         \/ \E delayed \in BOOLEAN : GoesToRetry(t, delayed)
  <2>1. CASE Completes(t, g)
    BY <1>1, <2>1 DEF Completes, Only
  <2>2. CASE Fails(t, g) /\ Surfaces /\ UNCHANGED attempts
    BY <1>1, <2>2 DEF Surfaces
  <2>3. ASSUME NEW delayed \in BOOLEAN, attempts' = attempts + 1,
               Surfaces \/ GoesToRetry(t, delayed)
        PROVE  /\ attempts' \in Nat
               /\ (Finishes /\ UNCHANGED th) \/ GoesToRetry(t, delayed)
    BY <1>1, <2>3 DEF Surfaces
  <2>4. Fails(t, g) =>
          \/ Surfaces /\ UNCHANGED attempts
          \/ \E delayed \in BOOLEAN :
                attempts' = attempts + 1 /\ (Surfaces \/ GoesToRetry(t, delayed))
    BY DEF Fails
  <2>. QED BY <2>1, <2>2, <2>3, <2>4
<1>4. CASE Finishes /\ UNCHANGED th
  BY <1>1, <1>2, <1>3, <1>4, FinishesOnce, SourceEnds
<1>5. CASE \E delayed \in BOOLEAN : GoesToRetry(t, delayed)
  <2>1. PICK delayed \in BOOLEAN : GoesToRetry(t, delayed)
    BY <1>5
  <2>2. /\ th' \in [Threads -> ThreadRecord] /\ \A u \in Threads \ {t} : th'[u] = th[u]
        /\ UNCHANGED <<active, ended>>
    BY <1>1, <2>1 DEF GoesToRetry, ThreadRecord
  <2>. QED BY <1>1, <1>2, <1>3, <2>2, SourceEnds DEF GivenUpOnce
<1>. QED BY <1>3, <1>4, <1>5

-----------------------------------------------------------------------------

LEMMA DisposerStep == ASSUME RInv, Disposer PROVE RInv'
<1>1. ASSUME Disposes PROVE RInv'
  <2>1. /\ disposer' = [at |-> "waiting", current |-> live] /\ live' = 0 /\ disposed' = TRUE
        /\ disposer.at = "none"
        /\ UNCHANGED <<source, generation, attempts, active, ended, th>>
    BY <1>1 DEF Disposes
  <2>2. TypesInv' /\ DisposeIsFinal' /\ GivenUpOnce'
    BY <2>1 DEF RInv, TypesInv, DisposeIsFinal, GivenUpOnce
  <2>3. Owned'
    BY <2>1 DEF RInv, Owned, Taken, Subscribing
  <2>. QED BY <2>2, <2>3 DEF RInv
<1>2. ASSUME CancelsTimer PROVE RInv'
  <2>1. /\ disposer' = [disposer EXCEPT !.at = "current"] /\ disposer.at = "waiting"
        /\ UNCHANGED <<source, generation, live, attempts, disposed, active, ended, th>>
    BY <1>2 DEF CancelsTimer
  <2>2. TypesInv' /\ DisposeIsFinal' /\ GivenUpOnce'
    BY <2>1 DEF RInv, TypesInv, DisposeIsFinal, GivenUpOnce
  <2>3. Owned'
    BY <2>1 DEF RInv, TypesInv, Owned, Taken, Subscribing
  <2>. QED BY <2>2, <2>3 DEF RInv
<1>3. ASSUME DisposesCurrent PROVE RInv'
  <2> DEFINE c == disposer.current
  <2>1. /\ disposer' = [disposer EXCEPT !.at = "done"] /\ disposer.at = "current"
        /\ source' = IF c = 0 THEN source ELSE Disposed(c)
        /\ UNCHANGED <<generation, live, attempts, disposed, th>>
    BY <1>3 DEF DisposesCurrent
  <2>2. ended' = TRUE /\ GivenUpOnce'
    BY <1>3, FinishesOnce DEF DisposesCurrent, RInv, TypesInv
  <2>3. /\ source' \in [Attempts -> {"none", "running", "ended", "disposed"}]
        /\ \A h \in Attempts : source'[h] = "running" => h # c /\ source[h] = "running"
    <3>1. CASE c = 0
      BY <2>1, <3>1 DEF RInv, TypesInv, Attempts
    <3>2. CASE c # 0
      BY <2>1, <3>2, StopsRunning DEF RInv, TypesInv, Disposed
    <3>. QED BY <3>1, <3>2
  <2>4. TypesInv' /\ DisposeIsFinal'
    BY <2>1, <2>2, <2>3 DEF RInv, TypesInv, DisposeIsFinal
  <2>5. Owned'
    BY <2>1, <2>3 DEF RInv, Owned, Taken, Subscribing
  <2>. QED BY <2>2, <2>4, <2>5 DEF RInv
<1>. QED BY <1>1, <1>2, <1>3 DEF Disposer

LEMMA InitOK == Init => RInv
<1> SUFFICES ASSUME Init PROVE RInv
  OBVIOUS
<1>1. TypesInv
  BY RunningThread DEF Init, Acquired, TypesInv
<1>2. Owned
  BY DEF Init, Owned
<1>. QED BY <1>1, <1>2 DEF Init, Acquired, RInv, DisposeIsFinal, GivenUpOnce

LEMMA StepOK == RInv /\ [Next]_vars => RInv'
<1> SUFFICES ASSUME RInv, [Next]_vars PROVE RInv'
  OBVIOUS
<1>1. ASSUME NEW t \in Threads, Thread(t) PROVE RInv'
  BY <1>1, LoopSteps, RetrySteps, SubscribesStep, StoresStep, SourceSteps DEF Thread
<1>2. ASSUME UNCHANGED vars PROVE RInv'
  BY <1>2 DEF vars, shared, RInv, TypesInv, Owned, Taken, Subscribing, DisposeIsFinal, GivenUpOnce
<1>. QED BY <1>1, <1>2, DisposerStep DEF Next

(* After dispose() no attempt is subscribed and the reported element has   *)
(* been given up, however many threads were failing, retrying and          *)
(* subscribing while it ran.                                               *)
THEOREM DisposeLeavesNothing == Spec => []NothingAfterDispose
<1>1. RInv => NothingAfterDispose
  <2> SUFFICES ASSUME RInv, Quiet, disposer.at = "done"
               PROVE  active = 0 /\ \A g \in Attempts : source[g] # "running"
    BY DEF NothingAfterDispose
  <2>1. active = 0
    BY DEF RInv, DisposeIsFinal, GivenUpOnce
  <2>2. ASSUME NEW g \in Attempts PROVE source[g] # "running"
    <3>1. live # g
      BY DEF RInv, DisposeIsFinal, Attempts
    <3>2. ~Taken(g) /\ \A t \in Threads : ~Subscribing(t, g)
      BY DEF Quiet, Taken, Subscribing
    <3>. QED BY <3>1, <3>2 DEF RInv, Owned
  <2>. QED BY <2>1, <2>2
<1>. QED BY InitOK, StepOK, <1>1, PTL DEF Spec

-----------------------------------------------------------------------------
(* The retries themselves: how many attempts there can be, and that one    *)
(* always goes on.                                                         *)

(* Threads that have yet to start an attempt.                              *)
Starting(t) == th[t].at \in {"begin", "generation", "retry"} \/ th[t].pending

Starts == {t \in Threads : Starting(t)}

(* A thread inside the subscribe() of an attempt, or of its error.         *)
Within(t) ==
    \/ th[t].at \in {"in", "store"}
    \/ th[t].at \in {"retry", "timer", "check"} /\ th[t].sync

ThreadInv(t) ==
    /\ th[t].at = "idle" => ~th[t].active
    /\ th[t].at \in {"loop", "begin", "generation", "in", "store", "after"} => th[t].active
    /\ th[t].at \in {"retry", "timer", "check"} => th[t].active = th[t].sync
    /\ th[t].pending => th[t].at \in {"loop", "in", "store", "after"}
    /\ th[t].pending /\ th[t].at = "in" => source[th[t].g] # "running"
    /\ th[t].at = "retry" => attempts >= 1
    /\ th[t].at = "retry" /\ th[t].sync => source[th[t].g] # "running"
    /\ th[t].g \in 0..generation /\ th[t].timer \in 0..attempts

(* An attempt has one thread inside its subscribe(), which stores it last. *)
OneEach ==
    \A t \in Threads : Within(t) =>
        /\ th[t].g # live /\ th[t].g # 0
        /\ \A u \in Threads \ {t} : Within(u) => th[u].g # th[t].g

Counts ==
    /\ attempts \in 0..MaxRetries
    /\ syncFailures \in 0..MaxSync + 1 /\ (syncFailures > MaxSync => over)
    /\ timers \subseteq 1..attempts /\ waiting \in 0..attempts /\ live \in 0..generation
    /\ over \in BOOLEAN /\ returned \in BOOLEAN

(* Each failure starts one attempt at most.                                *)
AttemptsBound == generation + Cardinality(Starts) + Cardinality(timers) <= attempts + 1

(* One thing goes on at a time, and nothing once the stream has ended.     *)
Runs == {g \in Attempts : source[g] = "running"}

OneChain ==
    /\ Cardinality(Starts) + Cardinality(timers) + Cardinality(Runs) <= IF over THEN 0 ELSE 1
    /\ \A g \in Runs : g <= generation

(* A stream that has not ended waits for a retry, starts one, or runs.     *)
GoesOn ==
    ~disposed /\ ~over =>
        timers # {} \/ Starts # {} \/ (generation # 0 /\ source[generation] = "running")

EndedKnown == ended => over \/ disposer.at = "done"

NInv ==
    /\ \A t \in Threads : ThreadInv(t)
    /\ OneEach /\ Counts /\ AttemptsBound /\ OneChain /\ GoesOn /\ EndedKnown

LEMMA StartsChange ==
    ASSUME NEW t \in Threads, \A u \in Threads \ {t} : th'[u] = th[u]
    PROVE  /\ Cardinality(Starts) \in Nat /\ Cardinality(Starts') \in Nat
           /\ Starting(t) /\ ~Starting(t)' => Cardinality(Starts') = Cardinality(Starts) - 1
           /\ ~Starting(t) /\ Starting(t)' => Cardinality(Starts') = Cardinality(Starts) + 1
           /\ (Starting(t) <=> Starting(t)') => Starts' = Starts
           /\ Starting(t)' => Starts' # {}
<1>1. IsFiniteSet(Starts) /\ IsFiniteSet(Starts')
  BY FS_Subset DEF Starts
<1>2. Cardinality(Starts) \in Nat /\ Cardinality(Starts') \in Nat
  BY <1>1, FS_CardinalityType
<1>3. \A u \in Threads \ {t} : Starting(u)' <=> Starting(u)
  BY DEF Starting
<1>4. ASSUME Starting(t), ~Starting(t)' PROVE Cardinality(Starts') = Cardinality(Starts) - 1
  <2>1. t \in Starts /\ Starts' = Starts \ {t}
    BY <1>3, <1>4 DEF Starts
  <2>. QED BY <1>1, <2>1, FS_RemoveElement
<1>5. ASSUME ~Starting(t), Starting(t)' PROVE Cardinality(Starts') = Cardinality(Starts) + 1
  <2>1. t \notin Starts /\ Starts' = Starts \union {t}
    BY <1>3, <1>5 DEF Starts
  <2>. QED BY <1>1, <2>1, FS_AddElement
<1>6. (Starting(t) <=> Starting(t)') => Starts' = Starts
  BY <1>3 DEF Starts
<1>. QED BY <1>2, <1>4, <1>5, <1>6 DEF Starts

LEMMA TimersCard ==
    ASSUME Counts
    PROVE  /\ Cardinality(timers) \in Nat
           /\ \A x : Cardinality(timers \ {x}) \in Nat /\ Cardinality(timers \union {x}) \in Nat
           /\ \A x : Cardinality(timers \ {x}) <= Cardinality(timers)
           /\ \A x \in timers : Cardinality(timers \ {x}) = Cardinality(timers) - 1
           /\ \A x : Cardinality(timers \union {x}) <= Cardinality(timers) + 1
<1>1. IsFiniteSet(timers)
  <2>1. IsFiniteSet(1..attempts)
    BY FS_Interval DEF Counts
  <2>. QED BY <2>1, FS_Subset DEF Counts
<1>2. Cardinality(timers) \in Nat
  BY <1>1, FS_CardinalityType
<1>3. ASSUME NEW x
      PROVE  /\ Cardinality(timers \ {x}) \in Nat
             /\ Cardinality(timers \ {x}) <= Cardinality(timers)
             /\ x \in timers => Cardinality(timers \ {x}) = Cardinality(timers) - 1
  <2>1. CASE x \in timers
    <3>1. Cardinality(timers \ {x}) = Cardinality(timers) - 1 /\ IsFiniteSet(timers \ {x})
      BY <1>1, <2>1, FS_RemoveElement
    <3>2. Cardinality(timers \ {x}) \in Nat
      BY <3>1, FS_CardinalityType
    <3>. QED BY <1>2, <3>1, <3>2
  <2>2. CASE x \notin timers
    <3>1. Cardinality(timers \ {x}) = Cardinality(timers)
      BY <1>1, <2>2, FS_RemoveElement
    <3>. QED BY <1>2, <2>2, <3>1
  <2>. QED BY <2>1, <2>2
<1>4. ASSUME NEW x
      PROVE  /\ Cardinality(timers \union {x}) \in Nat
             /\ Cardinality(timers \union {x}) <= Cardinality(timers) + 1
  <2>1. CASE x \in timers
    <3>1. Cardinality(timers \union {x}) = Cardinality(timers)
      BY <1>1, <2>1, FS_AddElement
    <3>. QED BY <1>2, <3>1
  <2>2. CASE x \notin timers
    <3>1. Cardinality(timers \union {x}) = Cardinality(timers) + 1
      BY <1>1, <2>2, FS_AddElement
    <3>. QED BY <1>2, <3>1
  <2>. QED BY <2>1, <2>2
<1>. QED BY <1>2, <1>3, <1>4

LEMMA RunsCard ==
    ASSUME RInv, source' \in [Attempts -> {"none", "running", "ended", "disposed"}],
           \A g \in Attempts : source'[g] = "running" => source[g] = "running"
    PROVE  /\ Cardinality(Runs) \in Nat /\ Cardinality(Runs') \in Nat
           /\ Cardinality(Runs') <= Cardinality(Runs)
           /\ Runs' \subseteq Runs
<1>1. IsFiniteSet(Runs)
  <2>1. IsFiniteSet(Attempts)
    BY FS_Interval DEF Attempts
  <2>. QED BY <2>1, FS_Subset DEF Runs
<1>2. Runs' \subseteq Runs
  BY DEF Runs
<1>. QED BY <1>1, <1>2, FS_Subset, FS_CardinalityType

(* A source that runs is the only one, and ends to leave none.             *)
LEMMA RunsOne ==
    ASSUME RInv, NInv, NEW g \in Attempts, source[g] = "running",
           source' = [source EXCEPT ![g] = "ended"]
    PROVE  /\ ~over /\ Starts = {} /\ timers = {}
           /\ Runs' = {} /\ Cardinality(Runs') = 0
<1>1. IsFiniteSet(Runs) /\ g \in Runs
  <2>1. IsFiniteSet(Attempts)
    BY FS_Interval DEF Attempts
  <2>. QED BY <2>1, FS_Subset DEF Runs
<1>2. /\ IsFiniteSet(Starts) /\ IsFiniteSet(timers)
      /\ Cardinality(Starts) \in Nat /\ Cardinality(timers) \in Nat
  <2>1. IsFiniteSet(Starts)
    BY FS_Subset DEF Starts
  <2>2. IsFiniteSet(1..attempts)
    BY FS_Interval DEF NInv, Counts
  <2>3. IsFiniteSet(timers)
    BY <2>2, FS_Subset DEF NInv, Counts
  <2>. QED BY <2>1, <2>3, FS_CardinalityType
<1>3. Cardinality(Runs \ {g}) = Cardinality(Runs) - 1 /\ IsFiniteSet(Runs \ {g})
  BY <1>1, FS_RemoveElement
<1>4. Cardinality(Runs \ {g}) \in Nat /\ Cardinality(Runs) \in Nat
  BY <1>1, <1>3, FS_CardinalityType
<1>5. /\ ~over /\ Cardinality(Starts) = 0 /\ Cardinality(timers) = 0
      /\ Cardinality(Runs \ {g}) = 0
  BY <1>2, <1>3, <1>4 DEF NInv, OneChain
<1>6. Starts = {} /\ timers = {} /\ Runs \ {g} = {}
  BY <1>2, <1>3, <1>5, FS_EmptySet
<1>7. Runs' = {}
  BY <1>6 DEF Runs, RInv, TypesInv
<1>. QED BY <1>5, <1>6, <1>7, FS_EmptySet

(* The number of an attempt that a thread is inside of is one.             *)
LEMMA WithinAttempts ==
    ASSUME RInv, NInv
    PROVE  /\ generation \in 0..MaxRetries + 1
           /\ \A t \in Threads : Within(t) => th[t].g \in Attempts
<1>1. Cardinality(Starts) \in Nat
  BY FS_Subset, FS_CardinalityType DEF Starts
<1>2. Cardinality(timers) \in Nat
  BY TimersCard DEF NInv
<1>3. generation \in 0..MaxRetries + 1
  BY <1>1, <1>2 DEF RInv, TypesInv, NInv, AttemptsBound, Counts
<1>4. ASSUME NEW t \in Threads, Within(t) PROVE th[t].g \in Attempts
  BY <1>3, <1>4 DEF NInv, OneEach, ThreadInv, Attempts
<1>. QED BY <1>3, <1>4

(* One thread moves, while no source starts.                               *)
LEMMA OneMoves ==
    ASSUME RInv, NInv, NEW t \in Threads, NEW r \in ThreadRecord, th' = [th EXCEPT ![t] = r],
           \A g \in Attempts : source'[g] = "running" => source[g] = "running",
           generation' = generation, attempts' \in Nat, attempts' >= attempts,
           live' = live \/ (Within(t) /\ ~Within(t)' /\ live' = th[t].g),
           Within(t)' => Within(t) /\ r.g = th[t].g,
           ThreadInv(t)'
    PROVE  (\A u \in Threads : ThreadInv(u)') /\ OneEach' /\ \A u \in Threads \ {t} : th'[u] = th[u]
<1>1. /\ \A u \in Threads \ {t} : th'[u] = th[u] /\ (Within(u)' <=> Within(u))
      /\ th'[t] = r /\ generation \in Nat /\ attempts \in Nat
      /\ \A u \in Threads : th[u] \in ThreadRecord
  BY DEF RInv, TypesInv, Within
<1>2. ASSUME NEW u \in Threads \ {t} PROVE ThreadInv(u)'
  <2>1. ThreadInv(u)
    BY DEF NInv
  <2>2. Within(u) /\ source[th[u].g] # "running" => source'[th[u].g] # "running"
    BY WithinAttempts
  <2>. QED BY <1>1, <2>1, <2>2 DEF ThreadInv, Within
<1>3. OneEach'
  <2> SUFFICES ASSUME NEW u \in Threads, Within(u)'
               PROVE  (/\ th[u].g # live /\ th[u].g # 0
                       /\ \A v \in Threads \ {u} : Within(v) => th[v].g # th[u].g)'
    BY DEF OneEach
  <2>1. Within(u) /\ th'[u].g = th[u].g
    BY <1>1
  <2>2. /\ th[u].g # live /\ th[u].g # 0
        /\ \A v \in Threads \ {u} : Within(v) => th[v].g # th[u].g
    BY <2>1 DEF NInv, OneEach
  <2>3. ASSUME NEW v \in Threads \ {u}, Within(v)' PROVE th'[v].g # th'[u].g
    BY <1>1, <2>1, <2>2, <2>3
  <2>4. th'[u].g # live'
    BY <1>1, <2>1, <2>2
  <2>. QED BY <2>1, <2>2, <2>3, <2>4
<1>. QED BY <1>1, <1>2, <1>3

(* A move after which the same threads, or fewer once disposed, start.     *)
LEMMA QuietMove ==
    ASSUME RInv, NInv, NEW t \in Threads, NEW r \in ThreadRecord, th' = [th EXCEPT ![t] = r],
           UNCHANGED <<source, generation, live, attempts, timers, over, disposed, disposer, ended>>,
           Within(t)' => Within(t) /\ r.g = th[t].g,
           ThreadInv(t)', Counts',
           Starting(t)' => Starting(t), ~disposed /\ Starting(t) => Starting(t)'
    PROVE  NInv'
<1>1. /\ \A u \in Threads : ThreadInv(u)'
      /\ OneEach' /\ \A u \in Threads \ {t} : th'[u] = th[u]
  <2>1. attempts' \in Nat /\ attempts' >= attempts
    BY DEF RInv, TypesInv
  <2>2. \A g \in Attempts : source'[g] = "running" => source[g] = "running"
    OBVIOUS
  <2>. QED BY <2>1, <2>2, OneMoves
<1>2. AttemptsBound'
  BY <1>1, StartsChange, TimersCard DEF NInv, AttemptsBound, Counts, RInv, TypesInv
<1>3. GoesOn'
  BY <1>1, StartsChange DEF NInv, GoesOn
<1>4. EndedKnown'
  BY DEF NInv, EndedKnown
<1>5. OneChain'
  <2>1. /\ Cardinality(Starts) \in Nat /\ Cardinality(Starts') \in Nat
        /\ Cardinality(Starts') <= Cardinality(Starts)
    BY <1>1, StartsChange
  <2>2. Cardinality(timers) \in Nat
    BY TimersCard DEF NInv
  <2>3. Runs' = Runs /\ Cardinality(Runs) \in Nat
    BY RunsCard DEF RInv, TypesInv, Runs
  <2>. QED BY <2>1, <2>2, <2>3 DEF NInv, OneChain
<1>. QED BY <1>1, <1>2, <1>3, <1>4, <1>5 DEF NInv

LEMMA LoopKeeps ==
    ASSUME RInv, NInv, NEW t \in Threads,
           Loops(t) \/ Begins(t) \/ SubscribeReturns(t) \/ EndsStreak(t) \/ StoresTimer(t)
    PROVE  NInv'
<1>1. /\ th[t] \in ThreadRecord /\ th \in [Threads -> ThreadRecord] /\ attempts \in Nat
      /\ generation \in Nat /\ ThreadInv(t) /\ Counts
  BY DEF RInv, TypesInv, NInv
<1>2. ASSUME Loops(t) PROVE NInv'
  <2>1. /\ UNCHANGED <<source, generation, live, attempts, timers, over, disposed, disposer, ended>>
        /\ UNCHANGED <<syncFailures, waiting>> /\ th[t].at = "loop"
    BY <1>2 DEF Loops, Only, shared
  <2>2. returned' \in BOOLEAN
    BY <1>1, <1>2 DEF Loops, Counts
  <2>3. Counts'
    BY <1>1, <2>1, <2>2 DEF Counts
  <2>4. CASE th[t].pending /\ ~disposed
    <3>1. /\ Served(t) \in ThreadRecord /\ th' = [th EXCEPT ![t] = Served(t)]
          /\ th'[t] = Served(t)
      BY <1>1, <1>2, <2>4 DEF Loops, Served, ThreadRecord
    <3>2. ThreadInv(t)' /\ ~Within(t)' /\ Starting(t) /\ Starting(t)'
      BY <1>1, <2>1, <2>4, <3>1 DEF ThreadInv, Within, Starting, Served, ThreadRecord
    <3>. QED BY <2>1, <2>3, <3>1, <3>2, QuietMove
  <2>5. CASE ~(th[t].pending /\ ~disposed)
    <3>1. /\ IdleThread \in ThreadRecord /\ th' = [th EXCEPT ![t] = IdleThread]
          /\ th'[t] = IdleThread
      BY <1>1, <1>2, <2>5, RunningThread DEF Loops
    <3>2. ThreadInv(t)' /\ ~Within(t)' /\ ~Starting(t)'
      BY <1>1, <2>1, <3>1 DEF ThreadInv, Within, Starting, IdleThread
    <3>3. ~disposed => ~Starting(t)
      BY <2>1, <2>5 DEF Starting
    <3>. QED BY <2>1, <2>3, <3>1, <3>2, <3>3, QuietMove
  <2>. QED BY <2>4, <2>5
<1>3. ASSUME Begins(t) \/ SubscribeReturns(t) \/ EndsStreak(t) PROVE NInv'
  <2>1. UNCHANGED <<source, generation, live, attempts, timers, over, disposed, disposer, ended,
                    waiting, returned>>
    BY <1>3 DEF Begins, SubscribeReturns, EndsStreak, Only, shared
  <2>2. Counts'
    <3>1. syncFailures' \in {syncFailures, 0}
      BY <1>3 DEF Begins, SubscribeReturns, EndsStreak, shared, Only
    <3>. QED BY <1>1, <2>1, <3>1 DEF Counts
  <2>3. PICK at \in {"after", "generation", "store", "loop"} :
          /\ Goes(t, at)
          /\ \/ th[t].at = "begin" /\ at \in {"after", "generation"} /\ (at = "after" => disposed)
             \/ th[t].at = "in" /\ at = "store"
             \/ th[t].at = "after" /\ at = "loop"
    BY <1>3 DEF Begins, SubscribeReturns, EndsStreak
  <2> DEFINE r == [th[t] EXCEPT !.at = at]
  <2>4. /\ r \in ThreadRecord /\ r.at = at /\ r.g = th[t].g /\ r.active = th[t].active
        /\ r.pending = th[t].pending /\ r.sync = th[t].sync /\ r.timer = th[t].timer
    BY <1>1 DEF ThreadRecord
  <2>5. th' = [th EXCEPT ![t] = r] /\ th'[t] = r
    BY <1>1, <2>3 DEF Goes
  <2>. HIDE DEF r
  <2>6. ThreadInv(t)'
    BY <1>1, <2>1, <2>3, <2>4, <2>5 DEF ThreadInv
  <2>7. /\ Within(t)' => Within(t)
        /\ Starting(t)' => Starting(t)
        /\ ~disposed /\ Starting(t) => Starting(t)'
    BY <2>3, <2>4, <2>5 DEF Within, Starting
  <2>. QED BY <2>1, <2>2, <2>4, <2>5, <2>6, <2>7, QuietMove
<1>4. ASSUME StoresTimer(t) PROVE NInv'
  <2> DEFINE r == [th[t] EXCEPT !.at = "check"]
  <2>1. /\ UNCHANGED <<source, generation, live, attempts, timers, over, disposed, disposer, ended,
                       syncFailures, returned>>
        /\ waiting' = th[t].timer /\ th[t].at = "timer"
    BY <1>4 DEF StoresTimer, Only
  <2>2. Counts'
    BY <1>1, <2>1 DEF Counts, ThreadInv
  <2>3. /\ r \in ThreadRecord /\ r.at = "check" /\ r.g = th[t].g /\ r.active = th[t].active
        /\ r.pending = th[t].pending /\ r.sync = th[t].sync /\ r.timer = th[t].timer
    BY <1>1 DEF ThreadRecord
  <2>4. th' = [th EXCEPT ![t] = r] /\ th'[t] = r
    BY <1>1, <1>4 DEF StoresTimer, Goes
  <2>. HIDE DEF r
  <2>5. /\ ThreadInv(t)' /\ (Within(t)' => Within(t))
        /\ (Starting(t)' <=> Starting(t))
    BY <1>1, <2>1, <2>3, <2>4 DEF ThreadInv, Within, Starting
  <2>. QED BY <2>1, <2>2, <2>3, <2>4, <2>5, QuietMove
<1>. QED BY <1>2, <1>3, <1>4

(* Back in subscribe(), or idle.                                           *)
LEMMA BackProps ==
    ASSUME RInv, NInv, NEW t \in Threads, th[t].at \in {"retry", "timer", "check"}
    PROVE  /\ Back(t) \in ThreadRecord /\ Back(t).at \in {"in", "idle"}
           /\ Back(t).at = "in" => Within(t) /\ Back(t).g = th[t].g
           /\ Back(t).active <=> Back(t).at = "in"
           /\ ~Back(t).pending /\ Back(t).g \in 0..generation /\ Back(t).timer \in 0..attempts
BY DEF Back, IdleThread, Within, ThreadRecord, ThreadInv, RInv, TypesInv, NInv

LEMMA RetriesKeep ==
    ASSUME RInv, NInv, NEW t \in Threads, Retries(t)
    PROVE  NInv'
<1>1. /\ th[t] \in ThreadRecord /\ th \in [Threads -> ThreadRecord] /\ attempts \in Nat
      /\ generation \in Nat /\ ThreadInv(t) /\ Counts
  BY DEF RInv, TypesInv, NInv
<1>2. /\ UNCHANGED <<source, generation, live, attempts, over, disposed, disposer, ended>>
      /\ UNCHANGED <<syncFailures, waiting, returned>> /\ th[t].at = "retry"
  BY DEF Retries, Only
<1>3. CASE disposed /\ th' = [th EXCEPT ![t] = Back(t)] /\ UNCHANGED timers
  <2>1. /\ Counts' /\ th'[t] = Back(t)
    BY <1>1, <1>2, <1>3 DEF Counts
  <2>2. /\ ThreadInv(t)' /\ (Within(t)' => Within(t) /\ Back(t).g = th[t].g)
        /\ ~Starting(t)'
    BY <1>1, <1>2, <2>1, BackProps DEF ThreadInv, Within, Starting
  <2>. QED BY <1>2, <1>3, <2>1, <2>2, BackProps, QuietMove
<1>4. CASE /\ th[t].active /\ UNCHANGED timers
           /\ th' = [th EXCEPT ![t] = [Back(t) EXCEPT !.pending = TRUE]]
  <2> DEFINE r == [Back(t) EXCEPT !.pending = TRUE]
  <2>1. /\ r \in ThreadRecord /\ r.at = "in" /\ r.g = th[t].g /\ r.active /\ r.pending
        /\ r.timer \in 0..attempts /\ Within(t) /\ source[r.g] # "running"
    BY <1>1, <1>2, <1>4 DEF Back, ThreadInv, ThreadRecord, Within
  <2>2. /\ Counts' /\ th' = [th EXCEPT ![t] = r] /\ th'[t] = r
    BY <1>1, <1>2, <1>4 DEF Counts
  <2>. HIDE DEF r
  <2>3. ThreadInv(t)' /\ Starting(t) /\ Starting(t)'
    BY <1>1, <1>2, <2>1, <2>2 DEF ThreadInv, Starting
  <2>. QED BY <1>2, <1>4, <2>1, <2>2, <2>3, QuietMove
<1>5. CASE th' = [th EXCEPT ![t] = Running] /\ UNCHANGED timers
  <2>1. Counts' /\ th'[t] = Running /\ Running \in ThreadRecord
    BY <1>1, <1>2, <1>5, RunningThread DEF Counts
  <2>2. ThreadInv(t)' /\ ~Within(t)' /\ Starting(t) /\ Starting(t)'
    BY <1>1, <1>2, <2>1 DEF ThreadInv, Within, Starting, Running, IdleThread
  <2>. QED BY <1>2, <1>5, <2>1, <2>2, QuietMove
<1>6. CASE /\ timers' = timers \union {attempts}
           /\ th' = [th EXCEPT ![t].at = "timer", ![t].timer = attempts]
  <2> DEFINE r == [th[t] EXCEPT !.at = "timer", !.timer = attempts]
  <2>1. /\ r \in ThreadRecord /\ r.at = "timer" /\ r.g = th[t].g /\ r.active = th[t].active
        /\ r.pending = th[t].pending /\ r.sync = th[t].sync /\ r.timer = attempts
    BY <1>1 DEF ThreadRecord
  <2>2. th' = [th EXCEPT ![t] = r] /\ th'[t] = r
    BY <1>1, <1>6
  <2>. HIDE DEF r
  <2>3. /\ ThreadInv(t)' /\ (Within(t)' => Within(t)) /\ Starting(t) /\ ~Starting(t)'
    BY <1>1, <1>2, <2>1, <2>2 DEF ThreadInv, Within, Starting
  <2>4. /\ \A u \in Threads : ThreadInv(u)'
        /\ OneEach' /\ \A u \in Threads \ {t} : th'[u] = th[u]
    <3>1. attempts' \in Nat /\ attempts' >= attempts
      BY <1>1, <1>2
    <3>2. \A g \in Attempts : source'[g] = "running" => source[g] = "running"
      BY <1>2
    <3>. QED BY <1>2, <2>1, <2>2, <2>3, <3>1, <3>2, OneMoves
  <2>5. Counts'
    <3>1. attempts \in 1..attempts
      BY <1>1, <1>2 DEF ThreadInv
    <3>. QED BY <1>1, <1>2, <1>6, <3>1 DEF Counts
  <2>6. AttemptsBound' /\ OneChain'
    <3>1. /\ Cardinality(Starts') = Cardinality(Starts) - 1 /\ Cardinality(Starts) \in Nat
      BY <2>3, <2>4, StartsChange
    <3>2. Cardinality(timers') <= Cardinality(timers) + 1 /\ Cardinality(timers) \in Nat
          /\ Cardinality(timers') \in Nat
      BY <1>1, <1>6, TimersCard
    <3>3. Runs' = Runs /\ Cardinality(Runs) \in Nat
      BY <1>2, RunsCard DEF RInv, TypesInv, Runs
    <3>. QED BY <1>1, <1>2, <3>1, <3>2, <3>3 DEF AttemptsBound, OneChain, NInv
  <2>7. GoesOn' /\ EndedKnown'
    BY <1>2, <1>6 DEF GoesOn, EndedKnown, NInv
  <2>. QED BY <2>4, <2>5, <2>6, <2>7 DEF NInv
<1>. QED BY <1>3, <1>4, <1>5, <1>6 DEF Retries

LEMMA TimersKeep ==
    ASSUME RInv, NInv, NEW t \in Threads, ChecksTimer(t) \/ TimerFires(t)
    PROVE  NInv'
<1>1. /\ th[t] \in ThreadRecord /\ th \in [Threads -> ThreadRecord] /\ attempts \in Nat
      /\ generation \in Nat /\ ThreadInv(t) /\ Counts
  BY DEF RInv, TypesInv, NInv
<1>2. /\ UNCHANGED <<source, generation, live, attempts, over, disposed, disposer, ended>>
      /\ UNCHANGED <<syncFailures, waiting, returned>>
      /\ attempts' >= attempts /\ attempts' \in Nat
  BY <1>1 DEF ChecksTimer, TimerFires, Only
<1>3. \A g \in Attempts : source'[g] = "running" => source[g] = "running"
  BY <1>2
<1>4. ASSUME ChecksTimer(t) PROVE NInv'
  <2>1. /\ th[t].at = "check" /\ th' = [th EXCEPT ![t] = Back(t)] /\ th'[t] = Back(t)
        /\ timers' = IF disposed THEN timers \ {waiting} ELSE timers
    BY <1>1, <1>4 DEF ChecksTimer
  <2>2. /\ ThreadInv(t)' /\ (Within(t)' => Within(t) /\ Back(t).g = th[t].g)
        /\ ~Starting(t) /\ ~Starting(t)' /\ Back(t) \in ThreadRecord
    BY <1>1, <1>2, <2>1, BackProps DEF ThreadInv, Within, Starting
  <2>3. /\ \A u \in Threads : ThreadInv(u)'
        /\ OneEach' /\ \A u \in Threads \ {t} : th'[u] = th[u]
    BY <1>2, <1>3, <2>1, <2>2, OneMoves
  <2>4. Counts' /\ Starts' = Starts
    BY <1>1, <1>2, <2>1, <2>2, <2>3, StartsChange DEF Counts
  <2>5. AttemptsBound' /\ OneChain'
    <3>1. /\ Cardinality(timers') <= Cardinality(timers) /\ Cardinality(timers) \in Nat
          /\ Cardinality(timers') \in Nat
      <4>1. CASE disposed
        BY <1>1, <2>1, <4>1, TimersCard
      <4>2. CASE ~disposed
        BY <1>1, <2>1, <4>2, TimersCard
      <4>. QED BY <4>1, <4>2
    <3>2. Cardinality(Starts) \in Nat
      BY <2>3, StartsChange
    <3>3. Runs' = Runs /\ Cardinality(Runs) \in Nat
      BY <1>2, RunsCard DEF RInv, TypesInv, Runs
    <3>. QED BY <1>1, <1>2, <2>4, <3>1, <3>2, <3>3 DEF AttemptsBound, OneChain, NInv
  <2>6. GoesOn' /\ EndedKnown'
    BY <1>2, <2>1, <2>4 DEF GoesOn, EndedKnown, NInv
  <2>. QED BY <2>3, <2>4, <2>5, <2>6 DEF NInv
<1>5. ASSUME TimerFires(t) PROVE NInv'
  <2>1. PICK x \in timers : timers' = timers \ {x}
    BY <1>5 DEF TimerFires
  <2>2. /\ th[t].at = "idle" /\ th' = [th EXCEPT ![t] = Running] /\ th'[t] = Running
        /\ Running \in ThreadRecord
    BY <1>1, <1>5, RunningThread DEF TimerFires
  <2>3. /\ ThreadInv(t)' /\ ~Within(t)' /\ ~Starting(t) /\ Starting(t)'
    BY <1>1, <1>2, <2>2 DEF ThreadInv, Within, Starting, Running, IdleThread
  <2>4. /\ \A u \in Threads : ThreadInv(u)'
        /\ OneEach' /\ \A u \in Threads \ {t} : th'[u] = th[u]
    BY <1>2, <1>3, <2>2, <2>3, OneMoves
  <2>5. /\ Starts' # {} /\ Cardinality(Starts') = Cardinality(Starts) + 1
        /\ Cardinality(Starts) \in Nat
    BY <2>3, <2>4, StartsChange
  <2>6. Cardinality(timers') = Cardinality(timers) - 1 /\ Cardinality(timers) \in Nat
    BY <1>1, <2>1, TimersCard
  <2>7. AttemptsBound' /\ OneChain' /\ Counts'
    <3>1. Runs' = Runs /\ Cardinality(Runs) \in Nat
      BY <1>2, RunsCard DEF RInv, TypesInv, Runs
    <3>. QED BY <1>1, <1>2, <2>1, <2>5, <2>6, <3>1 DEF AttemptsBound, OneChain, Counts, NInv
  <2>8. GoesOn' /\ EndedKnown'
    BY <1>2, <2>5 DEF GoesOn, EndedKnown, NInv
  <2>. QED BY <2>4, <2>7, <2>8 DEF NInv
<1>. QED BY <1>4, <1>5

(* A new attempt is one the retries allow, and nobody else's.              *)
LEMMA SubscribesKeep ==
    ASSUME RInv, NInv, NEW t \in Threads, Subscribes(t)
    PROVE  NInv'
<1> DEFINE n == generation + 1
           r == [th[t] EXCEPT !.at = "in", !.g = n]
<1>1. /\ th[t] \in ThreadRecord /\ th \in [Threads -> ThreadRecord] /\ attempts \in Nat
      /\ generation \in Nat /\ ThreadInv(t) /\ Counts
  BY DEF RInv, TypesInv, NInv
<1>2. /\ th[t].at = "generation" /\ generation' = n /\ n \in Nat
      /\ source' = [source EXCEPT ![n] = "running"] /\ th' = [th EXCEPT ![t] = r]
      /\ UNCHANGED <<live, attempts, timers, over, disposed, disposer, ended>>
      /\ UNCHANGED <<syncFailures, waiting, returned>>
  <2>1. /\ th[t].at = "generation" /\ generation' = n
        /\ source' = [source EXCEPT ![n] = "running"]
        /\ UNCHANGED <<live, attempts, timers, over, disposed, disposer, ended>>
        /\ UNCHANGED <<syncFailures, waiting, returned>>
    BY DEF Subscribes, Only
  <2>2. th' = [th EXCEPT ![t].at = "in", ![t].g = n]
    BY <2>1 DEF Subscribes
  <2>3. th' = [th EXCEPT ![t] = r]
    BY <1>1, <2>2
  <2>4. n \in Nat
    BY <1>1
  <2>. HIDE DEF r, n
  <2>. QED BY <2>1, <2>3, <2>4
<1>3. /\ r \in ThreadRecord /\ r.at = "in" /\ r.g = n /\ r.active = th[t].active
      /\ r.pending = th[t].pending /\ r.timer = th[t].timer /\ th'[t] = r
      /\ \A u \in Threads \ {t} : th'[u] = th[u]
  BY <1>1, <1>2 DEF ThreadRecord
<1>4. n = generation + 1
  OBVIOUS
<1>. HIDE DEF r, n
<1>5. ThreadInv(t)' /\ Starting(t) /\ ~Starting(t)'
  BY <1>1, <1>2, <1>3, <1>4 DEF ThreadInv, Starting
<1>6. /\ Cardinality(Starts') = Cardinality(Starts) - 1
      /\ Cardinality(Starts) \in Nat /\ Cardinality(Starts') \in Nat
  BY <1>3, <1>5, StartsChange
<1>7. AttemptsBound' /\ n <= attempts + 1
  <2>1. Cardinality(timers) \in Nat
    BY <1>1, TimersCard
  <2>. QED BY <1>1, <1>2, <1>4, <1>6, <2>1 DEF NInv, AttemptsBound
<1>8. source'[n] = "running"
  <2>1. n \in Attempts
    BY <1>1, <1>2, <1>4, <1>7 DEF Attempts, Counts
  <2>. QED BY <1>2, <2>1 DEF RInv, TypesInv
<1>9. ASSUME NEW u \in Threads \ {t} PROVE ThreadInv(u)'
  <2>1. ThreadInv(u) /\ th[u].g # n
    BY <1>1, <1>4 DEF NInv, ThreadInv
  <2>2. Within(u) => source'[th[u].g] = source[th[u].g]
    BY <1>2, <2>1, WithinAttempts DEF RInv, TypesInv
  <2>. QED BY <1>1, <1>2, <1>3, <1>4, <2>1, <2>2 DEF ThreadInv, Within
<1>10. OneEach'
  <2>1. \A u \in Threads \ {t} : (Within(u)' <=> Within(u)) /\ th'[u].g = th[u].g /\ th[u].g # n
    BY <1>1, <1>3, <1>4 DEF Within, NInv, ThreadInv
  <2>2. live # n /\ n # 0
    BY <1>1, <1>4 DEF Counts
  <2>. QED BY <1>2, <1>3, <2>1, <2>2 DEF NInv, OneEach
<1>11. Counts'
  BY <1>1, <1>2, <1>4 DEF Counts
<1>12. GoesOn' /\ EndedKnown'
  BY <1>2, <1>4, <1>1, <1>8 DEF GoesOn, EndedKnown, NInv
<1>13. OneChain'
  <2>1. IsFiniteSet(Runs) /\ n \notin Runs /\ Runs' = Runs \union {n}
    <3>1. IsFiniteSet(Attempts)
      BY FS_Interval DEF Attempts
    <3>2. n \in Attempts
      BY <1>1, <1>2, <1>4, <1>7 DEF Attempts, Counts
    <3>3. n \notin Runs
      BY <1>1, <1>4 DEF NInv, OneChain, Runs
    <3>4. Runs' = Runs \union {n}
      BY <1>2, <3>2 DEF Runs, RInv, TypesInv
    <3>. QED BY <3>1, <3>3, <3>4, FS_Subset DEF Runs
  <2>2. Cardinality(Runs') = Cardinality(Runs) + 1 /\ Cardinality(Runs) \in Nat
    BY <2>1, FS_AddElement, FS_CardinalityType
  <2>3. \A g \in Runs' : g <= generation'
    BY <1>1, <1>2, <1>4, <2>1 DEF NInv, OneChain, Runs, Attempts
  <2>4. Cardinality(timers) \in Nat
    BY <1>1, TimersCard
  <2>. QED BY <1>2, <1>6, <2>2, <2>3, <2>4 DEF NInv, OneChain
<1>. QED BY <1>5, <1>7, <1>9, <1>10, <1>11, <1>12, <1>13 DEF NInv

(* The newest attempt is never disposed of before dispose().               *)
LEMMA StoresKeep ==
    ASSUME RInv, NInv, NEW t \in Threads, Stores(t)
    PROVE  NInv'
<1> DEFINE g == th[t].g
           r == [th[t] EXCEPT !.at = "after"]
<1>1. /\ th[t] \in ThreadRecord /\ th \in [Threads -> ThreadRecord] /\ attempts \in Nat
      /\ generation \in Nat /\ ThreadInv(t) /\ Counts
      /\ source \in [Attempts -> {"none", "running", "ended", "disposed"}]
  BY DEF RInv, TypesInv, NInv
<1>2. /\ th[t].at = "store" /\ th' = [th EXCEPT ![t] = r]
      /\ UNCHANGED <<generation, attempts, timers, over, disposed, disposer, ended>>
      /\ UNCHANGED <<syncFailures, waiting, returned>>
      /\ attempts' >= attempts /\ attempts' \in Nat
  BY <1>1 DEF Stores, Goes, Only
<1>3. /\ r \in ThreadRecord /\ r.at = "after" /\ r.g = g /\ r.active = th[t].active
      /\ r.pending = th[t].pending /\ r.timer = th[t].timer /\ th'[t] = r
  BY <1>1, <1>2 DEF ThreadRecord
<1>. HIDE DEF r
<1>4. /\ ThreadInv(t)' /\ Within(t) /\ ~Within(t)' /\ (Starting(t)' <=> Starting(t))
      /\ g # live /\ g \in Attempts /\ g \in 0..generation
  BY <1>1, <1>2, <1>3, WithinAttempts DEF ThreadInv, Within, Starting, NInv, OneEach
<1>5. \/ Stale(g) /\ source' = Disposed(g) /\ UNCHANGED live
      \/ ~Stale(g) /\ live' = g /\ source' = IF live = 0 THEN source ELSE Disposed(live)
  BY DEF Stores
<1>6. /\ \A h \in Attempts : source'[h] = "running" => source[h] = "running"
      /\ ~disposed => source'[generation] = source[generation]
  <2>1. CASE Stale(g) /\ source' = Disposed(g)
    BY <1>1, <1>4, <2>1 DEF Stale, Disposed
  <2>2. CASE ~Stale(g) /\ source' = IF live = 0 THEN source ELSE Disposed(live)
    BY <1>1, <1>4, <2>2 DEF Stale, Disposed
  <2>. QED BY <1>5, <2>1, <2>2
<1>7. live' = live \/ live' = g
  BY <1>5
<1>8. /\ \A u \in Threads : ThreadInv(u)'
      /\ OneEach' /\ \A u \in Threads \ {t} : th'[u] = th[u]
  BY <1>2, <1>3, <1>4, <1>6, <1>7, OneMoves
<1>9. Starts' = Starts
  BY <1>4, <1>8, StartsChange
<1>10. Counts' /\ AttemptsBound' /\ EndedKnown'
  BY <1>1, <1>2, <1>4, <1>7, <1>9 DEF Counts, AttemptsBound, EndedKnown, NInv
<1>11. GoesOn'
  BY <1>2, <1>6, <1>9 DEF GoesOn, NInv
<1>12. OneChain'
  <2>1. source' \in [Attempts -> {"none", "running", "ended", "disposed"}]
    BY StoresStep DEF RInv, TypesInv
  <2>2. /\ Cardinality(Runs) \in Nat /\ Cardinality(Runs') \in Nat
        /\ Cardinality(Runs') <= Cardinality(Runs) /\ Runs' \subseteq Runs
    BY <1>6, <2>1, RunsCard
  <2>3. Cardinality(Starts) \in Nat /\ Cardinality(timers) \in Nat
    BY <1>1, <1>8, StartsChange, TimersCard
  <2>. QED BY <1>2, <1>9, <2>2, <2>3 DEF NInv, OneChain
<1>. QED BY <1>8, <1>10, <1>11, <1>12 DEF NInv

(* The source of g completes, or fails without another attempt.            *)
LEMMA SourceOver ==
    ASSUME RInv, NInv, NEW t \in Threads, NEW g \in Attempts, Emits(t, g),
           source' = [source EXCEPT ![g] = "ended"], UNCHANGED th, over' = TRUE,
           attempts' \in attempts..MaxRetries, syncFailures' \in 0..MaxSync + 1,
           UNCHANGED <<generation, live, timers, waiting, returned, disposed, disposer>>
    PROVE  NInv'
<1>1. /\ th[t] \in ThreadRecord /\ th \in [Threads -> ThreadRecord] /\ attempts \in Nat
      /\ generation \in Nat /\ ThreadInv(t) /\ Counts
      /\ source \in [Attempts -> {"none", "running", "ended", "disposed"}]
  BY DEF RInv, TypesInv, NInv
<1>2. /\ \A h \in Attempts : source'[h] = "running" => source[h] = "running"
      /\ attempts' \in Nat /\ attempts' >= attempts /\ th' = [th EXCEPT ![t] = th[t]]
  BY <1>1 DEF Counts
<1>3. ThreadInv(t)' /\ (Within(t)' <=> Within(t)) /\ (Starting(t)' <=> Starting(t))
  <2>1. Within(t) /\ source[th[t].g] # "running" => source'[th[t].g] # "running"
    BY <1>2, WithinAttempts
  <2>. QED BY <1>1, <1>2, <2>1 DEF ThreadInv, Within, Starting
<1>4. /\ \A u \in Threads : ThreadInv(u)'
      /\ OneEach' /\ \A u \in Threads \ {t} : th'[u] = th[u]
  BY <1>1, <1>2, <1>3, OneMoves
<1>5. Starts' = Starts /\ Cardinality(Starts) \in Nat /\ Cardinality(timers) \in Nat
  BY <1>1, <1>3, <1>4, StartsChange, TimersCard
<1>6. Counts'
  BY <1>1, <1>2 DEF Counts
<1>7. AttemptsBound'
  BY <1>1, <1>2, <1>5 DEF AttemptsBound, NInv
<1>8. OneChain'
  <2>1. Starts' = {} /\ timers' = {} /\ Runs' = {}
    BY <1>5, RunsOne DEF Emits
  <2>. QED BY <2>1, FS_EmptySet DEF OneChain
<1>. QED BY <1>4, <1>6, <1>7, <1>8 DEF NInv, GoesOn, EndedKnown

(* The source of g fails, and its thread is to start another attempt.      *)
LEMMA SourceRetried ==
    ASSUME RInv, NInv, NEW t \in Threads, NEW g \in Attempts, Emits(t, g),
           source' = [source EXCEPT ![g] = "ended"],
           NEW delayed \in BOOLEAN, GoesToRetry(t, delayed),
           attempts < MaxRetries, attempts' = attempts + 1, syncFailures' \in 0..MaxSync,
           UNCHANGED <<generation, live, timers, waiting, returned, disposed, disposer>>
    PROVE  NInv'
<1> DEFINE r == [th[t] EXCEPT !.at = "retry", !.delayed = delayed, !.sync = (th[t].at = "in")]
<1>1. /\ th[t] \in ThreadRecord /\ th \in [Threads -> ThreadRecord] /\ attempts \in Nat
      /\ generation \in Nat /\ ThreadInv(t) /\ Counts
      /\ source \in [Attempts -> {"none", "running", "ended", "disposed"}]
  BY DEF RInv, TypesInv, NInv
<1>2. /\ \A h \in Attempts : source'[h] = "running" => source[h] = "running"
      /\ source'[g] = "ended" /\ source[g] = "running"
      /\ attempts' \in Nat /\ attempts' >= attempts /\ attempts' >= 1
  BY <1>1 DEF Emits
<1>3. /\ r \in ThreadRecord /\ r.at = "retry" /\ r.g = th[t].g /\ r.active = th[t].active
      /\ r.pending = th[t].pending /\ r.timer = th[t].timer /\ (r.sync <=> th[t].at = "in")
  BY <1>1 DEF ThreadRecord
<1>4. th' = [th EXCEPT ![t] = r] /\ th'[t] = r /\ UNCHANGED <<over, active, ended>>
  BY <1>1 DEF GoesToRetry
<1>. HIDE DEF r
<1>5. /\ ThreadInv(t)' /\ (Within(t)' => Within(t)) /\ ~Starting(t) /\ Starting(t)'
  <2>1. th[t].at \in {"idle", "in"} /\ ~th[t].pending /\ (th[t].at = "in" => th[t].g = g)
    BY <1>1, <1>2 DEF Emits, ThreadInv
  <2>2. r.active = r.sync
    BY <1>1, <1>3, <2>1 DEF ThreadInv, ThreadRecord
  <2>. QED BY <1>1, <1>2, <1>3, <1>4, <2>1, <2>2 DEF ThreadInv, Within, Starting
<1>6. /\ \A u \in Threads : ThreadInv(u)'
      /\ OneEach' /\ \A u \in Threads \ {t} : th'[u] = th[u]
  BY <1>2, <1>3, <1>4, <1>5, OneMoves
<1>7. /\ Cardinality(Starts') = Cardinality(Starts) + 1 /\ Starts' # {}
      /\ Cardinality(Starts) \in Nat /\ Cardinality(timers) \in Nat
  BY <1>1, <1>5, <1>6, StartsChange, TimersCard
<1>8. Counts'
  BY <1>1, <1>2, <1>4 DEF Counts
<1>9. AttemptsBound'
  BY <1>1, <1>2, <1>7 DEF AttemptsBound, NInv
<1>10. OneChain'
  <2>1. Cardinality(Starts) = 0 /\ timers' = {} /\ Runs' = {} /\ ~over'
    BY <1>2, <1>4, RunsOne, FS_EmptySet
  <2>. QED BY <1>7, <2>1, FS_EmptySet DEF OneChain
<1>. QED BY <1>4, <1>6, <1>7, <1>8, <1>9, <1>10 DEF NInv, GoesOn, EndedKnown

LEMMA SourceKeeps ==
    ASSUME RInv, NInv, NEW t \in Threads, NEW g \in Attempts, Completes(t, g) \/ Fails(t, g)
    PROVE  NInv'
<1>0. /\ attempts \in 0..MaxRetries /\ syncFailures \in 0..MaxSync + 1
      /\ syncFailures > MaxSync => over
  BY DEF NInv, Counts
<1>2. /\ Emits(t, g) /\ source' = [source EXCEPT ![g] = "ended"]
      /\ UNCHANGED <<generation, live, timers, waiting, returned, disposed, disposer>>
  BY DEF Completes, Fails, Only
<1>1. attempts \in 0..MaxRetries /\ syncFailures \in 0..MaxSync
  <2>1. ~over
    BY <1>2, RunsOne DEF Emits
  <2>. QED BY <1>0, <2>1
<1>3. CASE Completes(t, g) \/ (Fails(t, g) /\ Surfaces /\ UNCHANGED <<attempts, syncFailures>>)
  <2>1. UNCHANGED th /\ over' = TRUE /\ UNCHANGED <<attempts, syncFailures>>
    BY <1>3 DEF Completes, Surfaces, Only
  <2>2. attempts' \in attempts..MaxRetries /\ syncFailures' \in 0..MaxSync + 1
    BY <1>1, <2>1
  <2>. QED BY <1>2, <2>1, <2>2, SourceOver
<1>4. ASSUME NEW delayed \in BOOLEAN, attempts < MaxRetries,
             syncFailures' = Counted(t, delayed),
             IF Counted(t, delayed) > MaxSync
             THEN attempts' = attempts /\ Surfaces
             ELSE attempts' = attempts + 1 /\ (Surfaces \/ GoesToRetry(t, delayed))
      PROVE  NInv'
  <2>1. syncFailures' \in 0..MaxSync + 1
    BY <1>1, <1>4 DEF Counted
  <2>2. attempts' \in attempts..MaxRetries
    BY <1>1, <1>4
  <2>3. CASE Surfaces
    BY <1>2, <2>1, <2>2, <2>3, SourceOver DEF Surfaces
  <2>4. CASE GoesToRetry(t, delayed) /\ attempts' = attempts + 1
    <3>1. syncFailures' \in 0..MaxSync
      BY <1>1, <1>4, <2>1, <2>4
    <3>. QED BY <1>2, <1>4, <2>4, <3>1, SourceRetried
  <2>. QED BY <1>4, <2>3, <2>4
<1>. QED BY <1>3, <1>4 DEF Fails

LEMMA DisposerKeeps == ASSUME RInv, NInv, RInv', Disposer PROVE NInv'
<1>1. /\ th \in [Threads -> ThreadRecord] /\ attempts \in Nat /\ generation \in Nat /\ Counts
      /\ source \in [Attempts -> {"none", "running", "ended", "disposed"}]
      /\ source' \in [Attempts -> {"none", "running", "ended", "disposed"}]
  BY DEF RInv, TypesInv, NInv
<1>2. /\ UNCHANGED <<th, generation, attempts, over>> /\ UNCHANGED <<syncFailures, waiting, returned>>
      /\ disposed' = TRUE /\ live' \in {live, 0}
      /\ timers' = timers \/ timers' = timers \ {waiting}
      /\ \A g \in Attempts : source'[g] = "running" => source[g] = "running"
  <2>1. CASE Disposes
    BY <2>1 DEF Disposes
  <2>2. CASE CancelsTimer
    BY <2>2 DEF CancelsTimer, RInv, DisposeIsFinal, TypesInv
  <2>3. CASE DisposesCurrent
    <3>1. \A g \in Attempts : source'[g] = "running" => source[g] = "running"
      BY <1>1, <2>3 DEF DisposesCurrent, Disposed
    <3>. QED BY <2>3, <3>1 DEF DisposesCurrent, RInv, DisposeIsFinal, TypesInv
  <2>. QED BY <2>1, <2>2, <2>3 DEF Disposer
<1>3. ASSUME NEW t \in Threads PROVE ThreadInv(t)'
  <2>1. Within(t) /\ source[th[t].g] # "running" => source'[th[t].g] # "running"
    BY <1>2, WithinAttempts
  <2>. QED BY <1>2, <2>1 DEF NInv, ThreadInv, Within
<1>4. OneEach'
  BY <1>2 DEF NInv, OneEach, Within
<1>5. Counts'
  <2>1. timers' \subseteq timers /\ live' \in 0..generation
    BY <1>1, <1>2 DEF Counts
  <2>. QED BY <1>1, <1>2, <2>1 DEF Counts
<1>6. Starts' = Starts /\ Cardinality(Starts) \in Nat
  BY <1>2, FS_Subset, FS_CardinalityType DEF Starts, Starting
<1>7. /\ Cardinality(timers') \in Nat /\ Cardinality(timers) \in Nat
      /\ Cardinality(timers') <= Cardinality(timers)
  <2>1. CASE timers' = timers
    BY <1>1, <2>1, TimersCard
  <2>2. CASE timers' = timers \ {waiting}
    BY <1>1, <2>2, TimersCard
  <2>. QED BY <1>2, <2>1, <2>2
<1>8. AttemptsBound'
  BY <1>1, <1>2, <1>6, <1>7 DEF AttemptsBound, NInv
<1>9. OneChain'
  <2>1. /\ Cardinality(Runs) \in Nat /\ Cardinality(Runs') \in Nat
        /\ Cardinality(Runs') <= Cardinality(Runs) /\ Runs' \subseteq Runs
    BY <1>1, <1>2, RunsCard
  <2>. QED BY <1>2, <1>6, <1>7, <2>1 DEF OneChain, NInv
<1>10. EndedKnown'
  <2>1. CASE DisposesCurrent
    BY <2>1 DEF DisposesCurrent, EndedKnown, RInv, TypesInv
  <2>2. CASE Disposes \/ CancelsTimer
    BY <2>2 DEF Disposes, CancelsTimer, EndedKnown, NInv
  <2>. QED BY <2>1, <2>2 DEF Disposer
<1>. QED BY <1>2, <1>3, <1>4, <1>5, <1>8, <1>9, <1>10 DEF NInv, GoesOn

LEMMA InitKeeps == Init => NInv
<1> SUFFICES ASSUME Init PROVE NInv
  OBVIOUS
<1>1. \A t \in Threads : th[t] = IF t = Main THEN Running ELSE IdleThread
  BY DEF Init
<1>2. \A t \in Threads : ThreadInv(t) /\ ~Within(t) /\ (Starting(t) <=> t = Main)
  BY <1>1 DEF Init, ThreadInv, Within, Starting, Running, IdleThread
<1>3. Starts = {Main} /\ Cardinality(Starts) = 1
  <2>1. Starts = {Main}
    BY <1>2 DEF Starts
  <2>. QED BY <2>1, FS_Singleton
<1>4. timers = {} /\ Runs = {} /\ Cardinality(timers) = 0 /\ Cardinality(Runs) = 0
  BY FS_EmptySet DEF Init, Runs
<1>5. Counts /\ EndedKnown
  <2>1. attempts = 0 /\ syncFailures = 0 /\ timers = {} /\ waiting = 0 /\ live = 0
    BY DEF Init
  <2>2. generation = 0 /\ over = FALSE /\ returned = FALSE /\ ended = FALSE
    BY DEF Init, Acquired
  <2>3. MaxRetries \in Nat /\ MaxSync \in Nat
    OBVIOUS
  <2>4. attempts \in 0..MaxRetries /\ syncFailures \in 0..MaxSync + 1 /\ ~(syncFailures > MaxSync)
    BY <2>1, <2>3
  <2>5. timers \subseteq 1..attempts /\ waiting \in 0..attempts /\ live \in 0..generation
    BY <2>1, <2>2
  <2>. QED BY <2>2, <2>4, <2>5 DEF Counts, EndedKnown
<1>7. GoesOn
  BY <1>3 DEF GoesOn
<1>6. AttemptsBound /\ OneChain
  BY <1>3, <1>4 DEF Init, AttemptsBound, OneChain
<1>. QED BY <1>2, <1>5, <1>6, <1>7 DEF NInv, OneEach

LEMMA StepKeeps == RInv /\ NInv /\ [Next]_vars => NInv'
<1> SUFFICES ASSUME RInv, NInv, [Next]_vars PROVE NInv'
  OBVIOUS
<1>1. ASSUME NEW t \in Threads, Thread(t) PROVE NInv'
  BY <1>1, LoopKeeps, RetriesKeep, TimersKeep, SubscribesKeep, StoresKeep, SourceKeeps DEF Thread
<1>2. ASSUME Disposer PROVE NInv'
  BY <1>2, DisposerStep, DisposerKeeps
<1>3. ASSUME UNCHANGED vars PROVE NInv'
  BY <1>3 DEF vars, shared, NInv, ThreadInv, OneEach, Within, Counts, AttemptsBound, OneChain, Runs,
              Starts, Starting, GoesOn, EndedKnown
<1>. QED BY <1>1, <1>2, <1>3 DEF Next

(* No more attempts are subscribed than failures were signalled, and one;  *)
(* the counts stay within max_retries and max_sync_retries.                *)
THEOREM RetryTypes == Spec => []RetryTypeOK
<1>1. RInv /\ NInv => RetryTypeOK
  <2> SUFFICES ASSUME RInv, NInv PROVE RetryTypeOK
    OBVIOUS
  <2>1. Cardinality(Starts) \in Nat /\ Cardinality(timers) \in Nat
    BY TimersCard, FS_Subset, FS_CardinalityType DEF NInv, Starts
  <2>2. generation \in 0..attempts + 1
    BY <2>1 DEF NInv, AttemptsBound, Counts, RInv, TypesInv
  <2>3. active \in 0..1
    BY DEF RInv, GivenUpOnce
  <2>. QED BY <2>2, <2>3 DEF RetryTypeOK, RInv, TypesInv, NInv, Counts
<1>. QED BY InitOK, StepOK, InitKeeps, StepKeeps, <1>1, PTL DEF Spec

(* Until dispose() a stream that has not ended has a retry waiting, or an  *)
(* attempt that runs, stored where dispose() finds it.                     *)
THEOREM StreamGoesOn == Spec => []NeverForgotten
<1>1. RInv /\ NInv => NeverForgotten
  <2> SUFFICES ASSUME RInv, NInv, Quiet, disposer.at = "none", ~over, timers = {}
               PROVE  /\ live # 0 /\ source[live] = "running"
                      /\ active = 1
    <3>1. RInv /\ NInv /\ disposer.at = "none" /\ ~over => active = 1
      BY DEF RInv, NInv, EndedKnown, GivenUpOnce
    <3>. QED BY <3>1 DEF NeverForgotten
  <2>1. Starts = {}
    BY DEF NInv, ThreadInv, Starts, Starting, Quiet
  <2>2. ~disposed
    BY DEF RInv, DisposeIsFinal
  <2>3. generation # 0 /\ source[generation] = "running"
    BY <2>1, <2>2 DEF NInv, GoesOn
  <2>4. generation \in Attempts
    BY <2>3, WithinAttempts DEF Attempts
  <2>5. live = generation
    BY <2>3, <2>4 DEF RInv, Owned, Taken, Subscribing, Quiet
  <2>6. active = 1
    BY DEF RInv, NInv, EndedKnown, GivenUpOnce
  <2>. QED BY <2>3, <2>5, <2>6
<1>. QED BY InitOK, StepOK, InitKeeps, StepKeeps, <1>1, PTL DEF Spec
=============================================================================
