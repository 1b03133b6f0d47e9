------------------------------ MODULE Reporter ------------------------------
(***************************************************************************)
(* A reporter: the callers that change the registry, the clock thread that *)
(* turns their events into numbered lines, the writer thread that carries  *)
(* the lines to the sink, and close()                                      *)
(* (rxplus/reacting/reporter.py, _graph.py; the sink by its contract).     *)
(*                                                                         *)
(* An action is what a thread does in one critical section, with what it   *)
(* does to its own state around it.  Counts and their windows are in       *)
(* Windows; here the clock may find at any time that it has fallen behind. *)
(* A graph maps each identifier to the kind of the item and to the items   *)
(* it hangs from: an element from its parent, a link from its ends, a span *)
(* from its element.                                                       *)
(***************************************************************************)
EXTENDS Integers, Sequences, SequencesExt, FiniteSets

CONSTANTS
    Limit,      \* the queue option: lines created and not yet written
    Batch,      \* lines the writer takes at once
    MaxCalls,   \* bound: calls that change the registry
    MaxConns,   \* bound: connections opened
    MaxFaults,  \* bound: times the clock falls behind or a step raises
    MaxWork     \* bound: calls, connections and faults together

ASSUME ReporterAssumption ==
    /\ {Limit, Batch} \subseteq Nat \ {0}
    /\ {MaxCalls, MaxConns, MaxFaults, MaxWork} \subseteq Nat

VARIABLES
    registry,  \* the callers' graph
    events,    \* posted, not yet taken by the clock
    history,   \* every graph the registry has been, in order
    live,      \* _st.live
    want,      \* _want_session
    epoch,     \* connections opened so far, as the writer counts them
    mirror,    \* the clock's graph
    clock,     \* where the clock thread is, and its own state
    q,         \* the output queue
    opening,   \* _opening_queued
    inflight,  \* lines of the batch being written
    clockDone, \* _clock_done
    writer,    \* where the writer thread is, and its batch
    sink,      \* the sink: "down" or "open"
    obs,       \* what the observer holds of this connection
    closer,    \* where close() is
    closing,   \* _closing
    faults, conns   \* counters of the bounds

callerVars == <<registry, events, history>>
clockVars == <<mirror, clock>>
queueVars == <<q, opening, inflight>>
peerVars == <<sink, obs>>
closeVars == <<closer, closing>>
bounds == <<faults, conns>>
vars == <<callerVars, live, want, epoch, clockVars, queueVars, clockDone, writer,
          peerVars, closeVars, bounds>>

NoGraph == [i \in {} |-> [kind |-> "element", on |-> {}]]

NoView == [at |-> 0, seq |-> -1, graph |-> NoGraph]

Init ==
    /\ registry = NoGraph /\ events = <<>> /\ history = <<NoGraph>>
    /\ live = FALSE /\ want = FALSE /\ epoch = 0
    /\ mirror = NoGraph
    /\ clock = [at |-> "step", todo |-> <<>>, want |-> FALSE, epoch |-> 0, open |-> FALSE,
                session |-> -1, seq |-> 0, version |-> 1, last |-> FALSE]
    /\ q = <<>> /\ opening = FALSE /\ inflight = 0
    /\ clockDone = FALSE
    /\ writer = [at |-> "off", first |-> TRUE, batch |-> <<>>]
    /\ sink = "down" /\ obs = NoView
    /\ closer = "none" /\ closing = FALSE
    /\ faults = 0 /\ conns = 0

-----------------------------------------------------------------------------
(* Graph: an element goes with its subtree, the links that touch it and    *)
(* its spans.                                                              *)

Above(g) ==
    LET above[i \in DOMAIN g] == {i} \union UNION {above[j] : j \in g[i].on}
    IN  above

Removed(g, ids) == [i \in {j \in DOMAIN g : Above(g)[j] \cap ids = {}} |-> g[i]]

Apply(g, ev) ==
    IF ev.kind \in {"remove", "end"} THEN Removed(g, ev.on)
    ELSE [i \in DOMAIN g \union {ev.id} |->
             IF i = ev.id THEN [kind |-> ev.kind, on |-> ev.on] ELSE g[i]]

ApplyAll(g, evs) == FoldLeft(Apply, g, evs)

OfKind(kind) == {i \in DOMAIN registry : registry[i].kind = kind}

-----------------------------------------------------------------------------
(* Callers, under the lock.  Nothing is posted once close() has returned.  *)

Closed == closer \in {"sink", "closed"}

Calls == Len(history) - 1

NextId == Calls + 1

WorkLeft == Calls + faults + conns < MaxWork

Post(ev) ==
    /\ Calls < MaxCalls /\ WorkLeft
    /\ registry' = Apply(registry, ev)
    /\ history' = Append(history, registry')
    /\ events' = IF Closed THEN events ELSE Append(events, ev)
    /\ UNCHANGED <<live, want, epoch, clockVars, queueVars, clockDone, writer, peerVars,
                   closeVars, bounds>>

AddsElement ==
    \E on \in {{}} \union {{p} : p \in OfKind("element")} :
        Post([kind |-> "element", id |-> NextId, on |-> on])

AddsLink ==
    \E src, dst \in OfKind("element") :
        Post([kind |-> "link", id |-> NextId, on |-> {src, dst}])

Removes ==
    \E ids \in SUBSET (OfKind("element") \union OfKind("link")) \ {{}} :
        Post([kind |-> "remove", id |-> 0, on |-> ids])

StartsSpan ==
    /\ live
    /\ \E e \in OfKind("element") : Post([kind |-> "span", id |-> NextId, on |-> {e}])

EndsSpan ==
    \E s \in OfKind("span") : Post([kind |-> "end", id |-> 0, on |-> {s}])

Caller == AddsElement \/ AddsLink \/ Removes \/ StartsSpan \/ EndsSpan

-----------------------------------------------------------------------------
(* The clock thread.                                                       *)

ClockOnly == UNCHANGED <<want, epoch, inflight, clockDone, writer, peerVars, closeVars, conns>>

Faulty == faults < MaxFaults /\ WorkLeft /\ faults' = faults + 1

EmptyQueue == q' = <<>> /\ opening' = FALSE

(* _run_step takes the callers' events, and ends the session that the      *)
(* writer has given up or that belongs to an earlier connection.           *)
StepStarts ==
    /\ clock.at = "step"
    /\ LET wanted == want /\ ~Closed
           ends == clock.open /\ (~wanted \/ epoch # clock.session)
       IN  /\ clock' = [clock EXCEPT !.at = "events", !.todo = events, !.want = wanted,
                                     !.epoch = epoch, !.open = @ /\ ~ends]
           /\ events' = <<>>
           /\ IF ends THEN live' = FALSE /\ EmptyQueue ELSE UNCHANGED <<live, q, opening>>
    /\ ClockOnly
    /\ UNCHANGED <<registry, history, mirror, faults>>

Line(kind, ev, seq, version, graph) ==
    [kind |-> kind, ev |-> ev, seq |-> seq, at |-> version, graph |-> graph,
     epoch |-> clock.session]

NoEvent == [kind |-> "none", id |-> 0, on |-> {}]

Snapshot(kind) == Line(kind, NoEvent, clock.seq, clock.version, mirror)

(* Fault: the lines are lost without a snapshot that shows the source.     *)
Unrecovered == "events"

(* The queue is emptied when a line overflows it: a lost opening snapshot  *)
(* begins a new session, any other loss a recovery snapshot.               *)
AfterOverflow == IF opening THEN "begin" ELSE "recover"

(* _apply: the mirror, then one line unless no session is open.            *)
AppliesEvent ==
    /\ clock.at = "events"
    /\ clock.todo # <<>>
    /\ LET ev == Head(clock.todo)
           line == Line("change", ev, clock.seq, clock.version + 1, NoGraph)
           fits == Len(q) + 1 + inflight <= Limit
           next == [clock EXCEPT !.todo = Tail(@), !.version = @ + 1]
       IN  /\ mirror' = Apply(mirror, ev)
           /\ \/ /\ ~clock.open
                 /\ clock' = next
                 /\ UNCHANGED <<q, opening>>
              \/ /\ clock.open /\ fits
                 /\ clock' = [next EXCEPT !.seq = @ + 1]
                 /\ q' = Append(q, line)
                 /\ UNCHANGED opening
              \/ /\ clock.open /\ ~fits
                 /\ clock' = [next EXCEPT !.seq = @ + 1, !.at = AfterOverflow]
                 /\ EmptyQueue
    /\ ClockOnly
    /\ UNCHANGED <<callerVars, live, faults>>

(* Fault: what was posted since the step began is forgotten.               *)
SilentOfStep == clock.todo

Silent == clock.todo \o events

(* _shed: what this step still had to apply and what was posted since goes *)
(* to the mirror without a line of its own.                                *)
Sheds ==
    /\ clock.at = "events"
    /\ clock.open
    /\ Faulty
    /\ mirror' = ApplyAll(mirror, Silent)
    /\ clock' = [clock EXCEPT !.at = "recover", !.todo = <<>>, !.seq = @ + Len(Silent) + 1,
                              !.version = @ + Len(Silent)]
    /\ events' = <<>>
    /\ ClockOnly
    /\ UNCHANGED <<registry, history, live, q, opening>>

(* A recovery snapshot is never discarded.                                 *)
EmitsRecovery ==
    /\ clock.at = "recover"
    /\ q' = Append(q, Snapshot("recovery"))
    /\ clock' = [clock EXCEPT !.at = "events", !.seq = @ + 1]
    /\ ClockOnly
    /\ UNCHANGED <<callerVars, live, mirror, opening, faults>>

SessionDue == ~clock.open /\ clock.want

(* A session begins at the end of a step that wants one, or in the middle  *)
(* of a step that lost the opening of the session before.                  *)
BeginsSession ==
    /\ \/ clock.at = "begin"
       \/ clock.at = "events" /\ clock.todo = <<>> /\ SessionDue
    /\ live' = TRUE
    /\ clock' = [clock EXCEPT !.at = "opening", !.seq = 0, !.open = TRUE,
                              !.session = IF clock.at = "begin" THEN @ ELSE clock.epoch]
    /\ ClockOnly
    /\ UNCHANGED <<callerVars, mirror, q, opening, faults>>

EmitsOpening ==
    /\ clock.at = "opening"
    /\ q' = Append(q, Snapshot("opening"))
    /\ opening' = TRUE
    /\ clock' = [clock EXCEPT !.at = "events", !.seq = @ + 1]
    /\ ClockOnly
    /\ UNCHANGED <<callerVars, live, mirror, faults>>

(* Fault: the events the registry already includes are applied again.      *)
KeptEvents == events

Unapplied == <<>>

(* _recover: a step raised; the mirror becomes the registry and the        *)
(* session ends.                                                           *)
StepRaises ==
    /\ clock.at = "events"
    /\ Faulty
    /\ mirror' = registry
    /\ events' = Unapplied
    /\ clock' = [clock EXCEPT !.todo = <<>>, !.open = FALSE, !.want = FALSE,
                              !.version = Len(history)]
    /\ IF clock.open THEN live' = FALSE /\ EmptyQueue ELSE UNCHANGED <<live, q, opening>>
    /\ ClockOnly
    /\ UNCHANGED <<registry, history>>

(* _clock_loop: one more step once close() has asked, then done.           *)
ClockChecks ==
    /\ clock.at = "events" /\ clock.todo = <<>> /\ ~SessionDue
    /\ clock' = [clock EXCEPT !.at = IF clock.last THEN "done" ELSE "step", !.last = closing]
    /\ clockDone' = clock.last
    /\ UNCHANGED <<callerVars, live, want, epoch, mirror, queueVars, writer, peerVars,
                   closeVars, bounds>>

ClockThread ==
    \/ StepStarts \/ AppliesEvent \/ Sheds \/ EmitsRecovery
    \/ BeginsSession \/ EmitsOpening \/ StepRaises \/ ClockChecks

-----------------------------------------------------------------------------
(* The writer thread.                                                      *)

WriterOnly == UNCHANGED <<callerVars, live, clockVars, clockDone, closeVars, faults>>

Goes(at) == writer' = [writer EXCEPT !.at = at]

(* Between two connections: close() ends the thread, the sink may refuse   *)
(* to be opened again.                                                     *)
Dials ==
    /\ writer.at = "off"
    /\ \/ closing /\ Goes("ended")
       \/ ~writer.first /\ Goes("ended")
       \/ /\ ~closing
          /\ conns < MaxConns /\ WorkLeft
          /\ writer' = [writer EXCEPT !.at = "opening", !.first = FALSE]
    /\ WriterOnly
    /\ UNCHANGED <<want, epoch, queueVars, peerVars, conns>>

(* The sink's open() returns; a connection shows its observer nothing yet. *)
SinkOpens ==
    /\ writer.at = "opening"
    /\ sink' = "open" /\ obs' = NoView /\ conns' = conns + 1
    /\ Goes("opened")
    /\ WriterOnly
    /\ UNCHANGED <<want, epoch, queueVars>>

SinkFails ==
    /\ writer.at = "opening"
    /\ Goes("off")
    /\ WriterOnly
    /\ UNCHANGED <<want, epoch, queueVars, peerVars, conns>>

(* Fault: the connection that opened during close() is left open.          *)
LeftOpen == sink

SinkIfClosing == "down"

(* _try_open, under the lock: close() may have come during the connect.    *)
Connects ==
    /\ writer.at = "opened"
    /\ \/ /\ closing
          /\ sink' = SinkIfClosing
          /\ Goes("off")
          /\ UNCHANGED <<want, epoch>>
       \/ /\ ~closing
          /\ epoch' = epoch + 1
          /\ want' = TRUE
          /\ Goes("ready")
          /\ UNCHANGED sink
    /\ WriterOnly
    /\ UNCHANGED <<queueVars, obs, conns>>

(* Fault: lines of an earlier connection are not left out.                 *)
AnyEpoch(line) == TRUE

OfConnection(line) == line.epoch = epoch

Kept(lines) ==
    LET kept[n \in 0..Len(lines)] ==
          IF n = 0 THEN <<>>
          ELSE IF OfConnection(lines[n]) THEN Append(kept[n - 1], lines[n]) ELSE kept[n - 1]
    IN  kept[Len(lines)]

TakesBatch ==
    /\ writer.at = "ready"
    /\ q # <<>>
    /\ LET n == IF Len(q) < Batch THEN Len(q) ELSE Batch
           taken == SubSeq(q, 1, n)
           batch == Kept(taken)
       IN  /\ q' = SubSeq(q, n + 1, Len(q))
           /\ opening' = (opening /\ \A i \in 1..n : taken[i].kind # "opening")
           /\ inflight' = Len(batch)
           /\ writer' = [writer EXCEPT !.at = IF batch = <<>> THEN "ready" ELSE "write",
                                       !.batch = batch]
    /\ WriterOnly
    /\ UNCHANGED <<want, epoch, peerVars, conns>>

(* The observer is given the next line of the batch.                       *)
View(line) ==
    [at |-> line.at, seq |-> line.seq,
     graph |-> IF line.kind = "change" THEN Apply(obs.graph, line.ev) ELSE line.graph]

Delivers ==
    /\ writer.at = "write"
    /\ sink = "open"
    /\ writer.batch # <<>>
    /\ obs' = View(Head(writer.batch))
    /\ writer' = [writer EXCEPT !.batch = Tail(@)]
    /\ WriterOnly
    /\ UNCHANGED <<want, epoch, queueVars, sink, conns>>

WriteReturns ==
    /\ writer.at = "write"
    /\ writer.batch = <<>>
    /\ inflight' = 0
    /\ Goes("ready")
    /\ WriterOnly
    /\ UNCHANGED <<want, epoch, q, opening, peerVars, conns>>

WriteFails ==
    /\ writer.at = "write"
    /\ sink = "down"
    /\ writer.batch # <<>>
    /\ inflight' = 0
    /\ writer' = [writer EXCEPT !.at = "lost", !.batch = <<>>]
    /\ WriterOnly
    /\ UNCHANGED <<want, epoch, q, opening, peerVars, conns>>

(* Nothing to write, and the observer has gone.                            *)
IdleLost ==
    /\ writer.at = "ready"
    /\ q = <<>>
    /\ sink = "down"
    /\ Goes("lost")
    /\ WriterOnly
    /\ UNCHANGED <<want, epoch, queueVars, peerVars, conns>>

(* _lost_connection: one lock, then the other.                             *)
LosesSession ==
    /\ writer.at = "lost"
    /\ want' = FALSE
    /\ Goes("clear")
    /\ WriterOnly
    /\ UNCHANGED <<epoch, queueVars, peerVars, conns>>

ClearsQueue ==
    /\ writer.at = "clear"
    /\ EmptyQueue
    /\ Goes("off")
    /\ WriterOnly
    /\ UNCHANGED <<want, epoch, inflight, peerVars, conns>>

WriterEnds ==
    /\ writer.at = "ready"
    /\ closing /\ clockDone /\ q = <<>>
    /\ Goes("ended")
    /\ WriterOnly
    /\ UNCHANGED <<want, epoch, queueVars, peerVars, conns>>

(* What the writer does whether or not the observer reads.                 *)
WriterRuns ==
    \/ Dials \/ SinkOpens \/ SinkFails \/ Connects \/ TakesBatch \/ WriteReturns
    \/ WriteFails \/ IdleLost \/ LosesSession \/ ClearsQueue \/ WriterEnds

ObserverGoes ==
    /\ sink = "open"
    /\ sink' = "down"
    /\ WriterOnly
    /\ UNCHANGED <<want, epoch, queueVars, writer, obs, conns>>

-----------------------------------------------------------------------------
(* close().                                                                *)

(* Fault: the sink is not closed under a writer that is blocked in it.     *)
ClosedWhenFree == IF writer.at = "write" THEN sink ELSE "down"

ClosedSink == "down"

CloserMoves(from, to) ==
    /\ closer = from
    /\ closer' = to
    /\ UNCHANGED <<callerVars, want, epoch, clockVars, queueVars, clockDone, writer, obs, bounds>>

CloseAsks == CloserMoves("none", "joining") /\ closing' = TRUE /\ UNCHANGED <<live, sink>>

(* The waits for the two threads end, in time or not; a writer that still  *)
(* runs is unblocked.                                                      *)
JoinsThreads ==
    /\ CloserMoves("joining", "flag")
    /\ sink' = IF writer.at = "ended" THEN sink ELSE ClosedSink
    /\ UNCHANGED <<live, closing>>

MarksClosed == CloserMoves("flag", "sink") /\ live' = FALSE /\ UNCHANGED <<sink, closing>>

ClosesSink == CloserMoves("sink", "closed") /\ sink' = ClosedSink /\ UNCHANGED <<live, closing>>

Closer == CloseAsks \/ JoinsThreads \/ MarksClosed \/ ClosesSink

Next == Caller \/ ClockThread \/ WriterRuns \/ Delivers \/ ObserverGoes \/ Closer

Spec == Init /\ [][Next]_vars

-----------------------------------------------------------------------------
(* What the reporter promises.                                             *)

(* Every variable keeps its type.                                          *)
ReporterTypeOK ==
    /\ \A g \in {registry, mirror, obs.graph} :
          \A i \in DOMAIN g : i \in 1..MaxCalls /\ g[i].on \subseteq DOMAIN g
    /\ Len(history) \in 1..MaxCalls + 1
    /\ clock.version \in 1..Len(history) /\ clock.seq \in Nat
    /\ clock.epoch \in 0..MaxConns /\ clock.session \in -1..MaxConns
    /\ epoch \in 0..MaxConns /\ inflight \in 0..Batch
    /\ {live, want, opening, clockDone, closing} \subseteq BOOLEAN

(* Every change is on its way: the mirror with the events still to be      *)
(* applied is the registry, whatever was lost, raised or ended meanwhile.  *)
MirrorFollows ==
    ~Closed => ApplyAll(mirror, clock.todo \o events) = registry

(* What the observer has built from the lines it received is the graph the *)
(* source had at that point, after any loss and on every connection.       *)
ViewExact == obs.at > 0 => obs.graph = history[obs.at]

(* The lines of every connection follow the session rules.                 *)
Observed == INSTANCE SessionStream WITH version <- Len(history), at <- obs.at, seq <- obs.seq

SessionsInOrder == Observed!Stream

(* Once close() has returned and the writer has ended, the sink is closed, *)
(* also when it opened while close() was under way.                        *)
SinkLeftClosed == closer = "closed" /\ writer.at = "ended" => sink = "down"

(* Where the writer could go on: the guards of its actions.                *)
WritersTurn ==
    \/ writer.at \in {"opening", "opened", "lost", "clear"}
    \/ writer.at = "off" /\ (closing \/ ~writer.first \/ (conns < MaxConns /\ WorkLeft))
    \/ writer.at = "ready" /\ (q # <<>> \/ sink = "down" \/ (closing /\ clockDone))
    \/ writer.at = "write" /\ (writer.batch = <<>> \/ sink = "down")

(* Once close() has returned the writer waits for nobody: neither for the  *)
(* clock nor for an observer that has stopped reading.                     *)
CloseUnblocks == closer = "closed" /\ writer.at # "ended" => WritersTurn

(* close() ends both threads even when the observer has stopped reading:   *)
(* after it neither is left waiting for the other.                         *)
CloseEndsThreads ==
    /\ CloseUnblocks
    /\ WritersTurn => ENABLED WriterRuns
    /\ closer = "closed" /\ clock.at # "done" => ENABLED ClockThread

(* The docstring of live: "Whether a session is open on the sink."         *)
NotLiveOnceClosed ==
    closer = "closed" /\ clock.at = "done" /\ writer.at = "ended" => ~live
=============================================================================
