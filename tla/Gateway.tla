------------------------------ MODULE Gateway ------------------------------
(***************************************************************************)
(* Two gateway nodes and one connect() between them (rxplus/gateway).      *)
(*                                                                         *)
(* Node A dials: one outbound Connection over an RxWSClient that reopens   *)
(* its socket.  Node B listens: one inbound Connection per socket of its   *)
(* RxWSServer.  A's program thread (connect, send_to, disconnect), A's     *)
(* client loop thread, B's server loop thread and B's program thread meet  *)
(* at the Connection records, which a lock protects, and at the            *)
(* subscriptions, which run on the thread that emits.                      *)
(*                                                                         *)
(* A frame is a data frame, numbered from 1, or one of the two below.      *)
(***************************************************************************)
EXTENDS SendQueue

CONSTANTS
    DataA, DataB,  \* how many data frames the programs at A and B may send
    MaxSockets,    \* bound: sockets A opens
    MaxHellos      \* bound: HELLOs a peer sends again on a socket

ASSUME GatewayAssumption ==
    /\ DataA \in Nat /\ DataB \in Nat
    /\ MaxSockets \in Nat \ {0} /\ MaxHellos \in Nat
    /\ Limit > 0 /\ LimitBytes > 0   \* handshake_buffer, handshake_buffer_bytes
    /\ \A f \in (1..DataA) \union (1..DataB) : SizeOf(f) \in Nat

Hello == -1
HelloAck == 0

(* What the program of a node observes of a connection, in order: data     *)
(* frames on sink, and these two events.                                   *)
Up == 0      \* on_connection
Down == -1   \* on_disconnection

Sockets == 1..MaxSockets

(* The data frames of a sequence.                                          *)
Data(s) ==
    LET data[n \in 0..Len(s)] ==
          IF n = 0 THEN <<>>
          ELSE IF s[n] > 0 THEN Append(data[n - 1], s[n]) ELSE data[n - 1]
    IN  data[Len(s)]

VARIABLES
    a,        \* A's Connection
    dial,     \* how far A's connect() is, see DialStates
    client,   \* A's RxWSClient: "down", "up" or "ended"
    cur,      \* the newest socket A opened, 0 for none
    greeted,  \* the greeting was sent on it
    timely,   \* connection_state was subscribed when it opened
    mark,     \* for the properties only: what held when it opened, see Mark
    q,        \* the client's send queue
    sending,  \* a data frame between send_to's test and on_next, 0 for none
    pendA,    \* what A's "loop" and "app" threads are about to emit
    logA,     \* what A's program observed
    nextA,    \* the next data frame of A's program
    net,      \* each socket: "none", "open" or "closed"
    ab, ba,   \* each socket's frames from A to B and from B to A
    sentAB, sentBA,  \* the data frames ever written to them
    b,        \* B's Connection for each socket
    fetched,  \* the frame B's server thread looked a connection up for
    pendB,    \* what that thread is about to emit for each connection
    logB,     \* what B's program observed of each connection
    nextB,    \* the next data frame of B's program
    hellos    \* HELLOs sent again

aVars == <<a, dial, client, cur, greeted, timely, mark, q, sending, pendA, logA, nextA>>
netVars == <<net, ab, ba, sentAB, sentBA, hellos>>
bVars == <<b, fetched, pendB, logB, nextB>>
vars == <<aVars, netVars, bVars>>

Off == [live |-> FALSE, T |-> 0]

(* How many data frames A's program had got, how many frames the client's  *)
(* queue had dropped, and whether connect() had subscribed to the frames.  *)
Mark == [data |-> Len(Data(logA)), dropped |-> q.dropped, reads |-> dial # "client"]

(* connect(): the client exists; its frames are subscribed; the replayed   *)
(* CONNECTED was handled up to the handshake check; its states are         *)
(* subscribed; the connection is in the table.                             *)
DialStates == {"client", "data", "checking", "wired", "listed"}

NewConnection(direction, state) ==
    [direction |-> direction, state |-> state, wsUp |-> FALSE, hello |-> FALSE,
     ack |-> FALSE, helloSent |-> FALSE, wasReady |-> FALSE, early |-> <<>>,
     listed |-> FALSE]

Absent == NewConnection("inbound", "none")

Idle == [socket |-> 0, frame |-> 0]

Init ==
    /\ a = NewConnection("outbound", "CONNECTING")
    /\ dial = "client" /\ client = "down" /\ cur = 0
    /\ greeted = FALSE /\ timely = FALSE
    /\ mark = [data |-> 0, dropped |-> 0, reads |-> FALSE]
    /\ q = EmptyQueue("drop_old")
    /\ sending = 0 /\ pendA = [loop |-> <<>>, app |-> <<>>] /\ logA = <<>> /\ nextA = 1
    /\ net = [s \in Sockets |-> "none"]
    /\ ab = [s \in Sockets |-> <<>>] /\ ba = ab /\ sentAB = ab /\ sentBA = ab
    /\ b = [s \in Sockets |-> Absent]
    /\ fetched = Idle /\ pendB = ab
    /\ logB = ab /\ nextB = 1 /\ hellos = 0

-----------------------------------------------------------------------------
(* The handlers both nodes share, as operators on a Connection.            *)

(* _handle_hello, up to the handshake check: a second HELLO on an inbound  *)
(* connection restarts its handshake.                                      *)
Restarts(c) == c.direction = "inbound" /\ c.hello

Greets(c) ==
    [c EXCEPT !.ack = IF Restarts(c) THEN FALSE ELSE @,
              !.state = IF Restarts(c) THEN "HANDSHAKING" ELSE @,
              !.hello = TRUE,
              !.helloSent = @ \/ c.direction = "inbound"]

(* Fault: only the first HELLO on a connection is answered by one.         *)
RepliesOnce(c) ==
    IF c.direction = "inbound" /\ ~c.helloSent
    THEN <<Hello, HelloAck>> ELSE <<HelloAck>>

Replies(c) ==
    IF c.direction = "inbound" /\ (Restarts(c) \/ ~c.helloSent)
    THEN <<Hello, HelloAck>> ELSE <<HelloAck>>

(* _check_handshake_complete: on_connection, then the frames held.         *)
Complete(c) == c.hello /\ c.ack /\ c.state = "HANDSHAKING"

Checked(c) ==
    IF Complete(c)
    THEN [c EXCEPT !.state = "READY", !.wasReady = TRUE, !.early = <<>>]
    ELSE c

(* Fault: the held frames are emitted ahead of the event.                  *)
EmitsEarlyFirst(c) == IF Complete(c) THEN Append(c.early, Up) ELSE <<>>

Emits(c) == IF Complete(c) THEN <<Up>> \o c.early ELSE <<>>

(* _hold_early: what a data frame before READY does.                       *)
Holds(c) == c.state = "HANDSHAKING" /\ c.hello

(* Fault: the frame's own size is left out.                                *)
FitsUnsized(c, f) ==
    Len(c.early) < Limit /\ Bytes(c.early) < LimitBytes

Fits(c, f) ==
    Len(c.early) < Limit /\ Bytes(c.early) + SizeOf(f) <= LimitBytes

Held(c, f) == [c EXCEPT !.early = Append(@, f)]

Finished(c) == [c EXCEPT !.state = "CLOSED", !.early = <<>>, !.listed = FALSE]

(* Fault: every connection that ends is announced.                         *)
AnnouncesAlways(c) == <<Down>>

Announces(c) ==
    IF c.direction = "outbound" \/ c.wasReady THEN <<Down>> ELSE <<>>

-----------------------------------------------------------------------------
(* A's program thread.                                                     *)

AppFree == pendA.app = <<>> /\ dial # "checking"

ClosesA ==
    /\ a.state # "CLOSED"
    /\ a' = Finished(a)
    /\ logA' = logA \o Announces(a)

(* connect() subscribes to the frames.  A client that failed already errors *)
(* the subscription at once.                                               *)
SubscribesData ==
    /\ dial = "client"
    /\ dial' = "data"
    /\ \/ client = "ended" /\ ClosesA
       \/ client # "ended" /\ UNCHANGED <<a, logA>>
    /\ UNCHANGED <<client, cur, greeted, timely, mark, q, sending, pendA, nextA, netVars, bVars>>

(* Fault: a socket that is up does not start the handshake.                *)
SocketUpIdle(c) == [c EXCEPT !.wsUp = TRUE]

(* CONNECTED, up to the handshake check.                                   *)
SocketUp(c) ==
    IF c.state = "CLOSED" THEN c
    ELSE [c EXCEPT !.wsUp = TRUE, !.state = IF @ = "READY" THEN @ ELSE "HANDSHAKING"]

(* The subscription replays the current state on this thread, and holds    *)
(* the next change of state off until it is handled.                       *)
SubscribesState ==
    /\ dial = "data"
    /\ \/ client = "up" /\ a' = SocketUp(a) /\ dial' = "checking"
       \/ client # "up" /\ UNCHANGED a /\ dial' = "wired"
    /\ UNCHANGED <<client, cur, greeted, timely, mark, q, sending, pendA, logA, nextA>>
    /\ UNCHANGED <<netVars, bVars>>

ReplayChecks ==
    /\ dial = "checking"
    /\ dial' = "wired"
    /\ a' = Checked(a)
    /\ pendA' = [pendA EXCEPT !.app = Emits(a)]
    /\ UNCHANGED <<client, cur, greeted, timely, mark, q, sending, logA, nextA, netVars, bVars>>

Lists ==
    /\ dial = "wired" /\ AppFree
    /\ dial' = "listed"
    /\ a' = [a EXCEPT !.listed = TRUE]
    /\ UNCHANGED <<client, cur, greeted, timely, mark, q, sending, pendA, logA, nextA>>
    /\ UNCHANGED <<netVars, bVars>>

(* send_to tests the state, then hands the frame to the client.            *)
TestsReady ==
    /\ sending = 0
    /\ nextA <= DataA
    /\ a.listed /\ a.state = "READY"
    /\ sending' = nextA
    /\ nextA' = nextA + 1
    /\ UNCHANGED <<a, dial, client, cur, greeted, timely, mark, q, pendA, logA, netVars, bVars>>

SendsFrame ==
    /\ sending # 0
    /\ sending' = 0
    /\ q' = IF client = "ended" THEN q ELSE Put(q, Off, sending, "drop_old")
    /\ UNCHANGED <<a, dial, client, cur, greeted, timely, mark, pendA, logA, nextA, netVars, bVars>>

(* disconnect(): the client is then completed, see EndsClient.             *)
DisconnectsA ==
    /\ a.listed
    /\ ClosesA
    /\ UNCHANGED <<dial, client, cur, greeted, timely, mark, q, sending, pendA, nextA>>
    /\ UNCHANGED <<netVars, bVars>>

EmitsA(thread) ==
    /\ pendA[thread] # <<>>
    /\ logA' = Append(logA, Head(pendA[thread]))
    /\ pendA' = [pendA EXCEPT ![thread] = Tail(@)]
    /\ UNCHANGED <<a, dial, client, cur, greeted, timely, mark, q, sending, nextA, netVars, bVars>>

-----------------------------------------------------------------------------
(* A's client loop thread.  It emits what it decided before it goes on.    *)

LoopFree == pendA.loop = <<>>

Subscribed == dial \notin {"client", "data"} /\ a.state # "CLOSED"

Opens ==
    /\ LoopFree /\ AppFree
    /\ client = "down" /\ cur < MaxSockets
    /\ client' = "up"
    /\ cur' = cur + 1
    /\ net' = [net EXCEPT ![cur'] = "open"]
    /\ greeted' = FALSE
    /\ timely' = Subscribed
    /\ mark' = Mark
    /\ \/ /\ Subscribed
          /\ a' = Checked(SocketUp(a))
          /\ pendA' = [pendA EXCEPT !.loop = Emits(SocketUp(a))]
       \/ ~Subscribed /\ UNCHANGED <<a, pendA>>
    /\ UNCHANGED <<dial, q, sending, logA, nextA, ab, ba, sentAB, sentBA, hellos, bVars>>

(* A frame written to a socket whose connection B has finished is dropped  *)
(* on arrival, as from an unknown connection.                              *)
Written(s, f) ==
    IF b[s].state = "none" \/ b[s].listed THEN [ab EXCEPT ![s] = Append(@, f)] ELSE ab

(* Fault: the greeting follows what is queued.                             *)
GreetsLast == ~greeted /\ ~CanTake(q)

MayGreet == ~greeted

(* The sender: the greeting first, then the queue.                         *)
Writes ==
    /\ LoopFree
    /\ client = "up" /\ net[cur] = "open"
    /\ \/ /\ MayGreet
          /\ greeted' = TRUE
          /\ ab' = Written(cur, Hello)
          /\ UNCHANGED <<q, sentAB>>
       \/ /\ ~MayGreet /\ CanTake(q)
          /\ q' = Take(q)
          /\ ab' = Written(cur, Head(q.frames))
          /\ sentAB' = [sentAB EXCEPT ![cur] =
                IF Head(q.frames) = HelloAck THEN @ ELSE Append(@, Head(q.frames))]
          /\ UNCHANGED greeted
    /\ UNCHANGED <<a, dial, client, cur, timely, mark, sending, pendA, logA, nextA>>
    /\ UNCHANGED <<net, ba, sentBA, hellos, bVars>>

(* The receiver takes the next frame.                                      *)
Receives(f) ==
    /\ LoopFree
    /\ client = "up" /\ ba[cur] # <<>>
    /\ f = Head(ba[cur])
    /\ ba' = [ba EXCEPT ![cur] = Tail(@)]
    /\ UNCHANGED <<dial, client, cur, greeted, timely, mark, sending, nextA>>
    /\ UNCHANGED <<net, ab, sentAB, sentBA, hellos, bVars>>

Reads == dial # "client" /\ a.state # "CLOSED"

(* Nobody has subscribed yet, or nobody does any more.                     *)
Ignores ==
    /\ \E f \in {Hello, HelloAck} \union 1..DataB : Receives(f)
    /\ ~Reads
    /\ UNCHANGED <<a, q, pendA, logA>>

ReceivesHello ==
    /\ Receives(Hello)
    /\ Reads
    /\ a' = Checked(Greets(a))
    /\ pendA' = [pendA EXCEPT !.loop = Emits(Greets(a))]
    /\ q' = Put(q, Off, HelloAck, "drop_old")
    /\ UNCHANGED logA

ReceivesAck ==
    /\ Receives(HelloAck)
    /\ Reads
    /\ a' = Checked([a EXCEPT !.ack = TRUE])
    /\ pendA' = [pendA EXCEPT !.loop = Emits([a EXCEPT !.ack = TRUE])]
    /\ UNCHANGED <<q, logA>>

(* Before READY a data frame is held, or dropped before the HELLO; one too *)
(* many ends the connection, if connect() has listed it.                   *)
ReceivesData ==
    \E f \in 1..DataB :
        /\ Receives(f)
        /\ Reads
        /\ \/ a.state = "READY" /\ logA' = Append(logA, f) /\ UNCHANGED a
           \/ Holds(a) /\ Fits(a, f) /\ a' = Held(a, f) /\ UNCHANGED logA
           \/ Holds(a) /\ ~Fits(a, f) /\ a.listed /\ ClosesA
           \/ /\ a.state # "READY"
              /\ Holds(a) => ~Fits(a, f) /\ ~a.listed
              /\ UNCHANGED <<a, logA>>
        /\ UNCHANGED <<q, pendA>>

SocketDown(c) ==
    IF ~c.wsUp THEN c
    ELSE [c EXCEPT !.wsUp = FALSE, !.hello = FALSE, !.ack = FALSE, !.early = <<>>,
                   !.state = IF @ = "CLOSED" THEN @ ELSE "HANDSHAKING"]

(* The connection ended: what it had not read is lost.                     *)
Drops ==
    /\ LoopFree /\ AppFree
    /\ client = "up" /\ net[cur] = "closed"
    /\ client' = "down"
    /\ ba' = [ba EXCEPT ![cur] = <<>>]
    /\ a' = IF Subscribed THEN SocketDown(a) ELSE a
    /\ UNCHANGED <<dial, cur, greeted, timely, mark, q, sending, pendA, logA, nextA>>
    /\ UNCHANGED <<net, ab, sentAB, sentBA, hellos, bVars>>

(* A client that was completed closes its socket and ends.                 *)
Shut(s) == [net EXCEPT ![s] = IF @ = "open" THEN "closed" ELSE @]

EndsClient ==
    /\ LoopFree
    /\ a.state = "CLOSED" /\ client # "ended"
    /\ client' = "ended"
    /\ net' = IF cur = 0 THEN net ELSE Shut(cur)
    /\ UNCHANGED <<a, dial, cur, greeted, timely, mark, q, sending, pendA, logA, nextA>>
    /\ UNCHANGED <<ab, ba, sentAB, sentBA, hellos, bVars>>

(* The client fails for good: its retries are exhausted.                   *)
Fails ==
    /\ LoopFree /\ AppFree
    /\ client = "down"
    /\ client' = "ended"
    /\ \/ Reads /\ ClosesA
       \/ ~Reads /\ UNCHANGED <<a, logA>>
    /\ UNCHANGED <<dial, cur, greeted, timely, mark, q, sending, pendA, nextA, netVars, bVars>>

-----------------------------------------------------------------------------
(* The network, and a peer that restarts its handshake on a socket where   *)
(* it was complete: A's program in place of RxWSClient.                    *)

NetDrops(s) ==
    /\ net[s] = "open"
    /\ net' = Shut(s)
    /\ UNCHANGED <<ab, ba, sentAB, sentBA, hellos, aVars, bVars>>

PeerRestarts ==
    /\ client = "up" /\ net[cur] = "open" /\ b[cur].state = "READY"
    /\ hellos < MaxHellos
    /\ hellos' = hellos + 1
    /\ ab' = Written(cur, Hello)
    /\ UNCHANGED <<net, ba, sentAB, sentBA, aVars, bVars>>

-----------------------------------------------------------------------------
(* B's server loop thread.                                                 *)

ServerFree == fetched = Idle /\ \A s \in Sockets : pendB[s] = <<>>

Accepts(s) ==
    /\ ServerFree
    /\ net[s] # "none" /\ b[s].state = "none"
    /\ b' = [b EXCEPT ![s] = [NewConnection("inbound", "HANDSHAKING") EXCEPT !.listed = TRUE]]
    /\ UNCHANGED <<fetched, pendB, logB, nextB, netVars, aVars>>

(* _handle_inbound_data looks the connection up, and lets go of the lock.  *)
(* The frames of a connection that is not in the table are dropped: EndsB  *)
(* drops them.                                                             *)
Fetches(s) ==
    /\ ServerFree
    /\ b[s].listed /\ ab[s] # <<>>
    /\ ab' = [ab EXCEPT ![s] = Tail(@)]
    /\ fetched' = [socket |-> s, frame |-> Head(ab[s])]
    /\ UNCHANGED <<b, pendB, logB, nextB, net, ba, sentAB, sentBA, hellos, aVars>>

(* send_to on a socket that is still open.                                 *)
Posted(s, frames) == IF net[s] = "open" THEN [ba EXCEPT ![s] = @ \o frames] ELSE ba

Handles(s, f) ==
    /\ fetched.socket = s /\ fetched.frame = f
    /\ fetched' = Idle
    /\ UNCHANGED <<nextB, net, sentAB, sentBA, hellos, aVars>>

Settles(s, c) ==
    /\ b' = [b EXCEPT ![s] = Checked(c)]
    /\ pendB' = [pendB EXCEPT ![s] = Emits(c)]

HandlesHello(s) ==
    /\ Handles(s, Hello)
    /\ Settles(s, Greets(b[s]))
    /\ ba' = Posted(s, Replies(b[s]))
    /\ UNCHANGED <<logB, ab>>

HandlesAck(s) ==
    /\ Handles(s, HelloAck)
    /\ Settles(s, [b[s] EXCEPT !.ack = TRUE])
    /\ UNCHANGED <<logB, ab, ba>>

(* _finish: what follows comes from an unknown connection.                 *)
EndsB(s) ==
    /\ b' = [b EXCEPT ![s] = Finished(@)]
    /\ logB' = [logB EXCEPT ![s] = @ \o Announces(b[s])]
    /\ ab' = [ab EXCEPT ![s] = <<>>]

(* disconnect() then asks the server's loop to close the socket.           *)
Closes(s) ==
    /\ ServerFree
    /\ b[s].state # "none" /\ ~b[s].listed
    /\ net[s] = "open"
    /\ net' = Shut(s)
    /\ UNCHANGED <<ab, ba, sentAB, sentBA, hellos, aVars, bVars>>

HandlesData(s) ==
    \E f \in 1..DataA :
        /\ Handles(s, f)
        /\ \/ /\ b[s].state = "READY"
              /\ logB' = [logB EXCEPT ![s] = Append(@, f)]
              /\ UNCHANGED <<b, ab>>
           \/ b[s].state # "READY" /\ ~Holds(b[s]) /\ UNCHANGED <<b, logB, ab>>
           \/ /\ Holds(b[s]) /\ Fits(b[s], f)
              /\ b' = [b EXCEPT ![s] = Held(@, f)]
              /\ UNCHANGED <<logB, ab>>
           \/ /\ Holds(b[s]) /\ ~Fits(b[s], f)
              /\ EndsB(s)
        /\ UNCHANGED <<pendB, ba>>

EmitsB(s) ==
    /\ pendB[s] # <<>>
    /\ logB' = [logB EXCEPT ![s] = Append(@, Head(pendB[s]))]
    /\ pendB' = [pendB EXCEPT ![s] = Tail(@)]
    /\ UNCHANGED <<b, fetched, nextB, netVars, aVars>>

(* The server reports that the socket closed: what it had not read is lost. *)
Loses(s) ==
    /\ ServerFree
    /\ net[s] = "closed" /\ b[s].listed
    /\ EndsB(s)
    /\ UNCHANGED <<fetched, pendB, nextB, net, ba, sentAB, sentBA, hellos, aVars>>

-----------------------------------------------------------------------------
(* B's program thread.                                                     *)

(* Fault: a frame is sent on a connection that is not ready.               *)
SendsUnready(s) == b[s].listed

MaySend(s) == b[s].listed /\ b[s].state = "READY"

SendsTo(s) ==
    /\ nextB <= DataB
    /\ MaySend(s)
    /\ nextB' = nextB + 1
    /\ ba' = Posted(s, <<nextB>>)
    /\ sentBA' = IF net[s] = "open" THEN [sentBA EXCEPT ![s] = Append(@, nextB)] ELSE sentBA
    /\ UNCHANGED <<b, fetched, pendB, logB, net, ab, sentAB, hellos, aVars>>

DisconnectsB(s) ==
    /\ b[s].listed
    /\ EndsB(s)
    /\ UNCHANGED <<fetched, pendB, nextB, net, ba, sentAB, sentBA, hellos, aVars>>

-----------------------------------------------------------------------------
Dialling == SubscribesData \/ SubscribesState \/ ReplayChecks \/ Lists \/ EmitsA("app")

LoopA ==
    \/ Writes \/ Ignores \/ ReceivesHello \/ ReceivesAck \/ ReceivesData
    \/ Drops \/ EndsClient \/ EmitsA("loop")

ServerB ==
    \E s \in Sockets :
        \/ Accepts(s) \/ Fetches(s) \/ Closes(s) \/ Loses(s) \/ EmitsB(s)
        \/ HandlesHello(s) \/ HandlesAck(s) \/ HandlesData(s)

Programs ==
    \/ TestsReady \/ SendsFrame \/ DisconnectsA
    \/ \E s \in Sockets : SendsTo(s) \/ DisconnectsB(s)

Next ==
    \/ Dialling \/ Opens \/ LoopA \/ Fails \/ ServerB \/ Programs
    \/ PeerRestarts \/ \E s \in Sockets : NetDrops(s)

(* Every loop thread runs what it can, connect() runs to its end, and so   *)
(* does a send_to under way.  Nothing is assumed of the network, of        *)
(* reconnection or of what the programs decide to do.                      *)
Fairness ==
    /\ WF_vars(Dialling) /\ WF_vars(SendsFrame)
    /\ WF_vars(LoopA) /\ WF_vars(ServerB)

Spec == Init /\ [][Next]_vars /\ Fairness

-----------------------------------------------------------------------------
(* What the two nodes promise.                                             *)

(* Every variable keeps its type.                                          *)
FrameSeq == Seq(Nat \union {Hello})

ConnectionOK(c) ==
    /\ c \in [direction : {"inbound", "outbound"},
              state : {"none", "CONNECTING", "HANDSHAKING", "READY", "CLOSED"},
              wsUp : BOOLEAN, hello : BOOLEAN, ack : BOOLEAN, helloSent : BOOLEAN,
              wasReady : BOOLEAN, early : FrameSeq, listed : BOOLEAN]
    /\ c.state = "READY" => c.wasReady

GatewayTypeOK ==
    /\ ConnectionOK(a) /\ \A s \in Sockets : ConnectionOK(b[s])
    /\ dial \in DialStates /\ client \in {"down", "up", "ended"}
    /\ cur \in 0..MaxSockets /\ greeted \in BOOLEAN /\ timely \in BOOLEAN
    /\ mark \in [data : Nat, dropped : Nat, reads : BOOLEAN]
    /\ client = "up" => cur > 0
    /\ sending \in 0..DataA /\ nextA \in 1..(DataA + 1) /\ nextB \in 1..(DataB + 1)
    /\ \A t \in {"loop", "app"} : pendA[t] \in Seq(Nat)
    /\ net \in [Sockets -> {"none", "open", "closed"}]
    /\ \A s \in Sockets :
        /\ ab[s] \in FrameSeq /\ ba[s] \in FrameSeq
        /\ pendB[s] \in Seq(Nat) /\ logB[s] \in FrameSeq
        /\ sentAB[s] \in FrameSeq /\ sentBA[s] \in FrameSeq
    /\ logA \in FrameSeq
    /\ fetched \in [socket : 0..MaxSockets, frame : Nat \union {Hello}]

Count(s, e) == Cardinality({i \in DOMAIN s : s[i] = e})

(* Events pair: an outbound connection ends with exactly one               *)
(* on_disconnection, an inbound one with one if its on_connection was      *)
(* emitted and none otherwise, and a connection in the table with none.    *)
EventsPair ==
    /\ Count(logA, Down) = IF a.state = "CLOSED" THEN 1 ELSE 0
    /\ \A s \in Sockets :
        IF b[s].listed THEN Count(logB[s], Down) = 0
        ELSE pendB[s] = <<>> =>
            Count(logB[s], Down) = IF Count(logB[s], Up) > 0 THEN 1 ELSE 0

(* At the listening node a connection delivers no data before its          *)
(* on_connection, the frames it held included.                             *)
SinkAfterEvent ==
    \A s \in Sockets : \A i \in DOMAIN logB[s] :
        logB[s][i] > 0 => \E j \in 1..(i - 1) : logB[s][j] = Up

(* Frames are held only between HELLO and READY, within both bounds: no    *)
(* frame is left behind in a connection that is ready or closed.           *)
HeldUntilReady ==
    \A c \in {a} \union {b[s] : s \in Sockets} :
        /\ Len(c.early) <= Limit /\ Bytes(c.early) <= LimitBytes
        /\ c.early # <<>> => Holds(c)

(* As long as an inbound connection lasts, every data frame written to its *)
(* socket is delivered, in order and once, or still on its way: the        *)
(* greeting comes first on every socket, so none is dropped before HELLO.  *)
LosslessInbound ==
    \A s \in Sockets : b[s].listed =>
        sentAB[s] =
            Data(logB[s] \o pendB[s]) \o b[s].early
            \o (IF fetched.socket = s THEN Data(<<fetched.frame>>) ELSE <<>>)
            \o Data(ab[s])

(* So it is at the dialling node on its current socket, if connect() had   *)
(* subscribed to it before it opened: what its program has got since then, *)
(* and what is on its way, is what was written to the socket, in order and *)
(* once.                                                                   *)
LosslessOutbound ==
    client = "up" /\ timely /\ a.state # "CLOSED" =>
        sentBA[cur] = Rest(Data(logA), mark.data) \o Data(pendA.loop) \o Data(ba[cur])

(* When nothing is under way on a socket that is up, both nodes agree that *)
(* the handshake is complete, also if connect() subscribed to the states   *)
(* after the socket had opened.  It has to have subscribed to the frames   *)
(* before, and the client to have dropped no queued frame since: that may  *)
(* have been its HELLO_ACK.  What was dropped before does no harm.         *)
Quiet ==
    /\ client = "up" /\ mark.reads /\ greeted /\ net[cur] = "open"
    /\ dial \in {"wired", "listed"}
    /\ q.frames = <<>> /\ LoopFree /\ AppFree
    /\ ab[cur] = <<>> /\ ba[cur] = <<>> /\ ServerFree /\ b[cur].listed

Agreement ==
    Quiet /\ a.state # "CLOSED" /\ q.dropped = mark.dropped =>
        a.state = "READY" /\ b[cur].state = "READY"

(* On such a socket, if it stays up, the handshake completes at both nodes. *)
HandshakeCompletes ==
    <>[](/\ client = "up" /\ mark.reads /\ net[cur] = "open" /\ a.state # "CLOSED"
         /\ q.dropped = mark.dropped)
        => <>[](a.state = "READY" /\ b[cur].state = "READY")

-----------------------------------------------------------------------------
(* "Events pair: on_disconnection(conn_id) follows an on_connection for    *)
(* that connection."  It does not when the program disconnects between the *)
(* decision to emit on_connection and its emission.                        *)
DownIsLast ==
    \A log \in {logA} \union {logB[s] : s \in Sockets} :
        \A i, j \in DOMAIN log : i < j /\ log[i] = Down => log[j] # Up
=============================================================================
