--------------------------- MODULE ObserverSocket ---------------------------
(***************************************************************************)
(* The WebSocket sink and its connections: the reporter's writer thread    *)
(* that dials and sends lines, one reader thread per connection that       *)
(* answers the observer, and a thread that closes the sink at any time     *)
(* (rxplus/reacting/sinks.py WebSocketSink, _websocket.py; what the writer *)
(* does around them is the reporter's _try_open and _write).               *)
(*                                                                         *)
(* A frame is its opcode.  A send holds the connection's lock while the    *)
(* observer may stop reading; it ends, fails by its timeout, or fails when *)
(* the socket is shut down under it.                                       *)
(***************************************************************************)
EXTENDS Integers

CONSTANTS
    MaxConns,   \* bound: connections dialled
    MaxRead,    \* bound: frames the observer sends on one connection
    First,      \* backoff[0]
    Largest     \* backoff[1]

ASSUME SocketAssumption ==
    /\ {MaxConns, MaxRead} \subseteq Nat
    /\ First \in Nat \ {0} /\ Largest \in Nat /\ First <= Largest

Conns == 1..MaxConns
NoConn == 0
Closers == {"closer", "writer"}

VARIABLES
    sink,     \* the sink: conn, delay, refused
    dialled,  \* connections opened so far
    sock,     \* per connection: closed, closeSent, up, lock, ping, wire, read
    reader,   \* per connection: where its reader is, and the frame it sends
    writer,   \* where the writer is, and the connection it uses
    closer,   \* per closing thread: where it is, and the connection it closes
    closing   \* the reporter's _closing

vars == <<sink, dialled, sock, reader, writer, closer, closing>>

Init ==
    /\ sink = [conn |-> NoConn, delay |-> First, refused |-> FALSE]
    /\ dialled = 0
    /\ sock = [c \in Conns |-> [closed |-> FALSE, closeSent |-> FALSE, up |-> FALSE,
                                lock |-> "none", ping |-> FALSE, wire |-> "none", read |-> 0]]
    /\ reader = [c \in Conns |-> [at |-> "none", frame |-> "none"]]
    /\ writer = [at |-> "dial", on |-> NoConn]
    /\ closer = [th \in Closers |-> [at |-> "none", on |-> NoConn]]
    /\ closing = FALSE

-----------------------------------------------------------------------------
(* A connection: what its methods change.                                  *)

Abort(s) == [s EXCEPT !.closed = TRUE, !.up = FALSE]

(* Fault: the flag that nothing more may be sent is only set afterwards.   *)
LocksUnmarked(s, who, frame) == [s EXCEPT !.lock = who]

(* _send, under the lock: a Close is announced before it is sent.          *)
Locks(s, who, frame) ==
    [s EXCEPT !.lock = who, !.closeSent = @ \/ frame = "close"]

Unlocks(s) == [s EXCEPT !.lock = "none"]

Sent(s, frame) ==
    [Unlocks(s) EXCEPT !.wire = IF @ \in {"close", "after"} THEN "after" ELSE frame]

(* Part of the frame may be on the wire.                                   *)
SendFailed(s) == [Unlocks(s) EXCEPT !.wire = IF @ = "close" THEN @ ELSE "broken"]

-----------------------------------------------------------------------------
(* The writer: open(), write() line by line, retry_delay().                *)

IsOpen == sink.conn # NoConn /\ ~sock[sink.conn].closed

Idle == writer.at = "idle" /\ ~IsOpen

Doubled(d) == IF 2 * d > Largest THEN Largest ELSE 2 * d

(* retry_delay and _drop_connection: the delay starts over after a stable  *)
(* connection, and doubles up to the largest one.                          *)
Retries ==
    /\ Idle /\ ~sink.refused
    /\ \E d \in {sink.delay} \union (IF sink.conn # NoConn THEN {First} ELSE {}) :
          sink' = [sink EXCEPT !.conn = NoConn, !.delay = Doubled(d)]
    /\ sock' = IF sink.conn = NoConn THEN sock ELSE [sock EXCEPT ![sink.conn] = Abort(@)]
    /\ writer' = [writer EXCEPT !.at = IF closing THEN "ended" ELSE "dial"]
    /\ UNCHANGED <<dialled, reader, closer, closing>>

WriterEnds ==
    /\ Idle /\ (sink.refused \/ closing)
    /\ writer' = [writer EXCEPT !.at = "ended"]
    /\ UNCHANGED <<sink, dialled, sock, reader, closer, closing>>

(* open(): the dial fails, or is refused for good, or a reader starts.     *)
DialFails ==
    /\ writer.at = "dial"
    /\ \E refused \in BOOLEAN : sink' = [sink EXCEPT !.refused = refused]
    /\ writer' = [writer EXCEPT !.at = "idle"]
    /\ UNCHANGED <<dialled, sock, reader, closer, closing>>

DialSucceeds ==
    /\ writer.at = "dial"
    /\ dialled < MaxConns
    /\ dialled' = dialled + 1
    /\ sink' = [sink EXCEPT !.conn = dialled']
    /\ sock' = [sock EXCEPT ![dialled'].up = TRUE]
    /\ reader' = [reader EXCEPT ![dialled'].at = "read"]
    /\ writer' = [writer EXCEPT !.at = "opened"]
    /\ UNCHANGED <<closer, closing>>

(* _try_open: close() may have come during the connect.                    *)
Opened ==
    /\ writer.at = "opened"
    /\ ~closing
    /\ writer' = [writer EXCEPT !.at = "idle"]
    /\ UNCHANGED <<sink, dialled, sock, reader, closer, closing>>

(* write(): the sink's connection is read once.                            *)
Writes ==
    /\ writer.at = "idle" /\ IsOpen
    /\ writer' = [at |-> "lock", on |-> sink.conn]
    /\ UNCHANGED <<sink, dialled, sock, reader, closer, closing>>

WriterLocks ==
    LET c == writer.on
    IN  /\ writer.at = "lock"
        /\ sock[c].lock = "none"
        /\ \/ /\ sock[c].closeSent
              /\ writer' = [writer EXCEPT !.at = "failed"]
              /\ UNCHANGED sock
           \/ /\ ~sock[c].closeSent
              /\ sock' = [sock EXCEPT ![c] = Locks(@, "writer", "text")]
              /\ writer' = [writer EXCEPT !.at = "send"]
        /\ UNCHANGED <<sink, dialled, reader, closer, closing>>

WriterSent ==
    /\ writer.at = "send"
    /\ sock[writer.on].up
    /\ sock' = [sock EXCEPT ![writer.on] = Sent(@, "text")]
    /\ writer' = [at |-> "idle", on |-> NoConn]
    /\ UNCHANGED <<sink, dialled, reader, closer, closing>>

WriterSendFails ==
    /\ writer.at = "send"
    /\ sock' = [sock EXCEPT ![writer.on] = SendFailed(@)]
    /\ writer' = [writer EXCEPT !.at = "failed"]
    /\ UNCHANGED <<sink, dialled, reader, closer, closing>>

WriterAborts ==
    /\ writer.at = "failed"
    /\ sock' = [sock EXCEPT ![writer.on] = Abort(@)]
    /\ writer' = [at |-> "idle", on |-> NoConn]
    /\ UNCHANGED <<sink, dialled, reader, closer, closing>>

-----------------------------------------------------------------------------
(* The reader of connection c.                                             *)

ReaderOnly == UNCHANGED <<sink, dialled, writer, closer, closing>>

Moves(c, at, frame) == reader' = [reader EXCEPT ![c] = [at |-> at, frame |-> frame]]

(* A frame of the observer: data is ignored, unless it is too long.        *)
Reads(c) ==
    /\ reader[c].at = "read"
    /\ sock[c].up
    /\ sock[c].read < MaxRead
    /\ sock' = [sock EXCEPT ![c].read = @ + 1, ![c].ping = FALSE]
    /\ \/ Moves(c, "read", "none")
       \/ Moves(c, "lock", "pong")
       \/ Moves(c, "lock", "close")
    /\ ReaderOnly

(* _keepalive at an idle tick: a ping to a quiet observer, and the end of  *)
(* one that has not been heard since.                                      *)
IdleTick(c) ==
    /\ reader[c].at = "read"
    /\ sock[c].up
    /\ \/ ~sock[c].ping /\ Moves(c, "lock", "ping") /\ sock' = [sock EXCEPT ![c].ping = TRUE]
       \/ sock[c].ping /\ Moves(c, "abort", "none") /\ UNCHANGED sock
    /\ ReaderOnly

(* recv() fails or finds the end of the stream.                            *)
EndOfStream(c) ==
    /\ reader[c].at = "read"
    /\ Moves(c, "abort", "none")
    /\ UNCHANGED sock
    /\ ReaderOnly

ReaderLocks(c) ==
    /\ reader[c].at = "lock"
    /\ sock[c].lock = "none"
    /\ \/ /\ sock[c].closeSent
          /\ Moves(c, "abort", "none")
          /\ UNCHANGED sock
       \/ /\ ~sock[c].closeSent
          /\ sock' = [sock EXCEPT ![c] = Locks(@, "reader", reader[c].frame)]
          /\ Moves(c, "send", reader[c].frame)
    /\ ReaderOnly

ReaderSent(c) ==
    /\ reader[c].at = "send"
    /\ sock[c].up
    /\ sock' = [sock EXCEPT ![c] = Sent(@, reader[c].frame)]
    /\ Moves(c, IF reader[c].frame = "close" THEN "abort" ELSE "read", "none")
    /\ ReaderOnly

ReaderSendFails(c) ==
    /\ reader[c].at = "send"
    /\ sock' = [sock EXCEPT ![c] = SendFailed(@)]
    /\ Moves(c, "abort", "none")
    /\ ReaderOnly

ReaderAborts(c) ==
    /\ reader[c].at = "abort"
    /\ sock' = [sock EXCEPT ![c] = Abort(@)]
    /\ Moves(c, "ended", "none")
    /\ ReaderOnly

-----------------------------------------------------------------------------
(* WebSocketSink.close, in the thread that closes the reporter and in a    *)
(* writer whose connection opened too late.                                *)

CloserOnly == UNCHANGED <<dialled, reader, writer>>

Closes(th) ==
    /\ closer[th].at = "none"
    /\ th = "writer" => writer.at = "opened" /\ closing
    /\ closing' = TRUE
    /\ closer' = [closer EXCEPT ![th] =
          [at |-> IF sink.conn = NoConn THEN "done" ELSE "lock", on |-> sink.conn]]
    /\ sink' = [sink EXCEPT !.conn = NoConn]
    /\ UNCHANGED sock
    /\ CloserOnly

(* Fault: close() waits for a send in progress.                            *)
OnlyClosed(s) == s.closed

(* A connection that is closed already, or on which a send is in progress. *)
SkipsFrame(s) == s.closed \/ s.lock # "none"

CloserGoes(th, at) == closer' = [closer EXCEPT ![th].at = at]

(* WSConnection.close: a Close frame only when nobody is sending.          *)
CloserLocks(th) ==
    LET s == sock[closer[th].on]
    IN  /\ closer[th].at = "lock"
        /\ \/ /\ SkipsFrame(s)
              /\ CloserGoes(th, "abort")
              /\ UNCHANGED sock
           \/ /\ ~SkipsFrame(s) /\ s.lock = "none"
              /\ IF s.closeSent
                 THEN CloserGoes(th, "abort") /\ UNCHANGED sock
                 ELSE /\ sock' = [sock EXCEPT ![closer[th].on] = Locks(@, th, "close")]
                      /\ CloserGoes(th, "send")
        /\ UNCHANGED <<sink, closing>>
        /\ CloserOnly

CloserSends(th) ==
    LET c == closer[th].on
    IN  /\ closer[th].at = "send"
        /\ \/ sock[c].up /\ sock' = [sock EXCEPT ![c] = Sent(@, "close")]
           \/ sock' = [sock EXCEPT ![c] = SendFailed(@)]
        /\ CloserGoes(th, "abort")
        /\ UNCHANGED <<sink, closing>>
        /\ CloserOnly

CloserAborts(th) ==
    /\ closer[th].at = "abort"
    /\ sock' = [sock EXCEPT ![closer[th].on] = Abort(@)]
    /\ CloserGoes(th, "done")
    /\ UNCHANGED <<sink, closing>>
    /\ CloserOnly

ClosedLate ==
    /\ writer.at = "opened"
    /\ closer["writer"].at = "done"
    /\ writer' = [writer EXCEPT !.at = "ended"]
    /\ UNCHANGED <<sink, dialled, sock, reader, closer, closing>>

-----------------------------------------------------------------------------

Writer ==
    \/ Retries \/ WriterEnds \/ DialFails \/ DialSucceeds \/ Opened \/ ClosedLate
    \/ Writes \/ WriterLocks \/ WriterSent \/ WriterSendFails \/ WriterAborts

Reader(c) ==
    \/ Reads(c) \/ IdleTick(c) \/ EndOfStream(c)
    \/ ReaderLocks(c) \/ ReaderSent(c) \/ ReaderSendFails(c) \/ ReaderAborts(c)

Closer(th) == Closes(th) \/ CloserLocks(th) \/ CloserSends(th) \/ CloserAborts(th)

Next == Writer \/ (\E th \in Closers : Closer(th)) \/ \E c \in Conns : Reader(c)

(* A thread goes on, except that a send to an observer that does not read  *)
(* fails only once its socket is shut down: its timeout is not relied on.  *)
WriterGoesOn ==
    \/ Retries \/ WriterEnds \/ DialFails \/ Opened \/ ClosedLate \/ WriterLocks \/ WriterAborts
    \/ (writer.at = "send" /\ ~sock[writer.on].up /\ WriterSendFails)

ReaderGoesOn(c) ==
    \/ (~sock[c].up /\ EndOfStream(c))
    \/ ReaderLocks(c) \/ ReaderAborts(c)
    \/ (~sock[c].up /\ ReaderSendFails(c))

(* The Close frame of an idle connection does have the send's timeout.     *)
CloserGoesOn(th) ==
    (th = "writer" /\ Closes(th)) \/ CloserLocks(th) \/ CloserSends(th) \/ CloserAborts(th)

Spec ==
    /\ Init /\ [][Next]_vars
    /\ WF_vars(WriterGoesOn)
    /\ \A th \in Closers : WF_vars(CloserGoesOn(th))
    /\ \A c \in Conns : WF_vars(ReaderGoesOn(c))

-----------------------------------------------------------------------------

(* Every variable keeps its type.                                          *)
SocketTypeOK ==
    /\ sink \in [conn : 0..MaxConns, delay : First..Largest, refused : BOOLEAN]
    /\ dialled \in 0..MaxConns
    /\ \A c \in Conns : sock[c].lock \in {"none", "writer", "reader", "closer"}
    /\ closing \in BOOLEAN

(* Nothing follows a Close frame on the wire, whichever of the three       *)
(* threads sends it while the others want to send.                         *)
NothingAfterClose == \A c \in Conns : sock[c].wire # "after"

(* Once the sink is being closed, every connection is shut down and every  *)
(* thread ends, although the observer has stopped reading under a send.    *)
Released ==
    /\ closer["closer"].at = "done" /\ writer.at = "ended"
    /\ \A c \in 1..dialled : ~sock[c].up /\ reader[c].at = "ended"

CloseReleases == closing ~> Released

(* Where each thread goes on by itself: the guards of its actions, a send  *)
(* to an observer that does not read only once its socket is down.         *)
WritersTurn ==
    \/ writer.at \in {"dial", "failed"}
    \/ writer.at = "opened" /\ (~closing \/ closer["writer"].at = "done")
    \/ Idle
    \/ writer.at = "lock" /\ sock[writer.on].lock = "none"
    \/ writer.at = "send" /\ ~sock[writer.on].up

ReadersTurn(c) ==
    \/ reader[c].at \in {"read", "send"} /\ ~sock[c].up
    \/ reader[c].at = "lock" /\ sock[c].lock = "none"
    \/ reader[c].at = "abort"

ClosersTurn(th) ==
    \/ th = "writer" /\ closer[th].at = "none" /\ writer.at = "opened" /\ closing
    \/ closer[th].at \in {"lock", "send", "abort"}

SomebodysTurn ==
    WritersTurn \/ (\E th \in Closers : ClosersTurn(th)) \/ \E c \in Conns : ReadersTurn(c)

(* The guards are those of the fair actions.                               *)
TurnsEnabled ==
    /\ WritersTurn <=> ENABLED WriterGoesOn
    /\ \A th \in Closers : ClosersTurn(th) <=> ENABLED CloserGoesOn(th)
    /\ \A c \in Conns : ReadersTurn(c) <=> ENABLED ReaderGoesOn(c)

(* After close() some thread has a step to take until all have ended: none *)
(* waits for a lock, or for the observer, that another holds on to.        *)
CloseNeverBlocks == closing => SomebodysTurn \/ Released
=============================================================================
