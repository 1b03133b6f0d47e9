------------------------ MODULE ObserverSocketProofs ------------------------
(***************************************************************************)
(* Proofs about ObserverSocket, for any number of connections, any number  *)
(* of frames from the observer and any retry delays.                       *)
(*                                                                         *)
(* Nothing follows a Close frame because whoever sends holds the lock of   *)
(* the connection (the thread that sends is the one the lock names), and   *)
(* only starts on a wire without a Close frame.                            *)
(*                                                                         *)
(* close() ends every thread: a connection that is up is the sink's or is  *)
(* being closed, a lock that is taken belongs to a thread in a send, and   *)
(* every step of a thread takes something off what it has left.            *)
(***************************************************************************)
EXTENDS ObserverSocket, TLAPS

Frame == {"none", "text", "ping", "pong", "close"}

Socket ==
    [closed : BOOLEAN, closeSent : BOOLEAN, up : BOOLEAN,
     lock : {"none", "writer", "reader", "closer"}, ping : BOOLEAN,
     wire : Frame \union {"after", "broken"}, read : Nat]

SinkOK ==
    /\ sink \in [conn : 0..MaxConns, delay : First..Largest, refused : BOOLEAN]
    /\ dialled \in 0..MaxConns /\ closing \in BOOLEAN

SockOK == sock \in [Conns -> Socket]

WriterOK ==
    /\ writer \in [at : {"dial", "opened", "idle", "lock", "send", "failed", "ended"},
                   on : 0..MaxConns]
    /\ writer.at \in {"lock", "send", "failed"} => writer.on \in Conns

ReaderOK ==
    reader \in [Conns -> [at : {"none", "read", "lock", "send", "abort", "ended"}, frame : Frame]]

CloserOK ==
    /\ closer \in [Closers -> [at : {"none", "lock", "send", "abort", "done"}, on : 0..MaxConns]]
    /\ \A th \in Closers : closer[th].at \in {"lock", "send", "abort"} => closer[th].on \in Conns

(* The writer's own close() runs where the writer waits in open().         *)
WriterCloses ==
    /\ closer["writer"].at \in {"lock", "send", "abort"} => writer.at = "opened"
    /\ closer["writer"].at # "none" => closing

(* Who sends holds the lock, found no Close frame on the wire, and has     *)
(* announced its own.                                                      *)
Holds(s, who, frame) ==
    s.lock = who /\ s.wire # "close" /\ (frame = "close" => s.closeSent)

WriterHolds == writer.at = "send" => Holds(sock[writer.on], "writer", "text")

ReadersHold ==
    \A c \in Conns : reader[c].at = "send" => Holds(sock[c], "reader", reader[c].frame)

ClosersHold ==
    \A th \in Closers : closer[th].at = "send" => Holds(sock[closer[th].on], th, "close")

(* A Close frame on the wire was announced, and is the last.               *)
Last(s) == s.wire # "after" /\ (s.wire = "close" => s.closeSent)

CloseLast == \A c \in Conns : Last(sock[c])

TypesInv == SinkOK /\ SockOK /\ WriterOK /\ ReaderOK /\ CloserOK

SInv == TypesInv /\ WriterCloses /\ WriterHolds /\ ReadersHold /\ ClosersHold /\ CloseLast

USE SocketAssumption DEF Conns, Closers, NoConn

-----------------------------------------------------------------------------
(* What the methods of a connection do to its record.                      *)

LEMMA LocksProps ==
    ASSUME NEW s \in Socket, NEW who \in {"writer", "reader", "closer"}, NEW frame \in Frame,
           Last(s), ~s.closeSent
    PROVE  /\ Locks(s, who, frame) \in Socket
           /\ Last(Locks(s, who, frame)) /\ Holds(Locks(s, who, frame), who, frame)
BY DEF Locks, Socket, Last, Holds

LEMMA SentProps ==
    ASSUME NEW s \in Socket, NEW who, NEW frame \in Frame, Last(s), Holds(s, who, frame)
    PROVE  Sent(s, frame) \in Socket /\ Last(Sent(s, frame))
BY DEF Sent, Unlocks, Socket, Frame, Last, Holds

LEMMA SendFailedProps ==
    ASSUME NEW s \in Socket, Last(s)
    PROVE  SendFailed(s) \in Socket /\ Last(SendFailed(s))
BY DEF SendFailed, Unlocks, Socket, Last

(* A change of a connection that its senders do not notice.                *)
Same(s, t) ==
    t \in Socket /\ t.lock = s.lock /\ t.wire = s.wire /\ t.closeSent = s.closeSent

LEMMA AbortProps == ASSUME NEW s \in Socket PROVE Same(s, Abort(s))
BY DEF Abort, Socket, Same

(* One connection changes, and those who send on it still hold it.         *)
LEMMA OneChanges ==
    ASSUME SockOK, CloseLast, NEW c \in Conns, NEW s \in Socket, Last(s),
           sock' = [sock EXCEPT ![c] = s]
    PROVE  SockOK' /\ CloseLast' /\ sock'[c] = s /\ \A d \in Conns \ {c} : sock'[d] = sock[d]
BY DEF SockOK, CloseLast

SockQuiet == SockOK' /\ \A d \in Conns : Same(sock[d], sock'[d])

LEMMA QuietUnchanged == SockOK /\ UNCHANGED sock => SockQuiet
BY DEF SockOK, SockQuiet, Same

LEMMA QuietOne ==
    ASSUME SockOK, NEW c \in Conns, NEW s, Same(sock[c], s), sock' = [sock EXCEPT ![c] = s]
    PROVE  SockQuiet
BY DEF SockOK, SockQuiet, Same

LEMMA QuietLast == SockQuiet /\ CloseLast => CloseLast'
BY DEF SockQuiet, Same, CloseLast, Last

-----------------------------------------------------------------------------
(* Steps that start no send.                                               *)

LEMMA WriterMoves ==
    ASSUME SInv, SockQuiet, SinkOK', WriterOK', writer'.at # "send",
           writer'.at = "opened" \/ closer["writer"].at \notin {"lock", "send", "abort"},
           UNCHANGED <<reader, closer, closing>>
    PROVE  SInv'
<1>1. TypesInv' /\ WriterCloses'
  BY DEF SInv, TypesInv, SockQuiet, ReaderOK, CloserOK, WriterCloses
<1>2. WriterHolds' /\ ReadersHold' /\ ClosersHold'
  BY DEF SInv, TypesInv, CloserOK, SockQuiet, Same, WriterHolds, ReadersHold,
     ClosersHold, Holds
<1>. QED BY <1>1, <1>2, QuietLast DEF SInv

LEMMA ReaderMoves ==
    ASSUME SInv, SockQuiet, NEW c \in Conns,
           NEW at \in {"read", "lock", "abort", "ended"}, NEW frame \in Frame,
           Moves(c, at, frame), ReaderOnly
    PROVE  SInv'
<1>1. TypesInv' /\ WriterCloses'
  <2>1. ReaderOK'
    BY DEF SInv, TypesInv, ReaderOK, Moves
  <2>. QED BY <2>1 DEF SInv, TypesInv, SockQuiet, SinkOK, WriterOK, CloserOK,
     WriterCloses, ReaderOnly
<1>2. ReadersHold'
  <2>1. \A d \in Conns : reader'[d].at = "send" => d # c /\ reader'[d] = reader[d]
    BY DEF SInv, TypesInv, ReaderOK, Moves
  <2>. QED BY <2>1 DEF SInv, SockQuiet, Same, ReadersHold, Holds
<1>3. WriterHolds' /\ ClosersHold'
  BY DEF SInv, TypesInv, WriterOK, CloserOK, SockQuiet, Same, WriterHolds, ClosersHold,
     Holds,
         ReaderOnly
<1>. QED BY <1>1, <1>2, <1>3, QuietLast DEF SInv

LEMMA CloserMoves ==
    ASSUME SInv, SockQuiet, NEW th \in Closers, closer[th].at \in {"lock", "send", "abort"},
           NEW at \in {"abort", "done"}, CloserGoes(th, at), CloserOnly, UNCHANGED <<sink, closing>>
    PROVE  SInv'
<1>1. CloserOK' /\ \A x \in Closers : closer'[x].at = "send" => x # th /\ closer'[x] = closer[x]
  BY DEF SInv, TypesInv, CloserOK, CloserGoes
<1>2. TypesInv' /\ WriterCloses'
  BY <1>1 DEF SInv, TypesInv, SockQuiet, SinkOK, WriterOK, ReaderOK, CloserOK, WriterCloses,
              CloserGoes, CloserOnly
<1>3. ClosersHold'
  BY <1>1 DEF SInv, TypesInv, CloserOK, SockQuiet, Same, ClosersHold, Holds
<1>4. WriterHolds' /\ ReadersHold'
  BY DEF SInv, TypesInv, WriterOK, SockQuiet, Same, WriterHolds, ReadersHold, Holds,
     CloserOnly
<1>. QED BY <1>2, <1>3, <1>4, QuietLast DEF SInv

LEMMA DoubledProps == ASSUME NEW d \in First..Largest PROVE Doubled(d) \in First..Largest
BY DEF Doubled

LEMMA WriterQuietStep ==
    ASSUME SInv, Retries \/ WriterEnds \/ DialFails \/ DialSucceeds \/ Opened
                 \/ ClosedLate \/ Writes \/ WriterAborts
    PROVE  SInv'
<1>0. SInv /\ SockOK /\ SinkOK /\ WriterOK /\ WriterCloses
  BY DEF SInv, TypesInv
<1>1. ASSUME Retries PROVE SInv'
  <2>1. SockQuiet
    <3>1. CASE sink.conn = NoConn
      BY <1>0, <1>1, <3>1, QuietUnchanged DEF Retries
    <3>2. CASE sink.conn # NoConn
      <4>1. sink.conn \in Conns /\ sock[sink.conn] \in Socket
        BY <1>0, <3>2 DEF SinkOK, SockOK
      <4>2. sock' = [sock EXCEPT ![sink.conn] = Abort(sock[sink.conn])]
        BY <1>1, <3>2 DEF Retries
      <4>. QED BY <1>0, <4>1, <4>2, AbortProps, QuietOne
    <3>. QED BY <3>1, <3>2
  <2>2. SinkOK'
    <3>1. PICK d \in {sink.delay} \union {First} :
            sink' = [sink EXCEPT !.conn = NoConn, !.delay = Doubled(d)]
      BY <1>1 DEF Retries
    <3>2. Doubled(d) \in First..Largest
      BY <1>0, DoubledProps DEF SinkOK
    <3>3. UNCHANGED <<dialled, closing>>
      BY <1>1 DEF Retries
    <3>4. sink' = [conn |-> NoConn, delay |-> Doubled(d), refused |-> sink.refused]
      BY <1>0, <3>1 DEF SinkOK
    <3>5. NoConn \in 0..MaxConns /\ sink.refused \in BOOLEAN
      BY <1>0 DEF SinkOK
    <3>6. sink' \in [conn : 0..MaxConns, delay : First..Largest, refused : BOOLEAN]
      BY <3>2, <3>4, <3>5
    <3>. QED BY <1>0, <3>3, <3>6 DEF SinkOK
  <2>3. /\ WriterOK' /\ writer'.at # "send" /\ writer.at = "idle"
        /\ UNCHANGED <<reader, closer, closing>>
    BY <1>0, <1>1 DEF Retries, Idle, WriterOK
  <2>. QED BY <1>0, <2>1, <2>2, <2>3, WriterMoves DEF WriterCloses
<1>2. ASSUME DialSucceeds PROVE SInv'
  <2> DEFINE c == dialled + 1
             s == [sock[c] EXCEPT !.up = TRUE]
  <2>1. c \in Conns /\ sock[c] \in Socket
    BY <1>0, <1>2 DEF DialSucceeds, SinkOK, SockOK
  <2>2. SockQuiet
    <3>1. Same(sock[c], s)
      BY <2>1 DEF Socket, Same
    <3>2. sock' = [sock EXCEPT ![c] = s]
      BY <1>2 DEF DialSucceeds
    <3>. HIDE DEF s, c
    <3>. QED BY <1>0, <2>1, <3>1, <3>2, QuietOne
  <2>3. /\ SinkOK' /\ WriterOK' /\ writer'.at = "opened"
        /\ UNCHANGED <<closer, closing>>
    BY <1>0, <1>2 DEF DialSucceeds, SinkOK, WriterOK
  <2>4. reader' = [reader EXCEPT ![c].at = "read"]
    BY <1>2 DEF DialSucceeds
  <2>5. ReaderOK' /\ \A d \in Conns : reader'[d].at = "send" => reader'[d] = reader[d]
    BY <2>1, <2>4 DEF SInv, TypesInv, ReaderOK
  <2>6. TypesInv' /\ WriterCloses'
    BY <1>0, <2>2, <2>3, <2>5 DEF SInv, TypesInv, SockQuiet, CloserOK, WriterCloses
  <2>7. WriterHolds' /\ ReadersHold' /\ ClosersHold'
    BY <2>2, <2>3, <2>5 DEF SInv, TypesInv, CloserOK, SockQuiet, Same, WriterHolds,
       ReadersHold,
                            ClosersHold, Holds
  <2>. QED BY <2>2, <2>6, <2>7, QuietLast DEF SInv
<1>3. ASSUME WriterAborts PROVE SInv'
  <2>1. writer.on \in Conns /\ sock[writer.on] \in Socket
    BY <1>0, <1>3 DEF WriterAborts, WriterOK, SockOK
  <2>2. SockQuiet
    BY <1>0, <1>3, <2>1, AbortProps, QuietOne DEF WriterAborts
  <2>3. /\ SinkOK' /\ WriterOK' /\ writer'.at # "send" /\ writer.at = "failed"
        /\ UNCHANGED <<reader, closer, closing>>
    BY <1>0, <1>3 DEF WriterAborts, SinkOK, WriterOK
  <2>. QED BY <1>0, <2>2, <2>3, WriterMoves DEF WriterCloses
<1>4. ASSUME WriterEnds \/ DialFails \/ Opened \/ ClosedLate \/ Writes PROVE SInv'
  <2>1. SockQuiet
    BY <1>0, <1>4, QuietUnchanged DEF WriterEnds, DialFails, Opened, ClosedLate, Writes
  <2>2. /\ SinkOK' /\ WriterOK' /\ writer'.at # "send"
        /\ UNCHANGED <<reader, closer, closing>>
    BY <1>0, <1>4 DEF WriterEnds, Idle, IsOpen, DialFails, Opened, ClosedLate, Writes,
       SinkOK, WriterOK
  <2>3. closer["writer"].at \notin {"lock", "send", "abort"}
    BY <1>0, <1>4 DEF WriterEnds, Idle, DialFails, Opened, ClosedLate, Writes, WriterCloses
  <2>. QED BY <2>1, <2>2, <2>3, WriterMoves
<1>. QED BY <1>1, <1>2, <1>3, <1>4

LEMMA ReaderQuietStep ==
    ASSUME SInv, NEW c \in Conns, Reads(c) \/ IdleTick(c) \/ EndOfStream(c) \/ ReaderAborts(c)
                                 \/ (ReaderLocks(c) /\ sock[c].closeSent)
    PROVE  SInv'
<1>0. SockOK /\ sock[c] \in Socket
  BY DEF SInv, TypesInv, SockOK
<1>1. ASSUME Reads(c) PROVE SInv'
  <2> DEFINE s == [sock[c] EXCEPT !.read = sock[c].read + 1, !.ping = FALSE]
  <2>1. Same(sock[c], s)
    <3>1. sock[c].read + 1 \in Nat
      BY <1>0 DEF Socket
    <3>. QED BY <1>0, <3>1 DEF Socket, Same
  <2>2. sock' = [sock EXCEPT ![c] = s]
    BY <1>0, <1>1 DEF Reads, SockOK
  <2>. HIDE DEF s
  <2>3. SockQuiet
    BY <1>0, <2>1, <2>2, QuietOne
  <2>. QED BY <1>1, <2>3, ReaderMoves DEF Reads, Frame
<1>2. ASSUME IdleTick(c) PROVE SInv'
  <2> DEFINE s == [sock[c] EXCEPT !.ping = TRUE]
  <2>1. Same(sock[c], s)
    BY <1>0 DEF Socket, Same
  <2>2. sock' = [sock EXCEPT ![c] = s] \/ UNCHANGED sock
    BY <1>2 DEF IdleTick
  <2>. HIDE DEF s
  <2>3. SockQuiet
    BY <1>0, <2>1, <2>2, QuietOne, QuietUnchanged
  <2>. QED BY <1>2, <2>3, ReaderMoves DEF IdleTick, Frame
<1>3. ASSUME ReaderAborts(c) PROVE SInv'
  <2>1. SockQuiet
    BY <1>0, <1>3, AbortProps, QuietOne DEF ReaderAborts
  <2>. QED BY <1>3, <2>1, ReaderMoves DEF ReaderAborts, Frame
<1>4. ASSUME EndOfStream(c) \/ (ReaderLocks(c) /\ sock[c].closeSent) PROVE SInv'
  <2>1. SockQuiet
    BY <1>0, <1>4, QuietUnchanged DEF EndOfStream, ReaderLocks
  <2>. QED BY <1>4, <2>1, ReaderMoves DEF EndOfStream, ReaderLocks, Frame
<1>. QED BY <1>1, <1>2, <1>3, <1>4

LEMMA CloserQuietStep ==
    ASSUME SInv, NEW th \in Closers, CloserAborts(th) \/ (CloserLocks(th) /\ UNCHANGED sock)
    PROVE  SInv'
<1>1. SockOK /\ CloserOK /\ (closer[th].at = "abort" => closer[th].on \in Conns)
  BY DEF SInv, TypesInv, CloserOK
<1>2. ASSUME CloserAborts(th) PROVE SInv'
  <2>1. closer[th].on \in Conns /\ sock[closer[th].on] \in Socket
    BY <1>1, <1>2 DEF CloserAborts, SockOK
  <2>2. SockQuiet
    BY <1>1, <1>2, <2>1, AbortProps, QuietOne DEF CloserAborts
  <2>. QED BY <1>2, <2>2, CloserMoves DEF CloserAborts
<1>3. ASSUME CloserLocks(th), UNCHANGED sock PROVE SInv'
  <2>1. SockQuiet
    BY <1>1, <1>3, QuietUnchanged
  <2>2. CASE CloserGoes(th, "abort")
    BY <1>3, <2>1, <2>2, CloserMoves DEF CloserLocks
  <2>3. CASE ~CloserGoes(th, "abort")
    <3> DEFINE c == closer[th].on
    <3>1. c \in Conns /\ sock[c] \in Socket /\ sock[c].lock = "none" /\ ~sock[c].closeSent
      BY <1>1, <1>3, <2>3 DEF CloserLocks, SkipsFrame, CloserOK, SockOK
    <3>2. sock' = [sock EXCEPT ![c] = Locks(sock[c], th, "close")]
      BY <1>3, <2>3, <3>1 DEF CloserLocks
    <3>3. sock'[c].closeSent
      BY <1>1, <3>1, <3>2 DEF Locks, SockOK, Socket
    <3>. QED BY <1>3, <3>1, <3>3
  <2>. QED BY <2>2, <2>3
<1>. QED BY <1>2, <1>3

-----------------------------------------------------------------------------
(* Steps that take the lock or give it back.                               *)

LEMMA WriterSends ==
    ASSUME SInv, WriterLocks \/ WriterSent \/ WriterSendFails
    PROVE  SInv'
<1>1. ASSUME WriterLocks, sock[writer.on].closeSent PROVE SInv'
  <2>1. SockQuiet /\ SinkOK'
    BY <1>1, QuietUnchanged DEF WriterLocks, SInv, TypesInv, SinkOK
  <2>. QED BY <1>1, <2>1, WriterMoves DEF WriterLocks, SInv, TypesInv, WriterOK,
     WriterCloses
<1>2. ASSUME WriterLocks, ~sock[writer.on].closeSent PROVE SInv'
  <2> DEFINE c == writer.on
             s == Locks(sock[c], "writer", "text")
  <2>1. c \in Conns /\ sock[c] \in Socket /\ Last(sock[c])
    BY <1>2 DEF WriterLocks, SInv, TypesInv, SockOK, WriterOK, CloserOK, CloseLast
  <2>2. s \in Socket /\ Last(s) /\ Holds(s, "writer", "text")
    BY <1>2, <2>1, LocksProps DEF WriterLocks, SInv, TypesInv, ReaderOK, Frame
  <2>3. sock' = [sock EXCEPT ![c] = s]
    BY <1>2 DEF WriterLocks
  <2>. HIDE DEF s
  <2>4. SockOK' /\ CloseLast' /\ sock'[c] = s /\ \A d \in Conns \ {c} : sock'[d] = sock[d]
    BY <2>1, <2>2, <2>3, OneChanges DEF SInv, TypesInv
  <2>5. TypesInv' /\ WriterCloses'
    BY <1>2, <2>4 DEF WriterLocks, SInv, TypesInv, SinkOK, WriterOK, ReaderOK, CloserOK,
       WriterCloses, Frame
  <2>6. WriterHolds'
    BY <1>2, <2>1, <2>2, <2>4 DEF WriterLocks, TypesInv, WriterOK, CloserOK,
       WriterCloses, WriterHolds, ReadersHold, ClosersHold, SInv, Holds
  <2>7. ReadersHold'
    BY <1>2, <2>1, <2>2, <2>4 DEF WriterLocks, TypesInv, ReaderOK, WriterHolds,
       ReadersHold, ClosersHold, SInv, Holds
  <2>8. ClosersHold'
    BY <1>2, <2>1, <2>2, <2>4 DEF WriterLocks, TypesInv, CloserOK, WriterCloses,
       WriterHolds, ReadersHold, ClosersHold, SInv, Holds
  <2>. QED BY <2>4, <2>5, <2>6, <2>7, <2>8 DEF SInv
<1>3. ASSUME WriterSent PROVE SInv'
  <2> DEFINE c == writer.on
             s == Sent(sock[c], "text")
  <2>1. c \in Conns /\ sock[c] \in Socket /\ Last(sock[c])
    BY <1>3 DEF WriterSent, SInv, TypesInv, SockOK, WriterOK, CloserOK, CloseLast
  <2>2. s \in Socket /\ Last(s)
    BY <1>3, <2>1, SentProps DEF WriterSent, SInv, TypesInv, WriterOK, ReaderOK,
       CloserOK, WriterHolds, ReadersHold, ClosersHold, Frame
  <2>3. sock' = [sock EXCEPT ![c] = s]
    BY <1>3 DEF WriterSent
  <2>. HIDE DEF s
  <2>4. SockOK' /\ CloseLast' /\ sock'[c] = s /\ \A d \in Conns \ {c} : sock'[d] = sock[d]
    BY <2>1, <2>2, <2>3, OneChanges DEF SInv, TypesInv
  <2>5. TypesInv' /\ WriterCloses'
    BY <1>3, <2>4 DEF WriterSent, SInv, TypesInv, SinkOK, WriterOK, ReaderOK, CloserOK,
       WriterCloses, Frame
  <2>6. WriterHolds'
    BY <1>3, <2>1, <2>2, <2>4 DEF WriterSent, TypesInv, WriterOK, CloserOK, WriterCloses,
       WriterHolds, ReadersHold, ClosersHold, SInv, Holds
  <2>7. ReadersHold'
    BY <1>3, <2>1, <2>2, <2>4 DEF WriterSent, TypesInv, ReaderOK, WriterHolds,
       ReadersHold, ClosersHold, SInv, Holds
  <2>8. ClosersHold'
    BY <1>3, <2>1, <2>2, <2>4 DEF WriterSent, TypesInv, CloserOK, WriterCloses,
       WriterHolds, ReadersHold, ClosersHold, SInv, Holds
  <2>. QED BY <2>4, <2>5, <2>6, <2>7, <2>8 DEF SInv
<1>4. ASSUME WriterSendFails PROVE SInv'
  <2> DEFINE c == writer.on
             s == SendFailed(sock[c])
  <2>1. c \in Conns /\ sock[c] \in Socket /\ Last(sock[c])
    BY <1>4 DEF WriterSendFails, SInv, TypesInv, SockOK, WriterOK, CloserOK, CloseLast
  <2>2. s \in Socket /\ Last(s)
    BY <1>4, <2>1, SendFailedProps DEF WriterSendFails, SInv, TypesInv, WriterOK,
       ReaderOK, CloserOK, WriterHolds, ReadersHold, ClosersHold, Frame
  <2>3. sock' = [sock EXCEPT ![c] = s]
    BY <1>4 DEF WriterSendFails
  <2>. HIDE DEF s
  <2>4. SockOK' /\ CloseLast' /\ sock'[c] = s /\ \A d \in Conns \ {c} : sock'[d] = sock[d]
    BY <2>1, <2>2, <2>3, OneChanges DEF SInv, TypesInv
  <2>5. TypesInv' /\ WriterCloses'
    BY <1>4, <2>4 DEF WriterSendFails, SInv, TypesInv, SinkOK, WriterOK, ReaderOK,
       CloserOK, WriterCloses, Frame
  <2>6. WriterHolds'
    BY <1>4, <2>1, <2>2, <2>4 DEF WriterSendFails, TypesInv, WriterOK, CloserOK,
       WriterCloses, WriterHolds, ReadersHold, ClosersHold, SInv, Holds
  <2>7. ReadersHold'
    BY <1>4, <2>1, <2>2, <2>4 DEF WriterSendFails, TypesInv, ReaderOK, WriterHolds,
       ReadersHold, ClosersHold, SInv, Holds
  <2>8. ClosersHold'
    BY <1>4, <2>1, <2>2, <2>4 DEF WriterSendFails, TypesInv, CloserOK, WriterCloses,
       WriterHolds, ReadersHold, ClosersHold, SInv, Holds
  <2>. QED BY <2>4, <2>5, <2>6, <2>7, <2>8 DEF SInv
<1>. QED BY <1>1, <1>2, <1>3, <1>4

LEMMA ReaderSends ==
    ASSUME SInv, NEW r \in Conns, (ReaderLocks(r) /\ ~sock[r].closeSent) \/ ReaderSent(r)
                                 \/ ReaderSendFails(r)
    PROVE  SInv'
<1>1. ASSUME ReaderLocks(r), ~sock[r].closeSent PROVE SInv'
  <2> DEFINE c == r
             s == Locks(sock[c], "reader", reader[c].frame)
  <2>1. c \in Conns /\ sock[c] \in Socket /\ Last(sock[c])
    BY <1>1 DEF ReaderLocks, Moves, ReaderOnly, SInv, TypesInv, SockOK, WriterOK,
       CloserOK, CloseLast
  <2>2. s \in Socket /\ Last(s) /\ Holds(s, "reader", reader[c].frame)
    BY <1>1, <2>1, LocksProps DEF ReaderLocks, Moves, ReaderOnly, SInv, TypesInv,
       ReaderOK, Frame
  <2>3. sock' = [sock EXCEPT ![c] = s]
    BY <1>1 DEF ReaderLocks, Moves, ReaderOnly
  <2>. HIDE DEF s
  <2>4. SockOK' /\ CloseLast' /\ sock'[c] = s /\ \A d \in Conns \ {c} : sock'[d] = sock[d]
    BY <2>1, <2>2, <2>3, OneChanges DEF SInv, TypesInv
  <2>5. TypesInv' /\ WriterCloses'
    BY <1>1, <2>4 DEF ReaderLocks, Moves, ReaderOnly, SInv, TypesInv, SinkOK, WriterOK,
       ReaderOK, CloserOK, WriterCloses, Frame
  <2>6. WriterHolds'
    BY SMTT(30), <1>1, <2>1, <2>2, <2>4 DEF ReaderLocks, Moves, ReaderOnly, TypesInv, WriterOK,
       CloserOK, WriterCloses, WriterHolds, ReadersHold, ClosersHold, SInv, Holds
  <2>7. ReadersHold'
    BY SMTT(30), <1>1, <2>1, <2>2, <2>4 DEF ReaderLocks, Moves, ReaderOnly, TypesInv, ReaderOK,
       WriterHolds, ReadersHold, ClosersHold, SInv, Holds
  <2>8. ClosersHold'
    BY SMTT(30), <1>1, <2>1, <2>2, <2>4 DEF ReaderLocks, Moves, ReaderOnly, TypesInv, CloserOK,
       WriterCloses, WriterHolds, ReadersHold, ClosersHold, SInv, Holds
  <2>. QED BY <2>4, <2>5, <2>6, <2>7, <2>8 DEF SInv
<1>2. ASSUME ReaderSent(r) PROVE SInv'
  <2> DEFINE c == r
             s == Sent(sock[c], reader[c].frame)
  <2>1. c \in Conns /\ sock[c] \in Socket /\ Last(sock[c])
    BY <1>2 DEF ReaderSent, Moves, ReaderOnly, SInv, TypesInv, SockOK, WriterOK,
       CloserOK, CloseLast
  <2>2. s \in Socket /\ Last(s)
    <3>1. reader[c].frame \in Frame /\ Holds(sock[c], "reader", reader[c].frame)
      BY <1>2, <2>1 DEF ReaderSent, SInv, TypesInv, ReaderOK, ReadersHold
    <3>. QED BY <2>1, <3>1, SentProps
  <2>3. sock' = [sock EXCEPT ![c] = s]
    BY <1>2 DEF ReaderSent, Moves, ReaderOnly
  <2>. HIDE DEF s
  <2>4. SockOK' /\ CloseLast' /\ sock'[c] = s /\ \A d \in Conns \ {c} : sock'[d] = sock[d]
    BY <2>1, <2>2, <2>3, OneChanges DEF SInv, TypesInv
  <2>5. TypesInv' /\ WriterCloses'
    BY <1>2, <2>4 DEF ReaderSent, Moves, ReaderOnly, SInv, TypesInv, SinkOK, WriterOK,
       ReaderOK, CloserOK, WriterCloses, Frame
  <2>6. WriterHolds'
    BY SMTT(30), <1>2, <2>1, <2>2, <2>4 DEF ReaderSent, Moves, ReaderOnly, TypesInv, WriterOK,
       CloserOK, WriterCloses, WriterHolds, ReadersHold, ClosersHold, SInv, Holds
  <2>7. ReadersHold'
    BY SMTT(30), <1>2, <2>1, <2>2, <2>4 DEF ReaderSent, Moves, ReaderOnly, TypesInv, ReaderOK,
       WriterHolds, ReadersHold, ClosersHold, SInv, Holds
  <2>8. ClosersHold'
    BY SMTT(30), <1>2, <2>1, <2>2, <2>4 DEF ReaderSent, Moves, ReaderOnly, TypesInv, CloserOK,
       WriterCloses, WriterHolds, ReadersHold, ClosersHold, SInv, Holds
  <2>. QED BY <2>4, <2>5, <2>6, <2>7, <2>8 DEF SInv
<1>3. ASSUME ReaderSendFails(r) PROVE SInv'
  <2> DEFINE c == r
             s == SendFailed(sock[c])
  <2>1. c \in Conns /\ sock[c] \in Socket /\ Last(sock[c])
    BY <1>3 DEF ReaderSendFails, Moves, ReaderOnly, SInv, TypesInv, SockOK, WriterOK,
       CloserOK, CloseLast
  <2>2. s \in Socket /\ Last(s)
    BY <1>3, <2>1, SendFailedProps DEF ReaderSendFails, Moves, ReaderOnly, SInv,
       TypesInv, WriterOK, ReaderOK, CloserOK, WriterHolds, ReadersHold, ClosersHold, Frame
  <2>3. sock' = [sock EXCEPT ![c] = s]
    BY <1>3 DEF ReaderSendFails, Moves, ReaderOnly
  <2>. HIDE DEF s
  <2>4. SockOK' /\ CloseLast' /\ sock'[c] = s /\ \A d \in Conns \ {c} : sock'[d] = sock[d]
    BY <2>1, <2>2, <2>3, OneChanges DEF SInv, TypesInv
  <2>5. TypesInv' /\ WriterCloses'
    BY <1>3, <2>4 DEF ReaderSendFails, Moves, ReaderOnly, SInv, TypesInv, SinkOK,
       WriterOK, ReaderOK, CloserOK, WriterCloses, Frame
  <2>6. WriterHolds'
    BY SMTT(30), <1>3, <2>1, <2>2, <2>4 DEF ReaderSendFails, Moves, ReaderOnly, TypesInv, WriterOK,
       CloserOK, WriterCloses, WriterHolds, ReadersHold, ClosersHold, SInv, Holds
  <2>7. ReadersHold'
    BY SMTT(30), <1>3, <2>1, <2>2, <2>4 DEF ReaderSendFails, Moves, ReaderOnly, TypesInv, ReaderOK,
       WriterHolds, ReadersHold, ClosersHold, SInv, Holds
  <2>8. ClosersHold'
    BY SMTT(30), <1>3, <2>1, <2>2, <2>4 DEF ReaderSendFails, Moves, ReaderOnly, TypesInv, CloserOK,
       WriterCloses, WriterHolds, ReadersHold, ClosersHold, SInv, Holds
  <2>. QED BY <2>4, <2>5, <2>6, <2>7, <2>8 DEF SInv
<1>. QED BY <1>1, <1>2, <1>3

(* close() begins: no connection changes.                                  *)
LEMMA CloserBegins == ASSUME SInv, NEW th \in Closers, Closes(th) PROVE SInv'
<1>1. ASSUME Closes(th) PROVE SInv'
  <2>1. TypesInv'
    <3>0. SinkOK'
      BY <1>1 DEF Closes, CloserOnly, SInv, TypesInv, SinkOK
    <3>1. SockOK' /\ WriterOK' /\ ReaderOK'
      BY <1>1 DEF Closes, CloserOnly, SInv, TypesInv, SockOK, WriterOK, ReaderOK
    <3>2. CloserOK'
      BY <1>1 DEF Closes, SInv, TypesInv, SinkOK, CloserOK
    <3>. QED BY <3>0, <3>1, <3>2 DEF TypesInv
  <2>2. WriterCloses' /\ WriterHolds' /\ CloseLast'
    BY SMTT(30), <1>1 DEF Closes, CloserOnly, SInv, TypesInv, SinkOK, SockOK, WriterOK,
       CloserOK, WriterCloses, WriterHolds, CloseLast
  <2>3. ReadersHold' /\ ClosersHold'
    BY SMTT(30), <1>1 DEF Closes, CloserOnly, SInv, TypesInv, SinkOK, SockOK, ReaderOK,
       CloserOK, WriterCloses, ReadersHold, ClosersHold
  <2>. QED BY <2>1, <2>2, <2>3 DEF SInv
<1>. QED BY <1>1

LEMMA CloserSendsClose ==
    ASSUME SInv, NEW th \in Closers, (CloserLocks(th) /\ ~UNCHANGED sock) \/ CloserSends(th)
    PROVE  SInv'
<1>1. ASSUME CloserLocks(th), ~UNCHANGED sock PROVE SInv'
  <2> DEFINE c == closer[th].on
             s == Locks(sock[c], th, "close")
  <2>1. /\ c \in Conns /\ sock[c] \in Socket /\ Last(sock[c])
        /\ sock[c].lock = "none" /\ ~sock[c].closeSent
    BY <1>1 DEF CloserLocks, SkipsFrame, SInv, TypesInv, SockOK, CloserOK, CloseLast
  <2>2. s \in Socket /\ Last(s) /\ Holds(s, th, "close")
    BY <2>1, LocksProps DEF Frame
  <2>3. sock' = [sock EXCEPT ![c] = s] /\ closer' = [closer EXCEPT ![th].at = "send"]
    BY <1>1 DEF CloserLocks, CloserGoes
  <2>4. UNCHANGED <<sink, closing, dialled, reader, writer>>
    BY <1>1 DEF CloserLocks, CloserOnly
  <2>. HIDE DEF s
  <2>5. SockOK' /\ CloseLast' /\ sock'[c] = s /\ \A d \in Conns \ {c} : sock'[d] = sock[d]
    BY <2>1, <2>2, <2>3, OneChanges DEF SInv, TypesInv
  <2>6. closer[th].at = "lock"
    BY <1>1 DEF CloserLocks
  <2>7. CloserOK' /\ \A x \in Closers : closer'[x] # closer[x] => x = th
    BY <2>3, <2>6 DEF SInv, TypesInv, CloserOK
  <2>8. TypesInv' /\ WriterCloses'
    BY <2>3, <2>4, <2>5, <2>6, <2>7 DEF SInv, TypesInv, SinkOK, WriterOK, ReaderOK,
       CloserOK, WriterCloses
  <2>9. WriterHolds' /\ ReadersHold'
    BY <2>1, <2>4, <2>5 DEF SInv, TypesInv, WriterOK, WriterHolds, ReadersHold, Holds
  <2>10. ClosersHold'
    <3> SUFFICES ASSUME NEW x \in Closers, closer'[x].at = "send"
                 PROVE  Holds(sock'[closer'[x].on], x, "close")
      BY DEF ClosersHold, Holds
    <3>1. CASE x = th
      BY <2>2, <2>3, <2>5, <2>7, <3>1 DEF SInv, TypesInv, CloserOK
    <3>2. CASE x # th
      <4>1. /\ closer'[x] = closer[x] /\ closer[x].on \in Conns
            /\ Holds(sock[closer[x].on], x, "close")
        BY <2>7, <3>2 DEF SInv, TypesInv, CloserOK, ClosersHold
      <4>2. closer[x].on # c
        BY <2>1, <4>1 DEF Holds
      <4>. QED BY <2>5, <4>1, <4>2
    <3>. QED BY <3>1, <3>2
  <2>. QED BY <2>5, <2>8, <2>9, <2>10 DEF SInv
<1>2. ASSUME CloserSends(th), sock' = [sock EXCEPT ![closer[th].on] = Sent(@, "close")] PROVE SInv'
  <2> DEFINE c == closer[th].on
             s == Sent(sock[c], "close")
  <2>1. c \in Conns /\ sock[c] \in Socket /\ Last(sock[c])
    BY <1>2 DEF CloserSends, CloserGoes, CloserOnly, SInv, TypesInv, SockOK, WriterOK,
       CloserOK, CloseLast
  <2>2. s \in Socket /\ Last(s)
    BY <1>2, <2>1, SentProps DEF CloserSends, CloserGoes, CloserOnly, SInv, TypesInv,
       WriterOK, ReaderOK, CloserOK, WriterHolds, ReadersHold, ClosersHold, Frame
  <2>3. sock' = [sock EXCEPT ![c] = s]
    BY <1>2 DEF CloserSends, CloserGoes, CloserOnly
  <2>. HIDE DEF s
  <2>4. SockOK' /\ CloseLast' /\ sock'[c] = s /\ \A d \in Conns \ {c} : sock'[d] = sock[d]
    BY <2>1, <2>2, <2>3, OneChanges DEF SInv, TypesInv
  <2>5. TypesInv' /\ WriterCloses'
    BY <1>2, <2>4 DEF CloserSends, CloserGoes, CloserOnly, SInv, TypesInv, SinkOK,
       WriterOK, ReaderOK, CloserOK, WriterCloses, Frame
  <2>6. WriterHolds'
    BY <1>2, <2>1, <2>2, <2>4 DEF CloserSends, CloserGoes, CloserOnly, TypesInv,
       WriterOK, CloserOK, WriterCloses, WriterHolds, ReadersHold, ClosersHold, SInv, Holds
  <2>7. ReadersHold'
    BY <1>2, <2>1, <2>2, <2>4 DEF CloserSends, CloserGoes, CloserOnly, TypesInv,
       ReaderOK, WriterHolds, ReadersHold, ClosersHold, SInv, Holds
  <2>8. ClosersHold'
    BY <1>2, <2>1, <2>2, <2>4 DEF CloserSends, CloserGoes, CloserOnly, TypesInv,
       CloserOK, WriterCloses, WriterHolds, ReadersHold, ClosersHold, SInv, Holds
  <2>. QED BY <2>4, <2>5, <2>6, <2>7, <2>8 DEF SInv
<1>3. ASSUME CloserSends(th), sock' = [sock EXCEPT ![closer[th].on] = SendFailed(@)] PROVE SInv'
  <2> DEFINE c == closer[th].on
             s == SendFailed(sock[c])
  <2>1. c \in Conns /\ sock[c] \in Socket /\ Last(sock[c])
    BY <1>3 DEF CloserSends, CloserGoes, CloserOnly, SInv, TypesInv, SockOK, WriterOK,
       CloserOK, CloseLast
  <2>2. s \in Socket /\ Last(s)
    BY <1>3, <2>1, SendFailedProps DEF CloserSends, CloserGoes, CloserOnly, SInv,
       TypesInv, WriterOK, ReaderOK, CloserOK, WriterHolds, ReadersHold, ClosersHold, Frame
  <2>3. sock' = [sock EXCEPT ![c] = s]
    BY <1>3 DEF CloserSends, CloserGoes, CloserOnly
  <2>. HIDE DEF s
  <2>4. SockOK' /\ CloseLast' /\ sock'[c] = s /\ \A d \in Conns \ {c} : sock'[d] = sock[d]
    BY <2>1, <2>2, <2>3, OneChanges DEF SInv, TypesInv
  <2>5. TypesInv' /\ WriterCloses'
    BY <1>3, <2>4 DEF CloserSends, CloserGoes, CloserOnly, SInv, TypesInv, SinkOK,
       WriterOK, ReaderOK, CloserOK, WriterCloses, Frame
  <2>6. WriterHolds'
    BY <1>3, <2>1, <2>2, <2>4 DEF CloserSends, CloserGoes, CloserOnly, TypesInv,
       WriterOK, CloserOK, WriterCloses, WriterHolds, ReadersHold, ClosersHold, SInv, Holds
  <2>7. ReadersHold'
    BY <1>3, <2>1, <2>2, <2>4 DEF CloserSends, CloserGoes, CloserOnly, TypesInv,
       ReaderOK, WriterHolds, ReadersHold, ClosersHold, SInv, Holds
  <2>8. ClosersHold'
    BY <1>3, <2>1, <2>2, <2>4 DEF CloserSends, CloserGoes, CloserOnly, TypesInv,
       CloserOK, WriterCloses, WriterHolds, ReadersHold, ClosersHold, SInv, Holds
  <2>. QED BY <2>4, <2>5, <2>6, <2>7, <2>8 DEF SInv
<1>4. CloserSends(th) => \/ sock' = [sock EXCEPT ![closer[th].on] = Sent(@, "close")]
                       \/ sock' = [sock EXCEPT ![closer[th].on] = SendFailed(@)]
  BY DEF CloserSends
<1>. QED BY <1>1, <1>2, <1>3, <1>4

-----------------------------------------------------------------------------

LEMMA InitOK == Init => SInv
<1> SUFFICES ASSUME Init PROVE SInv
  OBVIOUS
<1>1. SinkOK /\ WriterOK
  <2>1. First \in First..Largest /\ 0 \in 0..MaxConns
    OBVIOUS
  <2>. QED BY <2>1 DEF Init, SinkOK, WriterOK
<1>2. SockOK
  BY DEF Init, SockOK, Socket, Frame
<1>3. ReaderOK /\ CloserOK
  BY DEF Init, ReaderOK, CloserOK, Frame
<1>. QED BY <1>1, <1>2, <1>3 DEF Init, SInv, TypesInv, WriterCloses, WriterHolds,
   ReadersHold, ClosersHold, CloseLast, Last

LEMMA StepOK == SInv /\ [Next]_vars => SInv'
<1> SUFFICES ASSUME SInv, [Next]_vars PROVE SInv'
  OBVIOUS
<1>1. ASSUME Writer PROVE SInv'
  BY <1>1, WriterQuietStep, WriterSends DEF Writer
<1>2. ASSUME NEW th \in Closers, Closer(th) PROVE SInv'
  BY <1>2, CloserBegins, CloserQuietStep, CloserSendsClose DEF Closer
<1>3. ASSUME NEW c \in Conns, Reader(c) PROVE SInv'
  BY <1>3, ReaderQuietStep, ReaderSends DEF Reader
<1>4. ASSUME UNCHANGED vars PROVE SInv'
  BY <1>4 DEF vars, SInv, TypesInv, SinkOK, SockOK, WriterOK, ReaderOK, CloserOK,
     WriterCloses, WriterHolds, ReadersHold, ClosersHold, CloseLast
<1>. QED BY <1>1, <1>2, <1>3, <1>4 DEF Next

(* The delay of the sink stays within its backoff, a lock names the thread *)
(* that has it, for any number of connections.                             *)
THEOREM SocketTypes == Spec => []SocketTypeOK
<1>1. SInv => SocketTypeOK
  BY DEF SInv, TypesInv, SinkOK, SockOK, Socket, SocketTypeOK
<1>. QED BY InitOK, StepOK, <1>1, PTL DEF Spec

(* The observer receives nothing after a Close frame, whether its reader   *)
(* echoed it or a closing thread sent it while the writer was at work.     *)
THEOREM CloseIsLast == Spec => []NothingAfterClose
<1>1. SInv => NothingAfterClose
  BY DEF SInv, CloseLast, Last, NothingAfterClose
<1>. QED BY InitOK, StepOK, <1>1, PTL DEF Spec
-----------------------------------------------------------------------------
(* The end of the threads.                                                 *)

(* Who could still close connection c.                                     *)
ClosesOn(th, c) == closer[th].on = c /\ closer[th].at \in {"lock", "send", "abort"}

(* The sink is the writer's: it has no connection while the writer dials,  *)
(* and after close() only one that opened too late, which the writer will  *)
(* close.                                                                  *)
SinkKept ==
    /\ sink.conn <= dialled
    /\ closing => closer["closer"].at # "none"
    /\ closer["writer"].at # "none" => closing /\ writer.at \in {"opened", "ended"}
    /\ writer.at = "dial" => sink.conn = NoConn
    /\ closing /\ sink.conn # NoConn => writer.at = "opened" /\ closer["writer"].at = "none"

(* A connection that is up is the sink's, or somebody is closing it.       *)
UpIsKept == \A c \in Conns : sock[c].up => sink.conn = c \/ \E th \in Closers : ClosesOn(th, c)

(* A lock that is taken belongs to a thread in a send.                     *)
LockIsHeld ==
    \A c \in Conns :
       \/ sock[c].lock = "none"
       \/ sock[c].lock = "reader" /\ reader[c].at = "send"
       \/ writer.at = "send" /\ writer.on = c
       \/ \E th \in Closers : closer[th].at = "send" /\ closer[th].on = c

(* Each connection dialled has a reader.                                   *)
ReadersRun == \A c \in Conns : reader[c].at = "none" <=> dialled < c

EndInv == SInv /\ SinkKept /\ UpIsKept /\ LockIsHeld /\ ReadersRun

(* What each thread still has to do.                                       *)
WriterLeft ==
    IF writer.at = "lock" THEN 4
    ELSE IF writer.at = "send" THEN 3
    ELSE IF writer.at \in {"dial", "failed"} THEN 2
    ELSE IF writer.at \in {"opened", "idle"} THEN 1
    ELSE 0

CloserLeft(th) ==
    IF closer[th].at = "none" THEN 4
    ELSE IF closer[th].at = "lock" THEN 3
    ELSE IF closer[th].at = "send" THEN 2
    ELSE IF closer[th].at = "abort" THEN 1
    ELSE 0

(* What the writer and the closing threads still have to do.               *)
CloseLeft == WriterLeft + CloserLeft("closer") + CloserLeft("writer")

ReaderLeft(c) ==
    IF reader[c].at = "none" THEN 5
    ELSE IF reader[c].at = "read" THEN 4
    ELSE IF reader[c].at = "lock" THEN 3
    ELSE IF reader[c].at = "send" THEN 2
    ELSE IF reader[c].at = "abort" THEN 1
    ELSE 0

(* Closing winds down: nothing adds to what the writer and the closing     *)
(* threads have to do, nor to what a reader has once its socket is down.   *)
ClosingWinds ==
    closing =>
      /\ CloseLeft' <= CloseLeft
      /\ Writer \/ (\E th \in Closers : Closer(th)) => CloseLeft' < CloseLeft
      /\ \A c \in Conns : ~sock[c].up =>
            /\ ReaderLeft(c)' <= ReaderLeft(c)
            /\ Reader(c) => ReaderLeft(c)' < ReaderLeft(c)

LEMMA EndInit == Init => EndInv
<1> SUFFICES ASSUME Init PROVE EndInv
  OBVIOUS
<1>1. SinkKept /\ LockIsHeld /\ ReadersRun
  BY DEF Init, SinkKept, LockIsHeld, ReadersRun
<1>2. UpIsKept
  BY DEF Init, UpIsKept
<1>. QED BY <1>1, <1>2, InitOK DEF EndInv

LEMMA SinkIsKept == ASSUME SInv, SinkKept, Next PROVE SinkKept'
<1>0. SinkOK /\ WriterOK /\ CloserOK
  BY DEF SInv, TypesInv
<1>1. CASE Retries
  BY <1>0, <1>1 DEF Retries, Idle, SinkOK, WriterOK, SinkKept
<1>2. CASE DialSucceeds
  BY <1>0, <1>2 DEF DialSucceeds, SinkOK, WriterOK, SinkKept
<1>3. CASE WriterEnds \/ DialFails \/ Opened \/ ClosedLate \/ Writes \/ WriterLocks
           \/ WriterSent \/ WriterSendFails \/ WriterAborts
  BY <1>0, <1>3 DEF WriterEnds, Idle, DialFails, Opened, ClosedLate, Writes, WriterLocks,
     WriterSent, WriterSendFails, WriterAborts, SinkOK, WriterOK, SinkKept
<1>4. CASE \E c \in Conns : Reader(c)
  <2>1. ReaderOnly
    BY <1>4 DEF Reader, Reads, IdleTick, EndOfStream, ReaderLocks, ReaderSent,
       ReaderSendFails, ReaderAborts
  <2>. QED BY <2>1 DEF ReaderOnly, SinkKept
<1>5. CASE \E th \in Closers : Closer(th)
  <2> PICK th \in Closers : Closer(th)
    BY <1>5
  <2>1. CASE Closes(th)
    BY <1>0, <2>1 DEF Closes, CloserOnly, SinkOK, CloserOK, SinkKept
  <2>2. CASE CloserLocks(th) \/ CloserSends(th) \/ CloserAborts(th)
    BY <1>0, <2>2 DEF CloserLocks, CloserSends, CloserAborts, CloserGoes, CloserOnly,
       CloserOK, SinkKept
  <2>. QED BY <2>1, <2>2 DEF Closer
<1>. QED BY <1>1, <1>2, <1>3, <1>4, <1>5 DEF Next, Writer

(* Nobody but the dial brings a socket up.                                 *)
NoneUp == \A c \in Conns : sock'[c].up => sock[c].up

LEMMA NoneUpOne ==
    ASSUME SockOK, NEW c \in Conns, NEW s, s.up => sock[c].up, sock' = [sock EXCEPT ![c] = s]
    PROVE  NoneUp
BY DEF SockOK, NoneUp

LEMMA UpDoes ==
    ASSUME NEW s \in Socket, NEW who \in {"writer", "reader", "closer"}, NEW frame
    PROVE  /\ Locks(s, who, frame).up = s.up /\ Sent(s, frame).up = s.up
           /\ SendFailed(s).up = s.up /\ ~Abort(s).up
BY DEF Locks, Sent, SendFailed, Unlocks, Abort, Socket

LEMMA OnlyDialBringsUp ==
    ASSUME SInv, Next, ~DialSucceeds
    PROVE  NoneUp
<1>0. SockOK /\ SinkOK /\ WriterOK /\ CloserOK
  BY DEF SInv, TypesInv
<1>1. CASE UNCHANGED sock
  BY <1>1 DEF NoneUp
<1>2. CASE Retries /\ sink.conn # NoConn
  <2>1. sink.conn \in Conns /\ sock[sink.conn] \in Socket
    BY <1>0, <1>2 DEF SinkOK, SockOK
  <2>2. sock' = [sock EXCEPT ![sink.conn] = Abort(sock[sink.conn])]
    BY <1>2 DEF Retries
  <2>. QED BY <1>0, <2>1, <2>2, UpDoes, NoneUpOne
<1>3. ASSUME WriterLocks \/ WriterSent \/ WriterSendFails \/ WriterAborts, sock' # sock PROVE NoneUp
  <2>1. writer.on \in Conns /\ sock[writer.on] \in Socket
    BY <1>0, <1>3 DEF WriterLocks, WriterSent, WriterSendFails, WriterAborts, WriterOK, SockOK
  <2> DEFINE S == {Locks(sock[writer.on], "writer", "text"), Sent(sock[writer.on], "text"),
                   SendFailed(sock[writer.on]), Abort(sock[writer.on])}
  <2>2. \E s \in S : sock' = [sock EXCEPT ![writer.on] = s]
    BY <1>3 DEF WriterLocks, WriterSent, WriterSendFails, WriterAborts
  <2>3. \A s \in S : s.up => sock[writer.on].up
    BY <2>1, UpDoes
  <2>. HIDE DEF S
  <2>. QED BY <1>0, <2>1, <2>2, <2>3, NoneUpOne
<1>4. ASSUME NEW th \in Closers, Closer(th), sock' # sock PROVE NoneUp
  <2> DEFINE c == closer[th].on
  <2>1. c \in Conns /\ sock[c] \in Socket
    BY <1>0, <1>4 DEF Closer, Closes, CloserLocks, CloserSends, CloserAborts, CloserOK, SockOK
  <2> DEFINE S == {Locks(sock[c], th, "close"), Sent(sock[c], "close"), SendFailed(sock[c]),
                   Abort(sock[c])}
  <2>2. \E s \in S : sock' = [sock EXCEPT ![c] = s]
    BY <1>4 DEF Closer, Closes, CloserLocks, CloserSends, CloserAborts
  <2>3. \A s \in S : s.up => sock[c].up
    BY <2>1, UpDoes
  <2>. HIDE DEF S
  <2>. QED BY <1>0, <2>1, <2>2, <2>3, NoneUpOne
<1>5. ASSUME NEW c \in Conns, Reader(c), sock' # sock PROVE NoneUp
  <2>1. sock[c] \in Socket
    BY <1>0 DEF SockOK
  <2>2. CASE Reads(c) \/ IdleTick(c)
    BY <1>0, <1>5, <2>2 DEF Reads, IdleTick, SockOK, NoneUp
  <2>3. CASE ~(Reads(c) \/ IdleTick(c))
    <3> DEFINE S == {Locks(sock[c], "reader", reader[c].frame), Sent(sock[c], reader[c].frame),
                     SendFailed(sock[c]), Abort(sock[c])}
    <3>1. \E s \in S : sock' = [sock EXCEPT ![c] = s]
      BY <1>5, <2>3 DEF Reader, EndOfStream, ReaderLocks, ReaderSent, ReaderSendFails, ReaderAborts
    <3>2. \A s \in S : s.up => sock[c].up
      BY <2>1, UpDoes
    <3>. HIDE DEF S
    <3>. QED BY <1>0, <2>1, <3>1, <3>2, NoneUpOne
  <2>. QED BY <2>2, <2>3
<1>6. CASE sock' # sock
  <2>1. Writer => \/ Retries /\ sink.conn # NoConn
                  \/ WriterLocks \/ WriterSent \/ WriterSendFails \/ WriterAborts
    BY <1>6 DEF Writer, Retries, WriterEnds, DialFails, Opened, ClosedLate, Writes
  <2>. QED BY <1>2, <1>3, <1>4, <1>5, <1>6, <2>1 DEF Next
<1>. QED BY <1>1, <1>6

LEMMA UpStaysKept == ASSUME SInv, SinkKept, UpIsKept, Next PROVE UpIsKept'
<1>0. SockOK /\ SinkOK /\ WriterOK /\ CloserOK
  BY DEF SInv, TypesInv
<1>1. CASE DialSucceeds
  BY <1>0, <1>1 DEF DialSucceeds, SockOK, SinkOK, SinkKept, UpIsKept, ClosesOn
<1>2. CASE Retries
  <2>1. CASE sink.conn = NoConn
    BY <1>0, <1>2, <2>1 DEF Retries, UpIsKept, ClosesOn
  <2>2. CASE sink.conn # NoConn
    <3>1. /\ sink.conn \in Conns /\ sock' = [sock EXCEPT ![sink.conn] = Abort(sock[sink.conn])]
          /\ UNCHANGED closer
      BY <1>0, <1>2, <2>2 DEF Retries, SinkOK
    <3>2. ~sock'[sink.conn].up /\ \A c \in Conns \ {sink.conn} : sock'[c] = sock[c]
      BY <1>0, <3>1, UpDoes DEF SockOK
    <3>. QED BY <3>1, <3>2 DEF UpIsKept, ClosesOn
  <2>. QED BY <2>1, <2>2
<1>3. CASE Writer /\ ~DialSucceeds /\ ~Retries
  <2>1. sink'.conn = sink.conn /\ UNCHANGED closer
    BY <1>0, <1>3 DEF Writer, WriterEnds, DialFails, Opened, ClosedLate, Writes, WriterLocks,
       WriterSent, WriterSendFails, WriterAborts, SinkOK
  <2>2. NoneUp
    BY <1>3, OnlyDialBringsUp
  <2>. QED BY <2>1, <2>2 DEF NoneUp, UpIsKept, ClosesOn
<1>4. ASSUME NEW r \in Conns, Reader(r) PROVE UpIsKept'
  <2>1. ReaderOnly
    BY <1>4 DEF Reader, Reads, IdleTick, EndOfStream, ReaderLocks, ReaderSent,
       ReaderSendFails, ReaderAborts
  <2>2. ~DialSucceeds
    BY <1>0, <2>1 DEF ReaderOnly, DialSucceeds, SinkOK
  <2>3. NoneUp
    BY <2>2, OnlyDialBringsUp
  <2>. QED BY <2>1, <2>3 DEF ReaderOnly, NoneUp, UpIsKept, ClosesOn
<1>5. ASSUME NEW th \in Closers, Closer(th) PROVE UpIsKept'
  <2>1. UNCHANGED dialled
    BY <1>5 DEF Closer, Closes, CloserLocks, CloserSends, CloserAborts, CloserOnly
  <2>2. ~DialSucceeds
    BY <1>0, <2>1 DEF DialSucceeds, SinkOK
  <2>3. NoneUp
    BY <2>2, OnlyDialBringsUp
  <2>4. CASE Closes(th)
    BY <1>0, <2>4 DEF Closes, SinkOK, CloserOK, UpIsKept, ClosesOn
  <2>5. CASE CloserLocks(th) \/ CloserSends(th)
    <3>1. /\ UNCHANGED sink
          /\ closer'[th].on = closer[th].on /\ closer'[th].at \in {"send", "abort"}
          /\ \A x \in Closers \ {th} : closer'[x] = closer[x]
      BY <1>0, <2>5 DEF CloserLocks, CloserSends, CloserGoes, CloserOK
    <3>2. closer[th].at \in {"lock", "send"}
      BY <2>5 DEF CloserLocks, CloserSends
    <3>3. \A x \in Closers, c \in Conns : ClosesOn(x, c) => ClosesOn(x, c)'
      BY <3>1, <3>2 DEF ClosesOn
    <3>. QED BY <2>3, <3>1, <3>3 DEF NoneUp, UpIsKept
  <2>6. CASE CloserAborts(th)
    <3>1. /\ UNCHANGED sink /\ closer[th].on \in Conns
          /\ \A x \in Closers \ {th} : closer'[x] = closer[x]
      BY <1>0, <2>6 DEF CloserAborts, CloserGoes, CloserOK
    <3>2. ~sock'[closer[th].on].up
      BY <1>0, <2>6, <3>1, UpDoes DEF CloserAborts, SockOK
    <3>. QED BY <2>3, <3>1, <3>2 DEF NoneUp, UpIsKept, ClosesOn
  <2>. QED BY <1>5, <2>4, <2>5, <2>6 DEF Closer
<1>. QED BY <1>1, <1>2, <1>3, <1>4, <1>5 DEF Next

LEMMA LockDoes ==
    ASSUME NEW s \in Socket, NEW who \in {"writer", "reader", "closer"}, NEW frame
    PROVE  /\ Locks(s, who, frame).lock = who /\ Sent(s, frame).lock = "none"
           /\ SendFailed(s).lock = "none" /\ Abort(s).lock = s.lock
BY DEF Locks, Sent, SendFailed, Unlocks, Abort, Socket

(* A thread lets go of the lock in the step that ends its send.            *)
LEMMA LocksOne ==
    ASSUME SockOK, NEW c \in Conns, NEW s, sock' = [sock EXCEPT ![c] = s]
    PROVE  sock'[c] = s /\ \A d \in Conns \ {c} : sock'[d] = sock[d]
BY DEF SockOK

LEMMA WriterKeepsLocks == ASSUME SInv, LockIsHeld, ReadersRun, Writer PROVE LockIsHeld'
<1>0. SockOK /\ SinkOK /\ WriterOK /\ CloserOK /\ UNCHANGED closer
  BY DEF SInv, TypesInv, Writer, Retries, WriterEnds, DialFails, DialSucceeds, Opened, ClosedLate,
     Writes, WriterLocks, WriterSent, WriterSendFails, WriterAborts
<1>1. CASE Retries
  <2>1. \A c \in Conns : sock'[c].lock = sock[c].lock
    <3>1. CASE sink.conn = NoConn
      BY <1>1, <3>1 DEF Retries
    <3>2. CASE sink.conn # NoConn
      <4>1. /\ sink.conn \in Conns /\ sock[sink.conn] \in Socket
            /\ sock' = [sock EXCEPT ![sink.conn] = Abort(sock[sink.conn])]
        BY <1>0, <1>1, <3>2 DEF Retries, SinkOK, SockOK
      <4>. QED BY <1>0, <4>1, LockDoes DEF SockOK
    <3>. QED BY <3>1, <3>2
  <2>2. writer.at = "idle" /\ UNCHANGED reader
    BY <1>1 DEF Retries, Idle
  <2>. QED BY <1>0, <2>1, <2>2 DEF LockIsHeld
<1>2. CASE DialSucceeds
  <2>1. \A c \in Conns : /\ sock'[c].lock = sock[c].lock
                         /\ reader[c].at = "send" /\ c # dialled + 1 => reader'[c].at = "send"
    BY <1>0, <1>2 DEF DialSucceeds, SinkOK, SockOK, Socket, SInv, TypesInv, ReaderOK
  <2>2. writer.at = "dial" /\ writer'.at = "opened"
    BY <1>0, <1>2 DEF DialSucceeds, WriterOK
  <2>3. reader[dialled + 1].at # "send"
    BY <1>0, <1>2 DEF DialSucceeds, SinkOK, ReadersRun
  <2>. QED BY <1>0, <2>1, <2>2, <2>3 DEF LockIsHeld
<1>3. CASE WriterEnds \/ DialFails \/ Opened \/ ClosedLate \/ Writes
           \/ (WriterLocks /\ sock[writer.on].closeSent)
  <2>1. UNCHANGED <<sock, reader>> /\ writer.at # "send"
    BY <1>3 DEF WriterEnds, Idle, DialFails, Opened, ClosedLate, Writes, WriterLocks
  <2>. QED BY <1>0, <2>1 DEF LockIsHeld
<1>4. CASE WriterAborts
  <2>1. /\ writer.on \in Conns /\ sock[writer.on] \in Socket /\ UNCHANGED reader
        /\ sock' = [sock EXCEPT ![writer.on] = Abort(sock[writer.on])] /\ writer.at # "send"
    BY <1>0, <1>4 DEF WriterAborts, WriterOK, SockOK
  <2>2. \A c \in Conns : sock'[c].lock = sock[c].lock
    BY <1>0, <2>1, LockDoes, LocksOne
  <2>. QED BY <1>0, <2>1, <2>2 DEF LockIsHeld
<1>5. CASE WriterLocks /\ ~sock[writer.on].closeSent
  <2>1. /\ writer.on \in Conns /\ UNCHANGED reader
        /\ sock' = [sock EXCEPT ![writer.on] = Locks(sock[writer.on], "writer", "text")]
        /\ writer.at # "send" /\ writer'.at = "send" /\ writer'.on = writer.on
    BY <1>0, <1>5 DEF WriterLocks, WriterOK
  <2>2. \A c \in Conns \ {writer.on} : sock'[c] = sock[c]
    BY <1>0, <2>1, LocksOne
  <2>. QED BY <1>0, <2>1, <2>2 DEF LockIsHeld
<1>6. CASE WriterSent \/ WriterSendFails
  <2>1. /\ writer.on \in Conns /\ sock[writer.on] \in Socket /\ UNCHANGED reader
        /\ \/ sock' = [sock EXCEPT ![writer.on] = Sent(sock[writer.on], "text")]
           \/ sock' = [sock EXCEPT ![writer.on] = SendFailed(sock[writer.on])]
    BY <1>0, <1>6 DEF WriterSent, WriterSendFails, WriterOK, SockOK
  <2>2. sock'[writer.on].lock = "none" /\ \A c \in Conns \ {writer.on} : sock'[c] = sock[c]
    BY <1>0, <2>1, LockDoes, LocksOne
  <2>. QED BY <1>0, <2>1, <2>2 DEF LockIsHeld
<1>. QED BY <1>1, <1>2, <1>3, <1>4, <1>5, <1>6 DEF Writer

LEMMA ReaderKeepsLocks == ASSUME SInv, LockIsHeld, NEW r \in Conns, Reader(r) PROVE LockIsHeld'
<1>0. /\ SockOK /\ sock[r] \in Socket /\ ReaderOK /\ UNCHANGED <<writer, closer>>
  BY DEF SInv, TypesInv, SockOK, Reader, Reads, IdleTick, EndOfStream, ReaderLocks, ReaderSent,
     ReaderSendFails, ReaderAborts, ReaderOnly
<1>1. \A c \in Conns \ {r} : sock'[c] = sock[c] /\ reader'[c] = reader[c]
  BY <1>0 DEF SockOK, ReaderOK, Moves, Reader, Reads, IdleTick, EndOfStream, ReaderLocks,
     ReaderSent, ReaderSendFails, ReaderAborts
<1>2. CASE Reads(r) \/ IdleTick(r)
  <2>1. sock'[r].lock = sock[r].lock /\ reader[r].at # "send"
    BY <1>0, <1>2 DEF Reads, IdleTick, SockOK, Socket
  <2>. QED BY <1>0, <1>1, <2>1 DEF LockIsHeld
<1>3. CASE EndOfStream(r) \/ ReaderAborts(r) \/ (ReaderLocks(r) /\ sock[r].closeSent)
  <2>1. reader[r].at # "send" /\ (UNCHANGED sock \/ sock' = [sock EXCEPT ![r] = Abort(sock[r])])
    BY <1>3 DEF EndOfStream, ReaderAborts, ReaderLocks
  <2>2. sock'[r].lock = sock[r].lock
    BY <1>0, <2>1, LockDoes, LocksOne
  <2>. QED BY <1>0, <1>1, <2>1, <2>2 DEF LockIsHeld
<1>4. CASE ReaderLocks(r) /\ ~sock[r].closeSent
  <2>1. /\ sock' = [sock EXCEPT ![r] = Locks(sock[r], "reader", reader[r].frame)]
        /\ reader'[r].at = "send"
    BY <1>0, <1>4 DEF ReaderLocks, Moves, ReaderOK
  <2>2. sock'[r].lock = "reader"
    <3>1. Locks(sock[r], "reader", reader[r].frame).lock = "reader"
      BY <1>0, LockDoes
    <3>. QED BY <1>0, <2>1, <3>1, LocksOne
  <2>. QED BY <1>0, <1>1, <2>1, <2>2 DEF LockIsHeld
<1>5. CASE ReaderSent(r) \/ ReaderSendFails(r)
  <2>1. \/ sock' = [sock EXCEPT ![r] = Sent(sock[r], reader[r].frame)]
        \/ sock' = [sock EXCEPT ![r] = SendFailed(sock[r])]
    BY <1>5 DEF ReaderSent, ReaderSendFails
  <2>2. sock'[r].lock = "none"
    BY <1>0, <2>1, LockDoes, LocksOne
  <2>. QED BY <1>0, <1>1, <2>2 DEF LockIsHeld
<1>. QED BY <1>2, <1>3, <1>4, <1>5 DEF Reader

LEMMA CloserKeepsLocks == ASSUME SInv, LockIsHeld, NEW th \in Closers, Closer(th) PROVE LockIsHeld'
<1>0. SockOK /\ CloserOK /\ UNCHANGED <<reader, writer>>
  BY DEF SInv, TypesInv, Closer, Closes, CloserLocks, CloserSends, CloserAborts, CloserOnly
<1> DEFINE c == closer[th].on
<1>1. \A x \in Closers \ {th} : closer'[x] = closer[x]
  BY <1>0 DEF Closer, Closes, CloserLocks, CloserSends, CloserAborts, CloserGoes, CloserOK
<1>2. CASE Closes(th)
  <2>1. UNCHANGED sock /\ closer[th].at # "send"
    BY <1>2 DEF Closes
  <2>. QED BY <1>0, <1>1, <2>1 DEF LockIsHeld
<1>3. CASE CloserLocks(th)
  <2>1. c \in Conns /\ closer[th].at = "lock"
    BY <1>0, <1>3 DEF CloserLocks, CloserOK
  <2>2. CASE UNCHANGED sock
    BY <1>0, <1>1, <2>1, <2>2 DEF LockIsHeld
  <2>3. CASE ~UNCHANGED sock
    <3>1. sock' = [sock EXCEPT ![c] = Locks(sock[c], th, "close")] /\ CloserGoes(th, "send")
      BY <1>3, <2>3 DEF CloserLocks
    <3>2. closer'[th].at = "send" /\ closer'[th].on = c
      BY <1>0, <3>1 DEF CloserGoes, CloserOK
    <3>3. \A d \in Conns \ {c} : sock'[d] = sock[d]
      BY <1>0, <2>1, <3>1, LocksOne
    <3>. QED BY <1>0, <1>1, <2>1, <3>2, <3>3 DEF LockIsHeld
  <2>. QED BY <2>2, <2>3
<1>4. CASE CloserSends(th)
  <2>1. /\ c \in Conns /\ sock[c] \in Socket
        /\ \/ sock' = [sock EXCEPT ![c] = Sent(sock[c], "close")]
           \/ sock' = [sock EXCEPT ![c] = SendFailed(sock[c])]
    BY <1>0, <1>4 DEF CloserSends, CloserOK, SockOK
  <2>2. sock'[c].lock = "none" /\ \A d \in Conns \ {c} : sock'[d] = sock[d]
    <3>1. Sent(sock[c], "close").lock = "none" /\ SendFailed(sock[c]).lock = "none"
      BY <2>1, LockDoes
    <3>. QED BY <1>0, <2>1, <3>1, LocksOne
  <2>. QED BY <1>0, <1>1, <2>1, <2>2 DEF LockIsHeld
<1>5. CASE CloserAborts(th)
  <2>1. /\ c \in Conns /\ sock[c] \in Socket /\ closer[th].at # "send"
        /\ sock' = [sock EXCEPT ![c] = Abort(sock[c])]
    BY <1>0, <1>5 DEF CloserAborts, CloserOK, SockOK
  <2>2. \A d \in Conns : sock'[d].lock = sock[d].lock
    BY <1>0, <2>1, LockDoes, LocksOne
  <2>. QED BY <1>0, <1>1, <2>1, <2>2 DEF LockIsHeld
<1>. QED BY <1>2, <1>3, <1>4, <1>5 DEF Closer

LEMMA ReadersStillRun == ASSUME SInv, ReadersRun, Next PROVE ReadersRun'
<1>0. SinkOK /\ ReaderOK
  BY DEF SInv, TypesInv
<1>1. CASE DialSucceeds
  BY <1>0, <1>1 DEF DialSucceeds, SinkOK, ReaderOK, ReadersRun
<1>2. CASE Writer /\ ~DialSucceeds
  BY <1>2 DEF Writer, Retries, WriterEnds, DialFails, Opened, ClosedLate, Writes, WriterLocks,
     WriterSent, WriterSendFails, WriterAborts, ReadersRun
<1>3. ASSUME NEW th \in Closers, Closer(th) PROVE ReadersRun'
  BY <1>3 DEF Closer, Closes, CloserLocks, CloserSends, CloserAborts, CloserOnly, ReadersRun
<1>4. ASSUME NEW r \in Conns, Reader(r) PROVE ReadersRun'
  <2>1. /\ UNCHANGED dialled /\ reader[r].at # "none" /\ reader'[r].at # "none"
        /\ \A c \in Conns \ {r} : reader'[c] = reader[c]
    BY <1>0, <1>4 DEF Reader, Reads, IdleTick, EndOfStream, ReaderLocks, ReaderSent,
       ReaderSendFails, ReaderAborts, ReaderOnly, Moves, ReaderOK
  <2>. QED BY <2>1 DEF ReadersRun
<1>. QED BY <1>1, <1>2, <1>3, <1>4 DEF Next

LEMMA EndInvariant == Spec => []EndInv
<1>1. EndInv /\ Next => EndInv'
  BY StepOK, SinkIsKept, UpStaysKept, WriterKeepsLocks, ReaderKeepsLocks, CloserKeepsLocks,
     ReadersStillRun DEF EndInv, Next
<1>2. EndInv /\ UNCHANGED vars => EndInv'
  <2>1. SInv /\ UNCHANGED vars => SInv'
    BY StepOK
  <2>. QED BY <2>1 DEF EndInv, SinkKept, UpIsKept, ClosesOn, LockIsHeld, ReadersRun, vars
<1>. QED BY <1>1, <1>2, EndInit, PTL DEF Spec

(* Of the threads that wait for one another after close(), one can go on.  *)
LEMMA EndNeverBlocks == EndInv => CloseNeverBlocks
<1> SUFFICES ASSUME EndInv, closing, ~SomebodysTurn PROVE Released
  BY DEF CloseNeverBlocks
<1>0. SinkOK /\ SockOK /\ WriterOK /\ ReaderOK /\ CloserOK
  BY DEF EndInv, SInv, TypesInv
<1>1. ~WritersTurn /\ (\A th \in Closers : ~ClosersTurn(th)) /\ \A c \in Conns : ~ReadersTurn(c)
  BY DEF SomebodysTurn
<1>2. closer["closer"].at = "done" /\ closer["writer"].at \in {"none", "done"}
  BY <1>0, <1>1 DEF EndInv, SinkKept, ClosersTurn, CloserOK
<1>3. writer.at # "opened"
  BY <1>1, <1>2 DEF ClosersTurn, WritersTurn
<1>4. sink.conn = NoConn
  BY <1>3 DEF EndInv, SinkKept
<1>5. \A c \in Conns : ~sock[c].up
  BY <1>2, <1>4 DEF EndInv, UpIsKept, ClosesOn
<1>6. writer.at # "send"
  BY <1>0, <1>1, <1>5 DEF WritersTurn, WriterOK, EndInv, SInv, WriterHolds, Holds, SockOK, Socket
<1>7. \A c \in Conns : reader[c].at \notin {"read", "send", "abort"}
  BY <1>1, <1>5 DEF ReadersTurn
<1>8. \A c \in Conns : sock[c].lock = "none"
  BY <1>2, <1>6, <1>7 DEF EndInv, LockIsHeld
<1>9. \A c \in Conns : reader[c].at \in {"none", "ended"}
  BY <1>0, <1>1, <1>7, <1>8 DEF ReadersTurn, ReaderOK
<1>10. writer.at = "ended"
  BY <1>0, <1>1, <1>3, <1>4, <1>6, <1>8 DEF WritersTurn, WriterOK, Idle, IsOpen
<1>. QED BY <1>0, <1>2, <1>5, <1>9, <1>10 DEF Released, EndInv, ReadersRun, SinkOK

(* From the moment close() is called until every thread has ended, one of  *)
(* them has a step to take that needs neither another's lock nor an        *)
(* observer that reads, for any number of connections.                     *)
THEOREM CloseBlocksNobody == Spec => []CloseNeverBlocks
BY EndInvariant, EndNeverBlocks, PTL

LEMMA CloseLeftTypes ==
    /\ WriterLeft \in Nat /\ CloseLeft \in Nat
    /\ \A th \in Closers : CloserLeft(th) \in Nat
    /\ \A c \in Conns : ReaderLeft(c) \in Nat
BY DEF WriterLeft, CloserLeft, CloseLeft, ReaderLeft

LEMMA WriterWinds ==
    ASSUME EndInv, closing, Writer
    PROVE  CloseLeft' < CloseLeft /\ \A c \in Conns : ReaderLeft(c)' <= ReaderLeft(c)
<1>0. WriterOK /\ ReaderOK /\ SinkOK
  BY DEF EndInv, SInv, TypesInv
<1>1. UNCHANGED closer
  BY DEF Writer, Retries, WriterEnds, DialFails, DialSucceeds, Opened, ClosedLate,
     Writes, WriterLocks, WriterSent, WriterSendFails, WriterAborts
<1>2. CloserLeft("closer")' = CloserLeft("closer") /\ CloserLeft("writer")' = CloserLeft("writer")
  BY <1>1 DEF CloserLeft
<1>3. WriterLeft' < WriterLeft
  <2>1. ~Opened /\ ~Writes
    BY DEF Opened, Writes, IsOpen, EndInv, SinkKept
  <2>2. CASE Retries \/ WriterEnds \/ DialFails \/ DialSucceeds \/ ClosedLate
    <3>1. \/ writer.at = "dial" /\ writer'.at \in {"idle", "opened"}
          \/ writer.at \in {"idle", "opened"} /\ writer'.at = "ended"
      BY <1>0, <2>2 DEF Retries, WriterEnds, Idle, DialFails, DialSucceeds, ClosedLate, WriterOK
    <3>. QED BY <3>1 DEF WriterLeft
  <2>3. CASE WriterLocks \/ WriterSent \/ WriterSendFails \/ WriterAborts
    <3>1. \/ writer.at = "lock" /\ writer'.at \in {"send", "failed"}
          \/ writer.at = "send" /\ writer'.at \in {"idle", "failed"}
          \/ writer.at = "failed" /\ writer'.at = "idle"
      <4>1. CASE WriterLocks \/ WriterSendFails
        BY <1>0, <4>1 DEF WriterLocks, WriterSendFails, WriterOK
      <4>2. CASE WriterSent \/ WriterAborts
        <5>1. writer.at \in {"send", "failed"} /\ writer' = [at |-> "idle", on |-> NoConn]
          BY <4>2 DEF WriterSent, WriterAborts
        <5>2. writer'.at = "idle"
          BY <5>1
        <5>. QED BY <5>1, <5>2
      <4>. QED BY <2>3, <4>1, <4>2
    <3>. QED BY <3>1 DEF WriterLeft
  <2>. QED BY <2>1, <2>2, <2>3 DEF Writer
<1>4. CloseLeft' < CloseLeft
  <2>1. /\ WriterLeft \in Nat /\ WriterLeft' \in Nat
        /\ CloserLeft("closer") \in Nat /\ CloserLeft("writer") \in Nat
    BY DEF WriterLeft, CloserLeft
  <2>. QED BY <1>2, <1>3, <2>1 DEF CloseLeft
<1>5. ASSUME NEW c \in Conns PROVE ReaderLeft(c)' <= ReaderLeft(c)
  <2>1. CASE DialSucceeds
    <3>1. reader[dialled + 1].at = "none" /\ reader' = [reader EXCEPT ![dialled + 1].at = "read"]
      BY <1>0, <2>1 DEF DialSucceeds, SinkOK, EndInv, ReadersRun
    <3>2. reader'[c] = reader[c] \/ (reader[c].at = "none" /\ reader'[c].at = "read")
      BY <1>0, <3>1 DEF ReaderOK
    <3>. QED BY <3>2 DEF ReaderLeft
  <2>2. CASE ~DialSucceeds
    <3>1. UNCHANGED reader
      BY <2>2 DEF Writer, Retries, WriterEnds, DialFails, Opened, ClosedLate,
         Writes, WriterLocks, WriterSent, WriterSendFails, WriterAborts
    <3>. QED BY <3>1 DEF ReaderLeft
  <2>. QED BY <2>1, <2>2
<1>. QED BY <1>4, <1>5

LEMMA CloserWinds ==
    ASSUME EndInv, NEW th \in Closers, Closer(th)
    PROVE  CloseLeft' < CloseLeft /\ \A c \in Conns : ReaderLeft(c)' = ReaderLeft(c)
<1>0. CloserOK
  BY DEF EndInv, SInv, TypesInv
<1>1. UNCHANGED <<reader, writer>>
  BY DEF Closer, Closes, CloserLocks, CloserSends, CloserAborts, CloserOnly
<1>2. CloserLeft(th)' < CloserLeft(th)
  BY <1>0 DEF Closer, Closes, CloserLocks, CloserSends, CloserAborts, CloserGoes, CloserOK,
     CloserLeft
<1>3. \A x \in Closers \ {th} : CloserLeft(x)' = CloserLeft(x)
  <2>1. \A x \in Closers \ {th} : closer'[x] = closer[x]
    BY <1>0 DEF Closer, Closes, CloserLocks, CloserSends, CloserAborts, CloserGoes, CloserOK
  <2>. QED BY <2>1 DEF CloserLeft
<1>4. WriterLeft' = WriterLeft /\ \A c \in Conns : ReaderLeft(c)' = ReaderLeft(c)
  BY <1>1 DEF WriterLeft, ReaderLeft
<1>5. /\ WriterLeft \in Nat /\ CloserLeft("closer") \in Nat /\ CloserLeft("writer") \in Nat
      /\ CloserLeft("closer")' \in Nat /\ CloserLeft("writer")' \in Nat
  BY DEF WriterLeft, CloserLeft
<1>6. CASE th = "closer"
  BY <1>2, <1>3, <1>4, <1>5, <1>6 DEF CloseLeft
<1>7. CASE th = "writer"
  BY <1>2, <1>3, <1>4, <1>5, <1>7 DEF CloseLeft
<1>. QED BY <1>4, <1>6, <1>7

LEMMA ReaderWinds ==
    ASSUME EndInv, NEW r \in Conns, Reader(r)
    PROVE  /\ CloseLeft' = CloseLeft
           /\ \A c \in Conns \ {r} : ReaderLeft(c)' = ReaderLeft(c)
           /\ ~sock[r].up => ReaderLeft(r)' < ReaderLeft(r)
<1>0. ReaderOK
  BY DEF EndInv, SInv, TypesInv
<1>1. UNCHANGED <<writer, closer>> /\ \A c \in Conns \ {r} : reader'[c] = reader[c]
  BY <1>0 DEF Reader, Reads, IdleTick, EndOfStream, ReaderLocks, ReaderSent, ReaderSendFails,
     ReaderAborts, ReaderOnly, Moves, ReaderOK
<1>2. ASSUME ~sock[r].up PROVE ReaderLeft(r)' < ReaderLeft(r)
  BY <1>0, <1>2 DEF Reader, Reads, IdleTick, EndOfStream, ReaderLocks, ReaderSent,
     ReaderSendFails, ReaderAborts, Moves, ReaderOK, ReaderLeft
<1>. QED BY <1>1, <1>2 DEF CloseLeft, WriterLeft, CloserLeft, ReaderLeft

(* close() winds down: the writer and the closing threads have only so     *)
(* many steps left, whatever the observer does, and so has each reader     *)
(* from the moment its socket is down; nothing another thread does adds to *)
(* them.                                                                   *)
THEOREM SocketsWindDown ==
    Spec => /\ [](CloseLeft \in Nat /\ \A c \in Conns : ReaderLeft(c) \in Nat)
            /\ [][ClosingWinds]_vars
<1>1. CloseLeft \in Nat /\ \A c \in Conns : ReaderLeft(c) \in Nat
  BY CloseLeftTypes
<1>2. EndInv /\ [Next]_vars => [ClosingWinds]_vars
  <2> SUFFICES ASSUME EndInv, Next, closing PROVE ClosingWinds
    BY DEF ClosingWinds
  <2>1. /\ CloseLeft \in Nat /\ CloseLeft' \in Nat
        /\ \A c \in Conns : ReaderLeft(c) \in Nat /\ ReaderLeft(c)' \in Nat
    BY DEF CloseLeft, WriterLeft, CloserLeft, ReaderLeft
  <2>2. (\E c \in Conns : Reader(c)) \/ Writer \/ \E th \in Closers : Closer(th)
    BY DEF Next
  <2>3. CASE Writer
    BY <2>1, <2>3, WriterWinds, ReaderWinds DEF ClosingWinds
  <2>4. CASE \E th \in Closers : Closer(th)
    BY <2>1, <2>4, CloserWinds, ReaderWinds DEF ClosingWinds
  <2>5. CASE ~Writer /\ ~\E th \in Closers : Closer(th)
    <3>1. PICK r \in Conns : Reader(r)
      BY <2>2, <2>5
    <3>. QED BY <2>1, <2>5, <3>1, ReaderWinds DEF ClosingWinds
  <2>. QED BY <2>3, <2>4, <2>5
<1>. QED BY <1>1, <1>2, EndInvariant, PTL DEF Spec
=============================================================================
