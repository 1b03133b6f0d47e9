---------------------------- MODULE GatewayProofs ----------------------------
(***************************************************************************)
(* Proofs about Gateway, for any number of sockets, data frames, repeated  *)
(* handshakes, and any bounds: every variable keeps its type, connection   *)
(* events pair, a listening node announces a connection before it delivers *)
(* its data, held frames stay within bounds, no data frame is lost,        *)
(* reordered or repeated in either direction of a connection that lasts,   *)
(* once nothing is under way both nodes agree that the handshake is        *)
(* complete, and what is under way comes to an end.                        *)
(***************************************************************************)
EXTENDS Gateway, SendQueueProofs, FiniteSetTheorems

-----------------------------------------------------------------------------
(* Logs.                                                                   *)

Has(s, e) == \E i \in 1..Len(s) : s[i] = e

(* Data comes after the event that announces its connection.               *)
Announced(s) == \A i \in 1..Len(s) : s[i] > 0 => \E j \in 1..(i - 1) : s[j] = Up

LEMMA CountAppend ==
    ASSUME NEW s \in Seq(Int), NEW x \in Int, NEW e \in Int
    PROVE  /\ Count(s, e) \in Nat
           /\ Count(Append(s, x), e) = Count(s, e) + (IF x = e THEN 1 ELSE 0)
<1> DEFINE here == {i \in DOMAIN s : s[i] = e}
           n == Len(s) + 1
<1>1. DOMAIN s = 1..Len(s) /\ Len(s) \in Nat
  BY LenProperties
<1>2. IsFiniteSet(here) /\ Cardinality(here) \in Nat
  <2>1. IsFiniteSet(1..Len(s))
    BY <1>1, FS_Interval
  <2>2. here \in SUBSET (1..Len(s))
    BY <1>1
  <2>. QED BY <2>1, <2>2, FS_Subset, FS_CardinalityType
<1>3. /\ DOMAIN Append(s, x) = 1..n
      /\ \A i \in 1..Len(s) : Append(s, x)[i] = s[i]
      /\ Append(s, x)[n] = x
  BY <1>1, AppendProperties, LenProperties
<1>4. {i \in DOMAIN Append(s, x) : Append(s, x)[i] = e} = IF x = e THEN here \union {n} ELSE here
  BY <1>1, <1>3
<1>5. n \notin here
  BY <1>1
<1>. HIDE DEF here, n
<1>6. Cardinality(here \union {n}) = Cardinality(here) + 1
  BY <1>2, <1>5, FS_AddElement
<1>7. Count(s, e) = Cardinality(here)
  BY DEF Count, here
<1>8. Count(Append(s, x), e) = Cardinality(IF x = e THEN here \union {n} ELSE here)
  BY <1>4 DEF Count
<1>. QED BY <1>2, <1>6, <1>7, <1>8

LEMMA CountOther ==
    ASSUME NEW s \in Seq(Int), NEW x \in Int, NEW e \in Int, x # e
    PROVE  Count(Append(s, x), e) = Count(s, e)
<1>1. Count(s, e) \in Nat /\ Count(Append(s, x), e) = Count(s, e) + 0
  BY CountAppend
<1>. QED BY <1>1

LEMMA CountThis ==
    ASSUME NEW s \in Seq(Int), NEW e \in Int
    PROVE  Count(Append(s, e), e) = Count(s, e) + 1
BY CountAppend

LEMMA CountEmpty == \A e : Count(<<>>, e) = 0
<1>1. \A e : {i \in DOMAIN <<>> : <<>>[i] = e} = {}
  OBVIOUS
<1>. QED BY <1>1, FS_EmptySet DEF Count

LEMMA CountHas ==
    ASSUME NEW s \in Seq(Int), NEW e \in Int
    PROVE  Count(s, e) > 0 <=> Has(s, e)
<1> DEFINE here == {i \in DOMAIN s : s[i] = e}
<1>1. DOMAIN s = 1..Len(s) /\ Len(s) \in Nat
  BY LenProperties
<1>2. IsFiniteSet(here)
  <2>1. IsFiniteSet(1..Len(s))
    BY <1>1, FS_Interval
  <2>. QED BY <1>1, <2>1, FS_Subset
<1>3. here = {} <=> ~Has(s, e)
  BY <1>1 DEF Has
<1>. HIDE DEF here
<1>4. Cardinality(here) \in Nat /\ (Cardinality(here) = 0 <=> here = {})
  BY <1>2, FS_CardinalityType, FS_EmptySet
<1>5. Count(s, e) = Cardinality(here)
  BY DEF Count, here
<1>. QED BY <1>3, <1>4, <1>5

LEMMA AppendOne ==
    ASSUME NEW s \in Seq(Int), NEW x \in Int
    PROVE  s \o <<x>> = Append(s, x)
<1>1. <<x>> \in Seq(Int) /\ Len(<<x>>) = 1 /\ <<x>>[1] = x
  OBVIOUS
<1>2. Len(s) \in Nat
  BY LenProperties
<1>3. /\ s \o <<x>> \in Seq(Int) /\ Len(s \o <<x>>) = Len(s) + 1
      /\ \A i \in 1..Len(s) + 1 : (s \o <<x>>)[i] = IF i <= Len(s) THEN s[i] ELSE <<x>>[i - Len(s)]
  BY <1>1, ConcatProperties
<1>4. /\ Append(s, x) \in Seq(Int) /\ Len(Append(s, x)) = Len(s) + 1
      /\ \A i \in 1..Len(s) : Append(s, x)[i] = s[i]
      /\ Append(s, x)[Len(s) + 1] = x
  BY AppendProperties
<1>5. \A i \in 1..Len(s) + 1 : (s \o <<x>>)[i] = Append(s, x)[i]
  <2>1. ASSUME NEW i \in 1..Len(s) + 1 PROVE (s \o <<x>>)[i] = Append(s, x)[i]
    <3>1. CASE i <= Len(s)
      BY <1>2, <1>3, <1>4, <3>1
    <3>2. CASE i = Len(s) + 1
      BY <1>1, <1>2, <1>3, <1>4, <3>2
    <3>. QED BY <1>2, <3>1, <3>2
  <2>. QED BY <2>1
<1>. QED BY <1>3, <1>4, <1>5, SeqEqual

LEMMA HasAppend ==
    ASSUME NEW s \in Seq(Int), NEW x \in Int, NEW e \in Int
    PROVE  /\ Append(s, x) \in Seq(Int)
           /\ Has(Append(s, x), e) <=> Has(s, e) \/ x = e
           /\ Announced(s) /\ (x > 0 => Has(s, Up)) => Announced(Append(s, x))
<1>1. /\ Len(s) \in Nat /\ Append(s, x) \in Seq(Int)
      /\ Len(Append(s, x)) = Len(s) + 1
      /\ \A i \in 1..Len(s) : Append(s, x)[i] = s[i]
      /\ Append(s, x)[Len(s) + 1] = x
  BY LenProperties, AppendProperties
<1>2. Has(Append(s, x), e) <=> Has(s, e) \/ x = e
  BY <1>1 DEF Has
<1>3. ASSUME Announced(s), x > 0 => Has(s, Up), NEW i \in 1..Len(s) + 1, Append(s, x)[i] > 0
      PROVE  \E j \in 1..(i - 1) : Append(s, x)[j] = Up
  <2>1. CASE i <= Len(s)
    <3>1. PICK j \in 1..(i - 1) : s[j] = Up
      BY <1>1, <1>3, <2>1 DEF Announced
    <3>. QED BY <1>1, <2>1, <3>1
  <2>2. CASE i = Len(s) + 1
    <3>1. PICK j \in 1..Len(s) : s[j] = Up
      BY <1>1, <1>3, <2>2 DEF Has
    <3>. QED BY <1>1, <2>2, <3>1
  <2>. QED BY <1>1, <2>1, <2>2
<1>. QED BY <1>1, <1>2, <1>3 DEF Announced

(* Moving the first pending item to the log.                               *)
LEMMA HasHead ==
    ASSUME NEW s \in Seq(Nat), s # <<>>, NEW e
    PROVE  /\ Head(s) \in Nat /\ Tail(s) \in Seq(Nat)
           /\ Has(s, e) <=> Head(s) = e \/ Has(Tail(s), e)
<1>1. /\ Len(s) \in Nat \ {0} /\ Head(s) = s[1] /\ Head(s) \in Nat
      /\ Tail(s) \in Seq(Nat) /\ Len(Tail(s)) = Len(s) - 1
      /\ \A i \in 1..Len(Tail(s)) : Tail(s)[i] = s[i + 1]
  BY EmptySeq, HeadTailProperties
<1>2. ASSUME Has(s, e) PROVE Head(s) = e \/ Has(Tail(s), e)
  <2>1. PICK i \in 1..Len(s) : s[i] = e
    BY <1>2 DEF Has
  <2>2. CASE i = 1
    BY <1>1, <2>1, <2>2
  <2>3. CASE i > 1
    <3>1. i - 1 \in 1..Len(Tail(s)) /\ Tail(s)[i - 1] = s[i]
      BY <1>1, <2>1, <2>3
    <3>. QED BY <2>1, <3>1 DEF Has
  <2>. QED BY <1>1, <2>1, <2>2, <2>3
<1>3. ASSUME Head(s) = e \/ Has(Tail(s), e) PROVE Has(s, e)
  <2>1. CASE Head(s) = e
    BY <1>1, <2>1 DEF Has
  <2>2. CASE Has(Tail(s), e)
    <3>1. PICK i \in 1..Len(Tail(s)) : Tail(s)[i] = e
      BY <2>2 DEF Has
    <3>2. i + 1 \in 1..Len(s) /\ s[i + 1] = e
      BY <1>1, <3>1
    <3>. QED BY <3>2 DEF Has
  <2>. QED BY <1>3, <2>1, <2>2
<1>. QED BY <1>1, <1>2, <1>3
-----------------------------------------------------------------------------
(* The handlers, as operators on a connection.                             *)

Conn ==
    [direction : {"inbound", "outbound"},
     state : {"none", "CONNECTING", "HANDSHAKING", "READY", "CLOSED"},
     wsUp : BOOLEAN, hello : BOOLEAN, ack : BOOLEAN, helloSent : BOOLEAN,
     wasReady : BOOLEAN, early : Seq(Nat), listed : BOOLEAN]

(* A handler leaves a connection's direction alone, and neither closes nor *)
(* reopens it: only _finish closes.                                        *)
Same(c, d) ==
    d \in Conn /\ d.direction = c.direction /\ (d.state = "CLOSED" <=> c.state = "CLOSED")

LEMMA EmitsTyped ==
    ASSUME NEW c \in Conn
    PROVE  /\ Emits(c) \in Seq(Nat)
           /\ ~Complete(c) => Emits(c) = <<>>
           /\ Complete(c) => Emits(c) # <<>> /\ Head(Emits(c)) = Up /\ Has(Emits(c), Up)
<1>1. <<Up>> \in Seq(Nat) /\ Len(<<Up>>) = 1 /\ <<Up>>[1] = Up
  BY DEF Up
<1>2. c.early \in Seq(Nat) /\ Len(c.early) \in Nat
  BY LenProperties DEF Conn
<1>3. /\ <<Up>> \o c.early \in Seq(Nat)
      /\ Len(<<Up>> \o c.early) = 1 + Len(c.early)
      /\ (<<Up>> \o c.early)[1] = Up
  BY <1>1, <1>2, ConcatProperties
<1>4. <<Up>> \o c.early # <<>> /\ Has(<<Up>> \o c.early, Up)
  BY <1>2, <1>3 DEF Has
<1>. QED BY <1>3, <1>4 DEF Emits

LEMMA CheckedSame ==
    ASSUME NEW c \in Conn
    PROVE  /\ Same(c, Checked(c)) /\ Checked(c).listed = c.listed
           /\ Checked(c).wasReady = (c.wasReady \/ Complete(c))
           /\ ~Complete(c) => Checked(c) = c
           /\ Complete(c) => Checked(c).state = "READY" /\ c.state = "HANDSHAKING"
<1>1. <<>> \in Seq(Nat)
  OBVIOUS
<1>. QED BY <1>1 DEF Checked, Complete, Same, Conn

LEMMA GreetsSame ==
    ASSUME NEW c \in Conn
    PROVE  /\ Greets(c) \in Conn /\ Greets(c).direction = c.direction
           /\ Greets(c).listed = c.listed /\ Greets(c).wasReady = c.wasReady
           /\ c.direction = "outbound" => Same(c, Greets(c))
           /\ Restarts(c) => Greets(c).state = "HANDSHAKING" /\ ~Greets(c).ack
           /\ ~Restarts(c) => Greets(c).state = c.state
BY DEF Greets, Restarts, Same, Conn

LEMMA AckSame ==
    ASSUME NEW c \in Conn
    PROVE  LET d == [c EXCEPT !.ack = TRUE]
           IN  Same(c, d) /\ d.listed = c.listed /\ d.wasReady = c.wasReady /\ d.state = c.state
BY DEF Same, Conn

LEMMA SocketSame ==
    ASSUME NEW c \in Conn
    PROVE  Same(c, SocketUp(c)) /\ Same(c, SocketDown(c))
<1>1. <<>> \in Seq(Nat)
  OBVIOUS
<1>2. Same(c, SocketUp(c))
  BY DEF SocketUp, Same, Conn
<1>3. Same(c, SocketDown(c))
  BY <1>1 DEF SocketDown, Same, Conn
<1>. QED BY <1>2, <1>3

LEMMA HeldSame ==
    ASSUME NEW c \in Conn, NEW f \in Nat
    PROVE  Same(c, Held(c, f)) /\ Held(c, f).listed = c.listed
           /\ Held(c, f).wasReady = c.wasReady /\ Held(c, f).state = c.state
<1>1. Append(c.early, f) \in Seq(Nat)
  BY AppendProperties DEF Conn
<1>. QED BY <1>1 DEF Held, Same, Conn

LEMMA FinishedProps ==
    ASSUME NEW c \in Conn
    PROVE  /\ Finished(c) \in Conn /\ Finished(c).state = "CLOSED" /\ ~Finished(c).listed
           /\ Finished(c).direction = c.direction /\ Finished(c).wasReady = c.wasReady
<1>1. <<>> \in Seq(Nat)
  OBVIOUS
<1>. QED BY <1>1 DEF Finished, Conn

-----------------------------------------------------------------------------
(* The dialling node.                                                      *)

AInv ==
    /\ a \in Conn /\ a.direction = "outbound"
    /\ pendA \in [loop : Seq(Nat), app : Seq(Nat)]
    /\ logA \in Seq(Int)
    /\ Count(logA, Down) = IF a.state = "CLOSED" THEN 1 ELSE 0

(* A step of A handles something, delivers something, or closes.           *)
AHandles ==
    Same(a, a') /\ logA' = logA /\ pendA' \in [loop : Seq(Nat), app : Seq(Nat)]

ADelivers ==
    a' = a /\ pendA' \in [loop : Seq(Nat), app : Seq(Nat)]
    /\ \E x \in Nat : logA' = Append(logA, x)

ACloses == ClosesA /\ pendA' = pendA

LEMMA AEffect ==
    ASSUME AInv, AHandles \/ ADelivers \/ ACloses
    PROVE  AInv'
<1>1. CASE AHandles
  BY <1>1 DEF AInv, AHandles, Same
<1>2. CASE ADelivers
  <2>1. PICK x \in Nat : logA' = Append(logA, x)
    BY <1>2 DEF ADelivers
  <2>2. x \in Int /\ Down \in Int /\ x # Down
    BY DEF Down
  <2>3. logA' \in Seq(Int) /\ Count(logA', Down) = Count(logA, Down)
    BY <2>1, <2>2, CountOther, HasAppend DEF AInv
  <2>. QED BY <1>2, <2>3 DEF AInv, ADelivers
<1>3. CASE ACloses
  <2>1. /\ a' = Finished(a) /\ a.state # "CLOSED"
        /\ logA' = logA \o <<Down>> /\ Down \in Int
    BY <1>3 DEF ACloses, ClosesA, Announces, AInv, Down
  <2>2. logA' = Append(logA, Down)
    BY <2>1, AppendOne DEF AInv
  <2>3. logA' \in Seq(Int) /\ Count(logA', Down) = 1
    <3>1. logA \in Seq(Int) /\ Count(logA, Down) = 0
      BY <2>1 DEF AInv
    <3>2. Count(Append(logA, Down), Down) = 0 + 1
      BY <2>1, <3>1, CountThis
    <3>3. Append(logA, Down) \in Seq(Int)
      BY <2>1, <3>1, AppendProperties
    <3>. QED BY <2>2, <3>2, <3>3
  <2>. QED BY <1>3, <2>1, <2>3, FinishedProps DEF AInv, ACloses
<1>. QED BY <1>1, <1>2, <1>3

LEMMA SameItself == \A c \in Conn : Same(c, c)
BY DEF Same

LEMMA SameTwice ==
    ASSUME NEW c, NEW d, NEW e, Same(c, d), Same(d, e)
    PROVE  Same(c, e)
BY DEF Same

LEMMA AIdle ==
    ASSUME AInv, UNCHANGED <<a, pendA, logA>>
    PROVE  AInv'
BY DEF AInv

LEMMA DiallingKeepsA ==
    ASSUME AInv, Dialling
    PROVE  AInv'
<1>. USE SameItself
<1>1. CASE SubscribesData
  BY <1>1, AEffect, AIdle DEF SubscribesData, ACloses
<1>2. CASE SubscribesState
  BY <1>2, AEffect, SocketSame DEF SubscribesState, AHandles, AInv
<1>3. CASE ReplayChecks
  BY <1>3, AEffect, CheckedSame, EmitsTyped DEF ReplayChecks, AHandles, AInv
<1>4. CASE Lists
  <2>1. Same(a, [a EXCEPT !.listed = TRUE])
    BY DEF AInv, Same, Conn
  <2>. QED BY <1>4, <2>1, AEffect DEF Lists, AHandles, AInv
<1>5. CASE EmitsA("app")
  <2>1. /\ pendA["app"] \in Seq(Nat) /\ pendA["app"] # <<>>
        /\ pendA' = [pendA EXCEPT !["app"] = Tail(pendA["app"])] /\ a' = a
        /\ logA' = Append(logA, Head(pendA["app"]))
    BY <1>5 DEF EmitsA, AInv
  <2>. QED BY <2>1, AEffect, HasHead DEF ADelivers, AInv
<1>. QED BY <1>1, <1>2, <1>3, <1>4, <1>5 DEF Dialling

LEMMA LoopKeepsA ==
    ASSUME AInv, LoopA \/ Opens \/ Fails
    PROVE  AInv'
<1>. USE SameItself
<1>1. CASE Writes \/ Ignores \/ EndsClient
  BY <1>1, AIdle DEF Writes, Ignores, EndsClient
<1>2. CASE ReceivesHello
  <2>1. Same(a, Greets(a)) /\ Same(Greets(a), Checked(Greets(a)))
    BY GreetsSame, CheckedSame DEF AInv
  <2>2. Same(a, Checked(Greets(a))) /\ Emits(Greets(a)) \in Seq(Nat)
    BY <2>1, SameTwice, EmitsTyped DEF Same
  <2>. QED BY <1>2, <2>2, AEffect DEF ReceivesHello, AHandles, AInv
<1>3. CASE ReceivesAck
  <2> DEFINE d == [a EXCEPT !.ack = TRUE]
  <2>1. Same(a, d)
    BY AckSame DEF AInv
  <2>2. a' = Checked(d) /\ pendA' = [pendA EXCEPT !.loop = Emits(d)] /\ logA' = logA
    BY <1>3 DEF ReceivesAck
  <2>. HIDE DEF d
  <2>3. Same(a, Checked(d)) /\ Emits(d) \in Seq(Nat)
    BY <2>1, CheckedSame, SameTwice, EmitsTyped DEF Same
  <2>. QED BY <2>2, <2>3, AEffect DEF AHandles, AInv
<1>4. CASE ReceivesData
  <2>1. PICK f \in 1..DataB :
          /\ \/ a' = a /\ logA' = Append(logA, f)
             \/ a' = Held(a, f) /\ logA' = logA
             \/ ClosesA
             \/ a' = a /\ logA' = logA
          /\ pendA' = pendA
    BY <1>4 DEF ReceivesData
  <2>2. f \in Nat
    BY GatewayAssumption
  <2>3. Same(a, Held(a, f))
    BY <2>2, HeldSame DEF AInv
  <2>. QED BY <2>1, <2>2, <2>3, AEffect, AIdle DEF AHandles, ADelivers, ACloses, AInv
<1>5. CASE Drops
  BY <1>5, AEffect, AIdle, SocketSame DEF Drops, AHandles, AInv
<1>6. CASE EmitsA("loop")
  <2>1. /\ pendA["loop"] \in Seq(Nat) /\ pendA["loop"] # <<>>
        /\ pendA' = [pendA EXCEPT !["loop"] = Tail(pendA["loop"])] /\ a' = a
        /\ logA' = Append(logA, Head(pendA["loop"]))
    BY <1>6 DEF EmitsA, AInv
  <2>. QED BY <2>1, AEffect, HasHead DEF ADelivers, AInv
<1>7. CASE Opens
  <2>1. CASE UNCHANGED <<a, pendA>>
    BY <1>7, <2>1, AIdle DEF Opens
  <2>2. CASE a' = Checked(SocketUp(a)) /\ pendA' = [pendA EXCEPT !.loop = Emits(SocketUp(a))]
    <3>1. Same(a, SocketUp(a)) /\ Same(SocketUp(a), Checked(SocketUp(a)))
      BY SocketSame, CheckedSame DEF AInv, Same
    <3>2. Same(a, Checked(SocketUp(a))) /\ Emits(SocketUp(a)) \in Seq(Nat)
      BY <3>1, SameTwice, EmitsTyped DEF Same
    <3>. QED BY <1>7, <2>2, <3>2, AEffect DEF Opens, AHandles, AInv
  <2>. QED BY <1>7, <2>1, <2>2 DEF Opens
<1>8. CASE Fails
  BY <1>8, AEffect, AIdle DEF Fails, ACloses
<1>. QED BY <1>1, <1>2, <1>3, <1>4, <1>5, <1>6, <1>7, <1>8 DEF LoopA

LEMMA AStep == AInv /\ [Next]_vars => AInv'
<1> SUFFICES ASSUME AInv, [Next]_vars PROVE AInv'
  OBVIOUS
<1>1. CASE Programs
  <2>1. CASE TestsReady \/ SendsFrame \/ \E s \in Sockets : SendsTo(s) \/ DisconnectsB(s)
    BY <2>1, AIdle DEF TestsReady, SendsFrame, SendsTo, DisconnectsB, aVars
  <2>2. CASE DisconnectsA
    BY <2>2, AEffect DEF DisconnectsA, ACloses
  <2>. QED BY <1>1, <2>1, <2>2 DEF Programs
<1>2. CASE ServerB
  BY <1>2, AIdle DEF ServerB, Accepts, Fetches, Closes, Loses, EmitsB, HandlesHello, HandlesAck,
     HandlesData, Handles, aVars
<1>3. CASE PeerRestarts \/ (\E s \in Sockets : NetDrops(s)) \/ UNCHANGED vars
  BY <1>3, AIdle DEF PeerRestarts, NetDrops, vars, aVars
<1>. QED BY <1>1, <1>2, <1>3, DiallingKeepsA, LoopKeepsA DEF Next

-----------------------------------------------------------------------------
(* The listening node.                                                     *)

BTypes ==
    /\ b \in [Sockets -> Conn]
    /\ pendB \in [Sockets -> Seq(Nat)]
    /\ logB \in [Sockets -> Seq(Int)]

(* What the server's thread is about to emit is emitted before it handles  *)
(* the next frame.                                                         *)
OneAtATime == fetched.socket # 0 => \A s \in Sockets : pendB[s] = <<>>

(* A connection in the table shakes hands or is ready; one that left it    *)
(* can be asked to restart, but never completes a handshake again.         *)
LivesOnce(s) ==
    /\ b[s].direction = "inbound"
    /\ b[s].listed => b[s].state \in {"HANDSHAKING", "READY"}
    /\ ~b[s].listed => b[s].state \in {"none", "CLOSED", "HANDSHAKING"}
    /\ ~b[s].listed /\ b[s].state = "HANDSHAKING" => ~b[s].ack
    /\ ~b[s].listed /\ fetched.socket = s => b[s].state = "CLOSED"

(* It was ready exactly if its on_connection is emitted or about to be,    *)
(* first of all; it ends with on_disconnection exactly if it was ready.    *)
Paired(s) ==
    /\ b[s].state = "READY" => b[s].wasReady
    /\ b[s].state = "none" => ~b[s].wasReady
    /\ b[s].wasReady <=> Has(logB[s], Up) \/ Has(pendB[s], Up)
    /\ Count(logB[s], Down) = IF ~b[s].listed /\ b[s].wasReady THEN 1 ELSE 0
    /\ Announced(logB[s])
    /\ pendB[s] # <<>> => Has(logB[s], Up) \/ Head(pendB[s]) = Up

BInv == BTypes /\ OneAtATime /\ \A s \in Sockets : LivesOnce(s) /\ Paired(s)

USE DEF Sockets

LEMMA SocketNat == \A s \in Sockets : s \in Nat /\ s # 0
BY GatewayAssumption

(* A step that leaves a connection alone.                                  *)
Unmoved(t) ==
    /\ b'[t] = b[t] /\ pendB'[t] = pendB[t] /\ logB'[t] = logB[t]
    /\ fetched'.socket = t => fetched.socket = t

LEMMA UnmovedKeeps ==
    ASSUME NEW t \in Sockets, LivesOnce(t), Paired(t), Unmoved(t)
    PROVE  LivesOnce(t)' /\ Paired(t)'
BY DEF LivesOnce, Paired, Unmoved

(* A step that moves one connection, whose thread has nothing to emit      *)
(* left but what the step decided.                                         *)
Moves(s) ==
    /\ \A t \in Sockets \ {s} : b'[t] = b[t] /\ pendB'[t] = pendB[t] /\ logB'[t] = logB[t]
    /\ fetched'.socket \in {0, fetched.socket}

LEMMA MovesKeeps ==
    ASSUME BInv, NEW s \in Sockets, Moves(s), BTypes', OneAtATime', LivesOnce(s)', Paired(s)'
    PROVE  BInv'
<1>1. ASSUME NEW t \in Sockets, t # s PROVE LivesOnce(t)' /\ Paired(t)'
  <2>1. Unmoved(t)
    BY <1>1, SocketNat DEF Moves, Unmoved
  <2>. QED BY <2>1, UnmovedKeeps DEF BInv
<1>. QED BY <1>1 DEF BInv

(* _finish announces the end of a connection that was ready.               *)
LEMMA EndsKeeps ==
    ASSUME BInv, NEW s \in Sockets, b[s].listed, EndsB(s), pendB' = pendB,
           fetched'.socket \in {0, fetched.socket}
    PROVE  BInv'
<1> DEFINE c == b[s]
<1>0. /\ c \in Conn /\ logB[s] \in Seq(Int) /\ LivesOnce(s) /\ Paired(s) /\ BTypes
      /\ c.direction = "inbound" /\ Down \in Int /\ Up \in Int /\ Down # Up /\ ~(Down > 0)
  BY DEF BInv, BTypes, LivesOnce, Down, Up
<1>1. /\ b' = [b EXCEPT ![s] = Finished(c)]
      /\ logB' = [logB EXCEPT ![s] = logB[s] \o Announces(c)]
  BY DEF EndsB
<1>2. Announces(c) = IF c.wasReady THEN <<Down>> ELSE <<>>
  BY <1>0 DEF Announces
<1>3. logB[s] \o Announces(c) = IF c.wasReady THEN Append(logB[s], Down) ELSE logB[s]
  BY <1>0, <1>2, AppendOne, ConcatEmptySeq
<1>4. /\ b'[s] = Finished(c) /\ b' \in [Sockets -> Conn]
      /\ logB'[s] = (IF c.wasReady THEN Append(logB[s], Down) ELSE logB[s])
      /\ logB' \in [Sockets -> Seq(Int)]
  BY <1>0, <1>1, <1>3, FinishedProps, HasAppend DEF BTypes
<1>5. BTypes' /\ Moves(s)
  BY <1>0, <1>1, <1>4 DEF BTypes, Moves
<1>6. LivesOnce(s)'
  BY <1>0, <1>4, FinishedProps DEF LivesOnce
<1>7. Paired(s)'
  <2>1. Has(logB'[s], Up) <=> Has(logB[s], Up)
    BY <1>0, <1>4, HasAppend
  <2>2. Announced(logB'[s])
    BY <1>0, <1>4, HasAppend DEF Paired
  <2>3. Count(logB'[s], Down) = IF c.wasReady THEN 1 ELSE 0
    <3>1. Count(logB[s], Down) = 0
      BY <1>0 DEF Paired
    <3>2. Count(Append(logB[s], Down), Down) = 0 + 1
      BY <1>0, <3>1, CountThis
    <3>. QED BY <1>4, <3>1, <3>2
  <2>4. ~b'[s].listed /\ b'[s].wasReady = c.wasReady /\ b'[s].state = "CLOSED"
    BY <1>0, <1>4, FinishedProps
  <2>5. pendB'[s] = pendB[s]
    OBVIOUS
  <2>. QED BY <1>0, <2>1, <2>2, <2>3, <2>4, <2>5 DEF Paired
<1>8. OneAtATime'
  BY DEF BInv, OneAtATime
<1>. QED BY <1>5, <1>6, <1>7, <1>8, MovesKeeps

(* A handshake frame settles a connection: it may become ready, and then   *)
(* on_connection is the first thing to emit.                               *)
LEMMA SettlesKeeps ==
    ASSUME BInv, NEW s \in Sockets, fetched.socket = s, fetched' = Idle, logB' = logB,
           NEW d \in Conn, Settles(s, d), d.direction = "inbound",
           d.listed = b[s].listed, d.wasReady = b[s].wasReady, d.state # "none",
           d.state = b[s].state \/ (d.state = "HANDSHAKING" /\ ~d.ack)
    PROVE  BInv'
<1>0. /\ LivesOnce(s) /\ Paired(s) /\ BTypes /\ s # 0 /\ pendB[s] = <<>>
      /\ b[s] \in Conn /\ fetched'.socket = 0
  BY SocketNat DEF BInv, OneAtATime, BTypes, Idle
<1>1. b' = [b EXCEPT ![s] = Checked(d)] /\ pendB' = [pendB EXCEPT ![s] = Emits(d)]
  BY DEF Settles
<1>2. /\ Same(d, Checked(d)) /\ Checked(d).listed = d.listed
      /\ Checked(d).wasReady = (d.wasReady \/ Complete(d))
      /\ ~Complete(d) => Checked(d) = d
      /\ Complete(d) => Checked(d).state = "READY" /\ d.state = "HANDSHAKING"
  BY CheckedSame
<1>3. /\ b'[s] = Checked(d) /\ pendB'[s] = Emits(d) /\ logB'[s] = logB[s]
      /\ BTypes' /\ Moves(s)
  BY <1>0, <1>1, <1>2, EmitsTyped DEF BTypes, Moves, Same
<1>4. Complete(d) => d.ack
  BY DEF Complete
<1>5. ~d.listed => ~Complete(d)
  BY <1>0, <1>2, <1>4 DEF LivesOnce
<1>6. LivesOnce(s)'
  <2>1. CASE Complete(d)
    <3>1. d.listed
      BY <1>5, <2>1
    <3>. QED BY <1>2, <1>3, <2>1, <3>1 DEF LivesOnce, Same
  <2>2. CASE ~Complete(d)
    <3>1. b'[s] = d
      BY <1>2, <1>3, <2>2
    <3>. QED BY <1>0, <3>1 DEF LivesOnce
  <2>. QED BY <2>1, <2>2
<1>7. Paired(s)'
  <2>1. CASE Complete(d)
    <3>1. Emits(d) # <<>> /\ Head(Emits(d)) = Up /\ Has(Emits(d), Up)
      BY <2>1, EmitsTyped
    <3>2. b'[s].wasReady /\ b'[s].listed /\ b'[s].state = "READY"
      BY <1>2, <1>3, <1>5, <2>1
    <3>. QED BY <1>0, <1>3, <1>5, <2>1, <3>1, <3>2 DEF Paired
  <2>2. CASE ~Complete(d)
    <3>1. b'[s] = d /\ pendB'[s] = <<>>
      BY <1>2, <1>3, <2>2, EmitsTyped
    <3>. QED BY <1>0, <1>3, <3>1 DEF Paired
  <2>. QED BY <2>1, <2>2
<1>8. OneAtATime'
  BY <1>0 DEF OneAtATime
<1>. QED BY <1>3, <1>6, <1>7, <1>8, MovesKeeps

LEMMA HandshakeKeeps ==
    ASSUME BInv, NEW s \in Sockets, HandlesHello(s) \/ HandlesAck(s)
    PROVE  BInv'
<1>0. b[s] \in Conn /\ LivesOnce(s) /\ s # 0 /\ b[s].direction = "inbound"
  BY SocketNat DEF BInv, BTypes, LivesOnce
<1>1. fetched.socket = s /\ fetched' = Idle /\ logB' = logB
  BY DEF HandlesHello, HandlesAck, Handles
<1>2. b[s].state # "none"
  BY <1>0, <1>1 DEF LivesOnce
<1>3. CASE HandlesHello(s)
  <2>1. Settles(s, Greets(b[s]))
    BY <1>3 DEF HandlesHello
  <2>2. /\ Greets(b[s]) \in Conn /\ Greets(b[s]).direction = "inbound"
        /\ Greets(b[s]).listed = b[s].listed /\ Greets(b[s]).wasReady = b[s].wasReady
        /\ Restarts(b[s]) => Greets(b[s]).state = "HANDSHAKING" /\ ~Greets(b[s]).ack
        /\ ~Restarts(b[s]) => Greets(b[s]).state = b[s].state
    BY <1>0, GreetsSame
  <2>. QED BY <1>1, <1>2, <2>1, <2>2, SettlesKeeps
<1>4. CASE HandlesAck(s)
  <2> DEFINE d == [b[s] EXCEPT !.ack = TRUE]
  <2>1. Settles(s, d)
    BY <1>4 DEF HandlesAck
  <2>2. /\ Same(b[s], d) /\ d.listed = b[s].listed /\ d.wasReady = b[s].wasReady
        /\ d.state = b[s].state
    BY <1>0, AckSame
  <2>3. d \in Conn /\ d.direction = "inbound"
    BY <1>0, <2>2 DEF Same
  <2>. HIDE DEF d
  <2>. QED BY <1>1, <1>2, <2>1, <2>2, <2>3, SettlesKeeps
<1>. QED BY <1>3, <1>4

LEMMA DataKeeps ==
    ASSUME BInv, NEW s \in Sockets, HandlesData(s)
    PROVE  BInv'
<1>0. /\ b[s] \in Conn /\ LivesOnce(s) /\ Paired(s) /\ BTypes /\ s # 0
      /\ logB[s] \in Seq(Int)
  BY SocketNat DEF BInv, BTypes
<1>1. PICK f \in 1..DataA :
        /\ Handles(s, f)
        /\ \/ b[s].state = "READY" /\ logB' = [logB EXCEPT ![s] = Append(@, f)] /\ b' = b
           \/ b' = b /\ logB' = logB
           \/ Holds(b[s]) /\ b' = [b EXCEPT ![s] = Held(@, f)] /\ logB' = logB
           \/ Holds(b[s]) /\ EndsB(s)
        /\ pendB' = pendB
  BY DEF HandlesData
<1>2. /\ fetched.socket = s /\ fetched' = Idle /\ fetched'.socket = 0
      /\ f \in Nat /\ f \in Int /\ f > 0 /\ Up \in Int /\ f # Up /\ f # Down /\ Down \in Int
  BY <1>1, GatewayAssumption DEF Handles, Idle, Up, Down
<1>3. pendB[s] = <<>> /\ OneAtATime'
  BY <1>0, <1>2 DEF BInv, OneAtATime
<1>4. CASE b[s].state = "READY" /\ logB' = [logB EXCEPT ![s] = Append(@, f)] /\ b' = b
  <2>1. Has(logB[s], Up)
    BY <1>0, <1>3, <1>4 DEF Paired, Has
  <2>2. /\ logB'[s] = Append(logB[s], f) /\ logB'[s] \in Seq(Int)
        /\ BTypes' /\ Moves(s)
    BY <1>0, <1>1, <1>2, <1>4, HasAppend DEF BTypes, Moves
  <2>3. Has(logB'[s], Up) /\ Announced(logB'[s])
    BY <1>0, <1>2, <2>1, <2>2, HasAppend DEF Paired
  <2>5. Count(logB'[s], Down) = Count(logB[s], Down)
    BY <1>0, <1>2, <2>2, CountOther
  <2>6. LivesOnce(s)'
    BY <1>0, <1>2, <1>4 DEF LivesOnce
  <2>7. Paired(s)'
    BY <1>0, <1>1, <1>4, <2>1, <2>3, <2>5 DEF Paired
  <2>. QED BY <1>3, <2>2, <2>6, <2>7, MovesKeeps
<1>5. CASE b' = b /\ logB' = logB
  <2>1. \A t \in Sockets : Unmoved(t)
    BY <1>1, <1>2, <1>5, SocketNat DEF Unmoved
  <2>. QED BY <1>1, <1>3, <1>5, <2>1, UnmovedKeeps DEF BInv, BTypes
<1>6. CASE Holds(b[s]) /\ b' = [b EXCEPT ![s] = Held(@, f)] /\ logB' = logB
  <2>1. /\ Same(b[s], Held(b[s], f)) /\ Held(b[s], f).listed = b[s].listed
        /\ Held(b[s], f).wasReady = b[s].wasReady /\ Held(b[s], f).state = b[s].state
    BY <1>0, <1>2, HeldSame
  <2>2. b'[s] = Held(b[s], f) /\ BTypes' /\ Moves(s)
    BY <1>0, <1>1, <1>2, <1>6, <2>1 DEF BTypes, Moves, Same
  <2>3. b[s].listed
    BY <1>0, <1>2, <1>6 DEF LivesOnce, Holds
  <2>4. LivesOnce(s)'
    BY <1>0, <2>1, <2>2, <2>3 DEF LivesOnce, Same
  <2>5. Paired(s)'
    BY <1>0, <1>1, <1>6, <2>1, <2>2 DEF Paired
  <2>. QED BY <1>3, <2>2, <2>4, <2>5, MovesKeeps
<1>7. CASE Holds(b[s]) /\ EndsB(s)
  <2>1. b[s].listed
    BY <1>0, <1>2, <1>7 DEF LivesOnce, Holds
  <2>. QED BY <1>1, <1>2, <1>7, <2>1, EndsKeeps
<1>. QED BY <1>1, <1>4, <1>5, <1>6, <1>7

LEMMA EmitsKeeps ==
    ASSUME BInv, NEW s \in Sockets, EmitsB(s)
    PROVE  BInv'
<1> DEFINE x == Head(pendB[s])
           rest == Tail(pendB[s])
<1>0. /\ LivesOnce(s) /\ Paired(s) /\ BTypes /\ logB[s] \in Seq(Int)
      /\ pendB[s] \in Seq(Nat) /\ pendB[s] # <<>>
  BY DEF BInv, BTypes, EmitsB
<1>1. /\ logB' = [logB EXCEPT ![s] = Append(logB[s], x)]
      /\ pendB' = [pendB EXCEPT ![s] = rest]
      /\ b' = b /\ fetched' = fetched
  BY DEF EmitsB
<1>2. x \in Nat /\ rest \in Seq(Nat) /\ (Has(pendB[s], Up) <=> x = Up \/ Has(rest, Up))
  BY <1>0, HasHead
<1>. HIDE DEF x, rest
<1>3. x \in Int /\ x # Down /\ Down \in Int /\ Up \in Int
  BY <1>2 DEF Down, Up
<1>4. logB'[s] = Append(logB[s], x) /\ logB'[s] \in Seq(Int) /\ pendB'[s] = rest
      /\ BTypes' /\ Moves(s)
  BY <1>0, <1>1, <1>2, <1>3, HasAppend DEF BTypes, Moves
<1>5. Has(logB[s], Up) \/ x = Up
  BY <1>0 DEF Paired, x
<1>6. /\ Has(logB'[s], Up)
      /\ Announced(logB[s]) => Announced(logB'[s])
  <2>1. x > 0 => Has(logB[s], Up)
    BY <1>5 DEF Up
  <2>. QED BY <1>0, <1>3, <1>4, <1>5, <2>1, HasAppend
<1>7. Count(logB'[s], Down) = Count(logB[s], Down)
  <2>1. logB[s] \in Seq(Int)
    BY <1>0
  <2>. QED BY <1>3, <1>4, <2>1, CountOther
<1>8. b[s].wasReady
  BY <1>0, <1>2, <1>5 DEF Paired
<1>9. LivesOnce(s)'
  BY <1>0, <1>1 DEF LivesOnce
<1>10. Paired(s)'
  BY <1>0, <1>1, <1>4, <1>6, <1>7, <1>8 DEF Paired
<1>11. OneAtATime'
  BY <1>0, <1>1, SocketNat DEF BInv, OneAtATime
<1>. QED BY <1>4, <1>9, <1>10, <1>11, MovesKeeps

LEMMA ServerKeeps ==
    ASSUME BInv, ServerB
    PROVE  BInv'
<1>1. PICK s \in Sockets :
        \/ Accepts(s) \/ Fetches(s) \/ Closes(s) \/ Loses(s) \/ EmitsB(s)
        \/ HandlesHello(s) \/ HandlesAck(s) \/ HandlesData(s)
  BY DEF ServerB
<1>2. CASE Accepts(s)
  <2> DEFINE c == [NewConnection("inbound", "HANDSHAKING") EXCEPT !.listed = TRUE]
  <2>0. LivesOnce(s) /\ Paired(s) /\ BTypes /\ b[s].state = "none"
    BY <1>2 DEF BInv, Accepts
  <2>1. /\ b' = [b EXCEPT ![s] = c] /\ pendB' = pendB /\ logB' = logB /\ fetched' = fetched
    BY <1>2 DEF Accepts
  <2>2. <<>> \in Seq(Nat)
    OBVIOUS
  <2>3. /\ c \in Conn /\ c.direction = "inbound" /\ c.state = "HANDSHAKING" /\ c.listed
        /\ ~c.wasReady
    BY <2>2 DEF NewConnection, Conn
  <2>. HIDE DEF c
  <2>4. b'[s] = c /\ BTypes' /\ Moves(s)
    BY <2>0, <2>1, <2>3 DEF BTypes, Moves
  <2>5. LivesOnce(s)'
    BY <2>3, <2>4 DEF LivesOnce
  <2>6. Paired(s)'
    BY <2>0, <2>1, <2>3, <2>4 DEF Paired
  <2>7. OneAtATime'
    BY <2>1 DEF BInv, OneAtATime
  <2>. QED BY <2>4, <2>5, <2>6, <2>7, MovesKeeps
<1>3. CASE Fetches(s)
  <2>1. /\ b' = b /\ pendB' = pendB /\ logB' = logB /\ fetched'.socket = s /\ b[s].listed
        /\ \A t \in Sockets : pendB[t] = <<>>
    BY <1>3 DEF Fetches, ServerFree
  <2>2. ASSUME NEW t \in Sockets PROVE LivesOnce(t)' /\ Paired(t)'
    BY <2>1 DEF BInv, LivesOnce, Paired
  <2>. QED BY <2>1, <2>2 DEF BInv, BTypes, OneAtATime
<1>4. CASE Closes(s)
  <2>1. UNCHANGED bVars
    BY <1>4 DEF Closes
  <2>. QED BY <2>1 DEF bVars, BInv, BTypes, OneAtATime, LivesOnce, Paired
<1>5. CASE Loses(s)
  BY <1>5, EndsKeeps DEF Loses
<1>. QED BY <1>1, <1>2, <1>3, <1>4, <1>5, EmitsKeeps, HandshakeKeeps, DataKeeps

LEMMA BIdle ==
    ASSUME BInv, UNCHANGED <<b, fetched, pendB, logB>>
    PROVE  BInv'
BY DEF BInv, BTypes, OneAtATime, LivesOnce, Paired

LEMMA BStep == BInv /\ [Next]_vars => BInv'
<1> SUFFICES ASSUME BInv, [Next]_vars PROVE BInv'
  OBVIOUS
<1>1. CASE Dialling
  BY <1>1, BIdle DEF Dialling, SubscribesData, SubscribesState, ReplayChecks, Lists, EmitsA, bVars
<1>2. CASE Opens \/ LoopA \/ Fails
  BY <1>2, BIdle DEF Opens, LoopA, Fails, Writes, Ignores, ReceivesHello, ReceivesAck,
     ReceivesData, Receives, Drops, EndsClient, EmitsA, bVars
<1>3. CASE Programs
  <2>1. CASE TestsReady \/ SendsFrame \/ DisconnectsA \/ \E s \in Sockets : SendsTo(s)
    BY <2>1, BIdle DEF TestsReady, SendsFrame, DisconnectsA, SendsTo, bVars
  <2>2. CASE \E s \in Sockets : DisconnectsB(s)
    BY <2>2, EndsKeeps DEF DisconnectsB
  <2>. QED BY <1>3, <2>1, <2>2 DEF Programs
<1>4. CASE PeerRestarts \/ (\E s \in Sockets : NetDrops(s)) \/ UNCHANGED vars
  BY <1>4, BIdle DEF PeerRestarts, NetDrops, vars, bVars
<1>. QED BY <1>1, <1>2, <1>3, <1>4, ServerKeeps DEF Next

-----------------------------------------------------------------------------
LEMMA PairInit == Init => AInv /\ BInv
<1> SUFFICES ASSUME Init PROVE AInv /\ BInv
  OBVIOUS
<1>0. <<>> \in Seq(Nat) /\ <<>> \in Seq(Int)
  OBVIOUS
<1>1. AInv
  <2>1. a \in Conn /\ a.direction = "outbound" /\ a.state = "CONNECTING"
    BY <1>0 DEF Init, NewConnection, Conn
  <2>2. pendA \in [loop : Seq(Nat), app : Seq(Nat)]
    BY <1>0 DEF Init
  <2>. QED BY <1>0, <2>1, <2>2, CountEmpty DEF Init, AInv
<1>2. BInv
  <2>1. /\ Absent \in Conn /\ Absent.direction = "inbound" /\ Absent.state = "none"
        /\ ~Absent.listed /\ ~Absent.wasReady
    BY <1>0 DEF Absent, NewConnection, Conn
  <2>2. /\ b = [s \in Sockets |-> Absent] /\ pendB = [s \in Sockets |-> <<>>]
        /\ logB = [s \in Sockets |-> <<>>] /\ fetched.socket = 0
    BY DEF Init, Idle
  <2>3. BTypes /\ OneAtATime
    BY <1>0, <2>1, <2>2 DEF BTypes, OneAtATime
  <2>4. ~Has(<<>>, Up) /\ Announced(<<>>)
    BY DEF Has, Announced
  <2>5. ASSUME NEW s \in Sockets PROVE LivesOnce(s) /\ Paired(s)
    <3>1. b[s] = Absent /\ logB[s] = <<>> /\ pendB[s] = <<>> /\ fetched.socket # s
      BY <2>2, SocketNat
    <3>. QED BY <2>1, <2>4, <3>1, CountEmpty DEF LivesOnce, Paired
  <2>. QED BY <2>3, <2>5 DEF BInv
<1>. QED BY <1>1, <1>2

(* Events pair, at both nodes and for every connection: a dialled one ends *)
(* with one on_disconnection, an accepted one exactly if it was announced, *)
(* whichever of the program, the peer, the socket and the bounds ended it. *)
THEOREM ConnectionEventsPair == Spec => []EventsPair
<1>1. AInv /\ BInv => EventsPair
  <2> SUFFICES ASSUME AInv, BInv PROVE EventsPair
    OBVIOUS
  <2>1. ASSUME NEW s \in Sockets, b[s].listed PROVE Count(logB[s], Down) = 0
    BY <2>1 DEF BInv, Paired
  <2>2. ASSUME NEW s \in Sockets, ~b[s].listed, pendB[s] = <<>>
        PROVE  Count(logB[s], Down) = IF Count(logB[s], Up) > 0 THEN 1 ELSE 0
    <3>1. b[s].wasReady <=> Has(logB[s], Up)
      BY <2>2 DEF BInv, Paired, Has
    <3>2. Count(logB[s], Up) > 0 <=> Has(logB[s], Up)
      BY CountHas DEF BInv, BTypes, Up
    <3>. QED BY <2>2, <3>1, <3>2 DEF BInv, Paired
  <2>. QED BY <2>1, <2>2 DEF AInv, EventsPair
<1>. QED BY <1>1, PairInit, AStep, BStep, PTL DEF Spec

(* A listening node delivers no data on a connection before it announced   *)
(* it, the frames it held before READY included.                           *)
THEOREM DataAfterEvent == Spec => []SinkAfterEvent
<1>1. BInv => SinkAfterEvent
  <2> SUFFICES ASSUME BInv, NEW s \in Sockets PROVE
        \A i \in DOMAIN logB[s] : logB[s][i] > 0 => \E j \in 1..(i - 1) : logB[s][j] = Up
    BY DEF SinkAfterEvent
  <2>1. DOMAIN logB[s] = 1..Len(logB[s])
    BY LenProperties DEF BInv, BTypes
  <2>. QED BY <2>1 DEF BInv, Paired, Announced
<1>. QED BY <1>1, PairInit, BStep, PTL DEF Spec

-----------------------------------------------------------------------------
(* The frames held before READY.                                           *)

DataFrames == (1..DataA) \union (1..DataB)

Tidy(c) ==
    /\ c.early \in Seq(DataFrames)
    /\ Len(c.early) <= Limit /\ Bytes(c.early) <= LimitBytes
    /\ c.early # <<>> => Holds(c)

LEMMA DataSized == Sized(DataFrames) /\ DataFrames \subseteq Nat
BY GatewayAssumption DEF Sized, DataFrames

LEMMA TidyEmpty ==
    ASSUME NEW d, d.early = <<>>
    PROVE  Tidy(d)
<1>1. <<>> \in Seq(DataFrames) /\ Len(<<>>) = 0
  BY EmptySeq
<1>2. Bytes(<<>>) = 0
  BY <1>1, DataSized, BytesNat
<1>. QED BY <1>1, <1>2, GatewayAssumption, SendQueueAssumption DEF Tidy

LEMMA TidySame ==
    ASSUME NEW c, Tidy(c), NEW d, d.early = c.early, Holds(c) => Holds(d)
    PROVE  Tidy(d)
BY DEF Tidy

(* No handler but _hold_early adds to the frames held, and each keeps them *)
(* held, or lets go of them: the connection is ready, closed or offline.   *)
LEMMA TidyHandlers ==
    ASSUME NEW c \in Conn, Tidy(c)
    PROVE  /\ Tidy(Checked(c)) /\ Tidy(Greets(c)) /\ Tidy(SocketUp(c))
           /\ Tidy(SocketDown(c)) /\ Tidy(Finished(c))
           /\ Tidy([c EXCEPT !.ack = TRUE]) /\ Tidy([c EXCEPT !.listed = TRUE])
<1>1. Tidy(Checked(c))
  <2>1. CASE Complete(c)
    <3>1. Checked(c).early = <<>>
      BY <2>1 DEF Checked, Conn
    <3>. QED BY <3>1, TidyEmpty
  <2>2. CASE ~Complete(c)
    BY <2>2 DEF Checked
  <2>. QED BY <2>1, <2>2
<1>2. Tidy(Greets(c))
  <2>1. Greets(c).early = c.early /\ (Holds(c) => Holds(Greets(c)))
    BY DEF Greets, Holds, Conn
  <2>. QED BY <2>1, TidySame
<1>3. Tidy(SocketUp(c))
  <2>1. SocketUp(c).early = c.early /\ (Holds(c) => Holds(SocketUp(c)))
    BY DEF SocketUp, Holds, Conn
  <2>. QED BY <2>1, TidySame
<1>4. Tidy(SocketDown(c))
  <2>1. CASE c.wsUp
    <3>1. SocketDown(c).early = <<>>
      BY <2>1 DEF SocketDown, Conn
    <3>. QED BY <3>1, TidyEmpty
  <2>2. CASE ~c.wsUp
    BY <2>2 DEF SocketDown
  <2>. QED BY <2>1, <2>2
<1>5. Tidy(Finished(c))
  <2>1. Finished(c).early = <<>>
    BY DEF Finished, Conn
  <2>. QED BY <2>1, TidyEmpty
<1>6. Tidy([c EXCEPT !.ack = TRUE])
  <2> DEFINE d == [c EXCEPT !.ack = TRUE]
  <2>1. d.early = c.early /\ (Holds(c) => Holds(d))
    BY DEF Holds, Conn
  <2>. HIDE DEF d
  <2>2. Tidy(d)
    BY <2>1, TidySame
  <2>. QED BY <2>2 DEF d
<1>7. Tidy([c EXCEPT !.listed = TRUE])
  <2> DEFINE d == [c EXCEPT !.listed = TRUE]
  <2>1. d.early = c.early /\ (Holds(c) => Holds(d))
    BY DEF Holds, Conn
  <2>. HIDE DEF d
  <2>2. Tidy(d)
    BY <2>1, TidySame
  <2>. QED BY <2>2 DEF d
<1>. QED BY <1>1, <1>2, <1>3, <1>4, <1>5, <1>6, <1>7

LEMMA TidyHeld ==
    ASSUME NEW c \in Conn, Tidy(c), NEW f \in DataFrames, Holds(c), Fits(c, f)
    PROVE  Tidy(Held(c, f))
<1> DEFINE n == Append(c.early, f)
<1>1. /\ Held(c, f).early = n /\ Holds(Held(c, f))
  BY DEF Held, Holds, Conn
<1>2. c.early \in Seq(DataFrames) /\ Len(c.early) \in Nat
  BY LenProperties DEF Tidy
<1>3. n \in Seq(DataFrames) /\ Len(n) = Len(c.early) + 1
  BY <1>2, AppendProperties
<1>4. Bytes(n) = Bytes(c.early) + SizeOf(f)
  BY <1>2, DataSized, BytesAppend
<1>. HIDE DEF n
<1>5. Len(n) <= Limit /\ Bytes(n) <= LimitBytes
  BY <1>2, <1>3, <1>4, SendQueueAssumption DEF Fits
<1>. QED BY <1>1, <1>3, <1>5 DEF Tidy

LEMMA TidyAStep == AInv /\ Tidy(a) /\ [Next]_vars => Tidy(a)'
<1> SUFFICES ASSUME AInv, Tidy(a), [Next]_vars PROVE Tidy(a')
  OBVIOUS
<1>0. a \in Conn
  BY DEF AInv
<1>1. CASE Dialling
  BY <1>0, <1>1, TidyHandlers DEF Dialling, SubscribesData, SubscribesState, ReplayChecks, Lists,
     EmitsA, ClosesA
<1>2. CASE ReceivesHello \/ Opens
  <2>1. a' = a \/ a' = Checked(Greets(a)) \/ a' = Checked(SocketUp(a))
    BY <1>2 DEF ReceivesHello, Opens
  <2>2. Greets(a) \in Conn /\ SocketUp(a) \in Conn
    BY <1>0, GreetsSame, SocketSame DEF Same
  <2>3. Tidy(Greets(a)) /\ Tidy(SocketUp(a))
    BY <1>0, TidyHandlers
  <2>4. Tidy(Checked(Greets(a))) /\ Tidy(Checked(SocketUp(a)))
    BY <2>2, <2>3, TidyHandlers
  <2>. QED BY <2>1, <2>4
<1>3. CASE ReceivesAck
  <2> DEFINE d == [a EXCEPT !.ack = TRUE]
  <2>1. a' = Checked(d)
    BY <1>3 DEF ReceivesAck
  <2>2. d \in Conn /\ Tidy(d)
    BY <1>0, AckSame, TidyHandlers DEF Same
  <2>. HIDE DEF d
  <2>. QED BY <2>1, <2>2, TidyHandlers
<1>4. CASE ReceivesData
  <2>1. PICK f \in 1..DataB :
          \/ a' = a
          \/ Holds(a) /\ Fits(a, f) /\ a' = Held(a, f)
          \/ a' = Finished(a)
    BY <1>4 DEF ReceivesData, ClosesA
  <2>2. f \in DataFrames
    BY DEF DataFrames
  <2>. QED BY <1>0, <2>1, <2>2, TidyHandlers, TidyHeld
<1>5. CASE Writes \/ Ignores \/ EndsClient \/ Drops \/ EmitsA("loop") \/ Fails
  BY <1>0, <1>5, TidyHandlers DEF Writes, Ignores, EndsClient, Drops, EmitsA, Fails, ClosesA
<1>6. CASE Programs
  BY <1>0, <1>6, TidyHandlers DEF Programs, TestsReady, SendsFrame, SendsTo, DisconnectsB,
     DisconnectsA, ClosesA, aVars
<1>7. CASE ServerB
  BY <1>7 DEF ServerB, Accepts, Fetches, Closes, Loses, EmitsB, HandlesHello, HandlesAck,
     HandlesData, Handles, aVars
<1>8. CASE PeerRestarts \/ (\E s \in Sockets : NetDrops(s)) \/ UNCHANGED vars
  BY <1>8 DEF PeerRestarts, NetDrops, vars, aVars
<1>. QED BY <1>1, <1>2, <1>3, <1>4, <1>5, <1>6, <1>7, <1>8 DEF Next, LoopA

BTidy == \A s \in Sockets : Tidy(b[s])

LEMMA TidyOne ==
    ASSUME BTypes, BTidy, NEW s \in Sockets, NEW c, b' = [b EXCEPT ![s] = c], Tidy(c)
    PROVE  BTidy'
<1>1. ASSUME NEW t \in Sockets PROVE Tidy(b'[t])
  <2>1. b'[t] = IF t = s THEN c ELSE b[t]
    BY DEF BTypes
  <2>. QED BY <2>1 DEF BTidy
<1>. QED BY <1>1 DEF BTidy

LEMMA TidyBStep == BInv /\ BTidy /\ [Next]_vars => BTidy'
<1> SUFFICES ASSUME BInv, BTidy, [Next]_vars PROVE BTidy'
  OBVIOUS
<1>0. BTypes /\ \A s \in Sockets : b[s] \in Conn /\ Tidy(b[s])
  BY DEF BInv, BTypes, BTidy
<1>1. ASSUME NEW s \in Sockets, EndsB(s) PROVE BTidy'
  <2>1. b' = [b EXCEPT ![s] = Finished(b[s])]
    BY <1>1 DEF EndsB
  <2>2. Tidy(Finished(b[s]))
    BY <1>0, TidyHandlers
  <2>. QED BY <1>0, <2>1, <2>2, TidyOne
<1>2. ASSUME NEW s \in Sockets, Accepts(s) PROVE BTidy'
  <2> DEFINE c == [NewConnection("inbound", "HANDSHAKING") EXCEPT !.listed = TRUE]
  <2>1. b' = [b EXCEPT ![s] = c]
    BY <1>2 DEF Accepts
  <2>2. c.early = <<>>
    BY DEF NewConnection
  <2>. HIDE DEF c
  <2>. QED BY <1>0, <2>1, <2>2, TidyEmpty, TidyOne
<1>3. ASSUME NEW s \in Sockets, NEW d \in Conn, Tidy(d), Settles(s, d) PROVE BTidy'
  <2>1. b' = [b EXCEPT ![s] = Checked(d)]
    BY <1>3 DEF Settles
  <2>2. Tidy(Checked(d))
    BY <1>3, TidyHandlers
  <2>. QED BY <1>0, <2>1, <2>2, TidyOne
<1>4. ASSUME NEW s \in Sockets, HandlesHello(s) PROVE BTidy'
  <2>1. Settles(s, Greets(b[s])) /\ Greets(b[s]) \in Conn /\ Tidy(Greets(b[s]))
    BY <1>0, <1>4, GreetsSame, TidyHandlers DEF HandlesHello
  <2>. QED BY <1>3, <2>1
<1>5. ASSUME NEW s \in Sockets, HandlesAck(s) PROVE BTidy'
  <2> DEFINE d == [b[s] EXCEPT !.ack = TRUE]
  <2>1. Settles(s, d)
    BY <1>5 DEF HandlesAck
  <2>2. d \in Conn /\ Tidy(d)
    BY <1>0, AckSame, TidyHandlers DEF Same
  <2>. HIDE DEF d
  <2>. QED BY <1>3, <2>1, <2>2
<1>6. ASSUME NEW s \in Sockets, HandlesData(s) PROVE BTidy'
  <2>1. PICK f \in 1..DataA :
          \/ b' = b
          \/ Holds(b[s]) /\ Fits(b[s], f) /\ b' = [b EXCEPT ![s] = Held(b[s], f)]
          \/ EndsB(s)
    BY <1>6 DEF HandlesData
  <2>2. CASE b' = b
    BY <2>2 DEF BTidy
  <2>3. CASE Holds(b[s]) /\ Fits(b[s], f) /\ b' = [b EXCEPT ![s] = Held(b[s], f)]
    <3>1. f \in DataFrames
      BY DEF DataFrames
    <3>2. Tidy(Held(b[s], f))
      BY <1>0, <2>3, <3>1, TidyHeld
    <3>. QED BY <1>0, <2>3, <3>2, TidyOne
  <2>. QED BY <1>1, <2>1, <2>2, <2>3
<1>7. CASE ServerB
  <2>1. PICK s \in Sockets :
          \/ Accepts(s) \/ Fetches(s) \/ Closes(s) \/ Loses(s) \/ EmitsB(s)
          \/ HandlesHello(s) \/ HandlesAck(s) \/ HandlesData(s)
    BY <1>7 DEF ServerB
  <2>2. CASE Fetches(s) \/ Closes(s) \/ EmitsB(s)
    BY <2>2 DEF Fetches, Closes, EmitsB, bVars, BTidy
  <2>3. CASE Loses(s)
    BY <1>1, <2>3 DEF Loses
  <2>. QED BY <1>2, <1>4, <1>5, <1>6, <2>1, <2>2, <2>3
<1>8. CASE Programs
  <2>1. CASE TestsReady \/ SendsFrame \/ DisconnectsA \/ \E s \in Sockets : SendsTo(s)
    BY <2>1 DEF TestsReady, SendsFrame, DisconnectsA, SendsTo, bVars, BTidy
  <2>2. CASE \E s \in Sockets : DisconnectsB(s)
    BY <1>1, <2>2 DEF DisconnectsB
  <2>. QED BY <1>8, <2>1, <2>2 DEF Programs
<1>9. CASE Dialling
  BY <1>9 DEF Dialling, SubscribesData, SubscribesState, ReplayChecks, Lists, EmitsA, bVars, BTidy
<1>10. CASE Opens \/ LoopA \/ Fails
  BY <1>10 DEF Opens, LoopA, Fails, Writes, Ignores, ReceivesHello, ReceivesAck, ReceivesData,
     Receives, Drops, EndsClient, EmitsA, bVars, BTidy
<1>11. CASE PeerRestarts \/ (\E s \in Sockets : NetDrops(s)) \/ UNCHANGED vars
  BY <1>11 DEF PeerRestarts, NetDrops, vars, bVars, BTidy
<1>. QED BY <1>7, <1>8, <1>9, <1>10, <1>11 DEF Next

LEMMA TidyInit == Init => Tidy(a) /\ BTidy
<1> SUFFICES ASSUME Init PROVE Tidy(a) /\ BTidy
  OBVIOUS
<1>1. a.early = <<>> /\ \A s \in Sockets : b[s].early = <<>>
  BY DEF Init, NewConnection, Absent
<1>. QED BY <1>1, TidyEmpty DEF BTidy

(* Frames are held only between HELLO and READY and within both bounds, at *)
(* both nodes, for any bounds and frame sizes.                             *)
THEOREM HeldFramesTidy == Spec => []HeldUntilReady
<1>1. Tidy(a) /\ BTidy => HeldUntilReady
  BY DEF Tidy, BTidy, HeldUntilReady
<1>. QED BY <1>1, PairInit, AStep, BStep, TidyInit, TidyAStep, TidyBStep, PTL DEF Spec

-----------------------------------------------------------------------------
(* The data frames of a sequence.                                          *)

(* f holds the data frames of each prefix of s.                            *)
Sifts(f, s, n) ==
    f = [i \in 0..n |-> IF i = 0 THEN <<>>
                        ELSE IF s[i] > 0 THEN Append(f[i - 1], s[i]) ELSE f[i - 1]]

LEMMA DataChosen == \A s : Data(s) = (CHOOSE f : Sifts(f, s, Len(s)))[Len(s)]
BY DEF Data, Sifts

LEMMA SiftSteps ==
    ASSUME NEW s, NEW n \in Nat, NEW f, Sifts(f, s, n)
    PROVE  /\ f[0] = <<>>
           /\ \A i \in 0..n : i < n =>
                 f[i + 1] = IF s[i + 1] > 0 THEN Append(f[i], s[i + 1]) ELSE f[i]
<1>1. \A i \in 0..n : f[i] = IF i = 0 THEN <<>>
         ELSE IF s[i] > 0 THEN Append(f[i - 1], s[i]) ELSE f[i - 1]
  BY DEF Sifts
<1>2. \A i \in 0..n : i < n => i + 1 \in 0..n /\ i + 1 # 0 /\ (i + 1) - 1 = i
  OBVIOUS
<1>3. 0 \in 0..n
  OBVIOUS
<1>. QED BY <1>1, <1>2, <1>3

LEMMA SiftExists ==
    ASSUME NEW s, NEW n \in Nat
    PROVE  \E f : Sifts(f, s, n)
<1> DEFINE S == {i \in Nat : \E f : Sifts(f, s, i)}
<1>1. 0 \in S
  <2> DEFINE f == [i \in {0} |-> <<>>]
  <2>1. 0..0 = {0}
    OBVIOUS
  <2>2. Sifts(f, s, 0)
    BY <2>1 DEF Sifts
  <2>. QED BY <2>2
<1>2. ASSUME NEW i \in 0..n, i \in S, i < n PROVE i + 1 \in S
  <2>1. PICK f : Sifts(f, s, i)
    BY <1>2
  <2> DEFINE g == [j \in 0..i + 1 |->
                     IF j = i + 1 THEN IF s[i + 1] > 0 THEN Append(f[i], s[i + 1]) ELSE f[i]
                     ELSE f[j]]
  <2>2. ASSUME NEW j \in 0..i + 1
        PROVE  g[j] = IF j = 0 THEN <<>>
                      ELSE IF s[j] > 0 THEN Append(g[j - 1], s[j]) ELSE g[j - 1]
    <3>1. CASE j = i + 1
      <4>1. j - 1 = i /\ i \in 0..i + 1 /\ i # i + 1 /\ j # 0
        BY <3>1
      <4>2. g[j - 1] = f[i]
        BY <4>1
      <4>. QED BY <3>1, <4>1, <4>2
    <3>2. CASE j # i + 1
      <4>1. j \in 0..i /\ (j # 0 => j - 1 \in 0..i + 1 /\ j - 1 # i + 1)
        BY <3>2
      <4>2. f[j] = IF j = 0 THEN <<>>
                   ELSE IF s[j] > 0 THEN Append(f[j - 1], s[j]) ELSE f[j - 1]
        BY <2>1, <4>1 DEF Sifts
      <4>. QED BY <3>2, <4>1, <4>2
    <3>. QED BY <3>1, <3>2
  <2>3. g = [j \in 0..i + 1 |-> g[j]]
    OBVIOUS
  <2>. HIDE DEF g
  <2>4. Sifts(g, s, i + 1)
    BY <2>2, <2>3 DEF Sifts
  <2>. QED BY <2>4
<1>. HIDE DEF S
<1>3. n \in S
  BY <1>1, <1>2, UpTo
<1>. QED BY <1>3 DEF S

(* What goes through s in the same way ends in the same frames.            *)
LEMMA DataIs ==
    ASSUME NEW s \in Seq(Int), NEW f, f[0] = <<>>,
           \A i \in 0..Len(s) : i < Len(s) =>
               f[i + 1] = IF s[i + 1] > 0 THEN Append(f[i], s[i + 1]) ELSE f[i]
    PROVE  Data(s) = f[Len(s)]
<1> DEFINE n == Len(s)
           g == CHOOSE e : Sifts(e, s, n)
           S == {i \in Nat : g[i] = f[i]}
<1>1. n \in Nat
  BY LenProperties
<1>2. Sifts(g, s, n)
  BY <1>1, SiftExists
<1>3. Data(s) = g[n]
  BY DataChosen
<1>4. \A i \in 0..n : i < n =>
               f[i + 1] = IF s[i + 1] > 0 THEN Append(f[i], s[i + 1]) ELSE f[i]
  OBVIOUS
<1>. HIDE DEF g, n
<1>5. /\ g[0] = <<>>
      /\ \A i \in 0..n : i < n =>
            g[i + 1] = IF s[i + 1] > 0 THEN Append(g[i], s[i + 1]) ELSE g[i]
  BY <1>1, <1>2, SiftSteps
<1>6. 0 \in S
  BY <1>5
<1>7. ASSUME NEW i \in 0..n, i \in S, i < n PROVE i + 1 \in S
  BY <1>4, <1>5, <1>7
<1>. HIDE DEF S
<1>8. 0..n \subseteq S
  BY <1>1, <1>6, <1>7, UpTo
<1>9. g[n] = f[n]
  BY <1>1, <1>8 DEF S
<1>. QED BY <1>3, <1>9 DEF n

LEMMA DataEmpty == Data(<<>>) = <<>>
<1> DEFINE f == [i \in {0} |-> <<>>]
<1>1. <<>> \in Seq(Int) /\ Len(<<>>) = 0 /\ f[0] = <<>>
  OBVIOUS
<1>. HIDE DEF f
<1>2. \A i \in 0..Len(<<>>) : i < Len(<<>>) =>
         f[i + 1] = IF <<>>[i + 1] > 0 THEN Append(f[i], <<>>[i + 1]) ELSE f[i]
  BY <1>1
<1>3. Data(<<>>) = f[Len(<<>>)]
  BY <1>1, <1>2, DataIs
<1>. QED BY <1>1, <1>3

LEMMA DataAppend ==
    ASSUME NEW s \in Seq(Int), NEW x \in Int
    PROVE  Data(Append(s, x)) = IF x > 0 THEN Append(Data(s), x) ELSE Data(s)
<1> DEFINE t == Append(s, x)
           n == Len(s)
<1>1. /\ n \in Nat /\ t \in Seq(Int) /\ Len(t) = n + 1 /\ t[n + 1] = x
      /\ \A i \in 1..n : t[i] = s[i]
  BY LenProperties, AppendProperties
<1>. HIDE DEF t
<1>2. \E f : Sifts(f, t, n + 1)
  <2>1. n + 1 \in Nat
    BY <1>1
  <2>. HIDE DEF n
  <2>. QED BY <2>1, SiftExists
<1>7. PICK f : Sifts(f, t, n + 1)
  BY <1>2
<1>3. /\ f[0] = <<>>
      /\ \A i \in 0..n + 1 : i < n + 1 =>
            f[i + 1] = IF t[i + 1] > 0 THEN Append(f[i], t[i + 1]) ELSE f[i]
  <2>1. n + 1 \in Nat
    BY <1>1
  <2>. HIDE DEF n
  <2>. QED BY <1>7, <2>1, SiftSteps
<1>4. Data(t) = f[n + 1]
  BY <1>1, <1>3, DataIs
<1>5. Data(s) = f[n]
  <2>1. \A i \in 0..n : i < n =>
            f[i + 1] = IF s[i + 1] > 0 THEN Append(f[i], s[i + 1]) ELSE f[i]
    <3>1. \A i \in 0..n : i < n => i + 1 \in 1..n /\ i \in 0..n + 1 /\ i < n + 1
      BY <1>1
    <3>. QED BY <1>1, <1>3, <3>1
  <2>. QED BY <1>3, <2>1, DataIs
<1>6. n \in 0..n + 1 /\ n < n + 1
  BY <1>1
<1>. QED BY <1>1, <1>3, <1>4, <1>5, <1>6 DEF t

LEMMA CutNext ==
    ASSUME NEW S, NEW s \in Seq(S), NEW i \in 0..Len(s), i < Len(s)
    PROVE  /\ Cut(s, i) \in Seq(S) /\ s[i + 1] \in S
           /\ Cut(s, i + 1) = Append(Cut(s, i), s[i + 1])
           /\ Cut(s, 0) = <<>> /\ Cut(s, Len(s)) = s
<1> DEFINE n == Len(s)
           u == Cut(s, i)
           w == Cut(s, i + 1)
<1>1. n \in Nat /\ s \in [1..n -> S] /\ \A j \in 1..n : s[j] \in S
  BY LenProperties, ElementOfSeq
<1>2. /\ u = [j \in 1..i |-> s[j]] /\ w = [j \in 1..i + 1 |-> s[j]]
      /\ Cut(s, 0) = [j \in 1..0 |-> s[j]] /\ Cut(s, n) = [j \in 1..n |-> s[j]]
  BY <1>1 DEF Cut
<1>. HIDE DEF n, u, w
<1>3. i \in Nat /\ i < n /\ \A j \in 1..i + 1 : j \in 1..n
  BY <1>1 DEF n
<1>4. u \in Seq(S) /\ Len(u) = i
  BY <1>1, <1>2, <1>3
<1>5. s[i + 1] \in S
  BY <1>1, <1>3
<1>6. w = Append(u, s[i + 1])
  <2> DEFINE t == Append(u, s[i + 1])
  <2>1. /\ t \in Seq(S) /\ Len(t) = i + 1 /\ t[i + 1] = s[i + 1]
        /\ \A j \in 1..i : t[j] = s[j]
    BY <1>2, <1>4, <1>5, AppendProperties
  <2>2. w \in Seq(S) /\ Len(w) = i + 1 /\ \A j \in 1..i + 1 : w[j] = s[j]
    BY <1>1, <1>2, <1>3
  <2>. HIDE DEF t
  <2>3. \A j \in 1..i + 1 : j \in 1..i \/ j = i + 1
    BY <1>3
  <2>4. w = t
    BY <2>1, <2>2, <2>3, SeqEqual
  <2>. QED BY <2>4 DEF t
<1>7. Cut(s, 0) = <<>> /\ Cut(s, n) = s
  <2>1. Cut(s, 0) = <<>>
    BY <1>2
  <2>2. Cut(s, n) = s
    BY <1>1, <1>2
  <2>. QED BY <2>1, <2>2
<1>. QED BY <1>4, <1>5, <1>6, <1>7 DEF u, w, n

LEMMA ConcatAppend ==
    ASSUME NEW S, NEW s \in Seq(S), NEW t \in Seq(S), NEW x \in S
    PROVE  s \o Append(t, x) = Append(s \o t, x)
<1>1. <<x>> \in Seq(S) /\ s \o t \in Seq(S)
  BY ConcatProperties
<1>2. Append(t, x) = t \o <<x>> /\ Append(s \o t, x) = (s \o t) \o <<x>>
  BY <1>1, AppendIsConcat
<1>. QED BY <1>1, <1>2, ConcatAssociative

LEMMA DataInt ==
    ASSUME NEW s \in Seq(Int)
    PROVE  Data(s) \in Seq(Int)
<1> DEFINE n == Len(s)
           S == {i \in 0..n : Data(Cut(s, i)) \in Seq(Int)}
<1>1. n \in Nat
  BY LenProperties
<1>2. 0 \in S
  <2>1. Cut(s, 0) = <<>>
    BY <1>1, SubSeqEmpty DEF Cut
  <2>2. <<>> \in Seq(Int) /\ 0 \in 0..n
    BY <1>1
  <2>. QED BY <2>1, <2>2, DataEmpty
<1>3. ASSUME NEW i \in 0..n, i \in S, i < n PROVE i + 1 \in S
  <2>1. Cut(s, i) \in Seq(Int) /\ s[i + 1] \in Int /\ Cut(s, i + 1) = Append(Cut(s, i), s[i + 1])
    BY <1>3, CutNext
  <2>2. Data(Cut(s, i)) \in Seq(Int)
    BY <1>3
  <2>3. Data(Cut(s, i + 1)) \in {Data(Cut(s, i)), Append(Data(Cut(s, i)), s[i + 1])}
    BY <2>1, DataAppend
  <2>4. Append(Data(Cut(s, i)), s[i + 1]) \in Seq(Int)
    BY <2>1, <2>2, AppendProperties
  <2>5. i + 1 \in 0..n
    BY <1>1, <1>3
  <2>. QED BY <2>2, <2>3, <2>4, <2>5
<1>. HIDE DEF S
<1>4. 0..n \subseteq S
  <2>. HIDE DEF n
  <2>. QED BY <1>1, <1>2, <1>3, UpTo
<1>5. Data(Cut(s, n)) \in Seq(Int)
  BY <1>1, <1>4 DEF S
<1>6. Cut(s, n) = s
  BY SubSeqFull DEF Cut
<1>. QED BY <1>5, <1>6

LEMMA DataConcat ==
    ASSUME NEW s \in Seq(Int), NEW t \in Seq(Int)
    PROVE  Data(s \o t) = Data(s) \o Data(t)
<1> DEFINE n == Len(t)
           d(i) == Data(Cut(t, i))
           S == {i \in 0..n : Data(s \o Cut(t, i)) = Data(s) \o d(i)}
<1>1. n \in Nat /\ Data(s) \in Seq(Int)
  BY LenProperties, DataInt
<1>2. 0 \in S
  <2>1. Cut(t, 0) = <<>>
    BY <1>1, SubSeqEmpty DEF Cut
  <2> DEFINE e == Data(s)
  <2>2. s \o <<>> = s
    BY ConcatEmptySeq
  <2>3. e \in Seq(Int)
    BY <1>1
  <2>. HIDE DEF e
  <2>4. e \o <<>> = e
    BY <2>3, ConcatEmptySeq
  <2>5. Data(s \o Cut(t, 0)) = Data(s) /\ d(0) = <<>>
    BY <2>1, <2>2, DataEmpty
  <2>6. 0 \in 0..n
    BY <1>1
  <2>. QED BY <2>4, <2>5, <2>6 DEF e
<1>3. ASSUME NEW i \in 0..n, i \in S, i < n PROVE i + 1 \in S
  <2> DEFINE u == Cut(t, i)
             x == t[i + 1]
  <2>1. u \in Seq(Int) /\ x \in Int /\ Cut(t, i + 1) = Append(u, x)
    BY <1>3, CutNext
  <2>2. Data(s \o u) = Data(s) \o Data(u)
    BY <1>3
  <2>. HIDE DEF u, x
  <2>3. s \o Append(u, x) = Append(s \o u, x) /\ s \o u \in Seq(Int)
    <3>1. s \o Append(u, x) = Append(s \o u, x)
      BY <2>1, ConcatAppend, SMTT(30)
    <3>2. s \o u \in Seq(Int)
      BY <2>1, ConcatProperties
    <3>. QED BY <3>1, <3>2
  <2>4. Data(u) \in Seq(Int)
    BY <2>1, DataInt
  <2>5. Data(s) \o Append(Data(u), x) = Append(Data(s) \o Data(u), x)
    <3> DEFINE e == Data(s)
               w == Data(u)
    <3>1. e \in Seq(Int) /\ w \in Seq(Int)
      BY <1>1, <2>4
    <3>. HIDE DEF e, w
    <3>2. \A y \in Int : e \o Append(w, y) = Append(e \o w, y)
      BY <3>1, ConcatAppend, SMTT(30)
    <3>. QED BY <2>1, <3>2 DEF e, w
  <2>6. Data(s \o Append(u, x)) = Data(s) \o Data(Append(u, x))
    <3>1. CASE x > 0
      BY <2>1, <2>2, <2>3, <2>5, <3>1, DataAppend
    <3>2. CASE ~(x > 0)
      BY <2>1, <2>2, <2>3, <3>2, DataAppend
    <3>. QED BY <3>1, <3>2
  <2>7. i + 1 \in 0..n
    BY <1>1, <1>3
  <2>. QED BY <2>1, <2>6, <2>7
<1>. HIDE DEF S
<1>4. 0..n \subseteq S
  <2>. HIDE DEF n
  <2>. QED BY <1>1, <1>2, <1>3, UpTo
<1>5. Data(s \o Cut(t, n)) = Data(s) \o Data(Cut(t, n))
  BY <1>1, <1>4 DEF S
<1>6. Cut(t, n) = t
  BY SubSeqFull DEF Cut
<1>. QED BY <1>5, <1>6

LEMMA DataOne ==
    ASSUME NEW x \in Int
    PROVE  Data(<<x>>) = IF x > 0 THEN <<x>> ELSE <<>>
<1>1. <<>> \in Seq(Int) /\ Append(<<>>, x) = <<x>>
  OBVIOUS
<1>. QED BY <1>1, DataAppend, DataEmpty

LEMMA DataHead ==
    ASSUME NEW s \in Seq(Int), s # <<>>
    PROVE  /\ Head(s) \in Int /\ Tail(s) \in Seq(Int)
           /\ Data(s) = Data(<<Head(s)>>) \o Data(Tail(s))
<1>1. Head(s) \in Int /\ Tail(s) \in Seq(Int) /\ <<Head(s)>> \in Seq(Int)
  BY HeadTailProperties
<1>2. s = <<Head(s)>> \o Tail(s)
  BY HeadTailProperties
<1>. QED BY <1>1, <1>2, DataConcat

LEMMA DataAll ==
    ASSUME NEW s \in Seq(DataFrames)
    PROVE  Data(s) = s /\ s \in Seq(Int)
<1> DEFINE f == [i \in 0..Len(s) |-> Cut(s, i)]
<1>1. Len(s) \in Nat /\ s \in Seq(Int) /\ \A i \in 1..Len(s) : s[i] \in DataFrames /\ s[i] > 0
  <2>1. DataFrames \subseteq Int /\ \A x \in DataFrames : x > 0
    BY DEF DataFrames
  <2>2. \A i \in 1..Len(s) : s[i] \in DataFrames
    BY ElementOfSeq
  <2>3. s \in Seq(Int)
    <3> DEFINE D == DataFrames
    <3>1. D \subseteq Int /\ s \in Seq(D)
      BY <2>1
    <3>. HIDE DEF D
    <3>2. Len(s) \in Nat /\ s \in [1..Len(s) -> D]
      BY <3>1, LenProperties
    <3>3. s \in [1..Len(s) -> Int]
      BY <3>1, <3>2
    <3>. QED BY <3>2, <3>3
  <2>. QED BY <2>1, <2>2, <2>3, LenProperties
<1>2. f[0] = <<>>
  <2>1. Cut(s, 0) = <<>>
    BY <1>1, SubSeqEmpty DEF Cut
  <2>. QED BY <1>1, <2>1
<1>3. ASSUME NEW i \in 0..Len(s), i < Len(s)
      PROVE  f[i + 1] = IF s[i + 1] > 0 THEN Append(f[i], s[i + 1]) ELSE f[i]
  <2>1. i + 1 \in 1..Len(s) /\ i + 1 \in 0..Len(s)
    BY <1>1, <1>3
  <2>2. Cut(s, i + 1) = Append(Cut(s, i), s[i + 1])
    BY <1>1, <1>3, CutNext
  <2>. QED BY <1>1, <2>1, <2>2
<1>4. f[Len(s)] = s
  <2>1. Cut(s, Len(s)) = s
    BY SubSeqFull DEF Cut
  <2>. QED BY <1>1, <2>1
<1>. HIDE DEF f
<1>5. Data(s) = f[Len(s)]
  BY <1>1, <1>2, <1>3, DataIs
<1>. QED BY <1>1, <1>4, <1>5

-----------------------------------------------------------------------------
(* The client's queue: what a put() drops is its oldest frames.            *)

(* The queue's frames and how many it has dropped; the rest of its record  *)
(* is the send queue's own affair.                                         *)
QueueForm(r) ==
    /\ r = [overflow |-> r.overflow, frames |-> r.frames, tokens |-> r.tokens,
            taken |-> r.taken, bytes |-> r.bytes, dropped |-> r.dropped,
            overflowed |-> r.overflowed, ready |-> r.ready, bound |-> r.bound,
            backlog |-> r.backlog]
    /\ r.frames \in Seq(Nat) /\ r.dropped \in Nat

LEMMA PutForm ==
    ASSUME NEW r, QueueForm(r), NEW f \in Nat, Limit > 0
    PROVE  /\ QueueForm(Put(r, Off, f, "drop_old"))
           /\ \E n \in 0..Len(r.frames) :
                 /\ Put(r, Off, f, "drop_old").frames = Append(Rest(r.frames, n), f)
                 /\ Put(r, Off, f, "drop_old").dropped = r.dropped + n
<1> DEFINE size == SizeOf(f)
           e(n) == Evict(r, Off, n)
           S == {n \in 0..Len(r.frames) : ~Full(e(n), size)}
<1>1. Len(r.frames) \in Nat /\ r.frames \in Seq(Nat) /\ Off.live = FALSE
  BY LenProperties DEF QueueForm, Off
<1>2. ASSUME NEW n \in 0..Len(r.frames)
      PROVE  /\ e(n).frames = Rest(r.frames, n) /\ e(n).dropped = r.dropped + n
             /\ Rest(r.frames, n) \in Seq(Nat) /\ QueueForm(e(n))
  <2>1. e(n) = [r EXCEPT !.frames = Rest(@, n), !.tokens = Rest(@, n),
                       !.bytes = @ - Bytes(Cut(r.frames, n)),
                       !.dropped = @ + n,
                       !.taken = IF n = 0 THEN @ ELSE r.tokens[n]]
    BY <1>1 DEF Evict, Left, Reports
  <2>2. Rest(r.frames, n) \in Seq(Nat)
    BY <1>1, SubSeqProperties DEF Rest
  <2>3. r.dropped + n \in Nat
    BY DEF QueueForm
  <2>. HIDE DEF e
  <2>. QED BY <2>1, <2>2, <2>3 DEF QueueForm
<1>. HIDE DEF e
<1>3. Len(r.frames) \in S
  <2>1. Rest(r.frames, Len(r.frames)) = <<>>
    BY <1>1, SubSeqEmpty DEF Rest
  <2>2. e(Len(r.frames)).frames = <<>>
    BY <1>1, <1>2, <2>1
  <2>. QED BY <1>1, <2>2, SendQueueAssumption DEF Full, None
<1>4. S \subseteq Nat /\ S # {}
  BY <1>1, <1>3
<1>5. Min(S) \in S
  <2>. HIDE DEF S
  <2>. QED BY <1>4, MinOfNaturals
<1>6. Rounds(r, Off, size) \in 0..Len(r.frames)
  BY <1>5 DEF Rounds, e
<1>7. ASSUME NEW p, QueueForm(p)
      PROVE  /\ QueueForm(Pushed(p, Off, f)) /\ Pushed(p, Off, f).frames = Append(p.frames, f)
             /\ Pushed(p, Off, f).dropped = p.dropped
  <2>1. Pushed(p, Off, f) = [p EXCEPT !.frames = Append(@, f), !.bytes = @ + SizeOf(f),
                      !.tokens = Append(@, EnterToken(p, Off)), !.ready = TRUE]
    BY <1>1 DEF Pushed, Entered, Reports
  <2>2. Append(p.frames, f) \in Seq(Nat)
    BY <1>7, AppendProperties DEF QueueForm
  <2>. QED BY <1>7, <2>1, <2>2 DEF QueueForm
<1>8. CASE ~Full(r, size)
  <2>1. Put(r, Off, f, "drop_old") = Pushed(r, Off, f)
    BY <1>8 DEF Put
  <2>2. Rest(r.frames, 0) = r.frames /\ r.dropped + 0 = r.dropped /\ 0 \in 0..Len(r.frames)
    BY <1>1, SubSeqFull DEF Rest, QueueForm
  <2>. QED BY <1>7, <2>1, <2>2
<1>9. CASE Full(r, size)
  <2> DEFINE n == Rounds(r, Off, size)
  <2>1. Put(r, Off, f, "drop_old") = Pushed(e(n), Off, f)
    BY <1>9 DEF Put, e
  <2>. HIDE DEF n
  <2>2. n \in 0..Len(r.frames)
    BY <1>6 DEF n
  <2>. QED BY <1>2, <1>7, <2>1, <2>2
<1>. QED BY <1>8, <1>9

-----------------------------------------------------------------------------
LEMMA IntSequences ==
    /\ \A s, t \in Seq(Int) : s \o t \in Seq(Int)
    /\ \A s, t \in Seq(Int) : \A x \in Int : s \o Append(t, x) = Append(s \o t, x)
    /\ \A r, s, t \in Seq(Int) : (r \o s) \o t = r \o (s \o t)
<1>1. ASSUME NEW s \in Seq(Int), NEW t \in Seq(Int)
      PROVE  s \o t \in Seq(Int) /\ \A x \in Int : s \o Append(t, x) = Append(s \o t, x)
  BY ConcatProperties, ConcatAppend
<1>2. ASSUME NEW r \in Seq(Int), NEW s \in Seq(Int), NEW t \in Seq(Int)
      PROVE  (r \o s) \o t = r \o (s \o t)
  BY ConcatAssociative, SMTT(20)
<1>. QED BY <1>1, <1>2

(* What was written to a socket: what its connection emitted and is about  *)
(* to emit, the frames it holds, the one being handled and those to come.  *)
Flow(log, pend, early, under, coming) == Data(log \o pend) \o early \o under \o Data(coming)

LEMMA FlowComing ==
    ASSUME NEW l \in Seq(Int), NEW p \in Seq(Int), NEW e \in Seq(Int), NEW u \in Seq(Int),
           NEW c \in Seq(Int), NEW x \in Int
    PROVE  /\ Flow(l, p, e, u, c) \in Seq(Int)
           /\ Flow(l, p, e, u, Append(c, x)) =
                IF x > 0 THEN Append(Flow(l, p, e, u, c), x) ELSE Flow(l, p, e, u, c)
<1> DEFINE h == Data(l \o p) \o e \o u
           d == Data(c)
<1>1. Data(l \o p) \in Seq(Int) /\ d \in Seq(Int)
  BY ConcatProperties, DataInt
<1>2. h \in Seq(Int)
  <2> DEFINE k == Data(l \o p)
  <2>1. k \in Seq(Int)
    BY <1>1
  <2>. HIDE DEF k
  <2>2. k \o e \in Seq(Int)
    BY <2>1, ConcatProperties
  <2>3. (k \o e) \o u \in Seq(Int)
    BY <2>2, ConcatProperties
  <2>. QED BY <2>3 DEF k
<1>3. Data(Append(c, x)) = IF x > 0 THEN Append(d, x) ELSE d
  BY DataAppend
<1>4. Flow(l, p, e, u, c) = h \o d /\ Flow(l, p, e, u, Append(c, x)) = h \o Data(Append(c, x))
  BY DEF Flow
<1>. HIDE DEF h, d
<1>5. h \o d \in Seq(Int) /\ \A y \in Int : h \o Append(d, y) = Append(h \o d, y)
  <2>1. d \in Seq(Int)
    BY <1>1
  <2>2. h \o d \in Seq(Int)
    BY <1>2, <2>1, ConcatProperties
  <2>3. \A y \in Int : h \o Append(d, y) = Append(h \o d, y)
    <3>1. \A s, t \in Seq(Int) : \A y \in Int : s \o Append(t, y) = Append(s \o t, y)
      BY IntSequences
    <3>. QED BY <1>2, <2>1, <3>1
  <2>. QED BY <2>2, <2>3
<1>. QED BY <1>3, <1>4, <1>5

LEMMA FlowFetched ==
    ASSUME NEW l \in Seq(Int), NEW p \in Seq(Int), NEW e \in Seq(Int),
           NEW c \in Seq(Int), c # <<>>
    PROVE  Flow(l, p, e, Data(<<Head(c)>>), Tail(c)) = Flow(l, p, e, <<>>, c)
<1> DEFINE h == Data(l \o p) \o e
           u == Data(<<Head(c)>>)
           d == Data(Tail(c))
<1>1. /\ Head(c) \in Int /\ Tail(c) \in Seq(Int) /\ Data(c) = u \o d
  BY DataHead
<1>2. <<Head(c)>> \in Seq(Int)
  BY <1>1
<1>3. u \in Seq(Int) /\ d \in Seq(Int)
  BY <1>1, <1>2, DataInt
<1>4. h \in Seq(Int)
  <2> DEFINE k == Data(l \o p)
  <2>1. k \in Seq(Int)
    BY ConcatProperties, DataInt
  <2>. HIDE DEF k
  <2>2. k \o e \in Seq(Int)
    BY <2>1, ConcatProperties
  <2>. QED BY <2>2 DEF k
<1>5. /\ Flow(l, p, e, Data(<<Head(c)>>), Tail(c)) = (h \o u) \o d
      /\ Flow(l, p, e, <<>>, c) = (h \o <<>>) \o (u \o d)
  BY <1>1 DEF Flow
<1>. HIDE DEF h, u, d
<1>6. (h \o u) \o d = h \o (u \o d) /\ h \o <<>> = h
  <2>1. (h \o u) \o d = h \o (u \o d)
    <3>1. u \in Seq(Int) /\ d \in Seq(Int) /\ h \in Seq(Int)
      BY <1>3, <1>4
    <3>2. \A r, s, t \in Seq(Int) : (r \o s) \o t = r \o (s \o t)
      BY IntSequences
    <3>3. \A s, t \in Seq(Int) : (h \o s) \o t = h \o (s \o t)
      BY <3>1, <3>2, Zenon
    <3>. QED BY <3>1, <3>3, Zenon
  <2>2. h \o <<>> = h
    BY <1>4, ConcatEmptySeq
  <2>. QED BY <2>1, <2>2
<1>. QED BY <1>5, <1>6

LEMMA FlowEmitted ==
    ASSUME NEW l \in Seq(Int), NEW p \in Seq(Int), p # <<>>, NEW e, NEW u, NEW c
    PROVE  Flow(Append(l, Head(p)), Tail(p), e, u, c) = Flow(l, p, e, u, c)
<1>1. /\ Head(p) \in Int /\ Tail(p) \in Seq(Int) /\ <<Head(p)>> \in Seq(Int)
      /\ p = <<Head(p)>> \o Tail(p)
  BY HeadTailProperties
<1>2. Append(l, Head(p)) = l \o <<Head(p)>>
  BY <1>1, AppendIsConcat
<1>3. (l \o <<Head(p)>>) \o Tail(p) = l \o (<<Head(p)>> \o Tail(p))
  BY <1>1, ConcatAssociative
<1>4. Append(l, Head(p)) \o Tail(p) = l \o p
  BY <1>1, <1>2, <1>3
<1>. QED BY <1>4 DEF Flow

LEMMA FlowDelivered ==
    ASSUME NEW l \in Seq(Int), NEW c \in Seq(Int), NEW f \in Int, f > 0
    PROVE  Flow(Append(l, f), <<>>, <<>>, <<>>, c) = Flow(l, <<>>, <<>>, Data(<<f>>), c)
<1> DEFINE d == Data(l)
           t == Data(c)
<1>1. <<>> \in Seq(Int) /\ <<f>> \in Seq(Int) /\ Append(l, f) \in Seq(Int)
  BY AppendProperties
<1>2. Data(Append(l, f)) = Append(d, f) /\ Data(<<f>>) = <<f>> /\ d \in Seq(Int)
  BY DataAppend, DataOne, DataInt
<1>3. Append(l, f) \o <<>> = Append(l, f) /\ l \o <<>> = l
  BY <1>1, ConcatEmptySeq
<1>4. /\ Flow(Append(l, f), <<>>, <<>>, <<>>, c) = ((Append(d, f) \o <<>>) \o <<>>) \o t
      /\ Flow(l, <<>>, <<>>, Data(<<f>>), c) = ((d \o <<>>) \o <<f>>) \o t
  BY <1>2, <1>3 DEF Flow
<1>. HIDE DEF d, t
<1>5. Append(d, f) \in Seq(Int) /\ Append(d, f) = d \o <<f>>
  BY <1>2, AppendProperties, AppendIsConcat
<1>6. Append(d, f) \o <<>> = Append(d, f) /\ d \o <<>> = d
  BY <1>2, <1>5, ConcatEmptySeq
<1>. QED BY <1>4, <1>5, <1>6

LEMMA FlowHeld ==
    ASSUME NEW l \in Seq(Int), NEW e \in Seq(Int), NEW c \in Seq(Int), NEW f \in Int, f > 0
    PROVE  Flow(l, <<>>, Append(e, f), <<>>, c) = Flow(l, <<>>, e, Data(<<f>>), c)
<1> DEFINE d == Data(l \o <<>>)
           t == Data(c)
<1>1. <<>> \in Seq(Int) /\ <<f>> \in Seq(Int) /\ Append(e, f) \in Seq(Int) /\ Append(e, f) = e \o <<f>>
  BY AppendProperties, AppendIsConcat
<1>2. Data(<<f>>) = <<f>>
  BY DataOne
<1>3. d \in Seq(Int)
  BY <1>1, ConcatProperties, DataInt
<1>4. /\ Flow(l, <<>>, Append(e, f), <<>>, c) = ((d \o Append(e, f)) \o <<>>) \o t
      /\ Flow(l, <<>>, e, Data(<<f>>), c) = ((d \o e) \o <<f>>) \o t
  BY <1>2 DEF Flow
<1>. HIDE DEF d, t
<1>5. d \o (e \o <<f>>) = (d \o e) \o <<f>>
  BY <1>1, <1>3, ConcatAssociative
<1>6. d \o Append(e, f) \in Seq(Int)
  BY <1>1, <1>3, ConcatProperties
<1>7. (d \o Append(e, f)) \o <<>> = d \o Append(e, f)
  BY <1>6, ConcatEmptySeq
<1>. QED BY <1>1, <1>4, <1>5, <1>7

LEMMA FlowReady ==
    ASSUME NEW l \in Seq(Int), NEW e \in Seq(DataFrames), NEW u, NEW c
    PROVE  Flow(l, <<Up>> \o e, <<>>, u, c) = Flow(l, <<>>, e, u, c)
<1> DEFINE d == Data(l)
<1>1. e \in Seq(Int) /\ Data(e) = e
  BY DataAll
<1>2. <<Up>> \in Seq(Int) /\ Up \in Int /\ ~(Up > 0) /\ <<>> \in Seq(Int)
  BY DEF Up
<1>3. Data(<<Up>>) = <<>>
  BY <1>2, DataOne
<1>4. <<Up>> \o e \in Seq(Int)
  BY <1>1, <1>2, ConcatProperties
<1>5. Data(<<Up>> \o e) = e
  <2>1. Data(<<Up>> \o e) = Data(<<Up>>) \o Data(e)
    BY <1>1, <1>2, DataConcat
  <2>2. <<>> \o e = e
    BY <1>1, ConcatEmptySeq
  <2>. QED BY <1>1, <1>3, <2>1, <2>2
<1>6. Data(l \o (<<Up>> \o e)) = d \o e /\ d \in Seq(Int)
  BY <1>4, <1>5, DataConcat, DataInt
<1>7. l \o <<>> = l
  BY ConcatEmptySeq
<1>8. /\ Flow(l, <<Up>> \o e, <<>>, u, c) = (((d \o e) \o <<>>) \o u) \o Data(c)
      /\ Flow(l, <<>>, e, u, c) = ((d \o e) \o u) \o Data(c)
  BY <1>6, <1>7 DEF Flow
<1>9. d \in Seq(Int)
  BY <1>6
<1>. HIDE DEF d
<1>10. (d \o e) \o <<>> = d \o e
  <2>1. d \o e \in Seq(Int)
    BY <1>1, <1>9, ConcatProperties
  <2>. QED BY <2>1, ConcatEmptySeq
<1>. QED BY <1>8, <1>10

-----------------------------------------------------------------------------
(* The sockets between the two nodes.                                      *)

NetStates == {"none", "open", "closed"}

Wires ==
    /\ net \in [Sockets -> NetStates]
    /\ ab \in [Sockets -> Seq(Int)] /\ ba \in [Sockets -> Seq(Int)]
    /\ sentAB \in [Sockets -> Seq(Int)] /\ sentBA \in [Sockets -> Seq(Int)]
    /\ cur \in 0..MaxSockets /\ (client = "up" => cur \in Sockets)
    /\ fetched.frame \in Int
    /\ QueueForm(q) /\ sending \in Nat
    /\ nextA \in Nat \ {0} /\ nextB \in Nat \ {0}

LEMMA TakeForm ==
    ASSUME NEW r, QueueForm(r), r.frames # <<>>
    PROVE  /\ QueueForm(Take(r)) /\ Take(r).frames = Tail(r.frames)
           /\ Take(r).dropped = r.dropped /\ Head(r.frames) \in Nat
<1>1. Tail(r.frames) \in Seq(Nat) /\ Head(r.frames) \in Nat
  <2>1. r.frames \in Seq(Nat)
    BY DEF QueueForm
  <2>. QED BY <2>1, HeadTailProperties
<1> DEFINE t == Tail(r.frames)
           v == r.bytes - SizeOf(Head(r.frames))
           k == Tail(r.tokens)
           h == Head(r.tokens)
<1>2. Take(r) = [r EXCEPT !.frames = t, !.tokens = k, !.taken = h, !.bytes = v]
  BY DEF Take, QueueForm
<1>3. t \in Seq(Nat)
  BY <1>1
<1>4. t = Tail(r.frames)
  OBVIOUS
<1>. HIDE DEF t, v, k, h
<1>. QED BY <1>1, <1>2, <1>3, <1>4 DEF QueueForm

LEMMA ShutNet ==
    ASSUME net \in [Sockets -> NetStates], NEW s \in Sockets
    PROVE  /\ Shut(s) \in [Sockets -> NetStates]
           /\ \A t \in Sockets : Shut(s)[t] = "none" <=> net[t] = "none"
           /\ \A t \in Sockets : Shut(s)[t] = "open" => net[t] = "open"
           /\ \A t \in Sockets : net[t] = "closed" => Shut(s)[t] = "closed"
BY DEF Shut, NetStates

LEMMA PostedWire ==
    ASSUME ba \in [Sockets -> Seq(Int)], NEW s \in Sockets, NEW r \in Seq(Int)
    PROVE  /\ Posted(s, r) \in [Sockets -> Seq(Int)]
           /\ Posted(s, r)[s] = IF net[s] = "open" THEN ba[s] \o r ELSE ba[s]
           /\ \A t \in Sockets \ {s} : Posted(s, r)[t] = ba[t]
<1>1. ba[s] \o r \in Seq(Int)
  <2>1. ba[s] \in Seq(Int)
    OBVIOUS
  <2>. QED BY <2>1, ConcatProperties
<1>. QED BY <1>1 DEF Posted

LEMMA WrittenWire ==
    ASSUME ab \in [Sockets -> Seq(Int)], NEW s \in Sockets, NEW f \in Int
    PROVE  /\ Written(s, f) \in [Sockets -> Seq(Int)]
           /\ Written(s, f)[s] =
                IF b[s].state = "none" \/ b[s].listed THEN Append(ab[s], f) ELSE ab[s]
           /\ \A t \in Sockets \ {s} : Written(s, f)[t] = ab[t]
<1>1. Append(ab[s], f) \in Seq(Int)
  BY AppendProperties
<1>. QED BY <1>1 DEF Written

LEMMA RepliesTyped == \A c : Replies(c) \in Seq(Int)
<1>1. <<Hello, HelloAck>> \in Seq(Int) /\ <<HelloAck>> \in Seq(Int)
  BY DEF Hello, HelloAck
<1>. QED BY <1>1 DEF Replies

LEMMA WiresIdle ==
    ASSUME Wires, UNCHANGED <<net, ab, ba, sentAB, sentBA, cur, fetched, q, nextB>>,
           client' = "up" => client = "up", sending' \in Nat, nextA' \in Nat \ {0}
    PROVE  Wires'
BY DEF Wires

LEMMA WiresWrites == ASSUME Wires, Writes PROVE Wires'
<1>1. cur \in Sockets
  BY DEF Wires, Writes
<1>2. \/ ab' = Written(cur, Hello) /\ UNCHANGED <<q, sentAB>>
      \/ /\ q.frames # <<>> /\ q' = Take(q) /\ ab' = Written(cur, Head(q.frames))
         /\ sentAB' = [sentAB EXCEPT ![cur] =
                IF Head(q.frames) = HelloAck THEN @ ELSE Append(@, Head(q.frames))]
  BY DEF Writes, CanTake
<1>3. UNCHANGED <<net, ba, sentBA, cur, client, fetched, sending, nextA, nextB>>
  BY DEF Writes, bVars
<1>4. Hello \in Int /\ HelloAck \in Int
  BY DEF Hello, HelloAck
<1>5. CASE ab' = Written(cur, Hello) /\ UNCHANGED <<q, sentAB>>
  <2>1. ab' \in [Sockets -> Seq(Int)]
    BY <1>1, <1>4, <1>5, WrittenWire DEF Wires
  <2>. QED BY <1>3, <1>5, <2>1 DEF Wires
<1>6. CASE /\ q.frames # <<>> /\ q' = Take(q) /\ ab' = Written(cur, Head(q.frames))
           /\ sentAB' = [sentAB EXCEPT ![cur] =
                IF Head(q.frames) = HelloAck THEN @ ELSE Append(@, Head(q.frames))]
  <2>1. QueueForm(Take(q)) /\ Head(q.frames) \in Int
    BY <1>6, TakeForm DEF Wires
  <2>2. ab' \in [Sockets -> Seq(Int)]
    BY <1>1, <1>6, <2>1, WrittenWire DEF Wires
  <2>3. sentAB[cur] \in Seq(Int) /\ Append(sentAB[cur], Head(q.frames)) \in Seq(Int)
    BY <1>1, <2>1, AppendProperties DEF Wires
  <2>4. sentAB' \in [Sockets -> Seq(Int)]
    BY <1>1, <1>6, <2>3 DEF Wires
  <2>5. QueueForm(q')
    BY <1>6, <2>1
  <2>. QED BY <1>3, <2>2, <2>4, <2>5 DEF Wires
<1>. QED BY <1>2, <1>5, <1>6

LEMMA WiresReceives ==
    ASSUME Wires, ReceivesHello \/ ReceivesAck \/ ReceivesData \/ Ignores
    PROVE  Wires'
<1>1. /\ client = "up" /\ ba[cur] # <<>> /\ ba' = [ba EXCEPT ![cur] = Tail(ba[cur])]
      /\ UNCHANGED <<client, cur, sending, nextA, nextB, net, ab, sentAB, sentBA, fetched>>
  BY DEF ReceivesHello, ReceivesAck, ReceivesData, Ignores, Receives, bVars
<1>2. ba[cur] \in Seq(Int) /\ Tail(ba[cur]) \in Seq(Int) /\ cur \in Sockets
  BY <1>1, HeadTailProperties DEF Wires
<1>3. ba' \in [Sockets -> Seq(Int)]
  BY <1>1, <1>2 DEF Wires
<1>4. QueueForm(q')
  <2>1. q' = q \/ q' = Put(q, Off, HelloAck, "drop_old")
    BY DEF ReceivesHello, ReceivesAck, ReceivesData, Ignores
  <2>2. HelloAck \in Nat
    BY DEF HelloAck
  <2>3. QueueForm(q) /\ Limit > 0
    BY GatewayAssumption DEF Wires
  <2>4. QueueForm(Put(q, Off, HelloAck, "drop_old"))
    BY <2>2, <2>3, PutForm
  <2>. QED BY <2>1, <2>3, <2>4
<1>. QED BY <1>1, <1>3, <1>4 DEF Wires

LEMMA WiresA ==
    ASSUME Wires, Dialling \/ Opens \/ Fails \/ LoopA \/ TestsReady \/ SendsFrame \/ DisconnectsA
    PROVE  Wires'
<1>1. CASE Dialling \/ Fails \/ DisconnectsA \/ EmitsA("loop")
  BY <1>1, WiresIdle DEF Wires, Dialling, SubscribesData, SubscribesState, ReplayChecks, Lists, EmitsA,
     Fails, DisconnectsA, netVars, bVars
<1>2. CASE TestsReady
  BY <1>2, WiresIdle DEF Wires, TestsReady, netVars, bVars
<1>3. CASE SendsFrame
  <2>1. UNCHANGED <<net, ab, ba, sentAB, sentBA, cur, client, fetched, nextA, nextB>> /\ sending' = 0
    BY <1>3 DEF SendsFrame, netVars, bVars
  <2>2. q' = q \/ q' = Put(q, Off, sending, "drop_old")
    BY <1>3 DEF SendsFrame
  <2>3. QueueForm(q')
    <3>1. QueueForm(q) /\ Limit > 0 /\ sending \in Nat
      BY GatewayAssumption DEF Wires
    <3>2. QueueForm(Put(q, Off, sending, "drop_old"))
      BY <3>1, PutForm
    <3>. QED BY <2>2, <3>1, <3>2
  <2>. QED BY <2>1, <2>3 DEF Wires
<1>4. CASE Opens
  <2>1. /\ cur' = cur + 1 /\ cur < MaxSockets /\ net' = [net EXCEPT ![cur'] = "open"]
        /\ UNCHANGED <<q, sending, nextA, ab, ba, sentAB, sentBA, fetched, nextB>>
    BY <1>4 DEF Opens, bVars
  <2>2. cur' \in Sockets /\ cur' \in 0..MaxSockets
    BY <2>1, GatewayAssumption DEF Wires
  <2>. QED BY <2>1, <2>2 DEF Wires, NetStates
<1>5. CASE Drops
  <2>1. /\ client' = "down" /\ cur \in Sockets /\ ba' = [ba EXCEPT ![cur] = <<>>]
        /\ UNCHANGED <<net, ab, sentAB, sentBA, cur, fetched, q, sending, nextA, nextB>>
    BY <1>5 DEF Drops, bVars, Wires
  <2>2. <<>> \in Seq(Int)
    OBVIOUS
  <2>. QED BY <2>1, <2>2 DEF Wires
<1>6. CASE EndsClient
  <2>1. /\ client' = "ended" /\ net' = (IF cur = 0 THEN net ELSE Shut(cur))
        /\ UNCHANGED <<ab, ba, sentAB, sentBA, cur, fetched, q, sending, nextA, nextB>>
    BY <1>6 DEF EndsClient, bVars
  <2>2. net' \in [Sockets -> NetStates]
    BY <2>1, ShutNet DEF Wires
  <2>. QED BY <2>1, <2>2 DEF Wires
<1>. QED BY <1>1, <1>2, <1>3, <1>4, <1>5, <1>6, WiresWrites, WiresReceives DEF LoopA

LEMMA WiresB ==
    ASSUME Wires, NEW s \in Sockets,
           \/ Accepts(s) \/ Fetches(s) \/ Closes(s) \/ Loses(s) \/ EmitsB(s)
           \/ HandlesHello(s) \/ HandlesAck(s) \/ HandlesData(s) \/ SendsTo(s) \/ DisconnectsB(s)
    PROVE  Wires'
<1>0. ab \in [Sockets -> Seq(Int)] /\ ba \in [Sockets -> Seq(Int)] /\ <<>> \in Seq(Int)
  BY DEF Wires
<1>1. CASE Accepts(s) \/ EmitsB(s)
  BY <1>1, WiresIdle DEF Accepts, EmitsB, netVars, aVars, Wires
<1>2. CASE Fetches(s)
  <2>1. /\ ab[s] # <<>> /\ ab' = [ab EXCEPT ![s] = Tail(ab[s])] /\ fetched'.frame = Head(ab[s])
        /\ UNCHANGED <<net, ba, sentAB, sentBA, cur, client, q, sending, nextA, nextB>>
    BY <1>2 DEF Fetches, aVars
  <2>2. Head(ab[s]) \in Int /\ Tail(ab[s]) \in Seq(Int)
    <3>1. ab[s] \in Seq(Int)
      BY <1>0
    <3>. QED BY <2>1, <3>1, HeadTailProperties
  <2>3. ab' \in [Sockets -> Seq(Int)]
    BY <1>0, <2>1, <2>2
  <2>. QED BY <2>1, <2>2, <2>3 DEF Wires
<1>3. CASE Closes(s)
  <2>1. net' \in [Sockets -> NetStates]
    BY <1>3, ShutNet DEF Wires, Closes
  <2>. QED BY <1>3, <2>1 DEF Closes, aVars, bVars, Wires
<1>4. CASE Loses(s) \/ DisconnectsB(s)
  <2>1. ab' \in [Sockets -> Seq(Int)]
    BY <1>0, <1>4 DEF Loses, DisconnectsB, EndsB
  <2>. QED BY <1>4, <2>1 DEF Loses, DisconnectsB, aVars, Wires
<1>5. CASE HandlesHello(s)
  <2>1. ba' \in [Sockets -> Seq(Int)]
    BY <1>0, <1>5, RepliesTyped, PostedWire DEF HandlesHello
  <2>. QED BY <1>5, <2>1 DEF HandlesHello, Handles, Idle, aVars, Wires
<1>6. CASE HandlesAck(s)
  BY <1>6 DEF HandlesAck, Handles, Idle, aVars, Wires
<1>7. CASE HandlesData(s)
  <2>1. /\ ab' = ab \/ ab' = [ab EXCEPT ![s] = <<>>]
        /\ fetched' = Idle
        /\ UNCHANGED <<net, ba, sentAB, sentBA, cur, client, q, sending, nextA, nextB>>
    BY <1>7 DEF HandlesData, Handles, EndsB, aVars
  <2>2. ab' \in [Sockets -> Seq(Int)]
    BY <1>0, <2>1
  <2>. QED BY <2>1, <2>2 DEF Wires, Idle
<1>8. CASE SendsTo(s)
  <2>1. /\ nextB' = nextB + 1 /\ ba' = Posted(s, <<nextB>>)
        /\ sentBA' = IF net[s] = "open" THEN [sentBA EXCEPT ![s] = Append(@, nextB)] ELSE sentBA
        /\ UNCHANGED <<net, ab, sentAB, cur, client, fetched, q, sending, nextA>>
    BY <1>8 DEF SendsTo, aVars
  <2>2. nextB \in Int /\ <<nextB>> \in Seq(Int) /\ nextB' \in Nat \ {0}
    BY <2>1 DEF Wires
  <2>3. ba' \in [Sockets -> Seq(Int)]
    BY <1>0, <2>1, <2>2, PostedWire
  <2>4. Append(sentBA[s], nextB) \in Seq(Int)
    BY <2>2, AppendProperties DEF Wires
  <2>5. sentBA' \in [Sockets -> Seq(Int)]
    BY <2>1, <2>4 DEF Wires
  <2>. QED BY <2>1, <2>2, <2>3, <2>5 DEF Wires
<1>. QED BY <1>1, <1>2, <1>3, <1>4, <1>5, <1>6, <1>7, <1>8

LEMMA WiresStep == Wires /\ [Next]_vars => Wires'
<1> SUFFICES ASSUME Wires, [Next]_vars PROVE Wires'
  OBVIOUS
<1>1. CASE PeerRestarts
  <2>1. /\ cur \in Sockets /\ ab' = Written(cur, Hello) /\ Hello \in Int
        /\ UNCHANGED <<net, ba, sentAB, sentBA, cur, client, fetched, q, sending, nextA, nextB>>
    BY <1>1 DEF PeerRestarts, aVars, bVars, Wires, Hello
  <2>2. ab' \in [Sockets -> Seq(Int)]
    BY <2>1, WrittenWire DEF Wires
  <2>. QED BY <2>1, <2>2 DEF Wires
<1>2. ASSUME NEW s \in Sockets, NetDrops(s) PROVE Wires'
  <2>1. net' \in [Sockets -> NetStates]
    BY <1>2, ShutNet DEF Wires, NetDrops
  <2>. QED BY <1>2, <2>1 DEF NetDrops, aVars, bVars, Wires
<1>3. CASE UNCHANGED vars
  BY <1>3 DEF vars, aVars, netVars, bVars, Wires
<1>4. CASE ServerB
  BY <1>4, WiresB DEF ServerB
<1>5. CASE Programs
  BY <1>5, WiresA, WiresB DEF Programs
<1>. QED BY <1>1, <1>2, <1>3, <1>4, <1>5, WiresA DEF Next

LEMMA WiresInit == Init => Wires
<1> SUFFICES ASSUME Init PROVE Wires
  OBVIOUS
<1>1. <<>> \in Seq(Int) /\ <<>> \in Seq(Nat)
  OBVIOUS
<1>2. QueueForm(q)
  BY <1>1 DEF Init, EmptyQueue, QueueForm
<1>. QED BY <1>1, <1>2, GatewayAssumption DEF Init, Wires, NetStates, Idle

-----------------------------------------------------------------------------
(* From the dialling node to the listening one.                            *)

(* A connection in the table, or one that is still to be accepted.         *)
Lasts(s) == b[s].listed \/ b[s].state = "none"

Underway(s) == IF fetched.socket = s THEN Data(<<fetched.frame>>) ELSE <<>>

(* A socket that is not opened yet has nothing at the listening node.      *)
Fresh(s) ==
    /\ s > cur => net[s] = "none"
    /\ net[s] = "none" => b[s].state = "none" /\ ab[s] = <<>>
    /\ b[s].state = "none" => b[s] = Absent /\ logB[s] = <<>> /\ pendB[s] = <<>>
    /\ fetched.socket = s => b[s].state # "none"

InFlow(s) ==
    Lasts(s) => sentAB[s] = Flow(logB[s], pendB[s], b[s].early, Underway(s), ab[s])

(* The first frame on a socket is its greeting.                            *)
HelloFirst(s) ==
    Lasts(s) /\ ~b[s].hello =>
        IF fetched.socket = s THEN fetched.frame = Hello
        ELSE IF ab[s] = <<>> THEN s = cur => ~greeted ELSE Head(ab[s]) = Hello

(* A connection in the table is ready as soon as it has seen both frames.  *)
HandB(s) ==
    /\ b[s].state = "READY" => b[s].hello /\ b[s].ack
    /\ b[s].listed /\ b[s].hello /\ b[s].ack => b[s].state = "READY"
    /\ b[s].helloSent => b[s].hello

Inbound(s) == Fresh(s) /\ InFlow(s) /\ HelloFirst(s) /\ HandB(s)

InboundInv == \A s \in Sockets : Inbound(s)

(* A step that leaves a socket and its connection alone, as far as what    *)
(* goes to the listening node is concerned.                                *)
Still(t) ==
    /\ b'[t] = b[t] /\ pendB'[t] = pendB[t] /\ logB'[t] = logB[t]
    /\ sentAB'[t] = sentAB[t] /\ ab'[t] = ab[t]
    /\ (net'[t] = "none" <=> net[t] = "none")
    /\ (fetched'.socket = t <=> fetched.socket = t)
    /\ fetched.socket = t => fetched' = fetched

LEMMA StillKeeps ==
    ASSUME NEW t \in Sockets, Inbound(t), Still(t),
           t > cur' => t > cur, t = cur' /\ greeted' => t = cur /\ greeted
    PROVE  Inbound(t)'
<1>1. /\ b'[t] = b[t] /\ pendB'[t] = pendB[t] /\ logB'[t] = logB[t]
      /\ sentAB'[t] = sentAB[t] /\ ab'[t] = ab[t] /\ (net'[t] = "none" <=> net[t] = "none")
      /\ (fetched'.socket = t <=> fetched.socket = t)
      /\ fetched.socket = t => fetched' = fetched
  BY DEF Still
<1>2. Lasts(t)' <=> Lasts(t)
  BY <1>1 DEF Lasts
<1>3. Underway(t)' = Underway(t)
  BY <1>1 DEF Underway
<1>4. Fresh(t)'
  BY <1>1 DEF Fresh, Inbound
<1>5. InFlow(t)'
  BY <1>1, <1>2, <1>3 DEF InFlow, Inbound
<1>6. HelloFirst(t)'
  BY <1>1, <1>2 DEF HelloFirst, Inbound
<1>7. HandB(t)'
  BY <1>1 DEF HandB, Inbound
<1>. QED BY <1>4, <1>5, <1>6, <1>7 DEF Inbound

LEMMA InboundIdle ==
    ASSUME InboundInv, UNCHANGED <<b, pendB, logB, sentAB, ab, fetched, cur, greeted>>,
           \A t \in Sockets : net'[t] = "none" <=> net[t] = "none"
    PROVE  InboundInv'
<1>1. ASSUME NEW t \in Sockets PROVE Inbound(t)'
  <2>1. Still(t)
    BY DEF Still
  <2>. QED BY <2>1, StillKeeps DEF InboundInv
<1>. QED BY <1>1 DEF InboundInv

(* A connection that is ready holds no frame.                              *)
LEMMA ReadyHoldsNone ==
    ASSUME NEW c, Tidy(c)
    PROVE  /\ c.early \in Seq(DataFrames) /\ c.early \in Seq(Int) /\ Data(c.early) = c.early
           /\ ~Holds(c) => c.early = <<>>
BY DataAll DEF Tidy

(* The socket gets one more frame.                                         *)
LEMMA InboundWritten ==
    ASSUME InboundInv, Wires, BTypes, BTidy, cur \in Sockets, NEW f \in Int,
           ab' = Written(cur, f),
           sentAB' = IF f > 0 THEN [sentAB EXCEPT ![cur] = Append(@, f)] ELSE sentAB,
           UNCHANGED <<b, pendB, logB, fetched, cur, net>>,
           f # Hello => greeted /\ greeted',
           net[cur] # "none"
    PROVE  InboundInv'
<1>1. ASSUME NEW t \in Sockets, t # cur PROVE Inbound(t)'
  <2>1. Still(t)
    BY <1>1, WrittenWire DEF Still, Wires
  <2>. QED BY <1>1, <2>1, StillKeeps DEF InboundInv
<1>2. Inbound(cur) /\ ab[cur] \in Seq(Int) /\ sentAB[cur] \in Seq(Int)
  BY DEF InboundInv, Wires
<1>3. ab'[cur] = IF Lasts(cur) THEN Append(ab[cur], f) ELSE ab[cur]
  BY WrittenWire DEF Wires, Lasts
<1>4. sentAB'[cur] = IF f > 0 THEN Append(sentAB[cur], f) ELSE sentAB[cur]
  BY DEF Wires
<1>5. Lasts(cur)' <=> Lasts(cur)
  BY DEF Lasts
<1>6. Fresh(cur)'
  BY <1>2 DEF Fresh, Inbound
<1>7. HandB(cur)'
  BY <1>2 DEF HandB, Inbound
<1>8. InFlow(cur)'
  <2>1. CASE ~Lasts(cur)
    BY <1>5, <2>1 DEF InFlow
  <2>2. CASE Lasts(cur)
    <3> DEFINE u == Underway(cur)
    <3>1. u' = u
      BY DEF Underway
    <3>2. u \in Seq(Int)
      <4>1. <<>> \in Seq(Int)
        OBVIOUS
      <4>2. <<fetched.frame>> \in Seq(Int)
        BY DEF Wires
      <4>. QED BY <4>1, <4>2, DataInt DEF Underway
    <3>3. /\ logB[cur] \in Seq(Int) /\ pendB[cur] \in Seq(Int) /\ b[cur].early \in Seq(Int)
      <4>1. pendB[cur] \in Seq(Nat) /\ \A x \in Nat : x \in Int
        BY DEF BTypes
      <4>2. pendB[cur] \in Seq(Int)
        BY <4>1
      <4>. QED BY <4>2, ReadyHoldsNone DEF BTypes, BTidy
    <3>4. sentAB[cur] = Flow(logB[cur], pendB[cur], b[cur].early, u, ab[cur])
      BY <1>2, <2>2 DEF Inbound, InFlow
    <3>5. Flow(logB[cur], pendB[cur], b[cur].early, u, Append(ab[cur], f)) =
            IF f > 0 THEN Append(sentAB[cur], f) ELSE sentAB[cur]
      <4> DEFINE l == logB[cur]
                 p == pendB[cur]
                 e == b[cur].early
                 c == ab[cur]
      <4>. HIDE DEF u
      <4>1. l \in Seq(Int) /\ p \in Seq(Int) /\ e \in Seq(Int) /\ c \in Seq(Int)
        BY <1>2, <3>3
      <4>2. u \in Seq(Int)
        BY <3>2
      <4>. HIDE DEF l, p, e, c
      <4>3. Flow(l, p, e, u, Append(c, f)) =
                IF f > 0 THEN Append(Flow(l, p, e, u, c), f) ELSE Flow(l, p, e, u, c)
        BY <4>1, <4>2, FlowComing
      <4>. QED BY <3>4, <4>3 DEF l, p, e, c
    <3>6. ab'[cur] = Append(ab[cur], f) /\ logB' = logB /\ pendB' = pendB /\ b' = b
      BY <1>3, <2>2
    <3>7. sentAB'[cur] = Flow(logB'[cur], pendB'[cur], b'[cur].early, u', ab'[cur])
      <4>. HIDE DEF u
      <4>. QED BY <1>4, <3>1, <3>5, <3>6
    <3>. QED BY <3>7 DEF InFlow
  <2>. QED BY <2>1, <2>2
<1>9. HelloFirst(cur)'
  <2> SUFFICES ASSUME Lasts(cur), ~b[cur].hello
               PROVE  IF fetched.socket = cur THEN fetched.frame = Hello
                      ELSE ab'[cur] # <<>> /\ Head(ab'[cur]) = Hello
    BY <1>5 DEF HelloFirst
  <2>1. IF fetched.socket = cur THEN fetched.frame = Hello
        ELSE IF ab[cur] = <<>> THEN ~greeted ELSE Head(ab[cur]) = Hello
    BY <1>2 DEF Inbound, HelloFirst
  <2>2. ab'[cur] = Append(ab[cur], f)
    BY <1>3
  <2>3. ab'[cur] # <<>> /\ Head(ab'[cur]) = IF ab[cur] = <<>> THEN f ELSE Head(ab[cur])
    <3> DEFINE s == ab[cur]
    <3>1. s \in Seq(Int) /\ Len(s) \in Nat
      BY <1>2, LenProperties
    <3>. HIDE DEF s
    <3>2. /\ Append(s, f) \in Seq(Int) /\ Len(Append(s, f)) = Len(s) + 1
          /\ \A i \in 1..Len(s) : Append(s, f)[i] = s[i]
          /\ Append(s, f)[Len(s) + 1] = f
      BY <3>1, AppendProperties
    <3>3. Append(s, f) # <<>> /\ Head(Append(s, f)) = Append(s, f)[1]
      BY <3>1, <3>2
    <3>4. s # <<>> => Len(s) > 0 /\ Head(s) = s[1]
      BY <3>1, EmptySeq
    <3>5. s = <<>> => Len(s) = 0
      OBVIOUS
    <3>6. Head(Append(s, f)) = IF s = <<>> THEN f ELSE Head(s)
      BY <3>1, <3>2, <3>3, <3>4, <3>5
    <3>. QED BY <2>2, <3>3, <3>6 DEF s
  <2>. QED BY <2>1, <2>3
<1>10. Inbound(cur)'
  BY <1>6, <1>7, <1>8, <1>9 DEF Inbound
<1>. QED BY <1>1, <1>10 DEF InboundInv

LEMMA InboundMoves ==
    ASSUME InboundInv, BTypes, Wires, NEW s \in Sockets,
           \A t \in Sockets \ {s} : /\ b'[t] = b[t] /\ pendB'[t] = pendB[t] /\ logB'[t] = logB[t]
                                    /\ ab'[t] = ab[t],
           fetched' = fetched \/ (fetched.socket = s /\ fetched' = Idle)
             \/ (fetched = Idle /\ fetched'.socket = s),
           UNCHANGED <<sentAB, net, cur, greeted>>, Inbound(s)'
    PROVE  InboundInv'
<1>1. ASSUME NEW t \in Sockets, t # s PROVE Inbound(t)'
  <2>1. Still(t)
    BY <1>1, SocketNat DEF Still, Idle
  <2>. QED BY <2>1, StillKeeps DEF InboundInv
<1>. QED BY <1>1 DEF InboundInv

LEMMA InboundEnds ==
    ASSUME InboundInv, BInv, Wires, NEW s \in Sockets, b[s].listed, EndsB(s), pendB' = pendB,
           fetched' = fetched \/ (fetched.socket = s /\ fetched' = Idle),
           UNCHANGED <<sentAB, net, cur, greeted>>
    PROVE  InboundInv'
<1>1. BTypes /\ LivesOnce(s) /\ Inbound(s) /\ b[s] \in Conn /\ ab \in [Sockets -> Seq(Int)]
  BY DEF BInv, BTypes, InboundInv, Wires
<1>2. /\ b' = [b EXCEPT ![s] = Finished(b[s])] /\ ab' = [ab EXCEPT ![s] = <<>>]
      /\ logB' = [logB EXCEPT ![s] = @ \o Announces(b[s])]
  BY DEF EndsB
<1>3. /\ b'[s].state = "CLOSED" /\ ~b'[s].listed /\ b'[s].hello = b[s].hello
      /\ b'[s].helloSent = b[s].helloSent
  <2>1. b'[s] = Finished(b[s])
    BY <1>1, <1>2 DEF BTypes
  <2>. QED BY <1>1, <2>1 DEF Finished, Conn
<1>4. ~Lasts(s)'
  BY <1>3 DEF Lasts
<1>5. net[s] # "none"
  BY <1>1 DEF LivesOnce, Inbound, Fresh
<1>6. Fresh(s)'
  BY <1>1, <1>3, <1>5 DEF Fresh, Inbound
<1>7. HandB(s)'
  BY <1>1, <1>3 DEF HandB, Inbound
<1>8. Inbound(s)'
  BY <1>4, <1>6, <1>7 DEF Inbound, InFlow, HelloFirst
<1>9. \A t \in Sockets \ {s} : /\ b'[t] = b[t] /\ pendB'[t] = pendB[t] /\ logB'[t] = logB[t]
                               /\ ab'[t] = ab[t]
  BY <1>1, <1>2 DEF BTypes
<1>. QED BY <1>1, <1>8, <1>9, InboundMoves

LEMMA NatSeqInt == \A s \in Seq(Nat) : s \in Seq(Int)
<1> SUFFICES ASSUME NEW s \in Seq(Nat) PROVE s \in Seq(Int)
  OBVIOUS
<1>1. \A x \in Nat : x \in Int
  OBVIOUS
<1>. QED BY <1>1

(* A handshake frame: it is no data, and the connection it settles may     *)
(* become ready, with the frames it holds next to be emitted.              *)
LEMMA InboundSettles ==
    ASSUME InboundInv, BInv, BTidy, Wires, NEW s \in Sockets,
           fetched.socket = s, fetched' = Idle, ~(fetched.frame > 0), logB' = logB,
           UNCHANGED <<sentAB, ab, net, cur, greeted>>,
           NEW d \in Conn, Settles(s, d), d.early = b[s].early, d.listed = b[s].listed,
           d.state = b[s].state \/ (d.state = "HANDSHAKING" /\ ~d.ack),
           d.hello \/ (d.hello = b[s].hello /\ fetched.frame # Hello),
           d.helloSent => d.hello, d.state = "READY" => d.hello /\ d.ack
    PROVE  InboundInv'
<1> DEFINE e == b[s].early
           l == logB[s]
           c == ab[s]
<1>1. /\ BTypes /\ LivesOnce(s) /\ Inbound(s) /\ b[s] \in Conn /\ s # 0 /\ pendB[s] = <<>>
      /\ e \in Seq(DataFrames) /\ l \in Seq(Int) /\ c \in Seq(Int) /\ fetched'.socket = 0
  BY SocketNat DEF BInv, BTypes, InboundInv, OneAtATime, BTidy, Tidy, Idle, Wires
<1>2. b' = [b EXCEPT ![s] = Checked(d)] /\ pendB' = [pendB EXCEPT ![s] = Emits(d)]
  BY DEF Settles
<1>3. b'[s] = Checked(d) /\ pendB'[s] = Emits(d) /\ logB'[s] = l /\ ab'[s] = c
  BY <1>1, <1>2 DEF BTypes
<1>4. b[s].state # "none" /\ net[s] # "none"
  BY <1>1 DEF Inbound, Fresh
<1>5. /\ Checked(d).listed = d.listed /\ Checked(d).hello = d.hello /\ Checked(d).ack = d.ack
      /\ Checked(d).helloSent = d.helloSent
      /\ Checked(d).state = (IF Complete(d) THEN "READY" ELSE d.state)
      /\ Checked(d).early = (IF Complete(d) THEN <<>> ELSE d.early)
  BY DEF Checked, Conn
<1>6. Checked(d).state # "none"
  BY <1>4, <1>5
<1>7. Fresh(s)'
  BY <1>1, <1>3, <1>4, <1>6 DEF Fresh, Inbound
<1>8. HandB(s)'
  <2>1. d.listed => d.state \in {"HANDSHAKING", "READY"}
    BY <1>1 DEF LivesOnce
  <2>. QED BY <1>3, <1>5, <2>1 DEF HandB, Complete
<1>9. HelloFirst(s)'
  <2>1. CASE ~d.hello
    <3>1. Lasts(s)' => Lasts(s)
      BY <1>3, <1>5, <1>6 DEF Lasts
    <3>2. ~Lasts(s)
      BY <1>1, <2>1 DEF HelloFirst, Inbound
    <3>. QED BY <3>1, <3>2 DEF HelloFirst
  <2>2. CASE d.hello
    BY <1>3, <1>5, <2>2 DEF HelloFirst
  <2>. QED BY <2>1, <2>2
<1>10. InFlow(s)'
  <2> SUFFICES ASSUME Lasts(s)'
               PROVE  sentAB[s] = Flow(l, Emits(d), Checked(d).early, <<>>, c)
    BY <1>1, <1>3 DEF InFlow, Underway
  <2>1. Lasts(s)
    BY <1>3, <1>5, <1>6 DEF Lasts
  <2>2. Underway(s) = <<>>
    <3>1. fetched.frame \in Int
      BY DEF Wires
    <3>. QED BY <3>1, DataOne DEF Underway
  <2>3. sentAB[s] = Flow(l, <<>>, e, <<>>, c)
    BY <1>1, <2>1, <2>2 DEF Inbound, InFlow
  <2>4. CASE Complete(d)
    <3>1. Emits(d) = <<Up>> \o e
      BY <2>4 DEF Emits
    <3>2. Checked(d).early = <<>>
      BY <1>5, <2>4
    <3>3. Flow(l, <<Up>> \o e, <<>>, <<>>, c) = Flow(l, <<>>, e, <<>>, c)
      <4>1. l \in Seq(Int) /\ e \in Seq(DataFrames)
        BY <1>1
      <4>. HIDE DEF l, e, c
      <4>. QED BY <4>1, FlowReady
    <3>. QED BY <2>3, <3>1, <3>2, <3>3
  <2>5. CASE ~Complete(d)
    <3>1. Emits(d) = <<>> /\ Checked(d).early = e
      BY <1>5, <2>5 DEF Emits
    <3>. QED BY <2>3, <3>1
  <2>. QED BY <2>4, <2>5
<1>11. Inbound(s)'
  BY <1>7, <1>8, <1>9, <1>10 DEF Inbound
<1>12. \A t \in Sockets \ {s} : /\ b'[t] = b[t] /\ pendB'[t] = pendB[t] /\ logB'[t] = logB[t]
                                /\ ab'[t] = ab[t]
  BY <1>1, <1>2 DEF BTypes
<1>. QED BY <1>1, <1>11, <1>12, InboundMoves

LEMMA InboundHandshake ==
    ASSUME InboundInv, BInv, BTidy, Wires, NEW s \in Sockets, HandlesHello(s) \/ HandlesAck(s)
    PROVE  InboundInv'
<1>1. b[s] \in Conn /\ LivesOnce(s) /\ HandB(s)
  BY DEF BInv, BTypes, InboundInv, Inbound
<1>2. /\ fetched.socket = s /\ fetched' = Idle /\ logB' = logB
      /\ UNCHANGED <<sentAB, ab, net, cur, greeted>>
  BY DEF HandlesHello, HandlesAck, Handles, aVars
<1>3. CASE HandlesHello(s)
  <2> DEFINE d == Greets(b[s])
  <2>1. Settles(s, d) /\ ~(fetched.frame > 0)
    BY <1>3 DEF HandlesHello, Handles, Hello
  <2>2. d \in Conn /\ d.early = b[s].early /\ d.listed = b[s].listed /\ d.hello
    BY <1>1 DEF Greets, Conn
  <2>3. /\ d.state = b[s].state \/ (d.state = "HANDSHAKING" /\ ~d.ack)
        /\ d.state = "READY" => d.hello /\ d.ack
    BY <1>1 DEF Greets, Conn, Restarts, HandB, LivesOnce
  <2>. HIDE DEF d
  <2>. QED BY <1>2, <2>1, <2>2, <2>3, InboundSettles
<1>4. CASE HandlesAck(s)
  <2> DEFINE d == [b[s] EXCEPT !.ack = TRUE]
  <2>1. Settles(s, d) /\ ~(fetched.frame > 0) /\ fetched.frame # Hello
    BY <1>4 DEF HandlesAck, Handles, HelloAck, Hello
  <2>2. /\ d \in Conn /\ d.early = b[s].early /\ d.listed = b[s].listed /\ d.hello = b[s].hello
        /\ d.helloSent = b[s].helloSent /\ d.ack /\ d.state = b[s].state
    BY <1>1 DEF Conn
  <2>3. (d.helloSent => d.hello) /\ (d.state = "READY" => d.hello /\ d.ack)
    BY <1>1, <2>2 DEF HandB
  <2>. HIDE DEF d
  <2>. QED BY <1>2, <2>1, <2>2, <2>3, InboundSettles
<1>. QED BY <1>3, <1>4

(* A data frame is delivered or held: it is not dropped as long as the     *)
(* connection lasts, since the greeting came first.                        *)
LEMMA InboundData ==
    ASSUME InboundInv, BInv, BTidy, Wires, NEW s \in Sockets, HandlesData(s)
    PROVE  InboundInv'
<1> DEFINE e == b[s].early
           l == logB[s]
           c == ab[s]
<1>1. PICK f \in 1..DataA :
        /\ Handles(s, f)
        /\ \/ b[s].state = "READY" /\ logB' = [logB EXCEPT ![s] = Append(@, f)] /\ UNCHANGED <<b, ab>>
           \/ b[s].state # "READY" /\ ~Holds(b[s]) /\ UNCHANGED <<b, logB, ab>>
           \/ Holds(b[s]) /\ b' = [b EXCEPT ![s] = Held(@, f)] /\ UNCHANGED <<logB, ab>>
           \/ Holds(b[s]) /\ EndsB(s)
        /\ pendB' = pendB
  BY DEF HandlesData
<1>2. /\ fetched.socket = s /\ fetched.frame = f /\ fetched' = Idle
      /\ UNCHANGED <<sentAB, net, cur, greeted>> /\ f \in Int /\ f > 0 /\ f # Hello
  BY <1>1, GatewayAssumption DEF Handles, aVars, Hello
<1>3. /\ BTypes /\ LivesOnce(s) /\ Inbound(s) /\ b[s] \in Conn /\ s # 0 /\ pendB[s] = <<>>
      /\ Tidy(b[s]) /\ e \in Seq(Int) /\ l \in Seq(Int) /\ c \in Seq(Int) /\ fetched'.socket = 0
  BY <1>2, SocketNat, ReadyHoldsNone DEF BInv, BTypes, InboundInv, OneAtATime, BTidy, Idle, Wires
<1>4. Lasts(s) => b[s].listed /\ b[s].hello /\ (b[s].state = "READY" \/ Holds(b[s]))
  <2>1. Lasts(s) => b[s].listed
    BY <1>2, <1>3 DEF Inbound, Fresh, Lasts
  <2>2. Lasts(s) => b[s].hello
    BY <1>2, <1>3 DEF Inbound, HelloFirst
  <2>3. b[s].listed => b[s].state \in {"HANDSHAKING", "READY"}
    BY <1>3 DEF LivesOnce
  <2>. QED BY <2>1, <2>2, <2>3 DEF Holds
<1>5. Lasts(s) => sentAB[s] = Flow(l, <<>>, e, Data(<<f>>), c)
  BY <1>2, <1>3 DEF Inbound, InFlow, Underway
<1>6. ASSUME \A t \in Sockets \ {s} : /\ b'[t] = b[t] /\ logB'[t] = logB[t] /\ ab'[t] = ab[t],
             Lasts(s)' => Lasts(s) /\ b'[s].hello,
             Lasts(s)' => sentAB[s] = Flow(logB'[s], <<>>, b'[s].early, <<>>, ab'[s]),
             Fresh(s)', HandB(s)'
      PROVE  InboundInv'
  <2>1. HelloFirst(s)'
    BY <1>6 DEF HelloFirst
  <2>2. Underway(s)' = <<>>
    BY <1>3 DEF Underway
  <2>3. InFlow(s)'
    BY <1>1, <1>2, <1>3, <1>6, <2>2 DEF InFlow
  <2>4. Inbound(s)'
    BY <1>6, <2>1, <2>3 DEF Inbound
  <2>. QED BY <1>1, <1>2, <1>3, <1>6, <2>4, InboundMoves
<1>7. b[s].state # "none" /\ net[s] # "none"
  BY <1>2, <1>3 DEF Inbound, Fresh
<1>8. CASE b[s].state = "READY" /\ logB' = [logB EXCEPT ![s] = Append(@, f)] /\ UNCHANGED <<b, ab>>
  <2>1. logB'[s] = Append(l, f) /\ \A t \in Sockets \ {s} : logB'[t] = logB[t]
    BY <1>3, <1>8 DEF BTypes
  <2>2. e = <<>>
    BY <1>3, <1>8, ReadyHoldsNone DEF Holds
  <2>3. Flow(Append(l, f), <<>>, <<>>, <<>>, c) = Flow(l, <<>>, <<>>, Data(<<f>>), c)
    <3>1. l \in Seq(Int) /\ c \in Seq(Int) /\ f \in Int /\ f > 0
      BY <1>2, <1>3
    <3>. HIDE DEF l, c
    <3>. QED BY <3>1, FlowDelivered
  <2>4. Lasts(s)' => Lasts(s)
    BY <1>8 DEF Lasts
  <2>5. Fresh(s)' /\ HandB(s)'
    BY <1>2, <1>3, <1>7, <1>8, SocketNat DEF Fresh, HandB, Inbound
  <2>6. Lasts(s)' => sentAB[s] = Flow(logB'[s], <<>>, b'[s].early, <<>>, ab'[s])
    BY <1>5, <1>8, <2>1, <2>2, <2>3, <2>4
  <2>. QED BY <1>4, <1>6, <1>8, <2>1, <2>4, <2>5, <2>6
<1>9. CASE b[s].state # "READY" /\ ~Holds(b[s]) /\ UNCHANGED <<b, logB, ab>>
  <2>1. ~Lasts(s)
    BY <1>4, <1>9
  <2>2. ~Lasts(s)'
    BY <1>9, <2>1 DEF Lasts
  <2>3. Fresh(s)' /\ HandB(s)'
    BY <1>2, <1>3, <1>7, <1>9, SocketNat DEF Fresh, HandB, Inbound
  <2>. QED BY <1>6, <1>9, <2>2, <2>3
<1>10. CASE Holds(b[s]) /\ b' = [b EXCEPT ![s] = Held(@, f)] /\ UNCHANGED <<logB, ab>>
  <2>1. b'[s] = Held(b[s], f) /\ \A t \in Sockets \ {s} : b'[t] = b[t]
    BY <1>3, <1>10 DEF BTypes
  <2>2. /\ b'[s].early = Append(e, f) /\ b'[s].listed = b[s].listed /\ b'[s].hello = b[s].hello
        /\ b'[s].state = b[s].state /\ b'[s].ack = b[s].ack /\ b'[s].helloSent = b[s].helloSent
    BY <1>3, <2>1 DEF Held, Conn
  <2>3. Flow(l, <<>>, Append(e, f), <<>>, c) = Flow(l, <<>>, e, Data(<<f>>), c)
    <3>1. l \in Seq(Int) /\ e \in Seq(Int) /\ c \in Seq(Int) /\ f \in Int /\ f > 0
      BY <1>2, <1>3
    <3>. HIDE DEF l, e, c
    <3>. QED BY <3>1, FlowHeld
  <2>4. Lasts(s)' => Lasts(s)
    BY <2>2 DEF Lasts
  <2>5. Fresh(s)' /\ HandB(s)'
    BY <1>2, <1>3, <1>7, <1>10, <2>2, SocketNat DEF Fresh, HandB, Inbound
  <2>6. Lasts(s)' => sentAB[s] = Flow(logB'[s], <<>>, b'[s].early, <<>>, ab'[s])
    BY <1>5, <1>10, <2>2, <2>3, <2>4
  <2>. QED BY <1>4, <1>6, <1>10, <2>1, <2>2, <2>4, <2>5, <2>6
<1>11. CASE Holds(b[s]) /\ EndsB(s)
  <2>1. b[s].listed
    BY <1>2, <1>3, <1>11 DEF LivesOnce, Holds
  <2>. QED BY <1>1, <1>2, <1>11, <2>1, InboundEnds
<1>. QED BY <1>1, <1>8, <1>9, <1>10, <1>11

LEMMA InboundEmits ==
    ASSUME InboundInv, BInv, BTidy, NEW s \in Sockets, Wires, EmitsB(s)
    PROVE  InboundInv'
<1> DEFINE p == pendB[s]
           l == logB[s]
<1>1. /\ BTypes /\ Inbound(s) /\ p \in Seq(Int) /\ l \in Seq(Int) /\ p # <<>>
  BY NatSeqInt DEF BInv, BTypes, InboundInv, EmitsB
<1>2. /\ logB' = [logB EXCEPT ![s] = Append(l, Head(p))]
      /\ pendB' = [pendB EXCEPT ![s] = Tail(p)]
      /\ UNCHANGED <<b, fetched, sentAB, ab, net, cur, greeted>>
  BY DEF EmitsB, netVars, aVars
<1>3. /\ logB'[s] = Append(l, Head(p)) /\ pendB'[s] = Tail(p)
      /\ \A t \in Sockets \ {s} : pendB'[t] = pendB[t] /\ logB'[t] = logB[t]
  BY <1>1, <1>2 DEF BTypes
<1>4. Flow(logB'[s], pendB'[s], b[s].early, Underway(s), ab[s]) =
        Flow(l, p, b[s].early, Underway(s), ab[s])
  <2>. HIDE DEF l, p
  <2>. QED BY <1>1, <1>3, FlowEmitted
<1>5. b[s].state # "none"
  BY <1>1 DEF Inbound, Fresh
<1>6. Fresh(s)' /\ HandB(s)' /\ HelloFirst(s)'
  BY <1>1, <1>2, <1>5 DEF Fresh, HandB, HelloFirst, Lasts, Inbound
<1>7. InFlow(s)'
  <2>1. Underway(s)' = Underway(s) /\ (Lasts(s)' <=> Lasts(s))
    BY <1>2 DEF Underway, Lasts
  <2>. QED BY <1>1, <1>2, <1>4, <2>1 DEF Inbound, InFlow
<1>8. Inbound(s)'
  BY <1>6, <1>7 DEF Inbound
<1>. QED BY <1>1, <1>2, <1>3, <1>8, InboundMoves

LEMMA InboundFetches ==
    ASSUME InboundInv, BInv, BTidy, NEW s \in Sockets, Wires, Fetches(s)
    PROVE  InboundInv'
<1> DEFINE p == pendB[s]
           l == logB[s]
           e == b[s].early
           c == ab[s]
<1>1. /\ BTypes /\ Inbound(s) /\ p \in Seq(Int) /\ l \in Seq(Int) /\ e \in Seq(Int)
      /\ c \in Seq(Int) /\ c # <<>> /\ fetched = Idle /\ b[s].listed /\ LivesOnce(s)
  BY NatSeqInt, ReadyHoldsNone DEF BInv, BTypes, InboundInv, Fetches, ServerFree, BTidy, Wires
<1>2. /\ ab' = [ab EXCEPT ![s] = Tail(c)]
      /\ fetched' = [socket |-> s, frame |-> Head(c)]
      /\ UNCHANGED <<b, pendB, logB, sentAB, net, cur, greeted>>
  BY DEF Fetches, aVars
<1>3. ab'[s] = Tail(c) /\ \A t \in Sockets \ {s} : ab'[t] = ab[t]
  BY <1>2 DEF Wires
<1>4. fetched'.socket = s /\ fetched'.frame = Head(c) /\ fetched.socket # s
  BY <1>1, <1>2, SocketNat DEF Idle
<1>5. Flow(l, p, e, Data(<<Head(c)>>), Tail(c)) = Flow(l, p, e, <<>>, c)
  <2>. HIDE DEF l, p, e, c
  <2>. QED BY <1>1, FlowFetched
<1>6. Lasts(s) /\ (Lasts(s)' <=> Lasts(s)) /\ b[s].state # "none" /\ net[s] # "none"
  BY <1>1, <1>2 DEF Lasts, LivesOnce, Inbound, Fresh
<1>7. InFlow(s)'
  <2>1. sentAB[s] = Flow(l, p, e, <<>>, c)
    BY <1>1, <1>4, <1>6 DEF Inbound, InFlow, Underway
  <2>2. Underway(s)' = Data(<<Head(c)>>)
    BY <1>4 DEF Underway
  <2>. QED BY <1>2, <1>3, <1>5, <2>1, <2>2 DEF InFlow
<1>8. HelloFirst(s)'
  <2>1. ~b[s].hello => Head(c) = Hello
    BY <1>1, <1>4, <1>6 DEF Inbound, HelloFirst
  <2>. QED BY <1>2, <1>4, <2>1 DEF HelloFirst
<1>9. Fresh(s)' /\ HandB(s)'
  BY <1>1, <1>2, <1>6 DEF Fresh, HandB, Inbound
<1>10. Inbound(s)'
  BY <1>7, <1>8, <1>9 DEF Inbound
<1>. QED BY <1>1, <1>2, <1>3, <1>4, <1>10, InboundMoves

LEMMA InboundAccepts ==
    ASSUME InboundInv, BInv, Wires, NEW s \in Sockets, Accepts(s)
    PROVE  InboundInv'
<1> DEFINE c == [NewConnection("inbound", "HANDSHAKING") EXCEPT !.listed = TRUE]
<1>1. /\ BTypes /\ Inbound(s) /\ net[s] # "none" /\ b[s].state = "none" /\ b[s] = Absent
      /\ b' = [b EXCEPT ![s] = c]
      /\ UNCHANGED <<pendB, logB, sentAB, ab, fetched, net, cur, greeted>>
  BY DEF BInv, InboundInv, Inbound, Fresh, Accepts, netVars, aVars
<1>2. /\ c.state = "HANDSHAKING" /\ c.listed /\ ~c.hello /\ ~c.ack /\ ~c.helloSent /\ c.early = <<>>
      /\ Absent.early = <<>> /\ Absent.hello = FALSE
  BY DEF NewConnection, Absent
<1>. HIDE DEF c
<1>3. b'[s] = c /\ \A t \in Sockets \ {s} : b'[t] = b[t]
  BY <1>1 DEF BTypes
<1>4. Fresh(s)' /\ HandB(s)'
  BY <1>1, <1>2, <1>3 DEF Fresh, HandB, Inbound
<1>5. Lasts(s) /\ Underway(s)' = Underway(s)
  BY <1>1 DEF Lasts, Underway
<1>6. InFlow(s)'
  BY <1>1, <1>2, <1>3, <1>5 DEF InFlow, Inbound
<1>7. HelloFirst(s)'
  BY <1>1, <1>2, <1>3, <1>5 DEF HelloFirst, Inbound
<1>8. Inbound(s)'
  BY <1>4, <1>6, <1>7 DEF Inbound
<1>. QED BY <1>1, <1>3, <1>8, InboundMoves

LEMMA InboundOpens ==
    ASSUME InboundInv, Wires, Opens
    PROVE  InboundInv'
<1>1. /\ cur' = cur + 1 /\ cur < MaxSockets /\ net' = [net EXCEPT ![cur'] = "open"]
      /\ greeted' = FALSE /\ UNCHANGED <<b, fetched, pendB, logB, ab, sentAB>>
  BY DEF Opens, bVars
<1>2. cur \in Nat /\ cur' \in Sockets /\ cur' > cur /\ net \in [Sockets -> NetStates]
  BY <1>1, GatewayAssumption DEF Wires
<1>3. ASSUME NEW t \in Sockets, t # cur' PROVE Inbound(t)'
  <2>1. Still(t)
    BY <1>1, <1>2, <1>3 DEF Still
  <2>2. t > cur' => t > cur
    BY <1>1, <1>2
  <2>. QED BY <1>1, <1>3, <2>1, <2>2, StillKeeps DEF InboundInv
<1>4. ASSUME NEW t \in Sockets, t = cur' PROVE Inbound(t)'
  <2>1. Inbound(t) /\ net[t] = "none" /\ ab[t] = <<>> /\ b[t].state = "none"
    BY <1>2, <1>4 DEF InboundInv, Inbound, Fresh
  <2>2. Fresh(t)' /\ HandB(t)'
    BY <1>1, <1>2, <1>4, <2>1 DEF Fresh, HandB, Inbound, NetStates
  <2>3. (Lasts(t)' <=> Lasts(t)) /\ Underway(t)' = Underway(t)
    BY <1>1 DEF Lasts, Underway
  <2>4. InFlow(t)'
    BY <1>1, <2>1, <2>3 DEF InFlow, Inbound
  <2>5. HelloFirst(t)'
    BY <1>1, <1>4, <2>1 DEF HelloFirst, Inbound, Fresh
  <2>. QED BY <2>2, <2>4, <2>5 DEF Inbound
<1>. QED BY <1>3, <1>4 DEF InboundInv

LEMMA InboundA ==
    ASSUME InboundInv, BInv, BTidy, Wires,
           Dialling \/ Fails \/ LoopA \/ TestsReady \/ SendsFrame \/ DisconnectsA \/ PeerRestarts
    PROVE  InboundInv'
<1>1. CASE \/ Dialling \/ Fails \/ TestsReady \/ SendsFrame \/ DisconnectsA \/ EmitsA("loop")
           \/ Drops \/ Ignores \/ ReceivesHello \/ ReceivesAck \/ ReceivesData
  <2>1. UNCHANGED <<b, pendB, logB, sentAB, ab, fetched, cur, greeted, net>>
    BY <1>1 DEF Dialling, SubscribesData, SubscribesState, ReplayChecks, Lists, EmitsA, Fails,
       TestsReady, SendsFrame, DisconnectsA, Drops, Ignores, ReceivesHello, ReceivesAck,
       ReceivesData, Receives, netVars, bVars
  <2>. QED BY <2>1, InboundIdle
<1>2. CASE EndsClient
  <2>1. /\ UNCHANGED <<b, pendB, logB, sentAB, ab, fetched, cur, greeted>>
        /\ net' = IF cur = 0 THEN net ELSE Shut(cur)
    BY <1>2 DEF EndsClient, bVars
  <2>2. \A t \in Sockets : net'[t] = "none" <=> net[t] = "none"
    BY <2>1, ShutNet DEF Wires
  <2>. QED BY <2>1, <2>2, InboundIdle
<1>3. CASE Writes
  <2>1. /\ cur \in Sockets /\ net[cur] # "none" /\ BTypes
        /\ UNCHANGED <<b, pendB, logB, fetched, cur, net>>
    BY <1>3 DEF Writes, bVars, Wires, BInv
  <2>2. CASE ~greeted /\ greeted' /\ ab' = Written(cur, Hello) /\ UNCHANGED sentAB
    <3>1. Hello \in Int /\ ~(Hello > 0)
      BY DEF Hello
    <3>. QED BY <2>1, <2>2, <3>1, InboundWritten
  <2>3. CASE /\ greeted /\ greeted' /\ CanTake(q) /\ ab' = Written(cur, Head(q.frames))
             /\ sentAB' = [sentAB EXCEPT ![cur] =
                  IF Head(q.frames) = HelloAck THEN @ ELSE Append(@, Head(q.frames))]
    <3> DEFINE f == Head(q.frames)
    <3>1. f \in Nat /\ f \in Int /\ f # Hello
      BY <2>3, TakeForm DEF Wires, CanTake, Hello
    <3>2. sentAB' = IF f > 0 THEN [sentAB EXCEPT ![cur] = Append(@, f)] ELSE sentAB
      <4>1. CASE f = HelloAck
        <5>1. sentAB' = [sentAB EXCEPT ![cur] = sentAB[cur]] /\ ~(f > 0)
          BY <2>3, <4>1 DEF HelloAck
        <5>2. sentAB \in [Sockets -> Seq(Int)]
          BY DEF Wires
        <5>3. sentAB' = sentAB
          BY <5>1, <5>2
        <5>. QED BY <5>1, <5>3
      <4>2. CASE f # HelloAck
        BY <2>3, <3>1, <4>2 DEF HelloAck
      <4>. QED BY <4>1, <4>2
    <3>3. ab' = Written(cur, f) /\ greeted /\ greeted'
      BY <2>3
    <3>. HIDE DEF f
    <3>. QED BY <2>1, <3>1, <3>2, <3>3, InboundWritten
  <2>. QED BY <1>3, <2>2, <2>3 DEF Writes, MayGreet
<1>4. CASE PeerRestarts
  <2>1. /\ cur \in Sockets /\ net[cur] # "none" /\ BTypes /\ Hello \in Int /\ ~(Hello > 0)
        /\ ab' = Written(cur, Hello)
        /\ UNCHANGED <<b, pendB, logB, fetched, cur, net, sentAB, greeted>>
    BY <1>4 DEF PeerRestarts, aVars, bVars, Wires, BInv, Hello
  <2>. QED BY <2>1, InboundWritten
<1>. QED BY <1>1, <1>2, <1>3, <1>4 DEF LoopA

LEMMA InboundStep == InboundInv /\ BInv /\ BTidy /\ Wires /\ [Next]_vars => InboundInv'
<1> SUFFICES ASSUME InboundInv, BInv, BTidy, Wires, [Next]_vars PROVE InboundInv'
  OBVIOUS
<1>1. ASSUME NEW s \in Sockets, Closes(s) \/ NetDrops(s) PROVE InboundInv'
  <2>1. /\ UNCHANGED <<b, pendB, logB, sentAB, ab, fetched, cur, greeted>> /\ net' = Shut(s)
    BY <1>1 DEF Closes, NetDrops, aVars, bVars
  <2>. QED BY <2>1, ShutNet, InboundIdle DEF Wires
<1>2. ASSUME NEW s \in Sockets, SendsTo(s) PROVE InboundInv'
  BY <1>2, InboundIdle DEF SendsTo, aVars
<1>3. ASSUME NEW s \in Sockets, Loses(s) \/ DisconnectsB(s) PROVE InboundInv'
  BY <1>3, InboundEnds DEF Loses, DisconnectsB, aVars
<1>4. CASE ServerB
  BY <1>1, <1>3, <1>4, InboundAccepts, InboundFetches, InboundEmits, InboundHandshake, InboundData
     DEF ServerB
<1>5. CASE Programs
  BY <1>2, <1>3, <1>5, InboundA DEF Programs
<1>6. CASE UNCHANGED vars
  BY <1>6, InboundIdle DEF vars, aVars, netVars, bVars
<1>. QED BY <1>1, <1>4, <1>5, <1>6, InboundA, InboundOpens DEF Next

LEMMA InboundInit == Init => InboundInv
<1> SUFFICES ASSUME Init, NEW s \in Sockets PROVE Inbound(s)
  BY DEF InboundInv
<1>1. /\ b[s] = Absent /\ logB[s] = <<>> /\ pendB[s] = <<>> /\ ab[s] = <<>> /\ sentAB[s] = <<>>
      /\ net[s] = "none" /\ ~greeted /\ fetched.socket # s
  BY SocketNat DEF Init, Idle
<1>2. /\ Absent.state = "none" /\ Absent.early = <<>> /\ ~Absent.hello /\ ~Absent.helloSent
      /\ ~Absent.listed
  BY DEF Absent, NewConnection
<1>3. Flow(<<>>, <<>>, <<>>, <<>>, <<>>) = <<>>
  <2>1. <<>> \o <<>> = <<>>
    OBVIOUS
  <2>. QED BY <2>1, DataEmpty DEF Flow
<1>. QED BY <1>1, <1>2, <1>3 DEF Inbound, Fresh, InFlow, Underway, HelloFirst, HandB, Lasts

(* As long as an accepted connection lasts, every data frame written to    *)
(* its socket is delivered, in order and once, or still on its way, for    *)
(* any number of frames and sockets and whichever bounds hold frames.      *)
THEOREM InboundLossless == Spec => []LosslessInbound
<1>1. InboundInv => LosslessInbound
  BY DEF InboundInv, Inbound, InFlow, Lasts, Flow, Underway, LosslessInbound
<1>. QED BY <1>1, PairInit, BStep, TidyInit, TidyBStep, WiresInit, WiresStep, InboundInit,
     InboundStep, PTL DEF Spec

-----------------------------------------------------------------------------
(* How far connect() got, and what that says of the dialled connection.    *)

DialInv ==
    /\ timely => dial \notin {"client", "data", "checking"} /\ pendA.app = <<>>
    /\ dial \in {"client", "data"} => a.state \in {"CONNECTING", "CLOSED"}
    /\ client = "up" /\ a.state \in {"HANDSHAKING", "READY"} => a.wsUp
    /\ a.early # <<>> => a.wsUp /\ client = "up"

LEMMA DialHandlers ==
    ASSUME NEW c \in Conn
    PROVE  /\ Checked(c).wsUp = c.wsUp /\ Greets(c).wsUp = c.wsUp
           /\ Checked(c).early = (IF Complete(c) THEN <<>> ELSE c.early)
           /\ Checked(c).state = (IF Complete(c) THEN "READY" ELSE c.state)
           /\ Greets(c).early = c.early /\ (c.direction = "outbound" => Greets(c).state = c.state)
           /\ SocketUp(c).wsUp = (c.wsUp \/ c.state # "CLOSED") /\ SocketUp(c).early = c.early
           /\ c.state = "CLOSED" => SocketUp(c) = c
           /\ c.state # "CLOSED" => SocketUp(c).state \in {"HANDSHAKING", "READY"}
           /\ Finished(c).early = <<>> /\ Finished(c).state = "CLOSED"
<1>1. Checked(c).wsUp = c.wsUp /\ Greets(c).wsUp = c.wsUp
  BY DEF Checked, Greets, Conn
<1>2. /\ Checked(c).early = (IF Complete(c) THEN <<>> ELSE c.early)
      /\ Checked(c).state = (IF Complete(c) THEN "READY" ELSE c.state)
  BY DEF Checked, Conn
<1>3. Greets(c).early = c.early /\ (c.direction = "outbound" => Greets(c).state = c.state)
  BY DEF Greets, Conn, Restarts
<1>4. SocketUp(c).wsUp = (c.wsUp \/ c.state # "CLOSED") /\ SocketUp(c).early = c.early
  BY DEF SocketUp, Conn
<1>5. /\ c.state = "CLOSED" => SocketUp(c) = c
      /\ c.state # "CLOSED" => SocketUp(c).state \in {"HANDSHAKING", "READY"}
  BY DEF SocketUp, Conn
<1>6. Finished(c).early = <<>> /\ Finished(c).state = "CLOSED"
  BY DEF Finished, Conn
<1>. QED BY <1>1, <1>2, <1>3, <1>4, <1>5, <1>6

LEMMA DialIdle ==
    ASSUME DialInv, UNCHANGED <<a, dial, client, timely, pendA>>
    PROVE  DialInv'
BY DEF DialInv

LEMMA DialCloses ==
    ASSUME DialInv, AInv, a' = Finished(a), UNCHANGED <<timely, pendA, client>>,
           dial' = dial \/ (dial = "client" /\ dial' = "data")
    PROVE  DialInv'
BY DialHandlers DEF DialInv, AInv

LEMMA DialDialling ==
    ASSUME DialInv, AInv, Dialling
    PROVE  DialInv'
<1>1. a \in Conn
  BY DEF AInv
<1>2. CASE SubscribesData
  <2>1. CASE ClosesA
    BY <1>2, <2>1, DialCloses DEF SubscribesData, ClosesA
  <2>2. CASE UNCHANGED a
    BY <1>2, <2>2 DEF SubscribesData, DialInv
  <2>. QED BY <1>2, <2>1, <2>2 DEF SubscribesData
<1>3. CASE SubscribesState
  <2>1. ~timely /\ dial = "data" /\ UNCHANGED <<client, timely, pendA>>
    BY <1>3 DEF SubscribesState, DialInv
  <2>2. CASE client = "up" /\ a' = SocketUp(a) /\ dial' = "checking"
    <3>1. /\ a'.early = a.early /\ a'.wsUp = (a.wsUp \/ a.state # "CLOSED")
          /\ a.state = "CLOSED" => a'.state = "CLOSED"
      BY <1>1, <2>2, DialHandlers
    <3>. QED BY <2>1, <2>2, <3>1 DEF DialInv
  <2>3. CASE client # "up" /\ UNCHANGED a /\ dial' = "wired"
    BY <2>1, <2>3 DEF DialInv
  <2>. QED BY <1>3, <2>2, <2>3 DEF SubscribesState
<1>4. CASE ReplayChecks
  <2>1. ~timely /\ timely' = timely
    BY <1>4 DEF ReplayChecks, DialInv
  <2>2. a' = Checked(a) /\ dial' = "wired" /\ client' = client
    BY <1>4 DEF ReplayChecks
  <2>3. client = "up" /\ a'.state \in {"HANDSHAKING", "READY"} => a'.wsUp
    BY <1>1, <2>2, DialHandlers DEF DialInv, Complete
  <2>4. a'.early # <<>> => a'.wsUp /\ client = "up"
    BY <1>1, <2>2, DialHandlers DEF DialInv
  <2>. QED BY <2>1, <2>2, <2>3, <2>4 DEF DialInv
<1>5. CASE Lists
  <2>1. a'.early = a.early /\ a'.state = a.state /\ a'.wsUp = a.wsUp
    BY <1>1, <1>5 DEF Lists, Conn
  <2>. QED BY <1>5, <2>1 DEF Lists, DialInv
<1>6. CASE EmitsA("app")
  <2>1. ~timely
    BY <1>6 DEF EmitsA, DialInv, AInv
  <2>. QED BY <1>6, <2>1 DEF EmitsA, DialInv
<1>. QED BY <1>2, <1>3, <1>4, <1>5, <1>6 DEF Dialling

LEMMA DialReceives ==
    ASSUME DialInv, AInv, Tidy(a), ReceivesHello \/ ReceivesAck \/ ReceivesData
    PROVE  DialInv'
<1>1. a \in Conn /\ a.direction = "outbound" /\ client = "up" /\ dial \notin {"client"}
      /\ UNCHANGED <<dial, client, timely>> /\ pendA \in [loop : Seq(Nat), app : Seq(Nat)]
  BY DEF AInv, ReceivesHello, ReceivesAck, ReceivesData, Receives, Reads
<1>2. pendA'.app = pendA.app
  BY <1>1 DEF ReceivesHello, ReceivesAck, ReceivesData
<1>3. ASSUME NEW d \in Conn, a' = Checked(d), d.wsUp = a.wsUp, d.early = a.early, d.state = a.state
      PROVE  DialInv'
  BY <1>1, <1>2, <1>3, DialHandlers DEF DialInv, Complete
<1>4. CASE ReceivesHello
  <2>1. a' = Checked(Greets(a)) /\ Greets(a) \in Conn
    BY <1>1, <1>4, GreetsSame DEF ReceivesHello
  <2>. QED BY <1>1, <1>3, <2>1, DialHandlers
<1>5. CASE ReceivesAck
  <2> DEFINE d == [a EXCEPT !.ack = TRUE]
  <2>1. a' = Checked(d)
    BY <1>5 DEF ReceivesAck
  <2>2. d \in Conn /\ d.wsUp = a.wsUp /\ d.early = a.early /\ d.state = a.state
    BY <1>1 DEF Conn
  <2>. HIDE DEF d
  <2>. QED BY <1>3, <2>1, <2>2
<1>6. CASE ReceivesData
  <2>1. PICK f \in 1..DataB :
          \/ a' = a
          \/ Holds(a) /\ a' = Held(a, f)
          \/ a' = Finished(a)
    BY <1>6 DEF ReceivesData, ClosesA
  <2>2. pendA' = pendA
    BY <1>6 DEF ReceivesData
  <2>3. CASE a' = a
    BY <1>1, <2>2, <2>3, DialIdle
  <2>4. CASE Holds(a) /\ a' = Held(a, f)
    <3>1. a'.state = a.state /\ a'.wsUp = a.wsUp /\ a.state = "HANDSHAKING"
      BY <1>1, <2>4 DEF Held, Conn, Holds
    <3>. QED BY <1>1, <2>2, <3>1 DEF DialInv
  <2>5. CASE a' = Finished(a)
    BY <1>1, <2>2, <2>5, DialCloses
  <2>. QED BY <2>1, <2>3, <2>4, <2>5
<1>. QED BY <1>4, <1>5, <1>6

LEMMA DialOpens ==
    ASSUME DialInv, AInv, Tidy(a), Opens
    PROVE  DialInv'
<1>1. /\ a \in Conn /\ client = "down" /\ client' = "up" /\ dial' = dial /\ pendA.app = <<>>
      /\ dial # "checking" /\ timely' = Subscribed /\ pendA \in [loop : Seq(Nat), app : Seq(Nat)]
  BY DEF AInv, Opens, AppFree
<1>2. a.early = <<>>
  BY <1>1 DEF DialInv
<1>3. pendA'.app = pendA.app
  BY <1>1 DEF Opens
<1>4. CASE ~Subscribed /\ UNCHANGED <<a, pendA>>
  BY <1>1, <1>2, <1>4 DEF DialInv, Subscribed
<1>5. CASE Subscribed /\ a' = Checked(SocketUp(a))
  <2>1. SocketUp(a) \in Conn /\ SocketUp(a).wsUp /\ SocketUp(a).early = <<>>
    BY <1>1, <1>2, <1>5, SocketSame, DialHandlers DEF Same, Subscribed
  <2>2. a'.wsUp /\ a'.early = <<>>
    BY <1>5, <2>1, DialHandlers
  <2>. QED BY <1>1, <1>3, <1>5, <2>2 DEF DialInv, Subscribed
<1>. QED BY <1>4, <1>5 DEF Opens

LEMMA DialDrops ==
    ASSUME DialInv, AInv, Tidy(a), Drops
    PROVE  DialInv'
<1>1. a \in Conn /\ client' = "down" /\ UNCHANGED <<dial, timely, pendA>>
  BY DEF AInv, Drops
<1>2. a'.early = <<>>
  <2>1. CASE Subscribed
    BY <1>1, <2>1 DEF Drops, SocketDown, Conn, DialInv
  <2>2. CASE ~Subscribed
    <3>1. a.state # "HANDSHAKING"
      BY <2>2 DEF Subscribed, DialInv
    <3>. QED BY <2>2, <3>1 DEF Drops, Tidy, Holds
  <2>. QED BY <2>1, <2>2
<1>3. dial \in {"client", "data"} => a' = a
  BY DEF Drops, Subscribed
<1>. QED BY <1>1, <1>2, <1>3 DEF DialInv

LEMMA DialStep == DialInv /\ AInv /\ Tidy(a) /\ [Next]_vars => DialInv'
<1> SUFFICES ASSUME DialInv, AInv, Tidy(a), [Next]_vars PROVE DialInv'
  OBVIOUS
<1>1. CASE Writes \/ Ignores \/ TestsReady \/ SendsFrame
  BY <1>1, DialIdle DEF Writes, Ignores, Receives, TestsReady, SendsFrame
<1>2. CASE EndsClient
  <2>1. a.state = "CLOSED" /\ client' = "ended" /\ UNCHANGED <<a, dial, timely, pendA>>
    BY <1>2 DEF EndsClient
  <2>2. a.early = <<>>
    BY <2>1 DEF Tidy, Holds
  <2>. QED BY <2>1, <2>2 DEF DialInv
<1>3. CASE EmitsA("loop")
  <2>1. pendA'.app = pendA.app
    BY <1>3 DEF EmitsA, AInv
  <2>. QED BY <1>3, <2>1 DEF EmitsA, DialInv
<1>4. CASE Fails
  <2>1. UNCHANGED <<dial, timely, pendA>> /\ client' = "ended" /\ client = "down"
    BY <1>4 DEF Fails
  <2>2. a' = a \/ a' = Finished(a)
    BY <1>4 DEF Fails, ClosesA
  <2>3. a'.early = <<>> /\ (dial \in {"client", "data"} => a'.state \in {"CONNECTING", "CLOSED"})
    BY <2>1, <2>2, DialHandlers DEF AInv, DialInv
  <2>. QED BY <2>1, <2>3 DEF DialInv
<1>5. CASE DisconnectsA
  BY <1>5, DialCloses DEF DisconnectsA, ClosesA
<1>6. CASE ServerB \/ (\E s \in Sockets : SendsTo(s) \/ DisconnectsB(s)) \/ PeerRestarts
           \/ (\E s \in Sockets : NetDrops(s)) \/ UNCHANGED vars
  <2>1. UNCHANGED aVars
    BY <1>6 DEF ServerB, Accepts, Fetches, Closes, Loses, EmitsB, HandlesHello, HandlesAck,
       HandlesData, Handles, SendsTo, DisconnectsB, PeerRestarts, NetDrops, vars
  <2>. QED BY <2>1, DialIdle DEF aVars
<1>. QED BY <1>1, <1>2, <1>3, <1>4, <1>5, <1>6, DialDialling, DialReceives, DialOpens, DialDrops
     DEF Next, LoopA, Programs

LEMMA DialInit == Init => DialInv
BY DEF Init, DialInv, NewConnection

-----------------------------------------------------------------------------
(* From the listening node to the dialling one.                            *)

(* What is sent is what is read after the first n and then what is to come. *)
Back(read, n, coming, sent) == n \in 0..Len(read) /\ sent = Rest(read, n) \o coming

LEMMA RestAppend ==
    ASSUME NEW s \in Seq(Int), NEW x \in Int, NEW n \in 0..Len(s)
    PROVE  /\ Rest(s, n) \in Seq(Int) /\ Rest(Append(s, x), n) = Append(Rest(s, n), x)
           /\ n \in 0..Len(Append(s, x))
<1> DEFINE m == Len(s)
           t == Append(s, x)
           r == Rest(s, n)
           w == Rest(t, n)
<1>1. /\ m \in Nat /\ t \in Seq(Int) /\ Len(t) = m + 1 /\ t[m + 1] = x
      /\ \A i \in 1..m : t[i] = s[i]
  BY LenProperties, AppendProperties
<1>. HIDE DEF t
<1>2. /\ r \in Seq(Int) /\ Len(r) = m - n /\ \A i \in 1..m - n : r[i] = s[i + n]
  <2>1. n + 1 \in 1..m + 1 /\ (m + 1) - (n + 1) = m - n /\ \A i \in 1..m - n : i + (n + 1) - 1 = i + n
    BY <1>1
  <2>2. \A i \in (n + 1)..m : s[i] \in Int
    BY <1>1, ElementOfSeq
  <2>3. r = [i \in 1..m - n |-> s[i + n]]
    BY <1>1, <2>1 DEF Rest
  <2>4. m - n \in Nat /\ \A i \in 1..m - n : i + n \in (n + 1)..m
    BY <1>1
  <2>. HIDE DEF r, m
  <2>. QED BY <2>2, <2>3, <2>4
<1>3. /\ w \in Seq(Int) /\ Len(w) = m + 1 - n /\ \A i \in 1..m + 1 - n : w[i] = t[i + n]
  <2>1. n + 1 \in 1..m + 2 /\ \A i \in 1..m + 1 - n : i + (n + 1) - 1 = i + n
    BY <1>1
  <2>2. \A i \in (n + 1)..m + 1 : t[i] \in Int
    BY <1>1, ElementOfSeq
  <2>3. w = [i \in 1..m + 1 - n |-> t[i + n]]
    BY <1>1, <2>1 DEF Rest
  <2>4. m + 1 - n \in Nat /\ \A i \in 1..m + 1 - n : i + n \in (n + 1)..m + 1
    BY <1>1
  <2>. HIDE DEF w, m
  <2>. QED BY <2>2, <2>3, <2>4
<1>4. /\ Append(r, x) \in Seq(Int) /\ Len(Append(r, x)) = Len(r) + 1
      /\ \A i \in 1..Len(r) : Append(r, x)[i] = r[i]
      /\ Append(r, x)[Len(r) + 1] = x
  <2>. HIDE DEF r
  <2>. QED BY <1>2, AppendProperties
<1>5. \A i \in 1..m + 1 - n : w[i] = Append(r, x)[i]
  <2>1. ASSUME NEW i \in 1..m + 1 - n PROVE w[i] = Append(r, x)[i]
    <3>. HIDE DEF w, r, m
    <3>1. CASE i = m + 1 - n
      <4>1. i + n = m + 1 /\ i = Len(r) + 1
        BY <1>1, <1>2, <3>1
      <4>. QED BY <1>1, <1>3, <1>4, <4>1
    <3>2. CASE i # m + 1 - n
      <4>1. i \in 1..m - n /\ i \in 1..Len(r) /\ i + n \in 1..m
        BY <1>1, <1>2, <3>2
      <4>. QED BY <1>1, <1>2, <1>3, <1>4, <4>1
    <3>. QED BY <3>1, <3>2
  <2>. QED BY <2>1
<1>6. w = Append(r, x)
  <2>1. Len(Append(r, x)) = m + 1 - n
    BY <1>1, <1>2, <1>4
  <2>. HIDE DEF w, r, m
  <2>. QED BY <1>3, <1>4, <1>5, <2>1, SeqEqual
<1>. QED BY <1>1, <1>2, <1>6 DEF t

LEMMA BackPosted ==
    ASSUME NEW d \in Seq(Int), NEW c \in Seq(Int), NEW x \in Int, NEW k,
           NEW n, Back(d, n, c, k)
    PROVE  Back(d, n, Append(c, x), Append(k, x))
<1>1. n \in 0..Len(d) /\ k = Rest(d, n) \o c
  BY DEF Back
<1> DEFINE r == Rest(d, n)
<1>2. r \in Seq(Int)
  BY <1>1, RestAppend
<1>3. k = r \o c
  BY <1>1
<1>. HIDE DEF r
<1>4. r \o Append(c, x) = Append(k, x)
  BY <1>2, <1>3, IntSequences
<1>. QED BY <1>1, <1>4 DEF Back, r

LEMMA BackRead ==
    ASSUME NEW d \in Seq(Int), NEW c \in Seq(Int), NEW f \in Int, NEW k,
           NEW n, Back(d, n, <<f>> \o c, k)
    PROVE  Back(Append(d, f), n, c, k)
<1>1. n \in 0..Len(d) /\ k = Rest(d, n) \o (<<f>> \o c)
  BY DEF Back
<1> DEFINE r == Rest(d, n)
<1>2. r \in Seq(Int) /\ Rest(Append(d, f), n) = Append(r, f) /\ n \in 0..Len(Append(d, f))
  BY <1>1, RestAppend
<1>3. <<f>> \in Seq(Int) /\ k = r \o (<<f>> \o c)
  BY <1>1
<1>. HIDE DEF r
<1>4. (r \o <<f>>) \o c = r \o (<<f>> \o c)
  BY <1>2, <1>3, IntSequences
<1>5. r \o <<f>> = Append(r, f)
  BY <1>2, AppendOne
<1>. QED BY <1>2, <1>3, <1>4, <1>5 DEF Back

LEMMA BackNone ==
    ASSUME NEW d \in Seq(Int)
    PROVE  Back(d, Len(d), <<>>, <<>>)
<1>1. Len(d) \in Nat /\ Len(d) \in 0..Len(d)
  BY LenProperties
<1>2. Rest(d, Len(d)) = <<>>
  BY <1>1, SubSeqEmpty DEF Rest
<1>3. <<>> \o <<>> = <<>>
  OBVIOUS
<1>. QED BY <1>1, <1>2, <1>3 DEF Back

(* No data frame comes before e.                                           *)
Preceded(s, e) == \A i \in 1..Len(s) : s[i] > 0 => \E j \in 1..(i - 1) : s[j] = e

LEMMA PrecededAppend ==
    ASSUME NEW s \in Seq(Int), NEW x \in Int, NEW e, Preceded(s, e), x > 0 => Has(s, e)
    PROVE  Preceded(Append(s, x), e)
<1>1. /\ Len(s) \in Nat /\ Append(s, x) \in Seq(Int)
      /\ Len(Append(s, x)) = Len(s) + 1
      /\ \A i \in 1..Len(s) : Append(s, x)[i] = s[i]
      /\ Append(s, x)[Len(s) + 1] = x
  BY LenProperties, AppendProperties
<1>2. ASSUME NEW i \in 1..Len(s) + 1, Append(s, x)[i] > 0
      PROVE  \E j \in 1..(i - 1) : Append(s, x)[j] = e
  <2>1. CASE i <= Len(s)
    <3>1. PICK j \in 1..(i - 1) : s[j] = e
      BY <1>1, <1>2, <2>1 DEF Preceded
    <3>. QED BY <1>1, <2>1, <3>1
  <2>2. CASE i = Len(s) + 1
    <3>1. PICK j \in 1..Len(s) : s[j] = e
      BY <1>1, <1>2, <2>2 DEF Has
    <3>. QED BY <1>1, <2>2, <3>1
  <2>. QED BY <1>1, <2>1, <2>2
<1>. QED BY <1>1, <1>2 DEF Preceded

LEMMA IntHead ==
    ASSUME NEW s \in Seq(Int), s # <<>>
    PROVE  /\ Len(s) \in Nat \ {0} /\ Head(s) = s[1] /\ Head(s) \in Int
           /\ Tail(s) \in Seq(Int) /\ Len(Tail(s)) = Len(s) - 1
           /\ \A i \in 1..Len(Tail(s)) : Tail(s)[i] = s[i + 1]
BY EmptySeq, HeadTailProperties

LEMMA HasTail ==
    ASSUME NEW s \in Seq(Int), s # <<>>, NEW e
    PROVE  Has(s, e) => Head(s) = e \/ Has(Tail(s), e)
<1> SUFFICES ASSUME Has(s, e), Head(s) # e PROVE Has(Tail(s), e)
  OBVIOUS
<1>1. PICK i \in 1..Len(s) : s[i] = e
  BY DEF Has
<1>2. i - 1 \in 1..Len(Tail(s)) /\ Tail(s)[i - 1] = s[i]
  BY <1>1, IntHead
<1>. QED BY <1>1, <1>2 DEF Has

LEMMA PrecededTail ==
    ASSUME NEW s \in Seq(Int), s # <<>>, NEW e, Preceded(s, e)
    PROVE  /\ ~(Head(s) > 0)
           /\ Head(s) # e => Preceded(Tail(s), e)
<1>1. ~(Head(s) > 0)
  <2>1. 1 \in 1..Len(s) /\ Head(s) = s[1] /\ 1..(1 - 1) = {}
    BY IntHead
  <2>. QED BY <2>1 DEF Preceded
<1>2. ASSUME Head(s) # e, NEW i \in 1..Len(Tail(s)), Tail(s)[i] > 0
      PROVE  \E j \in 1..(i - 1) : Tail(s)[j] = e
  <2>1. i + 1 \in 1..Len(s) /\ s[i + 1] > 0 /\ (i + 1) - 1 = i
    BY <1>2, IntHead
  <2>2. PICK j \in 1..i : s[j] = e
    BY <2>1 DEF Preceded
  <2>3. j # 1
    BY <1>2, <2>2, IntHead
  <2>4. j - 1 \in 1..(i - 1) /\ j - 1 \in 1..Len(Tail(s)) /\ Tail(s)[j - 1] = s[j]
    BY <2>2, <2>3, IntHead
  <2>. QED BY <2>2, <2>4
<1>. QED BY <1>1, <1>2 DEF Preceded

LEMMA PrecededEmpty == \A e : Preceded(<<>>, e)
BY DEF Preceded

(* A socket that connect() had subscribed to before it opened.             *)
TimelyUp == client = "up" /\ timely /\ a.state # "CLOSED"

(* A socket that is not opened yet has nothing for the dialling node.      *)
FreshBack == \A s \in Sockets : net[s] = "none" => ba[s] = <<>> /\ sentBA[s] = <<>>

(* On such a socket no frame has to be held.                               *)
LiveA ==
    /\ a.state \in {"HANDSHAKING", "READY"}
    /\ a.hello /\ a.ack => a.state = "READY"
    /\ a.early = <<>>
    /\ pendA.loop = <<>> \/ pendA.loop = <<Up>>

(* The handshake of the listening node comes before its data.              *)
Greeted(s) ==
    /\ a.hello \/ Preceded(ba[s], Hello)
    /\ a.ack \/ Preceded(ba[s], HelloAck)
    /\ b[s].hello /\ net[s] = "open" =>
          (a.hello \/ Has(ba[s], Hello)) /\ (a.ack \/ Has(ba[s], HelloAck))

OutFlow(s) == LiveA /\ Greeted(s) /\ Back(Data(logA), mark.data, Data(ba[s]), sentBA[s])

Outbound == FreshBack /\ (TimelyUp => OutFlow(cur))

LEMMA FreshBackStep == FreshBack /\ Wires /\ [Next]_vars => FreshBack'
<1> SUFFICES ASSUME FreshBack, Wires, [Next]_vars PROVE FreshBack'
  OBVIOUS
<1>0. /\ ba \in [Sockets -> Seq(Int)] /\ sentBA \in [Sockets -> Seq(Int)]
      /\ net \in [Sockets -> NetStates]
  BY DEF Wires
<1>1. ASSUME \A s \in Sockets : net'[s] = "none" => net[s] = "none",
             \A s \in Sockets : net[s] = "none" => ba'[s] = ba[s] /\ sentBA'[s] = sentBA[s]
      PROVE  FreshBack'
  BY <1>1 DEF FreshBack
<1>2. CASE Dialling \/ Fails \/ TestsReady \/ SendsFrame \/ DisconnectsA \/ EmitsA("loop") \/ Writes
  BY <1>1, <1>2 DEF Dialling, SubscribesData, SubscribesState, ReplayChecks, Lists, EmitsA, Fails,
     TestsReady, SendsFrame, DisconnectsA, Writes, netVars
<1>3. CASE Opens
  <2>1. net' = [net EXCEPT ![cur'] = "open"] /\ UNCHANGED <<ba, sentBA>>
    BY <1>3 DEF Opens
  <2>. QED BY <1>0, <1>1, <2>1
<1>4. CASE Ignores \/ ReceivesHello \/ ReceivesAck \/ ReceivesData
  <2>1. /\ ba[cur] # <<>> /\ ba' = [ba EXCEPT ![cur] = Tail(@)] /\ UNCHANGED <<net, sentBA>>
        /\ cur \in Sockets
    BY <1>4 DEF Ignores, ReceivesHello, ReceivesAck, ReceivesData, Receives, Wires
  <2>2. net[cur] # "none"
    BY <2>1 DEF FreshBack
  <2>. QED BY <1>0, <1>1, <2>1, <2>2
<1>5. CASE Drops
  <2>1. net[cur] = "closed" /\ ba' = [ba EXCEPT ![cur] = <<>>] /\ UNCHANGED <<net, sentBA>>
    BY <1>5 DEF Drops
  <2>. QED BY <1>0, <1>1, <2>1
<1>6. CASE EndsClient
  <2>1. /\ UNCHANGED <<ba, sentBA>> /\ net' = (IF cur = 0 THEN net ELSE Shut(cur))
        /\ cur = 0 \/ cur \in Sockets
    BY <1>6, GatewayAssumption DEF EndsClient, Wires
  <2>. QED BY <1>0, <1>1, <2>1, ShutNet
<1>7. ASSUME NEW s \in Sockets, Closes(s) \/ NetDrops(s) PROVE FreshBack'
  <2>1. UNCHANGED <<ba, sentBA>> /\ net' = Shut(s)
    BY <1>7 DEF Closes, NetDrops
  <2>. QED BY <1>0, <1>1, <2>1, ShutNet
<1>8. ASSUME NEW s \in Sockets,
             Accepts(s) \/ Fetches(s) \/ Loses(s) \/ EmitsB(s) \/ HandlesAck(s) \/ HandlesData(s)
               \/ DisconnectsB(s)
      PROVE  FreshBack'
  <2>1. UNCHANGED <<ba, sentBA, net>>
    BY <1>8 DEF Accepts, Fetches, Loses, EmitsB, HandlesAck, HandlesData, Handles, DisconnectsB,
       netVars
  <2>. QED BY <1>1, <2>1
<1>9. ASSUME NEW s \in Sockets, NEW r \in Seq(Int), ba' = Posted(s, r), net' = net,
             sentBA' = sentBA \/ (net[s] = "open" /\ \E x : sentBA' = [sentBA EXCEPT ![s] = x])
      PROVE  FreshBack'
  <2>1. \A t \in Sockets : net[t] = "none" => ba'[t] = ba[t]
    BY <1>0, <1>9, PostedWire
  <2>2. \A t \in Sockets : net[t] = "none" => sentBA'[t] = sentBA[t]
    BY <1>0, <1>9
  <2>. QED BY <1>1, <1>9, <2>1, <2>2
<1>10. ASSUME NEW s \in Sockets, HandlesHello(s) PROVE FreshBack'
  BY <1>9, <1>10, RepliesTyped DEF HandlesHello, Handles
<1>11. ASSUME NEW s \in Sockets, SendsTo(s) PROVE FreshBack'
  <2>1. ba' = Posted(s, <<nextB>>) /\ net' = net /\ <<nextB>> \in Seq(Int)
    <3>1. nextB \in Int
      BY DEF Wires
    <3>. QED BY <1>11, <3>1 DEF SendsTo
  <2>2. sentBA' = sentBA \/ (net[s] = "open" /\ \E x : sentBA' = [sentBA EXCEPT ![s] = x])
    BY <1>11 DEF SendsTo
  <2>. QED BY <1>9, <2>1, <2>2
<1>12. CASE PeerRestarts \/ UNCHANGED vars
  BY <1>1, <1>12 DEF PeerRestarts, vars, netVars
<1>13. CASE ServerB
  BY <1>7, <1>8, <1>10, <1>13 DEF ServerB
<1>14. CASE Programs
  BY <1>2, <1>8, <1>11, <1>14 DEF Programs
<1>. QED BY <1>2, <1>3, <1>4, <1>5, <1>6, <1>7, <1>12, <1>13, <1>14 DEF Next, LoopA

-----------------------------------------------------------------------------
(* A step of neither node on the current socket.                           *)
LEMMA OutIdle ==
    ASSUME TimelyUp => OutFlow(cur), UNCHANGED <<client, timely, mark, cur>>,
           UNCHANGED <<a, pendA, logA>>, ba'[cur] = ba[cur], sentBA'[cur] = sentBA[cur],
           b'[cur].hello /\ net'[cur] = "open" => b[cur].hello /\ net[cur] = "open"
    PROVE  (TimelyUp => OutFlow(cur))'
<1> SUFFICES ASSUME TimelyUp PROVE OutFlow(cur)'
  BY DEF TimelyUp
<1>1. OutFlow(cur)
  OBVIOUS
<1>. QED BY <1>1 DEF OutFlow, LiveA, Greeted

(* A node that is closed, or whose socket is down.                         *)
LEMMA OutDown ==
    ASSUME client' # "up" \/ ~timely' \/ a'.state = "CLOSED"
    PROVE  (TimelyUp => OutFlow(cur))'
BY DEF TimelyUp

LEMMA AppendTwo == \A x, y \in Int : Append(<<x>>, y) = <<x, y>>
<1> SUFFICES ASSUME NEW x \in Int, NEW y \in Int PROVE Append(<<x>>, y) = <<x, y>>
  OBVIOUS
<1>1. <<x>> \in Seq(Int) /\ Len(<<x>>) = 1 /\ <<x>>[1] = x
  OBVIOUS
<1>2. /\ Append(<<x>>, y) \in Seq(Int) /\ Len(Append(<<x>>, y)) = 2
      /\ Append(<<x>>, y)[1] = x /\ Append(<<x>>, y)[2] = y
  <2> DEFINE s == <<x>>
  <2>1. s \in Seq(Int) /\ Len(s) = 1 /\ s[1] = x
    BY <1>1
  <2>. HIDE DEF s
  <2>2. /\ Append(s, y) \in Seq(Int) /\ Len(Append(s, y)) = Len(s) + 1
        /\ \A i \in 1..Len(s) : Append(s, y)[i] = s[i]
        /\ Append(s, y)[Len(s) + 1] = y
    <3>1. s \in Seq(Int)
      BY <2>1
    <3>. QED BY <3>1, AppendProperties
  <2>3. Append(s, y) \in Seq(Int) /\ Len(Append(s, y)) = 2 /\ Append(s, y)[1] = x /\ Append(s, y)[2] = y
    BY <2>1, <2>2
  <2>. QED BY <2>3 DEF s
<1>3. <<x, y>> \in Seq(Int) /\ Len(<<x, y>>) = 2 /\ <<x, y>>[1] = x /\ <<x, y>>[2] = y
  OBVIOUS
<1>4. \A i \in 1..2 : i = 1 \/ i = 2
  OBVIOUS
<1> DEFINE s == Append(<<x>>, y)
           t == <<x, y>>
<1>5. /\ s \in Seq(Int) /\ Len(s) = 2 /\ s[1] = x /\ s[2] = y
      /\ t \in Seq(Int) /\ Len(t) = 2 /\ t[1] = x /\ t[2] = y
  BY <1>2, <1>3
<1>. HIDE DEF s, t
<1>6. s = t
  BY <1>4, <1>5, SeqEqual
<1>. QED BY <1>6 DEF s, t

(* The listening node writes to the current socket.                        *)
LEMMA OutReplies ==
    ASSUME TimelyUp => OutFlow(cur), Wires, BTypes, HandB(cur), cur \in Sockets,
           b[cur].direction = "inbound", HandlesHello(cur)
    PROVE  (TimelyUp => OutFlow(cur))'
<1> SUFFICES ASSUME TimelyUp PROVE OutFlow(cur)'
  BY DEF HandlesHello, Handles, aVars, TimelyUp
<1> DEFINE c == ba[cur]
           d == Append(Append(c, Hello), HelloAck)
<1>1. /\ OutFlow(cur) /\ c \in Seq(Int) /\ b[cur] \in Conn
      /\ UNCHANGED <<a, pendA, logA, net, sentBA, cur, mark>>
      /\ ba' = Posted(cur, Replies(b[cur]))
  BY DEF Wires, BTypes, HandlesHello, Handles, aVars
<1>2. Hello \in Int /\ HelloAck \in Int /\ ~(Hello > 0) /\ ~(HelloAck > 0)
  BY DEF Hello, HelloAck
<1>3. Replies(b[cur]) = <<Hello, HelloAck>>
  BY DEF Replies, Restarts, HandB
<1>4. CASE net[cur] # "open"
  <2>1. ba'[cur] = ba[cur]
    BY <1>1, <1>4, RepliesTyped, PostedWire DEF Wires
  <2>2. net'[cur] # "open"
    BY <1>1, <1>4
  <2>. QED BY <1>1, <2>1, <2>2 DEF OutFlow, LiveA, Greeted
<1>5. CASE net[cur] = "open"
  <2>1. c \o <<Hello, HelloAck>> = d
    <3>1. <<Hello>> \in Seq(Int) /\ Append(<<Hello>>, HelloAck) = <<Hello, HelloAck>>
      BY <1>2, AppendTwo
    <3>2. c \o Append(<<Hello>>, HelloAck) = Append(c \o <<Hello>>, HelloAck)
      BY <1>1, <1>2, <3>1, IntSequences
    <3>3. c \o <<Hello>> = Append(c, Hello)
      BY <1>1, <1>2, AppendOne
    <3>. QED BY <3>1, <3>2, <3>3
  <2>2. ba'[cur] = d
    <3> DEFINE r == Replies(b[cur])
    <3>1. r \in Seq(Int) /\ ba \in [Sockets -> Seq(Int)]
      BY RepliesTyped DEF Wires
    <3>. HIDE DEF r
    <3>2. Posted(cur, r)[cur] = ba[cur] \o r
      BY <1>5, <3>1, PostedWire
    <3>. QED BY <1>1, <1>3, <2>1, <3>2 DEF r
  <2>. HIDE DEF c
  <2>3. /\ Append(c, Hello) \in Seq(Int) /\ Has(Append(c, Hello), Hello)
    BY <1>1, <1>2, HasAppend
  <2>4. Has(d, Hello) /\ Has(d, HelloAck)
    BY <1>2, <2>3, HasAppend
  <2>5. ASSUME NEW e, Preceded(c, e) PROVE Preceded(d, e)
    BY <1>1, <1>2, <2>3, <2>5, PrecededAppend
  <2>6. Data(d) = Data(c)
    BY <1>1, <1>2, <2>3, DataAppend
  <2>. HIDE DEF d
  <2>7. Greeted(cur)'
    BY <1>1, <2>2, <2>4, <2>5 DEF OutFlow, Greeted, c
  <2>. QED BY <1>1, <2>2, <2>6, <2>7 DEF OutFlow, LiveA, c
<1>. QED BY <1>4, <1>5

LEMMA OutSends ==
    ASSUME TimelyUp => OutFlow(cur), Wires, HandB(cur), cur \in Sockets, AInv, SendsTo(cur)
    PROVE  (TimelyUp => OutFlow(cur))'
<1> SUFFICES ASSUME TimelyUp PROVE OutFlow(cur)'
  BY DEF SendsTo, aVars, TimelyUp
<1> DEFINE c == ba[cur]
           k == sentBA[cur]
           l == Data(logA)
<1>1. /\ OutFlow(cur) /\ c \in Seq(Int) /\ k \in Seq(Int) /\ b[cur].hello
      /\ UNCHANGED <<a, pendA, logA, net, b, cur, mark>>
      /\ ba' = Posted(cur, <<nextB>>) /\ nextB \in Int /\ nextB > 0
      /\ sentBA' = IF net[cur] = "open" THEN [sentBA EXCEPT ![cur] = Append(@, nextB)] ELSE sentBA
  BY DEF Wires, SendsTo, aVars, MaySend, HandB
<1>2. <<nextB>> \in Seq(Int)
  BY <1>1
<1>3. CASE net[cur] # "open"
  <2>1. ba'[cur] = ba[cur] /\ sentBA'[cur] = sentBA[cur]
    BY <1>1, <1>2, <1>3, PostedWire DEF Wires
  <2>. QED BY <1>1, <2>1 DEF OutFlow, LiveA, Greeted
<1>4. CASE net[cur] = "open"
  <2>1. ba'[cur] = Append(c, nextB) /\ sentBA'[cur] = Append(k, nextB)
    <3>1. c \o <<nextB>> = Append(c, nextB)
      BY <1>1, AppendOne
    <3>. QED BY <1>1, <1>2, <1>4, <3>1, PostedWire DEF Wires
  <2>2. l \in Seq(Int)
    BY DataInt DEF AInv
  <2>3. Data(c) \in Seq(Int) /\ Data(Append(c, nextB)) = Append(Data(c), nextB)
    BY <1>1, DataInt, DataAppend
  <2>4. Back(l, mark.data, Data(c), k) /\ mark' = mark
    BY <1>1 DEF OutFlow
  <2>5. Back(l, mark.data, Append(Data(c), nextB), Append(k, nextB))
    <3> DEFINE w == Data(c)
    <3>1. w \in Seq(Int) /\ Back(l, mark.data, w, k)
      BY <2>3, <2>4
    <3>. HIDE DEF w, l, k
    <3>2. Back(l, mark.data, Append(w, nextB), Append(k, nextB))
      BY <1>1, <2>2, <3>1, BackPosted
    <3>. QED BY <3>2 DEF w
  <2>6. Back(Data(logA'), mark'.data, Data(ba'[cur]), sentBA'[cur])
    BY <1>1, <2>1, <2>3, <2>4, <2>5
  <2>7. (a.hello \/ Has(c, Hello)) /\ (a.ack \/ Has(c, HelloAck))
    BY <1>1, <1>4 DEF OutFlow, Greeted
  <2>8. ASSUME NEW e \in Int
        PROVE  /\ Has(c, e) => Has(Append(c, nextB), e)
               /\ Has(c, e) /\ Preceded(c, e) => Preceded(Append(c, nextB), e)
    <3>. HIDE DEF c
    <3>. QED BY <1>1, <2>8, HasAppend, PrecededAppend
  <2>9. Greeted(cur)'
    <3>1. Hello \in Int /\ HelloAck \in Int
      BY DEF Hello, HelloAck
    <3>. QED BY <1>1, <2>1, <2>7, <2>8, <3>1 DEF OutFlow, Greeted
  <2>. QED BY <1>1, <2>6, <2>9 DEF OutFlow, LiveA
<1>. QED BY <1>3, <1>4

(* The dialling node takes a handshake frame of a socket it is timely on.  *)
LEMMA OutHandshake ==
    ASSUME OutFlow(cur), Wires, AInv, cur \in Sockets, ba[cur] # <<>>,
           Head(ba[cur]) \in {Hello, HelloAck}, ba' = [ba EXCEPT ![cur] = Tail(@)],
           UNCHANGED <<logA, sentBA, b, net, cur, mark>>,
           NEW d \in Conn, a' = Checked(d), pendA' = [pendA EXCEPT !.loop = Emits(d)],
           d.early = a.early, d.state = a.state,
           (d.hello <=> a.hello \/ Head(ba[cur]) = Hello), (d.ack <=> a.ack \/ Head(ba[cur]) = HelloAck)
    PROVE  OutFlow(cur)'
<1> DEFINE c == ba[cur]
           h == Head(c)
           t == Tail(c)
<1>1. c \in Seq(Int) /\ c # <<>> /\ h \in {Hello, HelloAck} /\ Hello # HelloAck /\ ~(h > 0) /\ h \in Int
  BY DEF Wires, Hello, HelloAck
<1>2. ba'[cur] = t
  BY DEF Wires
<1>3. Data(t) = Data(c)
  <2>1. h \in Int /\ t \in Seq(Int) /\ Data(c) = Data(<<h>>) \o Data(t)
    BY <1>1, DataHead
  <2>2. Data(<<h>>) = <<>> /\ Data(t) \in Seq(Int)
    BY <1>1, <2>1, DataOne, DataInt
  <2> DEFINE w == Data(t)
  <2>3. w \in Seq(Int)
    BY <2>2
  <2>. HIDE DEF w
  <2>4. <<>> \o w = w
    BY <2>3, ConcatEmptySeq
  <2>. QED BY <2>1, <2>2, <2>4 DEF w
<1>4. ASSUME NEW e, h # e
      PROVE  (Preceded(c, e) => Preceded(t, e)) /\ (Has(c, e) => Has(t, e))
  <2>. HIDE DEF c
  <2>. QED BY <1>1, <1>4, PrecededTail, HasTail
<1>5. a'.hello = d.hello /\ a'.ack = d.ack
  BY DEF Checked, Conn
<1>6. LiveA'
  <2>1. /\ d.state \in {"HANDSHAKING", "READY"} /\ d.early = <<>>
    BY DEF OutFlow, LiveA
  <2>2. /\ a'.state = (IF Complete(d) THEN "READY" ELSE d.state) /\ a'.early = <<>>
    BY <2>1, DialHandlers
  <2>3. Emits(d) = <<>> \/ Emits(d) = <<Up>>
    <3>1. <<Up>> \in Seq(Int)
      BY DEF Up
    <3>2. <<Up>> \o <<>> = <<Up>>
      BY <3>1, ConcatEmptySeq
    <3>. QED BY <2>1, <3>2 DEF Emits
  <2>4. pendA'.loop = Emits(d)
    BY DEF AInv
  <2>. QED BY <1>5, <2>1, <2>2, <2>3, <2>4 DEF LiveA, Complete
<1>. HIDE DEF h, t, c
<1>7. Greeted(cur)'
  <2>1. Greeted(cur) /\ b' = b /\ net' = net /\ cur' = cur
    BY DEF OutFlow
  <2>2. (d.hello <=> a.hello \/ h = Hello) /\ (d.ack <=> a.ack \/ h = HelloAck)
    BY DEF h, c
  <2>3. a'.hello \/ Preceded(t, Hello)
    BY <1>4, <1>5, <2>1, <2>2 DEF Greeted, c
  <2>4. a'.ack \/ Preceded(t, HelloAck)
    BY <1>4, <1>5, <2>1, <2>2 DEF Greeted, c
  <2>5. b[cur].hello /\ net[cur] = "open" =>
          (a'.hello \/ Has(t, Hello)) /\ (a'.ack \/ Has(t, HelloAck))
    BY <1>4, <1>5, <2>1, <2>2 DEF Greeted, c
  <2>. QED BY <1>2, <2>1, <2>3, <2>4, <2>5 DEF Greeted
<1>8. Back(Data(logA'), mark'.data, Data(ba'[cur]), sentBA'[cur])
  BY <1>2, <1>3 DEF OutFlow, c
<1>. QED BY <1>6, <1>7, <1>8 DEF OutFlow

LEMMA OutReceives ==
    ASSUME TimelyUp => OutFlow(cur), Wires, AInv, DialInv,
           ReceivesHello \/ ReceivesAck \/ ReceivesData \/ Ignores
    PROVE  (TimelyUp => OutFlow(cur))'
<1> DEFINE c == ba[cur]
           h == Head(c)
           t == Tail(c)
           l == Data(logA)
           k == sentBA[cur]
<1>1. /\ c # <<>> /\ ba' = [ba EXCEPT ![cur] = t] /\ client = "up" /\ a \in Conn
      /\ UNCHANGED <<dial, client, cur, timely, mark, sentBA, b, net>> /\ a.direction = "outbound"
  BY DEF ReceivesHello, ReceivesAck, ReceivesData, Ignores, Receives, bVars, AInv
<1>2. cur \in Sockets /\ c \in Seq(Int) /\ logA \in Seq(Int)
  BY <1>1 DEF Wires, AInv
<1>3. a'.state # "CLOSED" => a.state # "CLOSED"
  <2>1. CASE Ignores
    BY <2>1 DEF Ignores
  <2>2. CASE ReceivesData
    BY <1>1, <2>2, DialHandlers DEF ReceivesData, ClosesA, Holds
  <2>3. CASE ReceivesHello \/ ReceivesAck
    BY <2>3 DEF ReceivesHello, ReceivesAck, Reads
  <2>. QED BY <2>1, <2>2, <2>3
<1> SUFFICES ASSUME TimelyUp, a.state # "CLOSED" PROVE OutFlow(cur)'
  BY <1>1, <1>3 DEF TimelyUp
<1>4. OutFlow(cur) /\ timely
  BY DEF TimelyUp
<1>5. CASE Ignores
  BY <1>4, <1>5 DEF Ignores, Reads, DialInv
<1>6. CASE ReceivesHello
  <2>1. h = Hello /\ logA' = logA /\ a' = Checked(Greets(a))
        /\ pendA' = [pendA EXCEPT !.loop = Emits(Greets(a))]
    BY <1>6 DEF ReceivesHello, Receives
  <2>2. /\ Greets(a) \in Conn /\ Greets(a).early = a.early /\ Greets(a).state = a.state
        /\ (Greets(a).hello <=> a.hello \/ h = Hello) /\ (Greets(a).ack <=> a.ack \/ h = HelloAck)
    <3>1. Greets(a) \in Conn /\ Greets(a).early = a.early /\ Greets(a).state = a.state
      BY <1>1, GreetsSame, DialHandlers
    <3>2. Greets(a).hello = TRUE /\ Greets(a).ack = a.ack
      BY <1>1 DEF Greets, Restarts, Conn
    <3>3. Hello # HelloAck
      BY DEF Hello, HelloAck
    <3>. QED BY <2>1, <3>1, <3>2, <3>3
  <2>. QED BY <1>1, <1>2, <1>4, <2>1, <2>2, OutHandshake
<1>7. CASE ReceivesAck
  <2> DEFINE d == [a EXCEPT !.ack = TRUE]
  <2>1. h = HelloAck /\ logA' = logA /\ a' = Checked(d)
        /\ pendA' = [pendA EXCEPT !.loop = Emits(d)]
    BY <1>7 DEF ReceivesAck, Receives
  <2>2. /\ d \in Conn /\ d.early = a.early /\ d.state = a.state
        /\ (d.hello <=> a.hello \/ h = Hello) /\ (d.ack <=> a.ack \/ h = HelloAck)
    <3>1. d \in Conn /\ d.early = a.early /\ d.state = a.state /\ d.hello = a.hello /\ d.ack = TRUE
      BY <1>1 DEF Conn
    <3>2. Hello # HelloAck
      BY DEF Hello, HelloAck
    <3>. HIDE DEF d
    <3>. QED BY <2>1, <3>1, <3>2
  <2>. HIDE DEF d
  <2>. QED BY <1>1, <1>2, <1>4, <2>1, <2>2, OutHandshake
<1>8. CASE ReceivesData
  <2>1. PICK f \in 1..DataB :
          /\ h = f /\ UNCHANGED <<q, pendA>>
          /\ \/ logA' = Append(logA, f) /\ UNCHANGED a
             \/ a.state # "READY"
    BY <1>8 DEF ReceivesData, Receives, Holds
  <2>2. f \in Int /\ f > 0
    BY GatewayAssumption
  <2>3. a.hello /\ a.ack
    <3>1. \A e : ~Preceded(c, e)
      <4>. HIDE DEF c
      <4>. QED BY <1>1, <1>2, <2>1, <2>2, PrecededTail
    <3>. QED BY <1>4, <3>1 DEF OutFlow, Greeted
  <2>4. logA' = Append(logA, f) /\ a' = a /\ pendA' = pendA
    BY <1>4, <2>1, <2>3 DEF OutFlow, LiveA
  <2>5. ba'[cur] = t
    BY <1>1, <1>2 DEF Wires
  <2>6. t \in Seq(Int) /\ Data(c) = <<f>> \o Data(t) /\ Data(t) \in Seq(Int)
    <3>. HIDE DEF c
    <3>1. t \in Seq(Int) /\ Data(c) = Data(<<h>>) \o Data(t)
      BY <1>1, <1>2, DataHead
    <3>2. Data(<<h>>) = <<f>>
      BY <2>1, <2>2, DataOne
    <3>. QED BY <3>1, <3>2, DataInt
  <2>7. l \in Seq(Int) /\ Data(Append(logA, f)) = Append(l, f)
    BY <1>2, <2>2, DataInt, DataAppend
  <2>8. Back(Append(l, f), mark.data, Data(t), k)
    <3> DEFINE w == Data(t)
    <3>1. w \in Seq(Int) /\ Back(l, mark.data, <<f>> \o w, k) /\ l \in Seq(Int)
      BY <1>4, <2>6, <2>7 DEF OutFlow
    <3>. HIDE DEF w, l, k
    <3>2. Back(Append(l, f), mark.data, w, k)
      BY <2>2, <3>1, BackRead
    <3>. QED BY <3>2 DEF w
  <2>9. Greeted(cur)' /\ LiveA'
    BY <1>1, <1>4, <2>3, <2>4 DEF OutFlow, Greeted, LiveA
  <2>. QED BY <1>1, <2>4, <2>5, <2>7, <2>8, <2>9 DEF OutFlow
<1>. QED BY <1>5, <1>6, <1>7, <1>8

LEMMA OutOpens ==
    ASSUME FreshBack, InboundInv, Wires, AInv, DialInv, Opens
    PROVE  (TimelyUp => OutFlow(cur))'
<1>1. /\ cur' = cur + 1 /\ cur' \in Sockets /\ cur' > cur /\ UNCHANGED <<logA, ba, sentBA, b>>
      /\ client = "down" /\ pendA \in [loop : Seq(Nat), app : Seq(Nat)] /\ a \in Conn
      /\ logA \in Seq(Int) /\ pendA.loop = <<>>
  <2>1. cur' = cur + 1 /\ cur < MaxSockets /\ cur \in 0..MaxSockets /\ MaxSockets \in Nat
    BY GatewayAssumption DEF Opens, Wires
  <2>2. cur' \in Sockets /\ cur' > cur
    BY <2>1
  <2>3. UNCHANGED <<logA, ba, sentBA, b>> /\ client = "down" /\ pendA.loop = <<>>
    BY DEF Opens, bVars, LoopFree
  <2>. QED BY <2>1, <2>2, <2>3 DEF AInv
<1>2. /\ ba[cur'] = <<>> /\ sentBA[cur'] = <<>> /\ ~b[cur'].hello
  <2>1. net[cur'] = "none" /\ b[cur'] = Absent
    BY <1>1 DEF InboundInv, Inbound, Fresh
  <2>. QED BY <1>1, <2>1 DEF FreshBack, Absent, NewConnection
<1> SUFFICES ASSUME TimelyUp' PROVE OutFlow(cur)'
  OBVIOUS
<1>3. /\ a' = Checked(SocketUp(a)) /\ pendA' = [pendA EXCEPT !.loop = Emits(SocketUp(a))]
      /\ a.state # "CLOSED"
  BY DEF Opens, TimelyUp, Subscribed
<1> DEFINE d == SocketUp(a)
<1>4. d \in Conn /\ d.early = <<>> /\ d.state \in {"HANDSHAKING", "READY"}
  <2>1. a.early = <<>>
    BY <1>1 DEF DialInv
  <2>. QED BY <1>1, <1>3, <2>1, SocketSame, DialHandlers DEF Same
<1>5. a' = Checked(d) /\ pendA'.loop = Emits(d)
  BY <1>1, <1>3
<1>. HIDE DEF d
<1>6. LiveA'
  <2>1. /\ a'.state = (IF Complete(d) THEN "READY" ELSE d.state) /\ a'.early = <<>>
        /\ a'.hello = d.hello /\ a'.ack = d.ack
    BY <1>4, <1>5, DialHandlers DEF Checked, Conn
  <2>2. Emits(d) = <<>> \/ Emits(d) = <<Up>>
    <3>1. <<Up>> \in Seq(Int)
      BY DEF Up
    <3>2. <<Up>> \o <<>> = <<Up>>
      BY <3>1, ConcatEmptySeq
    <3>. QED BY <1>4, <3>2 DEF Emits
  <2>. QED BY <1>4, <1>5, <2>1, <2>2 DEF LiveA, Complete
<1>7. Greeted(cur)'
  BY <1>1, <1>2, PrecededEmpty DEF Greeted
<1>8. Back(Data(logA'), mark'.data, Data(ba'[cur']), sentBA'[cur'])
  <2>1. mark'.data = Len(Data(logA))
    BY DEF Opens, Mark
  <2>. QED BY <1>1, <1>2, <2>1, DataEmpty, DataInt, BackNone
<1>. QED BY <1>6, <1>7, <1>8 DEF OutFlow

LEMMA OutDialling ==
    ASSUME TimelyUp => OutFlow(cur), AInv, DialInv, Dialling \/ EmitsA("loop")
    PROVE  (TimelyUp => OutFlow(cur))'
<1>1. UNCHANGED <<client, timely, mark, cur, ba, sentBA, b, net>>
  BY DEF Dialling, SubscribesData, SubscribesState, ReplayChecks, Lists, EmitsA, netVars, bVars
<1>2. CASE ~timely
  BY <1>1, <1>2 DEF TimelyUp
<1>3. CASE timely /\ Lists
  <2>1. /\ a'.early = a.early /\ a'.state = a.state /\ a'.hello = a.hello /\ a'.ack = a.ack
        /\ UNCHANGED <<pendA, logA>>
    BY <1>3 DEF Lists, AInv, Conn
  <2> SUFFICES ASSUME TimelyUp PROVE OutFlow(cur)'
    BY <1>1, <2>1 DEF TimelyUp
  <2>. QED BY <1>1, <2>1 DEF OutFlow, Greeted, LiveA
<1>4. CASE timely /\ EmitsA("loop")
  <2>1. /\ pendA.loop # <<>> /\ a' = a /\ pendA'.loop = Tail(pendA.loop)
        /\ logA' = Append(logA, Head(pendA.loop)) /\ logA \in Seq(Int)
    BY <1>4 DEF EmitsA, AInv
  <2> SUFFICES ASSUME TimelyUp PROVE OutFlow(cur)'
    BY <1>1, <2>1 DEF TimelyUp
  <2>2. pendA.loop = <<Up>>
    BY <2>1 DEF OutFlow, LiveA
  <2>3. logA' = Append(logA, Up) /\ pendA'.loop = <<>> /\ Up \in Int /\ ~(Up > 0)
    BY <2>1, <2>2 DEF Up
  <2>4. Data(logA') = Data(logA)
    BY <2>1, <2>3, DataAppend
  <2>. QED BY <1>1, <2>1, <2>3, <2>4 DEF OutFlow, Greeted, LiveA
<1>. QED BY <1>2, <1>3, <1>4 DEF Dialling, SubscribesData, SubscribesState, ReplayChecks, EmitsA, DialInv

(* The listening node writes to the current socket when it answers a HELLO *)
(* on it or sends a frame, and no other step of its own takes it a HELLO.  *)
StaysOut ==
    /\ ba'[cur] = ba[cur] /\ sentBA'[cur] = sentBA[cur]
    /\ b'[cur].hello /\ net'[cur] = "open" => b[cur].hello /\ net[cur] = "open"

LEMMA ServerOut ==
    ASSUME Wires, BInv, InboundInv, cur \in Sockets, NEW s \in Sockets,
           \/ Accepts(s) \/ Fetches(s) \/ Closes(s) \/ Loses(s) \/ EmitsB(s)
           \/ HandlesHello(s) \/ HandlesAck(s) \/ HandlesData(s) \/ SendsTo(s) \/ DisconnectsB(s)
           \/ NetDrops(s)
    PROVE  StaysOut \/ HandlesHello(cur) \/ SendsTo(cur)
<1>3. /\ b \in [Sockets -> Conn] /\ LivesOnce(cur) /\ HandB(cur) /\ net \in [Sockets -> NetStates]
      /\ ba \in [Sockets -> Seq(Int)] /\ sentBA \in [Sockets -> Seq(Int)]
  BY DEF BInv, BTypes, InboundInv, Inbound, Wires
<1>4. CASE Closes(s) \/ NetDrops(s)
  <2>1. UNCHANGED <<ba, sentBA, b>> /\ net' = Shut(s)
    BY <1>4 DEF Closes, NetDrops, bVars
  <2>2. net'[cur] = "open" => net[cur] = "open"
    BY <1>3, <2>1, ShutNet
  <2>. QED BY <2>1, <2>2 DEF StaysOut
<1>5. CASE Accepts(s) \/ Fetches(s) \/ EmitsB(s) \/ HandlesAck(s) \/ Loses(s) \/ HandlesData(s)
           \/ DisconnectsB(s)
  <2>1. UNCHANGED <<ba, sentBA, net>>
    BY <1>5 DEF Accepts, Fetches, EmitsB, HandlesAck, Loses, HandlesData, Handles, DisconnectsB,
       netVars
  <2>2. \/ b' = b
        \/ \E d : b' = [b EXCEPT ![s] = d] /\ (d.hello => b[s].hello)
    <3>1. CASE Fetches(s) \/ EmitsB(s)
      BY <3>1 DEF Fetches, EmitsB
    <3>2. CASE Accepts(s)
      <4> DEFINE d == [NewConnection("inbound", "HANDSHAKING") EXCEPT !.listed = TRUE]
      <4>1. b' = [b EXCEPT ![s] = d] /\ ~d.hello
        BY <3>2 DEF Accepts, NewConnection
      <4>. HIDE DEF d
      <4>. QED BY <4>1
    <3>3. CASE HandlesAck(s)
      <4> DEFINE d == Checked([b[s] EXCEPT !.ack = TRUE])
      <4>1. b' = [b EXCEPT ![s] = d] /\ b[s] \in Conn
        BY <1>3, <3>3 DEF HandlesAck, Settles
      <4>2. d.hello = b[s].hello
        BY <4>1 DEF Checked, Conn
      <4>. HIDE DEF d
      <4>. QED BY <4>1, <4>2
    <3>4. ASSUME EndsB(s) PROVE \E d : b' = [b EXCEPT ![s] = d] /\ (d.hello => b[s].hello)
      <4> DEFINE d == Finished(b[s])
      <4>1. b' = [b EXCEPT ![s] = d] /\ b[s] \in Conn
        BY <1>3, <3>4 DEF EndsB
      <4>2. d.hello = b[s].hello
        BY <4>1 DEF Finished, Conn
      <4>. HIDE DEF d
      <4>. QED BY <4>1, <4>2
    <3>5. CASE HandlesData(s)
      <4>1. PICK f \in 1..DataA : b' = b \/ b' = [b EXCEPT ![s] = Held(@, f)] \/ EndsB(s)
        BY <3>5 DEF HandlesData
      <4>2. CASE b' = [b EXCEPT ![s] = Held(@, f)]
        <5> DEFINE d == Held(b[s], f)
        <5>1. b' = [b EXCEPT ![s] = d] /\ d.hello = b[s].hello
          BY <1>3, <4>2 DEF Held, Conn
        <5>. HIDE DEF d
        <5>. QED BY <5>1
      <4>. QED BY <3>4, <4>1, <4>2
    <3>. QED BY <1>5, <3>1, <3>2, <3>3, <3>4, <3>5 DEF Loses, DisconnectsB
  <2>3. b'[cur].hello => b[cur].hello
    BY <1>3, <2>2
  <2>. QED BY <2>1, <2>3 DEF StaysOut
<1>6. CASE s # cur /\ (HandlesHello(s) \/ SendsTo(s))
  <2>1. ba'[cur] = ba[cur]
    <3>1. CASE HandlesHello(s)
      BY <1>3, <1>6, <3>1, RepliesTyped, PostedWire DEF HandlesHello
    <3>2. CASE SendsTo(s)
      <4>1. <<nextB>> \in Seq(Int)
        <5>1. nextB \in Int
          BY DEF Wires
        <5>. QED BY <5>1
      <4>. QED BY <1>3, <1>6, <3>2, <4>1, PostedWire DEF SendsTo
    <3>. QED BY <1>6, <3>1, <3>2
  <2>2. net' = net /\ sentBA'[cur] = sentBA[cur] /\ b'[cur] = b[cur]
    BY <1>3, <1>6 DEF HandlesHello, Handles, Settles, SendsTo
  <2>. QED BY <2>1, <2>2 DEF StaysOut
<1>. QED BY <1>4, <1>5, <1>6

LEMMA OutServer ==
    ASSUME TimelyUp => OutFlow(cur), Wires, BInv, InboundInv, AInv, NEW s \in Sockets,
           \/ Accepts(s) \/ Fetches(s) \/ Closes(s) \/ Loses(s) \/ EmitsB(s)
           \/ HandlesHello(s) \/ HandlesAck(s) \/ HandlesData(s) \/ SendsTo(s) \/ DisconnectsB(s)
           \/ NetDrops(s)
    PROVE  (TimelyUp => OutFlow(cur))'
<1>1. UNCHANGED aVars
  BY DEF Accepts, Fetches, Closes, Loses, EmitsB, HandlesHello, HandlesAck, HandlesData, Handles,
     SendsTo, DisconnectsB, NetDrops
<1>2. UNCHANGED <<a, client, timely, mark, cur, pendA, logA>>
  BY <1>1 DEF aVars
<1> SUFFICES ASSUME cur \in Sockets PROVE (TimelyUp => OutFlow(cur))'
  BY <1>2 DEF TimelyUp, Wires
<1>3. b \in [Sockets -> Conn] /\ LivesOnce(cur) /\ HandB(cur)
  BY DEF BInv, BTypes, InboundInv, Inbound
<1>4. StaysOut \/ HandlesHello(cur) \/ SendsTo(cur)
  BY ServerOut
<1>5. CASE StaysOut
  BY <1>2, <1>5, OutIdle DEF StaysOut
<1>6. CASE HandlesHello(cur)
  BY <1>3, <1>6, OutReplies DEF BInv, LivesOnce
<1>7. CASE SendsTo(cur)
  BY <1>3, <1>7, OutSends
<1>. QED BY <1>4, <1>5, <1>6, <1>7

LEMMA OutboundStep ==
    Outbound /\ DialInv /\ Wires /\ AInv /\ BInv /\ InboundInv /\ [Next]_vars => Outbound'
<1> SUFFICES ASSUME Outbound, DialInv, Wires, AInv, BInv, InboundInv, [Next]_vars PROVE Outbound'
  OBVIOUS
<1>0. FreshBack /\ FreshBack' /\ (TimelyUp => OutFlow(cur))
  BY FreshBackStep DEF Outbound
<1> SUFFICES (TimelyUp => OutFlow(cur))'
  BY <1>0 DEF Outbound
<1>1. CASE Drops \/ EndsClient \/ Fails \/ DisconnectsA
  <2>1. client' # "up" \/ a'.state = "CLOSED"
    BY <1>1, DialHandlers DEF Drops, EndsClient, Fails, DisconnectsA, ClosesA, AInv
  <2>. QED BY <2>1, OutDown
<1>2. CASE Writes \/ TestsReady \/ SendsFrame \/ PeerRestarts \/ UNCHANGED vars
  <2>1. UNCHANGED <<client, timely, mark, cur, a, pendA, logA, ba, sentBA, b, net>>
    BY <1>2 DEF Writes, TestsReady, SendsFrame, PeerRestarts, vars, aVars, netVars, bVars
  <2>. QED BY <1>0, <2>1, OutIdle
<1>3. CASE ServerB \/ (\E s \in Sockets : SendsTo(s) \/ DisconnectsB(s) \/ NetDrops(s))
  BY <1>0, <1>3, OutServer DEF ServerB
<1>4. CASE Dialling \/ Opens
  BY <1>0, <1>4, OutDialling, OutOpens
<1>5. CASE LoopA
  BY <1>0, <1>1, <1>2, <1>5, OutDialling, OutReceives DEF LoopA
<1>. QED BY <1>1, <1>2, <1>3, <1>4, <1>5 DEF Next, Programs

LEMMA OutboundInit == Init => Outbound
BY DEF Init, Outbound, FreshBack, TimelyUp

(* On a socket that connect() had subscribed to before it opened, what A   *)
(* delivered since then, and what is on its way, is what B wrote to it:    *)
(* nothing is lost, reordered or delivered twice.                          *)
THEOREM OutboundLossless == Spec => []LosslessOutbound
<1>1. AInv /\ Outbound => LosslessOutbound
  <2> SUFFICES ASSUME AInv, Outbound, client = "up", timely, a.state # "CLOSED"
               PROVE  sentBA[cur] = Rest(Data(logA), mark.data) \o Data(pendA.loop) \o Data(ba[cur])
    BY DEF LosslessOutbound
  <2> DEFINE l == Data(logA)
             n == mark.data
  <2>1. LiveA /\ Back(l, n, Data(ba[cur]), sentBA[cur]) /\ logA \in Seq(Int)
    BY DEF Outbound, OutFlow, TimelyUp, AInv
  <2>2. l \in Seq(Int)
    BY <2>1, DataInt
  <2>3. n \in 0..Len(l) /\ sentBA[cur] = Rest(l, n) \o Data(ba[cur])
    BY <2>1 DEF Back
  <2>4. Data(pendA.loop) = <<>>
    <3>1. Up \in Int /\ ~(Up > 0)
      BY DEF Up
    <3>2. Data(<<Up>>) = <<>>
      BY <3>1, DataOne
    <3>. QED BY <2>1, <3>2, DataEmpty DEF LiveA
  <2>5. Rest(l, n) \o <<>> = Rest(l, n)
    <3>. HIDE DEF l, n
    <3>1. Rest(l, n) \in Seq(Int)
      BY <2>2, <2>3, RestAppend, 0 \in Int
    <3>. QED BY <3>1, ConcatEmptySeq
  <2>. QED BY <2>3, <2>4, <2>5
<1>. QED BY <1>1, PairInit, AStep, BStep, TidyInit, TidyAStep, TidyBStep, WiresInit, WiresStep,
     InboundInit, InboundStep, DialInit, DialStep, OutboundInit, OutboundStep, PTL DEF Spec

-----------------------------------------------------------------------------
(* What was noted when the newest socket opened.                           *)

MarkInv ==
    /\ mark \in [data : Nat, dropped : Nat, reads : BOOLEAN]
    /\ mark.dropped <= q.dropped
    /\ mark.reads => dial # "client"

(* What a put() does to the count, and keeps of a queue it drops nothing of. *)
LEMMA PutHas ==
    ASSUME NEW r, QueueForm(r), NEW f \in Nat
    PROVE  LET p == Put(r, Off, f, "drop_old")
           IN  /\ Has(p.frames, f) /\ p.dropped \in Nat /\ p.dropped >= r.dropped
               /\ p.dropped = r.dropped => \A e \in Int : Has(r.frames, e) => Has(p.frames, e)
<1> DEFINE p == Put(r, Off, f, "drop_old")
           s == r.frames
<1>1. PICK n \in 0..Len(s) : p.frames = Append(Rest(s, n), f) /\ p.dropped = r.dropped + n
  <2>1. Limit > 0
    BY GatewayAssumption
  <2>. QED BY <2>1, PutForm
<1>2. s \in Seq(Int) /\ r.dropped \in Nat /\ f \in Int /\ Len(s) \in Nat
  BY NatSeqInt, LenProperties DEF QueueForm
<1>. HIDE DEF p, s
<1>3. Rest(s, n) \in Seq(Int)
  BY <1>2, RestAppend
<1>4. Has(p.frames, f)
  BY <1>1, <1>2, <1>3, HasAppend
<1>5. ASSUME p.dropped = r.dropped, NEW e \in Int, Has(s, e) PROVE Has(p.frames, e)
  <2>1. n = 0
    BY <1>1, <1>2, <1>5
  <2>2. Rest(s, 0) = s
    BY <1>2, SubSeqFull DEF Rest
  <2>3. p.frames = Append(s, f)
    BY <1>1, <2>1, <2>2
  <2>. QED BY <1>2, <1>5, <2>3, HasAppend
<1>6. p.dropped \in Nat /\ p.dropped >= r.dropped
  BY <1>1, <1>2
<1>. QED BY <1>4, <1>5, <1>6 DEF p, s

LEMMA MarkStep == MarkInv /\ Wires /\ AInv /\ [Next]_vars => MarkInv'
<1> SUFFICES ASSUME MarkInv, Wires, AInv, [Next]_vars PROVE MarkInv'
  OBVIOUS
<1>0. QueueForm(q) /\ q.dropped \in Nat /\ mark.dropped \in Nat /\ HelloAck \in Nat
  BY DEF Wires, QueueForm, MarkInv, HelloAck
<1>1. CASE Opens
  <2>1. Len(Data(logA)) \in Nat
    BY DataInt, LenProperties DEF AInv
  <2>2. mark' = Mark /\ UNCHANGED <<q, dial>>
    BY <1>1 DEF Opens
  <2>. QED BY <1>0, <2>1, <2>2 DEF Mark, MarkInv
<1>2. ASSUME UNCHANGED <<mark, dial>>, q'.dropped \in Nat, q'.dropped >= q.dropped PROVE MarkInv'
  BY <1>0, <1>2 DEF MarkInv
<1>3. CASE Dialling
  <2>1. UNCHANGED <<mark, q>> /\ (dial' = dial \/ dial' # "client")
    BY <1>3 DEF Dialling, SubscribesData, SubscribesState, ReplayChecks, Lists, EmitsA
  <2>. QED BY <2>1 DEF MarkInv
<1>4. CASE SendsFrame
  <2>1. UNCHANGED <<mark, dial>> /\ (q' = q \/ q' = Put(q, Off, sending, "drop_old")) /\ sending \in Nat
    BY <1>4 DEF SendsFrame, Wires
  <2>. QED BY <1>0, <1>2, <2>1, PutHas
<1>5. CASE ReceivesHello
  <2>1. UNCHANGED <<mark, dial>> /\ q' = Put(q, Off, HelloAck, "drop_old")
    BY <1>5 DEF ReceivesHello, Receives
  <2>. QED BY <1>0, <1>2, <2>1, PutHas
<1>6. CASE Writes
  <2>1. UNCHANGED <<mark, dial>> /\ (q' = q \/ (q' = Take(q) /\ q.frames # <<>>))
    BY <1>6 DEF Writes, CanTake
  <2>2. q'.dropped = q.dropped
    BY <1>0, <2>1, TakeForm
  <2>. QED BY <1>0, <1>2, <2>1, <2>2
<1>7. CASE \/ Ignores \/ ReceivesAck \/ ReceivesData \/ Drops \/ EndsClient \/ EmitsA("loop")
           \/ Fails \/ TestsReady \/ DisconnectsA
  <2>1. UNCHANGED <<mark, dial, q>>
    BY <1>7 DEF Ignores, ReceivesAck, ReceivesData, Receives, Drops, EndsClient, EmitsA, Fails,
       TestsReady, DisconnectsA
  <2>. QED BY <2>1 DEF MarkInv
<1>8. CASE ServerB \/ (\E s \in Sockets : SendsTo(s) \/ DisconnectsB(s)) \/ PeerRestarts
           \/ (\E s \in Sockets : NetDrops(s)) \/ UNCHANGED vars
  <2>1. UNCHANGED aVars
    BY <1>8 DEF ServerB, Accepts, Fetches, Closes, Loses, EmitsB, HandlesHello, HandlesAck,
       HandlesData, Handles, SendsTo, DisconnectsB, PeerRestarts, NetDrops, vars
  <2>. QED BY <2>1 DEF aVars, MarkInv
<1>. QED BY <1>1, <1>3, <1>4, <1>5, <1>6, <1>7, <1>8 DEF Next, LoopA, Programs

LEMMA MarkInit == Init => MarkInv
BY DEF Init, MarkInv, EmptyQueue

(* A closed connection of the dialling node stays so.                      *)
LEMMA StaysClosed ==
    ASSUME AInv, [Next]_vars, a.state = "CLOSED"
    PROVE  a'.state = "CLOSED"
<1>0. a \in Conn
  BY DEF AInv
<1>1. CASE Dialling
  <2>1. \/ a' = a \/ a' = Checked(a) \/ a' = SocketUp(a) \/ a' = [a EXCEPT !.listed = TRUE]
        \/ a' = Finished(a)
    BY <1>1 DEF Dialling, SubscribesData, SubscribesState, ReplayChecks, Lists, EmitsA, ClosesA
  <2>2. [a EXCEPT !.listed = TRUE].state = "CLOSED"
    BY <1>0 DEF Conn
  <2>3. Checked(a) = a /\ SocketUp(a) = a
    BY DEF Checked, SocketUp, Complete
  <2>4. Finished(a).state = "CLOSED"
    BY <1>0, FinishedProps
  <2>. QED BY <2>1, <2>2, <2>3, <2>4
<1>2. CASE ReceivesHello \/ ReceivesAck
  BY <1>2 DEF ReceivesHello, ReceivesAck, Reads
<1>3. CASE Opens
  BY <1>3 DEF Opens, Subscribed
<1>4. CASE ReceivesData
  BY <1>4 DEF ReceivesData, Reads
<1>5. CASE Writes \/ Ignores \/ EndsClient \/ EmitsA("loop") \/ Drops \/ Fails
  BY <1>5 DEF Writes, Ignores, EndsClient, EmitsA, Drops, Subscribed, Fails, ClosesA
<1>6. CASE Programs
  BY <1>6 DEF Programs, TestsReady, SendsFrame, SendsTo, DisconnectsB, DisconnectsA, ClosesA, aVars
<1>7. CASE ServerB
  BY <1>7 DEF ServerB, Accepts, Fetches, Closes, Loses, EmitsB, HandlesHello, HandlesAck,
     HandlesData, Handles, aVars
<1>8. CASE PeerRestarts \/ (\E s \in Sockets : NetDrops(s)) \/ UNCHANGED vars
  BY <1>8 DEF PeerRestarts, NetDrops, vars, aVars
<1>. QED BY <1>1, <1>2, <1>3, <1>4, <1>5, <1>6, <1>7, <1>8 DEF Next, LoopA

-----------------------------------------------------------------------------
(* The handshake at the dialling node, whenever connect() subscribed.      *)

ReadsUp == client = "up" /\ mark.reads /\ a.state # "CLOSED"

(* What the listening node answers a HELLO with has arrived or is to come. *)
AnsweredOn(s) ==
    b[s].hello /\ net[s] = "open" =>
        (a.hello \/ Has(ba[s], Hello)) /\ (a.ack \/ Has(ba[s], HelloAck))

Answered == ReadsUp => AnsweredOn(cur)

(* Once connect() has subscribed to the states, the handshake is complete  *)
(* with its second frame, or with the check that follows the replay.       *)
Settled ==
    client = "up" /\ dial \notin {"client", "data"} /\ a.state # "CLOSED" =>
        /\ a.state \in {"HANDSHAKING", "READY"}
        /\ dial # "checking" /\ a.hello /\ a.ack => a.state = "READY"

LEMMA SettledStep == Settled /\ AInv /\ DialInv /\ [Next]_vars => Settled'
<1> SUFFICES ASSUME Settled, AInv, DialInv, [Next]_vars PROVE Settled'
  OBVIOUS
<1>0. a \in Conn /\ a.direction = "outbound"
  BY DEF AInv
<1>1. ASSUME UNCHANGED <<a, client, dial>> PROVE Settled'
  BY <1>1 DEF Settled
<1>2. ASSUME client' # "up" \/ a'.state = "CLOSED" PROVE Settled'
  BY <1>2 DEF Settled
<1>3. ASSUME NEW c \in Conn, a' = Checked(c), c.state \in {"HANDSHAKING", "READY"}
      PROVE  Settled'
  <2>1. /\ a'.state = (IF Complete(c) THEN "READY" ELSE c.state)
        /\ a'.hello = c.hello /\ a'.ack = c.ack
    BY <1>3, DialHandlers DEF Checked, Conn
  <2>. QED BY <1>3, <2>1 DEF Settled, Complete
<1>4. CASE Dialling
  <2>1. CASE SubscribesData
    BY <2>1 DEF SubscribesData, Settled
  <2>2. CASE SubscribesState
    <3>1. CASE client = "up"
      <4>1. a' = SocketUp(a) /\ dial' = "checking"
        BY <2>2, <3>1 DEF SubscribesState
      <4>. QED BY <1>0, <4>1, DialHandlers DEF Settled
    <3>. QED BY <1>2, <2>2, <3>1 DEF SubscribesState
  <2>3. CASE ReplayChecks
    <3>1. a' = Checked(a) /\ client' = client /\ dial = "checking"
      BY <2>3 DEF ReplayChecks
    <3>2. CASE a.state = "CLOSED"
      BY <1>0, <1>2, <3>1, <3>2, DialHandlers DEF Complete
    <3>3. CASE client # "up"
      BY <1>2, <3>1, <3>3
    <3>. QED BY <1>0, <1>3, <3>1, <3>2, <3>3 DEF Settled
  <2>4. CASE Lists
    <3>1. /\ a' = [a EXCEPT !.listed = TRUE] /\ client' = client
          /\ dial = "wired" /\ dial' = "listed"
      BY <2>4 DEF Lists
    <3>2. a'.state = a.state /\ a'.hello = a.hello /\ a'.ack = a.ack
      BY <1>0, <3>1 DEF Conn
    <3>. QED BY <3>1, <3>2 DEF Settled
  <2>. QED BY <1>1, <1>4, <2>1, <2>2, <2>3, <2>4 DEF Dialling, EmitsA
<1>5. CASE Opens
  <2>1. dial' = dial
    BY <1>5 DEF Opens
  <2>2. CASE Subscribed
    <3>1. a' = Checked(SocketUp(a)) /\ a.state # "CLOSED"
      BY <1>5, <2>2 DEF Opens, Subscribed
    <3>2. SocketUp(a) \in Conn /\ SocketUp(a).state \in {"HANDSHAKING", "READY"}
      BY <1>0, <3>1, SocketSame, DialHandlers DEF Same
    <3>. QED BY <1>3, <3>1, <3>2
  <2>3. CASE ~Subscribed
    <3>1. a' = a
      BY <1>5, <2>3 DEF Opens
    <3>. QED BY <2>1, <2>3, <3>1 DEF Subscribed, Settled
  <2>. QED BY <2>2, <2>3
<1>6. ASSUME NEW c \in Conn, a' = Checked(c), c.state = a.state, UNCHANGED <<client, dial>>,
             dial \in {"client", "data"} \/ a.state # "CLOSED", client = "up"
      PROVE  Settled'
  <2>1. CASE dial \in {"client", "data"}
    BY <1>6, <2>1 DEF Settled
  <2>2. CASE dial \notin {"client", "data"}
    <3>1. a.state \in {"HANDSHAKING", "READY"}
      BY <1>6, <2>2 DEF Settled
    <3>. QED BY <1>3, <1>6, <3>1
  <2>. QED BY <2>1, <2>2
<1>7. CASE ReceivesHello
  <2>1. /\ a' = Checked(Greets(a)) /\ UNCHANGED <<client, dial>> /\ a.state # "CLOSED"
        /\ client = "up"
    BY <1>7 DEF ReceivesHello, Receives, Reads
  <2>2. Greets(a) \in Conn /\ Greets(a).state = a.state
    BY <1>0, GreetsSame, DialHandlers
  <2>. QED BY <1>6, <2>1, <2>2
<1>8. CASE ReceivesAck
  <2>1. /\ a' = Checked([a EXCEPT !.ack = TRUE]) /\ UNCHANGED <<client, dial>>
        /\ a.state # "CLOSED" /\ client = "up"
    BY <1>8 DEF ReceivesAck, Receives, Reads
  <2>2. [a EXCEPT !.ack = TRUE] \in Conn /\ [a EXCEPT !.ack = TRUE].state = a.state
    BY <1>0 DEF Conn
  <2>. QED BY <1>6, <2>1, <2>2
<1>9. CASE ReceivesData
  <2>1. PICK f \in 1..DataB : a' = a \/ a' = Held(a, f) \/ a' = Finished(a)
    BY <1>9 DEF ReceivesData, ClosesA
  <2>2. UNCHANGED <<client, dial>>
    BY <1>9 DEF ReceivesData, Receives
  <2>3. CASE a' = Held(a, f)
    <3>1. a'.state = a.state /\ a'.hello = a.hello /\ a'.ack = a.ack
      BY <1>0, <2>3 DEF Held, Conn
    <3>. QED BY <2>2, <3>1 DEF Settled
  <2>. QED BY <1>0, <1>1, <1>2, <2>1, <2>2, <2>3, DialHandlers
<1>10. CASE Drops \/ EndsClient \/ Fails \/ DisconnectsA
  <2>1. client' # "up" \/ a'.state = "CLOSED"
    BY <1>0, <1>10, DialHandlers DEF Drops, EndsClient, Fails, DisconnectsA, ClosesA
  <2>. QED BY <1>2, <2>1
<1>11. CASE Writes \/ Ignores \/ EmitsA("loop") \/ TestsReady \/ SendsFrame
  BY <1>1, <1>11 DEF Writes, Ignores, Receives, EmitsA, TestsReady, SendsFrame
<1>12. CASE ServerB \/ (\E s \in Sockets : SendsTo(s) \/ DisconnectsB(s)) \/ PeerRestarts
            \/ (\E s \in Sockets : NetDrops(s)) \/ UNCHANGED vars
  <2>1. UNCHANGED aVars
    BY <1>12 DEF ServerB, Accepts, Fetches, Closes, Loses, EmitsB, HandlesHello, HandlesAck,
       HandlesData, Handles, SendsTo, DisconnectsB, PeerRestarts, NetDrops, vars
  <2>. QED BY <1>1, <2>1 DEF aVars
<1>. QED BY <1>4, <1>5, <1>7, <1>8, <1>9, <1>10, <1>11, <1>12 DEF Next, LoopA, Programs

(* A step that takes nothing off the wire that the dialling node has not   *)
(* noted, and after which the listening node has answered no more.         *)
LEMMA AnsweredStays ==
    ASSUME Answered, UNCHANGED <<cur, mark>>, client' = "up" => client = "up",
           a.state = "CLOSED" => a'.state = "CLOSED",
           ReadsUp /\ ReadsUp' =>
               /\ a.hello \/ Has(ba[cur], Hello) => a'.hello \/ Has(ba'[cur], Hello)
               /\ a.ack \/ Has(ba[cur], HelloAck) => a'.ack \/ Has(ba'[cur], HelloAck)
               /\ b'[cur].hello /\ net'[cur] = "open" => b[cur].hello /\ net[cur] = "open"
    PROVE  Answered'
<1> SUFFICES ASSUME ReadsUp' PROVE AnsweredOn(cur)'
  BY DEF Answered
<1>1. ReadsUp
  BY DEF ReadsUp
<1>. QED BY <1>1 DEF Answered, AnsweredOn

LEMMA AnsweredDialler ==
    ASSUME Answered, Wires, AInv, MarkInv, [Next]_vars,
           \/ Dialling \/ LoopA \/ Fails \/ TestsReady \/ SendsFrame \/ DisconnectsA \/ PeerRestarts
    PROVE  Answered'
<1>0. /\ a.state = "CLOSED" => a'.state = "CLOSED"
      /\ a \in Conn /\ a.direction = "outbound" /\ Hello # HelloAck
  BY StaysClosed DEF AInv, Hello, HelloAck
<1>1. CASE Drops \/ EndsClient \/ Fails \/ DisconnectsA
  <2>1. client' # "up" \/ a'.state = "CLOSED"
    BY <1>0, <1>1, DialHandlers DEF Drops, EndsClient, Fails, DisconnectsA, ClosesA
  <2>. QED BY <2>1 DEF Answered, ReadsUp
<1>2. CASE Dialling
  <2>1. UNCHANGED <<cur, mark, client, ba, b, net>>
    BY <1>2 DEF Dialling, SubscribesData, SubscribesState, ReplayChecks, Lists, EmitsA, netVars,
       bVars
  <2>2. \/ a' = a \/ a' = Checked(a) \/ a' = SocketUp(a) \/ a' = [a EXCEPT !.listed = TRUE]
        \/ a' = Finished(a)
    BY <1>2 DEF Dialling, SubscribesData, SubscribesState, ReplayChecks, Lists, EmitsA, ClosesA
  <2>3. a'.hello = a.hello /\ a'.ack = a.ack
    BY <1>0, <2>2 DEF Checked, SocketUp, Finished, Conn
  <2>. QED BY <1>0, <2>1, <2>3, AnsweredStays
<1>3. CASE Writes \/ EmitsA("loop") \/ TestsReady \/ SendsFrame \/ PeerRestarts
  <2>1. UNCHANGED <<a, cur, mark, client, ba, b, net>>
    BY <1>3 DEF Writes, EmitsA, TestsReady, SendsFrame, PeerRestarts, netVars, bVars, aVars
  <2>. QED BY <2>1, AnsweredStays
<1>4. CASE Ignores \/ ReceivesHello \/ ReceivesAck \/ ReceivesData
  <2>1. /\ UNCHANGED <<cur, mark, client, dial, b, net>> /\ ba[cur] # <<>>
        /\ ba' = [ba EXCEPT ![cur] = Tail(@)] /\ client = "up"
    BY <1>4 DEF Ignores, ReceivesHello, ReceivesAck, ReceivesData, Receives, bVars
  <2>2. ReadsUp => ba'[cur] = Tail(ba[cur]) /\ ba[cur] \in Seq(Int)
    BY <2>1 DEF Wires, ReadsUp
  <2>3. ReadsUp => \A e : Has(ba[cur], e) => Head(ba[cur]) = e \/ Has(ba'[cur], e)
    BY <2>1, <2>2, HasTail
  <2>4. CASE Ignores
    <3>1. ~ReadsUp
      BY <2>4 DEF Ignores, Reads, ReadsUp, MarkInv
    <3>. QED BY <1>0, <2>1, <3>1, AnsweredStays
  <2>5. CASE ReceivesHello
    <3>1. a' = Checked(Greets(a)) /\ Head(ba[cur]) = Hello
      BY <2>5 DEF ReceivesHello, Receives
    <3>2. a'.hello /\ a'.ack = a.ack
      <4>1. Greets(a) \in Conn /\ Greets(a).hello /\ Greets(a).ack = a.ack
        <5>1. Greets(a) \in Conn
          BY <1>0, GreetsSame
        <5>2. Greets(a).hello = TRUE /\ Greets(a).ack = a.ack
          BY <1>0 DEF Greets, Restarts, Conn
        <5>. QED BY <5>1, <5>2
      <4> DEFINE d == Greets(a)
      <4>. HIDE DEF d
      <4>2. d \in Conn /\ d.hello /\ d.ack = a.ack /\ a' = Checked(d)
        BY <3>1, <4>1 DEF d
      <4>. QED BY <4>2 DEF Checked, Conn
    <3>. QED BY <1>0, <2>1, <2>3, <3>1, <3>2, AnsweredStays
  <2>6. CASE ReceivesAck
    <3> DEFINE d == [a EXCEPT !.ack = TRUE]
    <3>1. a' = Checked(d) /\ Head(ba[cur]) = HelloAck
      BY <2>6 DEF ReceivesAck, Receives
    <3>2. d \in Conn /\ d.hello = a.hello /\ d.ack
      BY <1>0 DEF Conn
    <3>. HIDE DEF d
    <3>3. a'.hello = a.hello /\ a'.ack
      BY <3>1, <3>2 DEF Checked, Conn
    <3>. QED BY <1>0, <2>1, <2>3, <3>1, <3>3, AnsweredStays
  <2>7. CASE ReceivesData
    <3>1. PICK f \in 1..DataB :
            /\ Head(ba[cur]) = f /\ (a' = a \/ a' = Held(a, f) \/ a' = Finished(a))
      BY <2>7 DEF ReceivesData, Receives, ClosesA
    <3>2. a'.hello = a.hello /\ a'.ack = a.ack
      BY <1>0, <3>1 DEF Held, Finished, Conn
    <3>3. f # Hello /\ f # HelloAck
      BY GatewayAssumption DEF Hello, HelloAck
    <3>. QED BY <1>0, <2>1, <2>3, <3>1, <3>2, <3>3, AnsweredStays
  <2>. QED BY <1>4, <2>4, <2>5, <2>6, <2>7
<1>. QED BY <1>1, <1>2, <1>3, <1>4 DEF LoopA

LEMMA HasThen ==
    \A s \in Seq(Int) : \A x \in Int :
        Has(Append(s, x), x) /\ \A e \in Int : Has(s, e) => Has(Append(s, x), e)
<1> SUFFICES ASSUME NEW s \in Seq(Int), NEW x \in Int
             PROVE  Has(Append(s, x), x) /\ \A e \in Int : Has(s, e) => Has(Append(s, x), e)
  OBVIOUS
<1>1. Has(Append(s, x), x)
  BY HasAppend
<1>2. ASSUME NEW e \in Int, Has(s, e) PROVE Has(Append(s, x), e)
  BY <1>2, HasAppend
<1>. QED BY <1>1, <1>2

(* What the listening node posts arrives behind what is there.             *)
LEMMA HasPosted ==
    ASSUME ba \in [Sockets -> Seq(Int)], cur \in Sockets, NEW x \in Int, ba' = Posted(cur, <<x>>)
    PROVE  \A e \in Int : Has(ba[cur], e) => Has(ba'[cur], e)
<1> DEFINE s == ba[cur]
           t == ba'[cur]
<1>1. s \in Seq(Int) /\ <<x>> \in Seq(Int)
  OBVIOUS
<1>2. t = s \/ t = s \o <<x>>
  BY <1>1, PostedWire
<1>. HIDE DEF s, t
<1>3. s \o <<x>> = Append(s, x)
  BY <1>1, AppendOne
<1>4. \A e \in Int : Has(s, e) => Has(t, e)
  BY <1>1, <1>2, <1>3, HasThen
<1>. QED BY <1>4 DEF s, t

(* A HELLO is answered by both frames, the first one and on a restart.     *)
LEMMA RepliesHello ==
    ASSUME ba \in [Sockets -> Seq(Int)], cur \in Sockets, HandB(cur), LivesOnce(cur),
           net[cur] = "open", ba' = Posted(cur, Replies(b[cur]))
    PROVE  Has(ba'[cur], Hello) /\ Has(ba'[cur], HelloAck)
<1> DEFINE s == ba[cur]
           t == ba'[cur]
           r == Replies(b[cur])
<1>1. s \in Seq(Int) /\ <<Hello>> \in Seq(Int) /\ Hello \in Int /\ HelloAck \in Int
  BY DEF Hello, HelloAck
<1>2. r = <<Hello, HelloAck>>
  BY DEF Replies, Restarts, HandB, LivesOnce
<1>3. r = Append(<<Hello>>, HelloAck)
  BY <1>1, <1>2, AppendTwo
<1>4. r \in Seq(Int)
  BY RepliesTyped
<1>5. t = s \o r
  <2>. HIDE DEF r
  <2>1. ba' = Posted(cur, r)
    BY DEF r
  <2>. QED BY <1>4, <2>1, PostedWire
<1>. HIDE DEF s, t, r
<1>6. t = Append(Append(s, Hello), HelloAck)
  <2>1. s \o Append(<<Hello>>, HelloAck) = Append(s \o <<Hello>>, HelloAck)
    BY <1>1, IntSequences
  <2>2. s \o <<Hello>> = Append(s, Hello)
    BY <1>1, AppendOne
  <2>. QED BY <1>3, <1>5, <2>1, <2>2
<1>7. Append(s, Hello) \in Seq(Int) /\ Has(Append(s, Hello), Hello)
  BY <1>1, HasAppend
<1>8. Has(t, Hello) /\ Has(t, HelloAck)
  BY <1>1, <1>6, <1>7, HasThen
<1>. QED BY <1>8 DEF t

LEMMA AnsweredServer ==
    ASSUME Answered, Wires, BInv, InboundInv, NEW s \in Sockets,
           \/ Accepts(s) \/ Fetches(s) \/ Closes(s) \/ Loses(s) \/ EmitsB(s)
           \/ HandlesHello(s) \/ HandlesAck(s) \/ HandlesData(s) \/ SendsTo(s) \/ DisconnectsB(s)
           \/ NetDrops(s)
    PROVE  Answered'
<1>1. UNCHANGED aVars
  BY DEF Accepts, Fetches, Closes, Loses, EmitsB, HandlesHello, HandlesAck, HandlesData, Handles,
     SendsTo, DisconnectsB, NetDrops
<1>2. UNCHANGED <<a, client, mark, cur>>
  BY <1>1 DEF aVars
<1> SUFFICES ASSUME cur \in Sockets PROVE Answered'
  BY <1>2 DEF Answered, ReadsUp, Wires
<1>3. /\ LivesOnce(cur) /\ HandB(cur) /\ ba \in [Sockets -> Seq(Int)]
      /\ Hello \in Int /\ HelloAck \in Int
  BY DEF BInv, InboundInv, Inbound, Wires, Hello, HelloAck
<1>4. StaysOut \/ HandlesHello(cur) \/ SendsTo(cur)
  BY ServerOut
<1>5. CASE StaysOut
  BY <1>2, <1>5, AnsweredStays DEF StaysOut
<1>6. CASE HandlesHello(cur)
  <2>1. ba' = Posted(cur, Replies(b[cur])) /\ net' = net
    BY <1>6 DEF HandlesHello, Handles
  <2>2. net[cur] = "open" => Has(ba'[cur], Hello) /\ Has(ba'[cur], HelloAck)
    BY <1>3, <2>1, RepliesHello
  <2>. QED BY <1>2, <2>1, <2>2 DEF Answered, AnsweredOn
<1>7. CASE SendsTo(cur)
  <2>1. ba' = Posted(cur, <<nextB>>) /\ UNCHANGED <<net, b>> /\ nextB \in Int
    BY <1>7 DEF SendsTo, Wires
  <2>2. \A e \in Int : Has(ba[cur], e) => Has(ba'[cur], e)
    BY <1>3, <2>1, HasPosted
  <2>. QED BY <1>2, <1>3, <2>1, <2>2, AnsweredStays
<1>. QED BY <1>4, <1>5, <1>6, <1>7

LEMMA AnsweredStep ==
    Answered /\ Wires /\ AInv /\ BInv /\ MarkInv /\ InboundInv /\ [Next]_vars => Answered'
<1> SUFFICES ASSUME Answered, Wires, AInv, BInv, MarkInv, InboundInv, [Next]_vars PROVE Answered'
  OBVIOUS
<1>1. CASE \/ Dialling \/ LoopA \/ Fails \/ TestsReady \/ SendsFrame \/ DisconnectsA \/ PeerRestarts
  BY <1>1, AnsweredDialler
<1>2. CASE ServerB \/ (\E s \in Sockets : SendsTo(s) \/ DisconnectsB(s) \/ NetDrops(s))
  BY <1>2, AnsweredServer DEF ServerB
<1>3. CASE Opens
  <2>1. cur' = cur + 1 /\ b' = b /\ cur + 1 \in Sockets /\ cur + 1 > cur
    BY <1>3, GatewayAssumption DEF Opens, bVars, Wires
  <2>2. b[cur + 1] = Absent
    BY <2>1 DEF InboundInv, Inbound, Fresh
  <2>. QED BY <2>1, <2>2 DEF Answered, AnsweredOn, Absent, NewConnection
<1>4. CASE UNCHANGED vars
  BY <1>4 DEF vars, aVars, netVars, bVars, Answered, AnsweredOn, ReadsUp
<1>. QED BY <1>1, <1>2, <1>3, <1>4 DEF Next, Programs

LEMMA AnsweredInit == Init => Answered /\ Settled
BY DEF Init, Answered, ReadsUp, Settled

-----------------------------------------------------------------------------
(* The handshake of a socket that is open at both ends.                    *)

Coming(s, e) == Has(ab[s], e) \/ (fetched.socket = s /\ fetched.frame = e)

(* The greeting has arrived or is to come, and so has the answer to the    *)
(* listening node's HELLO, unless the queue dropped a frame since.         *)
AskedOn(s) ==
    /\ greeted => b[s].hello \/ Coming(s, Hello)
    /\ q.dropped = mark.dropped /\ b[s].hello /\ ~b[s].ack =>
          Has(ba[s], Hello) \/ Has(q.frames, HelloAck) \/ Coming(s, HelloAck)

Open == ReadsUp /\ net[cur] = "open" /\ Lasts(cur)

Asked == Open => AskedOn(cur)

(* A step of the dialling node, or of the peer that greets again.          *)
LEMMA AskedA ==
    ASSUME Asked, UNCHANGED <<cur, b, fetched, net, mark>>,
           client' = "up" => client = "up", a.state = "CLOSED" => a'.state = "CLOSED",
           Open => /\ greeted' => greeted \/ Has(ab'[cur], Hello)
                   /\ Has(ab[cur], Hello) => Has(ab'[cur], Hello)
                   /\ Has(ab[cur], HelloAck) => Has(ab'[cur], HelloAck),
           Open /\ q'.dropped = mark.dropped =>
               /\ q.dropped = mark.dropped
               /\ Has(ba[cur], Hello) \/ Has(q.frames, HelloAck) =>
                    Has(ba'[cur], Hello) \/ Has(q'.frames, HelloAck) \/ Has(ab'[cur], HelloAck)
    PROVE  Asked'
<1> SUFFICES ASSUME Open' PROVE AskedOn(cur)'
  BY DEF Asked
<1>1. Open
  BY DEF Open, ReadsUp, Lasts
<1>2. AskedOn(cur)
  BY <1>1 DEF Asked
<1>3. /\ Coming(cur, Hello) => Coming(cur, Hello)'
      /\ Coming(cur, HelloAck) => Coming(cur, HelloAck)'
      /\ Has(ab'[cur], Hello) => Coming(cur, Hello)'
      /\ Has(ab'[cur], HelloAck) => Coming(cur, HelloAck)'
  BY <1>1 DEF Coming
<1>. QED BY <1>1, <1>2, <1>3 DEF AskedOn

LEMMA HasWritten ==
    ASSUME Wires, Open, NEW f \in Int, ab' = Written(cur, f)
    PROVE  Has(ab'[cur], f) /\ \A e \in Int : Has(ab[cur], e) => Has(ab'[cur], e)
<1> DEFINE s == ab[cur]
           t == ab'[cur]
<1>1. s \in Seq(Int) /\ t = Append(s, f)
  BY WrittenWire DEF Wires, Open, ReadsUp, Lasts
<1>. HIDE DEF s, t
<1>2. Has(t, f) /\ \A e \in Int : Has(s, e) => Has(t, e)
  BY <1>1, HasThen
<1>. QED BY <1>2 DEF s, t

LEMMA AskedDialler ==
    ASSUME Asked, Wires, AInv, MarkInv, [Next]_vars,
           \/ Dialling \/ LoopA \/ Fails \/ TestsReady \/ SendsFrame \/ DisconnectsA \/ PeerRestarts
    PROVE  Asked'
<1>0. /\ a.state = "CLOSED" => a'.state = "CLOSED"
      /\ Open => cur \in Sockets /\ ab[cur] \in Seq(Int) /\ ba[cur] \in Seq(Int)
      /\ QueueForm(q) /\ q.frames \in Seq(Int) /\ Hello \in Int /\ HelloAck \in Int /\ HelloAck \in Nat
      /\ Hello # HelloAck
      /\ q.dropped \in Nat /\ mark.dropped \in Nat /\ mark.dropped <= q.dropped
  BY StaysClosed, NatSeqInt DEF MarkInv, Wires, Open, ReadsUp, QueueForm, Hello, HelloAck
<1>1. CASE Dialling \/ Fails \/ TestsReady \/ DisconnectsA \/ EmitsA("loop")
  <2>1. UNCHANGED <<cur, b, fetched, net, mark, greeted, ab, ba, q>> /\ (client' = "up" => client = "up")
    BY <1>1 DEF Dialling, SubscribesData, SubscribesState, ReplayChecks, Lists, EmitsA, Fails,
       TestsReady, DisconnectsA, netVars, bVars
  <2>. QED BY <1>0, <2>1, AskedA
<1>2. CASE SendsFrame
  <2>1. UNCHANGED <<cur, b, fetched, net, mark, client, greeted, ab, ba>>
    BY <1>2 DEF SendsFrame, netVars, bVars
  <2>2. q' = q \/ q' = Put(q, Off, sending, "drop_old")
    BY <1>2 DEF SendsFrame
  <2>3. q'.dropped = mark.dropped => q.dropped = mark.dropped /\ (Has(q.frames, HelloAck) => Has(q'.frames, HelloAck))
    <3>1. sending \in Nat
      BY DEF Wires
    <3>2. q'.dropped = q.dropped => (Has(q.frames, HelloAck) => Has(q'.frames, HelloAck))
      BY <1>0, <2>2, <3>1, PutHas
    <3>3. q'.dropped \in Nat /\ q'.dropped >= q.dropped
      BY <1>0, <2>2, <3>1, PutHas DEF QueueForm
    <3>. QED BY <1>0, <3>2, <3>3
  <2>. QED BY <1>0, <2>1, <2>3, AskedA
<1>3. CASE Drops \/ EndsClient
  BY <1>3 DEF Drops, EndsClient, Asked, Open, ReadsUp
<1>4. CASE PeerRestarts
  <2>1. UNCHANGED <<cur, b, fetched, net, mark, client, greeted, ba, q>> /\ ab' = Written(cur, Hello)
    BY <1>4 DEF PeerRestarts, aVars, bVars
  <2>2. Open => \A e \in Int : Has(ab[cur], e) => Has(ab'[cur], e)
    BY <1>0, <2>1, HasWritten
  <2>. QED BY <1>0, <2>1, <2>2, AskedA
<1>5. CASE Writes
  <2>1. UNCHANGED <<cur, b, fetched, net, mark, client, ba>>
    BY <1>5 DEF Writes, bVars
  <2>2. CASE ~greeted /\ ab' = Written(cur, Hello) /\ UNCHANGED q
    <3>1. Open => Has(ab'[cur], Hello) /\ \A e \in Int : Has(ab[cur], e) => Has(ab'[cur], e)
      BY <1>0, <2>2, HasWritten
    <3>. QED BY <1>0, <2>1, <2>2, <3>1, AskedA
  <2>3. CASE /\ greeted /\ CanTake(q) /\ ab' = Written(cur, Head(q.frames)) /\ q' = Take(q)
    <3> DEFINE f == Head(q.frames)
    <3>1. /\ f \in Int /\ q'.frames = Tail(q.frames) /\ q'.dropped = q.dropped /\ q.frames # <<>>
      BY <1>0, <2>3, TakeForm DEF CanTake
    <3>2. Has(q.frames, HelloAck) => f = HelloAck \/ Has(q'.frames, HelloAck)
      BY <1>0, <3>1, HasTail
    <3>3. ab' = Written(cur, f)
      BY <2>3
    <3>. HIDE DEF f
    <3>4. Open => Has(ab'[cur], f) /\ \A e \in Int : Has(ab[cur], e) => Has(ab'[cur], e)
      BY <3>1, <3>3, HasWritten
    <3>. QED BY <1>0, <2>1, <2>3, <3>1, <3>2, <3>4, AskedA
  <2>. QED BY <1>5, <2>2, <2>3 DEF Writes, MayGreet
<1>6. CASE Ignores \/ ReceivesHello \/ ReceivesAck \/ ReceivesData
  <2>1. /\ UNCHANGED <<cur, b, fetched, net, mark, client, greeted, ab, dial>>
        /\ ba[cur] # <<>> /\ ba' = [ba EXCEPT ![cur] = Tail(@)]
    BY <1>6 DEF Ignores, ReceivesHello, ReceivesAck, ReceivesData, Receives, bVars
  <2>2. Open => ba'[cur] = Tail(ba[cur])
    BY <1>0, <2>1 DEF Wires
  <2>3. CASE ReceivesHello
    <3>1. q' = Put(q, Off, HelloAck, "drop_old")
      BY <2>3 DEF ReceivesHello
    <3>2. Has(q'.frames, HelloAck) /\ q'.dropped \in Nat /\ q'.dropped >= q.dropped
      BY <1>0, <3>1, PutHas
    <3>3. q'.dropped = mark.dropped => q.dropped = mark.dropped
      BY <1>0, <3>2
    <3>. QED BY <1>0, <2>1, <3>2, <3>3, AskedA
  <2>4. CASE Ignores /\ Open
    BY <2>4 DEF Ignores, Reads, MarkInv, Open, ReadsUp
  <2>5. CASE ~Open \/ ReceivesAck \/ ReceivesData
    <3>1. Open => q' = q
      BY <1>6, <2>4, <2>5 DEF ReceivesAck, ReceivesData
    <3>2. Open => Head(ba[cur]) # Hello
      <4>1. ASSUME ReceivesData PROVE Head(ba[cur]) # Hello
        <5>1. PICK f \in 1..DataB : f = Head(ba[cur])
          BY <4>1 DEF ReceivesData, Receives
        <5>. QED BY <5>1, GatewayAssumption DEF Hello
      <4>. QED BY <1>0, <2>5, <4>1 DEF ReceivesAck, Receives
    <3>3. Open => (Has(ba[cur], Hello) => Has(ba'[cur], Hello))
      BY <1>0, <2>1, <2>2, <3>2, HasTail
    <3>. QED BY <1>0, <2>1, <3>1, <3>3, AskedA
  <2>. QED BY <1>6, <2>3, <2>4, <2>5
<1>. QED BY <1>1, <1>2, <1>3, <1>4, <1>5, <1>6 DEF LoopA

(* A step of the listening node, of its program or of the network.         *)
LEMMA AskedB ==
    ASSUME Asked, UNCHANGED aVars,
           Open' => /\ Open
                    /\ b[cur].hello => b'[cur].hello
                    /\ Coming(cur, Hello) => b'[cur].hello \/ Coming(cur, Hello)',
           Open' /\ b'[cur].hello /\ ~b'[cur].ack =>
               \/ Has(ba'[cur], Hello)
               \/ /\ b[cur].hello /\ ~b[cur].ack
                  /\ Has(ba[cur], Hello) => Has(ba'[cur], Hello)
                  /\ Coming(cur, HelloAck) => Coming(cur, HelloAck)'
    PROVE  Asked'
<1> SUFFICES ASSUME Open' PROVE AskedOn(cur)'
  BY DEF Asked
<1>1. AskedOn(cur) /\ cur' = cur /\ greeted' = greeted /\ q' = q /\ mark' = mark
  BY DEF Asked, aVars
<1>. QED BY <1>1 DEF AskedOn

(* A step at another socket.                                               *)
LEMMA AskedElsewhere ==
    ASSUME Asked, UNCHANGED aVars, b'[cur] = b[cur], ab'[cur] = ab[cur], ba'[cur] = ba[cur],
           net'[cur] = "open" => net[cur] = "open",
           fetched' = fetched \/ fetched.socket # cur
    PROVE  Asked'
<1>1. Open' => Open
  BY DEF aVars, Open, ReadsUp, Lasts
<1>2. \A e : Coming(cur, e) => Has(ab'[cur], e) \/ (fetched'.socket = cur /\ fetched'.frame = e)
  BY DEF Coming
<1>3. /\ Coming(cur, Hello) => Coming(cur, Hello)'
      /\ Coming(cur, HelloAck) => Coming(cur, HelloAck)'
  BY <1>2 DEF Coming, aVars
<1>. QED BY <1>1, <1>3, AskedB

(* A step that ends the connection of the current socket, or shuts it.     *)
LEMMA AskedEnds ==
    ASSUME Asked, UNCHANGED aVars, net'[cur] # "open" \/ ~Lasts(cur)'
    PROVE  Asked'
BY DEF Asked, Open, aVars, Lasts

LEMMA AskedServer ==
    ASSUME Asked, Wires, BInv, InboundInv, NEW s \in Sockets,
           \/ Accepts(s) \/ Fetches(s) \/ Closes(s) \/ Loses(s) \/ EmitsB(s)
           \/ HandlesHello(s) \/ HandlesAck(s) \/ HandlesData(s) \/ SendsTo(s) \/ DisconnectsB(s)
           \/ NetDrops(s)
    PROVE  Asked'
<1>1. UNCHANGED aVars
  BY DEF Accepts, Fetches, Closes, Loses, EmitsB, HandlesHello, HandlesAck, HandlesData, Handles,
     SendsTo, DisconnectsB, NetDrops
<1> SUFFICES ASSUME cur \in Sockets PROVE Asked'
  BY <1>1 DEF Asked, Open, ReadsUp, Wires, aVars
<1>2. /\ b \in [Sockets -> Conn] /\ HandB(cur) /\ LivesOnce(cur) /\ net \in [Sockets -> NetStates]
      /\ ab \in [Sockets -> Seq(Int)] /\ ba \in [Sockets -> Seq(Int)] /\ cur # 0
      /\ Hello \in Int /\ HelloAck \in Int /\ Hello # HelloAck
  BY SocketNat DEF BInv, BTypes, InboundInv, Inbound, Wires, Hello, HelloAck
<1>3. ASSUME EndsB(cur) PROVE Asked'
  <2>1. b' = [b EXCEPT ![cur] = Finished(b[cur])] /\ b[cur] \in Conn
    BY <1>2, <1>3 DEF EndsB
  <2>2. b'[cur].state = "CLOSED" /\ ~b'[cur].listed
    BY <1>2, <2>1, FinishedProps
  <2>. QED BY <1>1, <2>2, AskedEnds DEF Lasts, aVars
<1>4. CASE Closes(s) \/ NetDrops(s)
  <2>1. UNCHANGED <<b, ab, ba, fetched>> /\ net' = Shut(s)
    BY <1>4 DEF Closes, NetDrops, bVars
  <2>. QED BY <1>1, <1>2, <2>1, ShutNet, AskedElsewhere
<1>5. CASE EmitsB(s)
  BY <1>1, <1>5, AskedElsewhere DEF EmitsB, netVars
<1>6. CASE s # cur /\ (Accepts(s) \/ Fetches(s) \/ Loses(s) \/ HandlesAck(s) \/ HandlesData(s)
                       \/ DisconnectsB(s))
  <2>1. UNCHANGED <<ba, net>>
    BY <1>6 DEF Accepts, Fetches, Loses, HandlesAck, HandlesData, Handles, DisconnectsB, netVars
  <2>2. b'[cur] = b[cur] /\ ab'[cur] = ab[cur]
    <3>1. CASE Accepts(s) \/ Fetches(s) \/ HandlesAck(s)
      BY <1>2, <1>6, <3>1 DEF Accepts, Fetches, HandlesAck, Settles, netVars
    <3>2. CASE EndsB(s)
      BY <1>2, <1>6, <3>2 DEF EndsB
    <3>3. CASE HandlesData(s)
      BY <1>2, <1>6, <3>2, <3>3 DEF HandlesData
    <3>. QED BY <1>6, <3>1, <3>2, <3>3 DEF Loses, DisconnectsB
  <2>3. fetched' = fetched \/ fetched.socket # cur
    BY <1>2, <1>6 DEF Accepts, Fetches, Loses, HandlesAck, HandlesData, Handles, DisconnectsB,
       ServerFree, Idle
  <2>. QED BY <1>1, <2>1, <2>2, <2>3, AskedElsewhere
<1>7. CASE s # cur /\ (HandlesHello(s) \/ SendsTo(s))
  <2>1. ba'[cur] = ba[cur]
    <3>1. CASE HandlesHello(s)
      BY <1>2, <1>7, <3>1, RepliesTyped, PostedWire DEF HandlesHello
    <3>2. CASE SendsTo(s)
      <4>1. <<nextB>> \in Seq(Int)
        <5>1. nextB \in Int
          BY DEF Wires
        <5>. QED BY <5>1
      <4>. QED BY <1>2, <1>7, <3>2, <4>1, PostedWire DEF SendsTo
    <3>. QED BY <1>7, <3>1, <3>2
  <2>2. b'[cur] = b[cur] /\ ab'[cur] = ab[cur] /\ net' = net
    BY <1>2, <1>7 DEF HandlesHello, Handles, Settles, SendsTo
  <2>3. fetched' = fetched \/ fetched.socket # cur
    BY <1>7 DEF HandlesHello, Handles, SendsTo
  <2>. QED BY <1>1, <2>1, <2>2, <2>3, AskedElsewhere
<1>8. CASE Accepts(cur)
  <2>1. /\ UNCHANGED <<net, ab, ba, fetched>> /\ b[cur].state = "none"
        /\ b' = [b EXCEPT ![cur] = [NewConnection("inbound", "HANDSHAKING") EXCEPT !.listed = TRUE]]
    BY <1>8 DEF Accepts, netVars
  <2>2. ~b'[cur].hello
    BY <1>2, <2>1 DEF NewConnection
  <2>3. ~b[cur].hello
    BY <1>2, <2>1 DEF InboundInv, Inbound, Fresh, Absent, NewConnection
  <2>4. Open' => Open
    BY <1>1, <2>1 DEF aVars, Open, ReadsUp, Lasts
  <2>5. Coming(cur, Hello) => Coming(cur, Hello)'
    BY <1>1, <2>1 DEF Coming, aVars
  <2>. QED BY <1>1, <2>2, <2>3, <2>4, <2>5, AskedB
<1>9. CASE Fetches(cur)
  <2>1. /\ UNCHANGED <<b, net, ba>> /\ fetched.socket # cur /\ ab[cur] # <<>>
        /\ ab' = [ab EXCEPT ![cur] = Tail(@)]
        /\ fetched' = [socket |-> cur, frame |-> Head(ab[cur])]
    BY <1>2, <1>9 DEF Fetches, ServerFree, Idle
  <2>2. ab'[cur] = Tail(ab[cur])
    BY <1>2, <2>1
  <2>3. Open' => Open
    BY <1>1, <2>1 DEF aVars, Open, ReadsUp, Lasts
  <2>4. ASSUME NEW e, Coming(cur, e)
        PROVE  Has(ab'[cur], e) \/ (fetched'.socket = cur /\ fetched'.frame = e)
    <3>1. Has(ab[cur], e)
      BY <2>1, <2>4 DEF Coming
    <3>2. Head(ab[cur]) = e \/ Has(Tail(ab[cur]), e)
      BY <1>2, <2>1, <3>1, HasTail
    <3>. QED BY <2>1, <2>2, <3>2
  <2>5. /\ Coming(cur, Hello) => Coming(cur, Hello)'
        /\ Coming(cur, HelloAck) => Coming(cur, HelloAck)'
    BY <1>1, <2>4 DEF Coming, aVars
  <2>. QED BY <1>1, <2>1, <2>3, <2>5, AskedB
<1>10. CASE Loses(cur) \/ DisconnectsB(cur)
  BY <1>3, <1>10 DEF Loses, DisconnectsB
<1>11. CASE HandlesHello(cur)
  <2>1. /\ b' = [b EXCEPT ![cur] = Checked(Greets(b[cur]))] /\ net' = net
        /\ ba' = Posted(cur, Replies(b[cur]))
    BY <1>11 DEF HandlesHello, Handles, Settles
  <2>2. b'[cur].hello
    <3>1. Greets(b[cur]) \in Conn
      BY <1>2, GreetsSame
    <3>2. Greets(b[cur]).hello
      BY <1>2 DEF Greets, Conn
    <3>3. Checked(Greets(b[cur])).hello
      <4> DEFINE d == Greets(b[cur])
      <4>1. d \in Conn /\ d.hello
        BY <3>1, <3>2
      <4>. HIDE DEF d
      <4>2. Checked(d).hello
        BY <4>1 DEF Checked, Conn
      <4>. QED BY <4>2 DEF d
    <3>. QED BY <1>2, <2>1, <3>3
  <2>3. Open' => Open
    <3>1. b'[cur].listed = b[cur].listed /\ (b'[cur].state = "none" => b[cur].state = "none")
      <4> DEFINE d == Greets(b[cur])
      <4>1. d \in Conn /\ d.listed = b[cur].listed
        BY <1>2, GreetsSame
      <4>2. b'[cur] = Checked(d)
        BY <1>2, <2>1
      <4>3. d.state = "none" => b[cur].state = "none"
        BY <1>2 DEF Greets, Conn
      <4>. HIDE DEF d
      <4>4. Checked(d).listed = d.listed
        BY <4>1, CheckedSame
      <4>5. Checked(d).state = "none" => d.state = "none"
        BY <4>1 DEF Checked, Conn
      <4>. QED BY <4>1, <4>2, <4>3, <4>4, <4>5
    <3>. QED BY <1>1, <2>1, <3>1 DEF aVars, Open, ReadsUp, Lasts
  <2>4. net[cur] = "open" => Has(ba'[cur], Hello)
    BY <1>2, <2>1, RepliesHello
  <2>5. Open => net[cur] = "open"
    BY DEF Open
  <2>. QED BY <1>1, <2>2, <2>3, <2>4, <2>5, AskedB
<1>12. CASE HandlesAck(cur)
  <2> DEFINE d == [b[cur] EXCEPT !.ack = TRUE]
  <2>1. /\ b' = [b EXCEPT ![cur] = Checked(d)] /\ UNCHANGED <<net, ab, ba>>
        /\ fetched.socket = cur /\ fetched.frame = HelloAck
    BY <1>12 DEF HandlesAck, Handles, Settles
  <2>2. d \in Conn /\ d.ack /\ d.hello = b[cur].hello /\ d.listed = b[cur].listed /\ d.state = b[cur].state
    BY <1>2 DEF Conn
  <2>3. b'[cur] = Checked(d)
    BY <1>2, <2>1
  <2>. HIDE DEF d
  <2>4. /\ b'[cur].ack /\ b'[cur].hello = b[cur].hello /\ b'[cur].listed = b[cur].listed
        /\ b'[cur].state = "none" => b[cur].state = "none"
    BY <2>2, <2>3 DEF Checked, Conn
  <2>5. Open' => Open
    BY <1>1, <2>1, <2>4 DEF aVars, Open, ReadsUp, Lasts
  <2>6. Coming(cur, Hello) => Coming(cur, Hello)'
    BY <1>1, <1>2, <2>1 DEF Coming, aVars
  <2>. QED BY <1>1, <2>4, <2>5, <2>6, AskedB
<1>13. CASE HandlesData(cur)
  <2>1. PICK f \in 1..DataA :
          /\ fetched.frame = f /\ net' = net /\ ba' = ba
          /\ EndsB(cur) \/ (ab' = ab /\ (b' = b \/ b' = [b EXCEPT ![cur] = Held(b[cur], f)]))
    BY <1>13 DEF HandlesData, Handles
  <2>2. f # Hello /\ f # HelloAck
    BY GatewayAssumption DEF Hello, HelloAck
  <2>3. CASE ab' = ab /\ (b' = b \/ b' = [b EXCEPT ![cur] = Held(b[cur], f)])
    <3>1. /\ b'[cur].hello = b[cur].hello /\ b'[cur].ack = b[cur].ack
          /\ b'[cur].listed = b[cur].listed /\ b'[cur].state = b[cur].state
      <4>1. b[cur] \in Conn /\ (b'[cur] = b[cur] \/ b'[cur] = Held(b[cur], f))
        BY <1>2, <2>3
      <4>. QED BY <4>1 DEF Held, Conn
    <3>2. Open' => Open
      BY <1>1, <2>1, <3>1 DEF aVars, Open, ReadsUp, Lasts
    <3>3. /\ Coming(cur, Hello) => Coming(cur, Hello)'
          /\ Coming(cur, HelloAck) => Coming(cur, HelloAck)'
      BY <1>1, <2>1, <2>2, <2>3 DEF Coming, aVars
    <3>. QED BY <1>1, <2>1, <3>1, <3>2, <3>3, AskedB
  <2>. QED BY <1>3, <2>1, <2>3
<1>14. CASE SendsTo(cur)
  <2>1. /\ ba' = Posted(cur, <<nextB>>) /\ UNCHANGED <<b, net, ab, fetched>> /\ nextB \in Int
    BY <1>14 DEF SendsTo, Wires
  <2>2. Open' => Open
    BY <1>1, <2>1 DEF aVars, Open, ReadsUp, Lasts
  <2>3. Has(ba[cur], Hello) => Has(ba'[cur], Hello)
    BY <1>2, <2>1, HasPosted
  <2>4. /\ Coming(cur, Hello) => Coming(cur, Hello)'
        /\ Coming(cur, HelloAck) => Coming(cur, HelloAck)'
    BY <1>1, <2>1 DEF Coming, aVars
  <2>. QED BY <1>1, <2>1, <2>2, <2>3, <2>4, AskedB
<1>. QED BY <1>4, <1>5, <1>6, <1>7, <1>8, <1>9, <1>10, <1>11, <1>12, <1>13, <1>14

LEMMA AskedOpens == ASSUME InboundInv, Wires, Opens PROVE Asked'
<1>1. ~greeted' /\ cur' = cur + 1 /\ b' = b /\ cur + 1 \in Sockets /\ cur + 1 > cur
  BY GatewayAssumption DEF Opens, bVars, Wires
<1>2. Fresh(cur + 1)
  BY <1>1 DEF InboundInv, Inbound
<1>3. b[cur + 1] = Absent
  BY <1>1, <1>2 DEF Fresh
<1>4. ~b'[cur'].hello
  BY <1>1, <1>3 DEF Absent, NewConnection
<1>. QED BY <1>1, <1>4 DEF Asked, AskedOn

LEMMA AskedStep ==
    Asked /\ Wires /\ AInv /\ BInv /\ MarkInv /\ InboundInv /\ [Next]_vars => Asked'
<1> SUFFICES ASSUME Asked, Wires, AInv, BInv, MarkInv, InboundInv, [Next]_vars PROVE Asked'
  OBVIOUS
<1>1. CASE \/ Dialling \/ LoopA \/ Fails \/ TestsReady \/ SendsFrame \/ DisconnectsA \/ PeerRestarts
  BY <1>1, AskedDialler
<1>2. CASE ServerB \/ (\E s \in Sockets : SendsTo(s) \/ DisconnectsB(s) \/ NetDrops(s))
  BY <1>2, AskedServer DEF ServerB
<1>3. CASE Opens
  BY <1>3, AskedOpens
<1>4. CASE UNCHANGED vars
  BY <1>4 DEF vars, aVars, netVars, bVars, Asked, AskedOn, Open, ReadsUp, Lasts, Coming
<1>. QED BY <1>1, <1>2, <1>3, <1>4 DEF Next, Programs

LEMMA AskedInit == Init => Asked
BY DEF Init, Asked, Open, ReadsUp

LEMMA QuietAgrees ==
    Wires /\ InboundInv /\ Answered /\ Settled /\ Asked => Agreement
<1> SUFFICES ASSUME Wires, InboundInv, Answered, Settled, Asked,
                    Quiet, a.state # "CLOSED", q.dropped = mark.dropped
             PROVE  a.state = "READY" /\ b[cur].state = "READY"
  BY DEF Agreement
<1>1. /\ ReadsUp /\ Open /\ cur \in Sockets /\ cur # 0 /\ greeted /\ net[cur] = "open"
      /\ b[cur].listed /\ dial \in {"wired", "listed"}
  BY SocketNat DEF Quiet, ReadsUp, Open, Lasts, Wires
<1>2. \A e : ~Has(<<>>, e)
  BY DEF Has
<1>3. /\ \A e : ~Coming(cur, e)
      /\ ~Has(ba[cur], Hello) /\ ~Has(ba[cur], HelloAck) /\ ~Has(q.frames, HelloAck)
  BY <1>1, <1>2 DEF Quiet, ServerFree, Idle, Coming
<1>4. b[cur].hello /\ b[cur].ack
  BY <1>1, <1>3 DEF Asked, AskedOn
<1>5. b[cur].state = "READY"
  BY <1>1, <1>4 DEF InboundInv, Inbound, HandB
<1>6. a.hello /\ a.ack
  BY <1>1, <1>3, <1>4 DEF Answered, AnsweredOn
<1>7. a.state = "READY"
  BY <1>1, <1>6 DEF Settled, ReadsUp
<1>. QED BY <1>5, <1>7

(* Once nothing is under way on an open socket, both nodes agree that the  *)
(* handshake is complete, whichever frames crossed, were repeated or came  *)
(* before connect() had subscribed to the states, unless the client's      *)
(* queue dropped a frame since the socket opened.                          *)
THEOREM NodesAgree == Spec => []Agreement
<1>. QED BY QuietAgrees, PairInit, AStep, BStep, TidyInit, TidyAStep, TidyBStep, WiresInit,
     WiresStep, InboundInit, InboundStep, DialInit, DialStep, MarkInit, MarkStep, AnsweredInit,
     AnsweredStep, SettledStep, AskedInit, AskedStep, PTL DEF Spec

-----------------------------------------------------------------------------
(* Types.                                                                  *)

Frames == Nat \union {Hello}

(* How far the programs and connect() are, and what they may send.         *)
Progress ==
    /\ dial \in DialStates /\ client \in {"down", "up", "ended"}
    /\ greeted \in BOOLEAN /\ timely \in BOOLEAN
    /\ sending \in 0..DataA /\ nextA \in 1..(DataA + 1) /\ nextB \in 1..(DataB + 1)

LEMMA ProgressInit == Init => Progress
<1>1. Init => /\ dial \in DialStates /\ client \in {"down", "up", "ended"} /\ greeted \in BOOLEAN
              /\ timely \in BOOLEAN
  BY DEF Init, DialStates
<1>2. Init => sending \in 0..DataA /\ nextA \in 1..(DataA + 1) /\ nextB \in 1..(DataB + 1)
  BY GatewayAssumption DEF Init
<1>. QED BY <1>1, <1>2 DEF Progress

LEMMA ProgressStep == Progress /\ [Next]_vars => Progress'
<1> SUFFICES ASSUME Progress, [Next]_vars PROVE Progress'
  OBVIOUS
<1>1. CASE Dialling
  <2>1. dial' \in DialStates /\ UNCHANGED <<client, greeted, timely, sending, nextA, nextB>>
    BY <1>1 DEF Progress, Dialling, SubscribesData, SubscribesState, ReplayChecks, Lists, EmitsA, bVars,
       DialStates
  <2>. QED BY <2>1 DEF Progress
<1>2. CASE Opens
  <2>1. client' = "up" /\ greeted' = FALSE /\ timely' \in BOOLEAN /\ UNCHANGED <<dial, sending, nextA, nextB>>
    BY <1>2 DEF Opens, Subscribed, bVars
  <2>. QED BY <2>1 DEF Progress
<1>3. CASE LoopA \/ Fails
  <2>1. /\ greeted' \in BOOLEAN /\ client' \in {"down", "up", "ended"}
        /\ UNCHANGED <<dial, timely, sending, nextA, nextB>>
    BY <1>3 DEF Progress, LoopA, Fails, Writes, Ignores, ReceivesHello, ReceivesAck, ReceivesData, Receives,
       Drops, EndsClient, EmitsA, bVars
  <2>. QED BY <2>1 DEF Progress
<1>4. CASE ServerB
  BY <1>4 DEF Progress, ServerB, Accepts, Fetches, Closes, Loses, EmitsB, HandlesHello, HandlesAck, HandlesData,
     Handles, aVars, bVars
<1>5. CASE Programs
  <2>1. CASE TestsReady
    <3>1. nextA \in 1..DataA /\ sending' = nextA /\ nextA' = nextA + 1
          /\ UNCHANGED <<dial, client, greeted, timely, nextB>>
      BY <2>1, GatewayAssumption DEF TestsReady, Progress, bVars
    <3>2. sending' \in 0..DataA /\ nextA' \in 1..(DataA + 1)
      BY <3>1, GatewayAssumption
    <3>. QED BY <3>1, <3>2 DEF Progress
  <2>2. CASE SendsFrame
    <3>1. sending' = 0 /\ UNCHANGED <<dial, client, greeted, timely, nextA, nextB>>
      BY <2>2 DEF SendsFrame, bVars
    <3>. QED BY <3>1, GatewayAssumption DEF Progress
  <2>3. CASE DisconnectsA \/ \E s \in Sockets : DisconnectsB(s)
    BY <2>3 DEF Progress, DisconnectsA, DisconnectsB, aVars, bVars
  <2>4. CASE \E s \in Sockets : SendsTo(s)
    <3>1. nextB <= DataB /\ nextB' = nextB + 1 /\ UNCHANGED <<dial, client, greeted, timely, sending, nextA>>
      BY <2>4 DEF SendsTo, aVars
    <3>. QED BY <3>1, GatewayAssumption DEF Progress
  <2>. QED BY <1>5, <2>1, <2>2, <2>3, <2>4 DEF Programs
<1>6. CASE PeerRestarts \/ (\E s \in Sockets : NetDrops(s)) \/ UNCHANGED vars
  BY <1>6 DEF Progress, PeerRestarts, NetDrops, vars, aVars, bVars
<1>. QED BY <1>1, <1>2, <1>3, <1>4, <1>5, <1>6 DEF Next

(* A connection that is ready once became ready.                           *)
Known(c) == c.state = "READY" => c.wasReady

LEMMA KnownHandlers ==
    ASSUME NEW c \in Conn, Known(c)
    PROVE  /\ Known(Checked(c)) /\ Known(SocketUp(c)) /\ Known(SocketDown(c)) /\ Known(Finished(c))
           /\ c.direction = "outbound" => Known(Greets(c))
           /\ Known([c EXCEPT !.ack = TRUE]) /\ Known([c EXCEPT !.listed = TRUE])
           /\ \A f : Known(Held(c, f))
<1>1. Known(Checked(c)) /\ Known(SocketUp(c)) /\ Known(SocketDown(c)) /\ Known(Finished(c))
  BY DEF Known, Checked, SocketUp, SocketDown, Finished, Conn
<1>2. c.direction = "outbound" => Known(Greets(c))
  BY DEF Known, Greets, Restarts, Conn
<1>3. /\ Known([c EXCEPT !.ack = TRUE]) /\ Known([c EXCEPT !.listed = TRUE])
      /\ \A f : Known(Held(c, f))
  BY DEF Known, Held, Conn
<1>. QED BY <1>1, <1>2, <1>3

LEMMA KnownStep == AInv /\ Known(a) /\ [Next]_vars => Known(a)'
<1> SUFFICES ASSUME AInv, Known(a), [Next]_vars PROVE Known(a')
  BY DEF Known
<1>0. a \in Conn /\ a.direction = "outbound"
  BY DEF AInv
<1>1. CASE Dialling
  BY <1>0, <1>1, KnownHandlers DEF Dialling, SubscribesData, SubscribesState, ReplayChecks, Lists, EmitsA,
     ClosesA
<1>2. CASE ReceivesHello \/ Opens
  <2>1. a' = a \/ a' = Checked(Greets(a)) \/ a' = Checked(SocketUp(a))
    BY <1>2 DEF ReceivesHello, Opens
  <2>2. Greets(a) \in Conn /\ SocketUp(a) \in Conn
    BY <1>0, GreetsSame, SocketSame DEF Same
  <2>3. Known(Greets(a)) /\ Known(SocketUp(a))
    BY <1>0, KnownHandlers
  <2>. QED BY <2>1, <2>2, <2>3, KnownHandlers
<1>3. CASE ReceivesAck
  <2> DEFINE d == [a EXCEPT !.ack = TRUE]
  <2>1. a' = Checked(d)
    BY <1>3 DEF ReceivesAck
  <2>2. d \in Conn /\ Known(d)
    BY <1>0, AckSame, KnownHandlers DEF Same
  <2>. HIDE DEF d
  <2>. QED BY <2>1, <2>2, KnownHandlers
<1>4. CASE ReceivesData
  <2>1. a' = a \/ a' = Finished(a) \/ \E f : a' = Held(a, f)
    BY <1>4 DEF ReceivesData, ClosesA
  <2>. QED BY <1>0, <2>1, KnownHandlers
<1>5. CASE Writes \/ Ignores \/ EndsClient \/ Drops \/ EmitsA("loop") \/ Fails
  BY <1>0, <1>5, KnownHandlers DEF Writes, Ignores, EndsClient, Drops, EmitsA, Fails, ClosesA
<1>6. CASE Programs
  BY <1>0, <1>6, KnownHandlers DEF Programs, TestsReady, SendsFrame, SendsTo, DisconnectsB, DisconnectsA,
     ClosesA, aVars
<1>7. CASE ServerB
  BY <1>7 DEF ServerB, Accepts, Fetches, Closes, Loses, EmitsB, HandlesHello, HandlesAck, HandlesData, Handles,
     aVars
<1>8. CASE PeerRestarts \/ (\E s \in Sockets : NetDrops(s)) \/ UNCHANGED vars
  BY <1>8 DEF PeerRestarts, NetDrops, vars, aVars
<1>. QED BY <1>1, <1>2, <1>3, <1>4, <1>5, <1>6, <1>7, <1>8 DEF Next, LoopA

(* Only frames are sent, under way, handed over and observed.              *)
LEMMA FramesJoin ==
    /\ <<>> \in FrameSeq /\ FrameSeq = Seq(Frames) /\ Hello \in Frames /\ Nat \subseteq Frames
    /\ \A s \in Seq(Nat) : s \in FrameSeq
    /\ \A s \in FrameSeq, x \in Frames : Append(s, x) \in FrameSeq
    /\ \A s, t \in FrameSeq : s \o t \in FrameSeq
    /\ \A s \in FrameSeq : s # <<>> => Head(s) \in Frames /\ Tail(s) \in FrameSeq
    /\ \A c : Announces(c) \in FrameSeq /\ Replies(c) \in FrameSeq
<1>1. FrameSeq = Seq(Frames) /\ Hello \in Frames /\ Nat \subseteq Frames /\ <<>> \in FrameSeq
  BY DEF FrameSeq, Frames
<1>2. \A s \in Seq(Nat) : s \in Seq(Frames)
  BY DEF Frames
<1>3. \A s \in Seq(Frames), x \in Frames : Append(s, x) \in Seq(Frames)
  BY AppendProperties
<1>4. \A s, t \in Seq(Frames) : s \o t \in Seq(Frames)
  BY ConcatProperties
<1>5. \A s \in Seq(Frames) : s # <<>> => Head(s) \in Frames /\ Tail(s) \in Seq(Frames)
  BY HeadTailProperties
<1>6. \A c : Announces(c) \in Seq(Frames) /\ Replies(c) \in Seq(Frames)
  <2>1. Hello \in Frames /\ HelloAck \in Frames /\ Down \in Frames
    BY DEF Frames, Hello, HelloAck, Down
  <2>2. /\ <<Down>> \in Seq(Frames) /\ <<HelloAck>> \in Seq(Frames) /\ <<Hello, HelloAck>> \in Seq(Frames)
        /\ <<>> \in Seq(Frames)
    BY <2>1
  <2>. QED BY <2>2 DEF Announces, Replies
<1>. QED BY <1>1, <1>2, <1>3, <1>4, <1>5, <1>6

FramesWired ==
    /\ ab \in [Sockets -> FrameSeq] /\ ba \in [Sockets -> FrameSeq]
    /\ sentAB \in [Sockets -> FrameSeq] /\ sentBA \in [Sockets -> FrameSeq]

FramesSeen ==
    /\ logA \in FrameSeq /\ logB \in [Sockets -> FrameSeq]
    /\ fetched \in [socket : 0..MaxSockets, frame : Frames]

LEMMA FramesWritten ==
    ASSUME FramesWired, NEW s \in Sockets, NEW f \in Frames
    PROVE  Written(s, f) \in [Sockets -> FrameSeq]
<1>1. Append(ab[s], f) \in FrameSeq
  BY FramesJoin DEF FramesWired
<1>. QED BY <1>1 DEF FramesWired, Written

LEMMA FramesPosted ==
    ASSUME FramesWired, NEW s \in Sockets, NEW r \in FrameSeq
    PROVE  Posted(s, r) \in [Sockets -> FrameSeq]
<1>1. ba[s] \o r \in FrameSeq
  BY FramesJoin DEF FramesWired
<1>. QED BY <1>1 DEF FramesWired, Posted

LEMMA FramesWiredInit == Init => FramesWired
BY FramesJoin DEF Init, FramesWired

LEMMA FramesWiredA ==
    ASSUME Wires, FramesWired, Dialling \/ Opens \/ Fails \/ LoopA
    PROVE  FramesWired'
<1>1. CASE Dialling \/ Opens \/ Fails \/ EndsClient \/ EmitsA("loop")
  BY <1>1 DEF FramesWired, Dialling, SubscribesData, SubscribesState, ReplayChecks, Lists, EmitsA, Opens, Fails,
     EndsClient, netVars
<1>2. CASE Writes
  <2>1. /\ cur \in Sockets /\ UNCHANGED <<ba, sentBA>>
        /\ \/ ab' = Written(cur, Hello) /\ UNCHANGED sentAB
           \/ /\ q.frames # <<>> /\ ab' = Written(cur, Head(q.frames))
              /\ sentAB' = [sentAB EXCEPT ![cur] =
                    IF Head(q.frames) = HelloAck THEN @ ELSE Append(@, Head(q.frames))]
    BY <1>2 DEF Writes, CanTake, Wires
  <2>2. CASE ab' = Written(cur, Hello) /\ UNCHANGED sentAB
    <3>1. ab' \in [Sockets -> FrameSeq]
      BY <2>1, <2>2, FramesJoin, FramesWritten
    <3>. QED BY <2>1, <2>2, <3>1 DEF FramesWired
  <2>3. CASE /\ q.frames # <<>> /\ ab' = Written(cur, Head(q.frames))
             /\ sentAB' = [sentAB EXCEPT ![cur] =
                   IF Head(q.frames) = HelloAck THEN @ ELSE Append(@, Head(q.frames))]
    <3>1. Head(q.frames) \in Frames
      BY <2>3, TakeForm, FramesJoin DEF Wires
    <3>2. ab' \in [Sockets -> FrameSeq]
      BY <2>1, <2>3, <3>1, FramesWritten
    <3>3. sentAB[cur] \in FrameSeq /\ Append(sentAB[cur], Head(q.frames)) \in FrameSeq
      BY <2>1, <3>1, FramesJoin DEF FramesWired
    <3>4. sentAB' \in [Sockets -> FrameSeq]
      BY <2>3, <3>3 DEF FramesWired
    <3>. QED BY <2>1, <3>2, <3>4 DEF FramesWired
  <2>. QED BY <2>1, <2>2, <2>3
<1>3. CASE Ignores \/ ReceivesHello \/ ReceivesAck \/ ReceivesData
  <2>1. /\ client = "up" /\ ba[cur] # <<>> /\ ba' = [ba EXCEPT ![cur] = Tail(ba[cur])]
        /\ UNCHANGED <<ab, sentAB, sentBA>>
    BY <1>3 DEF ReceivesHello, ReceivesAck, ReceivesData, Ignores, Receives
  <2>2. cur \in Sockets /\ Tail(ba[cur]) \in FrameSeq
    BY <2>1, FramesJoin DEF Wires, FramesWired
  <2>3. ba' \in [Sockets -> FrameSeq]
    BY <2>1, <2>2 DEF FramesWired
  <2>. QED BY <2>1, <2>3 DEF FramesWired
<1>4. CASE Drops
  <2>1. ba' = [ba EXCEPT ![cur] = <<>>] /\ UNCHANGED <<ab, sentAB, sentBA>>
    BY <1>4 DEF Drops
  <2>2. ba' \in [Sockets -> FrameSeq]
    BY <2>1, FramesJoin DEF FramesWired
  <2>. QED BY <2>1, <2>2 DEF FramesWired
<1>. QED BY <1>1, <1>2, <1>3, <1>4 DEF LoopA

LEMMA FramesWiredB ==
    ASSUME Wires, FramesWired, NEW s \in Sockets,
           \/ Accepts(s) \/ Fetches(s) \/ Closes(s) \/ Loses(s) \/ EmitsB(s)
           \/ HandlesHello(s) \/ HandlesAck(s) \/ HandlesData(s) \/ SendsTo(s) \/ DisconnectsB(s)
    PROVE  FramesWired'
<1>1. CASE Accepts(s) \/ Closes(s) \/ EmitsB(s) \/ HandlesAck(s)
  BY <1>1 DEF FramesWired, Accepts, Closes, EmitsB, HandlesAck, Handles, netVars
<1>2. CASE Fetches(s)
  <2>1. ab[s] # <<>> /\ ab' = [ab EXCEPT ![s] = Tail(ab[s])] /\ UNCHANGED <<ba, sentAB, sentBA>>
    BY <1>2 DEF Fetches
  <2>2. Tail(ab[s]) \in FrameSeq
    BY <2>1, FramesJoin DEF FramesWired
  <2>3. ab' \in [Sockets -> FrameSeq]
    BY <2>1, <2>2 DEF FramesWired
  <2>. QED BY <2>1, <2>3 DEF FramesWired
<1>3. CASE Loses(s) \/ DisconnectsB(s) \/ HandlesData(s)
  <2>1. (ab' = ab \/ ab' = [ab EXCEPT ![s] = <<>>]) /\ UNCHANGED <<ba, sentAB, sentBA>>
    BY <1>3 DEF Loses, DisconnectsB, HandlesData, Handles, EndsB
  <2>2. ab' \in [Sockets -> FrameSeq]
    BY <2>1, FramesJoin DEF FramesWired
  <2>. QED BY <2>1, <2>2 DEF FramesWired
<1>4. CASE HandlesHello(s)
  <2>1. ba' = Posted(s, Replies(b[s])) /\ UNCHANGED <<ab, sentAB, sentBA>>
    BY <1>4 DEF HandlesHello, Handles
  <2>2. Replies(b[s]) \in FrameSeq
    BY FramesJoin
  <2>3. ba' \in [Sockets -> FrameSeq]
    BY <2>1, <2>2, FramesPosted
  <2>. QED BY <2>1, <2>3 DEF FramesWired
<1>5. CASE SendsTo(s)
  <2>1. /\ ba' = Posted(s, <<nextB>>) /\ UNCHANGED <<ab, sentAB>>
        /\ sentBA' = IF net[s] = "open" THEN [sentBA EXCEPT ![s] = Append(@, nextB)] ELSE sentBA
    BY <1>5 DEF SendsTo
  <2>2. nextB \in Frames /\ <<nextB>> \in Seq(Nat)
    BY FramesJoin DEF Wires
  <2>3. <<nextB>> \in FrameSeq /\ Append(sentBA[s], nextB) \in FrameSeq
    BY <2>2, FramesJoin DEF FramesWired
  <2>4. ba' \in [Sockets -> FrameSeq]
    BY <2>1, <2>3, FramesPosted
  <2>5. sentBA' \in [Sockets -> FrameSeq]
    BY <2>1, <2>3 DEF FramesWired
  <2>. QED BY <2>1, <2>4, <2>5 DEF FramesWired
<1>. QED BY <1>1, <1>2, <1>3, <1>4, <1>5

LEMMA FramesWiredStep == Wires /\ FramesWired /\ [Next]_vars => FramesWired'
<1> SUFFICES ASSUME Wires, FramesWired, [Next]_vars PROVE FramesWired'
  OBVIOUS
<1>1. CASE PeerRestarts
  <2>1. cur \in Sockets /\ ab' = Written(cur, Hello) /\ UNCHANGED <<ba, sentAB, sentBA>>
    BY <1>1 DEF PeerRestarts, Wires
  <2>2. ab' \in [Sockets -> FrameSeq]
    BY <2>1, FramesJoin, FramesWritten
  <2>. QED BY <2>1, <2>2 DEF FramesWired
<1>2. CASE (\E s \in Sockets : NetDrops(s)) \/ TestsReady \/ SendsFrame \/ DisconnectsA \/ UNCHANGED vars
  BY <1>2 DEF FramesWired, NetDrops, TestsReady, SendsFrame, DisconnectsA, vars, netVars
<1>3. CASE ServerB \/ \E s \in Sockets : SendsTo(s) \/ DisconnectsB(s)
  BY <1>3, FramesWiredB DEF ServerB
<1>. QED BY <1>1, <1>2, <1>3, FramesWiredA DEF Next, Programs

LEMMA FramesSeenInit == Init => FramesSeen
<1>1. Init => logA \in FrameSeq /\ logB \in [Sockets -> FrameSeq]
  BY FramesJoin DEF Init
<1>2. Init => fetched \in [socket : 0..MaxSockets, frame : Frames]
  BY GatewayAssumption DEF Init, Idle, Frames
<1>. QED BY <1>1, <1>2 DEF FramesSeen

LEMMA FramesSeenA ==
    ASSUME AInv, FramesSeen, Dialling \/ Opens \/ Fails \/ LoopA \/ DisconnectsA
    PROVE  FramesSeen'
<1>1. UNCHANGED <<logB, fetched>>
  BY DEF Dialling, SubscribesData, SubscribesState, ReplayChecks, Lists, EmitsA, Opens, Fails, LoopA, Writes,
     Ignores, ReceivesHello, ReceivesAck, ReceivesData, Receives, Drops, EndsClient, DisconnectsA, bVars
<1>2. CASE EmitsA("app") \/ EmitsA("loop")
  <2>1. PICK t \in {"app", "loop"} : pendA[t] # <<>> /\ logA' = Append(logA, Head(pendA[t]))
    BY <1>2 DEF EmitsA
  <2>2. pendA[t] \in Seq(Nat)
    BY <2>1 DEF AInv
  <2>3. Head(pendA[t]) \in Frames
    BY <2>1, <2>2, FramesJoin, HeadTailProperties
  <2>4. logA' \in FrameSeq
    BY <2>1, <2>3, FramesJoin DEF FramesSeen
  <2>. QED BY <1>1, <2>4 DEF FramesSeen
<1>3. ASSUME ClosesA PROVE FramesSeen'
  <2>1. logA' = logA \o Announces(a)
    BY <1>3 DEF ClosesA
  <2>2. logA' \in FrameSeq
    BY <2>1, FramesJoin DEF FramesSeen
  <2>. QED BY <1>1, <2>2 DEF FramesSeen
<1>4. CASE ReceivesData
  <2>1. PICK f \in 1..DataB : logA' = Append(logA, f) \/ logA' = logA \/ ClosesA
    BY <1>4 DEF ReceivesData
  <2>2. f \in Frames
    BY FramesJoin, GatewayAssumption
  <2>3. CASE logA' = Append(logA, f) \/ logA' = logA
    <3>1. logA' \in FrameSeq
      BY <2>2, <2>3, FramesJoin DEF FramesSeen
    <3>. QED BY <1>1, <3>1 DEF FramesSeen
  <2>. QED BY <1>3, <2>1, <2>3
<1>5. CASE SubscribesData \/ Fails \/ DisconnectsA
  <2>1. UNCHANGED logA \/ ClosesA
    BY <1>5 DEF SubscribesData, Fails, DisconnectsA
  <2>. QED BY <1>1, <1>3, <2>1 DEF FramesSeen
<1>6. CASE \/ SubscribesState \/ ReplayChecks \/ Lists \/ Opens \/ Writes \/ Ignores
           \/ ReceivesHello \/ ReceivesAck \/ Drops \/ EndsClient
  <2>1. UNCHANGED logA
    BY <1>6 DEF SubscribesState, ReplayChecks, Lists, Opens, Writes, Ignores, ReceivesHello, ReceivesAck, Drops,
       EndsClient
  <2>. QED BY <1>1, <2>1 DEF FramesSeen
<1>. QED BY <1>2, <1>4, <1>5, <1>6 DEF Dialling, LoopA

LEMMA FramesSeenB ==
    ASSUME BInv, FramesWired, FramesSeen, NEW s \in Sockets,
           \/ Accepts(s) \/ Fetches(s) \/ Closes(s) \/ Loses(s) \/ EmitsB(s)
           \/ HandlesHello(s) \/ HandlesAck(s) \/ HandlesData(s) \/ SendsTo(s) \/ DisconnectsB(s)
    PROVE  FramesSeen'
<1>0. UNCHANGED logA /\ logB[s] \in FrameSeq
  BY DEF FramesSeen, Accepts, Fetches, Closes, Loses, EmitsB, HandlesHello, HandlesAck, HandlesData, Handles,
     SendsTo, DisconnectsB, aVars
<1>1. /\ Idle \in [socket : 0..MaxSockets, frame : Frames]
      /\ \A f \in Frames : [socket |-> s, frame |-> f] \in [socket : 0..MaxSockets, frame : Frames]
  <2>1. 0 \in 0..MaxSockets /\ s \in 0..MaxSockets /\ 0 \in Frames
    BY FramesJoin, GatewayAssumption
  <2>. QED BY <2>1 DEF Idle
<1>2. ASSUME NEW x \in FrameSeq, logB' = [logB EXCEPT ![s] = x] PROVE logB' \in [Sockets -> FrameSeq]
  BY <1>2 DEF FramesSeen
<1>3. ASSUME EndsB(s) PROVE logB' \in [Sockets -> FrameSeq]
  <2>1. logB' = [logB EXCEPT ![s] = logB[s] \o Announces(b[s])]
    BY <1>3 DEF EndsB
  <2>2. logB[s] \o Announces(b[s]) \in FrameSeq
    BY <1>0, FramesJoin
  <2>. QED BY <1>2, <2>1, <2>2
<1>4. CASE Accepts(s) \/ Closes(s) \/ SendsTo(s)
  BY <1>0, <1>4 DEF FramesSeen, Accepts, Closes, SendsTo, bVars
<1>5. CASE Fetches(s)
  <2>1. ab[s] # <<>> /\ fetched' = [socket |-> s, frame |-> Head(ab[s])] /\ UNCHANGED logB
    BY <1>5 DEF Fetches
  <2>2. Head(ab[s]) \in Frames
    BY <2>1, FramesJoin DEF FramesWired
  <2>. QED BY <1>0, <1>1, <2>1, <2>2 DEF FramesSeen
<1>6. CASE Loses(s) \/ DisconnectsB(s)
  <2>1. EndsB(s) /\ UNCHANGED fetched
    BY <1>6 DEF Loses, DisconnectsB
  <2>. QED BY <1>0, <1>3, <2>1 DEF FramesSeen
<1>7. CASE EmitsB(s)
  <2>1. pendB[s] # <<>> /\ logB' = [logB EXCEPT ![s] = Append(logB[s], Head(pendB[s]))] /\ UNCHANGED fetched
    BY <1>7 DEF EmitsB
  <2>2. pendB[s] \in Seq(Nat)
    BY DEF BInv, BTypes
  <2>3. Head(pendB[s]) \in Frames
    BY <2>1, <2>2, FramesJoin, HeadTailProperties
  <2>4. Append(logB[s], Head(pendB[s])) \in FrameSeq
    BY <1>0, <2>3, FramesJoin
  <2>. QED BY <1>0, <1>2, <2>1, <2>4 DEF FramesSeen
<1>8. CASE HandlesHello(s) \/ HandlesAck(s)
  BY <1>0, <1>1, <1>8 DEF FramesSeen, HandlesHello, HandlesAck, Handles
<1>9. CASE HandlesData(s)
  <2>1. PICK f \in 1..DataA :
          /\ fetched' = Idle
          /\ logB' = [logB EXCEPT ![s] = Append(logB[s], f)] \/ logB' = logB \/ EndsB(s)
    BY <1>9 DEF HandlesData, Handles
  <2>2. f \in Frames
    BY FramesJoin, GatewayAssumption
  <2>3. Append(logB[s], f) \in FrameSeq
    BY <1>0, <2>2, FramesJoin
  <2>4. logB' \in [Sockets -> FrameSeq]
    BY <1>2, <1>3, <2>1, <2>3 DEF FramesSeen
  <2>. QED BY <1>0, <1>1, <2>1, <2>4 DEF FramesSeen
<1>. QED BY <1>4, <1>5, <1>6, <1>7, <1>8, <1>9

LEMMA FramesSeenStep == AInv /\ BInv /\ FramesWired /\ FramesSeen /\ [Next]_vars => FramesSeen'
<1> SUFFICES ASSUME AInv, BInv, FramesWired, FramesSeen, [Next]_vars PROVE FramesSeen'
  OBVIOUS
<1>1. CASE (\E s \in Sockets : NetDrops(s)) \/ PeerRestarts \/ TestsReady \/ SendsFrame \/ UNCHANGED vars
  BY <1>1 DEF FramesSeen, NetDrops, PeerRestarts, TestsReady, SendsFrame, vars, aVars, bVars
<1>2. CASE ServerB \/ \E s \in Sockets : SendsTo(s) \/ DisconnectsB(s)
  BY <1>2, FramesSeenB DEF ServerB
<1>. QED BY <1>1, <1>2, FramesSeenA DEF Next, Programs

Typed == AInv /\ BInv /\ Wires /\ Progress /\ MarkInv /\ Known(a) /\ FramesWired /\ FramesSeen

LEMMA TypedOK == Typed => GatewayTypeOK
<1> SUFFICES ASSUME Typed PROVE GatewayTypeOK
  OBVIOUS
<1>1. ASSUME NEW c \in Conn, Known(c) PROVE ConnectionOK(c)
  <2>1. c.early \in FrameSeq
    BY FramesJoin DEF Conn
  <2>. QED BY <1>1, <2>1 DEF Conn, Known, ConnectionOK
<1>2. ConnectionOK(a)
  BY <1>1 DEF Typed, AInv
<1>3. \A s \in Sockets : ConnectionOK(b[s])
  BY <1>1 DEF Typed, BInv, BTypes, Paired, Known
<1>4. /\ dial \in DialStates /\ client \in {"down", "up", "ended"}
      /\ cur \in 0..MaxSockets /\ greeted \in BOOLEAN /\ timely \in BOOLEAN
      /\ client = "up" => cur > 0
      /\ sending \in 0..DataA /\ nextA \in 1..(DataA + 1) /\ nextB \in 1..(DataB + 1)
  BY GatewayAssumption DEF Typed, Progress, Wires
<1>5. /\ \A t \in {"loop", "app"} : pendA[t] \in Seq(Nat)
      /\ net \in [Sockets -> {"none", "open", "closed"}]
  BY DEF Typed, AInv, Wires, NetStates
<1>6. \A s \in Sockets :
        /\ ab[s] \in FrameSeq /\ ba[s] \in FrameSeq
        /\ pendB[s] \in Seq(Nat) /\ sentAB[s] \in FrameSeq /\ sentBA[s] \in FrameSeq /\ logB[s] \in FrameSeq
  BY DEF Typed, FramesWired, FramesSeen, BInv, BTypes
<1>7. logA \in FrameSeq /\ fetched \in [socket : 0..MaxSockets, frame : Nat \union {Hello}]
  BY DEF Typed, FramesSeen, Frames
<1>8. mark \in [data : Nat, dropped : Nat, reads : BOOLEAN]
  BY DEF Typed, MarkInv
<1>. QED BY <1>2, <1>3, <1>4, <1>5, <1>6, <1>7, <1>8 DEF GatewayTypeOK

(* Every variable of both nodes, of the wires and of the logs keeps its    *)
(* type: only frames are under way and observed, and a connection is ready *)
(* only if it is known to have become so.                                  *)
THEOREM GatewayTypes == Spec => []GatewayTypeOK
<1>1. Init => Typed
  <2>1. Init => Known(a)
    BY DEF Init, NewConnection, Known
  <2>. QED BY <2>1, PairInit, WiresInit, ProgressInit, MarkInit, FramesWiredInit, FramesSeenInit
    DEF Typed
<1>2. Typed /\ [Next]_vars => Typed'
  BY AStep, BStep, WiresStep, ProgressStep, MarkStep, KnownStep, FramesWiredStep, FramesSeenStep
     DEF Typed
<1>. QED BY <1>1, <1>2, TypedOK, PTL DEF Spec

-----------------------------------------------------------------------------
(* The handshake winds down: of what is under way between the nodes, every *)
(* step that no program and no network takes leaves less.                  *)

(* A frame that B is still to be handed, and one that A is: a HELLO is     *)
(* answered, the others at most complete a handshake.                      *)
Inward(s) == 3 * Len(s) + 8 * Count(s, Hello)

Outward(s) == 2 * Len(s) + 4 * Count(s, Hello)

LEMMA CountTail ==
    ASSUME NEW s \in Seq(Int), s # <<>>, NEW e \in Int
    PROVE  Count(s, e) = Count(Tail(s), e) + (IF Head(s) = e THEN 1 ELSE 0)
<1> DEFINE t == Tail(s)
           here == {i \in DOMAIN s : s[i] = e}
           there == {i \in DOMAIN t : t[i] = e}
           f == [i \in there |-> i + 1]
<1>1. /\ Len(s) \in Nat \ {0} /\ Head(s) = s[1] /\ t \in Seq(Int) /\ Len(t) = Len(s) - 1
      /\ \A i \in 1..Len(t) : t[i] = s[i + 1]
      /\ DOMAIN s = 1..Len(s) /\ DOMAIN t = 1..Len(t)
  BY IntHead, LenProperties
<1>. HIDE DEF t
<1>2. IsFiniteSet(here) /\ IsFiniteSet(there)
  <2>1. IsFiniteSet(1..Len(s)) /\ IsFiniteSet(1..Len(t))
    BY <1>1, FS_Interval
  <2>2. here \in SUBSET (1..Len(s)) /\ there \in SUBSET (1..Len(t))
    BY <1>1
  <2>. QED BY <2>1, <2>2, FS_Subset
<1> DEFINE n == Len(s)  m == Len(t)
<1>10. n \in Nat \ {0} /\ m = n - 1 /\ DOMAIN s = 1..n /\ DOMAIN t = 1..m
  BY <1>1
<1>11. \A i \in 1..m : t[i] = s[i + 1]
  BY <1>1
<1>. HIDE DEF n, m
<1>12. /\ \A i \in 1..m : i \in Int /\ i + 1 \in 1..n /\ i + 1 # 1
       /\ \A k \in (1..n) \ {1} : k \in Int /\ k - 1 \in 1..m /\ (k - 1) + 1 = k
  BY <1>10
<1>3. \A i \in there : i \in Int /\ i + 1 \in here \ {1}
  <2>1. ASSUME NEW i \in there PROVE i \in Int /\ i + 1 \in here \ {1}
    <3>1. i \in 1..m /\ t[i] = e
      BY <1>10
    <3>2. s[i + 1] = e /\ i + 1 \in DOMAIN s /\ i \in Int /\ i + 1 # 1
      BY <1>10, <1>11, <1>12, <3>1
    <3>. QED BY <3>2
  <2>. QED BY <2>1
<1>4. \A k \in here \ {1} : k \in Int /\ k - 1 \in there
  <2>1. ASSUME NEW k \in here \ {1} PROVE k \in Int /\ k - 1 \in there
    <3>1. k \in (1..n) \ {1} /\ s[k] = e
      BY <1>10
    <3>2. k - 1 \in 1..m /\ k \in Int /\ (k - 1) + 1 = k
      BY <1>12, <3>1
    <3>3. t[k - 1] = s[k]
      BY <1>11, <3>2
    <3>. QED BY <1>10, <3>1, <3>2, <3>3
  <2>. QED BY <2>1
<1>5. (1 \in here) <=> (Head(s) = e)
  BY <1>1
<1>. HIDE DEF here, there
<1>6. f \in Bijection(there, here \ {1})
  <2>1. f \in [there -> here \ {1}]
    BY <1>3
  <2>2. \A i, j \in there : f[i] = f[j] => i = j
    BY <1>3
  <2>3. \A k \in here \ {1} : \E i \in there : f[i] = k
    <3>1. ASSUME NEW k \in here \ {1} PROVE \E i \in there : f[i] = k
      <4>1. k - 1 \in there /\ k \in Int
        BY <1>4
      <4>2. f[k - 1] = k
        BY <4>1
      <4>. QED BY <4>1, <4>2
    <3>. QED BY <3>1
  <2>. QED BY <2>1, <2>2, <2>3 DEF Bijection, Injection, Surjection, IsInjective
<1>7. Cardinality(here \ {1}) = Cardinality(there)
  BY <1>2, <1>6, FS_Bijection DEF ExistsBijection
<1>8. /\ Cardinality(here) \in Nat
      /\ Cardinality(here \ {1}) = IF 1 \in here THEN Cardinality(here) - 1 ELSE Cardinality(here)
  BY <1>2, FS_RemoveElement, FS_CardinalityType
<1>9. Count(s, e) = Cardinality(here) /\ Count(t, e) = Cardinality(there)
  BY DEF Count, here, there
<1>13. Count(s, e) = Count(t, e) + (IF Head(s) = e THEN 1 ELSE 0)
  <2> DEFINE x == Cardinality(here)  y == Cardinality(there)
  <2>1. x \in Nat /\ y = IF Head(s) = e THEN x - 1 ELSE x
    BY <1>5, <1>7, <1>8
  <2>. HIDE DEF x, y
  <2>2. x = y + (IF Head(s) = e THEN 1 ELSE 0)
    BY <2>1
  <2>. QED BY <1>9, <2>2 DEF x, y
<1>. QED BY <1>13 DEF t

LEMMA WireCosts ==
    ASSUME NEW s \in Seq(Int), NEW x \in Int
    PROVE  /\ Inward(s) \in Nat /\ Outward(s) \in Nat /\ Append(s, x) \in Seq(Int)
           /\ Inward(Append(s, x)) = Inward(s) + (IF x = Hello THEN 11 ELSE 3)
           /\ Outward(Append(s, x)) = Outward(s) + (IF x = Hello THEN 6 ELSE 2)
<1> DEFINE n == Len(s)  h == Count(s, Hello)  r == Append(s, x)
<1>1. /\ n \in Nat /\ h \in Nat /\ r \in Seq(Int) /\ Len(r) = n + 1
      /\ Count(r, Hello) = h + (IF x = Hello THEN 1 ELSE 0)
  BY CountAppend, LenProperties, AppendProperties DEF Hello
<1>2. Inward(s) = 3 * n + 8 * h /\ Outward(s) = 2 * n + 4 * h
  BY DEF Inward, Outward
<1>3. Inward(r) = 3 * Len(r) + 8 * Count(r, Hello) /\ Outward(r) = 2 * Len(r) + 4 * Count(r, Hello)
  BY DEF Inward, Outward
<1>. HIDE DEF n, h, r
<1>4. /\ Inward(s) \in Nat /\ Outward(s) \in Nat
      /\ Inward(r) = Inward(s) + (IF x = Hello THEN 11 ELSE 3)
      /\ Outward(r) = Outward(s) + (IF x = Hello THEN 6 ELSE 2)
  BY <1>1, <1>2, <1>3
<1>. QED BY <1>1, <1>4 DEF r

LEMMA WireTails ==
    ASSUME NEW s \in Seq(Int), s # <<>>
    PROVE  /\ Head(s) \in Int /\ Tail(s) \in Seq(Int)
           /\ Inward(Tail(s)) + (IF Head(s) = Hello THEN 11 ELSE 3) = Inward(s)
           /\ Outward(Tail(s)) + (IF Head(s) = Hello THEN 6 ELSE 2) = Outward(s)
<1> DEFINE n == Len(s)  h == Count(s, Hello)  r == Tail(s)
<1>1. /\ n \in Nat \ {0} /\ r \in Seq(Int) /\ Len(r) = n - 1 /\ Head(s) \in Int
      /\ h = Count(r, Hello) + (IF Head(s) = Hello THEN 1 ELSE 0)
  BY IntHead, CountTail DEF Hello
<1>2. Count(r, Hello) \in Nat
  <2>1. r \in Seq(Int) /\ Hello \in Int /\ 0 \in Int
    BY <1>1 DEF Hello
  <2>. HIDE DEF r
  <2>2. Count(Append(r, 0), Hello) = Count(r, Hello) + (IF 0 = Hello THEN 1 ELSE 0) /\ Count(r, Hello) \in Nat
    BY <2>1, CountAppend
  <2>. QED BY <2>2
<1>3. Inward(s) = 3 * n + 8 * h /\ Outward(s) = 2 * n + 4 * h
  BY DEF Inward, Outward
<1>4. Inward(r) = 3 * Len(r) + 8 * Count(r, Hello) /\ Outward(r) = 2 * Len(r) + 4 * Count(r, Hello)
  BY DEF Inward, Outward
<1>. HIDE DEF n, h, r
<1>5. /\ Inward(r) + (IF Head(s) = Hello THEN 11 ELSE 3) = Inward(s)
      /\ Outward(r) + (IF Head(s) = Hello THEN 6 ELSE 2) = Outward(s)
  <2> DEFINE m == Len(r)  k == Count(r, Hello)
  <2>0. m \in Int /\ k \in Int /\ n \in Int /\ h \in Int /\ m = n - 1
    BY <1>1, <1>2
  <2>1. h = k + (IF Head(s) = Hello THEN 1 ELSE 0)
    BY <1>1
  <2>2. Inward(r) = 3 * m + 8 * k /\ Outward(r) = 2 * m + 4 * k
    BY <1>4
  <2>. HIDE DEF m, k
  <2>3. CASE Head(s) = Hello
    <3>1. h = k + 1
      BY <2>1, <2>3
    <3>2. Inward(r) + 11 = Inward(s) /\ Outward(r) + 6 = Outward(s)
      BY <1>3, <2>0, <2>2, <3>1
    <3>. QED BY <2>3, <3>2
  <2>4. CASE Head(s) # Hello
    <3>1. h = k + 0
      BY <2>1, <2>4
    <3>2. Inward(r) + 3 = Inward(s) /\ Outward(r) + 2 = Outward(s)
      BY <1>3, <2>0, <2>2, <3>1
    <3>. QED BY <2>4, <3>2
  <2>. QED BY <2>3, <2>4
<1>. QED BY <1>1, <1>5 DEF r

LEMMA WireEmpty == Inward(<<>>) = 0 /\ Outward(<<>>) = 0
<1>1. Len(<<>>) = 0 /\ Count(<<>>, Hello) = 0
  BY CountEmpty
<1>. QED BY <1>1 DEF Inward, Outward

LEMMA WireTyped ==
    ASSUME NEW s \in Seq(Int)
    PROVE  Inward(s) \in Nat /\ Outward(s) \in Nat
<1>1. 0 \in Int
  OBVIOUS
<1>2. Append(s, 0) \in Seq(Int) /\ Inward(s) \in Nat /\ Outward(s) \in Nat
  BY <1>1, WireCosts
<1>. QED BY <1>2

(* A HELLO is answered by a HELLO and a HELLO_ACK at most.                 *)
LEMMA WireReplies ==
    ASSUME NEW s \in Seq(Int), NEW c
    PROVE  Outward(s \o Replies(c)) <= Outward(s) + 8
<1>1. Hello \in Int /\ HelloAck \in Int /\ Hello # HelloAck
  BY DEF Hello, HelloAck
<1> DEFINE r == Append(s, Hello)
<1>2. r \in Seq(Int) /\ Outward(s) \in Nat /\ Outward(r) = Outward(s) + 6
  BY <1>1, WireCosts
<1>3. s \o <<HelloAck>> = Append(s, HelloAck)
  BY <1>1, AppendOne
<1>4. s \o <<Hello, HelloAck>> = Append(r, HelloAck)
  <2>1. <<Hello, HelloAck>> = Append(<<Hello>>, HelloAck) /\ <<Hello>> \in Seq(Int)
    BY <1>1
  <2>2. s \o <<Hello>> = r
    BY <1>1, AppendOne
  <2>. QED BY <1>1, <2>1, <2>2, IntSequences
<1>. HIDE DEF r
<1>5. Outward(Append(s, HelloAck)) = Outward(s) + 2 /\ Outward(Append(r, HelloAck)) = Outward(s) + 8
  <2>1. Outward(Append(s, HelloAck)) = Outward(s) + 2 /\ Outward(Append(r, HelloAck)) = Outward(r) + 2
    BY <1>1, <1>2, WireCosts
  <2>. QED BY <1>2, <2>1
<1>6. Replies(c) \in {<<Hello, HelloAck>>, <<HelloAck>>}
  BY DEF Replies
<1>7. CASE Replies(c) = <<Hello, HelloAck>>
  <2>1. s \o Replies(c) = Append(r, HelloAck)
    BY <1>4, <1>7
  <2>2. Outward(s \o Replies(c)) = Outward(s) + 8
    BY <1>5, <2>1
  <2>. QED BY <1>2, <2>2
<1>8. CASE Replies(c) = <<HelloAck>>
  <2>1. s \o Replies(c) = Append(s, HelloAck)
    BY <1>3, <1>8
  <2>2. Outward(s \o Replies(c)) = Outward(s) + 2
    BY <1>5, <2>1
  <2>. QED BY <1>2, <2>2
<1>. QED BY <1>6, <1>7, <1>8

-----------------------------------------------------------------------------
DialLeft ==
    IF dial = "client" THEN 6
    ELSE IF dial = "data" THEN 5
    ELSE IF dial = "checking" THEN 4
    ELSE IF dial = "wired" THEN 2
    ELSE 0

RunLeft == IF client = "ended" THEN 0 ELSE IF client = "up" THEN 2 ELSE 1

(* The greeting is a HELLO.  What waits in the client's queue is written.  *)
GreetLeft == IF greeted THEN 0 ELSE 12

SendLeft == 4 * Len(q.frames) + (IF sending = 0 THEN 0 ELSE 5)

EmitLeft == Len(pendA.loop) + Len(pendA.app)

HoldLeft == Len(a.early)

DiallerLeft == DialLeft + RunLeft + GreetLeft + SendLeft + EmitLeft + HoldLeft

WiresLeft(s) == Inward(ab[s]) + Outward(ba[s])

FetchLeft(s) ==
    IF fetched.socket # s THEN 0 ELSE IF fetched.frame = Hello THEN 10 ELSE 2

ServeLeft(s) == Len(pendB[s]) + Len(b[s].early)

TableLeft(s) ==
    (IF b[s].state = "none" THEN 2 ELSE IF b[s].listed THEN 1 ELSE 0)
    + (IF net[s] = "open" THEN 1 ELSE 0)

SocketLeft(s) == WiresLeft(s) + FetchLeft(s) + ServeLeft(s) + TableLeft(s)

SocketsLeft == [s \in Sockets |-> SocketLeft(s)]

NodesLeft == DiallerLeft + SumFunctionOnSet(SocketsLeft, Sockets)

LeftsTyped ==
    /\ DialLeft \in Nat /\ RunLeft \in Nat /\ GreetLeft \in Nat /\ SendLeft \in Nat
    /\ EmitLeft \in Nat /\ HoldLeft \in Nat /\ DiallerLeft \in Nat
    /\ \A s \in Sockets :
        /\ WiresLeft(s) \in Nat /\ FetchLeft(s) \in Nat /\ ServeLeft(s) \in Nat
        /\ TableLeft(s) \in Nat /\ SocketLeft(s) \in Nat /\ SocketsLeft[s] = SocketLeft(s)
    /\ Counted(SocketsLeft, Sockets) /\ SumFunctionOnSet(SocketsLeft, Sockets) \in Nat
    /\ NodesLeft \in Nat

Kinds == AInv /\ BInv /\ Wires

LEMMA SocketsFinite == IsFiniteSet(Sockets)
<1>1. 1 \in Int /\ MaxSockets \in Int
  BY GatewayAssumption
<1>. QED BY <1>1, FS_Interval

LEMMA LeftsTypes == Kinds => LeftsTyped
<1> SUFFICES ASSUME Kinds PROVE LeftsTyped
  OBVIOUS
<1>1. DialLeft \in Nat /\ RunLeft \in Nat /\ GreetLeft \in Nat
  BY DEF DialLeft, RunLeft, GreetLeft
<1>2. SendLeft \in Nat
  <2>1. Len(q.frames) \in Nat
    BY LenProperties DEF Kinds, Wires, QueueForm
  <2> DEFINE n == Len(q.frames)
  <2>2. SendLeft = 4 * n + (IF sending = 0 THEN 0 ELSE 5) /\ n \in Nat
    BY <2>1 DEF SendLeft
  <2>. HIDE DEF n
  <2>. QED BY <2>2
<1>3. EmitLeft \in Nat
  <2>1. pendA.loop \in Seq(Nat) /\ pendA.app \in Seq(Nat)
    BY DEF Kinds, AInv
  <2>2. Len(pendA.loop) \in Nat /\ Len(pendA.app) \in Nat
    BY <2>1, LenProperties
  <2> DEFINE n == Len(pendA.loop)  m == Len(pendA.app)
  <2>3. EmitLeft = n + m /\ n \in Nat /\ m \in Nat
    BY <2>2 DEF EmitLeft
  <2>. HIDE DEF n, m
  <2>. QED BY <2>3
<1>4. HoldLeft \in Nat
  <2>1. a.early \in Seq(Nat)
    BY DEF Kinds, AInv, Conn
  <2>. QED BY <2>1, LenProperties DEF HoldLeft
<1>5. DiallerLeft \in Nat
  BY <1>1, <1>2, <1>3, <1>4 DEF DiallerLeft
<1>6. ASSUME NEW s \in Sockets
      PROVE  /\ WiresLeft(s) \in Nat /\ FetchLeft(s) \in Nat /\ ServeLeft(s) \in Nat
             /\ TableLeft(s) \in Nat /\ SocketLeft(s) \in Nat /\ SocketsLeft[s] = SocketLeft(s)
  <2>1. ab[s] \in Seq(Int) /\ ba[s] \in Seq(Int)
    BY DEF Kinds, Wires
  <2>2. Inward(ab[s]) \in Nat /\ Outward(ba[s]) \in Nat
    BY <2>1, WireTyped
  <2>3. WiresLeft(s) \in Nat
    BY <2>2 DEF WiresLeft
  <2>4. FetchLeft(s) \in Nat /\ TableLeft(s) \in Nat
    BY DEF FetchLeft, TableLeft
  <2>5. pendB[s] \in Seq(Nat) /\ b[s].early \in Seq(Nat)
    BY DEF Kinds, BInv, BTypes, Conn
  <2>6. Len(pendB[s]) \in Nat /\ Len(b[s].early) \in Nat
    BY <2>5, LenProperties
  <2>7. ServeLeft(s) \in Nat
    <3> DEFINE n == Len(pendB[s])  m == Len(b[s].early)
    <3>1. ServeLeft(s) = n + m /\ n \in Nat /\ m \in Nat
      BY <2>6 DEF ServeLeft
    <3>. HIDE DEF n, m
    <3>. QED BY <3>1
  <2>8. SocketLeft(s) \in Nat
    BY <2>3, <2>4, <2>7 DEF SocketLeft
  <2>. QED BY <2>3, <2>4, <2>7, <2>8 DEF SocketsLeft
<1>7. Counted(SocketsLeft, Sockets)
  BY <1>6 DEF Counted
<1>8. SumFunctionOnSet(SocketsLeft, Sockets) \in Nat
  BY <1>7, SocketsFinite, SumProps
<1>9. NodesLeft \in Nat
  BY <1>5, <1>8 DEF NodesLeft
<1>. QED BY <1>1, <1>2, <1>3, <1>4, <1>5, <1>6, <1>7, <1>8, <1>9 DEF LeftsTyped

LEMMA LeftsTypesNext == Kinds' => LeftsTyped'
BY LeftsTypes, PTL

(* A step of the dialling node alone.                                      *)
LEMMA DiallerFalls ==
    ASSUME Kinds, Kinds', UNCHANGED <<ab, ba, fetched, pendB, b, net>>, DiallerLeft' < DiallerLeft
    PROVE  NodesLeft' < NodesLeft
<1> DEFINE sum == SumFunctionOnSet(SocketsLeft, Sockets)
<1>1. SocketsLeft' = SocketsLeft
  BY DEF SocketsLeft, SocketLeft, WiresLeft, FetchLeft, ServeLeft, TableLeft
<1>2. sum' = sum
  BY <1>1
<1>3. DiallerLeft \in Nat /\ DiallerLeft' \in Nat /\ sum \in Nat
  BY LeftsTypes, LeftsTypesNext DEF LeftsTyped
<1>4. NodesLeft = DiallerLeft + sum /\ NodesLeft' = DiallerLeft' + sum
  BY <1>2 DEF NodesLeft
<1>. HIDE DEF sum
<1>5. ASSUME NEW x \in Nat, NEW y \in Nat, NEW z \in Nat, x < y PROVE x + z < y + z
  BY <1>5
<1>6. DiallerLeft' < DiallerLeft
  OBVIOUS
<1>7. DiallerLeft' + sum < DiallerLeft + sum
  BY <1>3, <1>5, <1>6
<1>. QED BY <1>4, <1>7

(* A step that leaves the other sockets alone.                             *)
Untouched(t) ==
    /\ UNCHANGED <<ab[t], ba[t], pendB[t], b[t], net[t]>>
    /\ fetched' = fetched \/ (fetched.socket # t /\ fetched'.socket # t)

LEMMA SocketFalls ==
    ASSUME Kinds, Kinds', NEW s \in Sockets, \A t \in Sockets \ {s} : Untouched(t),
           DiallerLeft' + SocketLeft(s)' < DiallerLeft + SocketLeft(s)
    PROVE  NodesLeft' < NodesLeft
<1> DEFINE h == SocketsLeft
           k == SocketsLeft'
<1>0. LeftsTyped /\ LeftsTyped'
  BY LeftsTypes, LeftsTypesNext
<1>1. ASSUME NEW t \in Sockets \ {s} PROVE SocketLeft(t)' = SocketLeft(t)
  <2>1. Untouched(t)
    OBVIOUS
  <2>2. WiresLeft(t)' = WiresLeft(t) /\ ServeLeft(t)' = ServeLeft(t)
    BY <2>1 DEF Untouched, WiresLeft, ServeLeft
  <2>3. FetchLeft(t)' = FetchLeft(t) /\ TableLeft(t)' = TableLeft(t)
    BY <2>1 DEF Untouched, FetchLeft, TableLeft
  <2>. QED BY <2>2, <2>3 DEF SocketLeft
<1>2. /\ Counted(h, Sockets) /\ h[s] = SocketLeft(s) /\ k[s] = SocketLeft(s)'
      /\ h[s] \in Nat /\ k[s] \in Nat
  BY <1>0 DEF LeftsTyped
<1>3. \A t \in Sockets \ {s} : k[t] = h[t]
  BY <1>0, <1>1 DEF LeftsTyped
<1>4. /\ NodesLeft = DiallerLeft + SumFunctionOnSet(h, Sockets)
      /\ NodesLeft' = DiallerLeft' + SumFunctionOnSet(k, Sockets)
      /\ DiallerLeft \in Nat /\ DiallerLeft' \in Nat /\ SumFunctionOnSet(h, Sockets) \in Nat
  BY <1>0 DEF NodesLeft, LeftsTyped
<1>5. DiallerLeft' + k[s] < DiallerLeft + h[s]
  BY <1>2
<1>. HIDE DEF h, k
<1>6. SumFunctionOnSet(k, Sockets) = SumFunctionOnSet(h, Sockets) + k[s] - h[s]
  BY <1>2, <1>3, SocketsFinite, SumOne
<1>. QED BY <1>2, <1>4, <1>5, <1>6

LEMMA PendingHead ==
    ASSUME NEW s \in Seq(Nat), s # <<>>
    PROVE  Len(s) \in Nat /\ Len(Tail(s)) \in Nat /\ Len(Tail(s)) < Len(s)
<1>1. Len(s) \in Nat \ {0} /\ Len(Tail(s)) = Len(s) - 1
  BY EmptySeq, HeadTailProperties
<1> DEFINE n == Len(s)  m == Len(Tail(s))
<1>2. n \in Nat \ {0} /\ m = n - 1
  BY <1>1
<1>. HIDE DEF n, m
<1>3. n \in Nat /\ m \in Nat /\ m < n
  BY <1>2
<1>. QED BY <1>3 DEF n, m

(* A handshake that completes moves the frames held behind one event.      *)
LEMMA EmitsLess ==
    ASSUME NEW c \in Conn
    PROVE  /\ Len(Emits(c)) \in Nat /\ Len(Checked(c).early) \in Nat /\ Len(c.early) \in Nat
           /\ Len(Emits(c)) + Len(Checked(c).early) <= Len(c.early) + 1
<1>1. <<Up>> \in Seq(Nat) /\ Len(<<Up>>) = 1
  BY DEF Up
<1>2. c.early \in Seq(Nat) /\ Len(c.early) \in Nat
  BY LenProperties DEF Conn
<1>3. Len(<<Up>> \o c.early) = 1 + Len(c.early)
  BY <1>1, <1>2, ConcatProperties
<1>4. Checked(c).early = IF Complete(c) THEN <<>> ELSE c.early
  BY DialHandlers
<1>5. Emits(c) = IF Complete(c) THEN <<Up>> \o c.early ELSE <<>>
  BY DEF Emits
<1>6. Len(<<>>) = 0
  OBVIOUS
<1> DEFINE n == Len(c.early)
<1>7. CASE Complete(c)
  <2>1. Len(Emits(c)) = 1 + n /\ Len(Checked(c).early) = 0
    BY <1>3, <1>4, <1>5, <1>6, <1>7
  <2>. HIDE DEF n
  <2>. QED BY <1>2, <2>1 DEF n
<1>8. CASE ~Complete(c)
  <2>1. Len(Emits(c)) = 0 /\ Len(Checked(c).early) = n
    BY <1>4, <1>5, <1>6, <1>8
  <2>. QED BY <1>2, <2>1
<1>. QED BY <1>7, <1>8

LEMMA PutLess ==
    ASSUME NEW r, QueueForm(r), NEW f \in Nat
    PROVE  /\ Len(Put(r, Off, f, "drop_old").frames) \in Nat /\ Len(r.frames) \in Nat
           /\ Len(Put(r, Off, f, "drop_old").frames) <= Len(r.frames) + 1
<1>1. PICK n \in 0..Len(r.frames) : Put(r, Off, f, "drop_old").frames = Append(Rest(r.frames, n), f)
  BY PutForm, GatewayAssumption
<1>2. r.frames \in Seq(Nat) /\ Len(r.frames) \in Nat
  BY LenProperties DEF QueueForm
<1>3. Rest(r.frames, n) \in Seq(Nat) /\ Len(Rest(r.frames, n)) = Len(r.frames) - n
  <2>1. n + 1 \in 1..Len(r.frames) + 1 /\ Len(r.frames) \in 0..Len(r.frames)
    BY <1>2
  <2>. QED BY <1>2, <2>1, SubSeqProperties DEF Rest
<1>4. Len(Append(Rest(r.frames, n), f)) = Len(Rest(r.frames, n)) + 1
  BY <1>3, AppendProperties
<1> DEFINE k == Len(r.frames)  m == Len(Put(r, Off, f, "drop_old").frames)
<1>5. m = (k - n) + 1 /\ k \in Nat /\ n \in 0..k
  BY <1>1, <1>2, <1>3, <1>4
<1>. HIDE DEF k, m
<1>6. m \in Nat /\ k \in Nat /\ m <= k + 1
  BY <1>5
<1>. QED BY <1>6 DEF k, m

(* Of the parts of DiallerLeft, which a step moves.                        *)
LEMMA DiallerParts ==
    ASSUME LeftsTyped, LeftsTyped', NEW n \in Int,
           DialLeft' + RunLeft' + EmitLeft' + HoldLeft' + n < DialLeft + RunLeft + EmitLeft + HoldLeft,
           GreetLeft' + SendLeft' <= GreetLeft + SendLeft + n
    PROVE  DiallerLeft' < DiallerLeft
<1>1. ASSUME NEW d \in Nat, NEW r \in Nat, NEW g \in Nat, NEW s \in Nat, NEW e \in Nat, NEW h \in Nat,
             NEW d1 \in Nat, NEW r1 \in Nat, NEW g1 \in Nat, NEW s1 \in Nat, NEW e1 \in Nat, NEW h1 \in Nat,
             d1 + r1 + e1 + h1 + n < d + r + e + h, g1 + s1 <= g + s + n
      PROVE  d1 + r1 + g1 + s1 + e1 + h1 < d + r + g + s + e + h
  BY <1>1
<1>2. /\ DialLeft \in Nat /\ RunLeft \in Nat /\ GreetLeft \in Nat /\ SendLeft \in Nat
      /\ EmitLeft \in Nat /\ HoldLeft \in Nat
  BY DEF LeftsTyped
<1>3. /\ DialLeft' \in Nat /\ RunLeft' \in Nat /\ GreetLeft' \in Nat /\ SendLeft' \in Nat
      /\ EmitLeft' \in Nat /\ HoldLeft' \in Nat
  BY DEF LeftsTyped
<1>4. DialLeft' + RunLeft' + EmitLeft' + HoldLeft' + n < DialLeft + RunLeft + EmitLeft + HoldLeft
  OBVIOUS
<1>5. GreetLeft' + SendLeft' <= GreetLeft + SendLeft + n
  OBVIOUS
<1>6. DialLeft' + RunLeft' + GreetLeft' + SendLeft' + EmitLeft' + HoldLeft'
        < DialLeft + RunLeft + GreetLeft + SendLeft + EmitLeft + HoldLeft
  BY <1>1, <1>2, <1>3, <1>4, <1>5
<1>. QED BY <1>6 DEF DiallerLeft

LEMMA DiallerKeeps ==
    /\ UNCHANGED greeted => GreetLeft' = GreetLeft
    /\ UNCHANGED <<q, sending>> => SendLeft' = SendLeft
    /\ UNCHANGED pendA => EmitLeft' = EmitLeft
    /\ UNCHANGED client => RunLeft' = RunLeft
    /\ UNCHANGED dial => DialLeft' = DialLeft
    /\ a'.early = a.early => HoldLeft' = HoldLeft
    /\ a'.early = <<>> => HoldLeft' = 0
<1>1. (UNCHANGED greeted => GreetLeft' = GreetLeft) /\ (UNCHANGED client => RunLeft' = RunLeft)
  BY DEF GreetLeft, RunLeft
<1>2. (UNCHANGED <<q, sending>> => SendLeft' = SendLeft) /\ (UNCHANGED dial => DialLeft' = DialLeft)
  BY DEF SendLeft, DialLeft
<1>3. UNCHANGED pendA => EmitLeft' = EmitLeft
  BY DEF EmitLeft
<1>4. (a'.early = a.early => HoldLeft' = HoldLeft) /\ (a'.early = <<>> => HoldLeft' = 0)
  BY DEF HoldLeft
<1>. QED BY <1>1, <1>2, <1>3, <1>4

(* A step that leaves the client's queue, its greeting and send_to alone.  *)
LEMMA DiallerLess ==
    ASSUME LeftsTyped, LeftsTyped', UNCHANGED <<greeted, q, sending>>,
           DialLeft' + RunLeft' + EmitLeft' + HoldLeft' < DialLeft + RunLeft + EmitLeft + HoldLeft
    PROVE  DiallerLeft' < DiallerLeft
<1>1. GreetLeft' = GreetLeft /\ SendLeft' = SendLeft
  BY DiallerKeeps
<1>2. /\ DialLeft \in Nat /\ RunLeft \in Nat /\ GreetLeft \in Nat /\ SendLeft \in Nat
      /\ EmitLeft \in Nat /\ HoldLeft \in Nat
  BY DEF LeftsTyped
<1>3. /\ DialLeft' \in Nat /\ RunLeft' \in Nat /\ EmitLeft' \in Nat /\ HoldLeft' \in Nat
  BY DEF LeftsTyped
<1>4. DialLeft' + RunLeft' + EmitLeft' + HoldLeft' < DialLeft + RunLeft + EmitLeft + HoldLeft
  OBVIOUS
<1>5. DialLeft' + RunLeft' + EmitLeft' + HoldLeft' + 0 < DialLeft + RunLeft + EmitLeft + HoldLeft
  BY <1>3, <1>4
<1>6. GreetLeft' + SendLeft' <= GreetLeft + SendLeft + 0
  BY <1>1, <1>2
<1>. QED BY <1>5, <1>6, DiallerParts

LEMMA EmitFalls ==
    ASSUME AInv, NEW t \in {"loop", "app"}, EmitsA(t)
    PROVE  EmitLeft \in Nat /\ EmitLeft' \in Nat /\ EmitLeft' < EmitLeft
<1>1. /\ pendA.loop \in Seq(Nat) /\ pendA.app \in Seq(Nat)
      /\ pendA[t] # <<>> /\ pendA' = [pendA EXCEPT ![t] = Tail(pendA[t])]
      /\ pendA \in [loop : Seq(Nat), app : Seq(Nat)]
  BY DEF AInv, EmitsA
<1> DEFINE n == Len(pendA.loop)  m == Len(pendA.app)  n1 == n'  m1 == m'
<1>2. n \in Nat /\ m \in Nat
  BY <1>1, LenProperties
<1>3. EmitLeft = n + m /\ EmitLeft' = n1 + m1
  BY DEF EmitLeft
<1>4. n1 \in Nat /\ m1 \in Nat /\ ((n1 < n /\ m1 = m) \/ (m1 < m /\ n1 = n))
  <2>1. CASE t = "loop"
    <3>1. pendA'.loop = Tail(pendA.loop) /\ pendA'.app = pendA.app /\ pendA.loop # <<>>
      BY <1>1, <2>1
    <3>2. n1 = Len(Tail(pendA.loop)) /\ m1 = m
      BY <3>1
    <3>. QED BY <1>1, <1>2, <3>1, <3>2, PendingHead
  <2>2. CASE t = "app"
    <3>1. pendA'.app = Tail(pendA.app) /\ pendA'.loop = pendA.loop /\ pendA.app # <<>>
      BY <1>1, <2>2
    <3>2. m1 = Len(Tail(pendA.app)) /\ n1 = n
      BY <3>1
    <3>. QED BY <1>1, <1>2, <3>1, <3>2, PendingHead
  <2>. QED BY <2>1, <2>2
<1>. HIDE DEF n, m, n1, m1
<1>. QED BY <1>2, <1>3, <1>4

LEMMA DiallingWinds ==
    ASSUME Kinds, Kinds', Dialling \/ EmitsA("loop")
    PROVE  NodesLeft' < NodesLeft
<1>0. LeftsTyped /\ LeftsTyped' /\ a \in Conn /\ AInv
  BY LeftsTypes, LeftsTypesNext DEF Kinds, AInv
<1>9. /\ DialLeft \in Nat /\ RunLeft \in Nat /\ EmitLeft \in Nat /\ HoldLeft \in Nat
      /\ DialLeft' \in Nat /\ EmitLeft' \in Nat /\ HoldLeft' \in Nat
  BY <1>0 DEF LeftsTyped
<1>1. /\ UNCHANGED <<greeted, q, sending, client>>
      /\ UNCHANGED <<ab, ba, fetched, pendB, b, net>>
  BY DEF Dialling, SubscribesData, SubscribesState, ReplayChecks, Lists, EmitsA, netVars, bVars
<1>2. RunLeft' = RunLeft
  BY <1>1, DiallerKeeps
<1>3. ASSUME NEW d \in Nat, NEW e \in Nat, NEW h \in Nat, NEW r \in Nat,
             NEW d1 \in Nat, NEW e1 \in Nat, NEW h1 \in Nat,
             \/ d1 < d /\ e1 = e /\ h1 <= h
             \/ d1 + 2 = d /\ e1 + h1 <= e + h + 1
             \/ d1 = d /\ e1 < e /\ h1 = h
      PROVE  d1 + r + e1 + h1 < d + r + e + h
  BY <1>3
<1>10. ASSUME \/ DialLeft' < DialLeft /\ EmitLeft' = EmitLeft /\ HoldLeft' <= HoldLeft
              \/ DialLeft' + 2 = DialLeft /\ EmitLeft' + HoldLeft' <= EmitLeft + HoldLeft + 1
              \/ DialLeft' = DialLeft /\ EmitLeft' < EmitLeft /\ HoldLeft' = HoldLeft
       PROVE  NodesLeft' < NodesLeft
  <2>1. DialLeft' + RunLeft + EmitLeft' + HoldLeft' < DialLeft + RunLeft + EmitLeft + HoldLeft
    BY <1>3, <1>9, <1>10
  <2>2. DialLeft' + RunLeft' + EmitLeft' + HoldLeft' < DialLeft + RunLeft + EmitLeft + HoldLeft
    BY <1>2, <2>1
  <2>. QED BY <1>0, <1>1, <2>2, DiallerLess, DiallerFalls
<1>11. a' = a \/ a' = Finished(a) \/ a' = SocketUp(a) => HoldLeft' = HoldLeft \/ HoldLeft' = 0
  BY <1>0, DiallerKeeps, DialHandlers
<1>12. \A h \in Nat : h <= h /\ 0 <= h
  OBVIOUS
<1>13. a' = a \/ a' = Finished(a) \/ a' = SocketUp(a) => HoldLeft' <= HoldLeft
  BY <1>9, <1>11, <1>12
<1>4. CASE SubscribesData
  <2>1. DialLeft' < DialLeft /\ EmitLeft' = EmitLeft
    BY <1>4, DiallerKeeps DEF SubscribesData, DialLeft
  <2>2. a' = a \/ a' = Finished(a)
    BY <1>4 DEF SubscribesData, ClosesA
  <2>. QED BY <1>10, <1>13, <2>1, <2>2
<1>5. CASE SubscribesState
  <2>1. DialLeft' < DialLeft /\ EmitLeft' = EmitLeft
    BY <1>5, DiallerKeeps DEF SubscribesState, DialLeft
  <2>2. a' = a \/ a' = SocketUp(a)
    BY <1>5 DEF SubscribesState
  <2>. QED BY <1>10, <1>13, <2>1, <2>2
<1>6. CASE ReplayChecks
  <2>1. DialLeft' + 2 = DialLeft
    BY <1>6 DEF ReplayChecks, DialLeft
  <2>2. a' = Checked(a) /\ pendA'.loop = pendA.loop /\ pendA'.app = Emits(a)
    BY <1>0, <1>6 DEF ReplayChecks, AInv
  <2>3. Len(pendA.loop) \in Nat /\ Len(pendA.app) \in Nat
    BY <1>0, LenProperties DEF AInv
  <2> DEFINE n == Len(pendA.loop)  m == Len(pendA.app)  e == Len(Emits(a))  h == Len(a.early)  h1 == h'
  <2>4. /\ e + h1 <= h + 1 /\ h \in Nat /\ h1 \in Nat
        /\ n \in Nat /\ m \in Nat /\ e \in Nat
    BY <1>0, <2>2, <2>3, EmitsLess
  <2>5. EmitLeft = n + m /\ EmitLeft' = n + e /\ HoldLeft = h /\ HoldLeft' = h1
    BY <2>2 DEF EmitLeft, HoldLeft
  <2>. HIDE DEF n, m, e, h, h1
  <2>6. (n + e) + h1 <= (n + m) + h + 1
    BY <2>4
  <2>7. EmitLeft' + HoldLeft' <= EmitLeft + HoldLeft + 1
    BY <2>5, <2>6
  <2>. QED BY <1>10, <2>1, <2>7
<1>7. CASE Lists
  <2>1. DialLeft' < DialLeft /\ EmitLeft' = EmitLeft
    BY <1>7, DiallerKeeps DEF Lists, DialLeft
  <2>2. a'.early = a.early
    BY <1>0, <1>7 DEF Lists, Conn
  <2>3. HoldLeft' <= HoldLeft
    BY <1>9, <1>12, <2>2, DiallerKeeps
  <2>. QED BY <1>10, <2>1, <2>3
<1>8. CASE EmitsA("app") \/ EmitsA("loop")
  <2>1. EmitLeft' < EmitLeft
    BY <1>0, <1>8, EmitFalls
  <2>2. DialLeft' = DialLeft /\ HoldLeft' = HoldLeft
    BY <1>8, DiallerKeeps DEF EmitsA
  <2>. QED BY <1>10, <2>1, <2>2
<1>. QED BY <1>4, <1>5, <1>6, <1>7, <1>8 DEF Dialling

LEMMA SendsWinds ==
    ASSUME Kinds, Kinds', SendsFrame
    PROVE  NodesLeft' < NodesLeft
<1>0. LeftsTyped /\ LeftsTyped' /\ sending \in Nat /\ QueueForm(q)
  BY LeftsTypes, LeftsTypesNext DEF Kinds, Wires
<1>1. /\ sending # 0 /\ sending' = 0 /\ UNCHANGED <<a, dial, client, greeted, pendA>>
      /\ UNCHANGED <<ab, ba, fetched, pendB, b, net>>
      /\ q' = q \/ q' = Put(q, Off, sending, "drop_old")
  BY DEF SendsFrame, netVars, bVars
<1> DEFINE n == Len(q.frames)  m == Len(q'.frames)
<1>2. n \in Nat /\ m \in Nat /\ m <= n + 1
  <2>1. CASE q' = q
    <3>1. n \in Nat /\ m = n
      BY <1>0, <2>1, LenProperties DEF QueueForm
    <3>. HIDE DEF n, m
    <3>. QED BY <3>1
  <2>2. CASE q' = Put(q, Off, sending, "drop_old")
    BY <1>0, <2>2, PutLess
  <2>. QED BY <1>1, <2>1, <2>2
<1>3. SendLeft = 4 * n + 5 /\ SendLeft' = 4 * m + 0
  BY <1>1 DEF SendLeft
<1>. HIDE DEF n, m
<1>4. SendLeft' + 1 <= SendLeft
  BY <1>2, <1>3
<1>5. /\ GreetLeft' = GreetLeft /\ DialLeft' = DialLeft /\ RunLeft' = RunLeft
      /\ EmitLeft' = EmitLeft /\ HoldLeft' = HoldLeft
  BY <1>1, DiallerKeeps
<1>6. /\ DialLeft \in Nat /\ RunLeft \in Nat /\ GreetLeft \in Nat /\ EmitLeft \in Nat
      /\ HoldLeft \in Nat /\ SendLeft \in Nat /\ SendLeft' \in Nat
  BY <1>0 DEF LeftsTyped
<1>7. /\ \A d, r, e, h \in Nat : d + r + e + h + (-1) < d + r + e + h
      /\ \A g, x, x1 \in Nat : x1 + 1 <= x => g + x1 <= g + x + (-1)
  OBVIOUS
<1>8. /\ DialLeft + RunLeft + EmitLeft + HoldLeft + (-1) < DialLeft + RunLeft + EmitLeft + HoldLeft
      /\ GreetLeft + SendLeft' <= GreetLeft + SendLeft + (-1)
  <2>1. DialLeft + RunLeft + EmitLeft + HoldLeft + (-1) < DialLeft + RunLeft + EmitLeft + HoldLeft
    BY <1>6, <1>7
  <2>2. GreetLeft + SendLeft' <= GreetLeft + SendLeft + (-1)
    BY <1>4, <1>6, <1>7
  <2>. QED BY <2>1, <2>2
<1>9. /\ DialLeft' + RunLeft' + EmitLeft' + HoldLeft' + (-1) < DialLeft + RunLeft + EmitLeft + HoldLeft
      /\ GreetLeft' + SendLeft' <= GreetLeft + SendLeft + (-1)
  BY <1>5, <1>8
<1>10. -1 \in Int
  OBVIOUS
<1>11. DiallerLeft' < DiallerLeft
  BY <1>0, <1>9, <1>10, DiallerParts
<1>. QED BY <1>1, <1>11, DiallerFalls

(* A step that moves k between the dialling node and a socket.             *)
LEMMA Passes ==
    ASSUME Kinds, Kinds', NEW s \in Sockets, NEW k \in Int, NEW n \in Int,
           \A t \in Sockets \ {s} : Untouched(t),
           DialLeft' + RunLeft' + EmitLeft' + HoldLeft' + n + k < DialLeft + RunLeft + EmitLeft + HoldLeft,
           GreetLeft' + SendLeft' <= GreetLeft + SendLeft + n,
           WiresLeft(s)' + TableLeft(s)' <= WiresLeft(s) + TableLeft(s) + k,
           UNCHANGED <<fetched, pendB, b>>
    PROVE  NodesLeft' < NodesLeft
<1>0. LeftsTyped /\ LeftsTyped'
  BY LeftsTypes, LeftsTypesNext
<1>1. /\ DialLeft \in Nat /\ RunLeft \in Nat /\ GreetLeft \in Nat /\ SendLeft \in Nat
      /\ EmitLeft \in Nat /\ HoldLeft \in Nat
      /\ WiresLeft(s) \in Nat /\ FetchLeft(s) \in Nat /\ ServeLeft(s) \in Nat /\ TableLeft(s) \in Nat
  BY <1>0 DEF LeftsTyped
<1>2. /\ DialLeft' \in Nat /\ RunLeft' \in Nat /\ GreetLeft' \in Nat /\ SendLeft' \in Nat
      /\ EmitLeft' \in Nat /\ HoldLeft' \in Nat
      /\ WiresLeft(s)' \in Nat /\ TableLeft(s)' \in Nat
  BY <1>0 DEF LeftsTyped
<1>3. FetchLeft(s)' = FetchLeft(s) /\ ServeLeft(s)' = ServeLeft(s)
  BY DEF FetchLeft, ServeLeft
<1> DEFINE d == DialLeft  r == RunLeft  g == GreetLeft  w == SendLeft  e == EmitLeft  h == HoldLeft
           x == WiresLeft(s)  y == FetchLeft(s)  z == ServeLeft(s)  v == TableLeft(s)
           d1 == d'  r1 == r'  g1 == g'  w1 == w'  e1 == e'  h1 == h'  x1 == x'  v1 == v'
<1>4. /\ d \in Nat /\ r \in Nat /\ g \in Nat /\ w \in Nat /\ e \in Nat /\ h \in Nat
      /\ x \in Nat /\ y \in Nat /\ z \in Nat /\ v \in Nat
  BY <1>1
<1>5. /\ d1 \in Nat /\ r1 \in Nat /\ g1 \in Nat /\ w1 \in Nat /\ e1 \in Nat /\ h1 \in Nat
      /\ x1 \in Nat /\ v1 \in Nat
  BY <1>2
<1>6. /\ d1 + r1 + e1 + h1 + n + k < d + r + e + h /\ g1 + w1 <= g + w + n
      /\ x1 + v1 <= x + v + k
  OBVIOUS
<1>7. /\ DiallerLeft = d + r + g + w + e + h /\ DiallerLeft' = d1 + r1 + g1 + w1 + e1 + h1
      /\ SocketLeft(s) = x + y + z + v
      /\ SocketLeft(s)' = x1 + y + z + v1
  BY <1>3 DEF DiallerLeft, SocketLeft
<1>. HIDE DEF d, r, g, w, e, h, x, y, z, v, d1, r1, g1, w1, e1, h1, x1, v1
<1>8. (d1 + r1 + g1 + w1 + e1 + h1) + (x1 + y + z + v1) < (d + r + g + w + e + h) + (x + y + z + v)
  BY <1>4, <1>5, <1>6
<1>9. DiallerLeft' + SocketLeft(s)' < DiallerLeft + SocketLeft(s)
  BY <1>7, <1>8
<1>. QED BY <1>9, SocketFalls

LEMMA HandshakeCosts ==
    ASSUME AInv, NEW d \in Conn, d.early = a.early, a' = Checked(d),
           pendA' = [pendA EXCEPT !.loop = Emits(d)]
    PROVE  EmitLeft' + HoldLeft' <= EmitLeft + HoldLeft + 1
<1>1. pendA'.app = pendA.app /\ pendA'.loop = Emits(d) /\ a'.early = Checked(d).early
  BY DEF AInv
<1>2. Len(pendA.loop) \in Nat /\ Len(pendA.app) \in Nat
  BY LenProperties DEF AInv
<1> DEFINE n == Len(pendA.loop)  m == Len(pendA.app)  e == Len(Emits(d))  h == Len(a.early)
           h1 == Len(a'.early)
<1>3. /\ e + h1 <= h + 1 /\ h \in Nat /\ h1 \in Nat /\ e \in Nat /\ n \in Nat /\ m \in Nat
  BY <1>1, <1>2, EmitsLess
<1>4. EmitLeft = n + m /\ EmitLeft' = e + m /\ HoldLeft = h /\ HoldLeft' = h1
  BY <1>1 DEF EmitLeft, HoldLeft
<1>. HIDE DEF n, m, e, h, h1
<1>5. (e + m) + h1 <= (n + m) + h + 1
  BY <1>3
<1>. QED BY <1>4, <1>5

LEMMA WritesWinds ==
    ASSUME Kinds, Kinds', Writes, NEW s \in Sockets, s = cur
    PROVE  NodesLeft' < NodesLeft
<1>0. LeftsTyped /\ LeftsTyped' /\ cur \in Sockets /\ QueueForm(q) /\ ab[s] \in Seq(Int)
      /\ ab \in [Sockets -> Seq(Int)]
  BY LeftsTypes, LeftsTypesNext DEF Kinds, Wires
<1>1. /\ UNCHANGED <<a, dial, client, cur, sending, pendA, net, ba, b, fetched, pendB>>
      /\ \/ ~greeted /\ greeted' /\ ab' = Written(s, Hello) /\ UNCHANGED q
         \/ UNCHANGED greeted /\ q.frames # <<>> /\ q' = Take(q) /\ ab' = Written(s, Head(q.frames))
  BY DEF Writes, CanTake, MayGreet, bVars
<1>2. /\ DialLeft' = DialLeft /\ RunLeft' = RunLeft /\ EmitLeft' = EmitLeft /\ HoldLeft' = HoldLeft
  BY <1>1, DiallerKeeps
<1>3. /\ DialLeft \in Nat /\ RunLeft \in Nat /\ EmitLeft \in Nat /\ HoldLeft \in Nat
      /\ GreetLeft \in Nat /\ SendLeft \in Nat /\ WiresLeft(s) \in Nat /\ TableLeft(s) \in Nat
  BY <1>0 DEF LeftsTyped
<1>4. TableLeft(s)' = TableLeft(s)
  BY <1>1 DEF TableLeft
<1>5. ASSUME NEW f \in Int, ab' = Written(s, f)
      PROVE  /\ \A t \in Sockets \ {s} : Untouched(t)
             /\ WiresLeft(s)' + TableLeft(s)'
                  <= WiresLeft(s) + TableLeft(s) + (IF f = Hello THEN 11 ELSE 3)
  <2>1. /\ ab'[s] \in {ab[s], Append(ab[s], f)}
        /\ \A t \in Sockets \ {s} : ab'[t] = ab[t]
    BY <1>0, <1>5, WrittenWire
  <2>2. \A t \in Sockets \ {s} : Untouched(t)
    BY <1>1, <2>1 DEF Untouched
  <2> DEFINE i == Inward(ab[s])  j == Outward(ba[s])  k == IF f = Hello THEN 11 ELSE 3  i1 == i'
  <2>3. i \in Nat /\ j \in Nat
    BY WireTyped DEF Kinds, Wires
  <2>4. i1 = i \/ i1 = i + k
    BY <1>0, <2>1, WireCosts
  <2>5. WiresLeft(s) = i + j /\ WiresLeft(s)' = i1 + j
    BY <1>1 DEF WiresLeft
  <2>6. k \in {3, 11}
    OBVIOUS
  <2>. HIDE DEF i, j, k, i1
  <2>7. \A v \in Nat : i1 + j + v <= i + j + v + k
    BY <2>3, <2>4, <2>6
  <2>8. WiresLeft(s)' + TableLeft(s)' <= WiresLeft(s) + TableLeft(s) + k
    BY <1>3, <1>4, <2>5, <2>7
  <2>. QED BY <2>2, <2>8 DEF k
<1>6. \A d, r, e, h \in Nat : d + r + e + h + (-12) + 11 < d + r + e + h
                          /\ d + r + e + h + (-4) + 3 < d + r + e + h
  OBVIOUS
<1>7. /\ DialLeft' + RunLeft' + EmitLeft' + HoldLeft' + (-12) + 11 < DialLeft + RunLeft + EmitLeft + HoldLeft
      /\ DialLeft' + RunLeft' + EmitLeft' + HoldLeft' + (-4) + 3 < DialLeft + RunLeft + EmitLeft + HoldLeft
  BY <1>2, <1>3, <1>6
<1>8. CASE ~greeted /\ greeted' /\ ab' = Written(s, Hello) /\ UNCHANGED q
  <2>1. GreetLeft = 12 /\ GreetLeft' = 0 /\ SendLeft' = SendLeft
    BY <1>1, <1>8, DiallerKeeps DEF GreetLeft
  <2>2. \A x \in Nat : 0 + x <= 12 + x + (-12)
    OBVIOUS
  <2>3. GreetLeft' + SendLeft' <= GreetLeft + SendLeft + (-12)
    BY <1>3, <2>1, <2>2
  <2>4. Hello \in Int /\ -12 \in Int /\ 11 \in Int
    BY DEF Hello
  <2>5. /\ \A t \in Sockets \ {s} : Untouched(t)
        /\ WiresLeft(s)' + TableLeft(s)' <= WiresLeft(s) + TableLeft(s) + 11
    BY <1>5, <1>8, <2>4
  <2>. QED BY <1>0, <1>1, <1>7, <2>3, <2>4, <2>5, Passes
<1>9. CASE UNCHANGED greeted /\ q.frames # <<>> /\ q' = Take(q) /\ ab' = Written(s, Head(q.frames))
  <2>1. /\ Head(q.frames) \in Nat /\ q'.frames = Tail(q.frames) /\ q.frames \in Seq(Nat)
    BY <1>0, <1>9, TakeForm DEF QueueForm
  <2>2. Head(q.frames) \in Int /\ Head(q.frames) # Hello
    BY <2>1 DEF Hello
  <2>3. /\ \A t \in Sockets \ {s} : Untouched(t)
        /\ WiresLeft(s)' + TableLeft(s)' <= WiresLeft(s) + TableLeft(s) + 3
    BY <1>5, <1>9, <2>2
  <2> DEFINE n == Len(q.frames)  m == Len(q'.frames)
  <2>4. n \in Nat /\ m \in Nat /\ m < n
    BY <1>9, <2>1, PendingHead
  <2>5. SendLeft = 4 * n + (IF sending = 0 THEN 0 ELSE 5) /\ SendLeft' = 4 * m + (IF sending = 0 THEN 0 ELSE 5)
    BY <1>1 DEF SendLeft
  <2>. HIDE DEF n, m
  <2>6. 4 * m + (IF sending = 0 THEN 0 ELSE 5) <= 4 * n + (IF sending = 0 THEN 0 ELSE 5) + (-4)
    BY <2>4
  <2>7. SendLeft' <= SendLeft + (-4) /\ GreetLeft' = GreetLeft
    BY <1>9, <2>5, <2>6, DiallerKeeps
  <2>8. SendLeft' \in Nat
    BY <1>0 DEF LeftsTyped
  <2>9. \A g, x, y \in Nat : y <= x + (-4) => g + y <= g + x + (-4)
    OBVIOUS
  <2>10. GreetLeft' + SendLeft' <= GreetLeft + SendLeft + (-4)
    BY <1>3, <2>7, <2>8, <2>9
  <2>11. -4 \in Int /\ 3 \in Int
    OBVIOUS
  <2>. QED BY <1>0, <1>1, <1>7, <2>3, <2>10, <2>11, Passes
<1>. QED BY <1>1, <1>8, <1>9

(* The receiver takes a frame off the wire.                                *)
LEMMA ReadsLess ==
    ASSUME Kinds, Kinds', NEW s \in Sockets, s = cur, NEW f, Receives(f)
    PROVE  /\ UNCHANGED <<dial, client, greeted, sending, fetched, pendB, b>>
           /\ \A t \in Sockets \ {s} : Untouched(t)
           /\ WiresLeft(s)' + TableLeft(s)'
                <= WiresLeft(s) + TableLeft(s) + (IF f = Hello THEN -6 ELSE -2)
<1>0. /\ ba \in [Sockets -> Seq(Int)] /\ ba[s] \in Seq(Int) /\ ab[s] \in Seq(Int) /\ LeftsTyped
  BY LeftsTypes DEF Kinds, Wires
<1>1. /\ UNCHANGED <<dial, client, cur, greeted, sending, net, ab, b, fetched, pendB>>
      /\ ba[s] # <<>> /\ f = Head(ba[s]) /\ ba' = [ba EXCEPT ![s] = Tail(@)]
  BY DEF Receives, bVars
<1>2. ba'[s] = Tail(ba[s]) /\ \A t \in Sockets \ {s} : ba'[t] = ba[t]
  BY <1>0, <1>1
<1>3. \A t \in Sockets \ {s} : Untouched(t)
  BY <1>1, <1>2 DEF Untouched
<1> DEFINE i == Inward(ab[s])  j == Outward(ba[s])  j1 == j'  v == TableLeft(s)
           k == IF f = Hello THEN -6 ELSE -2
<1>4. i \in Nat /\ j \in Nat
  BY <1>0, WireTyped
<1>5. j1 = Outward(Tail(ba[s])) /\ Outward(Tail(ba[s])) \in Nat
      /\ Outward(Tail(ba[s])) + (IF f = Hello THEN 6 ELSE 2) = j
  BY <1>0, <1>1, <1>2, WireTails, WireTyped
<1>6. WiresLeft(s) = i + j /\ WiresLeft(s)' = i + j1
  BY <1>1 DEF WiresLeft
<1>7. TableLeft(s)' = v /\ v \in Nat
  <2>1. TableLeft(s)' = TableLeft(s)
    BY <1>1 DEF TableLeft
  <2>. QED BY <1>0, <2>1 DEF LeftsTyped
<1>8. j1 = j + k
  BY <1>4, <1>5
<1>9. k \in {-6, -2}
  OBVIOUS
<1>. HIDE DEF i, j, j1, v, k
<1>10. i + j1 + v <= i + j + v + k
  BY <1>4, <1>7, <1>8, <1>9
<1>11. WiresLeft(s)' + TableLeft(s)' <= WiresLeft(s) + TableLeft(s) + k
  BY <1>6, <1>7, <1>10 DEF v
<1>. QED BY <1>1, <1>3, <1>11 DEF k

(* Of a HELLO, it answers with a frame of its queue.                       *)
LEMMA ReadsWind ==
    ASSUME Kinds, Kinds', NEW s \in Sockets, s = cur, NEW f, Receives(f),
           EmitLeft' + HoldLeft' <= EmitLeft + HoldLeft + 1,
           UNCHANGED q \/ (f = Hello /\ q' = Put(q, Off, HelloAck, "drop_old"))
    PROVE  NodesLeft' < NodesLeft
<1>0. LeftsTyped /\ LeftsTyped' /\ QueueForm(q) /\ sending \in Nat
  BY LeftsTypes, LeftsTypesNext DEF Kinds, Wires
<1>1. /\ UNCHANGED <<dial, client, greeted, sending, fetched, pendB, b>>
      /\ \A t \in Sockets \ {s} : Untouched(t)
      /\ WiresLeft(s)' + TableLeft(s)'
           <= WiresLeft(s) + TableLeft(s) + (IF f = Hello THEN -6 ELSE -2)
  BY ReadsLess
<1>2. DialLeft' = DialLeft /\ RunLeft' = RunLeft /\ GreetLeft' = GreetLeft
  BY <1>1, DiallerKeeps
<1>3. /\ DialLeft \in Nat /\ RunLeft \in Nat /\ GreetLeft \in Nat /\ SendLeft \in Nat
      /\ EmitLeft \in Nat /\ HoldLeft \in Nat
  BY <1>0 DEF LeftsTyped
<1>4. SendLeft' \in Nat /\ EmitLeft' \in Nat /\ HoldLeft' \in Nat
  BY <1>0 DEF LeftsTyped
<1>5. ASSUME NEW d \in Nat, NEW r \in Nat, NEW e \in Nat, NEW h \in Nat, NEW e1 \in Nat, NEW h1 \in Nat,
             e1 + h1 <= e + h + 1
      PROVE  d + r + e1 + h1 + 0 + (-2) < d + r + e + h /\ d + r + e1 + h1 + 4 + (-6) < d + r + e + h
  BY <1>5
<1>6. /\ DialLeft + RunLeft + EmitLeft' + HoldLeft' + 0 + (-2) < DialLeft + RunLeft + EmitLeft + HoldLeft
      /\ DialLeft + RunLeft + EmitLeft' + HoldLeft' + 4 + (-6) < DialLeft + RunLeft + EmitLeft + HoldLeft
  <2>1. EmitLeft' + HoldLeft' <= EmitLeft + HoldLeft + 1
    OBVIOUS
  <2>. QED BY <1>3, <1>4, <1>5, <2>1
<1>7. /\ DialLeft' + RunLeft' + EmitLeft' + HoldLeft' + 0 + (-2) < DialLeft + RunLeft + EmitLeft + HoldLeft
      /\ DialLeft' + RunLeft' + EmitLeft' + HoldLeft' + 4 + (-6) < DialLeft + RunLeft + EmitLeft + HoldLeft
  BY <1>2, <1>6
<1>8. -2 \in Int /\ -6 \in Int /\ 0 \in Int /\ 4 \in Int
  OBVIOUS
<1>9. \A x, y \in Nat : x + y <= x + y + 0 /\ x + y + (-6) <= x + y + (-2)
  OBVIOUS
<1>10. CASE UNCHANGED q
  <2>1. SendLeft' = SendLeft
    BY <1>1, <1>10, DiallerKeeps
  <2>2. GreetLeft' + SendLeft' <= GreetLeft + SendLeft + 0
    BY <1>2, <1>3, <1>9, <2>1
  <2>3. WiresLeft(s)' + TableLeft(s)' <= WiresLeft(s) + TableLeft(s) + (-2)
    <3>1. WiresLeft(s) \in Nat /\ TableLeft(s) \in Nat /\ WiresLeft(s)' \in Nat /\ TableLeft(s)' \in Nat
      BY <1>0 DEF LeftsTyped
    <3>2. ASSUME NEW x \in Nat, NEW y \in Nat, NEW x1 \in Nat, NEW y1 \in Nat,
                 x1 + y1 <= x + y + (IF f = Hello THEN -6 ELSE -2)
          PROVE  x1 + y1 <= x + y + (-2)
      BY <3>2
    <3>. QED BY <1>1, <3>1, <3>2
  <2>. QED BY <1>1, <1>7, <1>8, <2>2, <2>3, Passes
<1>11. CASE f = Hello /\ q' = Put(q, Off, HelloAck, "drop_old")
  <2> DEFINE n == Len(q.frames)  m == Len(q'.frames)
  <2>1. n \in Nat /\ m \in Nat /\ m <= n + 1
    <3>1. HelloAck \in Nat
      BY DEF HelloAck
    <3>. QED BY <1>0, <1>11, <3>1, PutLess
  <2>2. SendLeft = 4 * n + (IF sending = 0 THEN 0 ELSE 5) /\ SendLeft' = 4 * m + (IF sending = 0 THEN 0 ELSE 5)
    BY <1>1 DEF SendLeft
  <2>. HIDE DEF n, m
  <2>3. 4 * m + (IF sending = 0 THEN 0 ELSE 5) <= 4 * n + (IF sending = 0 THEN 0 ELSE 5) + 4
    BY <2>1
  <2>4. SendLeft' <= SendLeft + 4
    BY <2>2, <2>3
  <2>5. \A g, x, y \in Nat : y <= x + 4 => g + y <= g + x + 4
    OBVIOUS
  <2>6. GreetLeft' + SendLeft' <= GreetLeft + SendLeft + 4
    BY <1>2, <1>3, <1>4, <2>4, <2>5
  <2>7. WiresLeft(s)' + TableLeft(s)' <= WiresLeft(s) + TableLeft(s) + (-6)
    BY <1>1, <1>11
  <2>. QED BY <1>1, <1>7, <1>8, <2>6, <2>7, Passes
<1>. QED BY <1>10, <1>11

LEMMA ReceivesWind ==
    ASSUME Kinds, Kinds', Ignores \/ ReceivesHello \/ ReceivesAck \/ ReceivesData
    PROVE  NodesLeft' < NodesLeft
<1>0. AInv /\ a \in Conn /\ LeftsTyped /\ LeftsTyped'
  BY LeftsTypes, LeftsTypesNext DEF Kinds, AInv
<1>1. PICK f : Receives(f)
  BY DEF Ignores, ReceivesHello, ReceivesAck, ReceivesData
<1>2. cur \in Sockets
  BY <1>1 DEF Kinds, Wires, Receives
<1>3. \A e, h \in Nat : e + h <= e + h + 1 /\ e + 0 <= e + h + 1 /\ e + (h + 1) <= e + h + 1
  OBVIOUS
<1>4. EmitLeft \in Nat /\ HoldLeft \in Nat
  BY <1>0 DEF LeftsTyped
<1>5. CASE Ignores
  <2>1. UNCHANGED <<a, q, pendA>>
    BY <1>5 DEF Ignores
  <2>2. EmitLeft' = EmitLeft /\ HoldLeft' = HoldLeft
    BY <2>1, DiallerKeeps
  <2>3. EmitLeft' + HoldLeft' <= EmitLeft + HoldLeft + 1
    BY <1>3, <1>4, <2>2
  <2>. QED BY <1>1, <1>2, <2>1, <2>3, ReadsWind
<1>6. CASE ReceivesHello
  <2>1. /\ Receives(Hello) /\ a' = Checked(Greets(a)) /\ pendA' = [pendA EXCEPT !.loop = Emits(Greets(a))]
        /\ q' = Put(q, Off, HelloAck, "drop_old")
    BY <1>6 DEF ReceivesHello
  <2>2. Greets(a) \in Conn /\ Greets(a).early = a.early
    BY <1>0, GreetsSame, DialHandlers
  <2>3. EmitLeft' + HoldLeft' <= EmitLeft + HoldLeft + 1
    BY <1>0, <2>1, <2>2, HandshakeCosts
  <2>. QED BY <1>2, <2>1, <2>3, ReadsWind
<1>7. CASE ReceivesAck
  <2> DEFINE d == [a EXCEPT !.ack = TRUE]
  <2>1. Receives(HelloAck) /\ a' = Checked(d) /\ pendA' = [pendA EXCEPT !.loop = Emits(d)] /\ UNCHANGED q
    BY <1>7 DEF ReceivesAck
  <2>2. d \in Conn /\ d.early = a.early
    BY <1>0 DEF Conn
  <2>. HIDE DEF d
  <2>3. EmitLeft' + HoldLeft' <= EmitLeft + HoldLeft + 1
    BY <1>0, <2>1, <2>2, HandshakeCosts
  <2>. QED BY <1>2, <2>1, <2>3, ReadsWind
<1>8. CASE ReceivesData
  <2>1. PICK g \in 1..DataB : Receives(g) /\ UNCHANGED <<q, pendA>>
                             /\ (a' = a \/ a' = Held(a, g) \/ a' = Finished(a))
    BY <1>8 DEF ReceivesData, ClosesA
  <2>2. EmitLeft' = EmitLeft
    BY <2>1, DiallerKeeps
  <2>3. HoldLeft' \in {HoldLeft, 0, HoldLeft + 1}
    <3>1. CASE a' = a \/ a' = Finished(a)
      BY <1>0, <3>1, DiallerKeeps, DialHandlers
    <3>2. CASE a' = Held(a, g)
      <4>1. a'.early = Append(a.early, g) /\ a.early \in Seq(Nat) /\ g \in Nat
        BY <1>0, <3>2, GatewayAssumption DEF Held, Conn
      <4>2. Len(Append(a.early, g)) = Len(a.early) + 1
        BY <4>1, AppendProperties
      <4>. QED BY <4>1, <4>2 DEF HoldLeft
    <3>. QED BY <2>1, <3>1, <3>2
  <2>4. EmitLeft' + HoldLeft' <= EmitLeft + HoldLeft + 1
    BY <1>3, <1>4, <2>2, <2>3
  <2>. QED BY <1>2, <2>1, <2>4, ReadsWind
<1>. QED BY <1>5, <1>6, <1>7, <1>8

(* A step that ends the client's socket, or the client.                    *)
LEMMA RunsWind ==
    ASSUME Kinds, Kinds', NEW s \in Sockets,
           UNCHANGED <<dial, greeted, q, sending, pendA, fetched, pendB, b, ab>>,
           \A t \in Sockets \ {s} : Untouched(t),
           a'.early = a.early \/ a'.early = <<>>, RunLeft' < RunLeft,
           ba'[s] = ba[s] \/ ba'[s] = <<>>, net'[s] = "open" => net[s] = "open"
    PROVE  NodesLeft' < NodesLeft
<1>0. LeftsTyped /\ LeftsTyped' /\ ab[s] \in Seq(Int) /\ ba[s] \in Seq(Int)
  BY LeftsTypes, LeftsTypesNext DEF Kinds, Wires
<1>1. /\ DialLeft' = DialLeft /\ GreetLeft' = GreetLeft /\ SendLeft' = SendLeft /\ EmitLeft' = EmitLeft
      /\ HoldLeft' = HoldLeft \/ HoldLeft' = 0
  BY DiallerKeeps
<1>2. /\ DialLeft \in Nat /\ RunLeft \in Nat /\ GreetLeft \in Nat /\ SendLeft \in Nat
      /\ EmitLeft \in Nat /\ HoldLeft \in Nat /\ RunLeft' \in Nat /\ HoldLeft' \in Nat
  BY <1>0 DEF LeftsTyped
<1>3. ASSUME NEW d \in Nat, NEW r \in Nat, NEW e \in Nat, NEW h \in Nat, NEW r1 \in Nat, NEW h1 \in Nat,
             r1 < r, h1 = h \/ h1 = 0
      PROVE  d + r1 + e + h1 + 0 + 0 < d + r + e + h
  BY <1>3
<1>4. DialLeft + RunLeft' + EmitLeft + HoldLeft' + 0 + 0 < DialLeft + RunLeft + EmitLeft + HoldLeft
  <2>1. RunLeft' < RunLeft
    OBVIOUS
  <2>. QED BY <1>1, <1>2, <1>3, <2>1
<1>5. DialLeft' + RunLeft' + EmitLeft' + HoldLeft' + 0 + 0 < DialLeft + RunLeft + EmitLeft + HoldLeft
  BY <1>1, <1>4
<1>6. \A x, y \in Nat : x + y <= x + y + 0
  OBVIOUS
<1>7. GreetLeft' + SendLeft' <= GreetLeft + SendLeft + 0
  BY <1>1, <1>2, <1>6
<1> DEFINE i == Inward(ab[s])  j == Outward(ba[s])  j1 == j'  v == TableLeft(s)  v1 == v'
<1>8. i \in Nat /\ j \in Nat /\ v \in Nat /\ v1 \in Nat
  BY <1>0, WireTyped DEF LeftsTyped
<1>9. j1 = j \/ j1 = 0
  BY WireEmpty
<1>10. WiresLeft(s) = i + j /\ WiresLeft(s)' = i + j1
  BY DEF WiresLeft
<1>11. v1 <= v
  BY DEF TableLeft
<1>. HIDE DEF i, j, j1, v, v1
<1>12. i + j1 + v1 <= i + j + v + 0
  BY <1>8, <1>9, <1>11
<1>13. WiresLeft(s)' + TableLeft(s)' <= WiresLeft(s) + TableLeft(s) + 0
  BY <1>10, <1>12 DEF v, v1
<1>14. 0 \in Int
  OBVIOUS
<1>. QED BY <1>5, <1>7, <1>13, <1>14, Passes

LEMMA EndsWind ==
    ASSUME Kinds, Kinds', Drops \/ EndsClient
    PROVE  NodesLeft' < NodesLeft
<1>0. /\ LeftsTyped /\ LeftsTyped' /\ a \in Conn
      /\ net \in [Sockets -> NetStates] /\ ba \in [Sockets -> Seq(Int)] /\ cur \in 0..MaxSockets
  BY LeftsTypes, LeftsTypesNext DEF Kinds, Wires, AInv
<1>1. CASE Drops
  <2>1. /\ client = "up" /\ client' = "down" /\ cur \in Sockets
        /\ ba' = [ba EXCEPT ![cur] = <<>>] /\ (a' = SocketDown(a) \/ a' = a)
        /\ UNCHANGED <<dial, greeted, q, sending, pendA, fetched, pendB, b, ab, net>>
    BY <1>1 DEF Drops, bVars, Kinds, Wires
  <2>2. PICK s \in Sockets : s = cur
    BY <2>1
  <2>3. ba'[s] = <<>> /\ \A t \in Sockets \ {s} : ba'[t] = ba[t]
    BY <1>0, <2>1, <2>2
  <2>4. \A t \in Sockets \ {s} : Untouched(t)
    BY <2>1, <2>3 DEF Untouched
  <2>5. a'.early = a.early \/ a'.early = <<>>
    BY <1>0, <2>1 DEF SocketDown, Conn
  <2>6. RunLeft' < RunLeft
    BY <2>1 DEF RunLeft
  <2>. QED BY <2>1, <2>3, <2>4, <2>5, <2>6, RunsWind
<1>2. CASE EndsClient
  <2>1. /\ client # "ended" /\ client' = "ended"
        /\ net' = IF cur = 0 THEN net ELSE Shut(cur)
        /\ UNCHANGED <<a, dial, greeted, q, sending, pendA, fetched, pendB, b, ab, ba>>
    BY <1>2 DEF EndsClient, bVars
  <2>2. PICK s \in Sockets : cur # 0 => s = cur
    <3>1. CASE cur = 0
      <4>1. 1 \in Sockets
        BY GatewayAssumption
      <4>. QED BY <3>1, <4>1
    <3>2. CASE cur # 0
      <4>1. cur \in Sockets
        BY <1>0, <3>2, GatewayAssumption
      <4>. QED BY <4>1
    <3>. QED BY <3>1, <3>2
  <2>3. /\ net'[s] = net[s] \/ net'[s] = "closed"
        /\ \A t \in Sockets \ {s} : net'[t] = net[t]
    BY <1>0, <2>1, <2>2 DEF Shut
  <2>4. \A t \in Sockets \ {s} : Untouched(t)
    BY <2>1, <2>3 DEF Untouched
  <2>5. RunLeft' < RunLeft
    BY <2>1 DEF RunLeft
  <2>. QED BY <2>1, <2>3, <2>4, <2>5, RunsWind
<1>. QED BY <1>1, <1>2

(* A step of the listening node alone.                                     *)
LEMMA ServesFall ==
    ASSUME Kinds, Kinds', NEW s \in Sockets, UNCHANGED aVars,
           \A t \in Sockets \ {s} : Untouched(t),
           WiresLeft(s)' + FetchLeft(s)' + ServeLeft(s)' + TableLeft(s)'
             < WiresLeft(s) + FetchLeft(s) + ServeLeft(s) + TableLeft(s)
    PROVE  NodesLeft' < NodesLeft
<1>1. DiallerLeft' = DiallerLeft
  BY DEF aVars, DiallerLeft, DialLeft, RunLeft, GreetLeft, SendLeft, EmitLeft, HoldLeft
<1>2. SocketLeft(s)' < SocketLeft(s)
  BY DEF SocketLeft
<1>3. DiallerLeft \in Nat /\ SocketLeft(s) \in Nat /\ SocketLeft(s)' \in Nat
  BY LeftsTypes, LeftsTypesNext DEF LeftsTyped
<1>4. \A d, x, y \in Nat : y < x => d + y < d + x
  OBVIOUS
<1>5. DiallerLeft' + SocketLeft(s)' < DiallerLeft + SocketLeft(s)
  BY <1>1, <1>2, <1>3, <1>4
<1>. QED BY <1>5, SocketFalls

LEMMA SocketTyped ==
    ASSUME Kinds, NEW s \in Sockets
    PROVE  /\ ab[s] \in Seq(Int) /\ ba[s] \in Seq(Int) /\ b[s] \in Conn /\ pendB[s] \in Seq(Nat)
           /\ ab \in [Sockets -> Seq(Int)] /\ ba \in [Sockets -> Seq(Int)] /\ b \in [Sockets -> Conn]
           /\ pendB \in [Sockets -> Seq(Nat)] /\ net \in [Sockets -> NetStates]
           /\ WiresLeft(s) \in Nat /\ FetchLeft(s) \in Nat /\ ServeLeft(s) \in Nat /\ TableLeft(s) \in Nat
           /\ s # 0 /\ b[s].direction = "inbound"
<1>1. LeftsTyped
  BY LeftsTypes
<1>. QED BY <1>1, SocketNat DEF LeftsTyped, Kinds, Wires, BInv, BTypes, LivesOnce

LEMMA SocketTypedNext ==
    ASSUME Kinds', NEW s \in Sockets
    PROVE  WiresLeft(s)' \in Nat /\ FetchLeft(s)' \in Nat /\ ServeLeft(s)' \in Nat /\ TableLeft(s)' \in Nat
<1>1. LeftsTyped'
  BY LeftsTypesNext
<1>. QED BY <1>1 DEF LeftsTyped

(* What a step moves at a socket: of its wires, its frame in hand, what    *)
(* its connection holds and emits, its row in the table.                   *)
LEMMA SocketParts ==
    ASSUME Kinds, Kinds', NEW s \in Sockets, UNCHANGED aVars,
           \A t \in Sockets \ {s} : Untouched(t),
           NEW i \in Int, NEW j \in Int, NEW k \in Int, NEW l \in Int, i + j + k + l < 0,
           WiresLeft(s)' <= WiresLeft(s) + i, FetchLeft(s)' <= FetchLeft(s) + j,
           ServeLeft(s)' <= ServeLeft(s) + k, TableLeft(s)' <= TableLeft(s) + l
    PROVE  NodesLeft' < NodesLeft
<1>1. /\ WiresLeft(s) \in Nat /\ FetchLeft(s) \in Nat /\ ServeLeft(s) \in Nat /\ TableLeft(s) \in Nat
      /\ WiresLeft(s)' \in Nat /\ FetchLeft(s)' \in Nat /\ ServeLeft(s)' \in Nat /\ TableLeft(s)' \in Nat
  BY SocketTyped, SocketTypedNext
<1> DEFINE w == WiresLeft(s)  f == FetchLeft(s)  v == ServeLeft(s)  t == TableLeft(s)
           w1 == w'  f1 == f'  v1 == v'  t1 == t'
<1>2. /\ w \in Nat /\ f \in Nat /\ v \in Nat /\ t \in Nat
      /\ w1 \in Nat /\ f1 \in Nat /\ v1 \in Nat /\ t1 \in Nat
      /\ w1 <= w + i /\ f1 <= f + j /\ v1 <= v + k /\ t1 <= t + l
  BY <1>1
<1>. HIDE DEF w, f, v, t, w1, f1, v1, t1
<1>3. w1 + f1 + v1 + t1 < w + f + v + t
  BY <1>2
<1>4. WiresLeft(s)' + FetchLeft(s)' + ServeLeft(s)' + TableLeft(s)'
        < WiresLeft(s) + FetchLeft(s) + ServeLeft(s) + TableLeft(s)
  BY <1>3 DEF w, f, v, t, w1, f1, v1, t1
<1>. QED BY <1>4, ServesFall

LEMMA SocketKeeps ==
    ASSUME NEW s \in Sockets
    PROVE  /\ UNCHANGED <<ab[s], ba[s]>> => WiresLeft(s)' = WiresLeft(s)
           /\ UNCHANGED fetched => FetchLeft(s)' = FetchLeft(s)
           /\ UNCHANGED <<pendB[s], b[s]>> => ServeLeft(s)' = ServeLeft(s)
           /\ UNCHANGED <<b[s], net[s]>> => TableLeft(s)' = TableLeft(s)
           /\ fetched' = Idle => FetchLeft(s)' = 0
<1>1. Idle.socket # s
  BY SocketNat DEF Idle
<1>. QED BY <1>1 DEF WiresLeft, FetchLeft, ServeLeft, TableLeft

LEMMA AcceptsWinds ==
    ASSUME Kinds, Kinds', NEW s \in Sockets, Accepts(s) \/ Closes(s) \/ EmitsB(s)
    PROVE  NodesLeft' < NodesLeft
<1>0. /\ b \in [Sockets -> Conn] /\ pendB \in [Sockets -> Seq(Nat)] /\ pendB[s] \in Seq(Nat)
      /\ net \in [Sockets -> NetStates] /\ b[s] \in Conn
      /\ WiresLeft(s) \in Nat /\ FetchLeft(s) \in Nat /\ ServeLeft(s) \in Nat /\ TableLeft(s) \in Nat
      /\ ServeLeft(s)' \in Nat /\ TableLeft(s)' \in Nat
  BY SocketTyped, SocketTypedNext
<1>1. UNCHANGED <<ab, ba, fetched>> /\ UNCHANGED aVars
  BY DEF Accepts, Closes, EmitsB, netVars, bVars
<1>2. WiresLeft(s)' = WiresLeft(s) /\ FetchLeft(s)' = FetchLeft(s)
  BY <1>1, SocketKeeps
<1>3. ASSUME NEW x \in Nat, NEW y \in Nat PROVE (y < x => y <= x + (-1)) /\ (y <= x => y <= x + 0)
  OBVIOUS
<1>4. WiresLeft(s)' <= WiresLeft(s) + 0 /\ FetchLeft(s)' <= FetchLeft(s) + 0
  BY <1>0, <1>2
<1>5. ASSUME \A t \in Sockets \ {s} : Untouched(t),
             \/ ServeLeft(s)' <= ServeLeft(s) /\ TableLeft(s)' < TableLeft(s)
             \/ ServeLeft(s)' < ServeLeft(s) /\ TableLeft(s)' <= TableLeft(s)
      PROVE  NodesLeft' < NodesLeft
  <2>1. 0 \in Int /\ -1 \in Int /\ 0 + 0 + 0 + (-1) < 0 /\ 0 + 0 + (-1) + 0 < 0
    OBVIOUS
  <2>2. \/ ServeLeft(s)' <= ServeLeft(s) + 0 /\ TableLeft(s)' <= TableLeft(s) + (-1)
        \/ ServeLeft(s)' <= ServeLeft(s) + (-1) /\ TableLeft(s)' <= TableLeft(s) + 0
    BY <1>0, <1>3, <1>5
  <2>. QED BY <1>1, <1>4, <1>5, <2>1, <2>2, SocketParts
<1>6. CASE Accepts(s)
  <2> DEFINE c == [NewConnection("inbound", "HANDSHAKING") EXCEPT !.listed = TRUE]
  <2>1. b[s].state = "none" /\ b' = [b EXCEPT ![s] = c] /\ UNCHANGED <<net, pendB>>
    BY <1>6 DEF Accepts, netVars
  <2>2. c.early = <<>> /\ c.state = "HANDSHAKING" /\ c.listed = TRUE
    BY DEF NewConnection
  <2>. HIDE DEF c
  <2>3. b'[s] = c /\ \A t \in Sockets \ {s} : b'[t] = b[t]
    BY <1>0, <2>1
  <2>4. TableLeft(s)' < TableLeft(s)
    BY <2>1, <2>2, <2>3 DEF TableLeft
  <2>5. ServeLeft(s)' <= ServeLeft(s)
    <3> DEFINE n == Len(pendB[s])  m == Len(b[s].early)
    <3>1. n \in Nat /\ m \in Nat
      BY <1>0, LenProperties DEF Conn
    <3>2. ServeLeft(s) = n + m /\ ServeLeft(s)' = n + Len(<<>>) /\ Len(<<>>) = 0
      BY <2>1, <2>2, <2>3 DEF ServeLeft
    <3>. HIDE DEF n, m
    <3>. QED BY <3>1, <3>2
  <2>6. \A t \in Sockets \ {s} : Untouched(t)
    BY <1>1, <2>1, <2>3 DEF Untouched
  <2>. QED BY <1>5, <2>4, <2>5, <2>6
<1>7. CASE Closes(s)
  <2>1. net[s] = "open" /\ net' = Shut(s) /\ UNCHANGED <<b, pendB>>
    BY <1>7 DEF Closes, bVars
  <2>2. net'[s] = "closed" /\ \A t \in Sockets \ {s} : net'[t] = net[t]
    BY <1>0, <2>1 DEF Shut
  <2>3. TableLeft(s)' < TableLeft(s)
    BY <2>1, <2>2 DEF TableLeft
  <2>4. ServeLeft(s)' <= ServeLeft(s)
    <3>1. ServeLeft(s)' = ServeLeft(s)
      BY <2>1, SocketKeeps
    <3>. QED BY <1>0, <3>1
  <2>5. \A t \in Sockets \ {s} : Untouched(t)
    BY <1>1, <2>1, <2>2 DEF Untouched
  <2>. QED BY <1>5, <2>3, <2>4, <2>5
<1>8. CASE EmitsB(s)
  <2>1. pendB[s] # <<>> /\ pendB' = [pendB EXCEPT ![s] = Tail(@)] /\ UNCHANGED <<b, net>>
    BY <1>8 DEF EmitsB, netVars
  <2>2. pendB'[s] = Tail(pendB[s]) /\ \A t \in Sockets \ {s} : pendB'[t] = pendB[t]
    BY <1>0, <2>1
  <2>3. TableLeft(s)' <= TableLeft(s)
    <3>1. TableLeft(s)' = TableLeft(s)
      BY <2>1, SocketKeeps
    <3>. QED BY <1>0, <3>1
  <2>4. ServeLeft(s)' < ServeLeft(s)
    <3> DEFINE n == Len(pendB[s])  m == Len(b[s].early)  n1 == Len(Tail(pendB[s]))
    <3>1. n \in Nat /\ m \in Nat /\ n1 \in Nat /\ n1 < n
      BY <1>0, <2>1, LenProperties, PendingHead DEF Conn
    <3>2. ServeLeft(s) = n + m /\ ServeLeft(s)' = n1 + m
      BY <2>1, <2>2 DEF ServeLeft
    <3>. HIDE DEF n, m, n1
    <3>. QED BY <3>1, <3>2
  <2>5. \A t \in Sockets \ {s} : Untouched(t)
    BY <1>1, <2>1, <2>2 DEF Untouched
  <2>. QED BY <1>5, <2>3, <2>4, <2>5
<1>. QED BY <1>6, <1>7, <1>8

LEMMA FetchesWinds ==
    ASSUME Kinds, Kinds', NEW s \in Sockets, Fetches(s)
    PROVE  NodesLeft' < NodesLeft
<1>0. /\ ab \in [Sockets -> Seq(Int)] /\ ab[s] \in Seq(Int) /\ ba[s] \in Seq(Int) /\ s # 0
      /\ WiresLeft(s) \in Nat /\ FetchLeft(s) \in Nat /\ ServeLeft(s) \in Nat /\ TableLeft(s) \in Nat
  BY SocketTyped
<1>1. /\ fetched = Idle /\ ab[s] # <<>> /\ ab' = [ab EXCEPT ![s] = Tail(@)]
      /\ fetched' = [socket |-> s, frame |-> Head(ab[s])] /\ UNCHANGED <<b, pendB, net, ba>>
      /\ UNCHANGED aVars
  BY DEF Fetches, ServerFree
<1>2. ab'[s] = Tail(ab[s]) /\ \A t \in Sockets \ {s} : ab'[t] = ab[t]
  BY <1>0, <1>1
<1>3. \A t \in Sockets \ {s} : Untouched(t)
  BY <1>1, <1>2, SocketNat DEF Untouched, Idle
<1>4. ServeLeft(s)' = ServeLeft(s) /\ TableLeft(s)' = TableLeft(s)
  BY <1>1, SocketKeeps
<1> DEFINE i == Inward(ab[s])  i1 == Inward(Tail(ab[s]))  j == Outward(ba[s])  h == Head(ab[s])
<1>5. /\ i \in Nat /\ j \in Nat /\ i1 \in Nat /\ i1 + (IF h = Hello THEN 11 ELSE 3) = i
  BY <1>0, <1>1, WireTails, WireTyped
<1>6. WiresLeft(s) = i + j /\ WiresLeft(s)' = i1 + j
  BY <1>1, <1>2 DEF WiresLeft
<1>7. FetchLeft(s) = 0 /\ FetchLeft(s)' = IF h = Hello THEN 10 ELSE 2
  BY <1>0, <1>1 DEF FetchLeft, Idle
<1>. HIDE DEF i, i1, j, h
<1>8. \A x \in Nat : x <= x + 0
  OBVIOUS
<1>9. ServeLeft(s)' <= ServeLeft(s) + 0 /\ TableLeft(s)' <= TableLeft(s) + 0
  BY <1>0, <1>4, <1>8
<1>10. CASE h = Hello
  <2>1. WiresLeft(s)' <= WiresLeft(s) + (-11) /\ FetchLeft(s)' <= FetchLeft(s) + 10
    BY <1>5, <1>6, <1>7, <1>10
  <2>2. -11 \in Int /\ 10 \in Int /\ 0 \in Int /\ -11 + 10 + 0 + 0 < 0
    OBVIOUS
  <2>. QED BY <1>1, <1>3, <1>9, <2>1, <2>2, SocketParts
<1>11. CASE h # Hello
  <2>1. WiresLeft(s)' <= WiresLeft(s) + (-3) /\ FetchLeft(s)' <= FetchLeft(s) + 2
    BY <1>5, <1>6, <1>7, <1>11
  <2>2. -3 \in Int /\ 2 \in Int /\ 0 \in Int /\ -3 + 2 + 0 + 0 < 0
    OBVIOUS
  <2>. QED BY <1>1, <1>3, <1>9, <2>1, <2>2, SocketParts
<1>. QED BY <1>10, <1>11

(* A handshake that completes at B costs its event, and keeps its row.     *)
LEMMA SettlesCosts ==
    ASSUME Kinds, NEW s \in Sockets, NEW c \in Conn, c.early = b[s].early, c.listed = b[s].listed,
           c.state = "none" => b[s].state = "none", Settles(s, c), UNCHANGED net
    PROVE  /\ ServeLeft(s)' <= ServeLeft(s) + 1 /\ TableLeft(s)' <= TableLeft(s) + 0
           /\ \A t \in Sockets \ {s} : UNCHANGED <<b[t], pendB[t]>>
<1>0. /\ b \in [Sockets -> Conn] /\ pendB \in [Sockets -> Seq(Nat)] /\ pendB[s] \in Seq(Nat) /\ b[s] \in Conn
      /\ TableLeft(s) \in Nat
  BY SocketTyped
<1>1. /\ b'[s] = Checked(c) /\ pendB'[s] = Emits(c)
      /\ \A t \in Sockets \ {s} : b'[t] = b[t] /\ pendB'[t] = pendB[t]
  BY <1>0 DEF Settles
<1> DEFINE n == Len(pendB[s])  h == Len(b[s].early)  e == Len(Emits(c))  h1 == Len(Checked(c).early)
<1>2. n \in Nat /\ h \in Nat /\ e \in Nat /\ h1 \in Nat /\ e + h1 <= h + 1
  BY <1>0, LenProperties, EmitsLess
<1>3. ServeLeft(s) = n + h /\ ServeLeft(s)' = e + h1
  BY <1>1 DEF ServeLeft
<1>4. /\ Checked(c).listed = c.listed /\ (Checked(c).state = "none" => c.state = "none")
  BY CheckedSame, DialHandlers
<1>. HIDE DEF n, h, e, h1
<1>5. ServeLeft(s)' <= ServeLeft(s) + 1
  BY <1>2, <1>3
<1>6. TableLeft(s)' <= TableLeft(s) + 0
  BY <1>1, <1>4 DEF TableLeft
<1>. QED BY <1>1, <1>5, <1>6

LEMMA HandlesWinds ==
    ASSUME Kinds, Kinds', NEW s \in Sockets, HandlesHello(s) \/ HandlesAck(s)
    PROVE  NodesLeft' < NodesLeft
<1>0. /\ b[s] \in Conn /\ ab[s] \in Seq(Int) /\ ba[s] \in Seq(Int) /\ ba \in [Sockets -> Seq(Int)] /\ s # 0
      /\ WiresLeft(s) \in Nat /\ FetchLeft(s) \in Nat
  BY SocketTyped
<1>1. fetched.socket = s /\ fetched' = Idle /\ UNCHANGED net /\ UNCHANGED ab /\ UNCHANGED aVars
  BY DEF HandlesHello, HandlesAck, Handles
<1>2. FetchLeft(s)' = 0
  BY <1>1, SocketKeeps
<1>3. ASSUME \A t \in Sockets \ {s} : UNCHANGED <<b[t], pendB[t], ba[t]>>
      PROVE  \A t \in Sockets \ {s} : Untouched(t)
  BY <1>1, <1>3, SocketNat DEF Untouched, Idle
<1>4. CASE HandlesHello(s)
  <2> DEFINE c == Greets(b[s])
  <2>1. fetched.frame = Hello /\ Settles(s, c) /\ ba' = Posted(s, Replies(b[s]))
    BY <1>4 DEF HandlesHello, Handles
  <2>2. /\ c \in Conn /\ c.early = b[s].early /\ c.listed = b[s].listed
        /\ c.state = "none" => b[s].state = "none"
    BY <1>0, GreetsSame, DialHandlers
  <2>. HIDE DEF c
  <2>3. /\ ServeLeft(s)' <= ServeLeft(s) + 1 /\ TableLeft(s)' <= TableLeft(s) + 0
        /\ \A t \in Sockets \ {s} : UNCHANGED <<b[t], pendB[t]>>
    BY <1>1, <2>1, <2>2, SettlesCosts
  <2>4. /\ ba'[s] \in {ba[s], ba[s] \o Replies(b[s])}
        /\ \A t \in Sockets \ {s} : ba'[t] = ba[t]
    <3>1. Replies(b[s]) \in Seq(Int)
      BY RepliesTyped
    <3> DEFINE r == Replies(b[s])
    <3>. HIDE DEF r
    <3>2. /\ Posted(s, r)[s] = IF net[s] = "open" THEN ba[s] \o r ELSE ba[s]
          /\ \A t \in Sockets \ {s} : Posted(s, r)[t] = ba[t]
      BY <1>0, <3>1, PostedWire DEF r
    <3>. QED BY <2>1, <3>2 DEF r
  <2>5. WiresLeft(s)' <= WiresLeft(s) + 8
    <3> DEFINE i == Inward(ab[s])  j == Outward(ba[s])  r == Outward(ba[s] \o Replies(b[s]))  j1 == j'
    <3>1. i \in Nat /\ j \in Nat /\ r \in Nat /\ r <= j + 8
      <4>1. ba[s] \o Replies(b[s]) \in Seq(Int)
        BY <1>0, RepliesTyped, ConcatProperties
      <4>. QED BY <1>0, <4>1, WireTyped, WireReplies
    <3>2. j1 = j \/ j1 = r
      BY <2>4
    <3>3. WiresLeft(s) = i + j /\ WiresLeft(s)' = i + j1
      BY <1>1 DEF WiresLeft
    <3>. HIDE DEF i, j, r, j1
    <3>. QED BY <3>1, <3>2, <3>3
  <2>6. FetchLeft(s)' <= FetchLeft(s) + (-10)
    <3>1. FetchLeft(s) = 10
      BY <1>1, <2>1 DEF FetchLeft
    <3>. QED BY <1>2, <3>1
  <2>7. 8 \in Int /\ -10 \in Int /\ 1 \in Int /\ 0 \in Int /\ 8 + (-10) + 1 + 0 < 0
    OBVIOUS
  <2>8. \A t \in Sockets \ {s} : Untouched(t)
    BY <1>3, <2>3, <2>4
  <2>. QED BY <1>1, <2>3, <2>5, <2>6, <2>7, <2>8, SocketParts
<1>5. CASE HandlesAck(s)
  <2> DEFINE c == [b[s] EXCEPT !.ack = TRUE]
  <2>1. fetched.frame = HelloAck /\ Settles(s, c) /\ UNCHANGED ba
    BY <1>5 DEF HandlesAck, Handles
  <2>2. /\ c \in Conn /\ c.early = b[s].early /\ c.listed = b[s].listed /\ c.state = b[s].state
    BY <1>0 DEF Conn
  <2>. HIDE DEF c
  <2>3. /\ ServeLeft(s)' <= ServeLeft(s) + 1 /\ TableLeft(s)' <= TableLeft(s) + 0
        /\ \A t \in Sockets \ {s} : UNCHANGED <<b[t], pendB[t]>>
    BY <1>1, <2>1, <2>2, SettlesCosts
  <2>4. WiresLeft(s)' <= WiresLeft(s) + 0
    <3>1. WiresLeft(s)' = WiresLeft(s)
      BY <1>1, <2>1, SocketKeeps
    <3>. QED BY <1>0, <3>1
  <2>5. FetchLeft(s)' <= FetchLeft(s) + (-2)
    <3>1. FetchLeft(s) = 2
      BY <1>1, <2>1 DEF FetchLeft, Hello, HelloAck
    <3>. QED BY <1>2, <3>1
  <2>6. -2 \in Int /\ 1 \in Int /\ 0 \in Int /\ 0 + (-2) + 1 + 0 < 0
    OBVIOUS
  <2>7. \A t \in Sockets \ {s} : Untouched(t)
    BY <1>3, <2>1, <2>3
  <2>. QED BY <1>1, <2>3, <2>4, <2>5, <2>6, <2>7, SocketParts
<1>. QED BY <1>4, <1>5

(* A connection that _finish ends holds nothing, and left the table.       *)
LEMMA EndsCosts ==
    ASSUME Kinds, Kinds', NEW s \in Sockets, EndsB(s), UNCHANGED <<net, pendB, ba>>
    PROVE  /\ WiresLeft(s)' <= WiresLeft(s) /\ ServeLeft(s)' <= ServeLeft(s) /\ TableLeft(s)' <= TableLeft(s)
           /\ b[s].listed => TableLeft(s)' < TableLeft(s)
           /\ \A t \in Sockets \ {s} : UNCHANGED <<b[t], ab[t]>>
<1>0. /\ b \in [Sockets -> Conn] /\ pendB[s] \in Seq(Nat) /\ b[s] \in Conn
      /\ ab[s] \in Seq(Int) /\ ba[s] \in Seq(Int) /\ ab \in [Sockets -> Seq(Int)]
  BY SocketTyped
<1>1. /\ b'[s] = Finished(b[s]) /\ ab'[s] = <<>>
      /\ \A t \in Sockets \ {s} : b'[t] = b[t] /\ ab'[t] = ab[t]
  BY <1>0 DEF EndsB
<1>2. Finished(b[s]).early = <<>> /\ Finished(b[s]).state = "CLOSED" /\ Finished(b[s]).listed = FALSE
  BY <1>0 DEF Finished, Conn
<1>3. TableLeft(s)' <= TableLeft(s) /\ (b[s].listed => TableLeft(s)' < TableLeft(s))
  BY <1>1, <1>2 DEF TableLeft
<1>4. ServeLeft(s)' <= ServeLeft(s)
  <2> DEFINE n == Len(pendB[s])  m == Len(b[s].early)
  <2>1. n \in Nat /\ m \in Nat
    BY <1>0, LenProperties DEF Conn
  <2>2. ServeLeft(s) = n + m /\ ServeLeft(s)' = n + Len(<<>>) /\ Len(<<>>) = 0
    BY <1>1, <1>2 DEF ServeLeft
  <2>. HIDE DEF n, m
  <2>. QED BY <2>1, <2>2
<1>5. WiresLeft(s)' <= WiresLeft(s)
  <2> DEFINE i == Inward(ab[s])  j == Outward(ba[s])
  <2>1. i \in Nat /\ j \in Nat
    BY <1>0, WireTyped
  <2>2. WiresLeft(s) = i + j /\ WiresLeft(s)' = 0 + j
    BY <1>1, WireEmpty DEF WiresLeft
  <2>. HIDE DEF i, j
  <2>. QED BY <2>1, <2>2
<1>. QED BY <1>1, <1>3, <1>4, <1>5

LEMMA LosesWinds ==
    ASSUME Kinds, Kinds', NEW s \in Sockets, Loses(s)
    PROVE  NodesLeft' < NodesLeft
<1>0. /\ WiresLeft(s) \in Nat /\ FetchLeft(s) \in Nat /\ ServeLeft(s) \in Nat /\ TableLeft(s) \in Nat
      /\ WiresLeft(s)' \in Nat /\ ServeLeft(s)' \in Nat /\ TableLeft(s)' \in Nat
  BY SocketTyped, SocketTypedNext
<1>1. EndsB(s) /\ b[s].listed /\ UNCHANGED <<fetched, net, pendB, ba>> /\ UNCHANGED aVars
  BY DEF Loses
<1>2. /\ WiresLeft(s)' <= WiresLeft(s) /\ ServeLeft(s)' <= ServeLeft(s) /\ TableLeft(s)' < TableLeft(s)
      /\ \A t \in Sockets \ {s} : UNCHANGED <<b[t], ab[t]>>
  BY <1>1, EndsCosts
<1>3. FetchLeft(s)' = FetchLeft(s)
  BY <1>1, SocketKeeps
<1>4. \A x, y \in Nat : (y <= x => y <= x + 0) /\ (y < x => y <= x + (-1))
  OBVIOUS
<1>5. /\ WiresLeft(s)' <= WiresLeft(s) + 0 /\ FetchLeft(s)' <= FetchLeft(s) + 0
      /\ ServeLeft(s)' <= ServeLeft(s) + 0 /\ TableLeft(s)' <= TableLeft(s) + (-1)
  BY <1>0, <1>2, <1>3, <1>4
<1>6. 0 \in Int /\ -1 \in Int /\ 0 + 0 + 0 + (-1) < 0
  OBVIOUS
<1>7. \A t \in Sockets \ {s} : Untouched(t)
  BY <1>1, <1>2 DEF Untouched
<1>. QED BY <1>1, <1>5, <1>6, <1>7, SocketParts

LEMMA DataWinds ==
    ASSUME Kinds, Kinds', NEW s \in Sockets, HandlesData(s)
    PROVE  NodesLeft' < NodesLeft
<1>0. /\ WiresLeft(s) \in Nat /\ FetchLeft(s) \in Nat /\ ServeLeft(s) \in Nat /\ TableLeft(s) \in Nat
      /\ WiresLeft(s)' \in Nat /\ ServeLeft(s)' \in Nat /\ TableLeft(s)' \in Nat
      /\ b \in [Sockets -> Conn] /\ b[s] \in Conn /\ pendB[s] \in Seq(Nat)
  BY SocketTyped, SocketTypedNext
<1>1. PICK f \in 1..DataA :
        /\ fetched.socket = s /\ fetched.frame = f /\ fetched' = Idle /\ UNCHANGED net /\ UNCHANGED aVars
        /\ UNCHANGED <<pendB, ba>>
        /\ UNCHANGED <<b, ab>> \/ (b' = [b EXCEPT ![s] = Held(@, f)] /\ UNCHANGED ab) \/ EndsB(s)
  BY DEF HandlesData, Handles
<1>2. f \in Nat /\ f # Hello
  BY GatewayAssumption DEF Hello
<1>3. FetchLeft(s)' <= FetchLeft(s) + (-2)
  <2>1. FetchLeft(s)' = 0 /\ FetchLeft(s) = 2
    <3>1. FetchLeft(s)' = 0
      BY <1>1, SocketKeeps
    <3>2. FetchLeft(s) = 2
      BY <1>1, <1>2 DEF FetchLeft
    <3>. QED BY <3>1, <3>2
  <2>. QED BY <2>1
<1>4. \A x, y \in Nat : (y <= x => y <= x + 0) /\ (y <= x => y <= x + 1) /\ x <= x
  OBVIOUS
<1>5. ASSUME \A t \in Sockets \ {s} : UNCHANGED <<b[t], ab[t]>>, WiresLeft(s)' <= WiresLeft(s),
             ServeLeft(s)' <= ServeLeft(s) + 1, TableLeft(s)' <= TableLeft(s)
      PROVE  NodesLeft' < NodesLeft
  <2>1. WiresLeft(s)' <= WiresLeft(s) + 0 /\ TableLeft(s)' <= TableLeft(s) + 0
    BY <1>0, <1>4, <1>5
  <2>2. 0 \in Int /\ 1 \in Int /\ -2 \in Int /\ 0 + (-2) + 1 + 0 < 0
    OBVIOUS
  <2>3. \A t \in Sockets \ {s} : Untouched(t)
    BY <1>1, <1>5, SocketNat DEF Untouched, Idle
  <2>. QED BY <1>1, <1>3, <1>5, <2>1, <2>2, <2>3, SocketParts
<1>6. CASE UNCHANGED <<b, ab>>
  <2>1. WiresLeft(s)' = WiresLeft(s) /\ ServeLeft(s)' = ServeLeft(s) /\ TableLeft(s)' = TableLeft(s)
    BY <1>1, <1>6, SocketKeeps
  <2>2. WiresLeft(s)' <= WiresLeft(s) /\ ServeLeft(s)' <= ServeLeft(s) + 1 /\ TableLeft(s)' <= TableLeft(s)
    BY <1>0, <1>4, <2>1
  <2>. QED BY <1>5, <1>6, <2>2
<1>7. CASE b' = [b EXCEPT ![s] = Held(@, f)] /\ UNCHANGED ab
  <2>1. b'[s] = Held(b[s], f) /\ \A t \in Sockets \ {s} : b'[t] = b[t]
    BY <1>0, <1>7
  <2>2. /\ Held(b[s], f).early = Append(b[s].early, f) /\ Held(b[s], f).state = b[s].state
        /\ Held(b[s], f).listed = b[s].listed
    BY <1>0 DEF Held, Conn
  <2>3. b[s].early \in Seq(Nat)
    BY <1>0 DEF Conn
  <2>4. Len(Append(b[s].early, f)) = Len(b[s].early) + 1 /\ Len(b[s].early) \in Nat
    BY <1>2, <2>3, AppendProperties, LenProperties
  <2>5. ServeLeft(s)' <= ServeLeft(s) + 1
    <3> DEFINE n == Len(pendB[s])  m == Len(b[s].early)
    <3>1. n \in Nat /\ m \in Nat
      BY <1>0, <2>4, LenProperties
    <3>2. ServeLeft(s) = n + m /\ ServeLeft(s)' = n + (m + 1)
      BY <1>1, <2>1, <2>2, <2>4 DEF ServeLeft
    <3>. HIDE DEF n, m
    <3>. QED BY <3>1, <3>2
  <2>6. WiresLeft(s)' = WiresLeft(s)
    BY <1>1, <1>7, SocketKeeps
  <2>7. TableLeft(s)' = TableLeft(s)
    BY <1>1, <2>1, <2>2 DEF TableLeft
  <2>8. WiresLeft(s)' <= WiresLeft(s) /\ TableLeft(s)' <= TableLeft(s)
    BY <1>0, <1>4, <2>6, <2>7
  <2>. QED BY <1>5, <1>7, <2>1, <2>5, <2>8
<1>8. CASE EndsB(s)
  <2>1. /\ WiresLeft(s)' <= WiresLeft(s) /\ ServeLeft(s)' <= ServeLeft(s) /\ TableLeft(s)' <= TableLeft(s)
        /\ \A t \in Sockets \ {s} : UNCHANGED <<b[t], ab[t]>>
    BY <1>1, <1>8, EndsCosts
  <2>2. ServeLeft(s)' <= ServeLeft(s) + 1
    BY <1>0, <1>4, <2>1
  <2>. QED BY <1>5, <2>1, <2>2
<1>. QED BY <1>1, <1>6, <1>7, <1>8

LEMMA KindsInvariant == Spec => []Kinds
<1>1. Init => Kinds
  BY PairInit, WiresInit DEF Kinds
<1>2. Kinds /\ [Next]_vars => Kinds'
  BY AStep, BStep, WiresStep DEF Kinds
<1>. QED BY <1>1, <1>2, PTL DEF Spec

LEMMA NodesWind ==
    ASSUME Kinds, Kinds', Dialling \/ SendsFrame \/ LoopA \/ ServerB
    PROVE  NodesLeft' < NodesLeft
<1>1. CASE Dialling \/ EmitsA("loop")
  BY <1>1, DiallingWinds
<1>2. CASE SendsFrame
  BY <1>2, SendsWinds
<1>3. CASE Writes
  <2>1. cur \in Sockets
    BY <1>3 DEF Writes, Kinds, Wires
  <2>. QED BY <1>3, <2>1, WritesWinds
<1>4. CASE Ignores \/ ReceivesHello \/ ReceivesAck \/ ReceivesData
  BY <1>4, ReceivesWind
<1>5. CASE Drops \/ EndsClient
  BY <1>5, EndsWind
<1>6. CASE ServerB
  BY <1>6, AcceptsWinds, FetchesWinds, HandlesWinds, LosesWinds, DataWinds DEF ServerB
<1>. QED BY <1>1, <1>2, <1>3, <1>4, <1>5, <1>6 DEF LoopA

(* Between what the programs, the network, a new socket and a restarting   *)
(* peer bring, the two nodes take finitely many steps: every step of       *)
(* connect(), of a send_to under way, of the client's loop and of the      *)
(* server's leaves less of what is under way.  No HELLO is answered for    *)
(* ever, and no frame goes round.                                          *)
THEOREM NodesComeToRest ==
    Spec => /\ [](NodesLeft \in Nat)
            /\ [][Dialling \/ SendsFrame \/ LoopA \/ ServerB => NodesLeft' < NodesLeft]_vars
<1>1. Kinds => NodesLeft \in Nat
  BY LeftsTypes DEF LeftsTyped
<1>2. Kinds /\ Kinds' /\ [Next]_vars
        => [Dialling \/ SendsFrame \/ LoopA \/ ServerB => NodesLeft' < NodesLeft]_vars
  BY NodesWind
<1>. QED BY <1>1, <1>2, KindsInvariant, PTL DEF Spec
=============================================================================
