# rxplus: models, checks and proofs

This directory holds TLA+ models of the parts of rxplus that are hard to test: the
WebSocket client with its send queue, the server, the group of clients, the gateway built
on them, the reporter with its windows, threads and observer socket, retries, and the log
files several processes share. TLC checks them on small instances; TLAPS proves, for every
instance, nearly all their safety properties: those of the queue, the client, the server, the
gateway, the reporter, its windows, the observer socket and retries. Paths are relative to the
repository, with `ws/`, `gateway/` and `reacting/` under `rxplus/`.

Run them from this directory: `tlc -config X.cfg M`, `tlapm M.tla`.

## 1. The system

| Component | State | Operations | Hard behaviour |
|---|---|---|---|
| Send queue (`ws/_sendqueue.py`) | frames, reporting tokens, byte count, overflow flag, event | `put`, `get`, `unget`, `reset`, `bind`, `sent`, `lost` | bounds, three policies, a wake-up, tokens that follow their frames |
| `RxWSClient` (`ws/client.py`) | socket, connect task, retry counter, sender and receiver tasks, queue, shutdown flag | `on_next`, `on_completed`, `on_error`, the connect loop | two threads, cancellation at any await, reconnects, frames in flight |
| `RxWSServer` (`ws/server.py`) | clients and their queues, per-path channels, loop thread | `on_next`, `send_to`, `close_connection`, `handle_client`, shutdown | the same, for many clients at once |
| `RxWSClientGroup` (`ws/client_group.py`) | a child client per path | `on_next`, creation and removal of children | a lock held across a subscription |
| Gateway (`gateway/node.py`, `connection.py`) | table of connections, each with its handshake flags and held frames | `connect`, `disconnect`, `send_to`, HELLO and HELLO_ACK handlers, states of the client | four threads over two nodes, subscriptions that replay, frames ahead of READY |
| Streams and buffers (`gateway/stream.py`, `overflow.py`) | sequence numbers and states of streams, bounded buffer | open, subscribe, close, next and validate a number | use after close, gaps |
| Reporter (`reacting/reporter.py`) | event queue, session, windows, output queue, writer state | `poll`, `close`, element and link registration, the clock and writer threads | sessions over a lossy writer, shedding, shutdown races |
| Flow handles, windows (`reacting/handles.py`, `_window.py`, `clock.py`) | per-thread counts, backlog, depth | `enter`, `leave`, `deliver`, `record` | counts at the edge of a window or session |
| Registry (`reacting/_graph.py`, `_component.py`) | elements and links | add, remove, snapshot | removal while a snapshot is taken |
| Sinks, observer socket (`reacting/sinks.py`, `_websocket.py`, `_encode.py`) | a file, or a socket with a send lock and a retry delay | `open`, `write`, `is_open`, `close`, the reader's Pong and Close | three threads at one socket whose peer may stop reading |
| `retry_with_signal`, operators (`opt.py`) | subscriptions, timer, disposal flag | subscribe, retry, dispose | three threads at one subscription |
| Log file exporter (`telemetry/exporters.py`) | the current file, its age, a lock file | `export`, `shutdown`, rotation, clean-up | several processes on one file, names made from the clock |
| Codecs, telemetry set-up, audio, graphic, CLI | little or none | conversions, set-up, I/O | numeric or pure I/O |

How they interact: a program calls `on_next` of a client or server in its own thread, and
the frame reaches the component's loop thread by `call_soon_threadsafe`; the loop thread
emits what it receives, and its connection states, synchronously to subscribers. The
gateway is such a subscriber on both sides: its handlers run on the client's loop thread
when it dialled and on the server's when it listens, and meet the program's calls at a
lock. A queue reports its backlog to the Reporter through a `Link`, whose session the
Reporter's clock thread begins and ends. The clock thread turns registry events and
window counts into lines, the writer thread takes them to a sink (for an observer, a socket
shared with a reader thread), and a lost connection ends the session: the writer tells the
clock, which begins the next one on the next connection.

What must be right, per component: a queue stays within its bounds, keeps frames, tokens
and bytes aligned, and wakes its sender; a client delivers in order, never twice, counts
what it drops, reconnects, and ends when asked; a gateway pairs its connection events,
loses nothing on a live connection and agrees with its peer on READY; a reporter never
mixes sessions and always closes; a retry never leaks a subscription. `PROJECT.json` lists
each component with its status and every hazard at its line.

## 2. Modules

| Module | Models |
|---|---|
| `SendQueue` | the queue's methods as operators on a record; no state of its own |
| `Outbox` | a client's outbound path: queue, sender task, socket, reporter sessions; the abstract specification of `WSClient` |
| `WSClient` | `RxWSClient`: `Outbox` under the connect task, `on_next`, shutdown and the loop thread |
| `WSServer` | `RxWSServer`: the handler, sender and receiver tasks of each client over `SendQueue`'s operators, the program's calls, the closing task, the loop thread |
| `ClientGroup` | `RxWSClientGroup`: the lock around the making of a child and its `forget()` |
| `Gateway` | two `GatewayNode`s and one `connect()` between them, over several sockets |
| `SessionStream` | abstract: what an observer is told, line by line and connection by connection |
| `Reporter` | the reporter's registry, clock thread, output queue, writer thread, `close()` and sink; implements `SessionStream` |
| `Windows` | the counts of one link: lock-free callers against the clock thread that closes windows |
| `ObserverSocket` | `WebSocketSink` and its connection: writer, reader and closing threads at one socket |
| `Retry` | one subscription of `retry_with_signal` |
| `LogFile` | file exporters of several processes on one base name |
| `MC...` | one per model: the sizes, threads and symmetry TLC uses |
| `SendQueueProofs` | lemmas: what `put` and `get` do to the sum of sizes and to the count of tokens; sums over a finite set |
| `WSClientProofs` (and of `Outbox`), `WSServerProofs`, `GatewayProofs`, `ReporterProofs`, `WindowsProofs`, `ObserverSocketProofs`, `RetryProofs` | theorems |

### Correspondence

**Atomicity.** An action is the code one thread runs without letting another in: on a loop
thread, from one await to the next; in a program's thread, between two accesses to shared
state. Where a test and its use are apart in the code they are apart in the model: the
test of `_connected` in `on_next` and the callback `_enqueue` (`OnNext`, `RunEnqueue`), the
test of READY in `send_to` and the frame handed over (`TestsReady`, `SendsFrame`), the
look-up of an inbound connection and its handler (`Fetches`, `Handles...`), the decision
to emit `on_connection` under the lock and the emission after it (`Settles`, `EmitsB`;
`pendA`, `EmitsA`).

**SendQueue and Outbox.** A frame is a number, in the order of `_enqueue`; its size is the
operator `SizeOf`. A reporting token is the moment an item entered the link; nothing
compares two moments of one session, so a token is the number of the session, or -1.
`Rounds` is the number of frames `drop_old` evicts: the loop of `put` runs until there is
room. `Outbox` adds the sender (`Greeted`, `Woken`, `FrameSent` run through `get()` to the
next await, by `GetFrame`), a frame that fails in `send()` (`FrameLost`: the peer may or may
not have received it), and the reporter. The receiving half of a client changes nothing
here; it ends when the socket closes.

**WSClient.** `task` is where `connect_client` awaits. `Joins` is the code from the end of
`gather` to the next await, `Finally` the `finally` block up to its own await. `_async_close`
is `closer`; after it cancels the tasks it waits 0.1 s (`"grace"`), in which a task only
unwinds. Time is abstracted: a connection that ended was stable or not, as it may be.
`inbox` holds the callbacks on their way to the loop.

**Gateway.** A `Connection` is a record, and the handlers both sides share are operators on
it. B has one connection per socket, because its server does. `pendA.loop`, `pendA.app` and
`pendB` hold what a thread has decided to emit; a loop thread with something to emit does
nothing else meanwhile, as emission is synchronous. `dial` is the progress of `connect()`,
which may subscribe before or after its client is connected; while the subscription replays
a state it holds the subject's lock, so the client's next change of state waits (`AppFree`).
The client is reduced to a queue and a socket that opens, drops, fails for good or is
completed: what `WSClient` shows of it. B's per-client queue is taken as unbounded (its
default of 1024 frames is far from these bounds), and the frames of a dropped socket may be
read or lost. `logA` and `logB` are what the programs observe. `mark` belongs to the
properties alone: it keeps, of the moment the current socket opened, how much data A's program
had got, how many frames the queue had dropped, and whether `connect()` had subscribed to the
client's frames.

**WSServer.** `handler`, `sender` and `receiver` are the awaits of a client's three tasks,
`cancelled` the tasks a cancellation is on its way to. `calls` is the loop's list
of callbacks. For `send_to` and `close_connection`, `LooksUp` finds the client and `Schedules`
hands the call over; between the two, and before the loop runs it, the client may go. A
sender's queue is `SendQueue`'s record, so `put`, `get`, `lost` and the policies are the
definitions the client uses. `Unwinds`, `Discards` and `Finishes` are the parts of the
handler's `finally` between its awaits, each of which can be cancelled again.

**ClientGroup.** `lock` is `_clients_lock`. The output of a child is a subject: a subscriber
that comes after its end is told at once on its own thread (`Bridges` to `ForgetsInBridge`).
What a child does with a value is `WSClient`'s matter.

**SessionStream and Reporter.** An element, link or span is an entry of a graph, `on` the
entries it goes with; `history` is the list of graphs the source has had, and a line carries
the number of the graph it shows (`version`). `clock` holds the locals of a clock step
(`todo` is the batch of events not yet applied, `want` and `epoch` what it read under the
lock), so everything that another thread can change between two of its statements may. A
queued line keeps the connection it was made for. `StepRaises` is an exception while the
events of a batch are applied, part of them being in the mirror already: `_recover` drops the
rest, copies the registry and ends the session, and a later step begins the next one;
`Sheds` is the Loss of a clock that fell behind. `obs` is the observer, which rebuilds the
graph from the lines it is given. `ObserverGoes` drops the connection at any time. A sink
that never reopens, as a file does, is the second alternative of `Dials`.

The refinement `Observed` maps the source's history to `SessionStream`'s, the connection
and the observer's place in its session (`epoch`, `obs`) to its variables: opening snapshot first,
sequence numbers consecutive, a recovery only where a line was lost.

**Windows.** A call's reads of `live`, the clock, `session` and `T` are separate actions, as
are the clock thread's writes to them; `Record` is what runs under the shard's lock. Time
is counted in windows. `Sum` adds a field of the totals over the windows held, as a recursive
function. `recorded`, `told` and `given` count items for the properties.

**ObserverSocket.** `sock[c].lock` is the send lock, `wire` what the peer has got: nothing,
a Close frame, or something after it. A send is started, may block as long as the
peer does not read, and ends by progress, by its timeout, or by the shutdown of the socket.
`SkipsFrame` is the `close()` that does not wait for a lock held by a stuck send.

**Retry.** `th[t].at` is where a thread is in `_run`, `_subscribe_once`, `_on_error` or
`_retry`; `active` and `pending` are its trampoline. A source ends once, inside its own
`subscribe()` or on another thread. `waiting` and the timer it names are apart, because the
code stores the one after the other has been started.

**LogFile.** A file is the second it is named after. `file` is `_current_logfile`, `lock`
the file whose lock is held; they can differ, since `_ensure_file_open` runs again under the
lock (`ChecksAgain`).

Definitions marked "Fault" are deliberate mistakes used to test the properties; no
specification uses them.

## 3. Runs

| Run | Config | Shows |
|---|---|---|
| outbox | `MCOutbox.cfg` | byte count, byte bound, order, accounting, wake-up, backlog |
| client | `MCWSClient.cfg` | the client implements `OutSpec`; order and accounting from `on_next` on; an ended task holds neither socket nor link; shutdown, reconnection and draining happen |
| server | `MCWSServer.cfg` | every frame handed to a client is sent, queued or counted once; "closed" is announced last and once; nothing waits for ever, through any cancellation |
| gateway | `MCGateway.cfg` | events pair at both nodes; at the listening node data follows `on_connection`; held frames are bounded and never left behind; a connection loses, repeats and reorders nothing: inbound as long as it lasts, outbound on each socket `connect()` had subscribed to before it opened |
| handshake | `MCGatewayHandshake.cfg` | on a socket that stays up both nodes become READY, also after a restarted handshake and where `connect()` subscribed to the states late; it must have subscribed to the frames before the socket opened, and the queue have dropped none since |
| reporter | `MCReporter.cfg` | no change of the graph is forgotten; the observer's graph is one the source had; `close()` ends both threads and leaves no sink open; the lines implement `SessionStream` |
| windows | `MCWindows.cfg` | every item is reported once or given up; between windows the depth told is exact, and it settles after a loss |
| observer | `MCObserverSocket.cfg` | nothing follows a Close frame; `close()` ends every thread though the peer has stopped reading |
| retry | `MCRetry.cfg` | after `dispose()` no attempt is subscribed; before, a stream that goes on has its attempt stored or a retry waiting; the reported element is given up once |

Three runs end in a violation and document a disagreement of the code with its own text:

| Run | Disagreement |
|---|---|
| pairs | `disconnect()` between the decision and the emission puts `on_disconnection` before `on_connection` (`node.py:458`) |
| groupStuck | a child that fails before the group has subscribed to it makes the group wait for its own lock (`client_group.py:259`) |
| logLock | an exporter that rotates by time under a file's lock writes to the next file without that file's lock (`exporters.py:338`) |

`Exclusive` of logLock holds with advisory locks (`Flock = TRUE`) when files are rotated by
records or never: change `Rotation` in `MCLogFile.cfg` to see it. Without them it fails
whatever the rotation (`MCLogFileSpin.cfg` below).

Two configurations that pass are no runs. `MCObserverSocketTurns.cfg` compares the guards the
proofs about the observer socket name (section 4) with ENABLED, in every state of the observer
run. `MCGatewayDrops.cfg` is the handshake run with a queue of one frame, so that frames are dropped
before a socket opens as well; it takes longer than the runs do.

More configurations reproduce further disagreements, each with one property that
TLC finds violated; they are kept beside the modules and are not runs of `PROJECT.json`:

| Config | Property | Disagreement |
|---|---|---|
| `MCOutboxTaken.cfg` | `TakenToken` | `drop_old` overwrites the token of the frame in `send()` (`_sendqueue.py:144`) |
| `MCWSClientClosed.cfg` | `ClosedTerminal` | states follow CLOSED, the "terminal state" (`client.py:662`) |
| `MCWSClientStable.cfg` | `StableReconnects` | after a stable connection the counter restarts at 1, which counts against `max_retries` (`client.py:670`) |
| `MCWSClientShutdown.cfg` | `ShutdownAlwaysStops` | `on_completed` before the loop exists leaves the thread running (`client.py:445`) |
| `MCWSClientOffline.cfg` | `OfflineKeepsNewest` | a queue left overflowed refuses frames while offline instead of dropping old ones (`client.py:405`) |
| `MCWSServerLate.cfg` | `LateFramesCounted` | a frame `send_to` hands over after the connection is gone is neither sent nor counted (`server.py:283`) |
| `MCLogFileSpin.cfg` | `Exclusive` | without advisory locks a writer that times out unlinks the owner's lock file (`exporters.py:316`) |
| `MCWindowsOld.cfg` | `OldCountsDropped` | a call that spans the start of a session leaves a count of the old one in the new one (`reporter.py:475`) |
| `MCReporterLive.cfg` | `NotLiveOnceClosed` | a clock step that has read that a session is due sets `live` after `close()` has cleared it (`reporter.py:298`) |
| `MCRetryTimer.cfg` | `TimersCancelled` | a late store into `waiting` hides a newer timer from `dispose()`, which leaves it on the scheduler; it starts nothing when it fires (`opt.py:290`) |

The gateway also lists a connection its client has already failed, which then stays in
`connections` (`node.py:524`), and sets a disconnected connection back to HANDSHAKING when a
second HELLO is on its way (`node.py:392`); only a program that kept the record sees it.

Type invariants: `CliTypeOK`, `ServerTypeOK`, `WindowsTypeOK`, `ReporterTypeOK` and
`RetryTypeOK` are part of the runs. `OutTypeOK`, `Aligned` and `FramesBound` of the outbox are
proved (section 4) and not run again, as are `SocketTypeOK` and `GatewayTypeOK`; the five
above are proved too.

Four hazards have no property of a run, because the runs' properties set aside or count the
state in question: the overwritten token, the counter after a stable connection, the late
`send_to` and the unlinked lock file. Each has a configuration in the table above that shows it.

### Bounds

- outbox: limits of 2 frames and 3 bytes, four frames of sizes 1, 2, 1, 3: either bound can
  be the one that bites, one frame fills the byte bound alone, `drop_old` may evict two
  frames for one, and a frame may be given back to a full queue. Two sessions: a token may
  be older than the session, of it, or none. Sockets open and close without bound.
- client: a limit of one frame, two frames, `drop_new` and `disconnect` (outbox covers all
  three), two retries with the counter saturating at 2, buffering or not. The number of
  connections is not bounded. No sessions: the refinement carries over what outbox shows.
- gateway: two sockets, so that one connection's remains meet the next one's start; held
  frames bounded by 2 frames and 2 bytes with sizes 1 and 2, so that either bound bites; two
  frames each way, so that order shows, with no step after the fourth of them (`ThreeFrames`;
  without that constraint the run passes too, with 3.5 million states). handshake: one frame
  from A and a HELLO sent again, once.
- server: two interchangeable clients, so that one can be closed while the other is served;
  queues of one frame under `drop_old` and `disconnect`; two calls of the program that send or
  close (`MaxValues`), so that one overflows the queue the other filled, and one shutdown.
- reporter: a queue of one line and batches of one, so that a second line overflows while the
  first waits; three calls (an element, a link or span on it, and its removal), two
  connections, one raised or shed step, and four of all these together (`MaxWork`): enough for
  a session, its loss during an emission, the next session and a recovery.
- windows: two interchangeable threads with three calls in all (an item that enters, leaves,
  and is followed by another), two sessions, a cap of two totals and a lag of two windows, so
  that the clock sheds before a step and gives up in the middle of one.
- observer: two connections, one frame from the peer on each, a delay that doubles once and
  is then bounded.
- retry: three threads, three retries, at most one synchronous failure in a row: an attempt
  can be overtaken while another thread's is still subscribing.
- logLock: two exporters, three exports, a clock of four seconds. groupStuck: one path.

### Fairness

The client's loop runs what is ready; the connect task's awaits end (connecting and closing
have timeouts, sleeping is finite); a greeting or `send()` under way ends or the keepalive
closes the socket, while an idle socket need not close; the caller of `on_completed` goes on
to ask the loop to close. Nothing is assumed of the program, of connecting with success, or
of the peer. For the gateway: each loop thread
runs what it can, `connect()` and `send_to` run to their end. Sockets need not open or last.
For the observer socket: each thread goes on when it can, a send that makes no progress
times out; the observer need not read. For the group: a thread that can take the lock again
and again gets it; children need not fail. The server and the reporter are checked without
fairness. `NothingStalls` and `CloseEndsThreads` name what lets a thread go on (`LoopsTurn`,
`WritersTurn`, `CloseUnblocks`). TLC checks that a thread whose guard holds can take a step
(`ENABLED`). That where no guard holds what had to end has ended, so nobody waits for
somebody that waits too, and that the threads can take only so many steps before they get
there, is proved (section 4); nothing more is assumed than that threads run.

`ShutdownStops` starts from a loop that runs, because the code does not stop one that has
not started (`MCWSClientShutdown.cfg`). `HandshakeCompletes` and `Agreement` except a socket on
which the client's queue dropped a frame, which may be its HELLO_ACK, and one that opened
before `connect()` had subscribed to its frames: both can really leave the peer short of
READY, until the next socket. The first is listed as a hazard no property covers; the second is
part of the hazard of a late `connect()`, whose other half, a late subscription to the
states, the two properties do cover.

## 4. Proofs

From `SendQueueAssumption` and `OutboxAssumption` alone (the bounds are natural numbers, the
frames positive ones, their sizes natural numbers), for any set of frames, any sizes, bounds, policies and sessions,
`WSClientProofs` shows first of `OutSpec`:

- `TypeCorrect`, `TokensAligned`: the queue's operators keep types and one token per frame.
  Their lemmas (`EvictProps`, `RoundsProps`, `PushedProps`, ...) say what each method does to
  the queue. `RoundsProps` needs that a non-empty set of naturals has its minimum.
- `QueueBounded`: not inductive for `unget()`, which ignores the limit. It holds because the
  sender gives a frame back in the step that took it; the proof treats `GetFrame` as one step.
- `EveryFrameAccounted` (a step moves a frame from one term of the sum to another),
  `WakeupNeverLost` (every `put` that leaves something to do sets the event).
- `FramesInOrder`: delivered, held and queued frames form one increasing sequence. It is
  inductive together with the types and `last` as an upper bound of every frame seen.

- `CountOfBytes`, `BytesWithinBound`: `Measured` says that the count is the sum and the sum
  within the bound, or a single frame. As with the frames, `unget()` keeps it only in the
  step that took the frame.
- `BacklogCounted`: `BacklogInv` is needed for two reasons. A queue that reports belongs to a
  client that is up, so that the program's puts follow the queue's own policy; and unless that
  policy is `drop_old`, the token `sent()` or `lost()` reports is the one of the frame held.
  `Low` says no token is newer than the session, so a token counts or is of an older one.

What the sums and counts need is in `SendQueueProofs`. `Bytes` is a recursive function, whose
equations the provers do not unfold by themselves: `SumExists` and `SumsAgree` establish them by
the least position at which they would fail (`LeastNatural`), and `BytesAppend`, `BytesTail`
and `BytesCut` follow. The `Recent...` lemmas say what adding or dropping a token does to the
cardinality of the positions that hold a token of the session. What a sum over a finite set
does when the value of one member changes is proved there too, for the server's clients and
the gateway's sockets: with the library's induction out of reach, the sum is the number of
cells of a table with one column per member (`SumIsCells`), which holds for every subset
because there is no least counterexample (`SubsetsByPick`).

The inductive invariant `TInv` is the conjunction of the types, `Aligned` (without which
`take` could read a token that is not there) and `HeldOK`: a sender in `send()` holds a
frame, without which what is delivered, or given back to the queue, could be no frame at
all. Each theorem adds its own conjunct to it.

With `WSClientAssumption` it then shows `ClientRefinesOutbox`: every step of the
client is a step of `Outbox` or leaves its variables alone (only that `inbox` holds frames is
needed), and `ClientKeepsPromises`: the client therefore keeps what is proved of `Outbox`,
however its connection comes and goes. On top of that, `CliInv` adds the types of the client's
own variables (`ClientTypes`); `Arrived` counts every frame from `on_next` to the queue
(`EveryFrameKnown`); `Newer` says that what is on its way to the loop is newer than all that
reached it (`ClientKeepsOrder`); and `LeavesInv` that a task awaiting the final close
has unbound its queue, and a closer in its grace period has let go of the socket, whichever
await was cancelled (`ClientLetsGo`).

`WSServerProofs` assumes `SendQueueAssumption` and `WSServerAssumption` (a finite set of clients). Its
invariant `SInv` says, beside the types, that every queue is `Backed`: while a link is bound
its backlog is the number of queued frames and one more if the sender is in `send()`.
Without it a frame that leaves could be missing from the backlog, and `lost()` count it twice or
not at all. `EveryFrameCounted` adds over clients; `Balance` is the equation
each step moves a frame within. `ClosedStaysClosed` is inductive with `Ending`: a handler
that unwinds is already unregistered, and from the moment it discards its queue both tasks have
ended and the queue is unbound, so that only a late `send_to` reaches it.

Two theorems say that nothing waits for ever, as far as that can be said without fairness.
`NobodyWaits`: in every reachable state some guard of the loop thread holds or all is
`Settled`. Its invariant `Attendance` says, client by client, who is left to wake the one that
waits: a task that has been cancelled is not yet at its await, a sender waits on an event
that is clear only while its queue is empty, a handler that unwinds has cancelled both tasks.
`LoopComesToRest`: every step of the loop thread by itself lowers `LoopLeft`, a natural
number, so it takes finitely many of them between two calls of the program or moves of a peer.

`GatewayProofs` assumes `GatewayAssumption` (natural numbers, positive bounds on the held
frames). `EventsPair` is not inductive. For the dialling node `AInv` ties the number of
`on_disconnection`s to the state CLOSED. For the listening one `BInv` has three parts:
`OneAtATime` (the server's thread emits what it has decided before it takes the next
frame); `LivesOnce`, because a HELLO handled after the end sets a connection back to HANDSHAKING
(section 3): such a connection is in no table and its HELLO_ACK never counts, so that it cannot
become READY again; and `Paired`: a connection was ready exactly if its `on_connection` is
emitted or pending, and pending before any data, from which `DataAfterEvent` follows as well.
`HeldFramesTidy` needs `Tidy`: held frames exist only between HELLO and READY, so that
`_hold_early`, which tests both bounds, is all that adds to them.

The lossless directions need more. `InboundInv` says, for a connection of the listening
node that lasts: what was written to its socket is what its program has got or is about to
get, then the frames held, the one being handled and those to come (`InFlow`). A data frame
that finds the connection neither READY nor holding would break this; `HelloFirst` (the first
frame to come is the greeting) and `HandB` (READY exactly once both frames are in) exclude it.
`Outbound` is its counterpart at the dialling node for a socket `connect()` had subscribed to
before it opened (`DialInv`): nothing is ever held there (`LiveA`), because HELLO and HELLO_ACK
come before any data (`Greeted`), so that what was written is what the program has got since
`mark`, then what is pending and what is to come (`Back`): an equality, so that nothing an
earlier socket delivered can stand in for it.

`Agreement` asks less of `connect()`, which may subscribe to the states late, and follows from
`InboundInv` and three parts. `Answered`: what the listener answered a HELLO with has arrived or
is to come. `Settled`: the dialler checks for completion with the second of the two frames, or
when the state is replayed to it. `Asked`: the greeting has arrived or is on its way, and so
has the answer to the listener's HELLO, unless the client's queue dropped a frame since the
socket opened; `MarkInv` says that the count of drops never falls below the one in `mark`. `Data`
is a recursive function; its equations are
established as those of `Bytes` are.

`GatewayTypes` adds to `AInv`, `BInv` and the types of the wires what is on a wire
(`FramesWired`) and what the programs have seen (`FramesSeen`). `NodesComeToRest` is about the
fair actions: each step of `connect()`, of a `send_to` under way, of the client's loop and of
the server's thread lowers `NodesLeft`, the sum of what is left for the dialling node and for
each socket. The restarted handshake makes this delicate, since a HELLO is answered by a HELLO
and an acknowledgement: a HELLO on its way to the listening node counts 11, its answers
together 8, so greetings do not answer one another for ever.

`ObserverSocketProofs` assumes `SocketAssumption` (the bounds are natural numbers and the
first delay is positive and no longer than the largest). `NothingAfterClose` is not inductive: a thread in a send
may be about to finish a frame on any wire. `SInv` adds who may send (`WriterHolds`,
`ReadersHold`, `ClosersHold`): a thread that sends holds the lock of its connection, so there
is one of them; the wire it sends on carries no Close frame, and if its own frame is one,
`closeSent` has been set, which the next holder of the lock tests. `CloseLast` ties that flag to the wire.

`CloseReleases` is proved but for fairness, in two parts. `CloseBlocksNobody`: after `close()`
one of the threads has a step to take until all have ended (`CloseNeverBlocks`). It needs that
a connection that is up is the sink's or has a closing thread at work on it (`UpIsKept`), that
a taken lock belongs to a thread in a send (`LockIsHeld`), and that after `close()` the sink
has at most the one connection that opened too late (`SinkKept`): so once the closing threads
are through, every socket is down, no send hangs on it and no lock stays taken.
`SocketsWindDown`: each step of the writer and of a closing thread lowers `CloseLeft`, whatever
the observer does, and each step of a reader whose socket is down lowers its `ReaderLeft`.

`RetryProofs` assumes `RetryAssumption` (a finite set of threads that contains the one that
subscribes, natural bounds) and has two invariants. `RInv` is what `dispose()` relies on: every running
attempt is the stored one, has been taken by `dispose()`, or belongs to a thread that has
not yet stored it (`Owned`) and will find it stale; nothing is stored once `disposed` is
set. `NInv` is what keeps the stream alive: the attempts about to start, the timers and the
running attempts are one in all until the stream is over and none after (`OneChain`), so that
no failure can start two; every failure counted starts at most one attempt
(`AttemptsBound`), and until the end one of them exists (`GoesOn`). `RetryTypeOK` says that
`generation` stays within `max_retries + 1`, so it needs both.

`ReporterProofs` assumes `ReporterAssumption` (a queue and a batch of at least one, natural
bounds) and has three invariants.

- `SourceInv`: the mirror is the source's graph of some moment, and the events not yet applied
  lead from it to each later one (`Leads`). It holds because a caller changes the registry
  and posts the event under one lock, and it gives `MirrorReachesRegistry`. `Sound` says that no
  graph hangs an entry from one that is gone, which `ReporterTypes` needs: removing an entry
  removes what goes with it.
- `PipeInv`: what is being written, the writer's batch and the queue continue the lines the
  observer has got (`Chained`), across an overflow that clears the queue, a recovery and a new
  session. `Known` ties each line to the graph of its number. What makes it inductive:
  an opening snapshot is only ever the first line of the queue (`OneSession`), which is empty
  when a session begins, so that a flag is enough to tell whether an overflow lost it; and
  lines queued before the clock learns that the connection is gone are of an older `epoch`. It gives
  `ViewIsSourceAsItWas` and, with the mapping `Observed`, `SessionsKeepOrder`: every step is
  one of `SessionStream` or a stutter.
- `SinkInv`: `close()` sets `closing` before it closes the sink, and the writer tests `closing`
  after it has opened one; the only sink open after `close()` is in the hands of a
  writer about to make that test (`SinkHeld`). It gives `CloseLeavesNoSink`.

`CloseInv`, all three together, gives that `close()` ends both threads. `CloseLeavesNoneWaiting`:
a writer that has not ended has a step to take, since the sink it could hang in is closed and
the clock it could wait for is done. `ClosingWindsDown`: each step of either lowers `Left`, which
prices an event at the lines, overflow and snapshot it may still cause, and nothing raises it.

`WindowsProofs` assumes `WindowsAssumption` (a finite set of threads, natural bounds).
`Sum` is unfolded by a finite induction up to `MaxTime`: what a count, a closed window and a
set of windows moved out do to it are lemmas.

- `WindowsTypes` and `EveryItemOnce` need `Held`: no window held is before the first one
  still open, and those moved out to be reported are the ones the clock has yet to visit. So a
  window never exists in both places, and none is left behind by the clock's walk.
- `Sessions` is about sessions that begin with no call under way (`clean`); `MCWindowsOld.cfg`
  shows why others keep less. Every call in one has read the time base of that session
  (`ReadRight`), so the backlog is the number of threads inside.
- `Entered` is what the depth needs. The clock closes windows while threads go on counting, and
  `depth` cuts off at zero what it gets by taking the counts still held from the backlog. That
  nothing is ever cut off follows from this: every item inside entered in some window and will
  leave in that one or a later one, so the counts held in the windows from any n on leave at
  least the items that entered before n. Closing a window, the step that could break it, takes
  that window's counts from those held and leaves only later ones.
- `Exact` follows the depth told to the observer through the report of a window, a quiet one
  included (`Told`). It gives `DepthIsExact` and, with `Sessions`, `DepthCountsItems`.

Only model-checked: all liveness (`ShutdownStops`, `Reconnects`, `Drains`,
`HandshakeCompletes`, `CloseReleases`), which the prover cannot do; of `NothingStalls` and
`CloseEndsThreads` the conjuncts with ENABLED (that a thread whose guard holds can take a
step; the rest of both is `NobodyWaits` and `CloseLeavesNoneWaiting`); and what the runs of the
group, the log files and the expected violations show, where a counterexample is the result.

## 5. Not modelled, and the plan

Not modelled: the components listed `not_modelled` in `PROJECT.json`, each with its reason.
Within the modelled ones: the content of frames, encoding errors (the item is counted and
dropped before it becomes a frame), logging, the length of delays, `framing.py`, the table
operations `broadcast` and `close` of the gateway, which repeat `send_to` and `disconnect`.

- `RxWSClientGroup`: only its lock is modelled. The values go to a child's queue
  (`SendQueue`); the count of refused values is a counter behind its own lock.
- Reporter: `poll()` is the same steps in one thread, for tests; the exit hook calls
  `close()`; a forked child only disables its copy. The deferred removal of a component's
  element waits one window on a timer.
- Windows: samplers and capacities (a depth read from the program instead of counted),
  bytes and latencies, which are further fields of the same totals.
- Observer socket: bytes of frames and headers; the handshake is its three outcomes.
- Retry: values that pass through, spans, and the operators of the file without state.
- Log files: the formatting of records, `force_flush` (nothing is left to flush), and a base
  name without an extension, whose lock files the clean-up takes for log files.
- Streams and the bounded buffer: one lock, one step per method, no caller in the package.

Next: the lock of the log files where it does hold (advisory locks, no rotation by time), and
a measure for the client's loop like those of the server, the gateway and the sockets.
