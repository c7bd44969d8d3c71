# tohka, modelled and checked

tohka is a single-threaded network library: a loop around `poll(2)`, timers,
and callback-driven TCP connections. This directory holds TLA+ models of its
core, the TLC configurations that check them on small instances, and TLAPS
proofs of what must hold for every instance. All paths below are relative to
`src/`.

## The system

| Part | State | Operations | Meets the others through |
|---|---|---|---|
| Loop (`tohka/ioloop.cc`) | the list of active events of a round | `RunForever`, `CallAt/Later/Every`, `DeleteTimer` | calls the poll table, then the events' callbacks, then the timers |
| Poll table (`tohka/poll.cc`, `iowatcher.h`, `ioevent.*`) | `pfds_`, `io_events_map`, `index_`, `events_` | `RegisterEvent`, `UnRegisterEvent`, `PollEvents` | every owner of a descriptor changes its interest through its `IoEvent` |
| Timers (`tohka/timermanager.*`, `timer.*`) | a multimap by expiry, the set of armed timers, the timers cancelled while their batch runs | `AddTimer`, `DeleteTimer`, `DoExpiredTimers` | sets the timeout of poll; runs deferred destruction, retries and user timers |
| Connection (`tohka/tcpevent.*`) | `state_`, the two buffers, its `IoEvent` | `Send`, `ShutDown`, `ForceClose`, `Start/StopReading`, `HandleRead/Write`, `DoClose`, `ConnectEstablished/Destroyed` | user callbacks re-enter it; its owner removes it in `on_close_` |
| Buffer (`tohka/iobuf.*`) | a vector and two indices | `Append`, `Retrieve`, `Prepend`, `Refresh`, `MakeSpace` | `HandleRead` writes into it directly |
| Connection attempts (`tohka/connector.*`) | `state_`, `connect_`, the attempt's event, the retry timer and its delay | `Start`, `Stop`, `OnConnect`, `Retry`, `RemoveAndResetEvent` | timers for the retry and the deferred reset; hands the descriptor to `TcpClient` |
| `TcpClient`, `TcpServer`, `Acceptor` | the connection(s) they hold, the listening event, the idle descriptor | `Connect`, `Disconnect`, `Stop`, `OnAccept`, `OnClose` | create connections; a server destroys a closed one from a timer, a client at once |
| Proxy (`examples/mrproxy`) | per client: the two connections, the in handler's maps, the out handler with its `TcpClient` | `on_connection`, `on_recv`, `StartClient`, `Process`, `DisConnected` | uses all of the above; the two handlers call each other from inside callbacks |
| Relay (`examples/tcprelay`) | `g_tunnels`; per tunnel the two connections, the `context_` of the server's, the callbacks of its `TcpClient`, `clientConn_` | `onServerConnection`, `onServerMessage`, `onClientConnection`, `onClientMessage`, `teardown` | uses all of the above; pauses the client's connection until there is a target |

What is hard in it. There is one thread, so no data races; but every callback
may call back into the object whose function is still running, destruction is
deferred through timers, a timer or an event may be in a batch that is already
being worked through when it is cancelled, and peers stop, close and reset at
any time. `assert` is active in the build (`CMakeLists.txt` sets no `NDEBUG`),
so a failed assertion ends the process; an action of a model is disabled where
the code would abort, and an invariant (`AssertsHold`) says that this never
stands in the way. `PROJECT.json` lists the hazards with their lines.

What makes each part correct:

- poll table: slots, map and indices correspond; no interest is lost.
- timers: a timer runs when due, once, in order, and cancelling is final.
- connection: the byte stream is intact, FIN follows the data, going down
  happens once, for a reason, and leads to destruction.
- buffer: it is a queue of bytes, whatever is moved or reallocated.
- attempts: nothing leaks, nothing is forgotten, `Stop` stops.
- proxy and relay: both streams are intact, the two sides stand and fall
  together, over one hop or two, and no reference outlives them.
- loop and owners: an event that is still to be executed exists; the poll table
  and the server's map hold what is alive and nothing else; descriptors come back.

## The modules

| Module | What it is |
|---|---|
| `PollSet` | what owners need of the table: which descriptors are watched for what |
| `Poller` | `Poll` and the registration half of `IoEvent`; implements `PollSet` |
| `PollerProofs` | the proofs about `Poller` |
| `TimerLife` | what a user may rely on for one timer |
| `TimerManager` | the timers and the round of the loop that drives them; implements `TimerLife` |
| `TimerManagerProofs` | the proofs about `TimerManager` |
| `Connection` | what the owner of a connection may rely on |
| `Lifetime` | the life of one connection: opened, closed, reported, destroyed |
| `TcpEvent` | one connection, its event, its owner's reaction to a close, the peer; implements `Connection` and `Lifetime` |
| `TcpEventProofs` | the proofs about `TcpEvent` |
| `Attempt` | what the owner of a client may rely on while it is being connected |
| `Connector` | the connection attempts of a client; implements `Attempt` |
| `ConnectorProofs` | the proofs about `Connector` |
| `Reactor` | several connections on one loop: accepting, the list of a round, references, destruction; each connection implements `Lifetime` |
| `ReactorProofs` | the proofs about `Reactor` |
| `Pipe` | what a program between a client and a target promises them |
| `Relay` | one client of the TCP relay: the tunnel and its two connections; implements `Pipe` |
| `RelayProofs` | the proofs about `Relay`, and that it uses `Connection` and `Attempt` |
| `Proxy` | one client of the proxy: the pair of connections and the two handlers |
| `Request` | the bytes of a request between two proxies |
| `ProxyProofs` | the proofs about `Proxy`, `Request` and `Chain`, and that a proxy uses `Attempt` |
| `Chain` | one proxy, or two in a row with a connection between them; implements `Pipe` |
| `ByteQueue` | a queue of bytes that also takes headers in front |
| `IoBuf` | `IoBuf` and the scattered read of `HandleRead`; implements `ByteQueue` |
| `IoBufProofs` | the proofs about `IoBuf` |
| `MC...` | instances of the above for TLC |

How they fit together: `TcpEvent` uses the poll table in the form `PollSet`
gives it (one descriptor, its interest and its poll bits), the buffer in the
form `ByteQueue` gives it (`outBuf`, filled at the back and drained at the
front), and the timers in the form `TimerLife` gives them (`doomed` is a timer
posted without delay). `Connector` uses timers the same way, with their order and
the batch spelled out because its timers can be due together. `Reactor` composes the
parts of the library: what `TcpEvent` says of one connection is reduced to open or not,
readable or not, and what several of them, their owners and the loop do to each
other is spelled out. That the two agree on when a connection opens, is closed,
is reported to its owner and is destroyed is the abstract `Lifetime`, which both
implement. `Proxy` and `Relay` are users of the library: they take the
connector in the form `Attempt` gives it (an attempt, a retry, an event that
outlives its attempt), and `Send`, `ShutDown` and `ForceClose` by their effect on a
connection: in `Relay` in the form `Connection` gives them, with the buffer that a
FIN has to wait for, in `Proxy` on its state only. Both sides of this are proved:
`Connector` implements `Attempt` and `TcpEvent` implements `Connection`, and
`Relay` and `Proxy` take no step that the two do not allow (`UsesTheLibrary`,
`UsesAttempt`).
`Chain` is two instances of `Proxy`, one of which is the client of the other, and
`Request` says when the two understand each other. What users of either program may
rely on is `Pipe`, which says nothing of buffers, headers or attempts.

A definition named `RawWant`, `HalfDelete` or the like, with the comment
"Mutant", is no part of a model: it is the form a plausible bug would give the
definition after it, and each property is known to fail when it is put in.

### Poller

`pfds` is the vector of `pollfd`, with a muted descriptor stored as `-fd - 1`;
`eventMap`, `index` and `events` are the fields of the same names. One action
per operation of `IoEvent` (`EnableReading` ... `UnRegister`), each with all of
`RegisterEvent` or `UnRegisterEvent` in it, including the move of the last slot
into the one that was freed. The kernel gives descriptors to new events; an event is only
destroyed when it has left the table. The owners' discipline, read off
`acceptor.cc`, `connector.cc` and `tcpevent.cc`, is in three guards: an event
that has left the table is not enabled again (`MayEnable`), it is unregistered
when it is muted (`MayUnRegister`), and, if `MuteBeforeUse` is FALSE, it is not
muted before it was enabled (`MayMute`).

### TimerManager

The clock counts ticks; `TicksPerMs` of them make a millisecond, so that the
truncation in `GetNextExpiredDuration` is there. `timerMap` is the multimap as a
sequence in key order; `UpperBound` says where `emplace` puts an equal key. A
round is `StartPoll`, `PollTimesOut` or `PollReportsIo`, `BeginBatch`
(`GetExpiredTimers`), `RunTimer` for each, `BeginReset`, `ResetTimer` for each,
`EndReset`. `AddTimer` and `DeleteTimer` may happen whenever a callback runs,
on any timer somebody still holds: armed, waiting in the batch, running, or
already run in this batch.

### TcpEvent

Re-entrancy is modelled with an explicit stack: a frame is a user callback in
progress or the rest of a library function below it. While a callback runs, any
of `Send`, `ShutDown`, `ForceClose`, `StopReading`, `StartReading` may be called
(the high-water callback is limited to `MarkOps`, see below). The kernel's send
buffer has `SndBuf` items of room; `write(2)` takes what fits, or fails after a
reset or after FIN. The peer sends, reads, closes and resets whenever it likes;
POLLHUP and POLLERR are reported unasked and count as readable, as in
`poll.cc`. The readiness for writing is computed before the read callback runs,
as `PollEvents` does, and the interest is tested after it, as `SafeExecuteEvent`
does. Data is numbered in the order it was handed to an accepted `Send`.

Assumed of users: `StartReading` and `StopReading` are not called on a
connection that is down.

### Connector

`sock` is the attempt in the kernel; `event` is "spent" between the moment it
leaves the poll table and the moment a timer destroys it. What `connect(2)`
returns is one of the three classes the switch in `Connector::Connect`
distinguishes.

`timers` is what is armed of the two timers, in the order of expiry, and which of
them `timer_id_` names: only the retry armed last. A new retry goes behind all
others, since the delay never shrinks; a new reset, posted without delay, goes
anywhere, since any of the others may have expired by then. The loop takes any
number of the first into `batch`, where `DeleteTimer` cannot reach them. Users may
call `Connect` and `Stop` between any two steps, also from the callback of another
timer in the middle of the batch.

Assumed of users: they call `Connect` on a client that is fresh, stopped, or has
given up, once `Start` finds what it asserts, and not while a retry is still due
that their `Stop` came too late for (`StartWhenever`); and they do not call `Stop`
while the event of an attempt exists (`StopWhenever`).

### Reactor

A connection is alive as long as somebody has a `shared_ptr` to it (`Live`): the
server's map, a client, the user, a posted timer, or a function in progress
that took one. Nothing else keeps its `IoEvent` and its descriptor, so "freed"
is no state of its own: it is what `Live` no longer contains. `list` is
`activate_event_list`, worked through one entry at a time while callbacks run;
its order is any, because the order of the slots is `Poller`'s. Frames on
`stack` are as in `TcpEvent`. The server posts the destruction (`posted`), the
client destroys at once. `accept(2)` gives the lowest free descriptor and fails
when there is none; one above `MaxFd` is taken and forgotten (`leaked`), as in
`Acceptor::OnAccept`. `DropClient` is `~TcpClient` for a client that is connected.

A connection in `kDisconnecting` counts as open: as far as its life goes there
is no difference, and `ShutDown` is in `TcpEvent`.

Assumed of users: they do not drop the last reference to an open connection,
and they do not let go of a client or its connection in a callback of that
connection, nor while the round has its event on the list (`LetGoListed`). For
a server's connections nothing is assumed; that this is enough is what the
deferred destruction is for.

### Connection, Lifetime and Attempt

What users of the library see of a connection: a stream, `wire` and what is
`left` of it, FIN behind all that waits, and a wish to read. `Sends` is
whatever calls of `Send` make of it: nothing overtakes what waits, and the two
together only grow. `TcpEvent` implements it with `left` the output buffer
followed by what a `Send` on the stack is about to append to it, so that the
callbacks in the middle of `Send` change nothing an owner could see.

The life of a connection has four steps: it opens, is closed, its owner is told,
and it is destroyed, at once by a client, from a timer for a server. Each happens
at most once and in this order, and the event is in the poll table from the first
to the last. `TcpEvent` has the detail of one connection, every callback that may
close it and every frame that is on the stack when it does; `Reactor` has the
detail of the owners, and of many connections closed in one round. `Stage` reads the
same life off either.

What they see of the attempts: one at a time, a failed one repeated or given
up, and none begun while the event of the last one is still to be destroyed.
`Connector` implements it with its two timers: `Phase` reads `attempt` off
`state_`, the retry that `timer_id_` names or that is due in the batch that runs, and
whether a stop holds.

### Pipe

Two ends and two streams. An end is "closing" when it takes no more from the
other end, but what is on the way to its peer still goes out. Nothing comes out
that did not go in, in order; there is a far end only for a near one; and when one
goes, the other goes in the same step, or, if the ends are `apart`, later
(`EndsFollow`). A target that goes never cuts off abruptly what the client has
still to get; a client that goes may cut off its target, because the proxy's
`ForceClose` does, while the relay half closes.

### Relay

Each event the loop delivers is one action, with all the calls it leads to. A
connection is a record: state, output buffer, all that the kernel took, and
whether the write side is shut; `SendOn` lets the kernel take any part of what is
sent, so how much waits in a buffer when a side goes is arbitrary. `reading` is
the interest that `StopReading` withdrew in the accept callback; while it is
FALSE the descriptor is not polled at all, so a client that leaves is not noticed
before the target's connection is up. Four references may keep the tunnel:
`g_tunnels`, the callbacks of its `TcpClient`, the context, and `clientConn_`.

Assumed: the tunnel is not freed while the event of an attempt exists
(`FreeWhenever = FALSE`), because `~TcpClient` then fails the assertion of
`Connector::Stop`; and, for liveness, that a target that got FIN closes
(`TargetFollows`), since the relay waits for it.

### Proxy

An event the loop delivers is one action: it runs a chain of calls between the
two handlers in which nobody else is called back. What was received and what
`Send` took are sequences of pieces; a read may bring several pieces, so a
request of the run protocol may come cut up or with data behind it. `inBuf` is
the input buffer of the client's connection, where data waits for the target.
`mapped`, `handler`, `callbacks` and `self` are the references that keep the
pair, `spent` is the event of a connection attempt that a timer has yet to
destroy. Both in and both out handlers are in one module, chosen by `protocol`;
where they have the same code, `map` names one of them.

Assumed of clients: one that speaks SOCKS waits for each reply, since `SocksIn`
asserts that a greeting comes alone (`socks_in.cc:54`), and one whose request
was turned down sends no more. If `LeaveWhenever` is FALSE, no client leaves
while the event of the attempt made for it still exists.

### Request

What `RunOut` writes in front of the first data and what `RunIn` takes for a
request, as sequences of bytes. `RunIn` looks for the first CRLF, although the
address and the port in front of it are raw bytes: the requests that are
understood wherever TCP cuts them are those without a CRLF in them (`Plain`).
In `Proxy` a request is two pieces and is taken to be plain.

### Chain

With one hop this is `Proxy`. With two, the first proxy serves SOCKS clients and
goes through the second, as the configuration of the example has it; the second
is the same module with every variable prefixed `far`, and its steps are those of
`Proxy` driven by the first: its client connects once `out` is connected, sends
what `Send` took (one piece at a time, after any delay), and leaves when `out` is
closed. The first sees the answers the second sent, and its end. `LinkBreaks`
lets the connection between them break, which both find out (`SO_KEEPALIVE`).

### IoBuf

`buf` is the vector with its contents, its size and the two indices. Every
member function is an operator from buffers to buffers, so that lemmas can be
stated about it. `ReadV` is lines 36-54 of `HandleRead`: the kernel fills the
room that is left, then `ext_buf`, and the second part is appended.

## The runs

| Run | Question | Bounds |
|---|---|---|
| `poll_table` | is the table consistent after any sequence of calls, and does it implement `PollSet`? | three events on three descriptors: a middle slot can be freed and the last one moved into it |
| `timers` | do maps agree, order and periods hold, does each timer live as `TimerLife` says, and is every armed timer taken out of the map? | three timers, clock to 4, delays 0 and 1, period 2, 2 ticks per ms: a batch of two with a third armed, equal expiries, late repeats |
| `tcp_event` | stream, FIN, closing and assertions, with re-entrant callbacks; do `ShutDown` and closing get through; is it a `Connection`? | 4 data items, up to 3 in one `Send`, send buffer of 2, high-water mark 2, 2 incoming chunks; owner a server or a client |
| `connector` | leaks, forgotten wishes, stops, assertions, eventual connection; is it what `Attempt` says? | the code's own delays, 500 to 10000 ms (five doublings), calls from timers of the batch that runs |
| `reactor` | can a round meet a dead event, the table a closed descriptor, the server a connection it does not know; do descriptors come back? | up to 4 connections over time, one of them a client's, 3 descriptors of which the acceptor refuses one, one address used again and again: two connections and the listener in one list, a full table, a reused descriptor |
| `relay` | do references and connections agree, is anything lost behind a FIN, is a tunnel a pipe, is a client that leaves let go? | three pieces one way and two the other: some at the kernel, some in the buffer, some not read when a side goes |
| `proxy` | are the streams intact, do the sides fall together, does data get through, is it a pipe, over one hop and two? | a request in two parts and three pieces of data one way, two pieces the other: a header before the first, something between, a last one; one hop in all four configurations, two as they are meant to be used; requests and data whose bytes are CR and LF |
| `io_buf` | indices, assertions, and is it `ByteQueue`? | vector of 3 growing to 7, calls of up to 3 bytes, 2 values of a byte |

`MaxTimers`, `MaxTime`, `MaxData`, `MaxSend`, `MaxIn`, `MaxLen`, `MaxSize` and the
lengths of `Up`, `Down`, `Data` and `Answers` are bounds of the models, not of the code. A timer may only be added if the
clock of the model can still pass its expiry by a millisecond. Runs switch the
deadlock check off where a program may come to rest: bounds used up, a
connection destroyed, a client connected.

With one address the backlog of `reactor` holds one connection at a time. With two
addresses and `MaxConns` 3, so that two wait at once, TLC finds no error either, in
622242 states; that is more than twice the time of the run that is kept.

Some properties are the conjunction of several that belong together, each stated
and named on its own in its module: `StreamIntact` (order and completeness, the
interest in writing, FIN behind the data), `AttemptsAgree` (no leak, no wish
dropped, stops final), `ReferencesAgree` (the list of the round, the poll table,
the server's map), `TableAgrees` (slots and owners, what is polled and what is
wanted), and `ClosingCompletes`, `NobodyIsForgotten` and `EverythingArrives` (two
liveness properties each).

Four runs expect a violation: the code does not do what a comment or an
assertion in it says. Each is described under "findings" in `PROJECT.json`.

| Run | What it shows |
|---|---|
| `drained_busy` | after the buffer is drained, a reading connection is still polled for POLLOUT, against the comment at `tcpevent.cc:80` |
| `stop_connecting` | `Connector::Stop` during an attempt fails its own assertion (`connector.cc:132`) |
| `let_go_listed` | a client's connection closed and let go of in another connection's callback is freed while the round still has its `IoEvent*` on the list (`ioloop.cc:56`); the tie of `tcpevent.cc:122` cannot help, it is part of the event |
| `accept_full` | the idle descriptor of the acceptor is never used: `fcntl(2)` on -1 overwrites `EMFILE` (`socketutil.cc:53`), so the loop spins on a connection it cannot accept |

The passing runs leave these out by a constant that the violating run sets:
`StopWhenever`, `LetGoListed`. `drained_busy` and `accept_full` need
none. Other constants that state what is assumed of users, `StartWhenever`,
`MuteBeforeUse`, `MarkOps`, `LeaveWhenever` and `FreeWhenever`, are in the list that
follows, with what fails without them.

Seen while modelling, and not kept as runs:

- an `Acceptor` destroyed before `Listen` mutes an event that was never
  registered, and `UnRegisterEvent` then aborts (`poll.cc:140`): with
  `MuteBeforeUse = TRUE`, `AssertsHold` of `Poller` fails;
- `ShutDown` from the high-water callback sends FIN before data `Send` already
  took, against `tcpevent.cc:87`: with `MarkOps` containing "shutdown",
  `StreamIntact` of `TcpEvent` fails;
- a `Send` from the high-water callback overtakes the data of the `Send` that
  called it, which is buffered only afterwards (`tcpevent.cc:196`): with `MarkOps`
  containing "send", `StreamIntact` fails;
- `ForceClose` from the high-water callback of a client makes `Send` register an
  event that left the table (`poll.cc:107` aborts): with `MarkOps` containing
  "forceclose", `AssertsHold` of `TcpEvent` fails;
- a `TcpClient` destroyed in a callback of its own connection does not close it,
  because others still hold it, and `~TcpEvent` then fails its assertion
  (`tcpevent.cc:115`): without the first conjunct of `MayLetGo`, `AssertsHold`
  of `Reactor` fails;
- the same assertion of `Connector::Stop` ends the proxy when a client leaves
  while its target is being connected, though the comment at `freedom.cc:51` counts
  on it: with `LeaveWhenever = TRUE`, `PairAgrees` of `Proxy` fails; and the relay,
  when a tunnel is freed then: with `FreeWhenever = TRUE`, `TunnelAgrees` fails;
- `RunOut` sends its header with the first data of the client; if the client waits
  for the target to speak first, as with SMTP, the request never leaves;
- `RunIn` misunderstands a request with a CRLF before its end (port 3338 is
  0d 0a): every request of the instance that is not `Plain` is misunderstood; nor
  does it test what `gethostbyname` returns, as `SocksIn` does;
- a client of the relay that half closes loses the answers that are still to
  come: its connection is closed at once (`Pipe` has no half-closed near end);
- `FreeDom` and `RunOut` close with `ForceClose`, which drops what `out` still has
  in its buffer (`freedom.cc:77`, `run_out.cc:106`); the model of the proxy keeps what
  `Send` took, so this does not show;
- only the first "in" of the configuration is served (`main.cc:31`), and a protocol
  that nobody knows ends in a null pointer (`point.cc:22`);
- `TcpClient::Connect` after a connection was had and lost aborts, because the
  connector still is kConnected (`connector.cc:96`), and so does a client that is
  destroyed in the middle of an attempt, as the ping-pong example can;
- once its target is gone, what a half-closed client still sends piles up in its
  input buffer (`freedom.cc:63`);
- `~TcpServer` calls `ConnectDestroyed` on connections that are up, which asserts
  that they are down (`tcpevent.cc:134`; lines 135-139 cannot be reached);
- a descriptor above `kMaxConn` is accepted and never closed (`acceptor.cc:32`);
- an `errno` of `connect(2)` outside the list in `Connector::Connect` (such as
  EHOSTUNREACH or ETIMEDOUT) ends the attempts for good; the model has it as the
  result "fatal", and `NeverGivesUp` names it as the one exception;
- a retry timer that is already due cannot be deleted (`timermanager.cc:73`):
  `Stop` from another timer's callback does not stop it. `TimerLife` states this
  (a timer that is due runs), and `StopIsFinal` excludes it;
- nor does a `Connect` that follows in the same callback know of it. With
  `StartWhenever = TRUE`, three properties of `Connector` fail. If the connect(2) of
  that `Connect` is under way when the due retry runs, its `Start` fails the
  assertion that the connector is disconnected (`connector.cc:96`, `AssertsHold`). If
  it failed at once, each of the two `Start`s arms a retry and `timer_id_` keeps only
  the last (`connector.cc:117`), so that a `Stop` in good time leaves the other
  (`AttemptsAgree`), and two armed retries may be taken in one batch, where the
  second finds the attempt of the first. An older retry may also expire before the
  reset of the last event and begin an attempt that the event is in the way of
  (`connector.cc:103`, `ImplementsAttempt`). What holds all the same is that no
  descriptor leaks and no wish to connect is dropped (`NothingLeaksOrIsForgotten`).
  No program of the repository calls `Connect` twice on a client;
- a connection that stopped reading never notices a reset, because
  `HandleWrite` ignores a failed write; `ShutDownCompletes` excludes it;
- `ReceiveAllAsString` builds its string from a `char*` and so stops at the
  first NUL; its result is not modelled;
- the arithmetic of `timepoint.h` is done in 32-bit `int` for delays above
  2147483 ms.

## Fairness

- The loop: `RunForever` never stops and user callbacks return, so the steps of
  the loop are weakly fair.
- `timers` needs the clock to advance even under a loop that spins, which
  it does while a timer expires exactly now (the comparison in
  `GetExpiredTimers` is strict): strong fairness of `Tick`, because a
  `poll(2)` at its timeout holds the model's clock for a step.
- `tcp_event` assumes a peer that reads what was sent until it resets.
- `proxy` assumes of the loop that it serves what is ready, and of the connector
  what the `connector` run shows.
- `relay` and `proxy` also assume that peers read, and that a retry comes due.
  In `proxy`, both loops serve what is ready; the second proxy must not leave while
  an attempt's event exists, which may hold it back again and again, so its leaving
  is strongly fair.
- `connector` assumes that `connect(2)` ends, and that an armed retry comes due:
  strong fairness of the batch that takes it, since batches with only the reset
  could otherwise be taken for ever in its place.
- `reactor` assumes that a posted destruction comes due (`ArmedIsTaken` of
  `TimerManager`): strong fairness of `RunPosted`, since a round may end before
  the clock has moved.

Users are not fair: nobody has to call anything.

## The proofs

The `...Proofs` modules are checked by TLAPS without any unproved step. Their
assumptions are the `ASSUME`s of the modules they extend, and those a theorem
states itself.

**Poller.** `TypeCorrect`, `Consistent`, `TableAlwaysAgrees`, `NoAssertFails` and
`Refinement` hold for any sets of events and descriptors. `TypeOK` and
`TableConsistent` are inductive together: the move of the last slot is right
only because indices and slots correspond one to one, and the
decoded descriptor of the last slot leads back to the event that owns it.
`TableAlwaysAgrees` and `NoAssertFails` add `InterestIsPolled`, which needs the owners'
discipline (`MuteBeforeUse = FALSE`). The refinement maps `holder` to the event
map and `polled` to the bits of the slot, where a muted slot has none.

**IoBuf.** One lemma per member function says that it keeps the buffer
well-formed and what it does to `Contents`, the readable bytes as a sequence:
`Room` (moved or grown, the contents stay and there is room), `StoredAppends`,
`AppendedAppends`, `ReadAheadAppends` (its two parts concatenate),
`PrependedPushes`, `RetrievedDrains`, `RefreshedEmpties`. `StepEffect` collects
them, and the four theorems follow: the type invariant, the assertions, growth
only when full (which no run checks), and that the buffer implements `ByteQueue`.

**TimerManager.** The invariant `IInv` says that the map holds the armed timers,
each once and under its expiry, in order; that no timer is in the batch twice or
armed before `Reset` came to it; that ids not yet handed out are unused; that
the batch is empty outside `DoExpiredTimers`; and that `Reset` has armed what it
passed by and should have. `EmplacedAgrees`, `EmplacedInOrder`, `RemovedKeeps`
and `RestKeeps` say what an insertion, an erasure and taking the first entries
do to the map; they rest on lemmas on sequences and on `SegmentCount`, which
turns the cardinalities in `UpperBound` and `BeginBatch` into positions.
`TypeCorrect`, `MapsAlwaysAgree` and `AlwaysFirstComeFirstServed` follow.
`Refinement` maps each step to a step of `TimerLife` or a stutter (`LifeIs` says
where a timer stands, one lemma per action what becomes of it).
`NeverOversleeps` needs only that a truncated difference is off by less than a
millisecond; `PeriodsAreKept` adds the invariant that an armed timer is not due
before its period has passed since its last run.

**TcpEvent.** The stack may be of any depth, so the invariant says what may be
where on it (`Shape`): a `Send` that is about to buffer is on top, or right below
the high-water callback it called; a dispatched read is on top; the owner is told
of a close once. What is below any other frame is `Settled`. `Flow` says that what
the kernel took, what is buffered and what a `Send` is about to buffer are
consecutive numbers up to the last one produced; `Life` where the event is between
its registration and its destruction; `Waits` that the interest in writing and FIN
go by the buffer. `Push`, `PushMark` and `Pop` say what happens to the stack,
`NumbersConcat` and `NumbersCut` what happens to the stream, and one lemma per
action puts them together. The theorems assume `MarkPauses`: the high-water
callback only pauses and resumes reading, which is what it is for; with a `Send`
in it the data of the inner call overtakes the outer one's, with a `ShutDown` FIN
does. `SilentAfterDown` follows from `NextSilent`: of a connection that is down only
what is on the stack goes on. `Refinement` maps the stack away: `LeftFits` says that
what went out and what is left of it, the data of a `Send` in progress included, are
all that was sent, cut in two, so that the write callback and the high-water
callback, which run while data is in neither place, are no steps of a `Connection`
at all; `ReadsWanted`, that a read which was dispatched is still wanted when it runs.
`LifetimeAgrees` maps the same states to `Lifetime`: `Stages` says that `table` and
`doomed` follow `Stage`, and `NewLives`, `OpenLives` and `DownLives`, one for each
part of a life, that no action goes back or skips a step.

**Connector.** For any delays and any results of `connect(2)`. The first invariant,
`Kept`, holds whatever users call and whenever, with any number of retries armed:
`TypeOK`, `NoFdLeak` and `NeverGivesUp`, and that an event taken out of the table
waits for exactly one reset, posted or due (`ResetsAgree`). `ResetProper`,
`RetryProper`, `CancelProper` and `BatchProper` say what arming, deleting and taking
timers does to a queue of any length, and to the place `timer_id_` names in it.
`TypeCorrect` and `NothingLeaksOrIsForgotten` follow without an assumption on users.

The second, `Inv`, needs `~StartWhenever`: there is at most one retry, armed or due,
named if it is armed, and only between attempts (`RetriesAgree`), so that each queue
has one of four `Shapes`; no reset is posted while timers run (`QuietBatch`); and
`StopIsFinal`. `StartFinds` says what a `Start` then finds, the user's or a retry's:
nothing armed, nothing due, no event. `AttemptsAlwaysAgree` and `Refinement` follow,
also for a user who stops in the middle of an attempt: the two timers, the cancelled
retry and the batch they may be due in together never make a second attempt, or one
before the event of the last is destroyed. Only `NoAssertFails` also assumes
`~StopWhenever`, because the assertion of `Stop` is wrong without it
(`stop_connecting`).

**Relay.** `TunnelAgrees` and `NothingLost` need to know which end went first
(`EndsAgree`: an end is closing only when the other is closed) and how the streams
and buffers continue each other (`StreamsAgree`); FIN comes last (`FinIsLast`).
`SendOnEffect`, `WrittenEffect`, `ShutDownEffect` and `ClosedEffect` say what the
operations on a connection do to wire and buffer as one sequence. For the
refinement, `WiresFit` adds that what an end was handed is a prefix of what the
other peer sent; `StepGrows` says that no stream ever shrinks, `EndsMove` which
step of `Pipe` the ends make. `TunnelAlwaysAgrees` assumes `~FreeWhenever`.
`TypeCorrect` says of every stream that no piece is in it twice. `NothingLost` says where
the pieces are while a side is open, `Kept` where they are afterwards: a closed
connection holds nothing, and what the near one took when the far one had gone lies
behind all that the far one handed out.
`UsesItsParts` takes each step of the relay apart into what it does to one
connection, to the other and to the attempt: each is a step of `Connection` or of
`Attempt`, or none. Since `SendOn` hands any part to the kernel, `Connection` has to
allow it; that it does is `SendOnEffect`.

**Proxy.** Two invariants, one for control and one for the streams. `Control` is
`PairAgrees` without the assertion of `Connector::Stop`, together with what is not
there before a request was granted: no attempt, no connection, no callback.
`PairAlwaysAgrees` assumes `~LeaveWhenever` only for that assertion. `Streams` says
how far the handshake has come (`Socks`, `Run`: a SOCKS client cannot have sent
more than it was answered; RunIn has all it read in its buffer), that the header
is due exactly while nothing was sent, and what is where of the data. `ProcessKeeps`
is the one lemma about what `Process` does to it, with and without a connection,
with and without a header. `TypeCorrect` adds that nothing is sent or buffered
twice, which follows from the shape of the streams (`Joined`, `Taken`): pieces
are all different, and none is a word of the protocols (`PieceAssumption`).
`UsesItsConnector` rests on `Tries`: attempts begin with the granted request, and
end for good when the client is gone.

**Chain.** A step of the chain is a step of one proxy, and the other one stays or is
what drives it (`HopSteps`), so the lemmas about `Proxy` hold of the first proxy as
they are. The second is the same module under other names, and its invariants
`FarControl` and `FarStreams` are stated for it; it speaks the run protocol only,
and its client is the first proxy. `Carried` says that the connection between them
invents nothing: the second has received no more pieces than the first sent, and
the first no more answers than the second did. `LinkFits` puts the three together:
the request goes ahead of the data in what the first sends (`HeaderFirst`), so the
second's request is the first's, and its data the client's. `FarHopAlwaysAgrees`
follows; it assumes `~LeaveWhenever` for the assertion of `Connector::Stop` only.

`Refinement` shows that one proxy or two are a `Pipe`, with no assumption. `Fits`
says that what came out is a prefix of what went in, at both ends, and
`ChainCarries` that no step changes this; `NearMoves` and `FarMoves` say, action by
action, which move of `Pipe` the two ends make (`Moves`). They need `Closing`: a client is
half closed only when its target has gone, or when it was turned down, and then
there is no more of it to come (`TurnedDown`).

**Request.** `PlainIsUnderstood`: for any sets of addresses, ports and texts, a
plain request is understood, however much of it and of what follows has arrived.
The search for CRLF in any part of the bytes that has arrived finds the one at the
ninth byte or none; the port survives its division into two bytes.

**Reactor.** For any number of connections, peers and descriptors. `Life` says where
a connection is known: the map has exactly the server's connections that are open
or whose `on_close_` has yet to run, the poll table in addition those whose
destruction is posted, and a posted one is closed and through its `on_close_`.
`Shape` says of the stack, however deep, that nobody waits for two `on_close_`, and
that who waits is kept by a frame below or by somebody else (`Guarded`): without
it a connection could be freed before its owner hears of the close. `Listed`
says who keeps what is still on the list of the round: the poll table's deferred
removal for the server's connections, the user or the client for the others, and
only this part needs `~LetGoListed`. `Names` makes the map one to one, and
`FdsDiffer` is inductive because `accept(2)` and `socket(2)` give free descriptors
only. `Stacked` and `TailSet` say what pushing and popping a frame change; one
lemma per action does the rest. `LifetimesAgree` rests on `PendingFrames` (the
`on_close_`s still to come are exactly the frames of `Pending`) and says of every
action which connection it moves, and that all others stay. `PeerAssumption` keeps
the placeholder for a client's connection apart from the addresses.

Proved in this way is that the parts fit: `TcpEvent` and `Connector` are what
`Connection` and `Attempt` say, `Relay` and `Proxy` ask no more of them, both
programs are a `Pipe`, and `Reactor`, which reduces a connection to open or not,
gives it the same `Lifetime` as `TcpEvent`. `UsesTheLibrary`, `UsesAttempt`,
`ImplementsLifetime` and `ImplementsLifetimes` are proved and not among the
properties of a run; TLC found no violation of them on the instances of
`relay`, `proxy`, `tcp_event` and `reactor` either.

Model-checked only: every liveness property (`ArmedIsTaken`, `ClosingCompletes`,
`EventuallyConnected`, `NobodyIsForgotten`, `LeaverIsReleased`,
`EverythingArrives`). Fairness and ENABLED are beyond the prover.

## Not modelled yet

1. The width of `TimePoint`, and a clock that is set back: `system_clock` may be,
   and every timer then waits that much longer. Nothing in the code says what
   should hold then.
2. How much of what `Send` took still waits in the output buffer of `out` in
   `Proxy` when `ForceClose` drops it: `toOut` is what `Send` took. Between two
   proxies any part of it may have arrived when the connection goes (`Arrives`,
   `FirstLeaves`).

Not modelled at all:

- logging, address formatting and the platform headers: output and conditional
  compilation;
- the JSON parser (`examples/mrproxy/json.hpp`): a vendored release of a
  third-party library, used once at start-up. It is 22091 of the repository's
  25885 lines of implementation, so a count of lines covered says little;
- what a client of the proxy does that no client of these protocols should: port 0
  fails an assertion (`run_in.cc:89`, `socks_in.cc:116`), and so does a request of the
  run protocol with more than 127 bytes before its CRLF, at `IoBuf::ReadUntil`
  (`run_in.cc:52`);
- the echo and ping-pong examples: their callbacks call `Send` and `Disconnect`
  once each, calls that `TcpEvent` makes in every order;
- `Connector::Restart`, `IoBuf::Swap` (nothing calls them) and `~TcpServer` (no
  program of the repository lives on after it).
