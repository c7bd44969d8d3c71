---- MODULE Reactor ----
(***************************************************************************)
(* Many connections on one loop: how they come to be (Acceptor and         *)
(* TcpServer, tohka/acceptor.cc and tcpserver.cc; TcpClient,               *)
(* tohka/tcpclient.cc), how a round of the loop works through the events   *)
(* poll(2) reported (IoLoop::RunForever, IoEvent::ExecuteEvent), and when  *)
(* they cease to be.                                                       *)
(*                                                                         *)
(* A connection exists as long as somebody has a shared_ptr to it.  Its    *)
(* IoEvent and its descriptor live and die with it, but the list of a      *)
(* round and the poll table hold plain pointers to the IoEvent.  What a    *)
(* connection does with its data is the matter of module TcpEvent; here it *)
(* reads, and is open or not.                                              *)
(***************************************************************************)
EXTENDS Integers, FiniteSetsExt, SequencesExt

CONSTANTS
  MaxConns,    \* bound: connections ever made
  Peers,       \* addresses that connect to the server
  Fds,         \* descriptors left for connections
  MaxFd,       \* Acceptor::kMaxConn
  Clients,     \* how many connections TcpClients may make
  LetGoListed  \* do users let go of connections the round has yet to come to?

ASSUME BoundAssumption == MaxConns \in Nat /\ Clients \in Nat
ASSUME PeerAssumption == "nobody" \notin Peers
ASSUME FdAssumption == Fds \subseteq Nat \ {0} /\ MaxFd \in Nat
ASSUME LetGoAssumption == LetGoListed \in BOOLEAN

Conn == 1..MaxConns      \* in the order they were made
Acceptor == 0            \* the listening event among the events
Nobody == "nobody"

VARIABLES
  listening,   \* the listening event is in the poll table
  backlog,     \* addresses that wait for accept(2)
  made,        \* connections made so far
  addr,        \* address of the peer; Nobody for a client's connection
  fd,          \* descriptor
  state,       \* TcpEvent::state_, where kDisconnecting counts as connected
  input,       \* what a read would find: "none", "data" or "end"
  table,       \* connections whose event is in the poll table
  map,         \* TcpServer::connection_map_
  clients,     \* connections in the connection_ of some TcpClient
  held,        \* connections the user holds
  posted,      \* connections waiting for ConnectDestroyed, in order
  leaked,      \* accepted descriptors nobody owns
  phase,       \* "poll", "io" or "timers"
  list,        \* what is left of activate_event_list
  stack        \* what is left to do in the callback being run

world == <<backlog, input>>
conns == <<made, addr, fd, state>>
owners == <<map, clients, held, posted>>
loop == <<listening, phase, list>>
vars == <<world, conns, owners, loop, table, leaked, stack>>

Init ==
  /\ listening = FALSE /\ backlog = <<>> /\ made = 0
  /\ addr = [c \in Conn |-> Nobody]
  /\ fd = [c \in Conn |-> 0]
  /\ state = [c \in Conn |-> "connecting"]
  /\ input = [c \in Conn |-> "none"]
  /\ table = {} /\ map = <<>> /\ clients = {} /\ held = {} /\ posted = <<>>
  /\ leaked = {} /\ phase = "poll" /\ list = <<>> /\ stack = <<>>

----------------------------------------------------------------------------
\* References.  A frame is the user's callback on a connection, the on_close_
\* that follows it, or a function that holds a shared_ptr until it returns.

Callback(c) == [do |-> "user", conn |-> c]
Closing(c) == [do |-> "onclose", conn |-> c]
Guard(c) == [do |-> "guard", conn |-> c]

Idle == stack = <<>>
Running(name) == ~Idle /\ Head(stack).do = name

\* What waits to call on_close_ has not taken its reference yet.
OnStack == {f.conn : f \in {g \in ToSet(stack) : g.do # "onclose"}}

Live == Range(map) \cup clients \cup held \cup ToSet(posted) \cup OnStack

Created == 1..made
Open(c) == state[c] = "connected"
OfServer(c) == addr[c] # Nobody

OpenFds == {fd[c] : c \in Live} \cup leaked
FreeFds == Fds \ OpenFds

----------------------------------------------------------------------------
\* TcpEvent, as far as its life goes

\* The constructor and ConnectEstablished, which calls the user back.
Establish(c, a, f) ==
  /\ made' = c
  /\ addr' = [addr EXCEPT ![c] = a]
  /\ fd' = [fd EXCEPT ![c] = f]
  /\ state' = [state EXCEPT ![c] = "connected"]
  /\ table' = table \cup {c}
  /\ stack' = <<Callback(c), Guard(c)>>

\* "rest" waits until the user and on_close_ are through.  The event stays
\* in the poll table, muted; nobody will read what comes.
DoClose(c, rest) ==
  /\ state' = [state EXCEPT ![c] = "disconnected"]
  /\ input' = [input EXCEPT ![c] = "none"]
  /\ stack' = <<Callback(c), Closing(c)>> \o rest

ConnectDestroyed(c) == table' = table \ {c}

----------------------------------------------------------------------------
\* TcpServer and its Acceptor

Listen ==
  /\ ~listening
  /\ listening' = TRUE
  /\ UNCHANGED <<world, conns, owners, phase, list, table, leaked, stack>>

\* The key of connection_map_: the address and a running number.
Name(c, a) == <<a, c>>

\* emplace leaves an entry alone that is there.
TcpServerOnAccept(c, a, f) ==
  /\ map' = [n \in DOMAIN map \cup {Name(c, a)} |-> IF n \in DOMAIN map THEN map[n] ELSE c]
  /\ Establish(c, a, f)

\* SockUtil::Accept_ calls fcntl(2) with the -1 of accept(2) before anybody
\* looks at errno.
ErrnoAfterAccept(errno) == "EBADF"

AcceptFails ==
  LET errno == IF FreeFds = {} THEN "EMFILE" ELSE "EAGAIN" IN
  /\ backlog' = IF ErrnoAfterAccept(errno) = "EMFILE" /\ backlog # <<>>
                THEN Tail(backlog)     \* with the idle descriptor
                ELSE backlog
  /\ UNCHANGED <<conns, table, map, leaked, stack>>

AcceptSucceeds(f) ==
  /\ backlog' = Tail(backlog)
  /\ IF f <= MaxFd
     THEN TcpServerOnAccept(made + 1, Head(backlog), f) /\ UNCHANGED leaked
     ELSE leaked' = leaked \cup {f} /\ UNCHANGED <<conns, table, map, stack>>

\* The listening event is the next of the list.
AcceptorOnAccept ==
  /\ phase = "io" /\ Idle /\ list # <<>> /\ Head(list) = Acceptor
  /\ list' = Tail(list)
  /\ IF backlog = <<>> \/ FreeFds = {}
     THEN AcceptFails
     ELSE AcceptSucceeds(Min(FreeFds))
  /\ UNCHANGED <<input, listening, phase, clients, held, posted>>

----------------------------------------------------------------------------
\* TcpClient

\* OnConnect, called by the client's connector from its event or a timer.
TcpClientOnConnect ==
  /\ phase \in {"io", "timers"} /\ Idle
  /\ made + Len(backlog) < MaxConns
  /\ Quantify(Created, LAMBDA c : ~OfServer(c)) < Clients
  /\ FreeFds # {}
  /\ clients' = clients \cup {made + 1}
  /\ Establish(made + 1, Nobody, Min(FreeFds))
  /\ UNCHANGED <<world, loop, map, held, posted, leaked>>

\* User code runs in callbacks and timers, and has the connection it is
\* called with and those it holds.
InUserCode == Running("user") \/ (phase = "timers" /\ Idle)
InHand == held \cup {c \in Created : Running("user") /\ Head(stack).conn = c}

\* A client's connection is destroyed as soon as it closes.  Users do not let
\* go of it in its own callbacks, nor, unless LetGoListed, while it is listed.
MayLetGo(c) ==
  \/ OfServer(c)
  \/ /\ \A frame \in ToSet(stack) : frame.conn # c
     /\ LetGoListed \/ c \notin ToSet(list)

\* Mutant: nobody closes the connection.
DropWithoutClose(c) ==
  /\ InUserCode /\ c \in clients /\ MayLetGo(c)
  /\ clients' = clients \ {c}
  /\ UNCHANGED <<world, conns, loop, table, leaked, map, held, posted, stack>>

\* ~TcpClient closes the connection if nobody else has it, and otherwise
\* leaves that to who has.
DropClient(c) ==
  /\ InUserCode /\ c \in clients /\ MayLetGo(c)
  /\ clients' = clients \ {c}
  /\ IF Open(c) /\ c \notin held \cup OnStack
     THEN DoClose(c, <<Guard(c)>> \o stack)
     ELSE UNCHANGED <<state, input, stack>>
  /\ UNCHANGED <<backlog, made, addr, fd, loop, table, leaked, map, held, posted>>

----------------------------------------------------------------------------
\* on_close_

Erase(c) == map' = [n \in DOMAIN map \ {Name(c, addr[c])} |-> map[n]]

\* Mutant: the server forgets the connection.
EraseOnly(c) == Erase(c) /\ UNCHANGED <<table, clients, posted>>

\* Mutant: the server keeps the connection in its map.
PostOnly(c) ==
  /\ posted' = Append(posted, c)
  /\ UNCHANGED <<table, clients, map>>

\* The timer has the last reference of the server.
TcpServerOnClose(c) ==
  /\ Erase(c)
  /\ posted' = Append(posted, c)
  /\ UNCHANGED <<table, clients>>

RemoveConnection(c) ==
  /\ clients' = clients \ {c}
  /\ ConnectDestroyed(c)
  /\ UNCHANGED <<map, posted>>

OnClose ==
  /\ Running("onclose")
  /\ stack' = Tail(stack)
  /\ LET c == Head(stack).conn IN
       IF OfServer(c) THEN TcpServerOnClose(c) ELSE RemoveConnection(c)
  /\ UNCHANGED <<world, conns, loop, leaked, held>>

----------------------------------------------------------------------------
\* The user

Keep ==
  /\ Running("user")
  /\ held' = held \cup {Head(stack).conn}
  /\ UNCHANGED <<world, conns, loop, table, leaked, map, clients, posted, stack>>

\* Who has the last reference to an open connection closes it first.
LetGo(c) ==
  /\ InUserCode /\ c \in held /\ MayLetGo(c)
  /\ Open(c) => c \in Range(map) \cup clients
  /\ held' = held \ {c}
  /\ UNCHANGED <<world, conns, loop, table, leaked, map, clients, posted, stack>>

\* Mutant: the state is not looked at.
MayClose(c) == state[c] # "connecting" /\ Len(stack) < 6

ToClose(c) == Open(c)

ForceClose(c) ==
  /\ InUserCode /\ c \in InHand
  /\ ToClose(c)
  /\ DoClose(c, stack)
  /\ UNCHANGED <<backlog, made, addr, fd, owners, loop, table, leaked>>

Returns ==
  /\ Running("user") \/ Running("guard")
  /\ stack' = Tail(stack)
  /\ UNCHANGED <<world, conns, owners, loop, table, leaked>>

----------------------------------------------------------------------------
\* A round of the loop

Readable == {c \in table : Open(c) /\ input[c] # "none"}

Ready ==
  Readable \cup IF listening /\ backlog # <<>> THEN {Acceptor} ELSE {}

\* PollEvents reports all that is ready; in which order is the poll table's.
PollEvents ==
  /\ phase = "poll"
  /\ list' \in SetToSeqs(Ready)
  /\ phase' = "io"
  /\ UNCHANGED <<world, conns, owners, listening, table, leaked, stack>>

\* HandleRead; the guard is the reference ExecuteEvent took.
HandleRead(c) ==
  IF input[c] = "end"
  THEN DoClose(c, <<Guard(c)>>)
  ELSE /\ input' = [input EXCEPT ![c] = "none"]
       /\ stack' = <<Callback(c), Guard(c)>>
       /\ UNCHANGED state

\* A connection that was closed since it was reported has lost its interest.
\* Without the connection there is no event to execute.
ExecuteEvent ==
  /\ phase = "io" /\ Idle /\ list # <<>> /\ Head(list) \in Live
  /\ list' = Tail(list)
  /\ IF Open(Head(list)) THEN HandleRead(Head(list))
     ELSE UNCHANGED <<state, input, stack>>
  /\ UNCHANGED <<backlog, made, addr, fd, owners, listening, phase, table, leaked>>

DoTimers ==
  /\ phase = "io" /\ Idle /\ list = <<>>
  /\ phase' = "timers"
  /\ UNCHANGED <<world, conns, owners, listening, list, table, leaked, stack>>

\* A timer of TcpServer::OnClose.
RunPosted ==
  /\ phase = "timers" /\ Idle /\ posted # <<>>
  /\ ConnectDestroyed(Head(posted))
  /\ posted' = Tail(posted)
  /\ UNCHANGED <<world, conns, map, clients, held, loop, leaked, stack>>

\* What is not due yet stays for a later round.
EndRound ==
  /\ phase = "timers" /\ Idle
  /\ phase' = "poll"
  /\ UNCHANGED <<world, conns, owners, listening, list, table, leaked, stack>>

----------------------------------------------------------------------------
\* The peers.  One that has ended its connection may use its address again.

PeerConnects(a) ==
  /\ listening
  /\ made + Len(backlog) < MaxConns
  /\ a \notin ToSet(backlog)
  /\ \A c \in Created : addr[c] = a /\ Open(c) => input[c] = "end"
  /\ backlog' = Append(backlog, a)
  /\ UNCHANGED <<input, conns, owners, loop, table, leaked, stack>>

\* A connection may be gone between poll(2) and accept(2).
PeerGivesUp ==
  /\ backlog # <<>>
  /\ backlog' = Tail(backlog)
  /\ UNCHANGED <<input, conns, owners, loop, table, leaked, stack>>

\* Data, or the end of the connection; a reset overtakes data.
PeerSends(c, what) ==
  /\ Open(c)
  /\ input[c] # "end" /\ input[c] # what
  /\ input' = [input EXCEPT ![c] = what]
  /\ UNCHANGED <<backlog, conns, owners, loop, table, leaked, stack>>

----------------------------------------------------------------------------

UserCalls ==
  \/ Keep
  \/ \E c \in Created : LetGo(c) \/ ForceClose(c) \/ DropClient(c)

Library ==
  \/ OnClose
  \/ PollEvents
  \/ AcceptorOnAccept
  \/ ExecuteEvent
  \/ DoTimers
  \/ EndRound

World ==
  \/ \E a \in Peers : PeerConnects(a)
  \/ PeerGivesUp
  \/ \E c \in Created, what \in {"data", "end"} : PeerSends(c, what)

Next ==
  \/ Listen
  \/ UserCalls
  \/ Returns
  \/ Library
  \/ RunPosted
  \/ TcpClientOnConnect
  \/ World

\* The loop keeps running, callbacks return, and what is posted comes due.
Fairness == WF_vars(Library \/ Returns) /\ SF_vars(RunPosted)

Spec == Init /\ [][Next]_vars
FairSpec == Spec /\ Fairness

----------------------------------------------------------------------------
\* Properties

\* Every part of the state has its type, and nothing is destroyed twice.
TypeOK ==
  /\ listening \in BOOLEAN
  /\ backlog \in Seq(Peers)
  /\ made \in 0..MaxConns
  /\ addr \in [Conn -> Peers \cup {Nobody}]
  /\ fd \in [Conn -> Fds \cup {0}]
  /\ state \in [Conn -> {"connecting", "connected", "disconnected"}]
  /\ input \in [Conn -> {"none", "data", "end"}]
  /\ table \cup Range(map) \cup clients \cup held \subseteq Created
  /\ IsInjective(posted) /\ ToSet(posted) \subseteq Created
  /\ leaked \subseteq Fds
  /\ phase \in {"poll", "io", "timers"}
  /\ IsInjective(list) /\ ToSet(list) \subseteq Created \cup {Acceptor}
  /\ \A frame \in ToSet(stack) :
       frame.do \in {"user", "onclose", "guard"} /\ frame.conn \in Created

\* Whatever callbacks close and let go of while a round works through its
\* list, the events still on it exist.
ListedIsAlive == ToSet(list) \ {Acceptor} \subseteq Live

\* The poll table knows no connection that is gone, and so no descriptor that
\* was closed or given to another connection since.
TableIsAlive ==
  /\ table \subseteq Live
  /\ \A c, d \in Live : fd[c] = fd[d] => c = d

\* The assertions on the way of a connection hold: the server finds the
\* connection that closes in its map, it is down when it is destroyed, and
\* none is freed before it is down.
AssertsHold ==
  /\ \A c \in Created : c \notin Live => state[c] = "disconnected"
  /\ \A c \in ToSet(posted) : state[c] = "disconnected"
  /\ Running("onclose") =>
       LET c == Head(stack).conn IN
       /\ c \in Live \cap table /\ state[c] = "disconnected"
       /\ OfServer(c) => Name(c, addr[c]) \in DOMAIN map /\ map[Name(c, addr[c])] = c

\* The server has exactly the connections that are open or about to be closed.
MapIsOpen ==
  Range(map) = {c \in Created : OfServer(c) /\ (Open(c) \/ Closing(c) \in ToSet(stack))}

\* Who still knows a connection agrees with whether it is there: the list of
\* the round, the poll table and the server's map.
ReferencesAgree == ListedIsAlive /\ TableIsAlive /\ MapIsOpen

Stage(c) ==
  IF c \notin Created THEN "none"
  ELSE IF Open(c) THEN "open"
  ELSE IF Closing(c) \in ToSet(stack) THEN "closing"
  ELSE IF c \in ToSet(posted) THEN "posted" ELSE "gone"

Lived(c) == INSTANCE Lifetime WITH
  stage <- Stage(c),
  owner <- IF c \notin Created THEN "nobody" ELSE IF OfServer(c) THEN "server" ELSE "client",
  watched <- c \in table

\* Every connection has one life, the one TcpEvent gives it, whatever the others
\* do and whoever else is closed in the same round.
ImplementsLifetimes ==
  /\ \A c \in Conn : Lived(c)!Init
  /\ [][\A c \in Conn : Lived(c)!Next \/ UNCHANGED Lived(c)!vars]_vars

\* The comment on Acceptor::idle_fd_, "For discarding failed connections": a
\* connection that cannot be accepted does not stay to be reported again.
FailedIsDiscarded ==
  [][list # <<>> /\ Head(list) = Acceptor /\ list' = Tail(list) /\ backlog # <<>>
       => backlog' # backlog]_vars

\* A connection that ended is closed and its descriptor free again, unless
\* the user holds on to it.
EndedIsFreed ==
  \A c \in Conn : (Open(c) /\ input[c] = "end") ~> (c \notin Live \/ c \in held)

\* Who waits to be accepted is accepted, as long as there are descriptors.
WaitingIsServed == backlog # <<>> ~> backlog = <<>> \/ FreeFds = {}

\* Neither who waits to come in nor who wants to go is forgotten.
NobodyIsForgotten == EndedIsFreed /\ WaitingIsServed
====
