---- MODULE Relay ----
(***************************************************************************)
(* The TCP relay (examples/tcprelay/tcprelay.cc, tunnel.h): every client   *)
(* that is accepted gets a Tunnel, which connects to the target and passes *)
(* on what either side receives.  The client is not read, nor polled at    *)
(* all, before the target's connection is up.  When the client goes, the   *)
(* target's connection is half closed; when the target goes, the tunnel is *)
(* torn down and the client's connection half closed.                      *)
(*                                                                         *)
(* One client.  Each event the loop delivers is one action, with all the   *)
(* calls it leads to.  "near" is the connection to the client, serverConn_ *)
(* of the tunnel, and "far" the one to the target, clientConn_.            *)
(***************************************************************************)
EXTENDS Integers, SequencesExt

CONSTANTS
  Up,           \* the pieces of data the client has for the target
  Down,         \* the pieces of data the target has for the client
  FreeWhenever  \* may a tunnel be freed while its attempt's event exists?

Pieces == ToSet(Up) \cup ToSet(Down)

ASSUME PieceAssumption ==
  Up \in Seq(Pieces) /\ Down \in Seq(Pieces) /\ IsInjective(Up \o Down)
ASSUME FreeAssumption == FreeWhenever \in BOOLEAN

VARIABLES
  near, far,   \* the two connections: see Fresh
  reading,     \* does near want to read?
  waiting,     \* what the input buffer of near holds
  tunnel,      \* has g_tunnels the tunnel?
  callbacks,   \* do the callbacks of client_ hold the tunnel that owns client_?
  context,     \* is far the context_ of near?
  clientConn,  \* is clientConn_ set?
  attempt,     \* the Connector of client_
  spent,       \* is its event_ unregistered but not yet destroyed?
  client,      \* the two peers: how much they sent and the relay took of it,
  target,      \*   and whether they left
  targetUp     \* does the target accept connections (for good)?

links == <<tunnel, callbacks, context, clientConn>>
connector == <<attempt, spent>>
peers == <<client, target, targetUp>>
vars == <<near, far, reading, waiting, links, connector, peers>>

----------------------------------------------------------------------------
\* A connection as TcpEvent has it: its state, out_buf_, all that the kernel
\* took of it, and whether its write side was shut.

Fresh == [state |-> "none", buf |-> <<>>, wire |-> <<>>, fin |-> FALSE]

Established == [Fresh EXCEPT !.state = "connected"]

IsOpen(conn) == conn.state \in {"connected", "disconnecting"}

\* Send writes what the kernel has room for, unless something waits already.
\* On a connection that is not connected the data is dropped.
SendOn(conn, items) ==
  IF conn.state # "connected" THEN {conn}
  ELSE {[conn EXCEPT !.wire = @ \o SubSeq(items, 1, n),
                     !.buf = @ \o SubSeq(items, n + 1, Len(items))]
          : n \in IF conn.buf = <<>> THEN 0..Len(items) ELSE {0}}

\* Mutant: the write side is shut before the buffer is empty.
HastyShutDown(conn) ==
  IF conn.state = "connected"
  THEN [conn EXCEPT !.state = "disconnecting", !.fin = TRUE, !.buf = <<>>]
  ELSE conn

ShutDown(conn) ==
  IF conn.state = "connected"
  THEN [conn EXCEPT !.state = "disconnecting", !.fin = (conn.buf = <<>>)]
  ELSE conn

\* HandleWrite, and the ShutDown that waited for it.
Written(conn) ==
  {[conn EXCEPT !.wire = @ \o SubSeq(conn.buf, 1, n),
                !.buf = SubSeq(@, n + 1, Len(@)),
                !.fin = @ \/ (n = Len(conn.buf) /\ conn.state = "disconnecting")]
     : n \in 1..Len(conn.buf)}

\* DoClose: what is still in the buffer is lost.
Closed(conn) == [conn EXCEPT !.state = "disconnected", !.buf = <<>>]

Peer == [sent |-> 0, taken |-> 0, leaves |-> "stays"]

Init ==
  /\ near = Fresh /\ far = Fresh /\ reading = FALSE /\ waiting = <<>>
  /\ tunnel = FALSE /\ callbacks = FALSE /\ context = FALSE /\ clientConn = FALSE
  /\ attempt = "idle" /\ spent = FALSE
  /\ client = Peer /\ target = Peer /\ targetUp \in BOOLEAN

----------------------------------------------------------------------------
\* The tunnel

\* Connector::Start: an attempt, a retry to come, or an errno that ends it.
ConnectorStart ==
  attempt' \in IF targetUp THEN {"connecting"} ELSE {"connecting", "waiting", "gaveUp"}

\* onServerConnection, up.
ClientConnects ==
  /\ near.state = "none"
  /\ near' = Established /\ reading' = FALSE
  /\ tunnel' = TRUE /\ callbacks' = TRUE
  /\ ConnectorStart
  /\ UNCHANGED <<far, waiting, context, clientConn, spent, peers>>

\* Mutant: the client is not read again.
StaysPaused == UNCHANGED reading

StartReading == reading' = TRUE

\* onClientConnection, up.
OnClientUp ==
  /\ context' = TRUE /\ clientConn' = TRUE
  /\ StartReading
  /\ far' \in SendOn(Established, waiting)
  /\ waiting' = <<>>
  /\ UNCHANGED <<near, tunnel, callbacks>>

\* Connector::OnConnect, for better or worse; a timer destroys its event.
OutConnects ==
  /\ attempt = "connecting"
  /\ attempt' = "connected" /\ spent' = TRUE
  /\ OnClientUp
  /\ UNCHANGED peers

OutFails ==
  /\ attempt = "connecting" /\ ~targetUp
  /\ attempt' = "waiting" /\ spent' = TRUE
  /\ UNCHANGED <<near, far, reading, waiting, links, peers>>

RunReset ==
  /\ spent
  /\ spent' = FALSE
  /\ UNCHANGED <<near, far, reading, waiting, links, attempt, peers>>

RunRetry ==
  /\ attempt = "waiting" /\ ~spent
  /\ ConnectorStart
  /\ UNCHANGED <<near, far, reading, waiting, links, spent, peers>>

\* Mutant: clientConn_ is kept.
TearDownHalf ==
  /\ callbacks' = FALSE /\ context' = FALSE
  /\ near' = ShutDown(near)
  /\ UNCHANGED <<tunnel, clientConn>>

\* The tunnel lets go of itself and of far; near sends what it has and FIN.
TearDown ==
  /\ callbacks' = FALSE /\ context' = FALSE /\ clientConn' = FALSE
  /\ near' = ShutDown(near)
  /\ UNCHANGED tunnel

\* Mutant: the target's connection stays as it is.
NoDisconnect == UNCHANGED far

\* TcpClient::Disconnect.  Without a connection it does nothing: the attempts
\* go on.
Disconnect == far' = ShutDown(far)

\* ~Tunnel destroys the client and its connector, which asserts that the
\* event of the attempt is gone.
StopAsserts == attempt # "connecting" /\ ~spent
MayFree == FreeWhenever \/ StopAsserts

----------------------------------------------------------------------------
\* What the connections receive

\* Mutant: the input buffer is not emptied.
ReceivedAgain(peer, n) == [peer EXCEPT !.taken = n - 1]

Received(peer, n) == [peer EXCEPT !.taken = n]
Ended(peer) == peer.leaves = "reset" \/ (peer.leaves = "fin" /\ peer.taken = peer.sent)

\* onServerMessage: without a context the data stays where it is.
NearReceives ==
  /\ IsOpen(near) /\ reading
  /\ \E n \in (client.taken + 1)..client.sent :
       LET items == SubSeq(Up, client.taken + 1, n) IN
       /\ client' = Received(client, n)
       /\ IF context
          THEN far' \in SendOn(far, waiting \o items) /\ waiting' = <<>>
          ELSE waiting' = waiting \o items /\ UNCHANGED far
  /\ UNCHANGED <<near, reading, links, connector, target, targetUp>>

\* onServerConnection, down.
NearEnds ==
  /\ IsOpen(near) /\ reading
  /\ Ended(client)
  /\ callbacks \/ MayFree
  /\ near' = Closed(near)
  /\ Disconnect
  /\ tunnel' = FALSE
  /\ UNCHANGED <<reading, waiting, callbacks, context, clientConn, connector, peers>>

\* onClientMessage.
FarReceives ==
  /\ IsOpen(far)
  /\ \E n \in (target.taken + 1)..target.sent :
       /\ target' = Received(target, n)
       /\ near' \in SendOn(near, SubSeq(Down, target.taken + 1, n))
  /\ UNCHANGED <<far, reading, waiting, links, connector, client, targetUp>>

\* onClientConnection, down.
FarEnds ==
  /\ IsOpen(far)
  /\ Ended(target)
  /\ tunnel \/ MayFree
  /\ far' = Closed(far)
  /\ TearDown
  /\ UNCHANGED <<reading, waiting, connector, peers>>

NearWrites ==
  /\ IsOpen(near) /\ client.leaves # "reset"
  /\ near' \in Written(near)
  /\ UNCHANGED <<far, reading, waiting, links, connector, peers>>

FarWrites ==
  /\ IsOpen(far) /\ target.leaves # "reset"
  /\ far' \in Written(far)
  /\ UNCHANGED <<near, reading, waiting, links, connector, peers>>

----------------------------------------------------------------------------
\* The client and the target.  One that has left for good answers what it
\* still gets with a reset.

MayLeave(peer, how) ==
  \/ peer.leaves = "stays" /\ how \in {"fin", "reset"}
  \/ peer.leaves = "fin" /\ how = "reset"

ClientSends ==
  /\ IsOpen(near) /\ client.leaves = "stays" /\ client.sent < Len(Up)
  /\ client' = [client EXCEPT !.sent = @ + 1]
  /\ UNCHANGED <<near, far, reading, waiting, links, connector, target, targetUp>>

ClientLeaves(how) ==
  /\ IsOpen(near) /\ MayLeave(client, how)
  /\ client' = [client EXCEPT !.leaves = how]
  /\ UNCHANGED <<near, far, reading, waiting, links, connector, target, targetUp>>

TargetSends ==
  /\ IsOpen(far) /\ target.leaves = "stays" /\ target.sent < Len(Down)
  /\ target' = [target EXCEPT !.sent = @ + 1]
  /\ UNCHANGED <<near, far, reading, waiting, links, connector, client, targetUp>>

TargetLeaves(how) ==
  /\ IsOpen(far) /\ MayLeave(target, how)
  /\ target' = [target EXCEPT !.leaves = how]
  /\ UNCHANGED <<near, far, reading, waiting, links, connector, client, targetUp>>

\* A target that got FIN has nothing to wait for.
TargetFollows == far.fin /\ target.leaves = "stays" /\ TargetLeaves("fin")

TargetComesUp ==
  /\ ~targetUp
  /\ targetUp' = TRUE
  /\ UNCHANGED <<near, far, reading, waiting, links, connector, client, target>>

Next ==
  \/ ClientConnects
  \/ OutConnects
  \/ OutFails
  \/ RunReset
  \/ RunRetry
  \/ NearReceives
  \/ NearEnds
  \/ FarReceives
  \/ FarEnds
  \/ NearWrites
  \/ FarWrites
  \/ ClientSends
  \/ TargetSends
  \/ \E how \in {"fin", "reset"} : ClientLeaves(how) \/ TargetLeaves(how)
  \/ TargetComesUp

\* The loop serves what is ready, connect(2) ends, a retry comes due, the
\* peers read, and a target that got FIN closes.
Fairness ==
  /\ WF_vars(OutConnects) /\ WF_vars(RunReset) /\ WF_vars(RunRetry)
  /\ WF_vars(NearReceives) /\ WF_vars(NearEnds) /\ WF_vars(NearWrites)
  /\ WF_vars(FarReceives) /\ WF_vars(FarEnds) /\ WF_vars(FarWrites)
  /\ WF_vars(TargetFollows)

Spec == Init /\ [][Next]_vars
FairSpec == Spec /\ Fairness

----------------------------------------------------------------------------
\* Properties

\* Every part of the state has its type, and no piece is sent twice.
TypeOK ==
  /\ \A conn \in {near, far} :
       /\ conn.state \in {"none", "connected", "disconnecting", "disconnected"}
       /\ conn.fin \in BOOLEAN
  /\ IsInjective(far.wire \o far.buf \o waiting) /\ IsInjective(near.wire \o near.buf)
  /\ attempt \in {"idle", "connecting", "waiting", "connected", "gaveUp"}
  /\ client.sent \in 0..Len(Up) /\ client.taken \in 0..client.sent
  /\ target.sent \in 0..Len(Down) /\ target.taken \in 0..target.sent
  /\ {client.leaves, target.leaves} \subseteq {"stays", "fin", "reset"}
  /\ {reading, tunnel, callbacks, context, clientConn, spent, targetUp} \subseteq BOOLEAN

\* The references agree with the connections: the server finds the tunnel of
\* the client that leaves (the assertion of onServerConnection), the client is
\* read exactly once there is where to send it, each side has the other as
\* long as the other is there, and no cycle keeps the tunnel when both are
\* gone.  The tunnel is not freed in the middle of an attempt.
TunnelAgrees ==
  /\ tunnel <=> IsOpen(near)
  /\ near.state = "connected" => (reading <=> far.state # "none")
  /\ context <=> IsOpen(far)
  /\ clientConn <=> IsOpen(far)
  /\ callbacks <=> near.state # "none" /\ far.state # "disconnected"
  /\ far.state = "disconnected" => near.state # "connected"
  /\ near.state = "disconnected" => far.state # "connected"
  /\ near.state # "none" /\ ~tunnel /\ ~callbacks => StopAsserts

\* While a side is open it gets all that was read from the other, in order,
\* also what waits in the output buffer when the other side goes: behind the
\* FIN of a peer that left in good order nothing is missing.
NothingLost ==
  /\ IsOpen(far) => far.wire \o far.buf = SubSeq(Up, 1, client.taken)
  /\ IsOpen(near) => near.wire \o near.buf = SubSeq(Down, 1, target.taken)
  /\ IsOpen(far) /\ far.fin /\ client.leaves = "fin" =>
       far.wire = SubSeq(Up, 1, client.sent)
  /\ IsOpen(near) /\ near.fin /\ target.leaves = "fin" =>
       near.wire = SubSeq(Down, 1, target.sent)

EndOf(conn) ==
  CASE conn.state = "none" -> "none"
    [] conn.state = "connected" -> "open"
    [] conn.state = "disconnecting" -> "closing"
    [] conn.state = "disconnected" -> "closed"

Promised == INSTANCE Pipe WITH
  apart <- FALSE,
  near <- EndOf(near),
  far <- EndOf(far),
  sentUp <- SubSeq(Up, 1, client.sent),
  gotUp <- far.wire,
  sentDown <- SubSeq(Down, 1, target.sent),
  gotDown <- near.wire

\* The tunnel is a pipe: whatever happens in the attempts, the two buffers and
\* the two half-closes, a client sees only what a pipe does.
ImplementsPipe == Promised!Spec

\* A client that leaves, even one that leaves while nobody polls it, is let
\* go in the end, and the tunnel and its target's connection with it.  (An
\* errno of connect(2) that the connector does not know ends the attempts.)
LeaverIsReleased ==
  client.leaves # "stays" /\ targetUp
    ~> attempt = "gaveUp"
       \/ (~IsOpen(near) /\ ~IsOpen(far) /\ ~tunnel /\ ~callbacks /\ ~context /\ ~clientConn)

\* The relay takes its two connections and the connector for what they are.
NearConnection == INSTANCE Connection WITH
  state <- near.state, wire <- near.wire, left <- near.buf, fin <- near.fin,
  reading <- reading /\ IsOpen(near), got <- client.taken
FarConnection == INSTANCE Connection WITH
  state <- far.state, wire <- far.wire, left <- far.buf, fin <- far.fin,
  reading <- IsOpen(far), got <- target.taken
Trying == INSTANCE Attempt

UsesTheLibrary == NearConnection!Spec /\ FarConnection!Spec /\ Trying!Spec
====
