---- MODULE RelayProofs ----
(***************************************************************************)
(* For whatever the client and the target send: the tunnel's references    *)
(* agree with its connections, neither side loses anything that was read   *)
(* from the other while it is open, the relay is a Pipe, and what it takes *)
(* its connections and its connector for is what these are.                *)
(***************************************************************************)
EXTENDS Relay, SequenceTheorems, TLAPS

Conn == [state : {"none", "connected", "disconnecting", "disconnected"},
         buf : Seq(Pieces), wire : Seq(Pieces), fin : BOOLEAN]

PeerOf(data) == [sent : 0..Len(data), taken : 0..Len(data),
                 leaves : {"stays", "fin", "reset"}]

\* The types, as far as the rest needs them.
Types ==
  /\ near \in Conn /\ far \in Conn /\ waiting \in Seq(Pieces)
  /\ client \in PeerOf(Up) /\ client.taken <= client.sent
  /\ target \in PeerOf(Down) /\ target.taken <= target.sent
  /\ attempt \in {"idle", "connecting", "waiting", "connected", "gaveUp"}
  /\ reading \in BOOLEAN /\ tunnel \in BOOLEAN /\ callbacks \in BOOLEAN
  /\ context \in BOOLEAN /\ clientConn \in BOOLEAN /\ spent \in BOOLEAN

\* What was there first, and which end went first.
EndsAgree ==
  /\ attempt = "connected" <=> far.state # "none"
  /\ near.state = "none" => attempt = "idle" /\ ~spent /\ ~reading
  /\ near.state = "disconnecting" => far.state = "disconnected"
  /\ far.state = "disconnecting" => near.state = "disconnected"
  /\ reading => far.state # "none"
  /\ near.state = "disconnected" => far.state # "none"

\* TunnelAgrees, where its last part needs a tunnel that is freed in time.
References ==
  /\ tunnel <=> IsOpen(near)
  /\ near.state = "connected" => (reading <=> far.state # "none")
  /\ context <=> IsOpen(far)
  /\ clientConn <=> IsOpen(far)
  /\ callbacks <=> near.state # "none" /\ far.state # "disconnected"
  /\ far.state = "disconnected" => near.state # "connected"
  /\ near.state = "disconnected" => far.state # "connected"
  /\ ~FreeWhenever /\ near.state # "none" /\ ~tunnel /\ ~callbacks => StopAsserts

\* What an end has is what was taken for it, and FIN comes last.
FinIsLast(conn) == conn.fin => conn.buf = <<>> /\ conn.state \in {"disconnecting", "disconnected"}

StreamsAgree ==
  /\ near.state = "none" => near.wire = <<>> /\ near.buf = <<>>
  /\ far.state = "none" => far.wire = <<>> /\ far.buf = <<>>
  /\ far.state = "none" => waiting = <<>> /\ client.taken = 0 /\ target.taken = 0
  /\ far.state = "connected" => waiting = <<>>
  /\ IsOpen(far) => far.wire \o far.buf = SubSeq(Up, 1, client.taken)
  /\ IsOpen(near) => near.wire \o near.buf = SubSeq(Down, 1, target.taken)
  /\ FinIsLast(near) /\ FinIsLast(far)
  /\ near.state = "disconnected" /\ client.leaves = "fin" => client.taken = client.sent
  /\ far.state = "disconnected" /\ target.leaves = "fin" => target.taken = target.sent

Inv == Types /\ EndsAgree /\ References /\ StreamsAgree

----------------------------------------------------------------------------
\* Sequences of pieces

LEMMA Associative ==
  ASSUME NEW r \in Seq(Pieces), NEW s \in Seq(Pieces), NEW t \in Seq(Pieces)
  PROVE  (r \o s) \o t = r \o (s \o t)
  BY ConcatAssociative

LEMMA CutInTwo ==
  ASSUME NEW s \in Seq(Pieces), NEW n \in 0..Len(s)
  PROVE  /\ SubSeq(s, 1, n) \in Seq(Pieces)
         /\ SubSeq(s, n + 1, Len(s)) \in Seq(Pieces)
         /\ SubSeq(s, 1, n) \o SubSeq(s, n + 1, Len(s)) = s
  <1>1. Len(s) \in Nat /\ n \in Nat
    OBVIOUS
  <1>2. 1 \in 1..Len(s) + 1 /\ n \in (1 - 1)..Len(s) /\ Len(s) \in n..Len(s)
    BY <1>1
  <1>3. SubSeq(s, 1, n) \o SubSeq(s, n + 1, Len(s)) = SubSeq(s, 1, Len(s))
    BY <1>2, ConcatAdjacentSubSeq
  <1>4. SubSeq(s, 1, Len(s)) = s
    BY SubSeqFull
  <1>5. SubSeq(s, 1, n) \in Seq(Pieces) /\ SubSeq(s, n + 1, Len(s)) \in Seq(Pieces)
    BY <1>1, SubSeqProperties
  <1> QED  BY <1>3, <1>4, <1>5

----------------------------------------------------------------------------
\* Connections

LEMMA SendOnEffect ==
  ASSUME NEW conn \in Conn, NEW items \in Seq(Pieces), NEW c \in SendOn(conn, items)
  PROVE  /\ c \in Conn /\ c.state = conn.state /\ c.fin = conn.fin
         /\ conn.state # "connected" => c = conn
         /\ conn.state = "connected" =>
              /\ c.wire \o c.buf = (conn.wire \o conn.buf) \o items
              /\ conn.buf # <<>> => c.wire = conn.wire
              /\ \E u \in Seq(Pieces) : c.wire = conn.wire \o u
  <1>1. CASE conn.state # "connected"
    BY <1>1 DEF SendOn
  <1>2. CASE conn.state = "connected"
    <2>1. PICK n \in IF conn.buf = <<>> THEN 0..Len(items) ELSE {0} :
            c = [conn EXCEPT !.wire = @ \o SubSeq(items, 1, n),
                             !.buf = @ \o SubSeq(items, n + 1, Len(items))]
      BY <1>2 DEF SendOn
    <2> DEFINE u == SubSeq(items, 1, n) v == SubSeq(items, n + 1, Len(items))
    <2>2. n \in 0..Len(items) /\ (conn.buf # <<>> => n = 0)
      BY <2>1
    <2>3. u \in Seq(Pieces) /\ v \in Seq(Pieces)
      BY <2>2, CutInTwo
    <2>4. u \o v = items
      BY <2>2, CutInTwo
    <2>5. n = 0 => u = <<>>
      BY SubSeqEmpty
    <2>6. conn.wire \in Seq(Pieces) /\ conn.buf \in Seq(Pieces)
      BY DEF Conn
    <2> HIDE DEF u, v
    <2>7. /\ c.wire = conn.wire \o u /\ c.buf = conn.buf \o v
          /\ c.state = conn.state /\ c.fin = conn.fin
      BY <2>1 DEF Conn, u, v
    <2>8. c \in Conn
      <3>1. conn.wire \o u \in Seq(Pieces) /\ conn.buf \o v \in Seq(Pieces)
        BY <2>3, <2>6, ConcatProperties
      <3> QED  BY <2>1, <3>1 DEF Conn, u, v
    <2>9. (conn.wire \o u) \o (conn.buf \o v) = (conn.wire \o conn.buf) \o items
      <3>1. CASE conn.buf = <<>>
        <4>1. conn.buf \o v = v /\ conn.wire \o conn.buf = conn.wire
          BY <3>1, <2>3, <2>6, ConcatEmptySeq
        <4>2. (conn.wire \o u) \o v = conn.wire \o (u \o v)
          BY <2>3, <2>6, Associative
        <4> QED  BY <4>1, <4>2, <2>4
      <3>2. CASE conn.buf # <<>>
        <4>1. u = <<>>
          BY <3>2, <2>2, <2>5
        <4>2. conn.wire \o u = conn.wire /\ v = items
          BY <4>1, <2>3, <2>4, <2>6, ConcatEmptySeq
        <4>3. conn.wire \o (conn.buf \o v) = (conn.wire \o conn.buf) \o v
          BY <2>3, <2>6, Associative
        <4> QED  BY <4>2, <4>3
      <3> QED  BY <3>1, <3>2
    <2>10. conn.buf # <<>> => c.wire = conn.wire
      BY <2>2, <2>5, <2>6, <2>7, ConcatEmptySeq
    <2> QED  BY <1>2, <2>3, <2>7, <2>8, <2>9, <2>10
  <1> QED  BY <1>1, <1>2

LEMMA SendOnState ==
  ASSUME NEW conn \in Conn, NEW items, NEW c \in SendOn(conn, items)
  PROVE  c.state = conn.state
  BY DEF SendOn, Conn

LEMMA WrittenEffect ==
  ASSUME NEW conn \in Conn, FinIsLast(conn), NEW c \in Written(conn)
  PROVE  /\ c \in Conn /\ c.state = conn.state
         /\ c.wire \o c.buf = conn.wire \o conn.buf
         /\ \E u \in Seq(Pieces) : c.wire = conn.wire \o u
         /\ FinIsLast(c)
  <1>1. PICK n \in 1..Len(conn.buf) :
          c = [conn EXCEPT !.wire = @ \o SubSeq(conn.buf, 1, n),
                !.buf = SubSeq(@, n + 1, Len(@)),
                !.fin = @ \/ (n = Len(conn.buf) /\ conn.state = "disconnecting")]
    BY DEF Written
  <1> DEFINE u == SubSeq(conn.buf, 1, n) v == SubSeq(conn.buf, n + 1, Len(conn.buf))
  <1>2. conn.wire \in Seq(Pieces) /\ conn.buf \in Seq(Pieces)
    BY DEF Conn
  <1>3. n \in 0..Len(conn.buf)
    BY <1>1
  <1>4. u \in Seq(Pieces) /\ v \in Seq(Pieces) /\ u \o v = conn.buf
    BY <1>2, <1>3, CutInTwo
  <1>5. n = Len(conn.buf) => v = <<>>
    BY <1>1, <1>2, SubSeqEmpty
  <1>6. ~conn.fin
    BY <1>1, <1>2 DEF FinIsLast
  <1> HIDE DEF u, v
  <1>7. /\ c.wire = conn.wire \o u /\ c.buf = v /\ c.state = conn.state
        /\ c.fin = (conn.fin \/ (n = Len(conn.buf) /\ conn.state = "disconnecting"))
    BY <1>1 DEF Conn, u, v
  <1>8. c \in Conn
    <2>1. conn.wire \o u \in Seq(Pieces)
      BY <1>2, <1>4, ConcatProperties
    <2> QED  BY <1>1, <1>4, <2>1 DEF Conn, u, v
  <1>9. (conn.wire \o u) \o v = conn.wire \o conn.buf
    <2>1. (conn.wire \o u) \o v = conn.wire \o (u \o v)
      BY <1>2, <1>4, Associative
    <2> QED  BY <1>4, <2>1
  <1>10. FinIsLast(c)
    BY <1>5, <1>6, <1>7 DEF FinIsLast
  <1> QED  BY <1>4, <1>7, <1>8, <1>9, <1>10

LEMMA ShutDownEffect ==
  ASSUME NEW conn \in Conn, FinIsLast(conn)
  PROVE  LET c == ShutDown(conn) IN
         /\ c \in Conn /\ FinIsLast(c)
         /\ c.state = IF conn.state = "connected" THEN "disconnecting" ELSE conn.state
         /\ c.wire = conn.wire /\ c.buf = conn.buf
  BY DEF ShutDown, Conn, FinIsLast

LEMMA ClosedEffect ==
  ASSUME NEW conn \in Conn, FinIsLast(conn)
  PROVE  LET c == Closed(conn) IN
         /\ c \in Conn /\ FinIsLast(c) /\ c.state = "disconnected"
         /\ c.wire = conn.wire
  <1>1. <<>> \in Seq(Pieces)
    OBVIOUS
  <1> QED  BY <1>1 DEF Closed, Conn, FinIsLast

LEMMA FreshEffect ==
  /\ Fresh \in Conn /\ Established \in Conn
  /\ FinIsLast(Fresh) /\ FinIsLast(Established)
  /\ Fresh.state = "none" /\ Established.state = "connected"
  /\ Fresh.wire = <<>> /\ Fresh.buf = <<>>
  /\ Established.wire = <<>> /\ Established.buf = <<>>
  <1>1. <<>> \in Seq(Pieces)
    OBVIOUS
  <1> QED  BY <1>1 DEF Fresh, Established, Conn, FinIsLast

\* What is taken next follows what was taken before.
LEMMA TakenNext ==
  ASSUME NEW data \in Seq(Pieces), NEW m \in 0..Len(data), NEW n \in m..Len(data)
  PROVE  /\ SubSeq(data, m + 1, n) \in Seq(Pieces)
         /\ SubSeq(data, 1, m) \o SubSeq(data, m + 1, n) = SubSeq(data, 1, n)
  <1>1. SubSeq(data, m + 1, n) \in Seq(Pieces)
    BY SubSeqProperties
  <1>2. SubSeq(data, 1, m) \o SubSeq(data, m + 1, n) = SubSeq(data, 1, n)
    BY ConcatAdjacentSubSeq
  <1> QED  BY <1>1, <1>2

----------------------------------------------------------------------------
\* Inv is inductive

LEMMA InitInv == ASSUME Init PROVE Inv
  <1>1. near = Fresh /\ far = Fresh /\ waiting = <<>>
    BY DEF Init
  <1>2. Types
    <2>1. <<>> \in Seq(Pieces) /\ 0 \in 0..Len(Up) /\ 0 \in 0..Len(Down)
      BY PieceAssumption
    <2>2. Peer \in PeerOf(Up) /\ Peer \in PeerOf(Down) /\ Peer.taken <= Peer.sent
      BY <2>1 DEF Peer, PeerOf
    <2>3. /\ near \in Conn /\ far \in Conn /\ waiting \in Seq(Pieces)
          /\ client \in PeerOf(Up) /\ client.taken <= client.sent
          /\ target \in PeerOf(Down) /\ target.taken <= target.sent
      BY <1>1, <2>1, <2>2, FreshEffect DEF Init
    <2>4. /\ attempt = "idle" /\ reading = FALSE /\ tunnel = FALSE
          /\ callbacks = FALSE /\ context = FALSE /\ clientConn = FALSE
          /\ spent = FALSE
      BY DEF Init
    <2> QED  BY <2>3, <2>4 DEF Types
  <1>3. EndsAgree /\ References
    BY <1>1, FreshEffect DEF Init, EndsAgree, References, IsOpen
  <1>4. StreamsAgree
    BY <1>1, FreshEffect DEF Init, StreamsAgree, IsOpen, Peer
  <1> QED  BY <1>2, <1>3, <1>4 DEF Inv

LEMMA ClientConnectsInv == ASSUME Inv, ClientConnects PROVE Inv'
  <1> USE DEF Inv
  <1>1. /\ near.state = "none" /\ near' = Established /\ reading' = FALSE
        /\ tunnel' = TRUE /\ callbacks' = TRUE /\ far' = far /\ waiting' = waiting
        /\ context' = context /\ clientConn' = clientConn /\ spent' = spent
        /\ client' = client /\ target' = target
        /\ attempt' \in {"connecting", "waiting", "gaveUp"}
    BY DEF ClientConnects, ConnectorStart, peers
  <1>2. far.state = "none"
    BY <1>1 DEF EndsAgree
  <1>3. Types'
    BY <1>1, FreshEffect DEF Types
  <1>4. EndsAgree'
    BY <1>1, <1>2, FreshEffect DEF EndsAgree
  <1>5. References'
    BY <1>1, <1>2, FreshEffect DEF References, IsOpen
  <1>6. StreamsAgree'
    <2>1. SubSeq(Down, 1, target.taken) = <<>> /\ <<>> \o <<>> = <<>>
      BY <1>2, SubSeqEmpty DEF StreamsAgree
    <2> QED  BY <1>1, <1>2, <2>1, FreshEffect DEF StreamsAgree, IsOpen
  <1> QED  BY <1>3, <1>4, <1>5, <1>6

LEMMA OutConnectsInv == ASSUME Inv, OutConnects PROVE Inv'
  <1> USE DEF Inv
  <1>1. /\ attempt = "connecting" /\ attempt' = "connected" /\ spent' = TRUE
        /\ context' = TRUE /\ clientConn' = TRUE /\ reading' = TRUE
        /\ far' \in SendOn(Established, waiting) /\ waiting' = <<>>
        /\ near' = near /\ tunnel' = tunnel /\ callbacks' = callbacks
        /\ client' = client /\ target' = target
    BY DEF OutConnects, OnClientUp, StartReading, peers
  <1>2. /\ far.state = "none" /\ waiting = <<>> /\ client.taken = 0
        /\ target.taken = 0 /\ near.state = "connected"
    BY <1>1 DEF EndsAgree, StreamsAgree, Types, Conn
  <1>3. /\ far' \in Conn /\ far'.state = "connected" /\ far'.fin = Established.fin
        /\ far'.wire \o far'.buf = (<<>> \o <<>>) \o <<>>
    <2>1. /\ Established \in Conn /\ Established.state = "connected"
          /\ Established.wire = <<>> /\ Established.buf = <<>>
      BY FreshEffect
    <2>2. <<>> \in Seq(Pieces) /\ far' \in SendOn(Established, <<>>)
      BY <1>1, <1>2
    <2>3. /\ far' \in Conn /\ far'.state = Established.state
          /\ far'.fin = Established.fin
          /\ far'.wire \o far'.buf = (Established.wire \o Established.buf) \o <<>>
      BY <2>1, <2>2, SendOnEffect
    <2> QED  BY <2>1, <2>3
  <1>4. Types'
    BY <1>1, <1>2, <1>3 DEF Types
  <1>5. EndsAgree'
    BY <1>1, <1>2, <1>3 DEF EndsAgree
  <1>6. References'
    BY <1>1, <1>2, <1>3 DEF References, IsOpen
  <1>7. StreamsAgree'
    <2>1. SubSeq(Up, 1, client.taken) = <<>> /\ (<<>> \o <<>>) \o <<>> = <<>>
      BY <1>2, SubSeqEmpty
    <2>2. FinIsLast(far)'
      BY <1>3, FreshEffect DEF FinIsLast
    <2> QED  BY <1>1, <1>2, <1>3, <2>1, <2>2 DEF StreamsAgree, IsOpen, FinIsLast
  <1> QED  BY <1>4, <1>5, <1>6, <1>7

\* The attempt goes on without a connection.
LEMMA AttemptInv ==
  ASSUME Inv,
         attempt \in {"connecting", "waiting"},
         attempt' \in {"connecting", "waiting", "gaveUp"}, spent' \in BOOLEAN,
         UNCHANGED <<near, far, reading, waiting, links, client, target>>
  PROVE  Inv'
  <1> USE DEF Inv, links
  <1>1. Types'
    BY DEF Types
  <1>2. EndsAgree'
    BY DEF EndsAgree
  <1>3. far.state = "none" /\ near.state # "none"
    BY DEF EndsAgree
  <1>4. References'
    BY <1>3 DEF References, IsOpen
  <1>5. StreamsAgree'
    BY DEF StreamsAgree, IsOpen, FinIsLast
  <1> QED  BY <1>1, <1>2, <1>4, <1>5

LEMMA RunResetInv == ASSUME Inv, RunReset PROVE Inv'
  <1> USE DEF Inv, RunReset, links, peers
  <1>1. Types'
    BY DEF Types
  <1>2. EndsAgree'
    BY DEF EndsAgree
  <1>3. References'
    BY DEF References, IsOpen, StopAsserts
  <1>4. StreamsAgree'
    BY DEF StreamsAgree, IsOpen, FinIsLast
  <1> QED  BY <1>1, <1>2, <1>3, <1>4

LEMMA NearReceivesInv == ASSUME Inv, NearReceives PROVE Inv'
  <1> USE DEF Inv
  <1>1. PICK n \in (client.taken + 1)..client.sent :
          LET items == SubSeq(Up, client.taken + 1, n) IN
          /\ client' = Received(client, n)
          /\ IF context
             THEN far' \in SendOn(far, waiting \o items) /\ waiting' = <<>>
             ELSE waiting' = waiting \o items /\ UNCHANGED far
    BY DEF NearReceives
  <1> DEFINE items == SubSeq(Up, client.taken + 1, n)
  <1>2. /\ near' = near /\ reading' = reading /\ tunnel' = tunnel
        /\ callbacks' = callbacks /\ context' = context /\ clientConn' = clientConn
        /\ attempt' = attempt /\ spent' = spent /\ target' = target
        /\ IsOpen(near) /\ reading
    BY DEF NearReceives, links, connector
  <1>3. /\ client' \in PeerOf(Up) /\ client'.taken = n /\ client'.sent = client.sent
        /\ client'.leaves = client.leaves /\ n <= client.sent
    BY <1>1 DEF Received, Types, PeerOf
  <1>4. /\ items \in Seq(Pieces)
        /\ SubSeq(Up, 1, client.taken) \o items = SubSeq(Up, 1, n)
    <2>1. client.taken \in 0..Len(Up) /\ n \in client.taken..Len(Up)
      BY <1>1 DEF Types, PeerOf
    <2> QED  BY <2>1, PieceAssumption, TakenNext
  <1> HIDE DEF items
  <1>5. waiting \o items \in Seq(Pieces) /\ <<>> \in Seq(Pieces)
    BY <1>4, ConcatProperties DEF Types
  <1>6. CASE context
    <2>1. IsOpen(far) /\ far.state = "connected" /\ waiting = <<>>
      BY <1>2, <1>6 DEF References, EndsAgree, StreamsAgree, IsOpen
    <2>2. far' \in SendOn(far, waiting \o items) /\ waiting' = <<>>
      BY <1>1, <1>6 DEF items
    <2>3. /\ far' \in Conn /\ far'.state = far.state /\ far'.fin = far.fin
          /\ far'.wire \o far'.buf = (far.wire \o far.buf) \o (waiting \o items)
      BY <1>5, <2>1, <2>2, SendOnEffect DEF Types
    <2>4. far'.wire \o far'.buf = SubSeq(Up, 1, n)
      <3>1. waiting \o items = items
        BY <1>4, <2>1, ConcatEmptySeq
      <3> QED  BY <1>4, <2>1, <2>3, <3>1 DEF StreamsAgree
    <2>5. Types'
      BY <1>2, <1>3, <1>5, <2>2, <2>3 DEF Types
    <2>6. EndsAgree'
      BY <1>2, <2>3 DEF EndsAgree
    <2>7. References'
      BY <1>2, <2>3 DEF References, IsOpen, StopAsserts
    <2>8. StreamsAgree'
      BY <1>2, <1>3, <2>1, <2>2, <2>3, <2>4 DEF StreamsAgree, IsOpen, FinIsLast
    <2> QED  BY <2>5, <2>6, <2>7, <2>8
  <1>7. CASE ~context
    <2>1. far' = far /\ waiting' = waiting \o items
      BY <1>1, <1>7 DEF items
    <2>2. ~IsOpen(far) /\ far.state = "disconnected" /\ near.state = "disconnecting"
      BY <1>2, <1>7 DEF References, EndsAgree, IsOpen, Types, Conn
    <2>3. Types'
      BY <1>2, <1>3, <1>5, <2>1 DEF Types
    <2>4. EndsAgree'
      BY <1>2, <2>1 DEF EndsAgree
    <2>5. References'
      BY <1>2, <2>1 DEF References, IsOpen, StopAsserts
    <2>6. StreamsAgree'
      BY <1>2, <1>3, <2>1, <2>2 DEF StreamsAgree, IsOpen, FinIsLast
    <2> QED  BY <2>3, <2>4, <2>5, <2>6
  <1> QED  BY <1>6, <1>7

LEMMA NearEndsInv == ASSUME Inv, NearEnds PROVE Inv'
  <1> USE DEF Inv
  <1>1. /\ IsOpen(near) /\ reading /\ Ended(client) /\ (callbacks \/ MayFree)
        /\ near' = Closed(near) /\ far' = ShutDown(far) /\ tunnel' = FALSE
        /\ reading' = reading /\ waiting' = waiting /\ callbacks' = callbacks
        /\ context' = context /\ clientConn' = clientConn /\ attempt' = attempt
        /\ spent' = spent /\ client' = client /\ target' = target
    BY DEF NearEnds, Disconnect, connector, peers
  <1>2. /\ near' \in Conn /\ near'.state = "disconnected" /\ FinIsLast(near')
        /\ far' \in Conn /\ FinIsLast(far')
        /\ far'.state = IF far.state = "connected" THEN "disconnecting" ELSE far.state
        /\ far'.wire = far.wire /\ far'.buf = far.buf
    BY <1>1, ClosedEffect, ShutDownEffect DEF Types, StreamsAgree
  <1>3. far.state \in {"connected", "disconnected"} /\ near.state # "none"
    BY <1>1 DEF EndsAgree, IsOpen, Types, Conn
  <1>4. Types'
    BY <1>1, <1>2 DEF Types
  <1>5. EndsAgree'
    BY <1>1, <1>2, <1>3 DEF EndsAgree
  <1>6. References'
    BY <1>1, <1>2, <1>3 DEF References, IsOpen, StopAsserts, MayFree
  <1>7. StreamsAgree'
    <2>1. client.leaves = "fin" => client.taken = client.sent
      BY <1>1 DEF Ended
    <2> QED  BY <1>1, <1>2, <1>3, <2>1 DEF StreamsAgree, IsOpen, FinIsLast
  <1> QED  BY <1>4, <1>5, <1>6, <1>7

LEMMA FarReceivesInv == ASSUME Inv, FarReceives PROVE Inv'
  <1> USE DEF Inv
  <1>1. PICK n \in (target.taken + 1)..target.sent :
          /\ target' = Received(target, n)
          /\ near' \in SendOn(near, SubSeq(Down, target.taken + 1, n))
    BY DEF FarReceives
  <1> DEFINE items == SubSeq(Down, target.taken + 1, n)
  <1>2. /\ far' = far /\ reading' = reading /\ waiting' = waiting /\ tunnel' = tunnel
        /\ callbacks' = callbacks /\ context' = context /\ clientConn' = clientConn
        /\ attempt' = attempt /\ spent' = spent /\ client' = client
        /\ IsOpen(far)
    BY DEF FarReceives, links, connector
  <1>3. /\ target' \in PeerOf(Down) /\ target'.taken = n /\ target'.sent = target.sent
        /\ target'.leaves = target.leaves /\ n <= target.sent
    BY <1>1 DEF Received, Types, PeerOf
  <1>4. /\ items \in Seq(Pieces)
        /\ SubSeq(Down, 1, target.taken) \o items = SubSeq(Down, 1, n)
    <2>1. target.taken \in 0..Len(Down) /\ n \in target.taken..Len(Down)
      BY <1>1 DEF Types, PeerOf
    <2> QED  BY <2>1, PieceAssumption, TakenNext
  <1> HIDE DEF items
  <1>5. /\ near' \in Conn /\ near'.state = near.state /\ near'.fin = near.fin
        /\ near.state # "connected" => near' = near
        /\ near.state = "connected" =>
             near'.wire \o near'.buf = (near.wire \o near.buf) \o items
    BY <1>1, <1>4, SendOnEffect DEF Types, items
  <1>6. far.state \in {"connected", "disconnecting"} /\ near.state \in {"connected", "disconnected"}
    BY <1>2 DEF IsOpen, EndsAgree, Types, Conn
  <1>7. Types'
    BY <1>2, <1>3, <1>5 DEF Types
  <1>8. EndsAgree'
    BY <1>2, <1>5 DEF EndsAgree
  <1>9. References'
    BY <1>2, <1>5 DEF References, IsOpen, StopAsserts
  <1>10. StreamsAgree'
    <2>1. near.state = "connected" => near'.wire \o near'.buf = SubSeq(Down, 1, n)
      BY <1>4, <1>5 DEF StreamsAgree, IsOpen
    <2>2. FinIsLast(near)'
      BY <1>5 DEF FinIsLast, StreamsAgree
    <2> QED  BY <1>2, <1>3, <1>5, <1>6, <2>1, <2>2 DEF StreamsAgree, IsOpen, FinIsLast
  <1> QED  BY <1>7, <1>8, <1>9, <1>10

LEMMA FarEndsInv == ASSUME Inv, FarEnds PROVE Inv'
  <1> USE DEF Inv
  <1>1. /\ IsOpen(far) /\ Ended(target) /\ (tunnel \/ MayFree)
        /\ far' = Closed(far) /\ near' = ShutDown(near) /\ tunnel' = tunnel
        /\ reading' = reading /\ waiting' = waiting /\ callbacks' = FALSE
        /\ context' = FALSE /\ clientConn' = FALSE /\ attempt' = attempt
        /\ spent' = spent /\ client' = client /\ target' = target
    BY DEF FarEnds, TearDown, connector, peers
  <1>2. /\ far' \in Conn /\ far'.state = "disconnected" /\ FinIsLast(far')
        /\ near' \in Conn /\ FinIsLast(near')
        /\ near'.state = IF near.state = "connected" THEN "disconnecting" ELSE near.state
        /\ near'.wire = near.wire /\ near'.buf = near.buf
    BY <1>1, ClosedEffect, ShutDownEffect DEF Types, StreamsAgree
  <1>3. near.state \in {"connected", "disconnected"} /\ far.state # "none"
    BY <1>1 DEF EndsAgree, IsOpen, Types, Conn
  <1>4. Types'
    BY <1>1, <1>2 DEF Types
  <1>5. EndsAgree'
    BY <1>1, <1>2, <1>3 DEF EndsAgree
  <1>6. References'
    BY <1>1, <1>2, <1>3 DEF References, IsOpen, StopAsserts, MayFree
  <1>7. StreamsAgree'
    <2>1. target.leaves = "fin" => target.taken = target.sent
      BY <1>1 DEF Ended
    <2> QED  BY <1>1, <1>2, <1>3, <2>1 DEF StreamsAgree, IsOpen, FinIsLast
  <1> QED  BY <1>4, <1>5, <1>6, <1>7

LEMMA NearWritesInv == ASSUME Inv, NearWrites PROVE Inv'
  <1> USE DEF Inv, NearWrites, links, connector, peers
  <1>1. /\ near' \in Conn /\ near'.state = near.state /\ FinIsLast(near')
        /\ near'.wire \o near'.buf = near.wire \o near.buf
    BY WrittenEffect DEF Types, StreamsAgree
  <1>2. Types'
    BY <1>1 DEF Types
  <1>3. EndsAgree'
    BY <1>1 DEF EndsAgree
  <1>4. References'
    BY <1>1 DEF References, IsOpen, StopAsserts
  <1>5. StreamsAgree'
    BY <1>1 DEF StreamsAgree, IsOpen, FinIsLast
  <1> QED  BY <1>2, <1>3, <1>4, <1>5

LEMMA FarWritesInv == ASSUME Inv, FarWrites PROVE Inv'
  <1> USE DEF Inv, FarWrites, links, connector, peers
  <1>1. /\ far' \in Conn /\ far'.state = far.state /\ FinIsLast(far')
        /\ far'.wire \o far'.buf = far.wire \o far.buf
    BY WrittenEffect DEF Types, StreamsAgree
  <1>2. Types'
    BY <1>1 DEF Types
  <1>3. EndsAgree'
    BY <1>1 DEF EndsAgree
  <1>4. References'
    BY <1>1 DEF References, IsOpen, StopAsserts
  <1>5. StreamsAgree'
    BY <1>1 DEF StreamsAgree, IsOpen, FinIsLast
  <1> QED  BY <1>2, <1>3, <1>4, <1>5

\* A peer that sends, or that leaves, has been there until now.
LEMMA PeerInv ==
  ASSUME Inv,
         client' \in PeerOf(Up) /\ client'.taken = client.taken,
         client.sent <= client'.sent,
         target' \in PeerOf(Down) /\ target'.taken = target.taken,
         target.sent <= target'.sent,
         ~IsOpen(near) => client' = client,
         ~IsOpen(far) => target' = target,
         UNCHANGED <<near, far, reading, waiting, links, connector>>
  PROVE  Inv'
  <1> USE DEF Inv, links, connector
  <1>1. Types'
    BY DEF Types, PeerOf
  <1>2. EndsAgree'
    BY DEF EndsAgree
  <1>3. References'
    BY DEF References, IsOpen, StopAsserts
  <1>4. StreamsAgree'
    BY DEF StreamsAgree, IsOpen, FinIsLast
  <1> QED  BY <1>1, <1>2, <1>3, <1>4

LEMMA NextInv == ASSUME Inv, [Next]_vars PROVE Inv'
  <1>1. CASE ClientConnects
    BY <1>1, ClientConnectsInv
  <1>2. CASE OutConnects
    BY <1>2, OutConnectsInv
  <1>3. CASE OutFails
    BY <1>3, AttemptInv DEF OutFails, peers
  <1>4. CASE RunReset
    BY <1>4, RunResetInv
  <1>5. CASE RunRetry
    BY <1>5, AttemptInv DEF RunRetry, ConnectorStart, peers, Inv, Types
  <1>6. CASE NearReceives
    BY <1>6, NearReceivesInv
  <1>7. CASE NearEnds
    BY <1>7, NearEndsInv
  <1>8. CASE FarReceives
    BY <1>8, FarReceivesInv
  <1>9. CASE FarEnds
    BY <1>9, FarEndsInv
  <1>10. CASE NearWrites
    BY <1>10, NearWritesInv
  <1>11. CASE FarWrites
    BY <1>11, FarWritesInv
  <1>12. CASE ClientSends
    BY <1>12, PeerInv DEF ClientSends, PeerOf, Inv, Types
  <1>13. CASE TargetSends
    BY <1>13, PeerInv DEF TargetSends, PeerOf, Inv, Types
  <1>14. ASSUME NEW how \in {"fin", "reset"}, ClientLeaves(how) PROVE Inv'
    BY <1>14, PeerInv DEF ClientLeaves, PeerOf, Inv, Types
  <1>15. ASSUME NEW how \in {"fin", "reset"}, TargetLeaves(how) PROVE Inv'
    BY <1>15, PeerInv DEF TargetLeaves, PeerOf, Inv, Types
  <1>16. CASE TargetComesUp
    BY <1>16, PeerInv DEF TargetComesUp, PeerOf, Inv, Types
  <1>17. CASE UNCHANGED vars
    BY <1>17, PeerInv DEF vars, peers, PeerOf, Inv, Types
  <1> QED
    BY <1>1, <1>2, <1>3, <1>4, <1>5, <1>6, <1>7, <1>8, <1>9, <1>10, <1>11, <1>12,
       <1>13, <1>14, <1>15, <1>16, <1>17 DEF Next

LEMMA AlwaysInv == Spec => []Inv
  BY InitInv, NextInv, PTL DEF Spec

----------------------------------------------------------------------------
\* The references agree with the connections, and no tunnel outlives both, if
\* none is freed in the middle of an attempt.
THEOREM TunnelAlwaysAgrees ==
  ASSUME ~FreeWhenever
  PROVE  Spec => []TunnelAgrees
  <1>1. Inv => TunnelAgrees
    BY DEF Inv, References, TunnelAgrees
  <1> QED  BY <1>1, AlwaysInv, PTL

\* An end that is open has all that was taken for it, and behind FIN nothing
\* is missing of what a peer sent that left in good order.
THEOREM NothingIsLost == Spec => []NothingLost
  <1>1. Inv => NothingLost
    <2> SUFFICES ASSUME Inv PROVE NothingLost
      OBVIOUS
    <2>1. ASSUME IsOpen(far), far.fin, client.leaves = "fin"
          PROVE  far.wire = SubSeq(Up, 1, client.sent)
      <3>1. far.buf = <<>> /\ near.state = "disconnected" /\ client.taken = client.sent
        BY <2>1 DEF Inv, StreamsAgree, EndsAgree, IsOpen, FinIsLast
      <3>2. far.wire \o <<>> = far.wire
        BY ConcatEmptySeq DEF Inv, Types, Conn
      <3> QED  BY <2>1, <3>1, <3>2 DEF Inv, StreamsAgree
    <2>2. ASSUME IsOpen(near), near.fin, target.leaves = "fin"
          PROVE  near.wire = SubSeq(Down, 1, target.sent)
      <3>1. near.buf = <<>> /\ far.state = "disconnected" /\ target.taken = target.sent
        BY <2>2 DEF Inv, StreamsAgree, EndsAgree, IsOpen, FinIsLast
      <3>2. near.wire \o <<>> = near.wire
        BY ConcatEmptySeq DEF Inv, Types, Conn
      <3> QED  BY <2>2, <3>1, <3>2 DEF Inv, StreamsAgree
    <2> QED  BY <2>1, <2>2 DEF NothingLost, Inv, StreamsAgree
  <1> QED  BY <1>1, AlwaysInv, PTL

----------------------------------------------------------------------------
\* The tunnel implements Pipe

\* t goes on where s stops.
Extends(s, t) == \E u \in Seq(Pieces) : t = s \o u

LEMMA ExtendsSelf ==
  ASSUME NEW s \in Seq(Pieces) PROVE Extends(s, s)
  <1>1. <<>> \in Seq(Pieces) /\ s \o <<>> = s
    BY ConcatEmptySeq
  <1> QED  BY <1>1 DEF Extends

LEMMA ExtendsTransitive ==
  ASSUME NEW r \in Seq(Pieces), NEW s \in Seq(Pieces), NEW t \in Seq(Pieces),
         Extends(r, s), Extends(s, t)
  PROVE  Extends(r, t)
  <1>1. PICK u \in Seq(Pieces) : s = r \o u
    BY DEF Extends
  <1>2. PICK v \in Seq(Pieces) : t = s \o v
    BY DEF Extends
  <1>3. t = r \o (u \o v) /\ u \o v \in Seq(Pieces)
    BY <1>1, <1>2, Associative, ConcatProperties
  <1> QED  BY <1>3 DEF Extends

LEMMA ExtendsPrefix ==
  ASSUME NEW s \in Seq(Pieces), NEW t \in Seq(Pieces), Extends(s, t)
  PROVE  /\ Promised!IsPrefix(s, t)
         /\ NearConnection!IsPrefix(s, t) /\ FarConnection!IsPrefix(s, t)
  <1>1. PICK u \in Seq(Pieces) : t = s \o u
    BY DEF Extends
  <1>2. /\ Len(s) \in Nat /\ Len(u) \in Nat /\ Len(t) = Len(s) + Len(u)
        /\ \A i \in 1..Len(s) : t[i] = s[i]
    BY <1>1, ConcatProperties
  <1>3. /\ SubSeq(s, 1, Len(s)) = s
        /\ SubSeq(t, 1, Len(s)) \in Seq(Pieces)
        /\ Len(SubSeq(t, 1, Len(s))) = Len(s)
        /\ \A i \in 1..Len(s) : SubSeq(t, 1, Len(s))[i] = s[i]
    BY <1>2
  <1>4. SubSeq(t, 1, Len(s)) = s
    BY <1>3, SeqEqual
  <1> QED
    BY <1>2, <1>3, <1>4
       DEF Promised!IsPrefix, NearConnection!IsPrefix, FarConnection!IsPrefix

LEMMA CutExtends ==
  ASSUME NEW data \in Seq(Pieces), NEW m \in 0..Len(data), NEW n \in m..Len(data)
  PROVE  /\ SubSeq(data, 1, m) \in Seq(Pieces) /\ SubSeq(data, 1, n) \in Seq(Pieces)
         /\ Extends(SubSeq(data, 1, m), SubSeq(data, 1, n))
  <1>1. n \in 0..Len(data)
    OBVIOUS
  <1>2. SubSeq(data, 1, m) \in Seq(Pieces) /\ SubSeq(data, 1, n) \in Seq(Pieces)
    BY <1>1, CutInTwo
  <1>3. /\ SubSeq(data, m + 1, n) \in Seq(Pieces)
        /\ SubSeq(data, 1, m) \o SubSeq(data, m + 1, n) = SubSeq(data, 1, n)
    BY TakenNext
  <1> QED  BY <1>2, <1>3 DEF Extends

\* What a step does to an end: its wire only grows, and only while it is open.
Grows(conn, c) ==
  /\ Extends(conn.wire, c.wire)
  /\ c.wire # conn.wire => IsOpen(c)

\* What a step does to a peer: nothing it sent or that was taken is undone.
Advances(peer, p) == peer.sent <= p.sent /\ peer.taken <= p.taken

LEMMA GrowsSame ==
  ASSUME NEW conn \in Conn, NEW c, c.wire = conn.wire
  PROVE  Grows(conn, c)
  BY ExtendsSelf DEF Conn, Grows

LEMMA AdvancesSame ==
  ASSUME NEW data \in Seq(Pieces), NEW peer \in PeerOf(data)
  PROVE  Advances(peer, peer)
  BY DEF PeerOf, Advances

LEMMA StepGrows ==
  ASSUME Inv, [Next]_vars
  PROVE  /\ Grows(near, near') /\ Grows(far, far')
         /\ Advances(client, client') /\ Advances(target, target')
  <1> USE DEF Inv
  <1>1. near \in Conn /\ far \in Conn /\ FinIsLast(near) /\ FinIsLast(far)
    BY DEF Types, StreamsAgree
  <1>2. /\ client \in PeerOf(Up) /\ target \in PeerOf(Down)
        /\ Advances(client, client) /\ Advances(target, target)
    BY PieceAssumption, AdvancesSame DEF Types
  <1>3. CASE ClientConnects
    <2>1. near'.wire = near.wire /\ far' = far /\ client' = client /\ target' = target
      BY <1>3, FreshEffect DEF ClientConnects, StreamsAgree, peers
    <2> QED  BY <1>1, <1>2, <2>1, GrowsSame
  <1>4. CASE OutConnects
    <2>1. far.wire = <<>> /\ waiting = <<>> /\ far' \in SendOn(Established, waiting)
      BY <1>4 DEF OutConnects, OnClientUp, EndsAgree, StreamsAgree
    <2>2. <<>> \in Seq(Pieces) /\ near' = near /\ client' = client /\ target' = target
      BY <1>4 DEF OutConnects, OnClientUp, peers
    <2>3. /\ far'.state = Established.state
          /\ \E u \in Seq(Pieces) : far'.wire = Established.wire \o u
      BY <2>1, <2>2, FreshEffect, SendOnEffect
    <2>4. Grows(far, far')
      BY <2>1, <2>3, FreshEffect DEF Grows, Extends, IsOpen
    <2> QED  BY <1>1, <1>2, <2>2, <2>4, GrowsSame
  <1>5. CASE NearReceives
    <2>1. PICK n \in (client.taken + 1)..client.sent :
            LET items == SubSeq(Up, client.taken + 1, n) IN
            /\ client' = Received(client, n)
            /\ IF context
               THEN far' \in SendOn(far, waiting \o items) /\ waiting' = <<>>
               ELSE waiting' = waiting \o items /\ UNCHANGED far
      BY <1>5 DEF NearReceives
    <2>2. near' = near /\ target' = target
      BY <1>5 DEF NearReceives
    <2>3. client.taken \in 0..Len(Up) /\ n \in client.taken..Len(Up)
      BY <2>1 DEF Types, PeerOf
    <2>4. Advances(client, client')
      BY <1>2, <2>1 DEF PeerOf, Received, Advances
    <2>5. Grows(far, far')
      <3> DEFINE items == waiting \o SubSeq(Up, client.taken + 1, n)
      <3>1. items \in Seq(Pieces)
        BY <2>3, PieceAssumption, TakenNext, ConcatProperties DEF Types
      <3>2. far' = far \/ far' \in SendOn(far, items)
        BY <2>1
      <3> HIDE DEF items
      <3>3. CASE far' \in SendOn(far, items)
        <4>1. /\ far'.state = far.state
              /\ far.state # "connected" => far' = far
              /\ far.state = "connected" =>
                   \E u \in Seq(Pieces) : far'.wire = far.wire \o u
          BY <1>1, <3>1, <3>3, SendOnEffect
        <4>2. CASE far.state = "connected"
          BY <4>1, <4>2 DEF Grows, Extends, IsOpen
        <4>3. CASE far.state # "connected"
          BY <1>1, <4>1, <4>3, GrowsSame
        <4> QED  BY <4>2, <4>3
      <3> QED  BY <1>1, <3>2, <3>3, GrowsSame
    <2> QED  BY <1>1, <1>2, <2>2, <2>4, <2>5, GrowsSame
  <1>6. CASE FarReceives
    <2>1. PICK n \in (target.taken + 1)..target.sent :
            /\ target' = Received(target, n)
            /\ near' \in SendOn(near, SubSeq(Down, target.taken + 1, n))
      BY <1>6 DEF FarReceives
    <2>2. far' = far /\ client' = client
      BY <1>6 DEF FarReceives
    <2>3. target.taken \in 0..Len(Down) /\ n \in target.taken..Len(Down)
      BY <2>1 DEF Types, PeerOf
    <2>4. Advances(target, target')
      BY <1>2, <2>1 DEF PeerOf, Received, Advances
    <2>5. Grows(near, near')
      <3> DEFINE items == SubSeq(Down, target.taken + 1, n)
      <3>1. items \in Seq(Pieces)
        BY <2>3, PieceAssumption, TakenNext
      <3>2. near' \in SendOn(near, items)
        BY <2>1
      <3> HIDE DEF items
      <3>3. /\ near'.state = near.state
            /\ near.state # "connected" => near' = near
            /\ near.state = "connected" =>
                 \E u \in Seq(Pieces) : near'.wire = near.wire \o u
        BY <1>1, <3>1, <3>2, SendOnEffect
      <3>4. CASE near.state = "connected"
        BY <3>3, <3>4 DEF Grows, Extends, IsOpen
      <3>5. CASE near.state # "connected"
        BY <1>1, <3>3, <3>5, GrowsSame
      <3> QED  BY <3>4, <3>5
    <2> QED  BY <1>1, <1>2, <2>2, <2>4, <2>5, GrowsSame
  <1>7. CASE NearEnds \/ FarEnds
    <2>1. near'.wire = near.wire /\ far'.wire = far.wire /\ client' = client /\ target' = target
      BY <1>1, <1>7, ClosedEffect, ShutDownEffect
         DEF NearEnds, FarEnds, Disconnect, TearDown, peers
    <2> QED  BY <1>1, <1>2, <2>1, GrowsSame
  <1>8. CASE NearWrites
    <2>1. near' \in Written(near) /\ IsOpen(near) /\ far' = far
          /\ client' = client /\ target' = target
      BY <1>8 DEF NearWrites, peers
    <2>2. near'.state = near.state /\ \E u \in Seq(Pieces) : near'.wire = near.wire \o u
      BY <1>1, <2>1, WrittenEffect
    <2> QED  BY <1>1, <1>2, <2>1, <2>2, GrowsSame DEF Grows, Extends, IsOpen
  <1>9. CASE FarWrites
    <2>1. far' \in Written(far) /\ IsOpen(far) /\ near' = near
          /\ client' = client /\ target' = target
      BY <1>9 DEF FarWrites, peers
    <2>2. far'.state = far.state /\ \E u \in Seq(Pieces) : far'.wire = far.wire \o u
      BY <1>1, <2>1, WrittenEffect
    <2> QED  BY <1>1, <1>2, <2>1, <2>2, GrowsSame DEF Grows, Extends, IsOpen
  <1>10. CASE \/ ClientSends \/ TargetSends
              \/ \E how \in {"fin", "reset"} : ClientLeaves(how) \/ TargetLeaves(how)
    <2>1. near' = near /\ far' = far
      BY <1>10 DEF ClientSends, TargetSends, ClientLeaves, TargetLeaves
    <2>2. Advances(client, client') /\ Advances(target, target')
      BY <1>2, <1>10
         DEF ClientSends, TargetSends, ClientLeaves, TargetLeaves, Advances, PeerOf
    <2> QED  BY <1>1, <2>1, <2>2, GrowsSame
  <1>11. CASE OutFails \/ RunReset \/ RunRetry \/ TargetComesUp \/ UNCHANGED vars
    <2>1. near' = near /\ far' = far /\ client' = client /\ target' = target
      BY <1>11 DEF OutFails, RunReset, RunRetry, TargetComesUp, vars, peers
    <2> QED  BY <1>1, <1>2, <2>1, GrowsSame
  <1> QED
    BY <1>3, <1>4, <1>5, <1>6, <1>7, <1>8, <1>9, <1>10, <1>11 DEF Next

\* Also what an end that has gone had handed out is part of what was taken.
WiresFit ==
  /\ Extends(far.wire, SubSeq(Up, 1, client.taken))
  /\ Extends(near.wire, SubSeq(Down, 1, target.taken))

LEMMA InitWires == ASSUME Init PROVE WiresFit
  <1>1. /\ near.wire = <<>> /\ far.wire = <<>>
        /\ client.taken = 0 /\ target.taken = 0
    BY FreshEffect DEF Init, Peer
  <1>2. SubSeq(Up, 1, 0) = <<>> /\ SubSeq(Down, 1, 0) = <<>> /\ <<>> \in Seq(Pieces)
    BY SubSeqEmpty
  <1>3. Extends(<<>>, <<>>)
    BY <1>2, ExtendsSelf
  <1> QED  BY <1>1, <1>2, <1>3 DEF WiresFit

LEMMA WiresFitStep ==
  ASSUME NEW data \in Seq(Pieces), NEW conn \in Conn, NEW c \in Conn,
         NEW m \in 0..Len(data), NEW n \in m..Len(data),
         Extends(conn.wire, SubSeq(data, 1, m)),
         Grows(conn, c), IsOpen(c) => c.wire \o c.buf = SubSeq(data, 1, n)
  PROVE  Extends(c.wire, SubSeq(data, 1, n))
  <1>1. CASE IsOpen(c)
    BY <1>1 DEF Extends, Conn
  <1>2. CASE ~IsOpen(c)
    <2>1. c.wire = conn.wire /\ conn.wire \in Seq(Pieces)
      BY <1>2 DEF Grows, Conn
    <2> QED  BY <2>1, CutExtends, ExtendsTransitive
  <1> QED  BY <1>1, <1>2

LEMMA NextWires == ASSUME Inv, Inv', WiresFit, [Next]_vars PROVE WiresFit'
  <1>1. /\ Grows(near, near') /\ Grows(far, far')
        /\ Advances(client, client') /\ Advances(target, target')
    BY StepGrows
  <1>2. /\ near \in Conn /\ near' \in Conn /\ far \in Conn /\ far' \in Conn
        /\ client \in PeerOf(Up) /\ client' \in PeerOf(Up)
        /\ target \in PeerOf(Down) /\ target' \in PeerOf(Down)
    BY DEF Inv, Types
  <1>3. /\ client.taken \in 0..Len(Up) /\ client'.taken \in client.taken..Len(Up)
        /\ target.taken \in 0..Len(Down) /\ target'.taken \in target.taken..Len(Down)
    BY <1>1, <1>2, PieceAssumption DEF PeerOf, Advances
  <1>4. /\ IsOpen(far') => far'.wire \o far'.buf = SubSeq(Up, 1, client'.taken)
        /\ IsOpen(near') => near'.wire \o near'.buf = SubSeq(Down, 1, target'.taken)
    BY DEF Inv, StreamsAgree, IsOpen
  <1>5. Extends(far'.wire, SubSeq(Up, 1, client'.taken))
    BY <1>1, <1>2, <1>3, <1>4, PieceAssumption, WiresFitStep DEF WiresFit
  <1>6. Extends(near'.wire, SubSeq(Down, 1, target'.taken))
    BY <1>1, <1>2, <1>3, <1>4, PieceAssumption, WiresFitStep DEF WiresFit
  <1> QED  BY <1>5, <1>6 DEF WiresFit

LEMMA EndOfState ==
  ASSUME NEW conn \in Conn
  PROVE  /\ EndOf(conn) = "none" <=> conn.state = "none"
         /\ EndOf(conn) = "open" <=> conn.state = "connected"
         /\ EndOf(conn) = "closing" <=> conn.state = "disconnecting"
         /\ EndOf(conn) = "closed" <=> conn.state = "disconnected"
         /\ EndOf(conn) \in {"none", "open", "closing", "closed"}
  BY DEF EndOf, Conn

LEMMA Carried ==
  ASSUME Inv, Inv', WiresFit, WiresFit', [Next]_vars
  PROVE  Promised!Carries
  <1>1. /\ Grows(near, near') /\ Grows(far, far')
        /\ Advances(client, client') /\ Advances(target, target')
    BY StepGrows
  <1>2. /\ near \in Conn /\ near' \in Conn /\ far \in Conn /\ far' \in Conn
        /\ client \in PeerOf(Up) /\ client' \in PeerOf(Up)
        /\ target \in PeerOf(Down) /\ target' \in PeerOf(Down)
        /\ client'.taken <= client'.sent /\ target'.taken <= target'.sent
    BY DEF Inv, Types
  <1>3. /\ near.wire \in Seq(Pieces) /\ near'.wire \in Seq(Pieces)
        /\ far.wire \in Seq(Pieces) /\ far'.wire \in Seq(Pieces)
    BY <1>2 DEF Conn
  <1>4. /\ client.sent \in 0..Len(Up) /\ client'.sent \in client.sent..Len(Up)
        /\ target.sent \in 0..Len(Down) /\ target'.sent \in target.sent..Len(Down)
        /\ client'.taken \in 0..Len(Up) /\ client'.sent \in client'.taken..Len(Up)
        /\ target'.taken \in 0..Len(Down) /\ target'.sent \in target'.taken..Len(Down)
    BY <1>1, <1>2, PieceAssumption DEF PeerOf, Advances
  <1>5. /\ Promised!IsPrefix(SubSeq(Up, 1, client.sent), SubSeq(Up, 1, client'.sent))
        /\ Promised!IsPrefix(SubSeq(Down, 1, target.sent), SubSeq(Down, 1, target'.sent))
    BY <1>4, PieceAssumption, CutExtends, ExtendsPrefix
  <1>6. Promised!IsPrefix(far.wire, far'.wire) /\ Promised!IsPrefix(near.wire, near'.wire)
    BY <1>1, <1>3, ExtendsPrefix DEF Grows
  <1>7. Promised!IsPrefix(far'.wire, SubSeq(Up, 1, client'.sent))
    <2>1. /\ SubSeq(Up, 1, client'.taken) \in Seq(Pieces)
          /\ SubSeq(Up, 1, client'.sent) \in Seq(Pieces)
          /\ Extends(SubSeq(Up, 1, client'.taken), SubSeq(Up, 1, client'.sent))
      BY <1>4, PieceAssumption, CutExtends
    <2>2. Extends(far'.wire, SubSeq(Up, 1, client'.sent))
      BY <1>3, <2>1, ExtendsTransitive DEF WiresFit
    <2> QED  BY <1>3, <2>1, <2>2, ExtendsPrefix
  <1>8. Promised!IsPrefix(near'.wire, SubSeq(Down, 1, target'.sent))
    <2>1. /\ SubSeq(Down, 1, target'.taken) \in Seq(Pieces)
          /\ SubSeq(Down, 1, target'.sent) \in Seq(Pieces)
          /\ Extends(SubSeq(Down, 1, target'.taken), SubSeq(Down, 1, target'.sent))
      BY <1>4, PieceAssumption, CutExtends
    <2>2. Extends(near'.wire, SubSeq(Down, 1, target'.sent))
      BY <1>3, <2>1, ExtendsTransitive DEF WiresFit
    <2> QED  BY <1>3, <2>1, <2>2, ExtendsPrefix
  <1>9. /\ far'.wire # far.wire => EndOf(far') \in {"open", "closing"}
        /\ near'.wire # near.wire => EndOf(near') \in {"open", "closing"}
    BY <1>1, <1>2, EndOfState DEF Grows, IsOpen
  <1> QED
    BY <1>5, <1>6, <1>7, <1>8, <1>9 DEF Promised!Carries, Promised!There

LEMMA EndsMove ==
  ASSUME Inv, Inv', [Next]_vars
  PROVE  \/ EndOf(near') = EndOf(near) /\ EndOf(far') = EndOf(far)
         \/ Promised!NearOpens \/ Promised!FarOpens
         \/ Promised!NearLeaves \/ Promised!FarLeaves
  <1> USE DEF Inv
  <1>1. near \in Conn /\ near' \in Conn /\ far \in Conn /\ far' \in Conn
    BY DEF Types
  <1>2. CASE ClientConnects
    <2>1. near.state = "none" /\ near'.state = "connected" /\ far' = far
      BY <1>2, FreshEffect DEF ClientConnects
    <2>2. EndOf(near) = "none" /\ EndOf(near') = "open" /\ EndOf(far') = EndOf(far)
      BY <1>1, <2>1, EndOfState
    <2> QED  BY <2>2 DEF Promised!NearOpens
  <1>3. CASE OutConnects
    <2>1. /\ far.state = "none" /\ near.state = "connected" /\ near' = near
          /\ attempt' = "connected"
      BY <1>1, <1>3 DEF OutConnects, OnClientUp, EndsAgree, Conn
    <2>2. waiting = <<>> /\ far' \in SendOn(Established, waiting) /\ <<>> \in Seq(Pieces)
      BY <1>3, <2>1 DEF OutConnects, OnClientUp, StreamsAgree
    <2>3. far'.state = "connected"
      BY <2>2, FreshEffect, SendOnEffect
    <2>4. EndOf(far) = "none" /\ EndOf(far') = "open"
          /\ EndOf(near) = "open" /\ EndOf(near') = EndOf(near)
      BY <1>1, <2>1, <2>3, EndOfState
    <2> QED  BY <2>4 DEF Promised!FarOpens
  <1>4. CASE NearEnds
    <2>1. /\ IsOpen(near) /\ far.state \in {"connected", "disconnected"}
          /\ near' = Closed(near) /\ far' = ShutDown(far)
      BY <1>1, <1>4 DEF NearEnds, Disconnect, EndsAgree, IsOpen, Conn
    <2>2. /\ near'.state = "disconnected"
          /\ far'.state = IF far.state = "connected" THEN "disconnecting" ELSE far.state
      BY <1>1, <2>1, ClosedEffect, ShutDownEffect DEF StreamsAgree
    <2>3. EndOf(near) \in {"open", "closing"} /\ EndOf(near') = "closed"
      BY <1>1, <2>1, <2>2, EndOfState DEF IsOpen
    <2>4. \/ EndOf(far) = "open" /\ EndOf(far') = "closing"
          \/ EndOf(far) = "closed" /\ EndOf(far') = "closed"
      BY <1>1, <2>1, <2>2, EndOfState
    <2> QED  BY <2>3, <2>4 DEF Promised!NearLeaves, Promised!There
  <1>5. CASE FarEnds
    <2>1. /\ IsOpen(far) /\ near.state \in {"connected", "disconnected"}
          /\ far' = Closed(far) /\ near' = ShutDown(near)
      BY <1>1, <1>5 DEF FarEnds, TearDown, EndsAgree, IsOpen, Conn
    <2>2. /\ far'.state = "disconnected"
          /\ near'.state = IF near.state = "connected" THEN "disconnecting" ELSE near.state
      BY <1>1, <2>1, ClosedEffect, ShutDownEffect DEF StreamsAgree
    <2>3. EndOf(far) \in {"open", "closing"} /\ EndOf(far') = "closed"
      BY <1>1, <2>1, <2>2, EndOfState DEF IsOpen
    <2>4. \/ EndOf(near) = "open" /\ EndOf(near') = "closing"
          \/ EndOf(near) = "closed" /\ EndOf(near') = "closed"
      BY <1>1, <2>1, <2>2, EndOfState
    <2> QED  BY <2>3, <2>4 DEF Promised!FarLeaves, Promised!There
  <1>6. ASSUME near'.state = near.state, far'.state = far.state
        PROVE  EndOf(near') = EndOf(near) /\ EndOf(far') = EndOf(far)
    BY <1>1, <1>6, EndOfState
  <1>7. CASE NearReceives
    <2>1. near' = near
      BY <1>7 DEF NearReceives
    <2>2. far'.state = far.state
      <3>1. \/ far' = far
            \/ \E items : far' \in SendOn(far, items)
        BY <1>7 DEF NearReceives
      <3> QED  BY <1>1, <3>1, SendOnState
    <2> QED  BY <2>1, <2>2, <1>6
  <1>8. CASE FarReceives
    <2>1. far' = far
      BY <1>8 DEF FarReceives
    <2>2. near'.state = near.state
      <3>1. \E items : near' \in SendOn(near, items)
        BY <1>8 DEF FarReceives
      <3> QED  BY <1>1, <3>1, SendOnState
    <2> QED  BY <2>1, <2>2, <1>6
  <1>9. CASE NearWrites \/ FarWrites
    <2>1. near'.state = near.state /\ far'.state = far.state
      BY <1>9, WrittenEffect, <1>1 DEF NearWrites, FarWrites, StreamsAgree
    <2> QED  BY <2>1, <1>6
  <1>10. CASE \/ ClientSends \/ TargetSends
              \/ \E how \in {"fin", "reset"} : ClientLeaves(how) \/ TargetLeaves(how)
    <2>1. near' = near /\ far' = far
      BY <1>10 DEF ClientSends, TargetSends, ClientLeaves, TargetLeaves
    <2> QED  BY <2>1, <1>6
  <1>11. CASE OutFails \/ RunReset \/ RunRetry \/ TargetComesUp \/ UNCHANGED vars
    <2>1. near' = near /\ far' = far
      BY <1>11 DEF OutFails, RunReset, RunRetry, TargetComesUp, vars
    <2> QED  BY <2>1, <1>6
  <1> QED
    BY <1>2, <1>3, <1>4, <1>5, <1>7, <1>8, <1>9, <1>10, <1>11 DEF Next

\* Whatever the client, the target and the attempts do, and however much of each
\* write the kernel takes, the relay is a pipe.
THEOREM Refinement == Spec => ImplementsPipe
  <1>1. Init => Promised!Init
    <2> SUFFICES ASSUME Init PROVE Promised!Init
      OBVIOUS
    <2>1. /\ near = Fresh /\ far = Fresh
          /\ client.sent = 0 /\ target.sent = 0
      BY DEF Init, Peer
    <2>2. SubSeq(Up, 1, 0) = <<>> /\ SubSeq(Down, 1, 0) = <<>>
      BY SubSeqEmpty
    <2>3. EndOf(near) = "none" /\ EndOf(far) = "none"
      BY <2>1, FreshEffect, EndOfState
    <2> QED  BY <2>1, <2>2, <2>3, FreshEffect DEF Promised!Init
  <1>2. Inv /\ Inv' /\ WiresFit /\ WiresFit' /\ [Next]_vars => [Promised!Next]_(Promised!vars)
    <2> SUFFICES ASSUME Inv, Inv', WiresFit, WiresFit', [Next]_vars
                 PROVE  Promised!Next
      OBVIOUS
    <2>1. Promised!Carries
      BY Carried
    <2>2. \/ EndOf(near)' = EndOf(near) /\ EndOf(far)' = EndOf(far)
          \/ Promised!NearOpens \/ Promised!FarOpens
          \/ Promised!NearLeaves \/ Promised!FarLeaves
      BY EndsMove
    <2> QED  BY <2>1, <2>2 DEF Promised!Next
  <1>3. Inv /\ WiresFit /\ [Next]_vars => WiresFit'
    BY NextInv, NextWires
  <1> QED
    BY <1>1, <1>2, <1>3, InitWires, AlwaysInv, PTL DEF ImplementsPipe, Promised!Spec, Spec

----------------------------------------------------------------------------
\* No piece is sent twice

\* A connection that is closed holds nothing.  What near took when far had gone
\* waits for nobody, and it lies behind all that far handed out.
Kept ==
  /\ near.state = "disconnected" => near.buf = <<>>
  /\ far.state = "disconnected" => far.buf = <<>>
  /\ far.state # "disconnected" => waiting = <<>>
  /\ far.state = "disconnected" =>
       \E b \in 0..client.taken :
         /\ Extends(far.wire, SubSeq(Up, 1, b))
         /\ waiting = SubSeq(Up, b + 1, client.taken)

LEMMA InitKept == ASSUME Init PROVE Kept
  BY FreshEffect DEF Init, Kept

\* What does not touch the buffers keeps them as they are.
LEMMA SameKept ==
  ASSUME Kept, waiting' = waiting, client'.taken = client.taken,
         near'.state = near.state, near'.buf = near.buf,
         far'.state = far.state, far'.buf = far.buf, far'.wire = far.wire
  PROVE  Kept'
  BY DEF Kept

LEMMA NearReceivesKept ==
  ASSUME Inv, WiresFit, Kept, NearReceives
  PROVE  Kept'
  <1> USE DEF Inv
  <1>1. PICK n \in (client.taken + 1)..client.sent :
          LET items == SubSeq(Up, client.taken + 1, n) IN
          /\ client' = Received(client, n)
          /\ IF context
             THEN far' \in SendOn(far, waiting \o items) /\ waiting' = <<>>
             ELSE waiting' = waiting \o items /\ UNCHANGED far
    BY DEF NearReceives
  <1>2. /\ near' = near /\ IsOpen(near) /\ reading /\ client'.taken = n
        /\ far \in Conn /\ client \in PeerOf(Up)
    BY <1>1 DEF NearReceives, Received, Types, PeerOf
  <1>3. CASE context
    <2>1. /\ far.state = "connected" /\ waiting' = <<>>
          /\ \E items : far' \in SendOn(far, items)
      BY <1>1, <1>2, <1>3 DEF References, EndsAgree, IsOpen
    <2>2. far'.state = "connected"
      BY <1>2, <2>1, SendOnState
    <2> QED  BY <1>2, <2>1, <2>2 DEF Kept
  <1>4. CASE ~context
    <2>1. far.state = "disconnected" /\ far' = far
      BY <1>1, <1>2, <1>4 DEF References, EndsAgree, IsOpen, Conn
    <2>2. PICK b \in 0..client.taken : /\ Extends(far.wire, SubSeq(Up, 1, b))
                                      /\ waiting = SubSeq(Up, b + 1, client.taken)
      BY <2>1 DEF Kept
    <2>3. /\ client.taken \in Nat /\ n \in client.taken..Len(Up) /\ b \in 0..n
          /\ Len(Up) \in Nat /\ client.taken \in b..Len(Up)
      BY <1>1, <1>2, <2>2, PieceAssumption DEF PeerOf
    <2>4. waiting' = SubSeq(Up, b + 1, client.taken) \o SubSeq(Up, client.taken + 1, n)
      BY <1>1, <1>4, <2>2
    <2>5. SubSeq(Up, b + 1, client.taken) \o SubSeq(Up, client.taken + 1, n)
            = SubSeq(Up, b + 1, n)
      <3>1. /\ b + 1 \in 1..Len(Up) + 1 /\ client.taken \in ((b + 1) - 1)..Len(Up)
            /\ n \in client.taken..Len(Up)
        BY <2>3
      <3> QED  BY <3>1, PieceAssumption, ConcatAdjacentSubSeq
    <2> QED  BY <1>2, <2>1, <2>2, <2>3, <2>4, <2>5 DEF Kept
  <1> QED  BY <1>3, <1>4

LEMMA FarEndsKept ==
  ASSUME Inv, WiresFit, Kept, FarEnds
  PROVE  Kept'
  <1> USE DEF Inv
  <1>1. /\ IsOpen(far) /\ far' = Closed(far) /\ near' = ShutDown(near)
        /\ waiting' = waiting /\ client' = client
    BY DEF FarEnds, TearDown, peers
  <1>2. /\ far \in Conn /\ near \in Conn /\ client \in PeerOf(Up)
        /\ FinIsLast(near) /\ FinIsLast(far)
    BY DEF Types, StreamsAgree
  <1>3. far'.state = "disconnected" /\ far'.wire = far.wire
    BY <1>1, <1>2, ClosedEffect
  <1>4. far'.buf = <<>>
    BY <1>1, <1>2 DEF Closed, Conn
  <1>5. near'.state = "disconnected" => near'.buf = <<>>
    BY <1>1, <1>2, ShutDownEffect DEF Kept
  <1>6. waiting = <<>> /\ client.taken \in 0..client.taken
        /\ client.taken + 1 > client.taken
    BY <1>1, <1>2 DEF Kept, IsOpen, PeerOf
  <1>7. SubSeq(Up, client.taken + 1, client.taken) = <<>>
    BY <1>2, SubSeqEmpty DEF PeerOf
  <1> QED  BY <1>1, <1>3, <1>4, <1>5, <1>6, <1>7 DEF Kept, WiresFit

LEMMA NextKept == ASSUME Inv, Inv', WiresFit, Kept, [Next]_vars PROVE Kept'
  <1> USE DEF Inv
  <1>1. /\ near \in Conn /\ far \in Conn /\ FinIsLast(near) /\ FinIsLast(far)
        /\ client \in PeerOf(Up)
    BY DEF Types, StreamsAgree
  <1>2. CASE ClientConnects
    <2>1. /\ near'.state = "connected" /\ far' = far /\ waiting' = waiting
          /\ client' = client
      BY <1>2, FreshEffect DEF ClientConnects, peers
    <2> QED  BY <2>1 DEF Kept
  <1>3. CASE OutConnects
    <2>1. near' = near /\ waiting' = <<>> /\ far' \in SendOn(Established, waiting)
      BY <1>3 DEF OutConnects, OnClientUp
    <2>2. far'.state = "connected"
      BY <2>1, FreshEffect, SendOnState
    <2> QED  BY <2>1, <2>2 DEF Kept
  <1>4. CASE NearReceives
    BY <1>4, NearReceivesKept
  <1>5. CASE NearEnds
    <2>1. /\ near' = Closed(near) /\ far' = ShutDown(far) /\ waiting' = waiting
          /\ client' = client
      BY <1>5 DEF NearEnds, Disconnect, peers
    <2>2. near'.buf = <<>>
      BY <1>1, <2>1 DEF Closed, Conn
    <2>3. /\ far'.state = IF far.state = "connected" THEN "disconnecting" ELSE far.state
          /\ far'.wire = far.wire /\ far'.buf = far.buf
      BY <1>1, <2>1, ShutDownEffect
    <2> QED  BY <2>1, <2>2, <2>3 DEF Kept
  <1>6. CASE FarReceives
    <2>1. /\ far' = far /\ waiting' = waiting /\ client' = client
          /\ \E n \in (target.taken + 1)..target.sent :
               near' \in SendOn(near, SubSeq(Down, target.taken + 1, n))
      BY <1>6 DEF FarReceives
    <2>2. PICK n \in (target.taken + 1)..target.sent :
            near' \in SendOn(near, SubSeq(Down, target.taken + 1, n))
      BY <2>1
    <2>3. near'.state = near.state
      BY <1>1, <2>2, SendOnState
    <2>4. near.state = "disconnected" => near' = near
      BY <2>2 DEF SendOn
    <2> QED  BY <2>1, <2>3, <2>4 DEF Kept
  <1>7. CASE FarEnds
    BY <1>7, FarEndsKept
  <1>8. CASE NearWrites
    <2>1. IsOpen(near) /\ near' \in Written(near) /\ far' = far /\ waiting' = waiting
          /\ client' = client
      BY <1>8 DEF NearWrites, peers
    <2>2. near'.state = near.state
      BY <1>1, <2>1, WrittenEffect
    <2> QED  BY <2>1, <2>2 DEF Kept, IsOpen
  <1>9. CASE FarWrites
    <2>1. IsOpen(far) /\ far' \in Written(far) /\ near' = near /\ waiting' = waiting
          /\ client' = client
      BY <1>9 DEF FarWrites, peers
    <2>2. far'.state = far.state
      BY <1>1, <2>1, WrittenEffect
    <2> QED  BY <2>1, <2>2 DEF Kept, IsOpen
  <1>10. CASE \/ ClientSends \/ TargetSends
              \/ \E how \in {"fin", "reset"} : ClientLeaves(how) \/ TargetLeaves(how)
    <2>1. near' = near /\ far' = far /\ waiting' = waiting /\ client'.taken = client.taken
      BY <1>1, <1>10 DEF ClientSends, TargetSends, ClientLeaves, TargetLeaves, PeerOf
    <2> QED  BY <2>1, SameKept
  <1>11. CASE OutFails \/ RunReset \/ RunRetry \/ TargetComesUp \/ UNCHANGED vars
    <2>1. near' = near /\ far' = far /\ waiting' = waiting /\ client' = client
      BY <1>11 DEF OutFails, RunReset, RunRetry, TargetComesUp, vars, peers
    <2> QED  BY <2>1, SameKept
  <1> QED
    BY <1>2, <1>3, <1>4, <1>5, <1>6, <1>7, <1>8, <1>9, <1>10, <1>11 DEF Next

\* What starts the data and what ends it have no piece in common.
LEMMA NoPieceTwice ==
  ASSUME NEW data \in Seq(Pieces), IsInjective(data), NEW s \in Seq(Pieces),
         NEW b \in 0..Len(data), NEW c \in b..Len(data),
         Extends(s, SubSeq(data, 1, b))
  PROVE  IsInjective(s \o SubSeq(data, b + 1, c))
  <1> DEFINE t == SubSeq(data, b + 1, c) m == Len(s)
  <1>1. PICK u \in Seq(Pieces) : SubSeq(data, 1, b) = s \o u
    BY DEF Extends
  <1>2. /\ Len(data) \in Nat /\ b \in Nat /\ c \in Nat /\ m \in Nat
        /\ b <= c /\ c <= Len(data)
    OBVIOUS
  <1>3. /\ m <= b
        /\ \A i \in 1..m : s[i] = data[i]
    <2>1. SubSeq(data, 1, b) \in Seq(Pieces) /\ Len(SubSeq(data, 1, b)) = b
          /\ \A i \in 1..b : SubSeq(data, 1, b)[i] = data[i]
      BY <1>2
    <2>2. Len(s \o u) = m + Len(u) /\ Len(u) \in Nat
          /\ \A i \in 1..m : (s \o u)[i] = s[i]
      OBVIOUS
    <2> QED  BY <1>1, <1>2, <2>1, <2>2
  <1>4. /\ t \in Seq(Pieces) /\ Len(t) = c - b
        /\ \A i \in 1..Len(t) : t[i] = data[b + i]
    <2>1. CASE b + 1 <= c
      <3>1. /\ t \in Seq(Pieces) /\ Len(t) = c - (b + 1) + 1
            /\ \A i \in 1..(c - (b + 1) + 1) : t[i] = data[(b + 1) + i - 1]
        <4>1. b + 1 \in Int /\ c \in Int /\ \A i \in (b + 1)..c : data[i] \in Pieces
          BY <1>2, ElementOfSeq
        <4> QED  BY <2>1, <4>1, SubSeqProperties
      <3> HIDE DEF t
      <3>2. c - (b + 1) + 1 = c - b
        BY <1>2
      <3>3. \A i \in 1..(c - b) : (b + 1) + i - 1 = b + i
        BY <1>2
      <3> QED  BY <3>1, <3>2, <3>3
    <2>2. CASE b = c
      <3>1. t = <<>>
        BY <1>2, <2>2, SubSeqEmpty
      <3> QED  BY <1>2, <2>2, <3>1
    <2> QED  BY <1>2, <2>1, <2>2
  <1> HIDE DEF t
  <1> DEFINE v == s \o t
  <1>5. /\ DOMAIN v = 1..(m + (c - b))
        /\ \A i \in 1..m : v[i] = data[i]
        /\ \A i \in (m + 1)..(m + (c - b)) : v[i] = data[b + (i - m)]
    <2>1. /\ DOMAIN v = 1..Len(v) /\ Len(v) = m + (c - b)
          /\ \A i \in 1..(m + (c - b)) : v[i] = IF i <= m THEN s[i] ELSE t[i - m]
      <3>1. /\ v \in Seq(Pieces) /\ Len(v) = m + Len(t)
            /\ \A i \in 1..(m + Len(t)) : v[i] = IF i <= m THEN s[i] ELSE t[i - m]
        BY <1>4, ConcatProperties
      <3> HIDE DEF v, m
      <3> QED  BY <1>4, <3>1
    <2> HIDE DEF v, m
    <2>2. \A i \in (m + 1)..(m + (c - b)) : i - m \in 1..Len(t)
      BY <1>2, <1>4
    <2>3. ASSUME NEW i \in 1..m PROVE v[i] = data[i]
      BY <1>2, <1>3, <2>1
    <2>4. ASSUME NEW i \in (m + 1)..(m + (c - b)) PROVE v[i] = data[b + (i - m)]
      <3>1. i \in 1..(m + (c - b)) /\ ~(i <= m) /\ i - m \in 1..Len(t)
        BY <1>2, <2>2
      <3> QED  BY <1>4, <2>1, <3>1
    <2> QED  BY <2>1, <2>3, <2>4
  <1> HIDE DEF v, m
  <1>6. \A i, j \in 1..Len(data) : data[i] = data[j] => i = j
    BY DEF IsInjective
  <1>7. ASSUME NEW i \in DOMAIN v, NEW j \in DOMAIN v, v[i] = v[j]
        PROVE  i = j
    <2>1. CASE i <= m /\ j <= m
      <3>1. /\ i \in 1..m /\ j \in 1..m
            /\ i \in 1..Len(data) /\ j \in 1..Len(data)
        BY <1>2, <1>3, <1>5, <2>1
      <3> QED  BY <1>5, <1>6, <1>7, <3>1
    <2>2. CASE i > m /\ j > m
      <3>1. b + (i - m) \in 1..Len(data) /\ b + (j - m) \in 1..Len(data)
        BY <1>2, <1>5, <2>2
      <3>2. b + (i - m) = b + (j - m)
        BY <1>2, <1>5, <1>6, <1>7, <2>2, <3>1
      <3> QED  BY <1>2, <1>5, <3>2
    <2>3. CASE i <= m /\ j > m
      <3>1. i \in 1..Len(data) /\ b + (j - m) \in 1..Len(data)
        BY <1>2, <1>3, <1>5, <2>3
      <3>2. i = b + (j - m)
        BY <1>2, <1>5, <1>6, <1>7, <2>3, <3>1
      <3> QED  BY <1>2, <1>3, <1>5, <2>3, <3>2
    <2>4. CASE i > m /\ j <= m
      <3>1. j \in 1..Len(data) /\ b + (i - m) \in 1..Len(data)
        BY <1>2, <1>3, <1>5, <2>4
      <3>2. j = b + (i - m)
        BY <1>2, <1>5, <1>6, <1>7, <2>4, <3>1
      <3> QED  BY <1>2, <1>3, <1>5, <2>4, <3>2
    <2> QED  BY <1>2, <1>5, <2>1, <2>2, <2>3, <2>4
  <1> QED  BY <1>7 DEF IsInjective, v, t

LEMMA NothingMore ==
  ASSUME NEW data \in Seq(Pieces), NEW n \in 0..Len(data)
  PROVE  SubSeq(data, n + 1, n) = <<>>
  BY SubSeqEmpty

LEMMA PiecesApart == IsInjective(Up) /\ IsInjective(Down)
  <1>1. Up \in Seq(Pieces) /\ Down \in Seq(Pieces) /\ IsInjective(Up \o Down)
    BY PieceAssumption
  <1>2. /\ DOMAIN (Up \o Down) = 1..(Len(Up) + Len(Down))
        /\ \A i \in 1..Len(Up) : (Up \o Down)[i] = Up[i]
        /\ \A i \in 1..Len(Down) : (Up \o Down)[Len(Up) + i] = Down[i]
        /\ DOMAIN Up = 1..Len(Up) /\ DOMAIN Down = 1..Len(Down)
        /\ Len(Up) \in Nat /\ Len(Down) \in Nat
    BY <1>1
  <1>3. ASSUME NEW i \in DOMAIN Up, NEW j \in DOMAIN Up, Up[i] = Up[j]
        PROVE  i = j
    BY <1>1, <1>2, <1>3 DEF IsInjective
  <1>4. ASSUME NEW i \in DOMAIN Down, NEW j \in DOMAIN Down, Down[i] = Down[j]
        PROVE  i = j
    <2>1. Len(Up) + i = Len(Up) + j
      <3>1. /\ Len(Up) + i \in DOMAIN (Up \o Down) /\ Len(Up) + j \in DOMAIN (Up \o Down)
            /\ (Up \o Down)[Len(Up) + i] = (Up \o Down)[Len(Up) + j]
        BY <1>2, <1>4
      <3> QED  BY <1>1, <3>1 DEF IsInjective
    <2> QED  BY <1>2, <2>1
  <1> QED  BY <1>3, <1>4 DEF IsInjective

\* Every part of the state has its type, and no piece is sent twice, wherever
\* the relay holds it: handed to the kernel, in an output buffer, or in the input
\* buffer of a client whose target has gone.
THEOREM TypeCorrect == Spec => []TypeOK
  <1>1. Inv /\ WiresFit /\ Kept /\ targetUp \in BOOLEAN => TypeOK
    <2> SUFFICES ASSUME Inv, WiresFit, Kept, targetUp \in BOOLEAN PROVE TypeOK
      OBVIOUS
    <2> USE DEF Inv
    <2>1. /\ near \in Conn /\ far \in Conn
          /\ client \in PeerOf(Up) /\ target \in PeerOf(Down)
          /\ client.taken <= client.sent /\ target.taken <= target.sent
          /\ near.wire \in Seq(Pieces) /\ near.buf \in Seq(Pieces)
          /\ far.wire \in Seq(Pieces) /\ far.buf \in Seq(Pieces)
          /\ waiting \in Seq(Pieces)
      BY DEF Types, Conn
    <2>2. /\ client.taken \in 0..Len(Up) /\ target.taken \in 0..Len(Down)
          /\ client.taken \in client.taken..Len(Up)
          /\ target.taken \in target.taken..Len(Down)
      BY <2>1, PieceAssumption DEF PeerOf
    <2>3. /\ SubSeq(Up, 1, client.taken) \in Seq(Pieces)
          /\ SubSeq(Down, 1, target.taken) \in Seq(Pieces)
          /\ Extends(SubSeq(Up, 1, client.taken), SubSeq(Up, 1, client.taken))
          /\ Extends(SubSeq(Down, 1, target.taken), SubSeq(Down, 1, target.taken))
      BY <2>2, PieceAssumption, CutInTwo, ExtendsSelf
    <2>4. /\ SubSeq(Up, client.taken + 1, client.taken) = <<>>
          /\ SubSeq(Down, target.taken + 1, target.taken) = <<>>
      BY <2>2, PieceAssumption, NothingMore
    <2>5. IsInjective(far.wire \o far.buf \o waiting)
      <3>1. CASE far.state = "disconnected"
        <4>1. far.wire \o far.buf = far.wire
          BY <2>1, <3>1, ConcatEmptySeq DEF Kept
        <4>2. PICK b \in 0..client.taken : /\ Extends(far.wire, SubSeq(Up, 1, b))
                                          /\ waiting = SubSeq(Up, b + 1, client.taken)
          BY <3>1 DEF Kept
        <4>3. b \in 0..Len(Up) /\ client.taken \in b..Len(Up)
          BY <2>2, <4>2, PieceAssumption
        <4>4. IsInjective(far.wire \o SubSeq(Up, b + 1, client.taken))
          BY <2>1, <4>2, <4>3, PieceAssumption, PiecesApart, NoPieceTwice
        <4> QED  BY <4>1, <4>2, <4>4
      <3>2. CASE far.state # "disconnected"
        <4>1. far.wire \o far.buf = SubSeq(Up, 1, client.taken)
          <5>1. CASE far.state = "none"
            <6>1. SubSeq(Up, 1, 0) = <<>> /\ <<>> \o <<>> = <<>>
              BY SubSeqEmpty
            <6> QED  BY <5>1, <6>1 DEF StreamsAgree
          <5>2. CASE IsOpen(far)
            BY <5>2 DEF StreamsAgree
          <5> QED  BY <2>1, <3>2, <5>1, <5>2 DEF Conn, IsOpen
        <4>2. waiting = SubSeq(Up, client.taken + 1, client.taken)
          BY <2>4, <3>2 DEF Kept
        <4> QED
          BY <2>2, <2>3, <4>1, <4>2, PieceAssumption, PiecesApart, NoPieceTwice
      <3> QED  BY <3>1, <3>2
    <2>6. IsInjective(near.wire \o near.buf)
      <3>1. Extends(near.wire \o near.buf, SubSeq(Down, 1, target.taken))
        <4>1. CASE near.state = "disconnected"
          <5>1. near.wire \o near.buf = near.wire
            BY <2>1, <4>1, ConcatEmptySeq DEF Kept
          <5> QED  BY <5>1 DEF WiresFit
        <4>2. CASE near.state = "none"
          <5>1. target.taken = 0
            BY <2>1, <4>2 DEF EndsAgree, StreamsAgree
          <5>2. SubSeq(Down, 1, 0) = <<>> /\ <<>> \o <<>> = <<>>
            BY SubSeqEmpty
          <5> QED  BY <2>3, <4>2, <5>1, <5>2 DEF StreamsAgree
        <4>3. CASE IsOpen(near)
          BY <2>3, <4>3 DEF StreamsAgree
        <4> QED  BY <2>1, <4>1, <4>2, <4>3 DEF Conn, IsOpen
      <3>2. near.wire \o near.buf \in Seq(Pieces)
        BY <2>1, ConcatProperties
      <3>3. IsInjective((near.wire \o near.buf) \o SubSeq(Down, target.taken + 1, target.taken))
        BY <2>2, <3>1, <3>2, PieceAssumption, PiecesApart, NoPieceTwice
      <3> QED  BY <2>4, <3>2, <3>3, ConcatEmptySeq
    <2>7. /\ \A conn \in {near, far} :
               /\ conn.state \in {"none", "connected", "disconnecting", "disconnected"}
               /\ conn.fin \in BOOLEAN
          /\ attempt \in {"idle", "connecting", "waiting", "connected", "gaveUp"}
          /\ {client.leaves, target.leaves} \subseteq {"stays", "fin", "reset"}
          /\ {reading, tunnel, callbacks, context, clientConn, spent, targetUp} \subseteq BOOLEAN
      BY <2>1 DEF Types, Conn, PeerOf
    <2>8. /\ client.sent \in 0..Len(Up) /\ client.taken \in 0..client.sent
          /\ target.sent \in 0..Len(Down) /\ target.taken \in 0..target.sent
      BY <2>1 DEF PeerOf
    <2> QED  BY <2>5, <2>6, <2>7, <2>8 DEF TypeOK
  <1>2. Init => targetUp \in BOOLEAN
    BY DEF Init
  <1>3. targetUp \in BOOLEAN /\ [Next]_vars => (targetUp \in BOOLEAN)'
    BY DEF Next, ClientConnects, OutConnects, OutFails, RunReset, RunRetry, NearReceives,
           NearEnds, FarReceives, FarEnds, NearWrites, FarWrites, ClientSends, TargetSends,
           ClientLeaves, TargetLeaves, TargetComesUp, vars, peers
  <1>4. Inv /\ WiresFit /\ [Next]_vars => WiresFit'
    BY NextInv, NextWires
  <1>5. Inv /\ WiresFit /\ Kept /\ [Next]_vars => Kept'
    BY NextInv, NextKept
  <1> QED
    BY <1>1, <1>2, <1>3, <1>4, <1>5, InitWires, InitKept, AlwaysInv, PTL DEF Spec

----------------------------------------------------------------------------
\* The relay uses two connections and one connector

NearSeen ==
  <<near.state, near.wire, near.buf, near.fin, reading /\ IsOpen(near), client.taken>>
FarSeen == <<far.state, far.wire, far.buf, far.fin, IsOpen(far), target.taken>>

\* Nothing overtakes what waits to be sent.
LEMMA SendOnKeepsOrder ==
  ASSUME NEW conn \in Conn, NEW items \in Seq(Pieces), NEW c \in SendOn(conn, items),
         conn.state = "connected"
  PROVE  /\ c.state = conn.state /\ c.fin = conn.fin
         /\ conn.buf # <<>> => c.wire = conn.wire
         /\ NearConnection!IsPrefix(conn.wire, c.wire)
         /\ NearConnection!IsPrefix(conn.wire \o conn.buf, c.wire \o c.buf)
         /\ FarConnection!IsPrefix(conn.wire, c.wire)
         /\ FarConnection!IsPrefix(conn.wire \o conn.buf, c.wire \o c.buf)
  <1>1. /\ c \in Conn /\ c.state = conn.state /\ c.fin = conn.fin
        /\ c.wire \o c.buf = (conn.wire \o conn.buf) \o items
        /\ conn.buf # <<>> => c.wire = conn.wire
        /\ \E u \in Seq(Pieces) : c.wire = conn.wire \o u
    BY SendOnEffect
  <1>2. /\ conn.wire \in Seq(Pieces) /\ conn.buf \in Seq(Pieces)
        /\ c.wire \in Seq(Pieces) /\ c.buf \in Seq(Pieces)
    BY <1>1 DEF Conn
  <1>3. conn.wire \o conn.buf \in Seq(Pieces) /\ c.wire \o c.buf \in Seq(Pieces)
    BY <1>2, ConcatProperties
  <1>4. Extends(conn.wire, c.wire) /\ Extends(conn.wire \o conn.buf, c.wire \o c.buf)
    BY <1>1 DEF Extends
  <1> QED  BY <1>1, <1>2, <1>3, <1>4, ExtendsPrefix

LEMMA WrittenKeepsOrder ==
  ASSUME NEW conn \in Conn, FinIsLast(conn), NEW c \in Written(conn)
  PROVE  /\ c.state = conn.state /\ conn.buf # <<>>
         /\ c.wire \o c.buf = conn.wire \o conn.buf
         /\ c.fin \in {conn.fin, conn.state = "disconnecting" /\ c.buf = <<>>}
         /\ NearConnection!IsPrefix(conn.wire, c.wire)
         /\ FarConnection!IsPrefix(conn.wire, c.wire)
  <1>1. /\ c \in Conn /\ c.state = conn.state
        /\ c.wire \o c.buf = conn.wire \o conn.buf
        /\ \E u \in Seq(Pieces) : c.wire = conn.wire \o u
    BY WrittenEffect
  <1>2. conn.wire \in Seq(Pieces) /\ conn.buf \in Seq(Pieces) /\ c.wire \in Seq(Pieces)
    BY <1>1 DEF Conn
  <1>3. PICK n \in 1..Len(conn.buf) :
          /\ c.buf = SubSeq(conn.buf, n + 1, Len(conn.buf))
          /\ c.fin = (conn.fin \/ (n = Len(conn.buf) /\ conn.state = "disconnecting"))
    BY DEF Written, Conn
  <1>4. conn.buf # <<>>
    BY <1>2, <1>3
  <1>5. n = Len(conn.buf) => c.buf = <<>>
    BY <1>2, <1>3, SubSeqEmpty
  <1>6. conn.fin = FALSE
    BY <1>4 DEF FinIsLast, Conn
  <1>7. c.fin \in {conn.fin, conn.state = "disconnecting" /\ c.buf = <<>>}
    BY <1>3, <1>5, <1>6
  <1>8. Extends(conn.wire, c.wire)
    BY <1>1 DEF Extends
  <1> QED  BY <1>1, <1>2, <1>4, <1>7, <1>8, ExtendsPrefix

LEMMA ShutDownFin ==
  ASSUME NEW conn \in Conn
  PROVE  /\ conn.state # "connected" => ShutDown(conn) = conn
         /\ conn.state = "connected" =>
              /\ ShutDown(conn).state = "disconnecting"
              /\ ShutDown(conn).fin = (conn.buf = <<>>)
              /\ ShutDown(conn).wire = conn.wire /\ ShutDown(conn).buf = conn.buf
  BY DEF ShutDown, Conn

LEMMA ClosedKeeps ==
  ASSUME NEW conn \in Conn
  PROVE  /\ Closed(conn).state = "disconnected" /\ Closed(conn).buf = <<>>
         /\ Closed(conn).wire = conn.wire /\ Closed(conn).fin = conn.fin
  BY DEF Closed, Conn

\* A step that only concerns the peers and the attempt.
LEMMA Aside ==
  ASSUME \/ OutFails \/ RunReset \/ RunRetry
         \/ ClientSends \/ TargetSends \/ TargetComesUp
         \/ \E how \in {"fin", "reset"} : ClientLeaves(how) \/ TargetLeaves(how)
         \/ UNCHANGED vars,
         client \in PeerOf(Up), target \in PeerOf(Down)
  PROVE  /\ UNCHANGED <<near, far, reading>>
         /\ client'.taken = client.taken /\ target'.taken = target.taken
  BY DEF OutFails, RunReset, RunRetry, ClientSends, TargetSends, TargetComesUp,
         ClientLeaves, TargetLeaves, vars, peers, PeerOf

LEMMA NearStep ==
  ASSUME Inv, [Next]_vars
  PROVE  NearConnection!Next \/ UNCHANGED NearSeen
  <1> USE DEF Inv, NearConnection!Next
  <1>1. /\ near \in Conn /\ FinIsLast(near) /\ waiting \in Seq(Pieces)
        /\ client \in PeerOf(Up) /\ target \in PeerOf(Down)
    BY DEF Types, StreamsAgree
  <1>2. CASE ClientConnects
    <2>1. /\ near.state = "none" /\ near' = Established /\ client' = client
          /\ near.wire = <<>> /\ near.buf = <<>> /\ near.fin = FALSE
      BY <1>1, <1>2 DEF ClientConnects, peers, StreamsAgree, FinIsLast, Conn
    <2>2. /\ near'.state = "connected" /\ near'.wire = <<>> /\ near'.buf = <<>>
          /\ near'.fin = FALSE
      BY <2>1, FreshEffect DEF Established, Fresh
    <2>3. (reading /\ IsOpen(near))' \in BOOLEAN
      OBVIOUS
    <2> QED  BY <2>1, <2>2, <2>3 DEF NearConnection!Opens
  <1>3. CASE OutConnects
    <2>1. near' = near /\ client' = client /\ reading' = TRUE /\ near.state = "connected"
      BY <1>1, <1>3
         DEF OutConnects, OnClientUp, StartReading, peers, EndsAgree, Types, Conn
    <2>2. (reading /\ IsOpen(near))' \in BOOLEAN
      OBVIOUS
    <2> QED  BY <2>1, <2>2 DEF NearConnection!Pauses, NearConnection!There
  <1>4. CASE NearReceives
    <2>1. IsOpen(near) /\ reading /\ UNCHANGED <<near, reading>>
      BY <1>4 DEF NearReceives
    <2>2. client'.taken > client.taken
      BY <1>1, <1>4 DEF NearReceives, Received, PeerOf
    <2> QED
      BY <2>1, <2>2 DEF NearConnection!Receives, NearConnection!There, IsOpen
  <1>5. CASE NearEnds
    <2>1. IsOpen(near) /\ near' = Closed(near) /\ client' = client
      BY <1>5 DEF NearEnds, peers
    <2>2. /\ near'.state = "disconnected" /\ near'.buf = <<>>
          /\ near'.wire = near.wire /\ near'.fin = near.fin
      BY <1>1, <2>1, ClosedKeeps
    <2>3. (reading /\ IsOpen(near))' = FALSE
      BY <2>2 DEF IsOpen
    <2> QED
      BY <2>1, <2>2, <2>3 DEF NearConnection!Closes, NearConnection!There, IsOpen
  <1>6. CASE FarReceives
    <2>1. PICK items \in Seq(Pieces) : near' \in SendOn(near, items)
      <3>1. PICK n \in (target.taken + 1)..target.sent :
              near' \in SendOn(near, SubSeq(Down, target.taken + 1, n))
        BY <1>6 DEF FarReceives
      <3>2. target.taken \in 0..Len(Down) /\ n \in target.taken..Len(Down)
        BY <1>1, PieceAssumption DEF PeerOf
      <3> QED  BY <3>1, <3>2, PieceAssumption, TakenNext
    <2>2. UNCHANGED <<reading, client>>
      BY <1>6 DEF FarReceives
    <2>3. CASE near.state # "connected"
      BY <2>1, <2>2, <2>3 DEF SendOn, NearSeen
    <2>4. CASE near.state = "connected"
      <3>1. /\ near'.state = near.state /\ near'.fin = near.fin
            /\ near.buf # <<>> => near'.wire = near.wire
            /\ NearConnection!IsPrefix(near.wire, near'.wire)
            /\ NearConnection!IsPrefix(near.wire \o near.buf, near'.wire \o near'.buf)
        BY <1>1, <2>1, <2>4, SendOnKeepsOrder
      <3> QED  BY <2>2, <2>4, <3>1 DEF NearConnection!Sends, IsOpen
    <2> QED  BY <2>3, <2>4
  <1>7. CASE FarEnds
    <2>1. near' = ShutDown(near) /\ UNCHANGED <<reading, client>>
      BY <1>7 DEF FarEnds, TearDown, peers
    <2>2. CASE near.state # "connected"
      BY <1>1, <2>1, <2>2, ShutDownFin DEF NearSeen
    <2>3. CASE near.state = "connected"
      BY <1>1, <2>1, <2>3, ShutDownFin DEF NearConnection!ShutsDown, IsOpen
    <2> QED  BY <2>2, <2>3
  <1>8. CASE NearWrites
    <2>1. IsOpen(near) /\ near' \in Written(near) /\ UNCHANGED <<reading, client>>
      BY <1>8 DEF NearWrites, peers
    <2> QED
      BY <1>1, <2>1, WrittenKeepsOrder
         DEF NearConnection!Writes, NearConnection!There, IsOpen
  <1>9. CASE FarWrites
    BY <1>9 DEF FarWrites, peers, NearSeen
  <1>10. ASSUME UNCHANGED <<near, far, reading>>, client'.taken = client.taken
         PROVE  UNCHANGED NearSeen
    BY <1>10 DEF NearSeen
  <1> QED
    BY <1>1, <1>2, <1>3, <1>4, <1>5, <1>6, <1>7, <1>8, <1>9, <1>10, Aside DEF Next

LEMMA FarStep ==
  ASSUME Inv, [Next]_vars
  PROVE  FarConnection!Next \/ UNCHANGED FarSeen
  <1> USE DEF Inv, FarConnection!Next
  <1>1. /\ far \in Conn /\ FinIsLast(far) /\ waiting \in Seq(Pieces)
        /\ client \in PeerOf(Up) /\ target \in PeerOf(Down)
    BY DEF Types, StreamsAgree
  <1>2. CASE OutConnects
    <2>1. /\ far.state = "none" /\ far' \in SendOn(Established, <<>>) /\ target' = target
          /\ far.wire = <<>> /\ far.buf = <<>> /\ far.fin = FALSE
      BY <1>1, <1>2
         DEF OutConnects, OnClientUp, peers, EndsAgree, StreamsAgree, FinIsLast, Conn
    <2>2. <<>> \in Seq(Pieces) /\ <<>> \o <<>> = <<>> /\ Established.fin = FALSE
      BY DEF Established, Fresh
    <2>3. /\ far' \in Conn /\ far'.state = "connected" /\ far'.fin = FALSE
          /\ far'.wire \o far'.buf = <<>>
      <3>1. /\ Established \in Conn /\ Established.state = "connected"
            /\ Established.wire = <<>> /\ Established.buf = <<>>
        BY FreshEffect
      <3>2. /\ far' \in Conn /\ far'.state = Established.state
            /\ far'.fin = Established.fin
            /\ far'.wire \o far'.buf = (Established.wire \o Established.buf) \o <<>>
        BY <2>1, <2>2, <3>1, SendOnEffect
      <3> QED  BY <2>2, <3>1, <3>2
    <2>4. far'.wire = <<>> /\ far'.buf = <<>>
      <3>1. far'.wire \in Seq(Pieces) /\ far'.buf \in Seq(Pieces)
        BY <2>3 DEF Conn
      <3>2. Len(far'.wire \o far'.buf) = Len(far'.wire) + Len(far'.buf)
        BY <3>1, ConcatProperties
      <3>3. Len(far'.wire) + Len(far'.buf) = 0
        BY <2>3, <3>2
      <3>4. Len(far'.wire) \in Nat /\ Len(far'.buf) \in Nat
        BY <3>1, LenProperties
      <3>5. ASSUME NEW m \in Nat, NEW n \in Nat, m + n = 0 PROVE m = 0 /\ n = 0
        BY <3>5
      <3>6. Len(far'.wire) = 0 /\ Len(far'.buf) = 0
        BY <3>3, <3>4, <3>5
      <3> QED  BY <3>1, <3>6
    <2>5. IsOpen(far)' \in BOOLEAN
      BY DEF IsOpen
    <2> QED  BY <2>1, <2>3, <2>4, <2>5 DEF FarConnection!Opens
  <1>3. CASE FarReceives
    <2>1. IsOpen(far) /\ UNCHANGED far
      BY <1>3 DEF FarReceives
    <2>2. target'.taken > target.taken
      BY <1>1, <1>3 DEF FarReceives, Received, PeerOf
    <2> QED
      BY <2>1, <2>2 DEF FarConnection!Receives, FarConnection!There, IsOpen
  <1>4. CASE FarEnds
    <2>1. IsOpen(far) /\ far' = Closed(far) /\ target' = target
      BY <1>4 DEF FarEnds, peers
    <2>2. /\ far'.state = "disconnected" /\ far'.buf = <<>>
          /\ far'.wire = far.wire /\ far'.fin = far.fin
      BY <1>1, <2>1, ClosedKeeps
    <2>3. IsOpen(far)' = FALSE
      BY <2>2 DEF IsOpen
    <2> QED
      BY <2>1, <2>2, <2>3 DEF FarConnection!Closes, FarConnection!There, IsOpen
  <1>5. CASE NearReceives
    <2>1. target' = target
      BY <1>5 DEF NearReceives
    <2>2. CASE UNCHANGED far
      BY <2>1, <2>2 DEF FarSeen
    <2>3. ASSUME NEW items \in Seq(Pieces), far' \in SendOn(far, items)
          PROVE  FarConnection!Next \/ UNCHANGED FarSeen
      <3>1. CASE far.state # "connected"
        BY <2>1, <2>3, <3>1 DEF SendOn, FarSeen
      <3>2. CASE far.state = "connected"
        <4>1. /\ far'.state = far.state /\ far'.fin = far.fin
              /\ far.buf # <<>> => far'.wire = far.wire
              /\ FarConnection!IsPrefix(far.wire, far'.wire)
              /\ FarConnection!IsPrefix(far.wire \o far.buf, far'.wire \o far'.buf)
          BY <1>1, <2>3, <3>2, SendOnKeepsOrder
        <4> QED  BY <2>1, <3>2, <4>1 DEF FarConnection!Sends, IsOpen
      <3> QED  BY <3>1, <3>2
    <2>4. UNCHANGED far \/ \E items \in Seq(Pieces) : far' \in SendOn(far, items)
      <3>1. PICK n \in (client.taken + 1)..client.sent :
              \/ UNCHANGED far
              \/ far' \in SendOn(far, waiting \o SubSeq(Up, client.taken + 1, n))
        BY <1>5 DEF NearReceives
      <3>2. client.taken \in 0..Len(Up) /\ n \in client.taken..Len(Up)
        BY <1>1, PieceAssumption DEF PeerOf
      <3>3. SubSeq(Up, client.taken + 1, n) \in Seq(Pieces)
        BY <3>2, PieceAssumption, TakenNext
      <3>4. waiting \o SubSeq(Up, client.taken + 1, n) \in Seq(Pieces)
        BY <1>1, <3>3, ConcatProperties
      <3> QED  BY <3>1, <3>4
    <2> QED  BY <2>2, <2>3, <2>4
  <1>6. CASE NearEnds
    <2>1. far' = ShutDown(far) /\ UNCHANGED target
      BY <1>6 DEF NearEnds, Disconnect, peers
    <2>2. CASE far.state # "connected"
      BY <1>1, <2>1, <2>2, ShutDownFin DEF FarSeen
    <2>3. CASE far.state = "connected"
      BY <1>1, <2>1, <2>3, ShutDownFin DEF FarConnection!ShutsDown, IsOpen
    <2> QED  BY <2>2, <2>3
  <1>7. CASE FarWrites
    <2>1. IsOpen(far) /\ far' \in Written(far) /\ UNCHANGED target
      BY <1>7 DEF FarWrites, peers
    <2> QED
      BY <1>1, <2>1, WrittenKeepsOrder
         DEF FarConnection!Writes, FarConnection!There, IsOpen
  <1>8. CASE NearWrites \/ ClientConnects
    BY <1>8 DEF NearWrites, ClientConnects, peers, FarSeen
  <1>9. ASSUME UNCHANGED <<near, far, reading>>, target'.taken = target.taken
        PROVE  UNCHANGED FarSeen
    BY <1>9 DEF FarSeen
  <1> QED
    BY <1>1, <1>2, <1>3, <1>4, <1>5, <1>6, <1>7, <1>8, <1>9, Aside DEF Next

LEMMA AttemptStep ==
  ASSUME Inv, [Next]_vars
  PROVE  Trying!Next \/ UNCHANGED <<attempt, spent>>
  <1> USE DEF Trying!Next, connector
  <1>1. CASE ClientConnects
    <2>1. attempt = "idle" /\ ~spent /\ attempt' \in {"connecting", "waiting", "gaveUp"}
      BY <1>1 DEF ClientConnects, ConnectorStart, Inv, EndsAgree
    <2> QED  BY <1>1, <2>1 DEF ClientConnects, Trying!Starts, Trying!Begins
  <1>2. CASE OutConnects \/ OutFails
    BY <1>2 DEF OutConnects, OutFails, Trying!Ends
  <1>3. CASE RunReset
    BY <1>3 DEF RunReset, Trying!EventGoes
  <1>4. CASE RunRetry
    <2>1. attempt' \in {"connecting", "waiting", "gaveUp"}
      BY <1>4 DEF RunRetry, ConnectorStart
    <2> QED  BY <1>4, <2>1 DEF RunRetry, Trying!Repeats, Trying!Begins
  <1>5. CASE NearReceives \/ NearEnds \/ FarReceives \/ FarEnds \/ NearWrites \/ FarWrites
    BY <1>5 DEF NearReceives, NearEnds, FarReceives, FarEnds, NearWrites, FarWrites
  <1>6. CASE \/ ClientSends \/ TargetSends \/ TargetComesUp
             \/ \E how \in {"fin", "reset"} : ClientLeaves(how) \/ TargetLeaves(how)
             \/ UNCHANGED vars
    BY <1>6 DEF ClientSends, TargetSends, TargetComesUp, ClientLeaves, TargetLeaves, vars
  <1> QED  BY <1>1, <1>2, <1>3, <1>4, <1>5, <1>6 DEF Next

\* The relay does nothing with its connections and its connector but what
\* Connection and Attempt say of them, which is what they are.
THEOREM UsesItsParts == Spec => UsesTheLibrary
  <1>1. Init => NearConnection!Init /\ FarConnection!Init /\ Trying!Init
    BY DEF Init, Fresh, Peer, IsOpen, NearConnection!Init, FarConnection!Init, Trying!Init
  <1>2. Inv /\ [Next]_vars => [NearConnection!Next]_NearConnection!vars
    BY NearStep DEF NearConnection!vars, NearSeen
  <1>3. Inv /\ [Next]_vars => [FarConnection!Next]_FarConnection!vars
    BY FarStep DEF FarConnection!vars, FarSeen
  <1>4. Inv /\ [Next]_vars => [Trying!Next]_Trying!vars
    BY AttemptStep DEF Trying!vars
  <1> QED
    BY <1>1, <1>2, <1>3, <1>4, AlwaysInv, PTL
       DEF Spec, UsesTheLibrary, NearConnection!Spec, FarConnection!Spec, Trying!Spec
====
