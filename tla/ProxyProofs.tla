---- MODULE ProxyProofs ----
(***************************************************************************)
(* For whatever the client and the target have for each other, and for     *)
(* every combination of protocols: the two sides of a proxy stand and fall *)
(* together, and both streams are intact.  Between two proxies every plain *)
(* request is understood, whatever its address and port, what follows it,  *)
(* and how much of both has arrived.  Two in a row agree with each other,  *)
(* and over one hop or two what is between the ends is a pipe.             *)
(***************************************************************************)
EXTENDS Chain, SequenceTheorems, TLAPS

\* The types of the control state.
Types ==
  /\ protocol \in [in : InProtocols, out : OutProtocols]
  /\ protocol.in \in {"socks5", "run"} /\ protocol.out \in {"run", "freedom"}
  /\ targetUp \in BOOLEAN
  /\ inState \in {"none", "connected", "disconnecting", "disconnected"}
  /\ context \in {"auth", "request", "transfer"}
  /\ attempt \in {"idle", "connecting", "waiting", "connected", "gaveUp", "stopped"}
  /\ outState \in {"none", "connected", "disconnected"}
  /\ mapped \in BOOLEAN /\ handler \in BOOLEAN /\ callbacks \in BOOLEAN
  /\ spent \in BOOLEAN /\ self \in BOOLEAN /\ header \in BOOLEAN

\* PairAgrees, where its last part holds by assumption, and what is not there
\* before a request was granted.
Pair ==
  /\ mapped <=> Present
  /\ handler <=> Present /\ context = "transfer"
  /\ self <=> outState = "connected"
  /\ self => handler /\ attempt = "connected"
  /\ outState = "disconnected" => inState # "connected"
  /\ ~Present => ~callbacks /\ attempt \notin {"connecting", "waiting"}
  /\ inState = "none" => context = "auth"
  /\ context # "transfer" => attempt = "idle" /\ outState = "none" /\ ~callbacks
  /\ attempt \notin {"connected", "stopped"} => outState = "none"

Control == Types /\ Pair

----------------------------------------------------------------------------
\* The two sides

LEMMA InitControl == Init => Control
  <1> SUFFICES ASSUME Init PROVE Control
    OBVIOUS
  <1>1. /\ protocol \in [in : InProtocols, out : OutProtocols] /\ targetUp \in BOOLEAN
        /\ protocol.in \in {"socks5", "run"} /\ protocol.out \in {"run", "freedom"}
    BY ProtocolAssumption DEF Init
  <1>2. header \in BOOLEAN
    BY DEF Init
  <1> QED  BY <1>1, <1>2 DEF Init, Control, Types, Pair, Present

LEMMA ProcessControl ==
  ASSUME NEW buf, NEW connected, Process(buf, connected), header \in BOOLEAN
  PROVE  header' \in BOOLEAN
  BY DEF Process

LEMMA InReceivesControl ==
  ASSUME Control, InReceives
  PROVE  Control'
  <1> USE DEF Control, Types, Pair, Present
  <1>1. PICK n \in (taken + 1)..sent :
          LET buf == inBuf \o SubSeq(script, taken + 1, n) IN
          \/ protocol.in = "socks5" /\ (SocksAuth(buf) \/ SocksRequest(buf))
          \/ protocol.in = "run" /\ RunAuth(buf)
          \/ Transfer(buf)
    BY DEF InReceives
  <1>2. UNCHANGED <<mapped, protocol, targetUp>> /\ Present
    BY DEF InReceives, fixed
  <1> DEFINE buf == inBuf \o SubSeq(script, taken + 1, n)
  <1> HIDE DEF buf
  <1>3. CASE SocksAuth(buf)
    BY <1>2, <1>3 DEF SocksAuth, ShutDownIn, connector, out
  <1>4. CASE SocksRequest(buf)
    BY <1>2, <1>4 DEF SocksRequest, ShutDownIn, StartClient, ConnectorStart, connector, out
  <1>5. CASE RunAuth(buf)
    BY <1>2, <1>5 DEF RunAuth, ShutDownIn, StartClient, ConnectorStart, connector, out
  <1>6. CASE Transfer(buf)
    BY <1>2, <1>6, ProcessControl DEF Transfer, connector
  <1> QED  BY <1>1, <1>3, <1>4, <1>5, <1>6 DEF buf

LEMMA InEndsControl ==
  ASSUME Control, InEnds
  PROVE  Control'
  BY DEF Control, Types, Pair, Present, InEnds, DisConnected, OnConnectionDown,
         connector, out, fixed

LEMMA OutConnectsControl ==
  ASSUME Control, OutConnects
  PROVE  Control'
  <1>1. header' \in BOOLEAN
    BY ProcessControl DEF OutConnects, OnConnectionUp, Control, Types
  <1> QED  BY <1>1 DEF Control, Types, Pair, Present, OutConnects, OnConnectionUp, fixed

LEMMA OtherControl ==
  ASSUME Control,
         InConnects \/ OutFails \/ RunReset \/ RunRetry \/ OutReceives \/ OutEnds
           \/ ClientSends \/ TargetComesUp \/ UNCHANGED vars
  PROVE  Control'
  <1> USE DEF Control, Types, Pair, Present, client, in, connector, out, fixed
  <1>1. CASE InConnects
    BY <1>1 DEF InConnects
  <1>2. CASE OutFails
    BY <1>2 DEF OutFails, AfterFailure
  <1>3. CASE RunReset
    BY <1>3 DEF RunReset
  <1>4. CASE RunRetry
    BY <1>4 DEF RunRetry, ConnectorStart
  <1>5. CASE OutReceives
    BY <1>5 DEF OutReceives
  <1>6. CASE OutEnds
    BY <1>6 DEF OutEnds, OnConnectionDown, ShutDownIn
  <1>7. CASE ClientSends
    BY <1>7 DEF ClientSends
  <1>8. CASE TargetComesUp
    BY <1>8 DEF TargetComesUp
  <1>9. CASE UNCHANGED vars
    BY <1>9 DEF vars
  <1> QED  BY <1>1, <1>2, <1>3, <1>4, <1>5, <1>6, <1>7, <1>8, <1>9

LEMMA NextControl ==
  ASSUME Control, [Next]_vars
  PROVE  Control'
  BY InReceivesControl, InEndsControl, OutConnectsControl, OtherControl DEF Next

LEMMA AlwaysControl == Spec => []Control
  BY InitControl, NextControl, PTL DEF Spec

\* The two sides of a proxy stand and fall together, if the client does not
\* leave while Connector::Stop would assert (PairAgrees).
THEOREM PairAlwaysAgrees == ~LeaveWhenever => (Spec => []PairAgrees)
  <1> SUFFICES ASSUME ~LeaveWhenever PROVE Spec => []PairAgrees
    OBVIOUS
  <1>1. Control => PairAgrees
    BY DEF Control, Pair, PairAgrees, MayLeave
  <1> QED  BY <1>1, AlwaysControl, PTL

----------------------------------------------------------------------------
\* The proxy and its connector

\* The attempts begin with the granted request, and end for good when the
\* client is gone.
Tries ==
  /\ attempt = "idle" => ~spent
  /\ context = "transfer" => attempt # "idle"
  /\ attempt = "stopped" => inState = "disconnected"

LEMMA InReceivesTries ==
  ASSUME Control, Tries, InReceives
  PROVE  Tries' /\ (Trying!Next \/ UNCHANGED connector)
  <1> USE DEF Control, Types, Pair, Present, Tries, connector
  <1>1. PICK n \in (taken + 1)..sent :
          LET buf == inBuf \o SubSeq(script, taken + 1, n) IN
          \/ protocol.in = "socks5" /\ (SocksAuth(buf) \/ SocksRequest(buf))
          \/ protocol.in = "run" /\ RunAuth(buf)
          \/ Transfer(buf)
    BY DEF InReceives
  <1> DEFINE buf == inBuf \o SubSeq(script, taken + 1, n)
  <1> HIDE DEF buf
  <1>2. ASSUME StartClient, context # "transfer" PROVE Trying!Next /\ Tries'
    <2>1. attempt = "idle" /\ attempt' \in {"connecting", "waiting", "gaveUp"}
      BY <1>2 DEF StartClient, ConnectorStart
    <2> QED
      BY <1>2, <2>1 DEF StartClient, Trying!Next, Trying!Starts, Trying!Begins
  <1>3. ASSUME UNCHANGED <<connector, context>>, inState' = inState \/ inState' = "disconnecting",
               inState # "disconnected"
        PROVE  Tries'
    BY <1>3
  <1>4. inState # "disconnected"
    BY DEF InReceives
  <1>5. CASE SocksAuth(buf)
    BY <1>4, <1>5 DEF SocksAuth, ShutDownIn
  <1>6. CASE SocksRequest(buf)
    BY <1>2, <1>3, <1>4, <1>6 DEF SocksRequest, ShutDownIn
  <1>7. CASE RunAuth(buf)
    BY <1>2, <1>3, <1>4, <1>7 DEF RunAuth, ShutDownIn
  <1>8. CASE Transfer(buf)
    BY <1>3, <1>4, <1>8 DEF Transfer
  <1> QED  BY <1>1, <1>5, <1>6, <1>7, <1>8 DEF buf

LEMMA NextTries ==
  ASSUME Control, Tries, [Next]_vars
  PROVE  Tries' /\ (Trying!Next \/ UNCHANGED connector)
  <1> USE DEF Control, Types, Pair, Present, Tries, connector
  <1>1. CASE InReceives
    BY <1>1, InReceivesTries
  <1>2. CASE InEnds
    <2>1. inState' = "disconnected" /\ context' = context
      BY <1>2 DEF InEnds
    <2>2. CASE handler /\ ~self
      <3>1. DisConnected /\ attempt \notin {"idle", "stopped"}
        BY <1>2, <2>2 DEF InEnds
      <3> QED
        BY <2>1, <2>2, <3>1 DEF DisConnected, Trying!Next, Trying!Stops
    <2>3. CASE ~(handler /\ ~self)
      BY <1>2, <2>1, <2>3 DEF InEnds, DisConnected
    <2> QED  BY <2>2, <2>3
  <1>3. CASE OutConnects \/ OutFails
    BY <1>3 DEF OutConnects, OutFails, AfterFailure, in, Trying!Next, Trying!Ends
  <1>4. CASE RunReset
    BY <1>4 DEF RunReset, in, Trying!Next, Trying!EventGoes
  <1>5. CASE RunRetry
    <2>1. attempt' \in {"connecting", "waiting", "gaveUp"}
      BY <1>5 DEF RunRetry, ConnectorStart
    <2> QED
      BY <1>5, <2>1 DEF RunRetry, in, Trying!Next, Trying!Repeats, Trying!Begins
  <1>6. CASE InConnects
    BY <1>6 DEF InConnects
  <1>7. CASE OutEnds
    BY <1>7 DEF OutEnds, ShutDownIn
  <1>8. CASE OutReceives \/ ClientSends \/ TargetComesUp \/ UNCHANGED vars
    BY <1>8 DEF OutReceives, ClientSends, TargetComesUp, vars, in
  <1> QED
    BY <1>1, <1>2, <1>3, <1>4, <1>5, <1>6, <1>7, <1>8 DEF Next

\* The proxy does nothing with its connector but what Attempt says of it: it
\* starts one attempt, and stops it once, when the client is gone.
THEOREM UsesItsConnector == Spec => UsesAttempt
  <1>1. Init => Tries /\ Trying!Init
    BY DEF Init, Tries, Trying!Init
  <1>2. Control /\ Tries /\ [Next]_vars => Tries' /\ [Trying!Next]_Trying!vars
    BY NextTries DEF Trying!vars, connector
  <1> QED
    BY <1>1, <1>2, AlwaysControl, PTL DEF Spec, UsesAttempt, Trying!Spec

----------------------------------------------------------------------------
\* The streams

Words == Pieces \cup {"greeting", "part", "request", "bad", "method", "granted"}

\* What the proxy put in front of the data it sent.
Prefix(stream) == IF protocol.out = "run" /\ stream # <<>> THEN Header ELSE <<>>

\* How far a handshake has come, and what it left for the transfer.
Socks ==
  /\ context = "auth" => sent <= 1 /\ toIn = <<>>
  /\ context = "request" => sent <= 2 /\ taken >= 1 /\ toIn = <<"method">>
  /\ context # "transfer" => inBuf = <<>>

Run ==
  /\ context # "request"
  /\ context = "auth" =>
       /\ toIn = <<>>
       /\ inBuf = SubSeq(script, 1, taken) \/ (inBuf = <<>> /\ taken = Len(script))

Counted ==
  /\ script \in Scripts(protocol.in)
  /\ sent \in 0..Len(script) /\ taken \in 0..sent /\ answers \in 0..Len(Answers)
  /\ inBuf \in Seq(Words) /\ toOut \in Seq(Words) /\ toIn \in Seq(Words)

Handshake ==
  /\ protocol.in = "socks5" => Socks
  /\ protocol.in = "run" => Run
  /\ context # "transfer" => toOut = <<>> /\ answers = 0

Outward ==
  /\ header <=> protocol.out = "run" /\ toOut = <<>>
  /\ self => inBuf = <<>>
  /\ context = "transfer" =>
       taken >= 2 /\ toOut \o inBuf = Prefix(toOut) \o SubSeq(script, 3, taken)

\* A client that was half closed may miss the last of the answers.
Got(k) == toIn = Replies \o SubSeq(Answers, 1, k)

Inward ==
  context = "transfer" =>
    \E k \in 0..answers : Got(k) /\ (inState = "connected" => k = answers)

Streams == Counted /\ Handshake /\ Outward /\ Inward

\* Sequences of words.
LEMMA Glue ==
  ASSUME NEW s \in Seq(Words), NEW t \in Seq(Words)
  PROVE  s \o t \in Seq(Words) /\ (t # <<>> => s \o t # <<>>) /\ s \o <<>> = s /\ <<>> \o s = s
  BY ConcatProperties, ConcatEmptySeq, ConcatEqualIffEmpty

LEMMA Associative ==
  ASSUME NEW r \in Seq(Words), NEW s \in Seq(Words), NEW t \in Seq(Words)
  PROVE  (r \o s) \o t = r \o (s \o t)
  BY ConcatAssociative

LEMMA ScriptFacts ==
  ASSUME Control, script \in Scripts(protocol.in)
  PROVE  /\ script \in Seq(Words) /\ Len(script) \in Nat
         /\ protocol.in = "run" =>
              /\ Len(script) >= 2 /\ script[1] = "part" /\ script[2] \in {"request", "bad"}
              /\ script[2] = "bad" => Len(script) = 2
  <1>1. Data \in Seq(Words)
    BY PieceAssumption DEF Words
  <1>2. First(protocol.in) \in {"greeting", "part"} /\ (protocol.in = "run" => First(protocol.in) = "part")
    BY DEF First, Control, Types
  <1>3. CASE script = <<First(protocol.in), "request">> \o Data
    <2>1. <<First(protocol.in), "request">> \in Seq(Words)
      BY <1>2 DEF Words
    <2> QED  BY <1>1, <1>2, <1>3, <2>1, ConcatProperties
  <1>4. CASE script = <<First(protocol.in), "bad">>
    BY <1>2, <1>4 DEF Words
  <1>5. CASE script = <<"bad">> /\ protocol.in = "socks5"
    BY <1>5 DEF Words
  <1> QED  BY <1>3, <1>4, <1>5 DEF Scripts

\* Of the script, what lies between two positions.
LEMMA Cut ==
  ASSUME Control, Counted, NEW m \in Nat, NEW k \in Nat, NEW n \in Nat,
         1 <= m, m <= k + 1, k <= n, n <= Len(script)
  PROVE  /\ SubSeq(script, m, k) \in Seq(Words) /\ SubSeq(script, k + 1, n) \in Seq(Words)
         /\ SubSeq(script, m, k) \o SubSeq(script, k + 1, n) = SubSeq(script, m, n)
  <1>1. script \in Seq(Words) /\ Len(script) \in Nat
    BY ScriptFacts DEF Counted
  <1>2. \A i \in 1..Len(script) : script[i] \in Words
    BY <1>1, ElementOfSeq
  <1>3. SubSeq(script, m, k) \in Seq(Words) /\ SubSeq(script, k + 1, n) \in Seq(Words)
    <2>1. \A i \in m..k : script[i] \in Words
      BY <1>1, <1>2
    <2>2. \A i \in (k + 1)..n : script[i] \in Words
      BY <1>1, <1>2
    <2> QED  BY <2>1, <2>2, SubSeqProperties
  <1>4. m \in 1..Len(script) + 1 /\ k \in m - 1..Len(script) /\ n \in k..Len(script)
    BY <1>1
  <1> QED  BY <1>1, <1>3, <1>4, ConcatAdjacentSubSeq

LEMMA InitStreams == Init => Streams
  <1> SUFFICES ASSUME Init PROVE Streams
    OBVIOUS
  <1>1. Control /\ script \in Scripts(protocol.in)
    BY InitControl DEF Init
  <1>2. script \in Seq(Words) /\ Len(script) \in Nat
    BY <1>1, ScriptFacts
  <1>3. Len(Answers) \in Nat
    BY PieceAssumption
  <1>4. SubSeq(script, 1, 0) = <<>>
    BY SubSeqEmpty
  <1>5. Counted
    BY <1>2, <1>3 DEF Init, Counted
  <1>6. Handshake
    BY <1>4 DEF Init, Handshake, Socks, Run
  <1> QED  BY <1>5, <1>6 DEF Init, Streams, Outward, Inward

----------------------------------------------------------------------------
\* What Process does to the stream for the target

LEMMA ProcessKeeps ==
  ASSUME Control, Streams, context = "transfer", Present,
         NEW n \in taken..sent, NEW connected \in BOOLEAN,
         Process(inBuf \o SubSeq(script, taken + 1, n), connected)
  PROVE  /\ inBuf' \in Seq(Words) /\ toOut' \in Seq(Words)
         /\ connected => inBuf' = <<>>
         /\ header' <=> protocol.out = "run" /\ toOut' = <<>>
         /\ toOut' \o inBuf' = Prefix(toOut') \o SubSeq(script, 3, n)
  <1> DEFINE old == SubSeq(script, 3, taken)
             new == SubSeq(script, taken + 1, n)
             buf == inBuf \o new
             all == SubSeq(script, 3, n)
  <1>1. /\ old \in Seq(Words) /\ new \in Seq(Words) /\ old \o new = all
    <2>1. /\ taken \in Nat /\ n \in Nat /\ taken >= 2 /\ taken <= n /\ n <= Len(script)
      BY ScriptFacts DEF Streams, Counted, Outward
    <2>2. Counted
      BY DEF Streams
    <2>3. 3 \in Nat /\ 1 <= 3 /\ 3 <= taken + 1
      BY <2>1
    <2> HIDE DEF old, new, all
    <2>4. /\ SubSeq(script, 3, taken) \in Seq(Words) /\ SubSeq(script, taken + 1, n) \in Seq(Words)
          /\ SubSeq(script, 3, taken) \o SubSeq(script, taken + 1, n) = SubSeq(script, 3, n)
      BY <2>1, <2>2, <2>3, Cut
    <2> QED  BY <2>4 DEF old, new, all
  <1>2. /\ inBuf \in Seq(Words) /\ toOut \in Seq(Words)
        /\ toOut \o inBuf = Prefix(toOut) \o old
        /\ header <=> protocol.out = "run" /\ toOut = <<>>
    BY DEF Streams, Counted, Outward
  <1>3. mapped
    BY DEF Control, Pair
  <1>4. Process(buf, connected)
    OBVIOUS
  <1>5. Header \in Seq(Words) /\ Header # <<>> /\ <<>> \in Seq(Words)
    BY DEF Header, Words
  <1>6. Prefix(toOut) \in Seq(Words)
    BY <1>5 DEF Prefix
  <1> HIDE DEF old, new, all
  <1>7. buf \in Seq(Words)
    BY <1>1, <1>2, Glue
  <1>8. toOut \o buf = Prefix(toOut) \o all
    <2>1. toOut \o buf = (toOut \o inBuf) \o new
      BY <1>1, <1>2, Associative
    <2>2. (Prefix(toOut) \o old) \o new = Prefix(toOut) \o (old \o new)
      BY <1>1, <1>6, Associative
    <2> QED  BY <1>1, <1>2, <2>1, <2>2
  <1> HIDE DEF buf
  <1>9. CASE ~(connected /\ buf # <<>>)
    BY <1>2, <1>3, <1>4, <1>7, <1>8, <1>9 DEF Process, all
  <1>10. CASE connected /\ buf # <<>>
    <2>1. /\ toOut' = toOut \o (IF header THEN Header ELSE <<>>) \o buf
          /\ inBuf' = <<>> /\ header' = FALSE
      BY <1>3, <1>4, <1>10 DEF Process
    <2>2. CASE header
      <3>1. toOut = <<>> /\ protocol.out = "run" /\ Prefix(toOut) = <<>>
        BY <1>2, <2>2 DEF Prefix
      <3>2. buf = all
        BY <1>1, <1>7, <1>8, <3>1, Glue
      <3>3. toOut' = Header \o buf
        BY <1>5, <2>1, <2>2, <3>1, Glue
      <3>4. toOut' \in Seq(Words) /\ toOut' # <<>>
        BY <1>5, <1>7, <3>3, Glue
      <3>5. Prefix(toOut') = Header
        BY <3>1, <3>4 DEF Prefix
      <3>6. toOut' \o <<>> = toOut'
        BY <3>4, Glue
      <3> QED  BY <2>1, <3>2, <3>3, <3>4, <3>5, <3>6, <1>5 DEF all
    <2>3. CASE ~header
      <3>1. toOut' = toOut \o buf
        BY <1>2, <2>1, <2>3, Glue
      <3>2. toOut' \in Seq(Words) /\ toOut' # <<>>
        BY <1>2, <1>7, <1>10, <3>1, Glue
      <3>3. Prefix(toOut') = Prefix(toOut)
        BY <1>2, <2>3, <3>2 DEF Prefix
      <3>4. toOut' \o <<>> = toOut'
        BY <3>2, Glue
      <3> QED  BY <1>5, <1>8, <2>1, <3>1, <3>2, <3>3, <3>4 DEF all
    <2> QED  BY <2>2, <2>3
  <1> QED  BY <1>9, <1>10

----------------------------------------------------------------------------
\* The handshakes

LEMMA BothReplies == <<"method">> \o <<"granted">> = <<"method", "granted">>
  <1> DEFINE s == <<"method">>
             t == <<"granted">>
             u == <<"method", "granted">>
  <1>1. s \in Seq(Words) /\ t \in Seq(Words) /\ u \in Seq(Words)
    BY DEF Words
  <1>2. Len(s) = 1 /\ Len(t) = 1 /\ Len(u) = 2
    OBVIOUS
  <1>3. s[1] = "method" /\ t[1] = "granted" /\ u[1] = "method" /\ u[2] = "granted"
    OBVIOUS
  <1> HIDE DEF s, t, u
  <1>4. s \o t \in Seq(Words) /\ Len(s \o t) = 2
    <2>1. s \o t \in Seq(Words) /\ Len(s \o t) = Len(s) + Len(t)
      BY <1>1, ConcatProperties
    <2> QED  BY <1>2, <2>1
  <1>5. \A i \in 1..(Len(s) + Len(t)) : (s \o t)[i] = IF i <= Len(s) THEN s[i] ELSE t[i - Len(s)]
    BY <1>1, ConcatProperties
  <1>6. (s \o t)[1] = s[1] /\ (s \o t)[2] = t[1]
    BY <1>2, <1>5
  <1>7. \A i \in 1..2 : i = 1 \/ i = 2
    OBVIOUS
  <1>8. \A i \in 1..2 : (s \o t)[i] = u[i]
    BY <1>3, <1>6, <1>7
  <1>9. s \o t = u
    BY <1>1, <1>2, <1>4, <1>8, SeqEqual
  <1> QED  BY <1>9 DEF s, t, u

LEMMA SocksStreams ==
  ASSUME Control, Streams, Present, protocol.in = "socks5", NEW n \in (taken + 1)..sent,
         taken' = n, UNCHANGED <<script, sent, answers, mapped, protocol>>,
         NEW buf, SocksAuth(buf) \/ SocksRequest(buf)
  PROVE  Streams'
  <1>1. /\ script \in Seq(Words) /\ Len(script) \in Nat
        /\ sent \in Nat /\ taken \in Nat /\ n \in Nat /\ taken < n /\ n <= sent
    BY ScriptFacts DEF Streams, Counted
  <1>2. Counted /\ Socks /\ Outward /\ toOut = <<>> /\ answers = 0 /\ context # "transfer"
    BY DEF Streams, Handshake, SocksAuth, SocksRequest
  <1>3. /\ inBuf' = <<>> /\ toOut' = <<>> /\ answers' = 0 /\ UNCHANGED <<self, header>>
    BY <1>2 DEF SocksAuth, SocksRequest, StartClient, out
  <1>4. ~self
    BY <1>2 DEF Control, Pair
  <1>5. /\ context' = "auth" => sent <= 1 /\ toIn' = <<>>
        /\ context' = "request" => sent <= 2 /\ n >= 1 /\ toIn' = <<"method">>
        /\ context' = "transfer" => n = 2 /\ toIn' = <<"method", "granted">>
    <2>1. CASE SocksAuth(buf)
      BY <1>1, <1>2, <2>1 DEF SocksAuth, Socks
    <2>2. CASE SocksRequest(buf)
      <3>1. context = "request" /\ toIn = <<"method">> /\ sent <= 2 /\ taken >= 1 /\ n = 2
        BY <1>1, <1>2, <2>2 DEF SocksRequest, Socks
      <3>2. toIn \o <<"granted">> = <<"method", "granted">>
        BY <3>1, BothReplies
      <3>3. \/ context' = "transfer" /\ toIn' = <<"method", "granted">>
            \/ context' = "request" /\ toIn' = <<"method">>
        BY <2>2, <3>1, <3>2 DEF SocksRequest
      <3> QED  BY <3>1, <3>3
    <2> QED  BY <2>1, <2>2
  <1>6. context' \in {"auth", "request", "transfer"}
    BY DEF SocksAuth, SocksRequest, Control, Types
  <1>7. <<>> \in Seq(Words) /\ <<"method">> \in Seq(Words) /\ <<"method", "granted">> \in Seq(Words)
    BY DEF Words
  <1>8. Counted'
    <2>1. toIn' \in Seq(Words) /\ inBuf' \in Seq(Words) /\ toOut' \in Seq(Words)
      BY <1>3, <1>5, <1>6, <1>7
    <2> QED  BY <1>1, <1>2, <2>1 DEF Counted
  <1>9. Handshake'
    BY <1>2, <1>3, <1>5, <1>6 DEF Handshake, Socks
  <1>10. Outward'
    <2>1. SubSeq(script, 3, 2) = <<>>
      BY SubSeqEmpty
    <2> QED  BY <1>2, <1>3, <1>4, <1>5, <2>1 DEF Outward, Prefix
  <1>11. Inward'
    <2>1. SubSeq(Answers, 1, 0) = <<>>
      BY SubSeqEmpty
    <2>2. <<"method", "granted">> \o <<>> = <<"method", "granted">>
      BY <1>7, Glue
    <2>3. context' = "transfer" => Got(0)'
      BY <1>3, <1>5, <2>1, <2>2 DEF Got, Replies
    <2> QED  BY <1>3, <2>3 DEF Inward
  <1> QED  BY <1>8, <1>9, <1>10, <1>11 DEF Streams

LEMMA RunStreams ==
  ASSUME Control, Streams, Present, protocol.in = "run", NEW n \in (taken + 1)..sent,
         taken' = n, UNCHANGED <<script, sent, answers, mapped, protocol>>,
         RunAuth(inBuf \o SubSeq(script, taken + 1, n))
  PROVE  Streams'
  <1> DEFINE buf == inBuf \o SubSeq(script, taken + 1, n)
  <1>1. /\ script \in Seq(Words) /\ Len(script) \in Nat
        /\ sent \in Nat /\ taken \in Nat /\ n \in Nat /\ taken < n /\ n <= sent
        /\ sent <= Len(script)
        /\ Len(script) >= 2 /\ script[1] = "part" /\ script[2] \in {"request", "bad"}
        /\ script[2] = "bad" => Len(script) = 2
    BY ScriptFacts DEF Streams, Counted
  <1>2. Counted /\ Run /\ Outward /\ toOut = <<>> /\ toIn = <<>> /\ answers = 0 /\ context = "auth"
    BY DEF Streams, Handshake, Run, RunAuth
  <1>3. buf = SubSeq(script, 1, n)
    <2>1. inBuf = SubSeq(script, 1, taken)
      BY <1>1, <1>2 DEF Run
    <2>2. 1 \in Nat /\ 1 <= 1 /\ 1 <= taken + 1
      BY <1>1
    <2>3. SubSeq(script, 1, taken) \o SubSeq(script, taken + 1, n) = SubSeq(script, 1, n)
      BY <1>1, <1>2, <2>2, Cut
    <2> QED  BY <2>1, <2>3
  <1>4. RunAuth(buf)
    OBVIOUS
  <1> HIDE DEF buf
  <1>5. \A i \in 1..Len(script) : script[i] \in Words
    BY <1>1, ElementOfSeq
  <1>6. /\ buf \in Seq(Words) /\ Len(buf) = n /\ \A i \in 1..n : buf[i] = script[i]
    <2>1. \A i \in 1..n : script[i] \in Words
      BY <1>1, <1>5
    <2>2. n >= 1 /\ n - 1 + 1 = n /\ n \in Int /\ 1 \in Int
      BY <1>1
    <2>3. /\ SubSeq(script, 1, n) \in Seq(Words)
          /\ Len(SubSeq(script, 1, n)) = n - 1 + 1
          /\ \A i \in 1..(n - 1 + 1) : SubSeq(script, 1, n)[i] = script[1 + i - 1]
      BY <2>1, <2>2, SubSeqProperties
    <2>4. \A i \in 1..n : 1 + i - 1 = i
      BY <1>1
    <2> QED  BY <1>3, <2>2, <2>3, <2>4
  <1>7. SubSeq(buf, 3, n) \in Seq(Words) /\ SubSeq(buf, 3, n) = SubSeq(script, 3, n)
    <2>1. \A i \in 3..n : script[i] \in Words /\ buf[i] = script[i] /\ buf[i] \in Words
      BY <1>1, <1>5, <1>6
    <2>2. SubSeq(buf, 3, n) \in Seq(Words)
      BY <1>1, <2>1, SubSeqProperties
    <2>3. SubSeq(buf, 3, n) = SubSeq(script, 3, n)
      BY <1>1, <2>1
    <2> QED  BY <2>2, <2>3
  <1>8. /\ UNCHANGED <<toIn, toOut, self, header>> /\ ~self
        /\ inBuf' \in Seq(Words)
        /\ \/ context' = "auth" /\ (inBuf' = buf \/ (inBuf' = <<>> /\ n = Len(script)))
           \/ context' = "transfer" /\ n >= 2 /\ inBuf' = SubSeq(script, 3, n)
    <2>1. ~self
      BY <1>2 DEF Control, Pair
    <2>2. CASE buf[Len(buf)] = "part"
      BY <1>2, <1>4, <1>6, <2>1, <2>2 DEF RunAuth, out
    <2>3. CASE buf[Len(buf)] # "part"
      <3>1. n >= 2
        BY <1>1, <1>6, <2>3
      <3>2. buf[2] = script[2]
        BY <1>1, <1>6, <3>1
      <3>3. CASE buf[2] = "request"
        BY <1>2, <1>4, <1>6, <1>7, <2>1, <2>3, <3>1, <3>3 DEF RunAuth, StartClient
      <3>4. CASE buf[2] # "request"
        <4>1. Len(script) = 2
          BY <1>1, <3>2, <3>4
        <4>2. n = Len(script) /\ n = 2
          BY <1>1, <3>1, <4>1
        <4>3. SubSeq(buf, 3, n) = <<>>
          BY <4>2, SubSeqEmpty
        <4> QED  BY <1>2, <1>4, <1>6, <1>7, <2>1, <2>3, <3>4, <4>2, <4>3 DEF RunAuth, out
      <3> QED  BY <3>3, <3>4
    <2> QED  BY <2>2, <2>3
  <1>9. Counted'
    BY <1>1, <1>2, <1>8 DEF Counted
  <1>10. Handshake'
    BY <1>2, <1>3, <1>8 DEF Handshake, Run
  <1>11. Outward'
    <2>1. context' = "transfer" => toOut' \o inBuf' = Prefix(toOut)' \o SubSeq(script, 3, n)
      BY <1>2, <1>8 DEF Prefix
    <2> QED  BY <1>2, <1>8, <2>1 DEF Outward
  <1>12. Inward'
    <2>1. SubSeq(Answers, 1, 0) = <<>>
      BY SubSeqEmpty
    <2>2. <<>> \in Seq(Words)
      BY DEF Words
    <2>3. Got(0)'
      BY <1>2, <1>8, <2>1, <2>2, Glue DEF Got, Replies
    <2> QED  BY <1>2, <2>3 DEF Inward
  <1> QED  BY <1>9, <1>10, <1>11, <1>12 DEF Streams

LEMMA TransferStreams ==
  ASSUME Control, Streams, Present, NEW n \in (taken + 1)..sent,
         taken' = n, UNCHANGED <<script, sent, answers, mapped, protocol>>,
         Transfer(inBuf \o SubSeq(script, taken + 1, n))
  PROVE  Streams'
  <1>1. /\ context = "transfer" /\ UNCHANGED <<inState, context, self, toIn>>
        /\ Process(inBuf \o SubSeq(script, taken + 1, n), self)
    BY DEF Transfer
  <1>2. n \in taken..sent /\ n \in 0..sent /\ n >= taken /\ taken \in Nat /\ n \in Nat
    BY ScriptFacts DEF Streams, Counted
  <1>3. /\ inBuf' \in Seq(Words) /\ toOut' \in Seq(Words)
        /\ self => inBuf' = <<>>
        /\ header' <=> protocol.out = "run" /\ toOut' = <<>>
        /\ toOut' \o inBuf' = Prefix(toOut') \o SubSeq(script, 3, n)
    BY <1>1, <1>2, ProcessKeeps DEF Control, Types
  <1>4. Counted'
    BY <1>1, <1>2, <1>3 DEF Streams, Counted
  <1>5. Handshake'
    BY <1>1 DEF Streams, Handshake, Socks, Run
  <1>6. Outward'
    BY <1>1, <1>2, <1>3 DEF Streams, Outward, Prefix
  <1>7. Inward'
    BY <1>1 DEF Streams, Inward, Got, Replies
  <1> QED  BY <1>4, <1>5, <1>6, <1>7 DEF Streams

LEMMA InReceivesStreams ==
  ASSUME Control, Streams, InReceives
  PROVE  Streams'
  <1>1. PICK n \in (taken + 1)..sent :
          /\ taken' = n
          /\ LET buf == inBuf \o SubSeq(script, taken + 1, n) IN
             \/ protocol.in = "socks5" /\ (SocksAuth(buf) \/ SocksRequest(buf))
             \/ protocol.in = "run" /\ RunAuth(buf)
             \/ Transfer(buf)
    BY DEF InReceives
  <1>2. UNCHANGED <<script, sent, answers, mapped, protocol>> /\ Present
    BY DEF InReceives, client, fixed, Present
  <1> QED  BY <1>1, <1>2, SocksStreams, RunStreams, TransferStreams

----------------------------------------------------------------------------
\* The other events

LEMMA OutConnectsStreams ==
  ASSUME Control, Streams, OutConnects
  PROVE  Streams'
  <1>1. /\ UNCHANGED <<script, sent, taken, answers, inState, context, mapped, toIn, protocol>>
        /\ self' = TRUE /\ Process(inBuf, TRUE)
    BY DEF OutConnects, OnConnectionUp, client, fixed
  <1>2. context = "transfer" /\ Present
    BY DEF OutConnects, Control, Pair, Types
  <1>3. taken \in taken..sent /\ taken \in Nat /\ inBuf \in Seq(Words)
    BY ScriptFacts DEF Streams, Counted
  <1>4. inBuf \o SubSeq(script, taken + 1, taken) = inBuf
    <2>1. SubSeq(script, taken + 1, taken) = <<>>
      BY <1>3, SubSeqEmpty
    <2>2. <<>> \in Seq(Words)
      BY DEF Words
    <2> QED  BY <1>3, <2>1, <2>2, Glue
  <1>5. Process(inBuf \o SubSeq(script, taken + 1, taken), TRUE)
    BY <1>1, <1>4
  <1>6. /\ inBuf' \in Seq(Words) /\ toOut' \in Seq(Words)
        /\ inBuf' = <<>>
        /\ header' <=> protocol.out = "run" /\ toOut' = <<>>
        /\ toOut' \o inBuf' = Prefix(toOut') \o SubSeq(script, 3, taken)
    BY <1>2, <1>3, <1>5, ProcessKeeps
  <1>7. Counted'
    BY <1>1, <1>6 DEF Streams, Counted
  <1>8. Handshake'
    BY <1>1, <1>2 DEF Streams, Handshake, Socks, Run
  <1>9. Outward'
    BY <1>1, <1>6 DEF Streams, Outward, Prefix
  <1>10. Inward'
    BY <1>1 DEF Streams, Inward, Got, Replies
  <1> QED  BY <1>7, <1>8, <1>9, <1>10 DEF Streams

LEMMA OutReceivesStreams ==
  ASSUME Control, Streams, OutReceives
  PROVE  Streams'
  <1>1. /\ UNCHANGED <<script, sent, taken, inState, context, mapped, inBuf, self, header, toOut, protocol>>
        /\ answers' = answers + 1 /\ answers < Len(Answers) /\ self
    BY DEF OutReceives, client, in, out, fixed, Control, Pair
  <1>2. /\ Answers \in Seq(Words) /\ Len(Answers) \in Nat /\ answers \in Nat
        /\ toIn \in Seq(Words) /\ context = "transfer"
    BY <1>1, PieceAssumption DEF Streams, Counted, Words, Control, Pair
  <1> DEFINE e == Answers[answers + 1]
  <1>3. e \in Words
    BY <1>1, <1>2, ElementOfSeq
  <1>4. toIn' = IF inState = "connected" THEN Append(toIn, e) ELSE toIn
    BY <1>1 DEF OutReceives
  <1> HIDE DEF e
  <1>5. toIn' \in Seq(Words)
    BY <1>2, <1>3, <1>4, AppendProperties
  <1>6. Counted'
    BY <1>1, <1>2, <1>5 DEF Streams, Counted
  <1>7. Handshake'
    BY <1>1, <1>2 DEF Streams, Handshake, Socks, Run
  <1>8. Outward'
    BY <1>1 DEF Streams, Outward, Prefix
  <1>9. Inward'
    <2>1. PICK k \in 0..answers : Got(k) /\ (inState = "connected" => k = answers)
      BY <1>2 DEF Streams, Inward
    <2>2. CASE inState # "connected"
      <3>1. k \in 0..answers' /\ Got(k)'
        BY <1>1, <1>2, <1>4, <2>1, <2>2 DEF Got, Replies
      <3> QED  BY <1>1, <2>2, <3>1 DEF Inward
    <2>3. CASE inState = "connected"
      <3> DEFINE had == SubSeq(Answers, 1, answers)
                 last == <<e>>
      <3>1. toIn = Replies \o had
        BY <2>1, <2>3 DEF Got
      <3>2. SubSeq(Answers, 1, answers + 1) = had \o last
        <4>1. /\ 1 \in 1..Len(Answers) /\ answers + 1 \in 1..Len(Answers)
              /\ (answers + 1) - 1 = answers
          BY <1>1, <1>2
        <4> QED  BY <1>2, <4>1, SubSeqRecursiveSecond DEF e
      <3>3. had \in Seq(Words)
        <4>1. \A i \in 1..answers : Answers[i] \in Words
          BY <1>1, <1>2, ElementOfSeq
        <4> QED  BY <1>2, <4>1, SubSeqProperties
      <3>4. Replies \in Seq(Words) /\ last \in Seq(Words)
        <4>1. <<>> \in Seq(Words) /\ <<"method", "granted">> \in Seq(Words)
          BY DEF Words
        <4> QED  BY <1>3, <4>1 DEF Replies
      <3>5. toIn' = toIn \o last
        BY <1>2, <1>3, <1>4, <2>3, AppendIsConcat
      <3> HIDE DEF had, last
      <3>6. (Replies \o had) \o last = Replies \o (had \o last)
        BY <3>3, <3>4, Associative
      <3>7. PICK m : m = answers + 1
        OBVIOUS
      <3>8. m \in 0..answers' /\ m = answers'
        BY <1>1, <1>2, <3>7
      <3>9. toIn' = Replies \o SubSeq(Answers, 1, m)
        BY <3>1, <3>2, <3>5, <3>6, <3>7
      <3>10. Got(m)'
        BY <1>1, <3>9 DEF Got, Replies
      <3> QED  BY <3>8, <3>10 DEF Inward
    <2> QED  BY <2>2, <2>3
  <1> QED  BY <1>6, <1>7, <1>8, <1>9 DEF Streams

LEMMA ClientSendsStreams ==
  ASSUME Control, Streams, ClientSends
  PROVE  Streams'
  <1>1. /\ UNCHANGED <<script, taken, answers, inState, context, mapped, inBuf, self, header,
                       toOut, toIn, protocol>>
        /\ sent' = sent + 1 /\ sent < Len(script)
        /\ protocol.in = "socks5" /\ sent <= 2 => Len(toIn) >= sent
    BY DEF ClientSends, MaySend, in, out, fixed
  <1>2. sent \in Nat /\ Len(script) \in Nat /\ taken \in Nat /\ taken <= sent
    BY ScriptFacts DEF Streams, Counted
  <1>3. Counted'
    BY <1>1, <1>2 DEF Streams, Counted
  <1>4. Handshake'
    <2>1. Len(<<>>) = 0 /\ Len(<<"method">>) = 1
      OBVIOUS
    <2>2. CASE protocol.in = "socks5"
      <3>1. Socks
        BY <2>2 DEF Streams, Handshake
      <3>2. context = "auth" => sent' <= 1
        BY <1>1, <1>2, <2>1, <2>2, <3>1 DEF Socks
      <3>3. context = "request" => sent' <= 2
        <4>1. context = "request" => toIn = <<"method">> /\ sent <= 2
          BY <3>1 DEF Socks
        <4>2. context = "request" => Len(toIn) = 1
          BY <2>1, <4>1
        <4>3. context = "request" => 1 >= sent
          BY <1>1, <2>2, <4>1, <4>2
        <4> QED  BY <1>1, <1>2, <4>3
      <3>4. Socks'
        BY <1>1, <3>1, <3>2, <3>3 DEF Socks
      <3> QED  BY <1>1, <2>2, <3>4 DEF Streams, Handshake
    <2>3. CASE protocol.in # "socks5"
      BY <1>1, <2>3 DEF Streams, Handshake, Run
    <2> QED  BY <2>2, <2>3
  <1>5. Outward'
    BY <1>1 DEF Streams, Outward, Prefix
  <1>6. Inward'
    BY <1>1 DEF Streams, Inward, Got, Replies
  <1> QED  BY <1>3, <1>4, <1>5, <1>6 DEF Streams

\* What leaves the streams alone, and in no more connected than it was.
LEMMA QuietStreams ==
  ASSUME Streams,
         UNCHANGED <<script, sent, taken, answers, context, inBuf, header, toOut, toIn, protocol>>,
         self' => self, inState' = "connected" /\ context = "transfer" => inState = "connected"
  PROVE  Streams'
  <1>1. Counted'
    BY DEF Streams, Counted
  <1>2. Handshake'
    BY DEF Streams, Handshake, Socks, Run
  <1>3. Outward'
    BY DEF Streams, Outward, Prefix
  <1>4. Inward'
    BY DEF Streams, Inward, Got, Replies
  <1> QED  BY <1>1, <1>2, <1>3, <1>4 DEF Streams

LEMMA OtherStreams ==
  ASSUME Control, Streams,
         InConnects \/ InEnds \/ OutFails \/ RunReset \/ RunRetry \/ OutEnds
           \/ TargetComesUp \/ UNCHANGED vars
  PROVE  Streams'
  <1> USE DEF client, in, connector, out, fixed
  <1>1. CASE InConnects
    <2>1. context = "auth" /\ context' = "auth"
      BY <1>1 DEF InConnects, Control, Pair
    <2> QED  BY <1>1, <2>1, QuietStreams DEF InConnects
  <1>2. CASE InEnds
    BY <1>2, QuietStreams DEF InEnds, DisConnected, OnConnectionDown
  <1>3. CASE OutFails
    BY <1>3, QuietStreams DEF OutFails
  <1>4. CASE RunReset
    BY <1>4, QuietStreams DEF RunReset
  <1>5. CASE RunRetry
    BY <1>5, QuietStreams DEF RunRetry
  <1>6. CASE OutEnds
    BY <1>6, QuietStreams DEF OutEnds, OnConnectionDown, ShutDownIn
  <1>7. CASE TargetComesUp
    BY <1>7, QuietStreams DEF TargetComesUp
  <1>8. CASE UNCHANGED vars
    BY <1>8, QuietStreams DEF vars
  <1> QED  BY <1>1, <1>2, <1>3, <1>4, <1>5, <1>6, <1>7, <1>8

LEMMA NextStreams ==
  ASSUME Control, Streams, [Next]_vars
  PROVE  Streams'
  BY InReceivesStreams, OutConnectsStreams, OutReceivesStreams, ClientSendsStreams,
     OtherStreams DEF Next

\* However the request is cut up and however long the target takes, the data
\* goes on whole and in order behind one header, and the client gets its
\* replies and the answers (Process of RunOut and FreeDom, RunIn, SocksIn).
THEOREM StreamsAlwaysIntact == Spec => []StreamsIntact
  <1>1. Streams /\ Control => StreamsIntact
    BY DEF Streams, Outward, Inward, Got, Prefix, StreamsIntact
  <1> QED  BY <1>1, AlwaysControl, InitStreams, NextStreams, PTL DEF Spec

----------------------------------------------------------------------------
\* The types

LEMMA Joined ==
  ASSUME NEW s \in Seq(Words), NEW t \in Seq(Words)
  PROVE  /\ ToSet(s \o t) = ToSet(s) \cup ToSet(t)
         /\ IsInjective(s \o t) <=>
              IsInjective(s) /\ IsInjective(t) /\ ToSet(s) \cap ToSet(t) = {}
  <1> DEFINE u == s \o t
  <1>1. /\ Len(s) \in Nat /\ Len(t) \in Nat /\ Len(u) = Len(s) + Len(t)
        /\ \A i \in 1..(Len(s) + Len(t)) : u[i] = IF i <= Len(s) THEN s[i] ELSE t[i - Len(s)]
    <2>1. Len(s) \in Nat /\ Len(t) \in Nat
      OBVIOUS
    <2> QED  BY <2>1, ConcatProperties
  <1>2. DOMAIN s = 1..Len(s) /\ DOMAIN t = 1..Len(t) /\ DOMAIN u = 1..Len(u)
    BY ConcatProperties
  <1> HIDE DEF u
  <1>3. \A i \in 1..Len(u) :
          \/ i \in 1..Len(s) /\ u[i] = s[i]
          \/ i - Len(s) \in 1..Len(t) /\ u[i] = t[i - Len(s)] /\ i > Len(s)
    BY <1>1
  <1>4. \A i \in 1..Len(s) : i \in 1..Len(u) /\ u[i] = s[i]
    BY <1>1
  <1>5. \A i \in 1..Len(t) : i + Len(s) \in 1..Len(u) /\ u[i + Len(s)] = t[i]
    BY <1>1
  <1>6. ToSet(u) = ToSet(s) \cup ToSet(t)
    <2>1. \A i \in 1..Len(u) : u[i] \in ToSet(s) \cup ToSet(t)
      BY <1>2, <1>3 DEF ToSet
    <2>2. \A i \in 1..Len(s) : s[i] \in ToSet(u)
      BY <1>2, <1>4 DEF ToSet
    <2>3. \A i \in 1..Len(t) : t[i] \in ToSet(u)
      BY <1>2, <1>5 DEF ToSet
    <2>4. ToSet(u) \subseteq ToSet(s) \cup ToSet(t)
      BY <1>2, <2>1 DEF ToSet
    <2>5. ToSet(s) \subseteq ToSet(u) /\ ToSet(t) \subseteq ToSet(u)
      BY <1>2, <2>2, <2>3 DEF ToSet
    <2> QED  BY <2>4, <2>5
  <1>7. ASSUME IsInjective(u)
        PROVE  IsInjective(s) /\ IsInjective(t) /\ ToSet(s) \cap ToSet(t) = {}
    <2>1. \A i, j \in 1..Len(u) : u[i] = u[j] => i = j
      BY <1>2, <1>7 DEF IsInjective
    <2>2. \A i, j \in 1..Len(s) : s[i] = s[j] => i = j
      BY <1>4, <2>1
    <2>3. \A i, j \in 1..Len(t) : t[i] = t[j] => i = j
      <3> SUFFICES ASSUME NEW i \in 1..Len(t), NEW j \in 1..Len(t), t[i] = t[j]
                   PROVE  i = j
        OBVIOUS
      <3>1. i + Len(s) = j + Len(s)
        BY <1>5, <2>1
      <3> QED  BY <1>1, <3>1
    <2>4. \A i \in 1..Len(s), j \in 1..Len(t) : s[i] # t[j]
      <3> SUFFICES ASSUME NEW i \in 1..Len(s), NEW j \in 1..Len(t), s[i] = t[j]
                   PROVE  FALSE
        OBVIOUS
      <3>1. i = j + Len(s)
        BY <1>4, <1>5, <2>1
      <3> QED  BY <1>1, <3>1
    <2> QED  BY <1>2, <2>2, <2>3, <2>4 DEF IsInjective, ToSet
  <1>8. ASSUME IsInjective(s), IsInjective(t), ToSet(s) \cap ToSet(t) = {}
        PROVE  IsInjective(u)
    <2>1. /\ \A i, j \in 1..Len(s) : s[i] = s[j] => i = j
          /\ \A i, j \in 1..Len(t) : t[i] = t[j] => i = j
      BY <1>2, <1>8 DEF IsInjective
    <2>2. \A i \in 1..Len(s), j \in 1..Len(t) : s[i] # t[j]
      BY <1>2, <1>8 DEF ToSet
    <2>3. ASSUME NEW i \in 1..Len(u), NEW j \in 1..Len(u), u[i] = u[j]
          PROVE  i = j
      <3>1. CASE i \in 1..Len(s) /\ j \in 1..Len(s)
        BY <1>4, <2>1, <2>3, <3>1
      <3>2. CASE i > Len(s) /\ j > Len(s)
        <4>1. i - Len(s) = j - Len(s)
          BY <1>3, <2>1, <2>3, <3>2
        <4> QED  BY <1>1, <4>1
      <3>3. CASE i \in 1..Len(s) /\ j > Len(s)
        BY <1>3, <2>2, <2>3, <3>3
      <3>4. CASE i > Len(s) /\ j \in 1..Len(s)
        BY <1>3, <2>2, <2>3, <3>4
      <3> QED  BY <1>1, <3>1, <3>2, <3>3, <3>4
    <2> QED  BY <1>2, <2>3 DEF IsInjective
  <1> QED  BY <1>6, <1>7, <1>8 DEF u

LEMMA Taken ==
  ASSUME NEW s \in Seq(Words), NEW m \in 1..3, NEW n \in 0..Len(s)
  PROVE  /\ SubSeq(s, m, n) \in Seq(Words)
         /\ \A S : (\A i \in m..n : s[i] \in S) => ToSet(SubSeq(s, m, n)) \subseteq S
         /\ ToSet(SubSeq(s, m, n)) \subseteq ToSet(s)
         /\ IsInjective(s) => IsInjective(SubSeq(s, m, n))
  <1> DEFINE t == SubSeq(s, m, n)
  <1>1. Len(s) \in Nat /\ DOMAIN s = 1..Len(s) /\ n \in Nat /\ m \in Nat /\ m >= 1
    OBVIOUS
  <1>2. \A i \in m..n : i \in 1..Len(s) /\ s[i] \in Words
    BY <1>1, ElementOfSeq
  <1>3. /\ t \in Seq(Words) /\ DOMAIN t = 1..Len(t) /\ Len(t) \in Nat
        /\ \A i \in 1..Len(t) : (i + m) - 1 \in m..n /\ t[i] = s[(i + m) - 1]
    <2>1. CASE m <= n
      <3>1. /\ t \in Seq(Words) /\ Len(t) = n - m + 1
            /\ \A i \in 1..(n - m + 1) : t[i] = s[m + i - 1]
        BY <1>1, <1>2, <2>1, SubSeqProperties
      <3> HIDE DEF t
      <3>2. \A i \in 1..(n - m + 1) : m + i - 1 = (i + m) - 1 /\ (i + m) - 1 \in m..n
        BY <1>1
      <3> QED  BY <1>1, <2>1, <3>1, <3>2
    <2>2. CASE m > n
      <3>1. t = <<>>
        BY <1>1, <2>2, SubSeqEmpty
      <3> QED  BY <3>1
    <2> QED  BY <1>1, <2>1, <2>2
  <1> HIDE DEF t
  <1>4. ASSUME NEW S, \A i \in m..n : s[i] \in S
        PROVE  ToSet(t) \subseteq S
    <2>1. \A i \in 1..Len(t) : t[i] \in S
      BY <1>3, <1>4
    <2> QED  BY <1>3, <2>1 DEF ToSet
  <1>5. ToSet(t) \subseteq ToSet(s)
    <2>1. \A i \in m..n : s[i] \in ToSet(s)
      BY <1>1, <1>2 DEF ToSet
    <2> QED  BY <1>4, <2>1
  <1>6. ASSUME IsInjective(s) PROVE IsInjective(t)
    <2>1. \A i, j \in 1..Len(s) : s[i] = s[j] => i = j
      BY <1>1, <1>6 DEF IsInjective
    <2>2. ASSUME NEW i \in 1..Len(t), NEW j \in 1..Len(t), t[i] = t[j]
          PROVE  i = j
      <3>1. (i + m) - 1 = (j + m) - 1
        BY <1>2, <1>3, <2>1, <2>2
      <3> QED  BY <1>1, <3>1
    <2> QED  BY <1>3, <2>2 DEF IsInjective
  <1> QED  BY <1>3, <1>4, <1>5, <1>6 DEF t

LEMMA TwoWords ==
  ASSUME NEW a \in Words, NEW b \in Words
  PROVE  /\ <<a, b>> \in Seq(Words) /\ ToSet(<<a, b>>) = {a, b}
         /\ a # b => IsInjective(<<a, b>>)
  <1>1. <<a, b>> \in Seq(Words) /\ DOMAIN <<a, b>> = {1, 2}
    OBVIOUS
  <1>2. <<a, b>>[1] = a /\ <<a, b>>[2] = b
    OBVIOUS
  <1> QED  BY <1>1, <1>2 DEF ToSet, IsInjective

LEMMA NothingIsInjective == <<>> \in Seq(Words) /\ ToSet(<<>>) = {} /\ IsInjective(<<>>)
  BY DEF ToSet, IsInjective

LEMMA PieceFacts ==
  /\ Data \in Seq(Words) /\ IsInjective(Data) /\ ToSet(Data) \subseteq Pieces
  /\ Answers \in Seq(Words) /\ IsInjective(Answers) /\ ToSet(Answers) \subseteq Pieces
  <1>1. Data \in Seq(Words) /\ Answers \in Seq(Words)
    BY PieceAssumption DEF Words
  <1> QED  BY <1>1, PieceAssumption, Joined DEF Pieces

LEMMA ScriptIsInjective ==
  ASSUME Control, script \in Scripts(protocol.in)
  PROVE  IsInjective(script) /\ \A i \in 3..Len(script) : script[i] \in Pieces
  <1>1. First(protocol.in) \in {"greeting", "part"}
    BY DEF First, Control, Types
  <1>2. CASE script = <<First(protocol.in), "request">> \o Data
    <2> DEFINE h == <<First(protocol.in), "request">>
    <2>1. h \in Seq(Words) /\ ToSet(h) = {First(protocol.in), "request"} /\ IsInjective(h)
      BY <1>1, TwoWords DEF Words
    <2>2. Len(h) = 2
      OBVIOUS
    <2> HIDE DEF h
    <2>3. ToSet(h) \cap ToSet(Data) = {}
      BY <1>1, <2>1, PieceFacts, PieceAssumption
    <2>4. IsInjective(script)
      BY <1>2, <2>1, <2>3, PieceFacts, Joined DEF h
    <2>5. ASSUME NEW i \in 3..Len(script) PROVE script[i] \in Pieces
      <3>1. /\ Len(Data) \in Nat /\ Len(script) = 2 + Len(Data)
            /\ \A j \in 1..(2 + Len(Data)) :
                 script[j] = IF j <= 2 THEN h[j] ELSE Data[j - 2]
        BY <1>2, <2>1, <2>2, PieceFacts, ConcatProperties DEF h
      <3>2. i - 2 \in 1..Len(Data) /\ script[i] = Data[i - 2]
        BY <3>1
      <3>3. Data \in Seq(Pieces)
        BY PieceAssumption
      <3> QED  BY <3>2, <3>3, ElementOfSeq
    <2> QED  BY <2>4, <2>5
  <1>3. CASE script = <<First(protocol.in), "bad">>
    BY <1>1, <1>3, TwoWords DEF Words
  <1>4. CASE script = <<"bad">>
    BY <1>4 DEF IsInjective
  <1> QED  BY <1>2, <1>3, <1>4 DEF Scripts

\* What was received of the client is somewhere, and nothing of it twice.
LEMMA OutwardTypes ==
  ASSUME Control, Streams
  PROVE  \A s \in {inBuf, toOut} : IsInjective(s) /\ ToSet(s) \subseteq ToSet(script \o Header)
  <1>1. /\ script \in Seq(Words) /\ taken \in 0..Len(script)
        /\ inBuf \in Seq(Words) /\ toOut \in Seq(Words)
        /\ context \in {"auth", "request", "transfer"}
        /\ protocol.in \in {"socks5", "run"}
    BY ScriptFacts DEF Streams, Counted, Control, Types
  <1>2. IsInjective(script) /\ \A i \in 3..Len(script) : script[i] \in Pieces
    BY ScriptIsInjective DEF Streams, Counted
  <1>3. Header \in Seq(Words) /\ ToSet(Header) = {"part", "request"} /\ IsInjective(Header)
    BY TwoWords DEF Header, Words
  <1>4. ToSet(script \o Header) = ToSet(script) \cup ToSet(Header)
    BY <1>1, <1>3, Joined
  <1>5. CASE context = "transfer"
    <2> DEFINE data == SubSeq(script, 3, taken)
               front == Prefix(toOut)
    <2>1. toOut \o inBuf = front \o data
      BY <1>5 DEF Streams, Outward
    <2>2. data \in Seq(Words) /\ IsInjective(data) /\ ToSet(data) \subseteq ToSet(script) \cap Pieces
      <3>1. \A i \in 3..taken : script[i] \in Pieces
        BY <1>1, <1>2
      <3>2. 3 \in 1..3
        OBVIOUS
      <3> QED  BY <1>1, <1>2, <3>1, <3>2, Taken
    <2>3. front \in Seq(Words) /\ IsInjective(front) /\ ToSet(front) \subseteq ToSet(Header)
      BY <1>3, NothingIsInjective DEF Prefix
    <2> HIDE DEF data, front
    <2>4. ToSet(front) \cap ToSet(data) = {}
      BY <1>3, <2>2, <2>3, PieceAssumption
    <2>5. /\ IsInjective(toOut \o inBuf)
          /\ ToSet(toOut \o inBuf) \subseteq ToSet(script \o Header)
      BY <1>4, <2>1, <2>2, <2>3, <2>4, Joined
    <2> QED  BY <1>1, <2>5, Joined
  <1>6. CASE context # "transfer"
    <2>1. toOut = <<>> /\ (inBuf = <<>> \/ inBuf = SubSeq(script, 1, taken))
      BY <1>1, <1>6 DEF Streams, Handshake, Socks, Run
    <2>2. 1 \in 1..3
      OBVIOUS
    <2>3. /\ IsInjective(SubSeq(script, 1, taken))
          /\ ToSet(SubSeq(script, 1, taken)) \subseteq ToSet(script)
      BY <1>1, <1>2, <2>2, Taken
    <2> QED  BY <1>4, <2>1, <2>3, NothingIsInjective
  <1> QED  BY <1>5, <1>6

LEMMA InwardTypes ==
  ASSUME Control, Streams
  PROVE  IsInjective(toIn) /\ ToSet(toIn) \subseteq {"method", "granted"} \cup ToSet(Answers)
  <1>1. /\ context \in {"auth", "request", "transfer"} /\ protocol.in \in {"socks5", "run"}
        /\ answers \in 0..Len(Answers)
    BY DEF Streams, Counted, Control, Types
  <1>2. CASE context = "transfer"
    <2>1. PICK k \in 0..answers : Got(k)
      BY <1>2 DEF Streams, Inward
    <2> DEFINE had == SubSeq(Answers, 1, k)
    <2>2. had \in Seq(Words) /\ IsInjective(had) /\ ToSet(had) \subseteq ToSet(Answers)
      <3>1. k \in 0..Len(Answers) /\ 1 \in 1..3
        <4>1. Len(Answers) \in Nat
          BY PieceFacts
        <4> QED  BY <1>1, <4>1
      <3> QED  BY <3>1, PieceFacts, Taken
    <2>3. Replies \in Seq(Words) /\ IsInjective(Replies) /\ ToSet(Replies) \subseteq {"method", "granted"}
      BY TwoWords, NothingIsInjective DEF Replies, Words
    <2> HIDE DEF had
    <2>4. toIn = Replies \o had
      BY <2>1 DEF Got, had
    <2>5. ToSet(Replies) \cap ToSet(had) = {}
      BY <2>2, <2>3, PieceFacts, PieceAssumption
    <2> QED  BY <2>2, <2>3, <2>4, <2>5, Joined
  <1>3. CASE context # "transfer"
    <2>1. toIn = <<>> \/ toIn = <<"method">>
      BY <1>1, <1>3 DEF Streams, Handshake, Socks, Run
    <2>2. IsInjective(<<"method">>) /\ ToSet(<<"method">>) = {"method"}
      BY DEF IsInjective, ToSet
    <2> QED  BY <2>1, <2>2, NothingIsInjective
  <1> QED  BY <1>2, <1>3

\* Every part of the state has its type; no piece, header or reply is sent or
\* buffered twice.
THEOREM TypeCorrect == Spec => []TypeOK
  <1>1. ASSUME Control, Streams PROVE TypeOK
    <2>1. {targetUp, mapped, handler, callbacks, spent, self, header} \subseteq BOOLEAN
      BY <1>1 DEF Control, Types
    <2> QED  BY <1>1, <2>1, OutwardTypes, InwardTypes DEF Control, Types, Streams, Counted, TypeOK
  <1> QED  BY <1>1, AlwaysControl, InitStreams, NextStreams, PTL DEF Spec

----------------------------------------------------------------------------
\* The request between two proxies

\* The bytes of a header.
LEMMA HeaderBytes ==
  ASSUME NEW address \in Addresses, NEW port \in Ports
  PROVE  LET h == RequestHeader(address, port) IN
         /\ h \in Seq(Byte) /\ Len(h) = 10
         /\ \A i \in 1..4 : h[i + 2] = address[i]
         /\ h[7] * 256 + h[8] = port
         /\ h[9] = CR /\ h[10] = LF
  <1> DEFINE h == RequestHeader(address, port)
  <1>1. \A i \in 1..4 : address[i] \in Byte
    BY AddressAssumption
  <1>2. port \in 1..(256 * 256 - 1)
    BY PortAssumption
  <1>3. port \div 256 \in Byte /\ port % 256 \in Byte /\ (port \div 256) * 256 + (port % 256) = port
    <2>1. port \in Int /\ 1 <= port /\ port < 256 * 256
      BY <1>2
    <2> QED  BY <2>1 DEF Byte
  <1>4. CR \in Byte /\ LF \in Byte /\ 1 \in Byte
    BY DEF CR, LF, Byte
  <1>5. h \in Seq(Byte) /\ Len(h) = 10
    BY <1>1, <1>3, <1>4 DEF RequestHeader
  <1>6. h[3] = address[1] /\ h[4] = address[2] /\ h[5] = address[3] /\ h[6] = address[4]
    BY DEF RequestHeader
  <1>7. \A i \in 1..4 : h[i + 2] = address[i]
    <2>1. \A i \in 1..4 : i = 1 \/ i = 2 \/ i = 3 \/ i = 4
      OBVIOUS
    <2> QED  BY <1>6, <2>1
  <1>8. h[7] = port \div 256 /\ h[8] = port % 256 /\ h[9] = CR /\ h[10] = LF
    BY DEF RequestHeader
  <1> QED  BY <1>3, <1>5, <1>7, <1>8

\* What arrives of the bytes is, byte for byte, header and text.
LEMMA ArrivedBytes ==
  ASSUME NEW h \in Seq(Byte), Len(h) = 10, NEW text \in Seq(Byte),
         NEW n \in 0..Len(h \o text)
  PROVE  LET arrived == SubSeq(h \o text, 1, n) IN
         /\ arrived \in Seq(Byte) /\ Len(arrived) = n /\ n \in Nat
         /\ \A i \in 1..n : arrived[i] = IF i <= 10 THEN h[i] ELSE text[i - 10]
         /\ Len(text) \in Nat /\ n <= 10 + Len(text)
  <1> DEFINE bytes == h \o text
  <1>1. /\ bytes \in Seq(Byte) /\ Len(bytes) = 10 + Len(text) /\ Len(text) \in Nat
        /\ \A i \in 1..(10 + Len(text)) : bytes[i] = IF i <= 10 THEN h[i] ELSE text[i - 10]
    <2>1. /\ bytes \in Seq(Byte) /\ Len(bytes) = Len(h) + Len(text)
          /\ \A i \in 1..(Len(h) + Len(text)) :
               bytes[i] = IF i <= Len(h) THEN h[i] ELSE text[i - Len(h)]
      BY ConcatProperties
    <2>2. Len(text) \in Nat
      OBVIOUS
    <2> HIDE DEF bytes
    <2> QED  BY <2>1, <2>2
  <1> HIDE DEF bytes
  <1>2. n \in Nat /\ n <= 10 + Len(text)
    BY <1>1 DEF bytes
  <1>3. \A i \in 1..n : bytes[i] \in Byte
    BY <1>1, <1>2
  <1>4. /\ SubSeq(bytes, 1, n) \in Seq(Byte)
        /\ Len(SubSeq(bytes, 1, n)) = n
        /\ \A i \in 1..n : SubSeq(bytes, 1, n)[i] = bytes[i]
    <2> DEFINE s == SubSeq(bytes, 1, n)
    <2>1. /\ s \in Seq(Byte)
          /\ Len(s) = IF 1 <= n THEN n - 1 + 1 ELSE 0
          /\ \A i \in 1..(n - 1 + 1) : s[i] = bytes[1 + i - 1]
      BY <1>2, <1>3, SubSeqProperties
    <2> HIDE DEF s
    <2>2. n - 1 + 1 = n /\ \A i \in 1..n : 1 + i - 1 = i
      BY <1>2
    <2>3. Len(s) = n
      BY <1>2, <2>1, <2>2
    <2>4. \A i \in 1..n : s[i] = bytes[i]
      BY <2>1, <2>2
    <2> QED  BY <2>1, <2>3, <2>4 DEF s
  <1>5. \A i \in 1..n : SubSeq(bytes, 1, n)[i] = IF i <= 10 THEN h[i] ELSE text[i - 10]
    BY <1>1, <1>2, <1>4
  <1> QED  BY <1>1, <1>2, <1>4, <1>5 DEF bytes

\* The first CRLF of a plain request is the one that ends its header.
LEMMA FirstCRLF ==
  ASSUME NEW h \in Seq(Byte), Len(h) = 10, h[9] = CR, h[10] = LF,
         \A i \in 1..7 : ~CRLFAt(h, i),
         NEW arrived \in Seq(Byte),
         \A i \in 1..Len(arrived) : i <= 10 => arrived[i] = h[i]
  PROVE  /\ HasCRLF(arrived) <=> Len(arrived) >= 10
         /\ Len(arrived) >= 10 => FindCRLF(arrived) = 9
  <1>1. Len(arrived) \in Nat
    OBVIOUS
  <1>2. \A i \in 1..(Len(arrived) - 1) : i <= 8 => ~CRLFAt(arrived, i)
    <2> SUFFICES ASSUME NEW i \in 1..(Len(arrived) - 1), i <= 8
                 PROVE  ~CRLFAt(arrived, i)
      OBVIOUS
    <2>1. arrived[i] = h[i] /\ arrived[i + 1] = h[i + 1]
      BY <1>1
    <2>2. CASE i <= 7
      BY <2>1, <2>2 DEF CRLFAt
    <2>3. CASE i = 8
      BY <2>1, <2>3 DEF CRLFAt, CR, LF
    <2> QED  BY <2>2, <2>3
  <1>3. ASSUME Len(arrived) >= 10
        PROVE  HasCRLF(arrived) /\ FindCRLF(arrived) = 9
    <2>1. arrived[9] = CR /\ arrived[10] = LF /\ 9 \in 1..(Len(arrived) - 1)
      BY <1>1, <1>3
    <2>2. CRLFAt(arrived, 9)
      BY <2>1 DEF CRLFAt
    <2>3. \A j \in 1..8 : ~CRLFAt(arrived, j)
      BY <1>1, <1>2, <1>3
    <2>4. ASSUME NEW i \in 1..(Len(arrived) - 1), CRLFAt(arrived, i),
                 \A j \in 1..(i - 1) : ~CRLFAt(arrived, j)
          PROVE  i = 9
      <3>1. i > 8
        BY <2>3, <2>4, <1>1
      <3>2. ~(i > 9)
        BY <2>2, <2>4, <1>1
      <3> QED  BY <3>1, <3>2, <1>1
    <2>5. FindCRLF(arrived) = 9
      BY <2>1, <2>2, <2>3, <2>4 DEF FindCRLF
    <2> QED  BY <2>1, <2>2, <2>5 DEF HasCRLF
  <1>4. ASSUME Len(arrived) < 10 PROVE ~HasCRLF(arrived)
    BY <1>1, <1>2, <1>4 DEF HasCRLF
  <1> QED  BY <1>1, <1>3, <1>4

\* RunIn understands every plain request that RunOut sends, and waits for the
\* rest of one that has not arrived.
THEOREM PlainIsUnderstood == RequestsUnderstood
  <1> SUFFICES ASSUME NEW address \in Addresses, NEW port \in Ports, NEW text \in Texts,
                      Plain(address, port),
                      NEW n \in 0..Len(RequestHeader(address, port) \o text)
               PROVE  LET arrived == SubSeq(RequestHeader(address, port) \o text, 1, n) IN
                      /\ HasCRLF(arrived) <=> n >= 10
                      /\ n >= 10 =>
                           Understood(arrived) =
                             [address |-> address, port |-> port,
                              rest |-> SubSeq(text, 1, n - 10)]
    BY DEF RequestsUnderstood, RequestUnderstood
  <1> DEFINE h == RequestHeader(address, port)
             arrived == SubSeq(h \o text, 1, n)
  <1>1. /\ h \in Seq(Byte) /\ Len(h) = 10
        /\ \A i \in 1..4 : h[i + 2] = address[i]
        /\ h[7] * 256 + h[8] = port
        /\ h[9] = CR /\ h[10] = LF
    BY HeaderBytes
  <1>2. \A i \in 1..7 : ~CRLFAt(h, i)
    BY DEF Plain
  <1>3. text \in Seq(Byte) /\ address \in Seq(Byte) /\ Len(address) = 4
    BY TextAssumption, AddressAssumption
  <1> HIDE DEF h
  <1>4. /\ arrived \in Seq(Byte) /\ Len(arrived) = n /\ n \in Nat
        /\ \A i \in 1..n : arrived[i] = IF i <= 10 THEN h[i] ELSE text[i - 10]
        /\ Len(text) \in Nat /\ n <= 10 + Len(text)
    BY <1>1, <1>3, ArrivedBytes DEF h
  <1> HIDE DEF arrived
  <1>5. /\ HasCRLF(arrived) <=> n >= 10
        /\ n >= 10 => FindCRLF(arrived) = 9
    BY <1>1, <1>2, <1>4, FirstCRLF
  <1>6. ASSUME n >= 10
        PROVE  /\ SubSeq(arrived, 3, 6) = address
               /\ arrived[7] * 256 + arrived[8] = port
               /\ SubSeq(arrived, 11, n) = SubSeq(text, 1, n - 10)
    <2>1. SubSeq(arrived, 3, 6) = address
      <3>1. \A i \in 3..6 : arrived[i] \in Byte /\ arrived[i] = address[i - 2]
        <4> SUFFICES ASSUME NEW i \in 3..6
                     PROVE  arrived[i] \in Byte /\ arrived[i] = address[i - 2]
          OBVIOUS
        <4>1. i - 2 \in 1..4 /\ (i - 2) + 2 = i /\ i \in 1..n /\ i <= 10
          BY <1>4, <1>6
        <4>2. arrived[i] = h[i] /\ h[i] = address[i - 2]
          BY <1>1, <1>4, <4>1
        <4> QED  BY <1>4, <4>1, <4>2
      <3>2. /\ SubSeq(arrived, 3, 6) \in Seq(Byte)
            /\ Len(SubSeq(arrived, 3, 6)) = 4
            /\ \A i \in 1..4 : SubSeq(arrived, 3, 6)[i] = arrived[i + 2]
        BY <1>4, <1>6, <3>1
      <3>3. \A i \in 1..4 : SubSeq(arrived, 3, 6)[i] = address[i]
        BY <3>1, <3>2
      <3> QED  BY <1>3, <3>2, <3>3, SeqEqual
    <2>2. arrived[7] = h[7] /\ arrived[8] = h[8]
      BY <1>4, <1>6
    <2>3. SubSeq(arrived, 11, n) = SubSeq(text, 1, n - 10)
      <3> DEFINE u == SubSeq(arrived, 11, n) v == SubSeq(text, 1, n - 10)
      <3>1. \A i \in 11..n : arrived[i] \in Byte
        BY <1>4
      <3>2. \A i \in 1..(n - 10) : text[i] \in Byte
        BY <1>3, <1>4
      <3>3. /\ u \in Seq(Byte) /\ Len(u) = n - 10
            /\ \A i \in 1..(n - 10) : u[i] = arrived[i + 10]
        BY <1>4, <1>6, <3>1
      <3>4. /\ v \in Seq(Byte) /\ Len(v) = n - 10
            /\ \A i \in 1..(n - 10) : v[i] = text[i]
        BY <1>3, <1>4, <1>6, <3>2
      <3> HIDE DEF u, v
      <3>5. \A i \in 1..(n - 10) : u[i] = v[i]
        <4> SUFFICES ASSUME NEW i \in 1..(n - 10) PROVE u[i] = v[i]
          OBVIOUS
        <4>1. i + 10 \in 1..n /\ ~(i + 10 <= 10) /\ (i + 10) - 10 = i
          BY <1>4
        <4>2. arrived[i + 10] = text[i]
          BY <1>4, <4>1
        <4> QED  BY <3>3, <3>4, <4>2
      <3>6. u = v
        BY <3>3, <3>4, <3>5, SeqEqual
      <3> QED  BY <3>6 DEF u, v
    <2> QED  BY <1>1, <2>1, <2>2, <2>3
  <1>7. n >= 10 => Understood(arrived) =
                     [address |-> address, port |-> port, rest |-> SubSeq(text, 1, n - 10)]
    <2> SUFFICES ASSUME n >= 10
                 PROVE  Understood(arrived) =
                          [address |-> address, port |-> port, rest |-> SubSeq(text, 1, n - 10)]
      OBVIOUS
    <2>1. FindCRLF(arrived) = 9 /\ Len(arrived) = n
      BY <1>4, <1>5
    <2>2. Understood(arrived) =
            [address |-> SubSeq(arrived, 3, 6),
             port |-> arrived[7] * 256 + arrived[8],
             rest |-> SubSeq(arrived, 11, n)]
      BY <2>1 DEF Understood
    <2> QED  BY <2>2, <1>6
  <1> QED  BY <1>5, <1>7 DEF arrived, h

----------------------------------------------------------------------------
\* Two proxies in a row

LEMMA HopSteps ==
  ASSUME [ChainNext]_allVars
  PROVE  [Next]_vars /\ [Far!Next]_(Far!vars)
  <1>1. CASE NearStep
    <2>1. Next
      BY <1>1 DEF NearStep, HopReceives, HopEnds, Next
    <2>2. UNCHANGED Far!vars
      BY <1>1 DEF NearStep, farVars, Far!vars, Far!client, Far!in, Far!connector, Far!out,
                  Far!fixed
    <2> QED  BY <2>1, <2>2
  <1>2. CASE FarStep
    <2>1. Far!Next
      BY <1>2 DEF FarStep, FirstLeaves, Arrives, Far!Next
    <2>2. UNCHANGED vars
      BY <1>2 DEF FarStep
    <2> QED  BY <2>1, <2>2
  <1>3. CASE LinkBreaks \/ UNCHANGED allVars
    BY <1>3 DEF LinkBreaks, allVars, farVars, Far!vars, Far!client, Far!in, Far!connector,
                Far!out, Far!fixed
  <1> QED  BY <1>1, <1>2, <1>3 DEF ChainNext

\* The control state of the second proxy, as Types and Pair have it.
FarTypes ==
  /\ farProtocol \in [in : InProtocols, out : OutProtocols]
  /\ farProtocol = [in |-> "run", out |-> "freedom"]
  /\ farTargetUp \in BOOLEAN
  /\ farInState \in {"none", "connected", "disconnecting", "disconnected"}
  /\ farContext \in {"auth", "transfer"}
  /\ farAttempt \in {"idle", "connecting", "waiting", "connected", "gaveUp", "stopped"}
  /\ farOutState \in {"none", "connected", "disconnected"}
  /\ farMapped \in BOOLEAN /\ farHandler \in BOOLEAN /\ farCallbacks \in BOOLEAN
  /\ farSpent \in BOOLEAN /\ farSelf \in BOOLEAN /\ farHeader = FALSE

FarPair ==
  /\ farMapped <=> Far!Present
  /\ farHandler <=> Far!Present /\ farContext = "transfer"
  /\ farSelf <=> farOutState = "connected"
  /\ farSelf => farHandler /\ farAttempt = "connected"
  /\ farOutState = "disconnected" => farInState # "connected"
  /\ ~Far!Present => ~farCallbacks /\ farAttempt \notin {"connecting", "waiting"}
  /\ farInState = "none" => farContext = "auth"
  /\ farContext # "transfer" => farAttempt = "idle" /\ farOutState = "none" /\ ~farCallbacks
  /\ farAttempt \notin {"connected", "stopped"} => farOutState = "none"

FarControl == FarTypes /\ FarPair

\* What the second proxy has of the first, and the first of its answers.
FarCounted ==
  /\ farScript = Header \o Data
  /\ farSent \in 0..Len(farScript) /\ farTaken \in 0..farSent
  /\ farAnswers \in 0..Len(Answers)
  /\ farInBuf \in Seq(Words) /\ farToOut \in Seq(Words) /\ farToIn \in Seq(Words)

FarOutward ==
  /\ farSelf => farInBuf = <<>>
  /\ farContext = "auth" => farToOut = <<>> /\ farInBuf = SubSeq(farScript, 1, farTaken)
  /\ farContext = "transfer" =>
       farTaken >= 2 /\ farToOut \o farInBuf = SubSeq(farScript, 3, farTaken)

FarInward ==
  /\ farContext = "auth" => farAnswers = 0
  /\ \E k \in 0..farAnswers :
       /\ farToIn = SubSeq(Answers, 1, k)
       /\ farInState = "connected" => k = farAnswers

FarStreams == FarCounted /\ FarOutward /\ FarInward

\* The connection between the two invents nothing.
Carried ==
  hops = 2 =>
    /\ protocol = [in |-> "socks5", out |-> "run"]
    /\ farSent <= Len(toOut)
    /\ answers <= Len(farToIn)
    /\ farInState # "none" => outState # "none"

\* A client that is half closed was turned down, and then there is no more of
\* it to come, or its target has gone.
Closing ==
  inState = "disconnecting" =>
    IF context = "transfer" THEN outState = "disconnected" ELSE taken = Len(script)

----------------------------------------------------------------------------
\* The second proxy: its two sides

LEMMA InitFarControl == ChainInit => FarControl
  <1> SUFFICES ASSUME ChainInit PROVE FarControl
    OBVIOUS
  <1>1. /\ farProtocol \in [in : InProtocols, out : OutProtocols]
        /\ farProtocol = [in |-> "run", out |-> "freedom"]
    BY DEF ChainInit, Far!Init
  <1>2. farProtocol.out = "freedom"
    BY <1>1
  <1>3. farHeader = (farProtocol.out = "run")
    BY DEF ChainInit, Far!Init
  <1> QED  BY <1>1, <1>2, <1>3 DEF ChainInit, Far!Init, FarControl, FarTypes, FarPair, Far!Present

LEMMA FarReceivesControl ==
  ASSUME FarControl, Far!InReceives
  PROVE  FarControl'
  <1> USE DEF FarControl, FarTypes, FarPair, Far!Present
  <1>1. PICK n \in (farTaken + 1)..farSent :
          LET buf == farInBuf \o SubSeq(farScript, farTaken + 1, n) IN
          Far!RunAuth(buf) \/ Far!Transfer(buf)
    BY DEF Far!InReceives, Far!SocksAuth, Far!SocksRequest
  <1>2. UNCHANGED <<farMapped, farProtocol, farTargetUp>> /\ Far!Present
    BY DEF Far!InReceives, Far!fixed
  <1> DEFINE buf == farInBuf \o SubSeq(farScript, farTaken + 1, n)
  <1> HIDE DEF buf
  <1>3. CASE Far!RunAuth(buf)
    BY <1>2, <1>3 DEF Far!RunAuth, Far!ShutDownIn, Far!StartClient, Far!ConnectorStart,
                      Far!connector, Far!out
  <1>4. CASE Far!Transfer(buf)
    BY <1>2, <1>4 DEF Far!Transfer, Far!Process, Far!connector
  <1> QED  BY <1>1, <1>3, <1>4 DEF buf

LEMMA NextFarControl ==
  ASSUME FarControl, [Far!Next]_(Far!vars)
  PROVE  FarControl'
  <1> USE DEF FarControl, FarTypes, FarPair, Far!Present, Far!client, Far!in, Far!connector,
              Far!out, Far!fixed
  <1>1. CASE Far!InConnects
    BY <1>1 DEF Far!InConnects
  <1>2. CASE Far!InReceives
    BY <1>2, FarReceivesControl
  <1>3. CASE Far!InEnds
    BY <1>3 DEF Far!InEnds, Far!DisConnected, Far!OnConnectionDown
  <1>4. CASE Far!OutConnects
    BY <1>4 DEF Far!OutConnects, Far!OnConnectionUp, Far!Process
  <1>5. CASE Far!OutFails
    BY <1>5 DEF Far!OutFails, Far!AfterFailure
  <1>6. CASE Far!RunReset
    BY <1>6 DEF Far!RunReset
  <1>7. CASE Far!RunRetry
    BY <1>7 DEF Far!RunRetry, Far!ConnectorStart
  <1>8. CASE Far!OutReceives
    BY <1>8 DEF Far!OutReceives
  <1>9. CASE Far!OutEnds
    BY <1>9 DEF Far!OutEnds, Far!OnConnectionDown, Far!ShutDownIn
  <1>10. CASE Far!ClientSends
    BY <1>10 DEF Far!ClientSends
  <1>11. CASE Far!TargetComesUp
    BY <1>11 DEF Far!TargetComesUp
  <1>12. CASE UNCHANGED Far!vars
    BY <1>12 DEF Far!vars
  <1> QED  BY <1>1, <1>2, <1>3, <1>4, <1>5, <1>6, <1>7, <1>8, <1>9, <1>10, <1>11, <1>12
           DEF Far!Next

----------------------------------------------------------------------------
\* Parts of streams

\* t begins with s.
Starts(s, t) == Len(s) <= Len(t) /\ \A i \in 1..Len(s) : t[i] = s[i]

LEMMA Part ==
  ASSUME NEW s \in Seq(Words), NEW m \in 1..3, NEW n \in 0..Len(s)
  PROVE  /\ SubSeq(s, m, n) \in Seq(Words)
         /\ Len(SubSeq(s, m, n)) = IF m <= n THEN (n - m) + 1 ELSE 0
         /\ \A i \in 1..Len(SubSeq(s, m, n)) : SubSeq(s, m, n)[i] = s[(i + m) - 1]
  <1> DEFINE t == SubSeq(s, m, n)
  <1>1. Len(s) \in Nat /\ n \in Nat /\ m \in Nat /\ m >= 1 /\ n <= Len(s)
    OBVIOUS
  <1>2. \A i \in m..n : i \in 1..Len(s) /\ s[i] \in Words
    BY <1>1, ElementOfSeq
  <1>3. CASE m <= n
    <2>1. /\ t \in Seq(Words) /\ Len(t) = n - m + 1
          /\ \A i \in 1..(n - m + 1) : t[i] = s[m + i - 1]
      BY <1>1, <1>2, <1>3, SubSeqProperties
    <2> HIDE DEF t
    <2>2. n - m + 1 = (n - m) + 1 /\ \A i \in 1..(n - m + 1) : m + i - 1 = (i + m) - 1
      BY <1>1
    <2>3. \A i \in 1..Len(t) : t[i] = s[(i + m) - 1]
      BY <2>1, <2>2
    <2> QED  BY <1>3, <2>1, <2>2, <2>3 DEF t
  <1>4. CASE m > n
    <2>1. t = <<>>
      BY <1>1, <1>4, SubSeqEmpty
    <2> QED  BY <1>1, <1>4, <2>1
  <1> QED  BY <1>1, <1>3, <1>4

LEMMA Behind ==
  ASSUME NEW s \in Seq(Words), NEW t \in Seq(Words)
  PROVE  /\ s \o t \in Seq(Words) /\ Len(s \o t) = Len(s) + Len(t)
         /\ Len(s) \in Nat /\ Len(t) \in Nat
         /\ \A i \in 1..Len(s) : (s \o t)[i] = s[i]
         /\ \A i \in 1..Len(t) : (s \o t)[Len(s) + i] = t[i]
  <1> DEFINE u == s \o t
  <1>1. Len(s) \in Nat /\ Len(t) \in Nat
    OBVIOUS
  <1>2. /\ u \in Seq(Words) /\ Len(u) = Len(s) + Len(t)
        /\ \A i \in 1..(Len(s) + Len(t)) : u[i] = IF i <= Len(s) THEN s[i] ELSE t[i - Len(s)]
    BY ConcatProperties
  <1> HIDE DEF u
  <1>3. \A i \in 1..Len(s) : u[i] = s[i]
    BY <1>1, <1>2
  <1>4. ASSUME NEW i \in 1..Len(t) PROVE u[Len(s) + i] = t[i]
    <2>1. /\ Len(s) + i \in 1..(Len(s) + Len(t)) /\ ~(Len(s) + i <= Len(s))
          /\ (Len(s) + i) - Len(s) = i
      BY <1>1
    <2> QED  BY <1>2, <2>1
  <1> QED  BY <1>1, <1>2, <1>3, <1>4 DEF u

LEMMA StartsIsPrefix ==
  ASSUME NEW s \in Seq(Words), NEW t \in Seq(Words), Starts(s, t)
  PROVE  IsPrefix(s, t) /\ Promised!IsPrefix(s, t)
  <1>1. Len(s) \in Nat /\ Len(t) \in Nat /\ Len(s) <= Len(t) /\ \A i \in 1..Len(s) : t[i] = s[i]
    BY DEF Starts
  <1>2. \A i \in 1..Len(s) : s[i] \in Words /\ t[i] \in Words
    BY <1>1, ElementOfSeq
  <1> DEFINE u == SubSeq(s, 1, Len(s)) v == SubSeq(t, 1, Len(s))
  <1>3. /\ u \in Seq(Words) /\ v \in Seq(Words) /\ Len(u) = Len(s) /\ Len(v) = Len(s)
        /\ \A i \in 1..Len(s) : u[i] = s[i] /\ v[i] = t[i]
    BY <1>1, <1>2
  <1> HIDE DEF u, v
  <1>4. u = v
    <2>1. \A i \in 1..Len(s) : u[i] = v[i]
      BY <1>1, <1>3
    <2> QED  BY <1>3, <2>1, SeqEqual
  <1> QED  BY <1>1, <1>4 DEF u, v, IsPrefix, Promised!IsPrefix

LEMMA StartsSelf == ASSUME NEW s \in Seq(Words) PROVE Starts(s, s)
  BY DEF Starts

LEMMA StartsTransitive ==
  ASSUME NEW r \in Seq(Words), NEW s \in Seq(Words), NEW t \in Seq(Words),
         Starts(r, s), Starts(s, t)
  PROVE  Starts(r, t)
  <1>1. Len(r) \in Nat /\ Len(s) \in Nat /\ Len(t) \in Nat
    OBVIOUS
  <1> QED  BY <1>1 DEF Starts

LEMMA StartsBehind ==
  ASSUME NEW s \in Seq(Words), NEW t \in Seq(Words)
  PROVE  Starts(s, s \o t)
  BY Behind DEF Starts

\* A longer part of a stream goes on where a shorter one stops.
LEMMA StartsPart ==
  ASSUME NEW s \in Seq(Words), NEW m \in 1..3, NEW k \in 0..Len(s), NEW n \in k..Len(s)
  PROVE  /\ SubSeq(s, m, k) \in Seq(Words) /\ SubSeq(s, m, n) \in Seq(Words)
         /\ Starts(SubSeq(s, m, k), SubSeq(s, m, n))
  <1> DEFINE u == SubSeq(s, m, k) v == SubSeq(s, m, n)
  <1>1. n \in 0..Len(s) /\ k <= n /\ k \in Nat /\ n \in Nat /\ m \in Nat
    OBVIOUS
  <1>2. /\ u \in Seq(Words) /\ Len(u) = IF m <= k THEN (k - m) + 1 ELSE 0
        /\ \A i \in 1..Len(u) : u[i] = s[(i + m) - 1]
    BY Part
  <1>3. /\ v \in Seq(Words) /\ Len(v) = IF m <= n THEN (n - m) + 1 ELSE 0
        /\ \A i \in 1..Len(v) : v[i] = s[(i + m) - 1]
    BY <1>1, Part
  <1> HIDE DEF u, v
  <1>4. Len(u) <= Len(v) /\ Len(u) \in Nat /\ Len(v) \in Nat
    BY <1>1, <1>2, <1>3
  <1>5. \A i \in 1..Len(u) : i \in 1..Len(v)
    BY <1>4
  <1>6. Starts(u, v)
    BY <1>2, <1>3, <1>4, <1>5 DEF Starts
  <1> QED  BY <1>2, <1>3, <1>6 DEF u, v

\* What follows a header of a stream starts what follows it later.
LEMMA StartsFrom ==
  ASSUME NEW s \in Seq(Words), NEW t \in Seq(Words), Starts(s, t), NEW m \in 1..3
  PROVE  /\ SubSeq(s, m, Len(s)) \in Seq(Words) /\ SubSeq(t, m, Len(t)) \in Seq(Words)
         /\ Starts(SubSeq(s, m, Len(s)), SubSeq(t, m, Len(t)))
  <1> DEFINE u == SubSeq(s, m, Len(s)) v == SubSeq(t, m, Len(t))
  <1>1. Len(s) \in 0..Len(s) /\ Len(t) \in 0..Len(t) /\ Len(s) \in Nat /\ Len(t) \in Nat
    OBVIOUS
  <1>2. m \in Nat /\ m >= 1
    OBVIOUS
  <1>3. /\ u \in Seq(Words) /\ Len(u) = IF m <= Len(s) THEN (Len(s) - m) + 1 ELSE 0
        /\ \A i \in 1..Len(u) : u[i] = s[(i + m) - 1]
    BY <1>1, Part
  <1>4. /\ v \in Seq(Words) /\ Len(v) = IF m <= Len(t) THEN (Len(t) - m) + 1 ELSE 0
        /\ \A i \in 1..Len(v) : v[i] = t[(i + m) - 1]
    BY <1>1, Part
  <1> HIDE DEF u, v
  <1>5. Len(s) <= Len(t) /\ \A i \in 1..Len(s) : t[i] = s[i]
    BY DEF Starts
  <1>6. Len(u) <= Len(v) /\ Len(u) \in Nat /\ Len(v) \in Nat
    BY <1>1, <1>2, <1>3, <1>4, <1>5
  <1>7. \A i \in 1..Len(u) : i \in 1..Len(v) /\ (i + m) - 1 \in 1..Len(s)
    BY <1>1, <1>2, <1>3, <1>6
  <1>8. Starts(u, v)
    BY <1>3, <1>4, <1>5, <1>6, <1>7 DEF Starts
  <1> QED  BY <1>3, <1>4, <1>8 DEF u, v

\* What follows the first of two parts is the second.
LEMMA FromBehind ==
  ASSUME NEW h \in Seq(Words), Len(h) <= 2, NEW d \in Seq(Words)
  PROVE  SubSeq(h \o d, Len(h) + 1, Len(h \o d)) = d
  <1> DEFINE s == h \o d
             m == Len(h) + 1
             u == SubSeq(s, m, Len(s))
  <1>1. /\ s \in Seq(Words) /\ Len(s) = Len(h) + Len(d) /\ Len(h) \in Nat /\ Len(d) \in Nat
        /\ \A i \in 1..Len(d) : s[Len(h) + i] = d[i]
    BY Behind
  <1> HIDE DEF s
  <1>2. m \in 1..3 /\ Len(s) \in 0..Len(s) /\ Len(s) \in Nat
    BY <1>1
  <1>3. /\ u \in Seq(Words) /\ Len(u) = IF m <= Len(s) THEN (Len(s) - m) + 1 ELSE 0
        /\ \A i \in 1..Len(u) : u[i] = s[(i + m) - 1]
    BY <1>1, <1>2, Part
  <1> HIDE DEF u
  <1>4. Len(u) = Len(d)
    BY <1>1, <1>2, <1>3
  <1>5. \A i \in 1..Len(d) : (i + m) - 1 = Len(h) + i
    BY <1>1
  <1>6. \A i \in 1..Len(d) : u[i] = d[i]
    BY <1>1, <1>3, <1>4, <1>5
  <1>7. u = d
    BY <1>3, <1>4, <1>6, SeqEqual
  <1> QED  BY <1>7 DEF u, s

LEMMA Adjacent ==
  ASSUME NEW s \in Seq(Words), NEW m \in 1..3, NEW k \in (m - 1)..Len(s), NEW n \in k..Len(s)
  PROVE  /\ SubSeq(s, m, k) \in Seq(Words) /\ SubSeq(s, k + 1, n) \in Seq(Words)
         /\ SubSeq(s, m, k) \o SubSeq(s, k + 1, n) = SubSeq(s, m, n)
  <1>1. /\ m \in 1..Len(s) + 1 /\ k \in Nat /\ n \in Nat /\ m \in Nat /\ Len(s) \in Nat
        /\ \A i \in 1..Len(s) : s[i] \in Words
    BY ElementOfSeq
  <1>2. /\ \A i \in m..k : s[i] \in Words
        /\ \A i \in (k + 1)..n : s[i] \in Words
    BY <1>1
  <1>3. SubSeq(s, m, k) \in Seq(Words)
    BY <1>1, <1>2, SubSeqProperties
  <1>4. SubSeq(s, k + 1, n) \in Seq(Words)
    BY <1>1, <1>2, SubSeqProperties
  <1>5. SubSeq(s, m, k) \o SubSeq(s, k + 1, n) = SubSeq(s, m, n)
    BY <1>1, ConcatAdjacentSubSeq
  <1> QED  BY <1>3, <1>4, <1>5

----------------------------------------------------------------------------
\* The streams of the second proxy

LEMMA FarScriptFacts ==
  ASSUME FarCounted
  PROVE  /\ farScript \in Seq(Words) /\ Len(farScript) = 2 + Len(Data) /\ Len(Data) \in Nat
         /\ farScript[1] = "part" /\ farScript[2] = "request"
         /\ \A i \in 1..Len(Data) : farScript[2 + i] = Data[i]
  <1>1. Header \in Seq(Words) /\ Len(Header) = 2 /\ Header[1] = "part" /\ Header[2] = "request"
    BY DEF Header, Words
  <1>2. Data \in Seq(Words) /\ farScript = Header \o Data
    BY PieceFacts DEF FarCounted
  <1>3. /\ farScript \in Seq(Words) /\ Len(farScript) = Len(Header) + Len(Data)
        /\ Len(Data) \in Nat
        /\ \A i \in 1..Len(Header) : farScript[i] = Header[i]
        /\ \A i \in 1..Len(Data) : farScript[Len(Header) + i] = Data[i]
    BY <1>1, <1>2, Behind
  <1>4. 1 \in 1..2 /\ 2 \in 1..2
    OBVIOUS
  <1> QED  BY <1>1, <1>3, <1>4

LEMMA InitFarStreams == ChainInit => FarStreams
  <1> SUFFICES ASSUME ChainInit PROVE FarStreams
    OBVIOUS
  <1>1. /\ farScript = Header \o Data /\ farSent = 0 /\ farTaken = 0 /\ farAnswers = 0
        /\ farInBuf = <<>> /\ farToOut = <<>> /\ farToIn = <<>> /\ farSelf = FALSE
        /\ farContext = "auth"
    BY DEF ChainInit, Far!Init
  <1>2. Len(farScript) \in Nat /\ Len(Answers) \in Nat /\ <<>> \in Seq(Words)
    <2>1. Header \in Seq(Words)
      BY DEF Header, Words
    <2> QED  BY <1>1, <2>1, PieceFacts, Behind
  <1>3. SubSeq(farScript, 1, 0) = <<>> /\ SubSeq(Answers, 1, 0) = <<>>
    BY SubSeqEmpty
  <1> QED  BY <1>1, <1>2, <1>3 DEF FarStreams, FarCounted, FarOutward, FarInward

LEMMA FarProcessKeeps ==
  ASSUME FarControl, FarStreams, farContext = "transfer",
         NEW n \in farTaken..farSent, NEW connected \in BOOLEAN,
         Far!Process(farInBuf \o SubSeq(farScript, farTaken + 1, n), connected)
  PROVE  /\ farInBuf' \in Seq(Words) /\ farToOut' \in Seq(Words)
         /\ connected /\ farMapped => farInBuf' = <<>>
         /\ farToOut' \o farInBuf' = SubSeq(farScript, 3, n)
         /\ Starts(farToOut, farToOut')
         /\ farToOut' # farToOut => connected
  <1> DEFINE new == SubSeq(farScript, farTaken + 1, n)
             buf == farInBuf \o new
  <1>1. /\ farScript \in Seq(Words) /\ Len(farScript) \in Nat
        /\ farInBuf \in Seq(Words) /\ farToOut \in Seq(Words)
        /\ farToOut \o farInBuf = SubSeq(farScript, 3, farTaken)
    <2>1. FarCounted
      BY DEF FarStreams
    <2>2. farScript \in Seq(Words) /\ Len(farScript) \in Nat
      BY <2>1, FarScriptFacts
    <2> QED  BY <2>1, <2>2 DEF FarStreams, FarCounted, FarOutward
  <1>2. /\ farTaken \in (3 - 1)..Len(farScript) /\ n \in farTaken..Len(farScript)
        /\ 3 \in 1..3
    BY <1>1 DEF FarStreams, FarCounted, FarOutward
  <1>3. /\ new \in Seq(Words)
        /\ SubSeq(farScript, 3, farTaken) \o new = SubSeq(farScript, 3, n)
    BY <1>1, <1>2, Adjacent
  <1>4. Far!Process(buf, connected)
    OBVIOUS
  <1> HIDE DEF new
  <1>5. buf \in Seq(Words) /\ farToOut \o buf = SubSeq(farScript, 3, n)
    <2>1. (farToOut \o farInBuf) \o new = farToOut \o (farInBuf \o new)
      BY <1>1, <1>3, Associative
    <2> QED  BY <1>1, <1>3, <2>1, Behind
  <1> HIDE DEF buf
  <1>6. CASE connected /\ farMapped /\ buf # <<>>
    <2>1. <<>> \o buf = buf /\ farToOut \o <<>> = farToOut
          /\ <<>> \in Seq(Words)
      BY <1>1, <1>5, Glue
    <2>2. farToOut' = farToOut \o buf /\ farInBuf' = <<>>
      BY <1>4, <1>6, <2>1 DEF Far!Process, FarControl, FarTypes
    <2>3. /\ farToOut' \in Seq(Words) /\ Starts(farToOut, farToOut')
          /\ farToOut' \o <<>> = farToOut'
      BY <1>1, <1>5, <2>2, Behind, StartsBehind, Glue
    <2> QED  BY <1>5, <1>6, <2>1, <2>2, <2>3
  <1>7. CASE ~(connected /\ farMapped /\ buf # <<>>)
    <2>1. farToOut' = farToOut /\ farInBuf' = buf
      BY <1>4, <1>7 DEF Far!Process
    <2> QED  BY <1>1, <1>5, <1>7, <2>1, StartsSelf
  <1> QED  BY <1>6, <1>7

\* What a step of the second proxy does to what the others see of it.
FarGrows ==
  /\ Starts(farToOut, farToOut') /\ Starts(farToIn, farToIn')
  /\ farAnswers <= farAnswers'
  /\ farToOut' # farToOut => farOutState' = "connected"

LEMMA FarRunStreams ==
  ASSUME FarControl, FarStreams, NEW n \in (farTaken + 1)..farSent, farTaken' = n,
         UNCHANGED <<farScript, farSent, farAnswers>>,
         Far!RunAuth(farInBuf \o SubSeq(farScript, farTaken + 1, n))
  PROVE  FarStreams' /\ FarGrows
  <1> DEFINE buf == farInBuf \o SubSeq(farScript, farTaken + 1, n)
  <1>1. /\ farScript \in Seq(Words) /\ Len(farScript) \in Nat
        /\ farScript[1] = "part" /\ farScript[2] = "request"
        /\ farTaken \in Nat /\ n \in Nat /\ farTaken < n /\ n <= Len(farScript)
        /\ farToOut \in Seq(Words) /\ farToIn \in Seq(Words) /\ farAnswers \in Nat
    BY FarScriptFacts DEF FarStreams, FarCounted
  <1>2. /\ farContext = "auth" /\ farToOut = <<>> /\ farAnswers = 0 /\ ~farSelf
        /\ farInBuf = SubSeq(farScript, 1, farTaken)
    BY DEF Far!RunAuth, FarStreams, FarOutward, FarInward, FarControl, FarPair
  <1>3. buf = SubSeq(farScript, 1, n)
    <2>1. /\ 1 \in 1..3 /\ farTaken \in (1 - 1)..Len(farScript)
          /\ n \in farTaken..Len(farScript)
      BY <1>1
    <2> QED  BY <1>1, <1>2, <2>1, Adjacent
  <1>4. Far!RunAuth(buf)
    OBVIOUS
  <1> HIDE DEF buf
  <1>5. /\ buf \in Seq(Words) /\ Len(buf) = n /\ \A i \in 1..n : buf[i] = farScript[i]
    <2>1. 1 \in 1..3 /\ n \in 0..Len(farScript) /\ 1 <= n /\ (n - 1) + 1 = n
          /\ \A i \in 1..n : (i + 1) - 1 = i
      BY <1>1
    <2>2. /\ SubSeq(farScript, 1, n) \in Seq(Words)
          /\ Len(SubSeq(farScript, 1, n)) = IF 1 <= n THEN (n - 1) + 1 ELSE 0
          /\ \A i \in 1..Len(SubSeq(farScript, 1, n)) :
               SubSeq(farScript, 1, n)[i] = farScript[(i + 1) - 1]
      BY <1>1, <2>1, Part
    <2> QED  BY <1>3, <2>1, <2>2
  <1>6. SubSeq(buf, 3, n) \in Seq(Words) /\ SubSeq(buf, 3, n) = SubSeq(farScript, 3, n)
    <2>1. \A i \in 3..n : farScript[i] \in Words /\ buf[i] = farScript[i] /\ buf[i] \in Words
      BY <1>1, <1>5, ElementOfSeq
    <2>2. SubSeq(buf, 3, n) \in Seq(Words)
      <3>1. 3 \in Int /\ n \in Int
        BY <1>1
      <3> QED  BY <2>1, <3>1, SubSeqProperties
    <2>3. SubSeq(buf, 3, n) = SubSeq(farScript, 3, n)
      BY <1>1, <2>1
    <2> QED  BY <2>2, <2>3
  <1>7. /\ UNCHANGED <<farToIn, farToOut, farSelf>>
        /\ farInState' = farInState
        /\ \/ farContext' = "auth" /\ farInBuf' = buf
           \/ farContext' = "transfer" /\ n >= 2 /\ farInBuf' = SubSeq(farScript, 3, n)
    <2>1. CASE buf[Len(buf)] = "part"
      BY <1>2, <1>4, <2>1 DEF Far!RunAuth, Far!out
    <2>2. CASE buf[Len(buf)] # "part"
      <3>1. n >= 2
        BY <1>1, <1>5, <2>2
      <3>2. buf[2] = "request"
        BY <1>1, <1>5, <3>1
      <3> QED  BY <1>4, <1>5, <1>6, <2>2, <3>1, <3>2 DEF Far!RunAuth, Far!StartClient
    <2> QED  BY <2>1, <2>2
  <1>8. FarCounted'
    <2>1. farInBuf' \in Seq(Words)
      BY <1>5, <1>6, <1>7
    <2> QED  BY <1>1, <1>7, <2>1 DEF FarStreams, FarCounted
  <1>9. FarOutward'
    <2>1. SubSeq(farScript, 3, n) \in Seq(Words)
      BY <1>6
    <2> QED  BY <1>2, <1>3, <1>7, <2>1, Glue DEF FarOutward
  <1>10. FarInward'
    BY <1>2, <1>7 DEF FarStreams, FarInward
  <1>11. FarGrows
    BY <1>1, <1>7, StartsSelf DEF FarGrows
  <1> QED  BY <1>8, <1>9, <1>10, <1>11 DEF FarStreams

LEMMA FarTransferStreams ==
  ASSUME FarControl, FarStreams, Far!Present, NEW n \in (farTaken + 1)..farSent, farTaken' = n,
         UNCHANGED <<farScript, farSent, farAnswers>>,
         Far!Transfer(farInBuf \o SubSeq(farScript, farTaken + 1, n))
  PROVE  FarStreams' /\ FarGrows
  <1>1. /\ farContext = "transfer"
        /\ UNCHANGED <<farInState, farContext, farSelf, farToIn, farOutState>>
        /\ Far!Process(farInBuf \o SubSeq(farScript, farTaken + 1, n), farSelf)
    BY DEF Far!Transfer
  <1>2. /\ n \in farTaken..farSent /\ n \in 0..farSent /\ farTaken \in Nat /\ n \in Nat
        /\ farTaken <= n /\ farMapped /\ farAnswers \in Nat /\ farToIn \in Seq(Words)
    BY FarScriptFacts DEF FarStreams, FarCounted, FarControl, FarPair
  <1>3. /\ farInBuf' \in Seq(Words) /\ farToOut' \in Seq(Words)
        /\ farSelf => farInBuf' = <<>>
        /\ farToOut' \o farInBuf' = SubSeq(farScript, 3, n)
        /\ Starts(farToOut, farToOut')
        /\ farToOut' # farToOut => farSelf
    BY <1>1, <1>2, FarProcessKeeps DEF FarControl, FarTypes
  <1>4. FarCounted'
    BY <1>1, <1>2, <1>3 DEF FarStreams, FarCounted
  <1>5. FarOutward'
    BY <1>1, <1>2, <1>3 DEF FarStreams, FarOutward
  <1>6. FarInward'
    BY <1>1 DEF FarStreams, FarInward
  <1>7. FarGrows
    BY <1>1, <1>2, <1>3, StartsSelf DEF FarGrows, FarControl, FarPair
  <1> QED  BY <1>4, <1>5, <1>6, <1>7 DEF FarStreams

LEMMA FarReceivesStreams ==
  ASSUME FarControl, FarStreams, Far!InReceives
  PROVE  FarStreams' /\ FarGrows
  <1>1. PICK n \in (farTaken + 1)..farSent :
          /\ farTaken' = n
          /\ LET buf == farInBuf \o SubSeq(farScript, farTaken + 1, n) IN
             Far!RunAuth(buf) \/ Far!Transfer(buf)
    BY DEF Far!InReceives, Far!SocksAuth, Far!SocksRequest, FarControl, FarTypes
  <1>2. UNCHANGED <<farScript, farSent, farAnswers>> /\ Far!Present
    BY DEF Far!InReceives, Far!client, Far!Present
  <1> QED  BY <1>1, <1>2, FarRunStreams, FarTransferStreams

LEMMA FarConnectsStreams ==
  ASSUME FarControl, FarStreams, Far!OutConnects
  PROVE  FarStreams' /\ FarGrows
  <1>1. /\ UNCHANGED <<farScript, farSent, farTaken, farAnswers, farInState, farContext,
                       farMapped, farToIn>>
        /\ farSelf' = TRUE /\ farOutState' = "connected" /\ Far!Process(farInBuf, TRUE)
    BY DEF Far!OutConnects, Far!OnConnectionUp, Far!client
  <1>2. farContext = "transfer" /\ farMapped
    BY DEF Far!OutConnects, FarControl, FarPair, FarTypes
  <1>3. /\ farTaken \in farTaken..farSent /\ farTaken \in Nat /\ farInBuf \in Seq(Words)
        /\ farAnswers \in Nat /\ farToIn \in Seq(Words)
    BY FarScriptFacts DEF FarStreams, FarCounted
  <1>4. farInBuf \o SubSeq(farScript, farTaken + 1, farTaken) = farInBuf
    <2>1. SubSeq(farScript, farTaken + 1, farTaken) = <<>>
      BY <1>3, SubSeqEmpty
    <2>2. <<>> \in Seq(Words)
      BY DEF Words
    <2> QED  BY <1>3, <2>1, <2>2, Glue
  <1>5. Far!Process(farInBuf \o SubSeq(farScript, farTaken + 1, farTaken), TRUE)
    BY <1>1, <1>4
  <1>6. /\ farInBuf' \in Seq(Words) /\ farToOut' \in Seq(Words)
        /\ farInBuf' = <<>>
        /\ farToOut' \o farInBuf' = SubSeq(farScript, 3, farTaken)
        /\ Starts(farToOut, farToOut')
    BY <1>2, <1>3, <1>5, FarProcessKeeps
  <1>7. FarCounted'
    BY <1>1, <1>6 DEF FarStreams, FarCounted
  <1>8. FarOutward'
    BY <1>1, <1>2, <1>6 DEF FarStreams, FarOutward
  <1>9. FarInward'
    BY <1>1 DEF FarStreams, FarInward
  <1>10. FarGrows
    BY <1>1, <1>3, <1>6, StartsSelf DEF FarGrows
  <1> QED  BY <1>7, <1>8, <1>9, <1>10 DEF FarStreams

LEMMA FarAnswersStreams ==
  ASSUME FarControl, FarStreams, Far!OutReceives
  PROVE  FarStreams' /\ FarGrows
  <1>1. /\ UNCHANGED <<farScript, farSent, farTaken, farInState, farContext, farInBuf, farSelf,
                       farToOut>>
        /\ farAnswers' = farAnswers + 1 /\ farAnswers < Len(Answers)
        /\ farContext = "transfer"
    BY DEF Far!OutReceives, Far!client, Far!in, Far!out, FarControl, FarPair
  <1>2. /\ Answers \in Seq(Words) /\ Len(Answers) \in Nat /\ farAnswers \in Nat
        /\ farToIn \in Seq(Words) /\ farToOut \in Seq(Words)
    BY PieceFacts DEF FarStreams, FarCounted
  <1>3. PICK k \in 0..farAnswers :
          farToIn = SubSeq(Answers, 1, k) /\ (farInState = "connected" => k = farAnswers)
    BY DEF FarStreams, FarInward
  <1> DEFINE e == Answers[farAnswers + 1]
  <1>4. farToIn' = IF farInState = "connected" THEN Append(farToIn, e) ELSE farToIn
    BY <1>1 DEF Far!OutReceives
  <1>5. CASE farInState = "connected"
    <2> DEFINE last == <<e>>
    <2>1. e \in Words /\ last \in Seq(Words)
      BY <1>1, <1>2, ElementOfSeq
    <2> HIDE DEF e
    <2>2. farToIn' = farToIn \o last /\ farToIn' \in Seq(Words)
      BY <1>2, <1>4, <1>5, <2>1, AppendIsConcat, AppendProperties
    <2>3. SubSeq(Answers, 1, farAnswers + 1) = SubSeq(Answers, 1, farAnswers) \o last
      <3>1. /\ 1 \in 1..Len(Answers) /\ farAnswers + 1 \in 1..Len(Answers)
            /\ (farAnswers + 1) - 1 = farAnswers
        BY <1>1, <1>2
      <3> QED  BY <1>2, <3>1, SubSeqRecursiveSecond DEF e
    <2> HIDE DEF last
    <2>4. farToIn' = SubSeq(Answers, 1, farAnswers')
      BY <1>1, <1>3, <1>5, <2>2, <2>3
    <2>5. Starts(farToIn, farToIn')
      BY <1>2, <2>1, <2>2, StartsBehind
    <2>6. FarCounted'
      BY <1>1, <1>2, <2>2 DEF FarStreams, FarCounted
    <2>7. FarInward'
      <3>1. farAnswers' \in 0..farAnswers'
        BY <1>1, <1>2
      <3> QED  BY <1>1, <2>4, <3>1 DEF FarInward
    <2>8. FarOutward'
      BY <1>1 DEF FarStreams, FarOutward
    <2>9. FarGrows
      BY <1>1, <1>2, <2>5, StartsSelf DEF FarGrows
    <2> QED  BY <2>6, <2>7, <2>8, <2>9 DEF FarStreams
  <1>6. CASE farInState # "connected"
    <2>1. farToIn' = farToIn
      BY <1>4, <1>6
    <2>2. FarCounted'
      BY <1>1, <1>2, <2>1 DEF FarStreams, FarCounted
    <2>3. FarInward'
      <3>1. k \in 0..farAnswers'
        BY <1>1, <1>2, <1>3
      <3> QED  BY <1>1, <1>3, <1>6, <2>1, <3>1 DEF FarInward
    <2>4. FarOutward'
      BY <1>1 DEF FarStreams, FarOutward
    <2>5. FarGrows
      BY <1>1, <1>2, <2>1, StartsSelf DEF FarGrows
    <2> QED  BY <2>2, <2>3, <2>4, <2>5 DEF FarStreams
  <1> QED  BY <1>5, <1>6

\* What moves no data, and leaves in no more connected than it was.
LEMMA QuietFarStreams ==
  ASSUME FarControl, FarStreams,
         UNCHANGED <<farScript, farTaken, farAnswers, farContext, farInBuf, farToOut, farToIn>>,
         farSent' \in farSent..Len(farScript),
         farSelf' => farSelf,
         farInState' = "connected" => farInState = "connected" \/ farContext = "auth"
  PROVE  FarStreams' /\ FarGrows
  <1>1. /\ farSent \in Nat /\ Len(farScript) \in Nat /\ farTaken \in 0..farSent
        /\ farAnswers \in Nat /\ farToOut \in Seq(Words) /\ farToIn \in Seq(Words)
    BY FarScriptFacts DEF FarStreams, FarCounted
  <1>2. FarCounted'
    BY <1>1 DEF FarStreams, FarCounted
  <1>3. FarOutward'
    BY DEF FarStreams, FarOutward
  <1>4. FarInward'
    BY DEF FarStreams, FarInward
  <1>5. FarGrows
    BY <1>1, StartsSelf DEF FarGrows
  <1> QED  BY <1>2, <1>3, <1>4, <1>5 DEF FarStreams

LEMMA NextFarStreams ==
  ASSUME FarControl, FarStreams, [Far!Next]_(Far!vars)
  PROVE  FarStreams' /\ FarGrows
  <1> USE DEF Far!client, Far!in, Far!connector, Far!out, Far!fixed
  <1>1. farSent \in Nat /\ Len(farScript) \in Nat /\ farSent \in farSent..Len(farScript)
    BY FarScriptFacts DEF FarStreams, FarCounted
  <1>2. CASE Far!InConnects
    <2>1. farContext = "auth"
      BY <1>2 DEF Far!InConnects, FarControl, FarPair
    <2> QED  BY <1>1, <1>2, <2>1, QuietFarStreams DEF Far!InConnects
  <1>3. CASE Far!InEnds
    BY <1>1, <1>3, QuietFarStreams DEF Far!InEnds, Far!DisConnected, Far!OnConnectionDown
  <1>4. CASE Far!OutFails
    BY <1>1, <1>4, QuietFarStreams DEF Far!OutFails
  <1>5. CASE Far!RunReset
    BY <1>1, <1>5, QuietFarStreams DEF Far!RunReset
  <1>6. CASE Far!RunRetry
    BY <1>1, <1>6, QuietFarStreams DEF Far!RunRetry
  <1>7. CASE Far!OutEnds
    BY <1>1, <1>7, QuietFarStreams DEF Far!OutEnds, Far!OnConnectionDown, Far!ShutDownIn
  <1>8. CASE Far!TargetComesUp
    BY <1>1, <1>8, QuietFarStreams DEF Far!TargetComesUp
  <1>9. CASE UNCHANGED Far!vars
    BY <1>1, <1>9, QuietFarStreams DEF Far!vars
  <1>10. CASE Far!ClientSends
    <2>1. farSent' \in farSent..Len(farScript)
      BY <1>1, <1>10 DEF Far!ClientSends, Far!MaySend
    <2> QED  BY <1>10, <2>1, QuietFarStreams DEF Far!ClientSends
  <1> QED
    BY <1>2, <1>3, <1>4, <1>5, <1>6, <1>7, <1>8, <1>9, <1>10, FarReceivesStreams,
       FarConnectsStreams, FarAnswersStreams
       DEF Far!Next

----------------------------------------------------------------------------
\* Between the two

LEMMA ProcessStarts ==
  ASSUME toOut \in Seq(Words), NEW buf \in Seq(Words), NEW connected \in BOOLEAN,
         Process(buf, connected)
  PROVE  Starts(toOut, toOut') /\ (toOut' # toOut => connected)
  <1> DEFINE front == IF header THEN Header ELSE <<>>
  <1>1. front \in Seq(Words)
    <2>1. Header \in Seq(Words) /\ <<>> \in Seq(Words)
      BY DEF Header, Words
    <2> QED  BY <2>1
  <1>2. \/ toOut' = toOut
        \/ connected /\ toOut' = (toOut \o front) \o buf
    BY DEF Process
  <1> HIDE DEF front
  <1>3. toOut \o front \in Seq(Words) /\ (toOut \o front) \o buf \in Seq(Words)
    BY <1>1, Behind
  <1>4. Starts(toOut, toOut \o front) /\ Starts(toOut \o front, (toOut \o front) \o buf)
    BY <1>1, <1>3, StartsBehind
  <1>5. Starts(toOut, (toOut \o front) \o buf)
    BY <1>3, <1>4, StartsTransitive
  <1> QED  BY <1>2, <1>5, StartsSelf

\* What a step of the first proxy does to what the others see of it.
NearGrows ==
  /\ script' = script /\ protocol' = protocol
  /\ sent <= sent' /\ taken <= taken'
  /\ answers' = answers \/ OutReceives
  /\ Starts(toOut, toOut') /\ Starts(toIn, toIn')
  /\ toOut' # toOut => outState' = "connected"
  /\ toIn' # toIn => inState' \in {"connected", "disconnecting"}
  /\ outState # "none" => outState' # "none"

\* What Send took for the client stays, and goes out while it is there.
LEMMA AnswerStarts ==
  ASSUME toIn \in Seq(Words), NEW e \in Words
  PROVE  Starts(toIn, toIn \o <<e>>) /\ Starts(toIn, Append(toIn, e))
  <1>1. <<e>> \in Seq(Words)
    OBVIOUS
  <1>2. Append(toIn, e) = toIn \o <<e>>
    BY AppendIsConcat
  <1> QED  BY <1>1, <1>2, StartsBehind

LEMMA NextNearGrows ==
  ASSUME Control, Streams, [Next]_vars
  PROVE  NearGrows
  <1> USE DEF client, in, connector, out, fixed
  <1>1. /\ sent \in Nat /\ taken \in Nat /\ taken <= sent /\ sent <= Len(script)
        /\ script \in Seq(Words) /\ Len(script) \in Nat
        /\ toOut \in Seq(Words) /\ toIn \in Seq(Words) /\ inBuf \in Seq(Words)
    BY ScriptFacts DEF Streams, Counted
  <1>2. Starts(toOut, toOut) /\ Starts(toIn, toIn) /\ sent <= sent /\ taken <= taken
    BY <1>1, StartsSelf
  <1>3. CASE InReceives
    <2>1. PICK n \in (taken + 1)..sent :
            /\ taken' = n
            /\ LET buf == inBuf \o SubSeq(script, taken + 1, n) IN
               SocksAuth(buf) \/ SocksRequest(buf) \/ RunAuth(buf) \/ Transfer(buf)
      BY <1>3 DEF InReceives
    <2> DEFINE buf == inBuf \o SubSeq(script, taken + 1, n)
    <2>2. /\ UNCHANGED <<script, sent, answers, protocol>>
          /\ inState \in {"connected", "disconnecting"} /\ taken <= taken'
      BY <1>1, <1>3, <2>1 DEF InReceives
    <2>3. buf \in Seq(Words)
      <3>1. /\ 1 \in 1..3 /\ taken \in (1 - 1)..Len(script) /\ n \in taken..Len(script)
        BY <1>1, <2>1
      <3>2. SubSeq(script, taken + 1, n) \in Seq(Words)
        BY <1>1, <3>1, Adjacent
      <3> QED  BY <1>1, <3>2, Behind
    <2>4. SocksAuth(buf) \/ SocksRequest(buf) \/ RunAuth(buf) \/ Transfer(buf)
      BY <2>1
    <2> HIDE DEF buf
    <2>5. "method" \in Words /\ "granted" \in Words
      BY DEF Words
    <2>6. inState' \in {"connected", "disconnecting"}
      BY <2>2, <2>4 DEF SocksAuth, SocksRequest, RunAuth, Transfer, ShutDownIn
    <2>7. Starts(toIn, toIn')
      BY <1>1, <1>2, <2>4, <2>5, AnswerStarts DEF SocksAuth, SocksRequest, RunAuth, Transfer
    <2>8. Starts(toOut, toOut') /\ (toOut' # toOut => outState' = "connected")
      <3>1. CASE Transfer(buf)
        <4>1. Process(buf, self) /\ outState' = outState /\ (self => outState = "connected")
              /\ self \in BOOLEAN
          BY <3>1 DEF Transfer, Control, Pair, Types
        <4> QED  BY <1>1, <2>3, <4>1, ProcessStarts
      <3>2. CASE SocksAuth(buf) \/ SocksRequest(buf) \/ RunAuth(buf)
        <4>1. toOut' = toOut
          BY <3>2 DEF SocksAuth, SocksRequest, RunAuth, StartClient
        <4> QED  BY <1>2, <4>1
      <3> QED  BY <2>4, <3>1, <3>2
    <2>9. outState' = outState
      BY <2>4 DEF SocksAuth, SocksRequest, RunAuth, StartClient, Transfer
    <2> QED  BY <1>2, <2>2, <2>6, <2>7, <2>8, <2>9 DEF NearGrows
  <1>4. CASE OutConnects
    <2>1. /\ UNCHANGED <<script, protocol, sent, taken, answers, toIn, inState>>
          /\ outState' = "connected" /\ Process(inBuf, TRUE)
      BY <1>4 DEF OutConnects, OnConnectionUp
    <2>2. Starts(toOut, toOut')
      BY <1>1, <2>1, ProcessStarts
    <2> QED  BY <1>2, <2>1, <2>2 DEF NearGrows
  <1>5. CASE OutReceives
    <2>1. /\ UNCHANGED <<script, protocol, sent, taken, inState, outState, toOut>>
          /\ toIn' = IF inState = "connected" THEN Append(toIn, Answers[answers']) ELSE toIn
          /\ answers' \in 1..Len(Answers)
      <3>1. answers \in 0..Len(Answers) /\ Len(Answers) \in Nat
        BY PieceFacts DEF Streams, Counted
      <3> QED  BY <1>5, <3>1 DEF OutReceives
    <2>2. Answers[answers'] \in Words
      BY <2>1, PieceFacts, ElementOfSeq
    <2>3. Starts(toIn, toIn')
      BY <1>1, <1>2, <2>1, <2>2, AnswerStarts
    <2> QED  BY <1>2, <1>5, <2>1, <2>3 DEF NearGrows
  <1>6. CASE \/ InConnects \/ InEnds \/ OutFails \/ RunReset \/ RunRetry \/ OutEnds
             \/ ClientSends \/ TargetComesUp \/ UNCHANGED vars
    <2>1. UNCHANGED <<script, protocol, taken, answers, toOut, toIn>>
      BY <1>6 DEF InConnects, InEnds, OutFails, RunReset, RunRetry, OutEnds, ClientSends,
                  TargetComesUp, vars
    <2>2. sent <= sent'
      BY <1>1, <1>6 DEF InConnects, InEnds, OutFails, RunReset, RunRetry, OutEnds, ClientSends,
                  TargetComesUp, vars
    <2>3. outState # "none" => outState' # "none"
      BY <1>6 DEF InConnects, InEnds, DisConnected, OnConnectionDown, OutFails, RunReset,
                  RunRetry, OutEnds, ClientSends, TargetComesUp, vars
    <2> QED  BY <1>2, <2>1, <2>2, <2>3 DEF NearGrows
  <1> QED  BY <1>3, <1>4, <1>5, <1>6 DEF Next

LEMMA InitCarried == ChainInit => Carried
  BY SubSeqEmpty DEF ChainInit, Init, Far!Init, Carried

LEMMA NextCarried ==
  ASSUME Control, Streams, FarControl, FarStreams, Carried, [ChainNext]_allVars
  PROVE  Carried'
  <1>1. NearGrows /\ FarGrows
    BY HopSteps, NextNearGrows, NextFarStreams
  <1>2. /\ Len(toOut) <= Len(toOut') /\ Len(farToIn) <= Len(farToIn')
        /\ protocol' = protocol /\ (outState # "none" => outState' # "none")
    BY <1>1 DEF NearGrows, FarGrows, Starts
  <1>3. /\ farSent \in Nat /\ Len(toOut) \in Nat /\ answers \in Nat /\ Len(farToIn) \in Nat
        /\ Len(toOut') \in Nat /\ Len(farToIn') \in Nat
    <2>1. Streams' /\ FarStreams'
      BY HopSteps, NextStreams, NextFarStreams
    <2>2. /\ toOut \in Seq(Words) /\ farToIn \in Seq(Words)
          /\ toOut' \in Seq(Words) /\ farToIn' \in Seq(Words)
      BY <2>1 DEF Streams, Counted, FarStreams, FarCounted
    <2>3. farSent \in Nat /\ answers \in Nat
      BY DEF Streams, Counted, FarStreams, FarCounted
    <2> QED  BY <2>2, <2>3
  <1>4. CASE NearStep
    <2>1. hops' = hops /\ farSent' = farSent /\ farInState' = farInState /\ farToIn' = farToIn
      BY <1>4 DEF NearStep, farVars, between
    <2>2. ASSUME hops = 2 PROVE answers' <= Len(farToIn)
      <3>1. CASE HopReceives
        BY <1>3, <2>2, <3>1 DEF HopReceives, OutReceives
      <3>2. CASE ~HopReceives
        <4>1. answers' = answers
          BY <1>4, <3>2 DEF NearStep, InConnects, InReceives, InEnds, OutConnects, OutFails,
                            RunReset, RunRetry, HopEnds, OutEnds, ClientSends, TargetComesUp
        <4> QED  BY <2>2, <4>1 DEF Carried
      <3> QED  BY <3>1, <3>2
    <2> QED  BY <1>2, <1>3, <2>1, <2>2 DEF Carried
  <1>5. CASE FarStep
    <2>1. UNCHANGED <<hops, protocol, toOut, answers, outState>>
      BY <1>5 DEF FarStep, vars, out, fixed, between
    <2>2. farSent' <= Len(toOut)
      <3>1. CASE Arrives
        BY <1>3, <3>1 DEF Arrives, Far!ClientSends
      <3>2. CASE ~Arrives
        <4>1. farSent' = farSent
          BY <1>5, <3>2
             DEF FarStep, FirstLeaves, Far!InConnects, Far!InReceives, Far!InEnds,
                 Far!OutConnects, Far!OutFails, Far!RunReset, Far!RunRetry, Far!OutReceives,
                 Far!OutEnds, Far!TargetComesUp, Far!client
        <4> QED  BY <1>5, <4>1 DEF Carried, FarStep
      <3> QED  BY <3>1, <3>2
    <2>3. farInState' # "none" => outState # "none"
      <3>1. CASE outState # "none" /\ Far!InConnects
        BY <3>1
      <3>2. CASE ~(outState # "none" /\ Far!InConnects)
        <4>1. farInState' # "none" => farInState # "none"
          BY <1>5, <3>2
             DEF FarStep, FirstLeaves, Arrives, Far!InReceives, Far!InEnds, Far!OutConnects,
                 Far!OutFails, Far!RunReset, Far!RunRetry, Far!OutReceives, Far!OutEnds,
                 Far!ShutDownIn, Far!ClientSends, Far!TargetComesUp, Far!client, Far!in
        <4> QED  BY <1>5, <4>1 DEF Carried, FarStep
      <3> QED  BY <3>1, <3>2
    <2> QED  BY <1>2, <1>3, <2>1, <2>2, <2>3 DEF Carried
  <1>6. CASE LinkBreaks \/ UNCHANGED allVars
    <2>1. UNCHANGED <<hops, protocol, toOut, answers, outState, farSent, farToIn, farInState>>
      BY <1>6 DEF LinkBreaks, allVars, vars, farVars, out, fixed, between
    <2> QED  BY <2>1 DEF Carried
  <1> QED  BY <1>4, <1>5, <1>6 DEF ChainNext

----------------------------------------------------------------------------
\* The second proxy keeps what the first one promises

LEMMA StartsAfter ==
  ASSUME NEW h \in Seq(Words), NEW s \in Seq(Words), NEW t \in Seq(Words), Starts(s, t)
  PROVE  Starts(h \o s, h \o t)
  <1> DEFINE u == h \o s v == h \o t
  <1>1. /\ Len(u) = Len(h) + Len(s) /\ Len(h) \in Nat /\ Len(s) \in Nat
        /\ \A i \in 1..Len(h) : u[i] = h[i]
        /\ \A i \in 1..Len(s) : u[Len(h) + i] = s[i]
    BY Behind
  <1>2. /\ Len(v) = Len(h) + Len(t) /\ Len(t) \in Nat
        /\ \A i \in 1..Len(h) : v[i] = h[i]
        /\ \A i \in 1..Len(t) : v[Len(h) + i] = t[i]
    BY Behind
  <1> HIDE DEF u, v
  <1>3. Len(s) <= Len(t) /\ \A i \in 1..Len(s) : t[i] = s[i]
    BY DEF Starts
  <1>4. ASSUME NEW i \in 1..Len(u) PROVE v[i] = u[i]
    <2>1. CASE i \in 1..Len(h)
      BY <1>1, <1>2, <2>1
    <2>2. CASE i \notin 1..Len(h)
      <3>1. /\ i - Len(h) \in 1..Len(s) /\ i - Len(h) \in 1..Len(t)
            /\ Len(h) + (i - Len(h)) = i
        BY <1>1, <1>2, <1>3, <2>2
      <3>2. u[i] = s[i - Len(h)] /\ v[i] = t[i - Len(h)]
        BY <1>1, <1>2, <3>1
      <3> QED  BY <1>3, <3>1, <3>2
    <2> QED  BY <2>1, <2>2
  <1>5. Starts(u, v)
    BY <1>1, <1>2, <1>3, <1>4 DEF Starts
  <1> QED  BY <1>5 DEF u, v

\* Behind the first two words a script is what the client has for the target.
LEMMA BehindRequest ==
  ASSUME Control, Streams, NEW n \in 2..Len(script)
  PROVE  SubSeq(script, 3, n) \in Seq(Words) /\ Starts(SubSeq(script, 3, n), Data)
  <1> DEFINE d == SubSeq(script, 3, n)
  <1>1. script \in Seq(Words) /\ Len(script) \in Nat /\ script \in Scripts(protocol.in)
    BY ScriptFacts DEF Streams, Counted
  <1>2. /\ d \in Seq(Words) /\ Len(d) = IF 3 <= n THEN (n - 3) + 1 ELSE 0
        /\ \A i \in 1..Len(d) : d[i] = script[(i + 3) - 1]
    <2>1. 3 \in 1..3 /\ n \in 0..Len(script)
      BY <1>1
    <2> QED  BY <1>1, <2>1, Part
  <1> HIDE DEF d
  <1>3. Data \in Seq(Words) /\ Len(Data) \in Nat
    BY PieceFacts
  <1>4. CASE script = <<First(protocol.in), "request">> \o Data
    <2> DEFINE h == <<First(protocol.in), "request">>
    <2>1. h \in Seq(Words) /\ Len(h) = 2
      <3>1. First(protocol.in) \in Words /\ "request" \in Words
        BY DEF First, Words
      <3> QED  BY <3>1
    <2> HIDE DEF h
    <2>2. Len(script) = 2 + Len(Data) /\ \A i \in 1..Len(Data) : script[2 + i] = Data[i]
      BY <1>3, <1>4, <2>1, Behind DEF h
    <2>3. Len(d) <= Len(Data) /\ Len(d) \in Nat /\ \A i \in 1..Len(d) : (i + 3) - 1 = 2 + i
      BY <1>2, <1>3, <2>2
    <2>4. \A i \in 1..Len(d) : i \in 1..Len(Data)
      BY <1>3, <2>3
    <2>5. Starts(d, Data)
      BY <1>2, <2>2, <2>3, <2>4 DEF Starts
    <2> QED  BY <1>2, <2>5 DEF d
  <1>5. CASE script # <<First(protocol.in), "request">> \o Data
    <2>1. Len(script) \in {1, 2}
      <3>1. Len(<<First(protocol.in), "bad">>) = 2 /\ Len(<<"bad">>) = 1
        OBVIOUS
      <3>2. script = <<First(protocol.in), "bad">> \/ script = <<"bad">>
        BY <1>1, <1>5 DEF Scripts
      <3> QED  BY <3>1, <3>2
    <2>2. Len(d) = 0
      BY <1>1, <1>2, <2>1
    <2>3. Starts(d, Data)
      BY <1>3, <2>2 DEF Starts
    <2> QED  BY <1>2, <2>3 DEF d
  <1> QED  BY <1>4, <1>5

\* What RunOut sends is what the client of the next proxy means to send.
LEMMA HeaderFirst ==
  ASSUME Control, Streams, protocol.out = "run"
  PROVE  Starts(toOut, Header \o Data)
  <1>1. Header \in Seq(Words) /\ Data \in Seq(Words) /\ toOut \in Seq(Words) /\ inBuf \in Seq(Words)
    <2>1. Header \in Seq(Words)
      BY DEF Header, Words
    <2> QED  BY <2>1, PieceFacts DEF Streams, Counted
  <1>2. CASE toOut = <<>>
    <2>1. Len(toOut) = 0 /\ Len(Header \o Data) \in Nat
      BY <1>1, <1>2, Behind
    <2> QED  BY <2>1 DEF Starts
  <1>3. CASE toOut # <<>>
    <2> DEFINE d == SubSeq(script, 3, taken)
    <2>1. taken \in 2..Len(script) /\ toOut \o inBuf = Header \o d
      <3>1. context = "transfer"
        BY <1>3 DEF Streams, Handshake
      <3>2. taken >= 2 /\ toOut \o inBuf = Header \o d
        BY <1>3, <3>1 DEF Streams, Outward, Prefix
      <3>3. taken \in 0..sent /\ sent \in 0..Len(script) /\ Len(script) \in Nat
        BY ScriptFacts DEF Streams, Counted
      <3> HIDE DEF d
      <3> QED  BY <3>2, <3>3
    <2>2. d \in Seq(Words) /\ Starts(d, Data)
      BY <2>1, BehindRequest
    <2> HIDE DEF d
    <2>3. Starts(toOut, toOut \o inBuf) /\ Starts(Header \o d, Header \o Data)
      BY <1>1, <2>2, StartsBehind, StartsAfter
    <2>4. Header \o d \in Seq(Words) /\ Header \o Data \in Seq(Words)
      BY <1>1, <2>2, Behind
    <2> QED  BY <1>1, <2>1, <2>3, <2>4, StartsTransitive
  <1> QED  BY <1>2, <1>3

\* The types of the second proxy.
LEMMA FarTypesHold ==
  ASSUME FarControl, FarStreams
  PROVE  Far!TypeOK
  <1>1. /\ farScript \in Seq(Words) /\ Len(farScript) = 2 + Len(Data) /\ Len(Data) \in Nat
        /\ \A i \in 1..Len(Data) : farScript[2 + i] = Data[i]
        /\ farTaken \in 0..Len(farScript)
        /\ farInBuf \in Seq(Words) /\ farToOut \in Seq(Words) /\ farToIn \in Seq(Words)
    BY FarScriptFacts DEF FarStreams, FarCounted
  <1>2. farScript \in Far!Scripts(farProtocol.in)
    <2>1. farProtocol.in = "run" /\ farScript = Header \o Data
      BY DEF FarControl, FarTypes, FarStreams, FarCounted
    <2> QED  BY <2>1 DEF Far!Scripts, Far!First, Header
  <1>3. Header \in Seq(Words) /\ ToSet(Header) = {"part", "request"} /\ IsInjective(Header)
    BY TwoWords DEF Header, Words
  <1>4. IsInjective(farScript)
    <2>1. ToSet(Header) \cap ToSet(Data) = {}
      BY <1>3, PieceFacts, PieceAssumption
    <2> QED  BY <1>3, <2>1, PieceFacts, Joined DEF FarStreams, FarCounted
  <1>5. Far!Header \in Seq(Words)
    BY DEF Far!Header, Words
  <1>6. ToSet(farScript) \subseteq ToSet(farScript \o Far!Header)
    BY <1>1, <1>5, Joined
  <1>7. \A s \in {farInBuf, farToOut} :
          IsInjective(s) /\ ToSet(s) \subseteq ToSet(farScript)
    <2>1. 1 \in 1..3 /\ 3 \in 1..3
      OBVIOUS
    <2>2. CASE farContext = "auth"
      <3>1. farToOut = <<>> /\ farInBuf = SubSeq(farScript, 1, farTaken)
        BY <2>2 DEF FarStreams, FarOutward
      <3>2. /\ IsInjective(SubSeq(farScript, 1, farTaken))
            /\ ToSet(SubSeq(farScript, 1, farTaken)) \subseteq ToSet(farScript)
        BY <1>1, <1>4, <2>1, Taken
      <3> QED  BY <3>1, <3>2, NothingIsInjective
    <2>3. CASE farContext = "transfer"
      <3>1. farToOut \o farInBuf = SubSeq(farScript, 3, farTaken)
        BY <2>3 DEF FarStreams, FarOutward
      <3>2. /\ IsInjective(SubSeq(farScript, 3, farTaken))
            /\ ToSet(SubSeq(farScript, 3, farTaken)) \subseteq ToSet(farScript)
        BY <1>1, <1>4, <2>1, Taken
      <3>3. /\ IsInjective(farToOut) /\ IsInjective(farInBuf)
            /\ ToSet(farToOut) \cup ToSet(farInBuf) \subseteq ToSet(farScript)
        <4>1. farToOut \in Seq(Words) /\ farInBuf \in Seq(Words)
          BY <1>1
        <4>2. /\ IsInjective(farToOut \o farInBuf)
              /\ ToSet(farToOut \o farInBuf) \subseteq ToSet(farScript)
          BY <3>1, <3>2
        <4> QED  BY <4>1, <4>2, Joined
      <3> QED  BY <3>3
    <2> QED  BY <2>2, <2>3 DEF FarControl, FarTypes
  <1>8. IsInjective(farToIn) /\ ToSet(farToIn) \subseteq ToSet(Answers)
    <2>1. PICK k \in 0..farAnswers : farToIn = SubSeq(Answers, 1, k)
      BY DEF FarStreams, FarInward
    <2>2. k \in 0..Len(Answers) /\ 1 \in 1..3
      <3>1. Len(Answers) \in Nat /\ farAnswers \in 0..Len(Answers)
        BY PieceFacts DEF FarStreams, FarCounted
      <3> QED  BY <3>1
    <2> QED  BY <2>1, <2>2, PieceFacts, Taken
  <1>9. {farTargetUp, farMapped, farHandler, farCallbacks, farSpent, farSelf, farHeader}
          \subseteq BOOLEAN
    BY DEF FarControl, FarTypes
  <1>10. /\ farProtocol \in [in : InProtocols, out : OutProtocols]
         /\ farSent \in 0..Len(farScript) /\ farTaken \in 0..farSent
         /\ farAnswers \in 0..Len(Answers)
         /\ farInState \in {"none", "connected", "disconnecting", "disconnected"}
         /\ farContext \in {"auth", "request", "transfer"}
         /\ farAttempt \in {"idle", "connecting", "waiting", "connected", "gaveUp", "stopped"}
         /\ farOutState \in {"none", "connected", "disconnected"}
    BY DEF FarControl, FarTypes, FarStreams, FarCounted
  <1>11. \A s \in {farInBuf, farToOut} :
           IsInjective(s) /\ ToSet(s) \subseteq ToSet(farScript \o Far!Header)
    BY <1>6, <1>7
  <1>12. IsInjective(farToIn) /\ ToSet(farToIn) \subseteq {"method", "granted"} \cup ToSet(Answers)
    BY <1>8
  <1>13. /\ \A s : Far!ToSet(s) = ToSet(s)
         /\ \A s : Far!IsInjective(s) = IsInjective(s)
    BY DEF Far!ToSet, ToSet, Far!IsInjective, IsInjective
  <1> QED  BY <1>2, <1>9, <1>10, <1>11, <1>12, <1>13 DEF Far!TypeOK

LEMMA FarStreamsHold ==
  ASSUME FarControl, FarStreams
  PROVE  Far!StreamsIntact
  <1>1. farProtocol.in = "run" /\ farProtocol.out = "freedom"
    BY DEF FarControl, FarTypes
  <1>2. farTaken \in 0..Len(farScript) /\ farScript \in Seq(Words) /\ 3 \in 1..3
    BY FarScriptFacts DEF FarStreams, FarCounted
  <1>3. <<>> \o SubSeq(farScript, 3, farTaken) = SubSeq(farScript, 3, farTaken)
    BY <1>2, Part, Glue
  <1>4. farContext = "transfer" =>
          farToOut \o farInBuf =
            (IF farProtocol.out = "run" /\ farToOut # <<>> THEN Far!Header ELSE <<>>)
              \o SubSeq(farScript, 3, farTaken)
    BY <1>1, <1>3 DEF FarStreams, FarOutward
  <1>5. farSelf => farInBuf = <<>>
    BY DEF FarStreams, FarOutward
  <1>6. ASSUME farInState = "connected"
        PROVE  farToIn = Far!Replies \o SubSeq(Answers, 1, farAnswers)
    <2>1. farToIn = SubSeq(Answers, 1, farAnswers) /\ farToIn \in Seq(Words)
      BY <1>6 DEF FarStreams, FarInward, FarCounted
    <2>2. Far!Replies = <<>> /\ <<>> \o farToIn = farToIn
      BY <1>1, <2>1, Glue DEF Far!Replies
    <2> QED  BY <2>1, <2>2
  <1> QED  BY <1>4, <1>5, <1>6 DEF Far!StreamsIntact

\* Nothing is made up between the two.
LEMMA LinkFits ==
  ASSUME Control, Streams, FarStreams, Carried, hops = 2
  PROVE  /\ Starts(SubSeq(farScript, 1, farSent), toOut)
         /\ Starts(SubSeq(Answers, 1, answers), farToIn)
         /\ SubSeq(farScript, 1, farSent) \in Seq(Words)
         /\ SubSeq(Answers, 1, answers) \in Seq(Words)
         /\ answers <= farAnswers
  <1>1. /\ farScript \in Seq(Words) /\ Len(farScript) \in Nat /\ farSent \in 0..Len(farScript)
        /\ farScript = Header \o Data
        /\ toOut \in Seq(Words) /\ farToIn \in Seq(Words)
        /\ answers \in 0..Len(Answers) /\ Answers \in Seq(Words) /\ Len(Answers) \in Nat
        /\ farAnswers \in 0..Len(Answers)
    BY FarScriptFacts, PieceFacts DEF FarStreams, FarCounted, Streams, Counted
  <1>2. protocol.out = "run" /\ farSent <= Len(toOut) /\ answers <= Len(farToIn)
    BY DEF Carried
  <1>3. Starts(toOut, farScript)
    BY <1>1, <1>2, HeaderFirst
  <1>4. 1 \in 1..3 /\ \A i : (i + 1) - 1 = i \/ i \notin Int
    OBVIOUS
  <1>5. Starts(SubSeq(farScript, 1, farSent), toOut) /\ SubSeq(farScript, 1, farSent) \in Seq(Words)
    <2> DEFINE u == SubSeq(farScript, 1, farSent)
    <2>1. /\ u \in Seq(Words) /\ Len(u) = IF 1 <= farSent THEN (farSent - 1) + 1 ELSE 0
          /\ \A i \in 1..Len(u) : u[i] = farScript[(i + 1) - 1]
      BY <1>1, <1>4, Part
    <2> HIDE DEF u
    <2>2. Len(u) = farSent /\ \A i \in 1..Len(u) : u[i] = farScript[i]
      BY <1>1, <2>1
    <2>3. Len(toOut) \in Nat /\ \A i \in 1..Len(toOut) : farScript[i] = toOut[i]
      BY <1>1, <1>3 DEF Starts
    <2>4. Len(u) <= Len(toOut)
      BY <1>2, <2>2
    <2>5. \A i \in 1..Len(u) : i \in 1..Len(toOut)
      BY <1>1, <2>2, <2>3, <2>4
    <2>6. Starts(u, toOut)
      BY <2>2, <2>3, <2>4, <2>5 DEF Starts
    <2> QED  BY <2>1, <2>6 DEF u
  <1>6. PICK k \in 0..farAnswers : farToIn = SubSeq(Answers, 1, k)
    BY DEF FarStreams, FarInward
  <1>7. k \in 0..Len(Answers) /\ k \in Nat /\ k <= farAnswers
    BY <1>1
  <1>8. /\ Len(farToIn) = IF 1 <= k THEN (k - 1) + 1 ELSE 0
        /\ \A i \in 1..Len(farToIn) : farToIn[i] = Answers[(i + 1) - 1]
    BY <1>1, <1>4, <1>6, <1>7, Part
  <1>9. Len(farToIn) = k /\ answers <= k
    BY <1>2, <1>7, <1>8
  <1>10. Starts(SubSeq(Answers, 1, answers), farToIn) /\ SubSeq(Answers, 1, answers) \in Seq(Words)
    <2>1. k \in answers..Len(Answers)
      BY <1>1, <1>7, <1>9
    <2> QED  BY <1>1, <1>4, <1>6, <2>1, StartsPart
  <1>11. answers <= farAnswers
    BY <1>1, <1>7, <1>9
  <1> QED  BY <1>5, <1>10, <1>11

ChainInv == Control /\ Streams /\ FarControl /\ FarStreams /\ Carried

LEMMA InitChain == ChainInit => ChainInv
  BY InitControl, InitStreams, InitFarControl, InitFarStreams, InitCarried
     DEF ChainInit, ChainInv

LEMMA NextChain == ChainInv /\ [ChainNext]_allVars => ChainInv'
  BY HopSteps, NextControl, NextStreams, NextFarControl, NextFarStreams, NextCarried
     DEF ChainInv

LEMMA AlwaysChain == ChainSpec => []ChainInv
  BY InitChain, NextChain, PTL DEF ChainSpec

\* The second of two proxies keeps what the first one promises, if no client
\* leaves while Connector::Stop would assert: it has nothing that the first did
\* not send, and the first no answer that it has not, however the connection
\* between them cuts up what goes through it and whenever that breaks.
THEOREM FarHopAlwaysAgrees == ~LeaveWhenever => (ChainSpec => []FarHopAgrees)
  <1> SUFFICES ASSUME ~LeaveWhenever PROVE ChainSpec => []FarHopAgrees
    OBVIOUS
  <1>1. ChainInv => FarHopAgrees
    <2> SUFFICES ASSUME ChainInv PROVE FarHopAgrees
      OBVIOUS
    <2>1. Control /\ Streams /\ FarControl /\ FarStreams /\ Carried
      BY DEF ChainInv
    <2>2. Far!PairAgrees
      BY <2>1 DEF FarControl, FarPair, Far!PairAgrees, Far!MayLeave
    <2>3. hops = 2 =>
            /\ IsPrefix(SubSeq(farScript, 1, farSent), toOut)
            /\ IsPrefix(SubSeq(Answers, 1, answers), farToIn)
            /\ farInState # "none" => outState # "none"
      <3> SUFFICES ASSUME hops = 2
                   PROVE  /\ IsPrefix(SubSeq(farScript, 1, farSent), toOut)
                          /\ IsPrefix(SubSeq(Answers, 1, answers), farToIn)
                          /\ farInState # "none" => outState # "none"
        OBVIOUS
      <3>1. toOut \in Seq(Words) /\ farToIn \in Seq(Words)
        BY <2>1 DEF Streams, Counted, FarStreams, FarCounted
      <3> QED  BY <2>1, <3>1, LinkFits, StartsIsPrefix DEF Carried
    <2> QED  BY <2>1, <2>2, <2>3, FarTypesHold, FarStreamsHold, PlainIsUnderstood
             DEF FarHopAgrees
  <1> QED  BY <1>1, AlwaysChain, PTL

----------------------------------------------------------------------------
\* The chain implements Pipe

LEMMA OneWord ==
  ASSUME NEW s \in Seq(Words), NEW n \in 1..Len(s)
  PROVE  <<>> \o SubSeq(s, n, n) = <<s[n]>>
  <1>1. n \in Int /\ n <= n /\ n - n + 1 = 1 /\ \A i \in n..n : s[i] \in Words
    BY ElementOfSeq
  <1> DEFINE t == SubSeq(s, n, n) u == <<s[n]>>
  <1>2. t \in Seq(Words) /\ Len(t) = 1 /\ \A i \in 1..1 : t[i] = s[n + i - 1]
    BY <1>1, SubSeqProperties
  <1>3. n + 1 - 1 = n /\ 1 \in 1..1 /\ \A i \in 1..1 : i = 1
    BY <1>1
  <1>4. u \in Seq(Words) /\ Len(u) = 1 /\ u[1] = s[n]
    BY ElementOfSeq
  <1> HIDE DEF t, u
  <1>5. \A i \in 1..1 : t[i] = u[i]
    BY <1>2, <1>3, <1>4
  <1>6. t = u
    BY <1>2, <1>4, <1>5, SeqEqual
  <1>7. <<>> \o t = t
    BY <1>2, Glue
  <1> QED  BY <1>6, <1>7 DEF t, u

\* A client that is turned down has said all it means to say.
LEMMA TurnedDown ==
  ASSUME Control, Streams, NEW n \in (taken + 1)..sent, NEW buf,
         buf = inBuf \o SubSeq(script, taken + 1, n),
         \/ protocol.in = "socks5" /\ (SocksAuth(buf) \/ SocksRequest(buf))
         \/ protocol.in = "run" /\ RunAuth(buf),
         inState' # inState
  PROVE  n = Len(script) /\ context' # "transfer"
  <1>1. /\ script \in Seq(Words) /\ Len(script) \in Nat /\ script \in Scripts(protocol.in)
        /\ sent \in Nat /\ taken \in Nat /\ n \in Nat /\ taken < n /\ n <= sent
        /\ sent <= Len(script)
    BY ScriptFacts DEF Streams, Counted
  <1>2. \/ script = <<First(protocol.in), "request">> \o Data
        \/ script = <<First(protocol.in), "bad">>
        \/ script = <<"bad">>
    BY <1>1 DEF Scripts
  <1>3. /\ script # <<First(protocol.in), "request">> \o Data => Len(script) \in {1, 2}
        /\ script = <<First(protocol.in), "bad">> => Len(script) = 2 /\ script[1] = First(protocol.in)
        /\ script = <<"bad">> => Len(script) = 1
    BY <1>2
  <1>4. script = <<First(protocol.in), "request">> \o Data =>
          script[1] = First(protocol.in) /\ script[2] = "request"
    <2> DEFINE h == <<First(protocol.in), "request">>
    <2>1. h \in Seq(Words) /\ Len(h) = 2 /\ h[1] = First(protocol.in) /\ h[2] = "request"
      <3>1. First(protocol.in) \in Words /\ "request" \in Words
        BY DEF First, Words
      <3> QED  BY <3>1
    <2>2. 1 \in 1..2 /\ 2 \in 1..2
      OBVIOUS
    <2> HIDE DEF h
    <2>3. \A i \in 1..Len(h) : (h \o Data)[i] = h[i]
      BY <2>1, PieceFacts, Behind
    <2>4. (h \o Data)[1] = First(protocol.in) /\ (h \o Data)[2] = "request"
      BY <2>1, <2>2, <2>3
    <2> QED  BY <2>4 DEF h
  <1>5. CASE protocol.in = "socks5" /\ SocksAuth(buf)
    <2>1. context = "auth" /\ sent <= 1 /\ inBuf = <<>> /\ taken = 0 /\ n = 1
      BY <1>1, <1>5 DEF SocksAuth, Streams, Handshake, Socks
    <2>2. buf = <<script[1]>>
      BY <1>1, <2>1, OneWord
    <2>3. buf # <<"greeting">> /\ context' = "auth"
      BY <1>5, <2>1 DEF SocksAuth
    <2>4. script[1] # "greeting"
      BY <2>2, <2>3
    <2>5. First(protocol.in) = "greeting"
      BY <1>5 DEF First
    <2> QED  BY <1>2, <1>3, <1>4, <2>1, <2>3, <2>4, <2>5
  <1>6. CASE protocol.in = "socks5" /\ SocksRequest(buf)
    <2>1. context = "request" /\ sent <= 2 /\ inBuf = <<>> /\ taken = 1 /\ n = 2
      BY <1>1, <1>6 DEF SocksRequest, Streams, Handshake, Socks
    <2>2. buf = <<script[2]>>
      BY <1>1, <2>1, OneWord
    <2>3. buf # <<"request">> /\ context' = "request"
      BY <1>6, <2>1 DEF SocksRequest, StartClient
    <2>4. script[2] # "request"
      BY <2>2, <2>3
    <2>5. Len(script) = 2
      BY <1>1, <1>2, <1>3, <1>4, <2>1, <2>4
    <2> QED  BY <2>1, <2>3, <2>5
  <1>7. CASE protocol.in = "run" /\ RunAuth(buf)
    <2>1. /\ Len(script) >= 2 /\ script[1] = "part" /\ script[2] \in {"request", "bad"}
          /\ script[2] = "bad" => Len(script) = 2
      BY <1>1, <1>7, ScriptFacts
    <2>2. context = "auth" /\ inBuf = SubSeq(script, 1, taken)
      BY <1>1, <1>7 DEF RunAuth, Streams, Handshake, Run
    <2>3. buf = SubSeq(script, 1, n)
      <3>1. 1 \in 1..3 /\ taken \in (1 - 1)..Len(script) /\ n \in taken..Len(script)
        BY <1>1
      <3> QED  BY <1>1, <2>2, <3>1, Adjacent
    <2>4. Len(buf) = n /\ \A i \in 1..n : buf[i] = script[i]
      <3>1. 1 \in 1..3 /\ n \in 0..Len(script) /\ 1 <= n /\ (n - 1) + 1 = n
            /\ \A i \in 1..n : (i + 1) - 1 = i
        BY <1>1
      <3>2. /\ Len(SubSeq(script, 1, n)) = IF 1 <= n THEN (n - 1) + 1 ELSE 0
            /\ \A i \in 1..Len(SubSeq(script, 1, n)) :
                 SubSeq(script, 1, n)[i] = script[(i + 1) - 1]
        BY <1>1, <3>1, Part
      <3> QED  BY <2>3, <3>1, <3>2
    <2>5. buf[Len(buf)] # "part" /\ buf[2] # "request" /\ context' = "auth"
      BY <1>7, <2>2 DEF RunAuth, StartClient
    <2>6. n >= 2
      BY <1>1, <2>1, <2>4, <2>5
    <2>7. script[2] = "bad"
      BY <1>1, <2>1, <2>4, <2>5, <2>6
    <2>8. Len(script) = 2
      BY <2>1, <2>7
    <2>9. n = 2
      BY <1>1, <2>6, <2>8
    <2> QED  BY <2>5, <2>8, <2>9
  <1> QED  BY <1>5, <1>6, <1>7

LEMMA InitClosing == ChainInit => Closing
  BY DEF ChainInit, Init, Closing

LEMMA NextClosing ==
  ASSUME Control, Streams, Closing, [Next]_vars
  PROVE  Closing'
  <1> USE DEF client, in, connector, out, fixed
  <1>1. CASE InReceives
    <2>1. PICK n \in (taken + 1)..sent :
            /\ taken' = n
            /\ LET buf == inBuf \o SubSeq(script, taken + 1, n) IN
               \/ protocol.in = "socks5" /\ (SocksAuth(buf) \/ SocksRequest(buf))
               \/ protocol.in = "run" /\ RunAuth(buf)
               \/ Transfer(buf)
      BY <1>1 DEF InReceives
    <2>2. script' = script /\ taken < Len(script)
      BY <1>1, <2>1, ScriptFacts DEF InReceives, Streams, Counted
    <2> DEFINE buf == inBuf \o SubSeq(script, taken + 1, n)
    <2>3. CASE Transfer(buf)
      BY <2>2, <2>3 DEF Transfer, Closing
    <2>4. CASE \/ protocol.in = "socks5" /\ (SocksAuth(buf) \/ SocksRequest(buf))
               \/ protocol.in = "run" /\ RunAuth(buf)
      <3>1. CASE inState' # inState
        <4>1. n = Len(script) /\ context' # "transfer"
          BY <2>4, <3>1, TurnedDown
        <4> QED  BY <2>1, <2>2, <4>1 DEF Closing
      <3>2. CASE inState' = inState
        <4>1. inState # "disconnecting"
          <5>1. context # "transfer"
            BY <2>4 DEF SocksAuth, SocksRequest, RunAuth
          <5> QED  BY <2>2, <5>1, ScriptFacts DEF Closing, Streams, Counted
        <4> QED  BY <3>2, <4>1 DEF Closing
      <3> QED  BY <3>1, <3>2
    <2> QED  BY <2>1, <2>3, <2>4
  <1>2. CASE OutConnects
    <2>1. inState # "disconnecting" /\ inState' = inState
      BY <1>2 DEF OutConnects, Closing, Control, Pair
    <2> QED  BY <2>1 DEF Closing
  <1>3. CASE OutEnds
    <2>1. context' = "transfer" /\ outState' = "disconnected"
      BY <1>3 DEF OutEnds, OnConnectionDown, Control, Pair
    <2> QED  BY <2>1 DEF Closing
  <1>4. CASE \/ InConnects \/ InEnds \/ OutFails \/ RunReset \/ RunRetry \/ OutReceives
             \/ ClientSends \/ TargetComesUp \/ UNCHANGED vars
    BY <1>4 DEF InConnects, InEnds, OutFails, RunReset, RunRetry, OutReceives, ClientSends,
                TargetComesUp, vars, Closing
  <1> QED  BY <1>1, <1>2, <1>3, <1>4 DEF Next

\* What went in at the ends of the pipe and what came out, as ImplementsPipe has it.
SentUp == SubSeq(script, 3, sent)
GotUp == IF hops = 2 THEN farToOut ELSE Payload(toOut, protocol.out)
SentDown == SubSeq(Answers, 1, IF hops = 2 THEN farAnswers ELSE answers)
GotDown == SubSeq(toIn, Len(Replies) + 1, Len(toIn))
FarEnd == IF hops = 2 THEN farOutState ELSE outState

Fits ==
  /\ SentUp \in Seq(Words) /\ GotUp \in Seq(Words)
  /\ SentDown \in Seq(Words) /\ GotDown \in Seq(Words)
  /\ Starts(GotUp, SentUp) /\ Starts(GotDown, SentDown)

\* The state of a TcpEvent and the end of the pipe it is.
States == {"none", "connected", "disconnecting", "disconnected"}

LEMMA EndOfState ==
  ASSUME NEW s \in States
  PROVE  /\ EndOf(s) = "none" <=> s = "none"
         /\ EndOf(s) = "open" <=> s = "connected"
         /\ EndOf(s) = "closing" <=> s = "disconnecting"
         /\ EndOf(s) = "closed" <=> s = "disconnected"
         /\ EndOf(s) \in {"none", "open", "closing", "closed"}
  BY DEF EndOf, States

LEMMA HeaderFacts ==
  Header \in Seq(Words) /\ Len(Header) = 2 /\ Len(Header) + 1 = 3 /\ <<>> \in Seq(Words)
  BY DEF Header, Words

\* Of nothing, nothing follows.
LEMMA NothingFollows ==
  ASSUME NEW s \in Seq(Words), Len(s) <= 1
  PROVE  SubSeq(s, 3, Len(s)) = <<>>
  <1>1. Len(s) \in Nat /\ 3 > Len(s)
    OBVIOUS
  <1> QED  BY <1>1, SubSeqEmpty

LEMMA NothingStarts ==
  ASSUME NEW t \in Seq(Words)
  PROVE  Starts(<<>>, t)
  BY DEF Starts

\* What the first proxy sends, without its header, comes from the client.
LEMMA NearPassesOn ==
  ASSUME Control, Streams
  PROVE  /\ SentUp \in Seq(Words)
         /\ Payload(toOut, protocol.out) \in Seq(Words)
         /\ Starts(Payload(toOut, protocol.out), SentUp)
  <1>1. /\ script \in Seq(Words) /\ Len(script) \in Nat
        /\ sent \in 0..Len(script) /\ taken \in 0..sent /\ sent \in taken..Len(script)
        /\ taken \in 0..Len(script) /\ 3 \in 1..3
        /\ toOut \in Seq(Words) /\ inBuf \in Seq(Words)
    BY ScriptFacts DEF Streams, Counted
  <1> DEFINE d == SubSeq(script, 3, taken)
  <1>2. SentUp \in Seq(Words) /\ d \in Seq(Words) /\ Starts(d, SentUp)
    BY <1>1, StartsPart DEF SentUp
  <1>3. CASE toOut = <<>>
    <2>1. Payload(toOut, protocol.out) = <<>>
      <3>1. Len(toOut) <= 1
        BY <1>3
      <3>2. SubSeq(toOut, 3, Len(toOut)) = <<>>
        BY <1>1, <3>1, NothingFollows
      <3> QED  BY <1>3, <3>2, HeaderFacts DEF Payload
    <2> QED  BY <1>2, <2>1, HeaderFacts, NothingStarts
  <1>4. CASE toOut # <<>>
    <2>1. toOut \o inBuf = Prefix(toOut) \o d
      BY <1>4 DEF Streams, Handshake, Outward
    <2> HIDE DEF d
    <2>2. Starts(toOut, Prefix(toOut) \o d)
      BY <1>1, <2>1, StartsBehind
    <2>3. CASE protocol.out = "run"
      <3>1. Starts(toOut, Header \o d) /\ Header \o d \in Seq(Words)
        BY <1>2, <1>4, <2>2, <2>3, HeaderFacts, Behind DEF Prefix
      <3> DEFINE t == Header \o d
      <3>2. SubSeq(t, 3, Len(t)) = d
        <4>1. Len(Header) <= 2
          BY HeaderFacts
        <4>2. SubSeq(t, Len(Header) + 1, Len(t)) = d
          BY <1>2, <4>1, HeaderFacts, FromBehind
        <4> QED  BY <4>2, HeaderFacts
      <3> HIDE DEF t
      <3>3. SubSeq(toOut, 3, Len(toOut)) \in Seq(Words) /\ Starts(SubSeq(toOut, 3, Len(toOut)), d)
        <4>1. t \in Seq(Words) /\ Starts(toOut, t)
          BY <3>1 DEF t
        <4> QED  BY <1>1, <3>2, <4>1, StartsFrom
      <3>4. Payload(toOut, protocol.out) = SubSeq(toOut, 3, Len(toOut))
        BY <2>3, HeaderFacts DEF Payload
      <3> QED  BY <1>2, <3>3, <3>4, StartsTransitive
    <2>4. CASE protocol.out # "run"
      <3>1. Starts(toOut, d) /\ Payload(toOut, protocol.out) = toOut
        BY <1>2, <2>2, <2>4, Glue DEF Prefix, Payload
      <3> QED  BY <1>1, <1>2, <3>1, StartsTransitive
    <2> QED  BY <2>3, <2>4
  <1> QED  BY <1>3, <1>4

\* What the second proxy sends is what the first one sent it.
LEMMA FarPassesOn ==
  ASSUME ChainInv, hops = 2
  PROVE  farToOut \in Seq(Words) /\ Starts(farToOut, Payload(toOut, protocol.out))
  <1>1. Control /\ Streams /\ FarControl /\ FarStreams /\ Carried
    BY DEF ChainInv
  <1>2. /\ farScript \in Seq(Words) /\ Len(farScript) \in Nat
        /\ farSent \in 0..Len(farScript) /\ farTaken \in 0..farSent
        /\ farTaken \in 0..Len(farScript) /\ farSent \in farTaken..Len(farScript)
        /\ farToOut \in Seq(Words) /\ farInBuf \in Seq(Words)
        /\ toOut \in Seq(Words) /\ 3 \in 1..3
    BY <1>1, FarScriptFacts DEF FarStreams, FarCounted, Streams, Counted
  <1> DEFINE p == SubSeq(toOut, 3, Len(toOut))
  <1>3. Payload(toOut, protocol.out) = p /\ protocol.out = "run"
    BY <1>1, HeaderFacts DEF Payload, Carried
  <1>4. p \in Seq(Words)
    <2>1. Len(toOut) \in 0..Len(toOut)
      BY <1>2
    <2> QED  BY <1>2, <2>1, Part
  <1> HIDE DEF p
  <1>5. CASE farToOut = <<>>
    BY <1>3, <1>4, <1>5, HeaderFacts, NothingStarts
  <1>6. CASE farToOut # <<>>
    <2>1. /\ farTaken >= 2
          /\ farToOut \o farInBuf = SubSeq(farScript, 3, farTaken)
      BY <1>1, <1>6 DEF FarStreams, FarOutward, FarControl, FarTypes
    <2> DEFINE h == SubSeq(farScript, 1, 2)
               d == SubSeq(farScript, 3, farSent)
               u == SubSeq(farScript, 1, farSent)
    <2>2. d \in Seq(Words) /\ Starts(farToOut, d)
      <3> DEFINE c == SubSeq(farScript, 3, farTaken)
      <3>1. c \in Seq(Words) /\ d \in Seq(Words) /\ Starts(c, d)
        BY <1>2, StartsPart
      <3>2. Starts(farToOut, c)
        BY <1>2, <2>1, StartsBehind
      <3> HIDE DEF c, d
      <3> QED  BY <1>2, <3>1, <3>2, StartsTransitive
    <2>3. h \in Seq(Words) /\ Len(h) = 2 /\ u = h \o d
      <3>1. /\ 1 \in 1..3 /\ 2 \in (1 - 1)..Len(farScript) /\ farSent \in 2..Len(farScript)
            /\ 2 \in 0..Len(farScript) /\ 2 + 1 = 3 /\ (2 - 1) + 1 = 2 /\ 1 <= 2
        BY <1>2, <2>1
      <3>2. h \in Seq(Words) /\ u = h \o d
        BY <1>2, <3>1, Adjacent
      <3>3. Len(h) = 2
        BY <1>2, <3>1, Part
      <3> QED  BY <3>2, <3>3
    <2>4. Starts(u, toOut) /\ u \in Seq(Words)
      BY <1>1, LinkFits
    <2> HIDE DEF h, d, u
    <2>5. SubSeq(u, 3, Len(u)) = d
      <3>1. Len(h) + 1 = 3 /\ Len(h) <= 2
        BY <2>3
      <3>2. SubSeq(h \o d, Len(h) + 1, Len(h \o d)) = d
        BY <2>2, <2>3, <3>1, FromBehind
      <3> QED  BY <2>3, <3>1, <3>2
    <2>6. Starts(d, p)
      BY <1>2, <2>4, <2>5, StartsFrom DEF p
    <2> QED  BY <1>2, <1>3, <1>4, <2>2, <2>6, StartsTransitive
  <1> QED  BY <1>2, <1>5, <1>6

\* What the client gets behind its replies comes from the target.
LEMMA AnswersPassOn ==
  ASSUME Control, Streams
  PROVE  /\ SubSeq(Answers, 1, answers) \in Seq(Words) /\ GotDown \in Seq(Words)
         /\ Starts(GotDown, SubSeq(Answers, 1, answers))
  <1>1. /\ Answers \in Seq(Words) /\ Len(Answers) \in Nat /\ answers \in 0..Len(Answers)
        /\ toIn \in Seq(Words) /\ 1 \in 1..3
    BY PieceFacts DEF Streams, Counted
  <1>2. Replies \in Seq(Words) /\ Len(Replies) = (IF protocol.in = "socks5" THEN 2 ELSE 0)
        /\ Len(Replies) <= 2
    <2>1. /\ <<"method", "granted">> \in Seq(Words) /\ Len(<<"method", "granted">>) = 2
          /\ <<>> \in Seq(Words) /\ Len(<<>>) = 0
      BY DEF Words
    <2>2. \/ protocol.in = "socks5" /\ Replies = <<"method", "granted">>
          \/ protocol.in # "socks5" /\ Replies = <<>>
      BY DEF Replies
    <2>3. Replies \in Seq(Words) /\ Len(Replies) = IF protocol.in = "socks5" THEN 2 ELSE 0
      <3>1. CASE Replies = <<"method", "granted">> /\ protocol.in = "socks5"
        BY <2>1, <3>1
      <3>2. CASE Replies = <<>> /\ protocol.in # "socks5"
        BY <2>1, <3>2
      <3> QED  BY <2>2, <3>1, <3>2
    <2> QED  BY <2>3
  <1> DEFINE a == SubSeq(Answers, 1, answers)
  <1>3. a \in Seq(Words)
    BY <1>1, Part
  <1>4. CASE context = "transfer"
    <2>1. PICK k \in 0..answers : Got(k)
      BY <1>4 DEF Streams, Inward
    <2> DEFINE c == SubSeq(Answers, 1, k)
    <2>2. c \in Seq(Words) /\ Starts(c, a)
      <3>1. k \in 0..Len(Answers) /\ answers \in k..Len(Answers)
        BY <1>1
      <3> QED  BY <1>1, <3>1, StartsPart
    <2>3. toIn = Replies \o c
      BY <2>1 DEF Got
    <2> HIDE DEF a, c
    <2>4. GotDown = c
      BY <1>2, <2>2, <2>3, FromBehind DEF GotDown
    <2> QED  BY <1>3, <2>2, <2>4 DEF a
  <1>5. CASE context # "transfer"
    <2>1. \/ protocol.in = "socks5" /\ toIn \in {<<>>, <<"method">>}
          \/ protocol.in # "socks5" /\ toIn = <<>>
      BY <1>5 DEF Streams, Handshake, Socks, Run, Control, Types
    <2>2. Len(toIn) <= 1 /\ (protocol.in # "socks5" => Len(toIn) = 0)
      <3>1. Len(<<"method">>) = 1 /\ Len(<<>>) = 0
        OBVIOUS
      <3>2. CASE toIn = <<>>
        BY <3>1, <3>2
      <3>3. CASE toIn = <<"method">> /\ protocol.in = "socks5"
        BY <3>1, <3>3
      <3> QED  BY <2>1, <3>2, <3>3
    <2>3. GotDown = <<>>
      <3>1. CASE protocol.in = "socks5"
        <4>1. Len(Replies) + 1 = 3
          BY <1>2, <3>1
        <4> QED  BY <1>1, <2>2, <4>1, NothingFollows DEF GotDown
      <3>2. CASE protocol.in # "socks5"
        <4>1. Len(Replies) + 1 = 1 /\ Len(toIn) = 0
          BY <1>2, <2>2, <3>2
        <4> QED  BY <4>1, SubSeqEmpty DEF GotDown
      <3> QED  BY <3>1, <3>2
    <2> HIDE DEF a
    <2> QED  BY <1>3, <2>3, HeaderFacts, NothingStarts DEF a
  <1> QED  BY <1>4, <1>5

LEMMA AlwaysFits == ChainInv => Fits
  <1> SUFFICES ASSUME ChainInv PROVE Fits
    OBVIOUS
  <1>1. Control /\ Streams /\ FarControl /\ FarStreams /\ Carried
    BY DEF ChainInv
  <1>2. /\ SentUp \in Seq(Words) /\ Payload(toOut, protocol.out) \in Seq(Words)
        /\ Starts(Payload(toOut, protocol.out), SentUp)
        /\ SubSeq(Answers, 1, answers) \in Seq(Words) /\ GotDown \in Seq(Words)
        /\ Starts(GotDown, SubSeq(Answers, 1, answers))
    BY <1>1, NearPassesOn, AnswersPassOn
  <1>3. CASE hops = 2
    <2>1. farToOut \in Seq(Words) /\ Starts(farToOut, SentUp)
      BY <1>2, <1>3, FarPassesOn, StartsTransitive
    <2>2. SubSeq(Answers, 1, farAnswers) \in Seq(Words)
          /\ Starts(GotDown, SubSeq(Answers, 1, farAnswers))
      <3>1. answers <= farAnswers
        BY <1>1, <1>3, LinkFits
      <3>2. /\ Answers \in Seq(Words) /\ 1 \in 1..3
            /\ answers \in 0..Len(Answers) /\ farAnswers \in answers..Len(Answers)
        BY <1>1, <3>1, PieceFacts DEF FarStreams, FarCounted, Streams, Counted
      <3> QED  BY <1>2, <3>2, StartsPart, StartsTransitive
    <2> QED  BY <1>2, <1>3, <2>1, <2>2 DEF Fits, GotUp, SentDown
  <1>4. CASE hops # 2
    BY <1>2, <1>4 DEF Fits, GotUp, SentDown
  <1> QED  BY <1>3, <1>4

\* Data only moves on, and only through ends that are there.
LEMMA ChainCarries ==
  ASSUME ChainInv, ChainInv', [ChainNext]_allVars
  PROVE  Promised!Carries
  <1>1. /\ Control /\ Streams /\ FarControl /\ FarStreams
        /\ Control' /\ Streams' /\ FarControl' /\ FarStreams'
    BY DEF ChainInv
  <1>2. NearGrows /\ FarGrows /\ hops' = hops
    BY <1>1, HopSteps, NextNearGrows, NextFarStreams
       DEF ChainNext, NearStep, FarStep, LinkBreaks, allVars, between
  <1>3. Fits /\ Fits'
    BY AlwaysFits, PTL
  <1>4. /\ script \in Seq(Words) /\ Len(script) \in Nat /\ 3 \in 1..3 /\ 1 \in 1..3
        /\ script' = script /\ sent \in 0..Len(script) /\ sent' \in sent..Len(script)
        /\ toOut \in Seq(Words) /\ toOut' \in Seq(Words)
        /\ toIn \in Seq(Words) /\ toIn' \in Seq(Words)
        /\ Starts(toOut, toOut') /\ Starts(toIn, toIn')
        /\ protocol' = protocol
    <2>1. script \in Seq(Words) /\ Len(script) \in Nat
      BY <1>1, ScriptFacts DEF Streams, Counted
    <2>2. script' = script /\ sent <= sent'
      BY <1>2 DEF NearGrows
    <2>3. sent \in 0..Len(script) /\ sent' \in 0..Len(script)
      BY <1>1, <2>2 DEF Streams, Counted
    <2>4. sent' \in sent..Len(script)
      BY <2>1, <2>2, <2>3
    <2> QED  BY <1>1, <1>2, <2>1, <2>2, <2>3, <2>4 DEF Streams, Counted, NearGrows
  <1>5. Starts(SentUp, SentUp')
    BY <1>4, StartsPart DEF SentUp
  <1>6. Starts(SentDown, SentDown')
    <2> DEFINE read == IF hops = 2 THEN farAnswers ELSE answers
    <2>1. answers \in 0..Len(Answers) /\ answers' \in 0..Len(Answers)
          /\ farAnswers \in 0..Len(Answers) /\ farAnswers' \in 0..Len(Answers)
          /\ Answers \in Seq(Words) /\ Len(Answers) \in Nat
      BY <1>1, PieceFacts DEF Streams, Counted, FarStreams, FarCounted
    <2>2. answers <= answers' /\ farAnswers <= farAnswers'
      BY <1>2, <2>1 DEF NearGrows, FarGrows, OutReceives
    <2>3. read \in 0..Len(Answers) /\ read' \in read..Len(Answers)
      BY <1>2, <2>1, <2>2
    <2> QED  BY <1>4, <2>1, <2>3, StartsPart DEF SentDown
  <1>7. Starts(GotUp, GotUp') /\ (GotUp' # GotUp => FarEnd' = "connected")
    <2>1. CASE hops = 2
      BY <1>2, <2>1 DEF GotUp, FarEnd, FarGrows
    <2>2. CASE hops # 2
      <3>1. GotUp = Payload(toOut, protocol.out) /\ GotUp' = Payload(toOut', protocol.out)
            /\ FarEnd' = outState'
        BY <1>2, <1>4, <2>2 DEF GotUp, FarEnd
      <3>2. Starts(Payload(toOut, protocol.out), Payload(toOut', protocol.out))
        BY <1>4, HeaderFacts, StartsFrom DEF Payload
      <3> QED  BY <1>2, <3>1, <3>2 DEF NearGrows
    <2> QED  BY <2>1, <2>2
  <1>8. /\ Starts(GotDown, GotDown')
        /\ GotDown' # GotDown => inState' \in {"connected", "disconnecting"}
    <2> DEFINE m == Len(Replies) + 1
    <2>1. m \in 1..3 /\ Replies' = Replies
      <3>1. Len(Replies) \in {0, 2}
        BY DEF Replies
      <3> QED  BY <1>4, <3>1 DEF Replies
    <2>2. /\ GotDown = SubSeq(toIn, m, Len(toIn))
          /\ GotDown' = SubSeq(toIn', m, Len(toIn'))
      BY <2>1 DEF GotDown
    <2> HIDE DEF m
    <2>3. Starts(GotDown, GotDown')
      BY <1>4, <2>1, <2>2, StartsFrom
    <2> QED  BY <1>2, <2>2, <2>3 DEF NearGrows
  <1>9. /\ Promised!IsPrefix(SentUp, SentUp') /\ Promised!IsPrefix(SentDown, SentDown')
        /\ Promised!IsPrefix(GotUp, GotUp') /\ Promised!IsPrefix(GotUp', SentUp')
        /\ Promised!IsPrefix(GotDown, GotDown') /\ Promised!IsPrefix(GotDown', SentDown')
    BY <1>3, <1>5, <1>6, <1>7, <1>8, StartsIsPrefix DEF Fits
  <1>10. /\ GotUp' # GotUp => EndOf(FarEnd') \in {"open", "closing"}
         /\ GotDown' # GotDown => EndOf(inState') \in {"open", "closing"}
    BY <1>7, <1>8 DEF EndOf
  <1> QED
    BY <1>9, <1>10
       DEF Promised!Carries, Promised!There, SentUp, SentDown, GotUp, GotDown, FarEnd

----------------------------------------------------------------------------
\* The ends move as a pipe's do.

Moves ==
  \/ EndOf(inState') = EndOf(inState) /\ EndOf(FarEnd') = EndOf(FarEnd)
  \/ Promised!NearOpens \/ Promised!FarOpens \/ Promised!NearTurnedDown
  \/ Promised!NearLeaves \/ Promised!FarLeaves
  \/ Promised!NearIsCut \/ Promised!FarIsCut

\* A step of the client's side.
LEMMA NearMoves ==
  ASSUME Control, Control', Streams, Closing, FarControl, FarControl', NearStep
  PROVE  Moves
  <1> USE DEF client, in, connector, out, fixed
  <1>1. /\ inState \in States /\ inState' \in States
        /\ FarEnd \in States /\ FarEnd' \in States
        /\ outState \in States /\ outState' \in States
    BY DEF States, FarEnd, Control, Types, FarControl, FarTypes
  <1>2. hops' = hops /\ farOutState' = farOutState
    BY DEF NearStep, farVars, between
  <1>3. /\ hops = 2 => FarEnd' = FarEnd
        /\ hops # 2 => FarEnd = outState /\ FarEnd' = outState'
    BY <1>2 DEF FarEnd
  <1>4. (inState' = inState /\ (hops # 2 => outState' = outState)) => Moves
    BY <1>3 DEF Moves
  <1>5. CASE InConnects
    <2>1. inState = "none" /\ inState' = "connected" /\ FarEnd' = FarEnd
      BY <1>3, <1>5 DEF InConnects
    <2>2. Promised!NearOpens
      BY <1>1, <2>1, EndOfState DEF Promised!NearOpens, FarEnd
    <2> QED  BY <2>2 DEF Moves
  <1>6. CASE InReceives
    <2>1. PICK n \in (taken + 1)..sent :
            LET buf == inBuf \o SubSeq(script, taken + 1, n) IN
            SocksAuth(buf) \/ SocksRequest(buf) \/ RunAuth(buf) \/ Transfer(buf)
      BY <1>6 DEF InReceives
    <2>2. /\ outState' = outState
          /\ \/ inState' = inState
             \/ /\ inState = "connected" /\ inState' = "disconnecting"
                /\ outState = "none"
      BY <2>1 DEF SocksAuth, SocksRequest, RunAuth, Transfer, StartClient, ShutDownIn,
                  Control, Pair
    <2>3. CASE inState' = inState
      BY <1>4, <2>2, <2>3
    <2>4. CASE inState' # inState
      <3>1. /\ EndOf(inState) = "open" /\ EndOf(inState') = "closing" /\ FarEnd' = FarEnd
            /\ hops # 2 => EndOf(FarEnd) = "none"
        BY <1>1, <1>3, <2>2, <2>4, EndOfState
      <3>2. Promised!NearTurnedDown \/ Promised!NearIsCut
        BY <3>1 DEF Promised!NearTurnedDown, Promised!NearIsCut, FarEnd
      <3> QED  BY <3>2 DEF Moves
    <2> QED  BY <2>3, <2>4
  <1>7. CASE InEnds
    <2>1. /\ inState \in {"connected", "disconnecting"} /\ inState' = "disconnected"
          /\ \/ outState = "connected" /\ outState' = "disconnected"
             \/ outState # "connected" /\ outState' = outState
      BY <1>7 DEF InEnds, DisConnected, OnConnectionDown, Control, Pair, Present
    <2>2. /\ EndOf(inState) \in {"open", "closing"} /\ EndOf(inState') = "closed"
          /\ \/ EndOf(FarEnd) = "open" /\ EndOf(FarEnd') = "closed"
             \/ (EndOf(FarEnd) # "open" \/ hops = 2) /\ EndOf(FarEnd') = EndOf(FarEnd)
      BY <1>1, <1>3, <2>1, EndOfState
    <2>3. Promised!NearLeaves
      BY <2>2 DEF Promised!NearLeaves, Promised!There, FarEnd
    <2> QED  BY <2>3 DEF Moves
  <1>8. CASE OutConnects
    <2>1. /\ inState = "connected" /\ inState' = inState
          /\ outState = "none" /\ outState' = "connected"
      BY <1>8 DEF OutConnects, OnConnectionUp, Closing, Control, Types, Pair, Present
    <2>2. CASE hops = 2
      BY <1>4, <2>1, <2>2
    <2>3. CASE hops # 2
      <3>1. /\ EndOf(inState) = "open" /\ EndOf(inState') = EndOf(inState)
            /\ EndOf(FarEnd) = "none" /\ EndOf(FarEnd') = "open"
        BY <1>1, <1>3, <2>1, <2>3, EndOfState
      <3>2. Promised!FarOpens
        BY <3>1 DEF Promised!FarOpens, FarEnd
      <3> QED  BY <3>2 DEF Moves
    <2> QED  BY <2>2, <2>3
  <1>9. CASE OutEnds
    <2>1. /\ outState = "connected" /\ outState' = "disconnected"
          /\ \/ inState = "connected" /\ inState' = "disconnecting"
             \/ inState # "connected" /\ inState' = inState
      BY <1>9 DEF OutEnds, OnConnectionDown, ShutDownIn, Control, Pair, Present
    <2>2. CASE hops = 2
      <3>1. CASE inState' = inState
        BY <1>4, <2>2, <3>1
      <3>2. CASE inState' # inState
        <4>1. EndOf(inState) = "open" /\ EndOf(inState') = "closing" /\ FarEnd' = FarEnd
          BY <1>1, <1>3, <2>1, <2>2, <3>2, EndOfState
        <4>2. Promised!NearIsCut
          BY <2>2, <4>1 DEF Promised!NearIsCut, FarEnd
        <4> QED  BY <4>2 DEF Moves
      <3> QED  BY <3>1, <3>2
    <2>3. CASE hops # 2
      <3>1. /\ EndOf(FarEnd) = "open" /\ EndOf(FarEnd') = "closed"
            /\ \/ EndOf(inState) = "open" /\ EndOf(inState') = "closing"
               \/ EndOf(inState) # "open" /\ EndOf(inState') = EndOf(inState)
        BY <1>1, <1>3, <2>1, <2>3, EndOfState
      <3>2. Promised!FarLeaves
        BY <3>1 DEF Promised!FarLeaves, Promised!There, FarEnd
      <3> QED  BY <3>2 DEF Moves
    <2> QED  BY <2>2, <2>3
  <1>10. CASE OutFails \/ RunReset \/ RunRetry \/ OutReceives \/ ClientSends \/ TargetComesUp
    <2>1. inState' = inState /\ outState' = outState
      BY <1>10 DEF OutFails, RunReset, RunRetry, OutReceives, ClientSends, TargetComesUp
    <2> QED  BY <1>4, <2>1
  <1> QED
    BY <1>5, <1>6, <1>7, <1>8, <1>9, <1>10 DEF NearStep, HopReceives, HopEnds

\* A step of the target's side, where there is a second proxy.
LEMMA FarMoves ==
  ASSUME Control, FarControl, FarControl', Carried, FarStep
  PROVE  Moves
  <1> USE DEF Far!client, Far!in, Far!connector, Far!out, Far!fixed
  <1>1. /\ inState \in States /\ inState' = inState /\ hops = 2 /\ hops' = hops
        /\ FarEnd = farOutState /\ FarEnd' = farOutState'
        /\ FarEnd \in States /\ FarEnd' \in States
    BY DEF States, FarEnd, FarStep, vars, in, between, Control, Types, FarControl, FarTypes
  <1>2. farOutState' = farOutState => Moves
    BY <1>1 DEF Moves
  <1>3. CASE Far!InEnds
    <2>1. \/ farOutState = "connected" /\ farOutState' = "disconnected"
          \/ farOutState' = farOutState
      BY <1>3 DEF Far!InEnds, Far!DisConnected, Far!OnConnectionDown, FarControl, FarPair
    <2>2. CASE farOutState' # farOutState
      <3>1. /\ EndOf(FarEnd) = "open" /\ EndOf(FarEnd') = "closed"
            /\ EndOf(inState') = EndOf(inState)
        BY <1>1, <2>1, <2>2, EndOfState
      <3>2. Promised!FarIsCut
        BY <1>1, <3>1 DEF Promised!FarIsCut, FarEnd
      <3> QED  BY <3>2 DEF Moves
    <2> QED  BY <1>2, <2>2
  <1>4. CASE Far!OutConnects
    <2>1. farOutState = "none" /\ farOutState' = "connected" /\ farInState # "none"
      BY <1>4 DEF Far!OutConnects, Far!OnConnectionUp, FarControl, FarPair, Far!Present
    <2>2. inState # "none"
      BY <1>1, <2>1 DEF Carried, Control, Pair
    <2>3. /\ EndOf(FarEnd) = "none" /\ EndOf(FarEnd') = "open"
          /\ EndOf(inState) # "none" /\ EndOf(inState') = EndOf(inState)
      BY <1>1, <2>1, <2>2, EndOfState
    <2>4. Promised!FarOpens
      BY <1>1, <2>3 DEF Promised!FarOpens, FarEnd
    <2> QED  BY <2>4 DEF Moves
  <1>5. CASE Far!OutEnds
    <2>1. farOutState = "connected" /\ farOutState' = "disconnected"
      BY <1>5 DEF Far!OutEnds, Far!OnConnectionDown
    <2>2. /\ EndOf(FarEnd) = "open" /\ EndOf(FarEnd') = "closed"
          /\ EndOf(inState') = EndOf(inState)
      BY <1>1, <2>1, EndOfState
    <2>3. Promised!FarLeaves
      BY <1>1, <2>2 DEF Promised!FarLeaves, Promised!There, FarEnd
    <2> QED  BY <2>3 DEF Moves
  <1>6. CASE Far!InReceives
    <2>1. PICK n \in (farTaken + 1)..farSent :
            LET buf == farInBuf \o SubSeq(farScript, farTaken + 1, n) IN
            \/ Far!SocksAuth(buf) \/ Far!SocksRequest(buf)
            \/ Far!RunAuth(buf) \/ Far!Transfer(buf)
      BY <1>6 DEF Far!InReceives
    <2>2. farOutState' = farOutState
      BY <2>1 DEF Far!SocksAuth, Far!SocksRequest, Far!RunAuth, Far!Transfer, Far!StartClient
    <2> QED  BY <1>2, <2>2
  <1>7. CASE \/ Far!InConnects \/ Far!OutFails \/ Far!RunReset \/ Far!RunRetry
             \/ Far!OutReceives \/ Far!ClientSends \/ Far!TargetComesUp
    <2>1. farOutState' = farOutState
      BY <1>7 DEF Far!InConnects, Far!OutFails, Far!RunReset, Far!RunRetry, Far!OutReceives,
                  Far!ClientSends, Far!TargetComesUp
    <2> QED  BY <1>2, <2>1
  <1> QED
    BY <1>3, <1>4, <1>5, <1>6, <1>7 DEF FarStep, FirstLeaves, Arrives

\* Whatever the clients, the targets and the connection between do, and wherever
\* the streams are cut, a proxy is a pipe between its client and the target, and
\* two in a row are one (ImplementsPipe).
THEOREM Refinement == ChainSpec => ImplementsPipe
  <1>1. ChainInit => Promised!Init
    <2> SUFFICES ASSUME ChainInit PROVE Promised!Init
      OBVIOUS
    <2>1. /\ inState = "none" /\ FarEnd = "none" /\ sent = 0 /\ toOut = <<>> /\ toIn = <<>>
          /\ farToOut = <<>> /\ answers = 0 /\ farAnswers = 0
      BY DEF ChainInit, Init, Far!Init, FarEnd
    <2>2. EndOf(inState) = "none" /\ EndOf(FarEnd) = "none"
      BY <2>1 DEF EndOf
    <2>3. SentUp = <<>> /\ SentDown = <<>>
      <3>1. SubSeq(script, 3, 0) = <<>> /\ SubSeq(Answers, 1, 0) = <<>>
        BY SubSeqEmpty
      <3> QED  BY <2>1, <3>1 DEF SentUp, SentDown
    <2>4. GotUp = <<>> /\ GotDown = <<>>
      <3>1. ChainInv
        BY InitChain
      <3>2. Starts(GotUp, SentUp) /\ Starts(GotDown, SentDown)
            /\ GotUp \in Seq(Words) /\ GotDown \in Seq(Words)
        BY <3>1, AlwaysFits DEF Fits
      <3>3. Len(GotUp) = 0 /\ Len(GotDown) = 0
        <4>1. Len(GotUp) \in Nat /\ Len(GotDown) \in Nat /\ Len(<<>>) = 0
          BY <3>2
        <4> QED  BY <2>3, <3>2, <4>1 DEF Starts
      <3> QED  BY <3>2, <3>3, EmptySeq
    <2> QED  BY <2>2, <2>3, <2>4 DEF Promised!Init, SentUp, SentDown, GotUp, GotDown, FarEnd
  <1>2. ChainInv /\ ChainInv' /\ Closing /\ [ChainNext]_allVars
          => [Promised!Next]_(Promised!vars)
    <2> SUFFICES ASSUME ChainInv, ChainInv', Closing, [ChainNext]_allVars
                 PROVE  Promised!Next
      OBVIOUS
    <2>1. Promised!Carries
      BY ChainCarries
    <2>2. Moves
      <3>1. CASE NearStep
        BY <3>1, NearMoves DEF ChainInv
      <3>2. CASE FarStep
        BY <3>2, FarMoves DEF ChainInv
      <3>3. CASE LinkBreaks \/ UNCHANGED allVars
        BY <3>3 DEF LinkBreaks, allVars, vars, farVars, in, out, Far!out, between, Moves, FarEnd
      <3> QED  BY <3>1, <3>2, <3>3 DEF ChainNext
    <2>3. hops' = hops
      BY DEF ChainNext, NearStep, FarStep, LinkBreaks, allVars, between
    <2> QED  BY <2>1, <2>2, <2>3 DEF Promised!Next, Moves, FarEnd
  <1>3. ChainInv /\ Closing /\ [ChainNext]_allVars => Closing'
    BY HopSteps, NextClosing DEF ChainInv
  <1> QED
    BY <1>1, <1>2, <1>3, InitClosing, InitChain, NextChain, PTL
       DEF ImplementsPipe, Promised!Spec, ChainSpec
====
