---- MODULE Proxy ----
(***************************************************************************)
(* One client of the proxy (examples/mrproxy): the connection it made, its *)
(* "in", and the connection the proxy makes for it, its "out".  An in      *)
(* handler (SocksIn, RunIn) takes the request and creates an out handler   *)
(* (RunOut, FreeDom) with a TcpClient of its own; from then on each passes *)
(* on what the other receives, and when one goes down so does the other.   *)
(*                                                                         *)
(* Each event the loop delivers is one action, with all the calls between  *)
(* the two handlers that it leads to: nobody else is called back in them.  *)
(***************************************************************************)
EXTENDS Integers, SequencesExt

CONSTANTS
  InProtocols,    \* what an "in" of the configuration may be
  OutProtocols,   \* what its "out" may be
  Data,           \* the pieces of data the client has for the target
  Answers,        \* the pieces of data the target has for the client
  LeaveWhenever   \* may the client leave while the attempt's event exists?

Pieces == ToSet(Data) \cup ToSet(Answers)

ASSUME ProtocolAssumption ==
  InProtocols \subseteq {"socks5", "run"} /\ OutProtocols \subseteq {"run", "freedom"}
ASSUME PieceAssumption ==
  /\ Data \in Seq(Pieces) /\ Answers \in Seq(Pieces)
  /\ IsInjective(Data \o Answers)
  /\ Pieces \cap {"greeting", "part", "request", "bad", "method", "granted"} = {}
ASSUME LeaveAssumption == LeaveWhenever \in BOOLEAN

VARIABLES
  protocol,    \* global_json: the protocols of in and out
  script,      \* all that the client means to send
  sent,        \* how much of it was sent
  taken,       \* how much of that in has read
  answers,     \* how many pieces out has read
  targetUp,    \* does the target accept connections (for good)?
  inState,     \* TcpEvent::state_ of in; "none" before it is accepted
  context,     \* TcpEvent::context_ of in
  inBuf,       \* what the input buffer of in holds
  mapped,      \* is the name of in in in_conn_map_ and out_conn_map_?
  handler,     \* is there an out handler under that name?
  callbacks,   \* do the callbacks of client_ hold the out handler?
  attempt,     \* the Connector of client_
  spent,       \* is its event_ unregistered but not yet destroyed?
  outState,    \* TcpEvent::state_ of out
  self,        \* is self_ set?
  header,      \* RunOut::state_: is there still a header to send?
  toOut,       \* what Send took for the target
  toIn         \* what Send took for the client

client == <<script, sent>>
in == <<inState, context, inBuf, mapped>>
connector == <<attempt, spent>>
out == <<callbacks, outState, self, header>>
fixed == <<protocol, targetUp>>
vars == <<client, taken, answers, in, handler, connector, out, toOut, toIn, fixed>>

\* A greeting or the first part of a request, the rest of the request or one
\* the proxy turns down, and the data.
First(p) == IF p = "socks5" THEN "greeting" ELSE "part"
Scripts(p) ==
  {<<First(p), "request">> \o Data, <<First(p), "bad">>}
    \cup IF p = "socks5" THEN {<<"bad">>} ELSE {}

\* InCreate and OutCreate look at the protocol of the configuration.
Init ==
  /\ protocol \in [in : InProtocols, out : OutProtocols]
  /\ script \in Scripts(protocol.in)
  /\ sent = 0 /\ taken = 0 /\ answers = 0 /\ targetUp \in BOOLEAN
  /\ inState = "none" /\ context = "auth" /\ inBuf = <<>> /\ mapped = FALSE
  /\ handler = FALSE /\ callbacks = FALSE /\ attempt = "idle" /\ spent = FALSE
  /\ outState = "none" /\ self = FALSE
  /\ header = (protocol.out = "run")
  /\ toOut = <<>> /\ toIn = <<>>

----------------------------------------------------------------------------
\* The out handler

\* Connector::Start: an attempt, a retry to come, or an errno that ends it.
ConnectorStart ==
  attempt' \in IF targetUp THEN {"connecting"} ELSE {"connecting", "waiting", "gaveUp"}

\* The callbacks of client_ hold the handler that owns client_.
StartClient ==
  /\ handler' = TRUE
  /\ callbacks' = TRUE
  /\ ConnectorStart
  /\ UNCHANGED <<spent, outState, self, header, toOut>>

\* What RunOut writes is what RunIn reads.
Header == <<"part", "request">>

\* Mutant: RunOut does not remember that the header was sent.
ProcessHeaderAgain(buf, connected) ==
  IF connected /\ mapped /\ buf # <<>>
  THEN /\ toOut' = toOut \o (IF header THEN Header ELSE <<>>) \o buf
       /\ inBuf' = <<>>
       /\ UNCHANGED header
  ELSE /\ inBuf' = buf
       /\ UNCHANGED <<toOut, header>>

\* Process: Send refreshes the input buffer of in.  The header goes in front
\* of the first data.  Without a connection the data waits where it is.
Process(buf, connected) ==
  IF connected /\ mapped /\ buf # <<>>
  THEN /\ toOut' = toOut \o (IF header THEN Header ELSE <<>>) \o buf
       /\ inBuf' = <<>>
       /\ header' = FALSE
  ELSE /\ inBuf' = buf
       /\ UNCHANGED <<toOut, header>>

\* Mutant: what came before the connection is not passed on.
ConnectedOnly ==
  /\ outState' = "connected" /\ self' = TRUE
  /\ UNCHANGED <<inBuf, toOut, header>>

\* on_connection, up: what in has read meanwhile is passed on.
OnConnectionUp ==
  /\ outState' = "connected" /\ self' = TRUE
  /\ Process(inBuf, TRUE)

\* Mutant: in is left alone.
ShutDownNothing == UNCHANGED inState

\* TcpEvent::ShutDown of in.
ShutDownIn ==
  inState' = IF mapped /\ inState = "connected" THEN "disconnecting" ELSE inState

\* on_connection, down: the cycle of references is broken and in half closed,
\* if it is not what went down first.
OnConnectionDown ==
  /\ outState' = "disconnected" /\ self' = FALSE
  /\ callbacks' = FALSE
  /\ UNCHANGED header

\* Mutant: out stays as it is.
DisConnectedLazily ==
  IF self
  THEN UNCHANGED <<connector, out>>
  ELSE /\ callbacks' = FALSE
       /\ attempt' = "stopped"
       /\ spent' = (spent \/ attempt = "connecting")
       /\ UNCHANGED <<outState, self, header>>

\* Mutant: the attempts go on without the client.
DisConnectedUnstopped ==
  IF self
  THEN OnConnectionDown /\ UNCHANGED connector
  ELSE /\ callbacks' = FALSE
       /\ UNCHANGED <<connector, outState, self, header>>

\* DisConnected: ForceClose, or Connector::Stop.
DisConnected ==
  IF self
  THEN OnConnectionDown /\ UNCHANGED connector
  ELSE /\ callbacks' = FALSE
       /\ attempt' = "stopped"
       /\ spent' = (spent \/ attempt = "connecting")
       /\ UNCHANGED <<outState, self, header>>

----------------------------------------------------------------------------
\* The in handler receives

SocksAuth(buf) ==
  /\ context = "auth"
  /\ IF buf = <<"greeting">>
     THEN /\ toIn' = toIn \o <<"method">>
          /\ context' = "request"
          /\ UNCHANGED inState
     ELSE ShutDownIn /\ UNCHANGED <<toIn, context>>
  /\ inBuf' = <<>>
  /\ UNCHANGED <<handler, connector, out, toOut>>

\* The client is told that its request was granted before anything is tried.
SocksRequest(buf) ==
  /\ context = "request"
  /\ inBuf' = <<>>
  /\ IF buf = <<"request">>
     THEN /\ toIn' = toIn \o <<"granted">>
          /\ StartClient
          /\ context' = "transfer"
          /\ UNCHANGED inState
     ELSE ShutDownIn /\ UNCHANGED <<toIn, context, handler, connector, out, toOut>>

\* Mutant: what follows the request is thrown away with it.
RunAuthForgets(buf) ==
  /\ context = "auth"
  /\ IF buf[Len(buf)] = "part"
     THEN inBuf' = buf /\ UNCHANGED <<inState, context, handler, connector, out, toOut>>
     ELSE /\ inBuf' = <<>>
          /\ IF buf[2] = "request"
             THEN StartClient /\ context' = "transfer" /\ UNCHANGED inState
             ELSE ShutDownIn /\ UNCHANGED <<context, handler, connector, out, toOut>>
  /\ UNCHANGED toIn

\* Without a CRLF the rest of the request is awaited; what follows it stays.
RunAuth(buf) ==
  /\ context = "auth"
  /\ IF buf[Len(buf)] = "part"
     THEN inBuf' = buf /\ UNCHANGED <<inState, context, handler, connector, out, toOut>>
     ELSE /\ inBuf' = SubSeq(buf, 3, Len(buf))
          /\ IF buf[2] = "request"
             THEN StartClient /\ context' = "transfer" /\ UNCHANGED inState
             ELSE ShutDownIn /\ UNCHANGED <<context, handler, connector, out, toOut>>
  /\ UNCHANGED toIn

Transfer(buf) ==
  /\ context = "transfer"
  /\ Process(buf, self)
  /\ UNCHANGED <<inState, context, handler, connector, callbacks, outState, self, toIn>>

----------------------------------------------------------------------------
\* The events

InConnects ==
  /\ inState = "none"
  /\ inState' = "connected" /\ mapped' = TRUE
  /\ context' = "auth"
  /\ UNCHANGED <<client, taken, answers, inBuf, handler, connector, out, toOut, toIn, fixed>>

\* One read may bring several of the client's pieces.
InReceives ==
  /\ inState \in {"connected", "disconnecting"}
  /\ \E n \in (taken + 1)..sent :
       LET buf == inBuf \o SubSeq(script, taken + 1, n) IN
       /\ taken' = n
       /\ \/ protocol.in = "socks5" /\ (SocksAuth(buf) \/ SocksRequest(buf))
          \/ protocol.in = "run" /\ RunAuth(buf)
          \/ Transfer(buf)
  /\ UNCHANGED <<client, answers, mapped, fixed>>

\* Stop, called by DisConnected or by ~TcpClient, asserts that the event of
\* the attempt is gone; see StopAsserts of Connector.
StopAsserts == attempt # "connecting" /\ ~spent
MayLeave == LeaveWhenever \/ StopAsserts

\* The client closes or resets its connection: out goes first, then the maps
\* give up both.
InEnds ==
  /\ inState \in {"connected", "disconnecting"}
  /\ MayLeave
  /\ inState' = "disconnected" /\ mapped' = FALSE /\ handler' = FALSE
  /\ IF handler THEN DisConnected ELSE UNCHANGED <<connector, out>>
  /\ UNCHANGED <<client, taken, answers, context, inBuf, toOut, toIn, fixed>>

\* Connector::OnConnect, for better or worse; a timer destroys its event,
\* after this round or a later one.
OutConnects ==
  /\ attempt = "connecting"
  /\ attempt' = "connected" /\ spent' = TRUE
  /\ OnConnectionUp
  /\ UNCHANGED <<client, taken, answers, inState, context, mapped, handler,
                 callbacks, toIn, fixed>>

\* Mutant: a failed attempt was the last.
NoRetry == "stopped"

AfterFailure == "waiting"

OutFails ==
  /\ attempt = "connecting" /\ ~targetUp
  /\ attempt' = AfterFailure /\ spent' = TRUE
  /\ UNCHANGED <<client, taken, answers, in, handler, out, toOut, toIn, fixed>>

RunReset ==
  /\ spent
  /\ spent' = FALSE
  /\ UNCHANGED <<client, taken, answers, in, handler, attempt, out, toOut, toIn, fixed>>

RunRetry ==
  /\ attempt = "waiting" /\ ~spent
  /\ ConnectorStart
  /\ UNCHANGED <<client, taken, answers, in, handler, spent, out, toOut, toIn, fixed>>

\* on_recv of the out handler, Process of the in handler, which out has as
\* long as it is connected.  What in cannot take any more is dropped.
OutReceives ==
  /\ outState = "connected"
  /\ answers < Len(Answers)
  /\ answers' = answers + 1
  /\ toIn' = IF inState = "connected" THEN Append(toIn, Answers[answers']) ELSE toIn
  /\ UNCHANGED <<client, taken, in, handler, connector, out, toOut, fixed>>

\* The target closes or resets its connection.
OutEnds ==
  /\ outState = "connected"
  /\ OnConnectionDown
  /\ ShutDownIn
  /\ UNCHANGED <<client, taken, answers, context, inBuf, mapped, handler, connector,
                 toOut, toIn, fixed>>

----------------------------------------------------------------------------
\* The client and the target.  A SOCKS client waits for each reply, as the
\* handshake of SocksIn demands; another proxy sends all it has.

MaySend ==
  /\ sent < Len(script)
  /\ inState = "connected"
  /\ protocol.in = "socks5" /\ sent <= 2 => Len(toIn) >= sent

ClientSends ==
  /\ MaySend
  /\ sent' = sent + 1
  /\ UNCHANGED <<script, taken, answers, in, handler, connector, out, toOut, toIn, fixed>>

TargetComesUp ==
  /\ ~targetUp
  /\ targetUp' = TRUE
  /\ UNCHANGED <<client, taken, answers, in, handler, connector, out, toOut, toIn, protocol>>

Next ==
  \/ InConnects
  \/ InReceives
  \/ InEnds
  \/ OutConnects
  \/ OutFails
  \/ RunReset
  \/ RunRetry
  \/ OutReceives
  \/ OutEnds
  \/ ClientSends
  \/ TargetComesUp

Spec == Init /\ [][Next]_vars

----------------------------------------------------------------------------
\* Properties

\* Every part of the state has its type, and nothing is sent twice, the
\* header of RunOut included.
TypeOK ==
  /\ protocol \in [in : InProtocols, out : OutProtocols]
  /\ script \in Scripts(protocol.in)
  /\ sent \in 0..Len(script) /\ taken \in 0..sent /\ answers \in 0..Len(Answers)
  /\ inState \in {"none", "connected", "disconnecting", "disconnected"}
  /\ context \in {"auth", "request", "transfer"}
  /\ attempt \in {"idle", "connecting", "waiting", "connected", "gaveUp", "stopped"}
  /\ outState \in {"none", "connected", "disconnected"}
  /\ {targetUp, mapped, handler, callbacks, spent, self, header} \subseteq BOOLEAN
  /\ \A s \in {inBuf, toOut} : IsInjective(s) /\ ToSet(s) \subseteq ToSet(script \o Header)
  /\ IsInjective(toIn) /\ ToSet(toIn) \subseteq {"method", "granted"} \cup ToSet(Answers)

Replies == IF protocol.in = "socks5" THEN <<"method", "granted">> ELSE <<>>

\* However the request was cut up and however long the target took, it gets
\* the data behind the request, all of it and in order, behind one header if
\* the next hop wants one; once it is connected nothing waits any more, for
\* no event would come to push it.  The client gets its replies and then what
\* the target sends.
StreamsIntact ==
  /\ context = "transfer" =>
       toOut \o inBuf =
         (IF protocol.out = "run" /\ toOut # <<>> THEN Header ELSE <<>>)
           \o SubSeq(script, 3, taken)
  /\ self => inBuf = <<>>
  /\ inState = "connected" /\ context = "transfer" =>
       toIn = Replies \o SubSeq(Answers, 1, answers)

Present == inState \in {"connected", "disconnecting"}

\* The two sides stand and fall together: the maps know in while it is there,
\* the handler while it is needed, and self_ is the connection out has.  When
\* the target is gone the client has been told; when the client is gone so is
\* out, no attempt goes on for it, and no reference keeps the handler.  The
\* assertions of Connector::Stop hold when the client leaves.
PairAgrees ==
  /\ mapped <=> Present
  /\ handler <=> Present /\ context = "transfer"
  /\ self <=> outState = "connected"
  /\ self => handler /\ attempt = "connected"
  /\ outState = "disconnected" => inState # "connected"
  /\ ~Present => ~callbacks /\ attempt \notin {"connecting", "waiting"}
  /\ Present /\ MayLeave => StopAsserts

\* The proxy takes the connector for what it is.
Trying == INSTANCE Attempt

UsesAttempt == Trying!Spec
====
