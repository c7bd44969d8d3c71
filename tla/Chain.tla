---- MODULE Chain ----
(***************************************************************************)
(* One proxy, or two in a row: a RunOut of the first connects to the RunIn *)
(* of the second (examples/mrproxy/run_out.cc, run_in.cc), which connects  *)
(* to the target.  The first is module Proxy itself; the second is another *)
(* instance of it, whose client is the first and whose variables carry the *)
(* prefix far.  Between them is a TCP connection that cuts up, delays and  *)
(* keeps in order what is sent, and that may break.                        *)
(***************************************************************************)
EXTENDS Proxy, Request

CONSTANT Hops   \* how many proxies there may be in a row

ASSUME HopAssumption == Hops \subseteq {1, 2}

VARIABLES
  hops,       \* how many there are
  link,       \* the connection between them: "up" or "broken"
  farProtocol, farScript, farSent, farTaken, farAnswers, farTargetUp,
  farInState, farContext, farInBuf, farMapped, farHandler, farCallbacks,
  farAttempt, farSpent, farOutState, farSelf, farHeader, farToOut, farToIn

Far == INSTANCE Proxy WITH
  protocol <- farProtocol, script <- farScript, sent <- farSent,
  taken <- farTaken, answers <- farAnswers, targetUp <- farTargetUp,
  inState <- farInState, context <- farContext, inBuf <- farInBuf,
  mapped <- farMapped, handler <- farHandler, callbacks <- farCallbacks,
  attempt <- farAttempt, spent <- farSpent, outState <- farOutState,
  self <- farSelf, header <- farHeader, toOut <- farToOut, toIn <- farToIn

between == <<hops, link>>
farVars ==
  <<farProtocol, farScript, farSent, farTaken, farAnswers, farTargetUp,
    farInState, farContext, farInBuf, farMapped, farHandler, farCallbacks,
    farAttempt, farSpent, farOutState, farSelf, farHeader, farToOut, farToIn>>
allVars == <<vars, farVars, between>>

\* Two in a row as they are meant to be used: the first serves SOCKS clients
\* and goes through the second, which connects to the target.
ChainInit ==
  /\ Init /\ Far!Init
  /\ hops \in Hops
  /\ hops = 2 => protocol = [in |-> "socks5", out |-> "run"]
  /\ farProtocol = [in |-> "run", out |-> "freedom"]
  /\ farScript = Header \o Data
  /\ hops = 1 => ~farTargetUp
  /\ link = "up"

----------------------------------------------------------------------------
\* The first proxy.  Of two, its target is the second: it answers what that
\* one sent, and it ends when that one half closed behind its data, when it
\* is gone, or when the connection broke, which SO_KEEPALIVE finds out.

Linked == outState = "connected"

SeesTheEnd ==
  \/ farInState = "disconnecting" /\ answers = Len(farToIn)
  \/ farInState = "disconnected"
  \/ link = "broken"

HopReceives == (hops = 2 => answers < Len(farToIn)) /\ OutReceives
HopEnds == (hops = 2 => SeesTheEnd) /\ OutEnds

NearStep ==
  /\ \/ InConnects
     \/ InReceives
     \/ InEnds
     \/ OutConnects
     \/ OutFails
     \/ RunReset
     \/ RunRetry
     \/ HopReceives
     \/ HopEnds
     \/ ClientSends
     \/ TargetComesUp
  /\ UNCHANGED <<farVars, between>>

----------------------------------------------------------------------------
\* The second proxy.  Its client is the out connection of the first: it is
\* there once that is connected, sends what Send took, and leaves when out is
\* closed or the connection broke.

Arrives == farSent < Len(toOut) /\ Far!ClientSends

FirstLeaves == (outState = "disconnected" \/ link = "broken") /\ Far!InEnds

FarStep ==
  /\ hops = 2
  /\ \/ outState # "none" /\ Far!InConnects
     \/ Far!InReceives
     \/ FirstLeaves
     \/ Far!OutConnects
     \/ Far!OutFails
     \/ Far!RunReset
     \/ Far!RunRetry
     \/ Far!OutReceives
     \/ Far!OutEnds
     \/ Arrives
     \/ Far!TargetComesUp
  /\ UNCHANGED <<vars, between>>

LinkBreaks ==
  /\ hops = 2 /\ Linked /\ link = "up"
  /\ link' = "broken"
  /\ UNCHANGED <<vars, farVars, hops>>

ChainNext ==
  \/ NearStep
  \/ FarStep
  \/ LinkBreaks

Near(A) == A /\ UNCHANGED <<farVars, between>>
Second(A) == hops = 2 /\ A /\ UNCHANGED <<vars, between>>

\* Both loops serve what is ready, connect(2) ends, a retry comes due, and the
\* network delivers.  A client may be kept from leaving for the time of an
\* attempt, again and again: see MayLeave.
ChainFairness ==
  /\ WF_allVars(Near(InReceives)) /\ WF_allVars(Near(OutConnects))
  /\ WF_allVars(Near(RunReset)) /\ WF_allVars(Near(RunRetry))
  /\ WF_allVars(Near(hops = 2 /\ (HopReceives \/ HopEnds)))
  /\ WF_allVars(Second(outState # "none" /\ Far!InConnects))
  /\ WF_allVars(Second(Far!InReceives)) /\ WF_allVars(Second(Far!OutConnects))
  /\ WF_allVars(Second(Far!RunReset)) /\ WF_allVars(Second(Far!RunRetry))
  /\ WF_allVars(Second(Arrives)) /\ SF_allVars(Second(FirstLeaves))

ChainSpec == ChainInit /\ [][ChainNext]_allVars
FairChainSpec == ChainSpec /\ ChainFairness

----------------------------------------------------------------------------
\* Properties; those of Proxy hold for the first proxy, and here for the other.

\* The second proxy, whose client is the first, keeps what Proxy promises: the
\* request that RunOut builds is the one that RunIn takes, wherever it was cut,
\* byte for byte if it is plain.  It has nothing the first has not sent, and
\* the first no answer it has not.
FarHopAgrees ==
  /\ RequestsUnderstood
  /\ Far!TypeOK /\ Far!StreamsIntact /\ Far!PairAgrees
  /\ hops = 2 =>
       /\ IsPrefix(SubSeq(farScript, 1, farSent), toOut)
       /\ IsPrefix(SubSeq(Answers, 1, answers), farToIn)
       /\ farInState # "none" => outState # "none"

EndOf(s) ==
  CASE s = "none" -> "none"
    [] s = "connected" -> "open"
    [] s = "disconnecting" -> "closing"
    [] s = "disconnected" -> "closed"

\* What goes out behind a header, and what the client gets behind the replies.
Payload(s, p) == IF p = "run" THEN SubSeq(s, Len(Header) + 1, Len(s)) ELSE s

Promised == INSTANCE Pipe WITH
  apart <- (hops = 2),
  near <- EndOf(inState),
  far <- EndOf(IF hops = 2 THEN farOutState ELSE outState),
  sentUp <- SubSeq(script, 3, sent),
  gotUp <- IF hops = 2 THEN farToOut
                       ELSE Payload(toOut, protocol.out),
  sentDown <- SubSeq(Answers, 1, IF hops = 2 THEN farAnswers ELSE answers),
  gotDown <- SubSeq(toIn, Len(Replies) + 1, Len(toIn))

\* A proxy is a pipe between its client and the target, and two in a row are
\* one: nothing of the protocol between them shows.
ImplementsPipe == Promised!Spec

\* Over however many hops, the end of one side gets to the other.
EndsFollow == Promised!EndsFollow

\* What the client sends behind its request gets through to a target that is
\* there for good, unless one of them or the connection between goes first.
\* (An errno of connect(2) that the connector does not know ends the attempts.)
Reached == IF hops = 2 THEN farToOut ELSE toOut
Undisturbed ==
  /\ inState = "connected" /\ attempt # "gaveUp"
  /\ hops = 2 => link = "up" /\ farInState \in {"none", "connected"} /\ farAttempt # "gaveUp"

DataGetsThrough ==
  \A i \in DOMAIN Data :
    (sent >= 2 + i /\ targetUp /\ (hops = 2 => farTargetUp) /\ Undisturbed)
      ~> (Data[i] \in ToSet(Reached) \/ ~Undisturbed)

\* All that is sent gets through, and so does the end of it.
EverythingArrives == DataGetsThrough /\ EndsFollow
====
