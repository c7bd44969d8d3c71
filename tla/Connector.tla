---- MODULE Connector ----
(***************************************************************************)
(* The client's connection attempts: Connector (tohka/connector.cc), with  *)
(* what TcpClient (tohka/tcpclient.cc) does with it.                       *)
(*                                                                         *)
(* An attempt is a socket whose IoEvent waits for the connect(2) to end.   *)
(* When it ends, the event leaves the poll table at once but the object is *)
(* destroyed by a timer, because its own function is still running.  A     *)
(* failed attempt is repeated by another timer, later each time.           *)
(***************************************************************************)
EXTENDS Integers, Sequences, SequencesExt

CONSTANTS
  Results,        \* what connect(2) may return: see ConnectReturns
  InitDelay,      \* kInitDelayMs
  MaxDelay,       \* kMaxDelayMs
  StopWhenever,   \* may the user stop while an event exists?
  StartWhenever   \* may the user start again whatever is left of the attempts?

ASSUME ResultAssumption == Results \subseteq {"progress", "retry", "fatal"}
ASSUME DelayAssumption ==
  InitDelay \in Nat \ {0} /\ MaxDelay \in Nat /\ InitDelay <= MaxDelay
ASSUME UserAssumption == {StopWhenever, StartWhenever} \subseteq BOOLEAN

VARIABLES
  state,     \* state_
  connect,   \* connect_
  event,     \* event_: "none", "live" (polled) or "spent" (unregistered)
  sock,      \* the attempt's socket: "none", "pending", "ok" or "failed"
  delay,     \* retry_delay_ms_
  timers,    \* the armed timers of this connector: see NoTimers
  batch,     \* the due timers of this connector that are still to run
  open,      \* descriptors this connector opened and neither closed nor gave away
  handed,    \* on_connect_ was called: TcpClient has the connection
  stopped,   \* history: the user's last call was a Stop that met no due retry
  gaveUp,    \* history: the last connect(2) returned a "fatal" errno
  peerUp     \* does the peer accept connections (for good)?

vars == <<state, connect, event, sock, delay, timers, batch, open, handed,
          stopped, gaveUp, peerUp>>

\* What is armed, in the order of expiry: "reset" calls ResetEvent, "start"
\* calls Start.  timer_id_ names one retry, the last that was armed: named is
\* its place, or 0 when it is due, has run or was deleted.
NoTimers == [armed |-> <<>>, named |-> 0]

Init ==
  /\ state = "disconnected" /\ connect = FALSE
  /\ event = "none" /\ sock = "none"
  /\ delay = InitDelay /\ timers = NoTimers /\ batch = <<>>
  /\ open = 0 /\ handed = FALSE /\ stopped = FALSE
  /\ gaveUp = FALSE /\ peerUp \in BOOLEAN

----------------------------------------------------------------------------
\* The timers of a connector: t is a value of timers

Holds(queue, timer) == \E i \in DOMAIN queue : queue[i] = timer

\* Mutant: nothing will destroy the event.
NoReset(t) == {t}

\* CallLater(0): behind all that expires by now, and there may be any number.
WithReset(t) ==
  {[armed |-> InsertAt(t.armed, i, "reset"),
    named |-> IF i <= t.named THEN t.named + 1 ELSE t.named]
     : i \in 1..(Len(t.armed) + 1)}

\* CallLater(retry_delay_ms_): the delay never shrinks, so behind all others.
\* The retry that timer_id_ named before is forgotten, not deleted.
WithRetry(t) == [armed |-> Append(t.armed, "start"), named |-> Len(t.armed) + 1]

\* Mutant: the retry timer is left alone.
KeepsRetry(t) == t

\* DeleteTimer(timer_id_): it cannot take back a timer that is due.
WithoutRetry(t) ==
  IF t.named = 0 THEN t
  ELSE [armed |-> RemoveAt(t.armed, t.named), named |-> 0]

----------------------------------------------------------------------------
\* Connector::Retry, Connecting, RemoveAndResetEvent

\* Mutant: the delay grows without end.
Uncapped(d) == 2 * d

Doubled(d) == IF 2 * d <= MaxDelay THEN 2 * d ELSE MaxDelay

\* Mutant: no new attempt once the delay has reached its maximum.
WearyRetry(wanted, t) ==
  /\ open' = 0
  /\ state' = "disconnected"
  /\ IF wanted /\ delay < MaxDelay
     THEN timers' = WithRetry(t) /\ delay' = Doubled(delay)
     ELSE timers' = t /\ UNCHANGED delay

\* Close the socket and try again later, if connecting is still wanted.
Retry(wanted, t) ==
  /\ open' = 0
  /\ state' = "disconnected"
  /\ IF wanted
     THEN timers' = WithRetry(t) /\ delay' = Doubled(delay)
     ELSE timers' = t /\ UNCHANGED delay

\* The event is taken out of the table now; a timer destroys it (WithReset).
RemoveEvent ==
  /\ event' = "spent"
  /\ sock' = "none"

\* Start asserts that no attempt is under way, Connecting that there is no event.
StartAsserts == state = "disconnected" /\ event = "none"

\* Connector::Start and Connect: what connect(2) returns decides.
\*   "progress"  0, EINPROGRESS, EINTR, EISCONN
\*   "retry"     EAGAIN, EADDRINUSE, EADDRNOTAVAIL, ECONNREFUSED, ENETUNREACH
\*   "fatal"     every other errno, and EBADF when there was no socket
ConnectReturns(result) ==
  CASE result = "progress" ->
         /\ event = "none"
         /\ state' = "connecting"
         /\ event' = "live" /\ sock' = "pending" /\ open' = 1
         /\ UNCHANGED <<delay, timers>>
    [] result = "retry" -> Retry(TRUE, timers) /\ UNCHANGED <<event, sock>>
    [] result = "fatal" -> UNCHANGED <<state, event, sock, delay, timers, open>>

Start ==
  /\ state = "disconnected"
  /\ connect' = TRUE
  /\ \E result \in Results :
       /\ peerUp => result = "progress"
       /\ ConnectReturns(result)
       /\ gaveUp' = (result = "fatal")
  /\ UNCHANGED <<handed, peerUp>>

----------------------------------------------------------------------------
\* What the user calls, through TcpClient::Connect and TcpClient::Stop, from any
\* callback: also from a timer's, in the middle of the batch.

RetryDue == Holds(batch, "start")

\* A client is connected when it is fresh, was stopped, or has given up; and only
\* where Start finds what it asserts, and no retry is due that a stop was too
\* late for, unless StartWhenever.
MayStart ==
  /\ ~connect \/ gaveUp
  /\ StartWhenever \/ (StartAsserts /\ ~RetryDue)

UserStart ==
  /\ MayStart
  /\ Start
  /\ stopped' = FALSE
  /\ UNCHANGED batch

MayStop == StopWhenever \/ event = "none"

Stop ==
  /\ MayStop
  /\ connect /\ ~stopped
  /\ connect' = FALSE
  /\ stopped' = ~RetryDue
  /\ IF state = "connecting"
     THEN /\ state' = "disconnected" /\ open' = 0
          /\ RemoveEvent
          /\ \E t \in WithReset(timers) : timers' = WithoutRetry(t)
     ELSE /\ timers' = WithoutRetry(timers)
          /\ UNCHANGED <<state, event, sock, open>>
  /\ UNCHANGED <<delay, batch, handed, gaveUp, peerUp>>

\* Stop asserts event_ == nullptr after it removed the event.
StopAsserts == state # "connecting" /\ event = "none"

----------------------------------------------------------------------------
\* The loop

\* connect(2) ends in the kernel.
SocketReady ==
  /\ sock = "pending"
  /\ sock' \in IF peerUp THEN {"ok"} ELSE {"ok", "failed"}
  /\ UNCHANGED <<state, connect, event, delay, timers, batch, open, handed,
                 stopped, gaveUp, peerUp>>

\* OnConnect, from the read or the write callback: getpeername(2) tells.
OnConnect ==
  /\ batch = <<>>
  /\ event = "live" /\ sock \in {"ok", "failed"}
  /\ state = "connecting"
  /\ RemoveEvent
  /\ \E t \in WithReset(timers) :
       IF sock = "failed"
       THEN Retry(connect, t) /\ UNCHANGED handed
       ELSE /\ state' = "connected"
            /\ open' = 0
            /\ handed' = connect
            /\ timers' = t /\ UNCHANGED delay
  /\ UNCHANGED <<connect, batch, stopped, gaveUp, peerUp>>

\* The loop takes the timers that are due, and runs them in this order.
BeginBatch ==
  /\ batch = <<>>
  /\ \E n \in 1..Len(timers.armed) :
       /\ batch' = SubSeq(timers.armed, 1, n)
       /\ timers' = [armed |-> SubSeq(timers.armed, n + 1, Len(timers.armed)),
                     named |-> IF timers.named > n THEN timers.named - n ELSE 0]
  /\ UNCHANGED <<state, connect, event, sock, delay, open, handed, stopped,
                 gaveUp, peerUp>>

RunReset ==
  /\ batch # <<>> /\ Head(batch) = "reset"
  /\ batch' = Tail(batch)
  /\ event' = "none"
  /\ UNCHANGED <<state, connect, sock, delay, timers, open, handed, stopped,
                 gaveUp, peerUp>>

RunStart ==
  /\ batch # <<>> /\ Head(batch) = "start"
  /\ batch' = Tail(batch)
  /\ Start
  /\ UNCHANGED stopped

\* TcpClient::RemoveConnection: the connection that was handed over is gone.
\* The connector is not told.
ConnectionLost ==
  /\ batch = <<>> /\ handed
  /\ handed' = FALSE
  /\ UNCHANGED <<state, connect, event, sock, delay, timers, batch, open,
                 stopped, gaveUp, peerUp>>

PeerComesUp ==
  /\ ~peerUp
  /\ peerUp' = TRUE
  /\ UNCHANGED <<state, connect, event, sock, delay, timers, batch, open,
                 handed, stopped, gaveUp>>

Loop == OnConnect \/ BeginBatch \/ RunReset \/ RunStart

Next ==
  \/ UserStart
  \/ Stop
  \/ SocketReady
  \/ ConnectionLost
  \/ Loop
  \/ PeerComesUp

\* Connects end, the loop serves what is ready, and a retry comes due: a
\* batch that always left it out would stop the clock.
Fairness ==
  /\ WF_vars(SocketReady) /\ WF_vars(OnConnect)
  /\ WF_vars(RunReset) /\ WF_vars(RunStart)
  /\ WF_vars(BeginBatch) /\ SF_vars(BeginBatch /\ RetryDue')

Spec == Init /\ [][Next]_vars
FairSpec == Spec /\ Fairness

----------------------------------------------------------------------------
\* Properties

\* Every part of the state has its type; the delay keeps to its limits, and
\* timer_id_ names a retry that is armed, or none.
TypeOK ==
  /\ state \in {"disconnected", "connecting", "connected"}
  /\ event \in {"none", "live", "spent"}
  /\ sock \in {"none", "pending", "ok", "failed"}
  /\ delay \in InitDelay..MaxDelay
  /\ timers \in [armed : Seq({"reset", "start"}), named : Nat]
  /\ timers.named # 0 => timers.named <= Len(timers.armed)
                         /\ timers.armed[timers.named] = "start"
  /\ batch \in Seq({"reset", "start"})
  /\ open \in 0..1
  /\ {connect, handed, stopped, gaveUp, peerUp} \subseteq BOOLEAN

\* The assertions of connector.cc: a Start, the user's or a retry's, finds the
\* last attempt over and its event gone, OnConnect is entered in the middle of
\* an attempt, and Stop leaves no event.
AssertsHold ==
  /\ batch # <<>> /\ Head(batch) = "start" => StartAsserts
  /\ MayStart => StartAsserts
  /\ event = "live" => state = "connecting"
  /\ MayStop /\ connect /\ ~stopped => StopAsserts

\* A descriptor is open exactly while an attempt is under way: none leaks
\* through a retry, a stop or a hand-over, and none is closed under an event
\* that is still polled.
NoFdLeak == (open = 1 <=> state = "connecting") /\ (event = "live" <=> open = 1)

\* The wish to connect is never dropped: until the user stops it, the client
\* is connected, is attempting to, or has a retry coming.  The one exception
\* is an errno outside the list of ConnectReturns.
NeverGivesUp ==
  connect => state # "disconnected" \/ timers.named # 0 \/ RetryDue \/ gaveUp

\* After Stop nothing of this client connects until the user starts it again,
\* if the retry was not already due when another timer's callback stopped it.
StopIsFinal ==
  stopped => state # "connecting" /\ ~Holds(timers.armed, "start") /\ ~connect

\* What goes on is what the user asked for last: the descriptor, the event and
\* the retry are those of one attempt that is wanted, or there are none.
AttemptsAgree == NoFdLeak /\ NeverGivesUp /\ StopIsFinal

\* What is left of the attempts: a stop that came too late for a due retry did
\* not stop them.
Phase ==
  IF stopped THEN "stopped"
  ELSE IF state # "disconnected" THEN state
  ELSE IF gaveUp THEN "gaveUp"
  ELSE IF timers.named # 0 \/ RetryDue THEN "waiting" ELSE "idle"

Promised == INSTANCE Attempt WITH attempt <- Phase, spent <- (event = "spent")

\* What the connector's timers and its socket do is what its owners expect of
\* an attempt: one at a time, and none before the event of the last is gone.
ImplementsAttempt == Promised!Spec

\* A client that still tries to connect to a peer that is there for good gets
\* its connection.  (One that had it and lost it does not try again.)
EventuallyConnected ==
  (connect /\ state # "connected" /\ peerUp /\ ~gaveUp) ~> (handed \/ stopped)
====
