---- MODULE TcpEvent ----
(***************************************************************************)
(* One connection: TcpEvent (tohka/tcpevent.cc) with its IoEvent, the poll *)
(* bits of its descriptor, and what its owner, TcpServer or TcpClient,     *)
(* does when it closes (tohka/tcpserver.cc, tcpclient.cc).                 *)
(*                                                                         *)
(* The library is single threaded but re-entrant: every user callback may  *)
(* call Send, ShutDown, ForceClose, StopReading and StartReading on the    *)
(* connection whose function is calling it.  The module therefore runs on  *)
(* an explicit stack of what is left to do; a "user" frame is a callback   *)
(* in progress, the others are the rest of a library function below it.    *)
(* Outgoing data is numbered in the order the user handed it to Send.      *)
(***************************************************************************)
EXTENDS Integers, Sequences

CONSTANTS
  Owners,      \* who may own the connection: "server", "client"
  MarkOps,     \* what the user's high-water callback calls
  HighWater,   \* high_water_mark_
  SndBuf,      \* room of the kernel's send buffer
  MaxData,     \* bound: data items ever sent
  MaxSend,     \* bound: data items in one Send
  MaxIn        \* bound: reads the peer can trigger with data

UserOps == {"send", "shutdown", "forceclose", "stopreading", "startreading"}

ASSUME OwnerAssumption == Owners \subseteq {"server", "client"} /\ Owners # {}
ASSUME MarkAssumption == MarkOps \subseteq UserOps
ASSUME SizeAssumption ==
  /\ HighWater \in Nat \ {0} /\ SndBuf \in Nat \ {0}
  /\ MaxData \in Nat /\ MaxSend \in Nat /\ MaxIn \in Nat

VARIABLES
  owner,       \* "server" (TcpServer) or "client" (TcpClient)
  state,       \* state_
  events,      \* event_->events_
  polled,      \* bits poll(2) is asked about; none while the slot is muted
  table,       \* is the event in the poll table: "never", "in" or "out"
  outBuf,      \* out_buf_
  wire,        \* everything the kernel accepted for the peer
  unread,      \* how much of it the peer has not read yet
  fin,         \* ShutDownWrite was called
  produced,    \* how much the user handed to an accepted Send
  incoming,    \* chunks from the peer not read yet
  arrived,     \* history: chunks that ever came
  peer,        \* "open", "fin" or "reset"
  stack,       \* what is left to do, first frame first
  doomed       \* ConnectDestroyed is posted with CallLater(0)

conn == <<state, events, polled, table>>
data == <<outBuf, wire, unread, fin, produced>>
world == <<incoming, arrived, peer, owner>>
vars == <<conn, data, world, stack, doomed>>

----------------------------------------------------------------------------
\* Frames

User(callback) == [do |-> "user", arg |-> callback]
Buffer(items) == [do |-> "buffer", arg |-> items]
Frame(name) == [do |-> name, arg |-> ""]

Idle == stack = <<>>
Running(name) == ~Idle /\ Head(stack).do = name
Return == Tail(stack)

Numbers(from, to) == [i \in 1..(to - from) |-> from + i]

Init ==
  /\ owner \in Owners
  /\ state = "connecting" /\ events = {} /\ polled = {} /\ table = "never"
  /\ outBuf = <<>> /\ wire = <<>> /\ unread = 0 /\ fin = FALSE /\ produced = 0
  /\ incoming = 0 /\ arrived = 0 /\ peer = "open"
  /\ stack = <<>> /\ doomed = FALSE

----------------------------------------------------------------------------
\* IoEvent and Poll for this connection; PollSet states the table's part

BitOf == [READ |-> "IN", WRITE |-> "OUT"]

\* Mutant: the flags of the event stored untranslated.
RawWant(interest) ==
  /\ table' = "in"
  /\ events' = interest
  /\ polled' = IF interest = {} THEN {} ELSE polled \cup interest

\* Poll::RegisterEvent adds bits and drops them only all together; it aborts
\* on an event that has left the table.
Want(interest) ==
  /\ table # "out"
  /\ table' = "in"
  /\ events' = interest
  /\ polled' = IF interest = {} THEN {}
               ELSE polled \cup {BitOf[w] : w \in interest}

IsWriting == "WRITE" \in events

\* HUP and ERR are reported unasked, and count as readable.
Readable ==
  /\ polled # {}
  /\ \/ "IN" \in polled /\ (incoming > 0 \/ peer # "open")
     \/ peer = "reset"
     \/ peer = "fin" /\ fin
Writable == "OUT" \in polled /\ (unread < SndBuf \/ fin \/ peer = "reset")

\* What write(2) takes of n items; on error it takes nothing.
WriteFails == fin \/ peer = "reset"
Accepted(n) ==
  IF WriteFails THEN 0
  ELSE IF n <= SndBuf - unread THEN n ELSE SndBuf - unread

ToKernel(items, n) ==
  /\ wire' = wire \o SubSeq(items, 1, n)
  /\ unread' = unread + n

----------------------------------------------------------------------------
\* Opening and closing

ConnectEstablished ==
  /\ state = "connecting"
  /\ state' = "connected"
  /\ Want({"READ"})
  /\ stack' = <<User("up")>>
  /\ UNCHANGED <<data, world, doomed>>

\* Mutant: the interest of the event survives.
CloseKeepsEvents(rest) ==
  /\ state' = "disconnected"
  /\ stack' = <<User("down"), Frame("onclose")>> \o rest
  /\ UNCHANGED <<events, polled, table>>

\* The rest of the caller waits on the stack in "rest".
DoClose(rest) ==
  /\ state' = "disconnected"
  /\ Want({})
  /\ stack' = <<User("down"), Frame("onclose")>> \o rest

\* Poll::UnRegisterEvent asserts that the interest is gone.
ConnectDestroyed ==
  /\ state = "disconnected"
  /\ events = {}
  /\ table' = "out"
  /\ UNCHANGED <<state, events, polled>>

\* Mutant: the owner lets go of the connection without destroying it.
ForgetfulOnClose ==
  /\ Running("onclose")
  /\ stack' = Return
  /\ UNCHANGED <<conn, data, world, doomed>>

\* on_close_: the server posts the destruction, the client does it at once.
OnClose ==
  /\ Running("onclose")
  /\ stack' = Return
  /\ IF owner = "server"
     THEN doomed' = TRUE /\ UNCHANGED conn
     ELSE ConnectDestroyed /\ UNCHANGED doomed
  /\ UNCHANGED <<data, world>>

RunDestroy ==
  /\ Idle /\ doomed
  /\ doomed' = FALSE
  /\ ConnectDestroyed
  /\ UNCHANGED <<data, world, stack>>

----------------------------------------------------------------------------
\* Calls of the user: from a callback, or between events from elsewhere

MayCall(op) ==
  \/ Idle /\ state # "connecting"
  \/ Running("user") /\ (Head(stack).arg = "highwater" => op \in MarkOps)

\* The end of Send, after the high-water callback: buffer what is left.
BufferRest ==
  /\ Running("buffer")
  /\ outBuf' = outBuf \o Head(stack).arg
  /\ Want(events \cup {"WRITE"})
  /\ stack' = Return
  /\ UNCHANGED <<state, wire, unread, fin, produced, world, doomed>>

\* Mutant: every Send tries to write first.
AlwaysDirect == TRUE

WritesDirectly == ~IsWriting /\ outBuf = <<>>

Send(n) ==
  LET items == Numbers(produced, produced + n)
      done == IF WritesDirectly THEN Accepted(n) ELSE 0
      rest == SubSeq(items, done + 1, n)
  IN  /\ MayCall("send")
      /\ state = "connected"     \* else the data is dropped
      /\ produced + n <= MaxData
      /\ produced' = produced + n
      /\ ToKernel(items, done)
      /\ stack' =
           IF rest = <<>> THEN <<User("writedone")>> \o stack
           ELSE IF Len(outBuf) + Len(rest) >= HighWater
                THEN <<User("highwater"), Buffer(rest)>> \o stack
                ELSE <<Buffer(rest)>> \o stack
      /\ UNCHANGED <<conn, outBuf, fin, world, doomed>>

TryEagerShutDown == fin' = (fin \/ ~IsWriting)

ShutDown ==
  /\ MayCall("shutdown")
  /\ state = "connected"
  /\ state' = "disconnecting"
  /\ TryEagerShutDown
  /\ UNCHANGED <<events, polled, table, outBuf, wire, unread, produced, world,
                 stack, doomed>>

ForceClose ==
  /\ MayCall("forceclose")
  /\ state \in {"connected", "disconnecting"}
  /\ DoClose(stack)
  /\ UNCHANGED <<data, world, doomed>>

StopReading ==
  /\ MayCall("stopreading")
  /\ state # "disconnected"
  /\ Want(events \ {"READ"})
  /\ UNCHANGED <<state, data, world, stack, doomed>>

StartReading ==
  /\ MayCall("startreading")
  /\ state # "disconnected"
  /\ Want(events \cup {"READ"})
  /\ UNCHANGED <<state, data, world, stack, doomed>>

UserReturns ==
  /\ Running("user")
  /\ stack' = Return
  /\ UNCHANGED <<conn, data, world, doomed>>

----------------------------------------------------------------------------
\* The loop: Poll::PollEvents and IoEvent::SafeExecuteEvent.  The interest
\* in reading is tested at once, the one in writing when reading is done.

Dispatch ==
  LET reads == Readable /\ "READ" \in events
      writes == Writable
  IN  /\ Idle /\ state # "connecting"
      /\ reads \/ (writes /\ IsWriting)
      /\ stack' = (IF reads THEN <<Frame("read")>> ELSE <<>>)
                  \o (IF writes THEN <<Frame("write")>> ELSE <<>>)
      /\ UNCHANGED <<conn, data, world, doomed>>

\* HandleRead: data goes to the user, end of file and errors close.  After a
\* reset the data that came before may or may not be there.
HandleRead ==
  /\ Running("read")
  /\ \/ /\ incoming > 0
        /\ incoming' = 0
        /\ stack' = <<User("message")>> \o Return
        /\ UNCHANGED conn
     \/ /\ incoming = 0 \/ peer = "reset"
        /\ DoClose(Return)
        /\ UNCHANGED incoming
  /\ UNCHANGED <<data, arrived, peer, owner, doomed>>

\* Mutant: the interest is not tested again after the read callback.
StillWriting == TRUE

WantsWrite == IsWriting

\* HandleWrite, when the event still wants to write.
HandleWrite ==
  LET n == Accepted(Len(outBuf)) IN
  /\ Running("write")
  /\ IF WantsWrite /\ ~WriteFails
     THEN /\ ToKernel(outBuf, n)
          /\ outBuf' = SubSeq(outBuf, n + 1, Len(outBuf))
          /\ IF outBuf' = <<>>
             THEN /\ Want(events \ {"WRITE"})
                  /\ stack' = <<User("writedone"), Frame("drained")>> \o Return
             ELSE UNCHANGED <<events, polled, table>> /\ stack' = Return
     ELSE UNCHANGED <<events, polled, table, wire, unread, outBuf>>
          /\ stack' = Return
  /\ UNCHANGED <<state, fin, produced, world, doomed>>

\* Its tail: a ShutDown that had to wait for the buffer.
Drained ==
  /\ Running("drained")
  /\ IF state = "disconnecting" THEN TryEagerShutDown ELSE UNCHANGED fin
  /\ stack' = Return
  /\ UNCHANGED <<conn, outBuf, wire, unread, produced, world, doomed>>

----------------------------------------------------------------------------
\* The peer and the network

PeerSends ==
  /\ peer = "open" /\ arrived < MaxIn
  /\ incoming' = incoming + 1 /\ arrived' = arrived + 1
  /\ UNCHANGED <<conn, data, peer, owner, stack, doomed>>

PeerReads ==
  /\ peer # "reset" /\ unread > 0
  /\ unread' = unread - 1
  /\ UNCHANGED <<conn, outBuf, wire, fin, produced, world, stack, doomed>>

PeerLeaves(how) ==
  /\ \/ peer = "open" /\ how \in {"fin", "reset"}
     \/ peer = "fin" /\ how = "reset"
  /\ peer' = how
  /\ UNCHANGED <<conn, data, incoming, arrived, owner, stack, doomed>>

----------------------------------------------------------------------------

UserCalls ==
  \/ \E n \in 1..MaxSend : Send(n)
  \/ ShutDown
  \/ ForceClose
  \/ StopReading
  \/ StartReading

Library ==
  \/ ConnectEstablished
  \/ OnClose
  \/ RunDestroy
  \/ BufferRest
  \/ Dispatch
  \/ HandleRead
  \/ HandleWrite
  \/ Drained

Next ==
  \/ UserCalls
  \/ UserReturns
  \/ Library
  \/ PeerSends
  \/ PeerReads
  \/ \E how \in {"fin", "reset"} : PeerLeaves(how)

\* The loop keeps running, callbacks return, and a peer that is there reads.
Fairness == WF_vars(Library) /\ WF_vars(UserReturns) /\ WF_vars(PeerReads)

Spec == Init /\ [][Next]_vars
FairSpec == Spec /\ Fairness

----------------------------------------------------------------------------
\* Properties

Open == state \in {"connected", "disconnecting"}

\* Data of the Sends in progress, not yet in the buffer.
Pending == {i \in DOMAIN stack : stack[i].do = "buffer"}

\* Every part of the state has its type, and no counter leaves its bounds.
TypeOK ==
  /\ owner \in Owners
  /\ state \in {"connecting", "connected", "disconnecting", "disconnected"}
  /\ events \subseteq {"READ", "WRITE"}
  /\ polled \subseteq {"IN", "OUT"}
  /\ table \in {"never", "in", "out"}
  /\ outBuf \in Seq(1..MaxData)
  /\ wire \in Seq(1..MaxData)
  /\ unread \in 0..SndBuf
  /\ fin \in BOOLEAN
  /\ produced \in 0..MaxData
  /\ incoming \in 0..MaxIn /\ arrived \in 0..MaxIn
  /\ peer \in {"open", "fin", "reset"}
  /\ \A i \in DOMAIN stack :
       stack[i].do \in {"user", "buffer", "onclose", "read", "write", "drained"}
  /\ doomed \in BOOLEAN

\* While the connection is open the peer gets exactly what was sent, in the
\* order it was sent: nothing is lost, repeated or overtaken on its way
\* through the direct write, the buffer and the callbacks in between.
InOrder ==
  /\ Open /\ Pending = {} => wire \o outBuf = Numbers(0, produced)
  /\ \A i, j \in DOMAIN wire : i < j => wire[i] < wire[j]

\* The loop waits to write exactly while there is something to write: data
\* in the buffer never waits for an event nobody asked for.
WritingIffBuffered ==
  Open /\ Pending = {} => (IsWriting <=> outBuf # <<>>) /\ (IsWriting => "OUT" \in polled)

\* The write side is shut only when all data of the user is out.
FinAfterData == Open /\ fin => wire = Numbers(0, produced)

\* The stream to the peer is intact from Send to FIN, and what waits of it is
\* waited for.
StreamIntact == InOrder /\ WritingIffBuffered /\ FinAfterData

\* Once the connection is reported down, no other callback is entered.
SilentAfterDown ==
  [][state = "disconnected" /\ Len(stack') >= Len(stack) /\ ~Idle'
       => stack' = stack]_vars

\* The next step of the library meets the assertions on its way: a closed
\* connection is not registered again, and it is destroyed without interest.
AssertsHold ==
  /\ Running("buffer") => table # "out"
  /\ Running("read") => Open /\ table = "in"
  /\ Running("write") /\ IsWriting => table = "in"
  /\ (Idle /\ doomed) \/ (Running("onclose") /\ owner = "client")
       => state = "disconnected" /\ events = {} /\ table = "in"
  /\ state = "disconnected" /\ Idle => doomed \/ table = "out"

\* The comment on StopWriting in HandleWrite: a drained connection is not
\* polled for writing, so it does not keep the loop busy.
DrainedIsQuiet == Idle /\ Open /\ outBuf = <<>> => "OUT" \notin polled

\* A ShutDown gets through: all data is sent and the write side shut, or the
\* connection is closed.  (A reset nobody reads stays unnoticed.)
ShutDownCompletes ==
  state = "disconnecting"
    ~> fin \/ state = "disconnected" \/ (peer = "reset" /\ "READ" \notin events)

\* A connection that reads notices that the peer left, and a closed one is
\* destroyed and out of the poll table.
CloseCompletes ==
  /\ (peer # "open" /\ "READ" \in events) ~> ("READ" \notin events)
  /\ state = "disconnected" ~> table = "out"

\* Who closes, by ShutDown, by end of file or by a reset, is done with it in
\* the end.
ClosingCompletes == ShutDownCompletes /\ CloseCompletes

\* What Send took and the kernel did not: what is buffered, and what a Send in
\* progress is about to buffer.
Unbuffered == IF Pending = {} THEN <<>> ELSE stack[CHOOSE i \in Pending : TRUE].arg

Promised == INSTANCE Connection WITH
  state <- IF state = "connecting" THEN "none" ELSE state,
  left <- IF Open THEN outBuf \o Unbuffered ELSE <<>>,
  reading <- "READ" \in events,
  got <- arrived - incoming

\* However the calls are nested, a connection is what its owner takes it for.
ImplementsConnection == Promised!Spec

Stage ==
  IF state = "connecting" THEN "none"
  ELSE IF Open THEN "open"
  ELSE IF \E i \in DOMAIN stack : stack[i].do = "onclose" THEN "closing"
  ELSE IF doomed THEN "posted" ELSE "gone"

Lived == INSTANCE Lifetime WITH
  stage <- Stage,
  owner <- IF state = "connecting" THEN "nobody" ELSE owner,
  watched <- table = "in"

\* Whichever callback closes it, a connection has one life.
ImplementsLifetime == Lived!Spec
====
