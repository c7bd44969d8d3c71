---- MODULE Poller ----
(***************************************************************************)
(* The poll table of the reactor: Poll (tohka/poll.cc, iowatcher.h) and    *)
(* the registration half of IoEvent (tohka/ioevent.h).                     *)
(*                                                                         *)
(* Poll keeps the interest of every registered IoEvent twice: in pfds_,    *)
(* the dense array handed to poll(2), and in io_events_map, the map from   *)
(* descriptor to event.  The event remembers its slot in index_.  Removing *)
(* an event moves the last slot into the hole, so an operation on one      *)
(* event rewrites the bookkeeping of another.  A slot of an event without  *)
(* interest is muted by storing -fd-1, which poll(2) skips.                *)
(***************************************************************************)
EXTENDS Integers, Sequences

CONSTANTS
  Event,          \* IoEvent objects
  Fd,             \* descriptors the kernel can hand out
  MuteBeforeUse   \* may an owner mute an event it never enabled (~Acceptor)?

ASSUME FdAssumption == Fd \subseteq Nat
ASSUME MuteAssumption == MuteBeforeUse \in BOOLEAN

NoFd == -1                       \* fdOf of an object that does not exist
Interest == {"READ", "WRITE"}    \* EV_READ, EV_WRITE
PollBit == {"IN", "OUT"}         \* POLLIN, POLLOUT

VARIABLES
  fdOf,      \* IoEvent::fd_, NoFd while the object does not exist
  events,    \* IoEvent::events_
  index,     \* IoEvent::index_: -1 or a position in pfds_, counted from 0
  pfds,      \* Poll::pfds_
  eventMap   \* IoWatcher::io_events_map, from descriptor to event

vars == <<fdOf, events, index, pfds, eventMap>>

----------------------------------------------------------------------------
\* What the table says of an event

Masked(f) == -f - 1
Unmasked(f) == IF f < 0 THEN -f - 1 ELSE f

Alive(e) == fdOf[e] # NoFd
Registered(e) == fdOf[e] \in DOMAIN eventMap /\ eventMap[fdOf[e]] = e
SlotOf(e) == pfds[index[e] + 1]

BitOf == [READ |-> "IN", WRITE |-> "OUT"]
Bits(want) == {BitOf[w] : w \in want}

\* Mutants: the flags of the event stored untranslated; a missing case.
RawFirstBits(want) == want
ReadFirstBits(want) == IF want = {"READ"} THEN Bits(want) ELSE {}

\* The switch of the first registration knows single interests only.
FirstBits(want) == IF want \in {{"READ"}, {"WRITE"}} THEN Bits(want) ELSE {}

Init ==
  /\ fdOf = [e \in Event |-> NoFd]
  /\ events = [e \in Event |-> {}]
  /\ index = [e \in Event |-> -1]
  /\ pfds = <<>>
  /\ eventMap = [f \in {} |-> f]

----------------------------------------------------------------------------
\* The assertions of the code.  The build keeps them, so a call that breaks
\* one aborts the process: the operations are disabled where they fail, and
\* AssertsHold below says that no owner ever gets there.

RegisterAsserts(e) ==
  IF index[e] = -1
  THEN fdOf[e] \notin DOMAIN eventMap
  ELSE /\ Registered(e)
       /\ index[e] + 1 \in DOMAIN pfds
       /\ SlotOf(e).fd \in {fdOf[e], Masked(fdOf[e])}

UnRegisterAsserts(e) ==
  fdOf[e] \in DOMAIN eventMap =>
    /\ Registered(e)
    /\ events[e] = {}
    /\ index[e] + 1 \in DOMAIN pfds
    /\ SlotOf(e).fd = Masked(fdOf[e])
    /\ SlotOf(e).events = {}
    /\ Unmasked(pfds[Len(pfds)].fd) \in DOMAIN eventMap

----------------------------------------------------------------------------
\* Poll::RegisterEvent: add a slot the first time, update it afterwards

AddSlot(e, want) ==
  /\ pfds' = Append(pfds, [fd |-> fdOf[e], events |-> FirstBits(want)])
  /\ index' = [index EXCEPT ![e] = Len(pfds)]
  /\ eventMap' = [f \in DOMAIN eventMap \cup {fdOf[e]} |->
                    IF f \in DOMAIN eventMap THEN eventMap[f] ELSE e]

\* Mutant: an event without interest is not muted.
NeverMuted(e, want, slot) ==
  [fd |-> fdOf[e], events |-> slot.events \cup Bits(want)]

\* An update adds bits; only an event left without interest loses them.
Refreshed(e, want, slot) ==
  IF want = {}
  THEN [fd |-> Masked(fdOf[e]), events |-> {}]
  ELSE [fd |-> fdOf[e], events |-> slot.events \cup Bits(want)]

UpdateSlot(e, want) ==
  /\ pfds' = [pfds EXCEPT ![index[e] + 1] = Refreshed(e, want, @)]
  /\ UNCHANGED <<index, eventMap>>

RegisterEvent(e, want) ==
  /\ RegisterAsserts(e)
  /\ events' = [events EXCEPT ![e] = want]
  /\ IF index[e] = -1 THEN AddSlot(e, want) ELSE UpdateSlot(e, want)
  /\ UNCHANGED fdOf

\* Mutants: the moved event is not told its slot; the array is compacted.
ForgetfulRemoveSlot(e) ==
  LET last == Len(pfds) IN
  /\ pfds' = [i \in 1..(last - 1) |->
                IF i = index[e] + 1 THEN pfds[last] ELSE pfds[i]]
  /\ eventMap' = [f \in DOMAIN eventMap \ {fdOf[e]} |-> eventMap[f]]
  /\ UNCHANGED index

PopLastSlot(e) ==
  LET last == Len(pfds)
      moved == eventMap[Unmasked(pfds[last].fd)]
  IN  /\ pfds' = [i \in 1..(last - 1) |-> pfds[i]]
      /\ index' = [index EXCEPT ![moved] = index[e]]
      /\ eventMap' = [f \in DOMAIN eventMap \ {fdOf[e]} |-> eventMap[f]]

\* Poll::UnRegisterEvent: the last slot fills the hole, its owner is told
RemoveSlot(e) ==
  LET last == Len(pfds)
      hole == index[e] + 1
      moved == eventMap[Unmasked(pfds[last].fd)]
  IN  /\ pfds' = [i \in 1..(last - 1) |->
                    IF i = hole THEN pfds[last] ELSE pfds[i]]
      /\ index' = IF hole = last THEN index
                                 ELSE [index EXCEPT ![moved] = index[e]]
      /\ eventMap' = [f \in DOMAIN eventMap \ {fdOf[e]} |-> eventMap[f]]

UnRegisterEvent(e) ==
  /\ UnRegisterAsserts(e)
  /\ IF fdOf[e] \in DOMAIN eventMap
     THEN RemoveSlot(e)
     ELSE UNCHANGED <<index, pfds, eventMap>>
  /\ UNCHANGED <<fdOf, events>>

----------------------------------------------------------------------------
\* What the owners (Acceptor, Connector, TcpEvent) do with their IoEvent.
\* An owner enables its event only while no other event holds the descriptor
\* (Connector gives its own up before TcpEvent takes the descriptor over),
\* never enables it again once it is unregistered, and unregisters it after
\* DisableAllEvent.

MayEnable(e) ==
  /\ Alive(e)
  /\ Registered(e) \/ (index[e] = -1 /\ fdOf[e] \notin DOMAIN eventMap)

MayMute(e) == IF MuteBeforeUse THEN MayEnable(e) ELSE Alive(e) /\ Registered(e)

MayUnRegister(e) ==
  /\ Alive(e)
  /\ events[e] = {}
  /\ fdOf[e] \in DOMAIN eventMap => Registered(e)

NewIoEvent(e, f) ==
  /\ ~Alive(e)
  /\ fdOf' = [fdOf EXCEPT ![e] = f]
  /\ events' = [events EXCEPT ![e] = {}]
  /\ index' = [index EXCEPT ![e] = -1]
  /\ UNCHANGED <<pfds, eventMap>>

DestroyIoEvent(e) ==
  /\ Alive(e)
  /\ ~Registered(e)
  /\ fdOf' = [fdOf EXCEPT ![e] = NoFd]
  /\ UNCHANGED <<events, index, pfds, eventMap>>

EnableReading(e) == MayEnable(e) /\ RegisterEvent(e, events[e] \cup {"READ"})
EnableWriting(e) == MayEnable(e) /\ RegisterEvent(e, events[e] \cup {"WRITE"})
DisableReading(e) == MayMute(e) /\ RegisterEvent(e, events[e] \ {"READ"})
DisableWriting(e) == MayMute(e) /\ RegisterEvent(e, events[e] \ {"WRITE"})
DisableAllEvent(e) == MayMute(e) /\ RegisterEvent(e, {})
UnRegister(e) == MayUnRegister(e) /\ UnRegisterEvent(e)

Operate(e) ==
  \/ EnableReading(e)
  \/ EnableWriting(e)
  \/ DisableReading(e)
  \/ DisableWriting(e)
  \/ DisableAllEvent(e)
  \/ UnRegister(e)

Next ==
  \E e \in Event :
    \/ \E f \in Fd : NewIoEvent(e, f)
    \/ DestroyIoEvent(e)
    \/ Operate(e)

Spec == Init /\ [][Next]_vars

----------------------------------------------------------------------------
\* Properties

Slot == [fd : Int, events : SUBSET PollBit]

\* Every part of the table has its type.
TypeOK ==
  /\ fdOf \in [Event -> Fd \cup {NoFd}]
  /\ events \in [Event -> SUBSET Interest]
  /\ index \in [Event -> Nat \cup {-1}]
  /\ pfds \in Seq(Slot)
  /\ DOMAIN eventMap \subseteq Fd
  /\ eventMap \in [DOMAIN eventMap -> Event]

\* Slots and map entries correspond one to one: the event of every entry
\* knows a slot that carries its descriptor, and every slot is the one its
\* event knows.  This is what PollEvents relies on when it looks up the
\* descriptor of a ready slot, and what the swap of UnRegisterEvent must
\* restore for an event it was not called on.
OwnersHaveSlots ==
  \A f \in DOMAIN eventMap :
    LET e == eventMap[f] IN
    /\ fdOf[e] = f
    /\ index[e] + 1 \in DOMAIN pfds
    /\ SlotOf(e).fd \in {f, Masked(f)}

SlotsHaveOwners ==
  \A i \in DOMAIN pfds :
    LET f == Unmasked(pfds[i].fd) IN
    f \in DOMAIN eventMap /\ index[eventMap[f]] = i - 1

TableConsistent == OwnersHaveSlots /\ SlotsHaveOwners

\* A slot is hidden from poll(2) exactly when its event wants nothing, and a
\* slot that is not hidden polls at least for all its event wants: no owner
\* waits for a condition the kernel is never asked about.
InterestIsPolled ==
  \A f \in DOMAIN eventMap :
    LET e == eventMap[f] IN
    /\ SlotOf(e).fd = f <=> events[e] # {}
    /\ Bits(events[e]) \subseteq SlotOf(e).events
    /\ events[e] = {} => SlotOf(e).events = {}

\* The table is what its owners take it for: each has its slot, and the slot
\* asks the kernel for all that its owner waits for.
TableAgrees == TableConsistent /\ InterestIsPolled

\* Whatever an owner may legally do next meets the assertions of poll.cc.
AssertsHold ==
  \A e \in Event :
    /\ MayEnable(e) \/ MayMute(e) => RegisterAsserts(e)
    /\ MayUnRegister(e) => UnRegisterAsserts(e)

\* To its owners the table is the plain set PollSet describes: an operation
\* on one event changes what the kernel is asked about that event's
\* descriptor and nothing else, although UnRegisterEvent moves the slot and
\* rewrites the index of another event.
Table == INSTANCE PollSet WITH
  holder <- eventMap,
  polled <- [f \in DOMAIN eventMap |-> SlotOf(eventMap[f]).events]

ImplementsPollSet == Table!Spec
====
