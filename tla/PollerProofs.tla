---- MODULE PollerProofs ----
(***************************************************************************)
(* For every set of events and descriptors: the poll table is well typed   *)
(* and consistent, and no legal call of an owner fails an assertion of     *)
(* poll.cc.                                                                *)
(***************************************************************************)
EXTENDS Poller, TLAPS

\* An event that never had a slot never had an interest, so its first
\* registration is for a single one: all that FirstBits understands.
FreshIsIdle == \A e \in Event : index[e] = -1 => events[e] = {}

\* TableConsistent is inductive only together with the types; the interest
\* part needs owners that do not mute an event they never enabled.
Inv ==
  /\ TypeOK
  /\ TableConsistent
  /\ FreshIsIdle
  /\ ~MuteBeforeUse => InterestIsPolled

----------------------------------------------------------------------------
\* Hiding a descriptor is reversible and never yields a descriptor.
LEMMA MaskFacts ==
  ASSUME NEW f \in Fd
  PROVE  /\ f \in Nat
         /\ Masked(f) \in Int
         /\ Masked(f) < 0
         /\ Masked(f) # f
         /\ Unmasked(f) = f
         /\ Unmasked(Masked(f)) = f
  BY FdAssumption DEF Masked, Unmasked

\* The bits of an interest are poll bits, and none only for no interest.
LEMMA BitFacts ==
  ASSUME NEW want \in SUBSET Interest
  PROVE  /\ Bits(want) \in SUBSET PollBit
         /\ FirstBits(want) \in SUBSET PollBit
         /\ want \in {{"READ"}, {"WRITE"}} => FirstBits(want) = Bits(want)
  <1>1. Bits(want) \in SUBSET PollBit
    BY DEF Bits, BitOf, Interest, PollBit
  <1> QED  BY <1>1 DEF FirstBits

\* An owner that may act on a live event has a descriptor of Fd.
LEMMA AliveFd ==
  ASSUME TypeOK, NEW e \in Event, Alive(e)
  PROVE  fdOf[e] \in Fd
  BY DEF TypeOK, Alive

\* The event behind a map entry knows the slot that carries its descriptor.
LEMMA OwnerSlot ==
  ASSUME Inv, NEW f \in DOMAIN eventMap
  PROVE  /\ f \in Fd
         /\ eventMap[f] \in Event
         /\ fdOf[eventMap[f]] = f
         /\ index[eventMap[f]] \in Nat
         /\ index[eventMap[f]] + 1 \in DOMAIN pfds
         /\ Unmasked(SlotOf(eventMap[f]).fd) = f
  <1>1. f \in Fd /\ eventMap[f] \in Event
    BY DEF Inv, TypeOK
  <1>2. /\ fdOf[eventMap[f]] = f
        /\ index[eventMap[f]] + 1 \in DOMAIN pfds
        /\ SlotOf(eventMap[f]).fd \in {f, Masked(f)}
    BY DEF Inv, TableConsistent, OwnersHaveSlots
  <1>3. index[eventMap[f]] \in Nat
    BY <1>1, <1>2 DEF Inv, TypeOK
  <1> QED  BY <1>1, <1>2, <1>3, MaskFacts

\* Events of different descriptors have different slots.
LEMMA DistinctSlots ==
  ASSUME Inv, NEW f \in DOMAIN eventMap, NEW g \in DOMAIN eventMap, f # g
  PROVE  index[eventMap[f]] # index[eventMap[g]]
  BY OwnerSlot DEF SlotOf

\* The table starts empty.
LEMMA InitInv == Init => Inv
  BY DEF Init, Inv, TypeOK, TableConsistent, OwnersHaveSlots, SlotsHaveOwners,
         InterestIsPolled, NoFd, Interest, FreshIsIdle

----------------------------------------------------------------------------
\* Adding a slot keeps the table typed and consistent.
LEMMA AddSlotInv ==
  ASSUME Inv, NEW e \in Event, NEW want \in SUBSET Interest,
         Alive(e), index[e] = -1, RegisterAsserts(e),
         ~MuteBeforeUse => want \in {{"READ"}, {"WRITE"}},
         RegisterEvent(e, want)
  PROVE  Inv'
  <1> DEFINE s == [fd |-> fdOf[e], events |-> FirstBits(want)]
  <1>1. fdOf[e] \in Fd /\ fdOf[e] \notin DOMAIN eventMap
    BY AliveFd DEF RegisterAsserts, Inv
  <1>2. s \in Slot
    BY <1>1, MaskFacts, BitFacts DEF Slot
  <1>3. /\ pfds' = Append(pfds, s)
        /\ index' = [index EXCEPT ![e] = Len(pfds)]
        /\ events' = [events EXCEPT ![e] = want]
        /\ fdOf' = fdOf
        /\ eventMap' = [f \in DOMAIN eventMap \cup {fdOf[e]} |->
                          IF f \in DOMAIN eventMap THEN eventMap[f] ELSE e]
    BY DEF RegisterEvent, AddSlot
  <1>4. TypeOK'
    BY <1>1, <1>2, <1>3 DEF Inv, TypeOK
  <1>5. /\ Len(pfds) \in Nat
        /\ pfds' \in Seq(Slot)
        /\ DOMAIN pfds' = 1..(Len(pfds) + 1)
        /\ \A i \in 1..Len(pfds) : pfds'[i] = pfds[i]
        /\ pfds'[Len(pfds) + 1] = s
        /\ DOMAIN pfds = 1..Len(pfds)
    BY <1>2, <1>3 DEF Inv, TypeOK
  <1>6. \A f \in DOMAIN eventMap : eventMap[f] # e
    BY <1>1 DEF Inv, TableConsistent, OwnersHaveSlots
  <1>7. OwnersHaveSlots'
    <2> SUFFICES ASSUME NEW f \in DOMAIN eventMap'
                 PROVE  /\ fdOf'[eventMap'[f]] = f
                        /\ index'[eventMap'[f]] + 1 \in DOMAIN pfds'
                        /\ pfds'[index'[eventMap'[f]] + 1].fd \in {f, Masked(f)}
      BY DEF OwnersHaveSlots, SlotOf
    <2>1. CASE f = fdOf[e]
      BY <2>1, <1>1, <1>3, <1>5 DEF Inv, TypeOK
    <2>2. CASE f \in DOMAIN eventMap
      <3>1. eventMap'[f] = eventMap[f] /\ eventMap[f] \in Event
        BY <2>2, <1>3 DEF Inv, TypeOK
      <3>2. index'[eventMap[f]] = index[eventMap[f]]
        BY <2>2, <3>1, <1>3, <1>6 DEF Inv, TypeOK
      <3> QED
        BY <2>2, <3>1, <3>2, <1>3, <1>5
           DEF Inv, TypeOK, TableConsistent, OwnersHaveSlots, SlotOf
    <2> QED  BY <2>1, <2>2, <1>3
  <1>8. SlotsHaveOwners'
    <2> SUFFICES ASSUME NEW i \in DOMAIN pfds'
                 PROVE  /\ Unmasked(pfds'[i].fd) \in DOMAIN eventMap'
                        /\ index'[eventMap'[Unmasked(pfds'[i].fd)]] = i - 1
      BY DEF SlotsHaveOwners
    <2>1. CASE i = Len(pfds) + 1
      BY <2>1, <1>1, <1>3, <1>5, MaskFacts DEF Inv, TypeOK
    <2>2. CASE i \in DOMAIN pfds
      <3> DEFINE f == Unmasked(pfds[i].fd)
      <3>1. f \in DOMAIN eventMap /\ index[eventMap[f]] = i - 1
        BY <2>2 DEF Inv, TableConsistent, SlotsHaveOwners
      <3> QED
        BY <2>2, <3>1, <1>3, <1>5, <1>6 DEF Inv, TypeOK
    <2> QED  BY <2>1, <2>2, <1>5
  <1>9. ASSUME ~MuteBeforeUse PROVE InterestIsPolled'
    <2> SUFFICES ASSUME NEW f \in DOMAIN eventMap', NEW g, g = eventMap'[f]
                 PROVE  /\ SlotOf(g).fd' = f <=> events'[g] # {}
                        /\ Bits(events'[g]) \subseteq SlotOf(g).events'
                        /\ events'[g] = {} => SlotOf(g).events' = {}
      BY DEF InterestIsPolled, Bits
    <2>1. CASE f = fdOf[e]
      <3>1. g = e /\ events'[g] = want /\ SlotOf(g)' = s
        BY <2>1, <1>1, <1>3, <1>5 DEF SlotOf, Inv, TypeOK
      <3> QED  BY <3>1, <2>1, <1>9, BitFacts
    <2>2. CASE f \in DOMAIN eventMap
      <3>1. g = eventMap[f] /\ g \in Event /\ g # e
        BY <2>2, <1>3, <1>6 DEF Inv, TypeOK
      <3>2. events'[g] = events[g] /\ SlotOf(g)' = SlotOf(g)
        BY <3>1, <2>2, <1>3, <1>5
           DEF SlotOf, Inv, TypeOK, TableConsistent, OwnersHaveSlots
      <3> QED
        BY <3>1, <3>2, <2>2, <1>9 DEF Inv, InterestIsPolled
    <2> QED  BY <2>1, <2>2, <1>3
  <1>10. FreshIsIdle'
    BY <1>3, <1>5 DEF Inv, TypeOK, FreshIsIdle
  <1> QED
    BY <1>4, <1>7, <1>8, <1>9, <1>10 DEF Inv, TableConsistent

\* Updating a slot keeps the table typed and consistent.
LEMMA UpdateSlotInv ==
  ASSUME Inv, NEW e \in Event, NEW want \in SUBSET Interest,
         Alive(e), index[e] # -1, RegisterEvent(e, want)
  PROVE  Inv'
  <1> DEFINE k == index[e] + 1
             s == Refreshed(e, want, pfds[k])
  <1>1. /\ fdOf[e] \in DOMAIN eventMap
        /\ eventMap[fdOf[e]] = e
        /\ k \in DOMAIN pfds
    BY DEF RegisterEvent, RegisterAsserts, Registered
  <1>2. fdOf[e] \in Fd
    BY AliveFd DEF Inv
  <1>3. /\ s \in Slot
        /\ Unmasked(s.fd) = fdOf[e]
        /\ s.fd \in {fdOf[e], Masked(fdOf[e])}
        /\ s.fd = fdOf[e] <=> want # {}
        /\ Bits(want) \subseteq s.events
        /\ want = {} => s.events = {}
    <2>1. pfds[k] \in Slot
      BY <1>1 DEF Inv, TypeOK
    <2>2. CASE want = {}
      <3>1. s = [fd |-> Masked(fdOf[e]), events |-> {}] /\ Bits(want) = {}
        BY <2>2 DEF Refreshed, Bits
      <3> HIDE DEF s
      <3> QED  BY <2>2, <3>1, <1>2, MaskFacts DEF Slot
    <2>3. CASE want # {}
      <3>1. s = [fd |-> fdOf[e], events |-> pfds[k].events \cup Bits(want)]
        BY <2>3 DEF Refreshed
      <3> HIDE DEF s
      <3> QED  BY <2>1, <2>3, <3>1, <1>2, MaskFacts, BitFacts DEF Slot
    <2> QED  BY <2>2, <2>3
  <1>4. /\ pfds' = [pfds EXCEPT ![k] = s]
        /\ index' = index
        /\ eventMap' = eventMap
        /\ events' = [events EXCEPT ![e] = want]
        /\ fdOf' = fdOf
    BY DEF RegisterEvent, UpdateSlot
  <1>5. /\ DOMAIN pfds' = DOMAIN pfds
        /\ pfds'[k] = s
        /\ \A i \in DOMAIN pfds : i # k => pfds'[i] = pfds[i]
    BY <1>1, <1>4 DEF Inv, TypeOK
  <1>6. TypeOK'
    BY <1>1, <1>3, <1>4 DEF Inv, TypeOK
  <1>7. OwnersHaveSlots'
    <2> SUFFICES ASSUME NEW f \in DOMAIN eventMap
                 PROVE  /\ fdOf[eventMap[f]] = f
                        /\ index[eventMap[f]] + 1 \in DOMAIN pfds'
                        /\ pfds'[index[eventMap[f]] + 1].fd \in {f, Masked(f)}
      BY <1>4 DEF OwnersHaveSlots, SlotOf
    <2>1. CASE f = fdOf[e]
      BY <2>1, <1>1, <1>3, <1>5
    <2>2. CASE f # fdOf[e]
      BY <2>2, <1>1, <1>5, DistinctSlots, OwnerSlot
         DEF Inv, TableConsistent, OwnersHaveSlots, SlotOf
    <2> QED  BY <2>1, <2>2
  <1>8. SlotsHaveOwners'
    <2> SUFFICES ASSUME NEW i \in DOMAIN pfds
                 PROVE  /\ Unmasked(pfds'[i].fd) \in DOMAIN eventMap
                        /\ index[eventMap[Unmasked(pfds'[i].fd)]] = i - 1
      BY <1>4, <1>5 DEF SlotsHaveOwners
    <2>1. CASE i = k
      BY <2>1, <1>1, <1>3, <1>5, OwnerSlot
    <2>2. CASE i # k
      BY <2>2, <1>5 DEF Inv, TableConsistent, SlotsHaveOwners
    <2> QED  BY <2>1, <2>2
  <1>9. ASSUME ~MuteBeforeUse PROVE InterestIsPolled'
    <2> SUFFICES ASSUME NEW f \in DOMAIN eventMap, NEW g, g = eventMap[f]
                 PROVE  /\ SlotOf(g).fd' = f <=> events'[g] # {}
                        /\ Bits(events'[g]) \subseteq SlotOf(g).events'
                        /\ events'[g] = {} => SlotOf(g).events' = {}
      BY <1>4 DEF InterestIsPolled, Bits
    <2>1. /\ g \in Event /\ fdOf[g] = f
          /\ index[g] \in Nat /\ index[g] + 1 \in DOMAIN pfds
      BY OwnerSlot
    <2>2. CASE g = e
      <3>1. f = fdOf[e] /\ events'[g] = want /\ SlotOf(g)' = s
        BY <2>1, <2>2, <1>4, <1>5 DEF SlotOf, Inv, TypeOK
      <3> QED  BY <3>1, <1>3
    <2>3. CASE g # e
      <3>1. index[g] # index[e]
        BY <2>1, <2>3, <1>1, DistinctSlots
      <3>2. events'[g] = events[g] /\ SlotOf(g)' = SlotOf(g)
        BY <3>1, <2>1, <2>3, <1>4, <1>5 DEF SlotOf, Inv, TypeOK
      <3> QED
        BY <3>2, <1>9 DEF Inv, InterestIsPolled
    <2> QED  BY <2>2, <2>3
  <1>10. FreshIsIdle'
    BY <1>4 DEF Inv, TypeOK, FreshIsIdle
  <1> QED
    BY <1>6, <1>7, <1>8, <1>9, <1>10 DEF Inv, TableConsistent

\* Removing a slot keeps the table typed and consistent: every other event
\* still knows the same slot, wherever that slot has moved.
LEMMA RemoveSlotInv ==
  ASSUME Inv, NEW e \in Event, UnRegisterEvent(e), fdOf[e] \in DOMAIN eventMap
  PROVE  /\ Inv'
         /\ \A f \in DOMAIN eventMap' : SlotOf(eventMap[f])' = SlotOf(eventMap[f])
  <1> DEFINE n == Len(pfds)
             k == index[e] + 1
             m == Unmasked(pfds[n].fd)
             moved == eventMap[m]
  <1>1. /\ eventMap[fdOf[e]] = e
        /\ k \in DOMAIN pfds
    BY DEF UnRegisterEvent, UnRegisterAsserts, Registered
  <1>2. /\ n \in Nat
        /\ DOMAIN pfds = 1..n
        /\ \A i \in 1..n : pfds[i] \in Slot
        /\ index[e] \in Nat
        /\ k \in 1..n
    BY <1>1, OwnerSlot DEF Inv, TypeOK
  <1>3. /\ m \in DOMAIN eventMap
        /\ index[moved] = n - 1
    BY <1>2 DEF Inv, TableConsistent, SlotsHaveOwners
  <1>4. /\ pfds' = [i \in 1..(n - 1) |-> IF i = k THEN pfds[n] ELSE pfds[i]]
        /\ index' = IF k = n THEN index ELSE [index EXCEPT ![moved] = index[e]]
        /\ eventMap' = [f \in DOMAIN eventMap \ {fdOf[e]} |-> eventMap[f]]
        /\ UNCHANGED <<fdOf, events>>
    BY DEF UnRegisterEvent, RemoveSlot
  <1> HIDE DEF n, k, m, moved
  <1>5. TypeOK'
    <2>1. pfds' \in Seq(Slot)
      <3>1. n - 1 \in Nat /\ pfds' \in [1..(n - 1) -> Slot]
        BY <1>2, <1>4
      <3> QED  BY <3>1
    <2>2. index' \in [Event -> Nat \cup {-1}]
      BY <1>2, <1>4 DEF Inv, TypeOK
    <2>3. DOMAIN eventMap' \subseteq Fd /\ eventMap' \in [DOMAIN eventMap' -> Event]
      BY <1>4 DEF Inv, TypeOK
    <2> QED  BY <2>1, <2>2, <2>3, <1>4 DEF Inv, TypeOK
  <1>6. ASSUME NEW f \in DOMAIN eventMap'
        PROVE  /\ f \in DOMAIN eventMap
               /\ eventMap'[f] = eventMap[f]
               /\ eventMap[f] \in Event
               /\ index'[eventMap[f]] + 1 \in DOMAIN pfds'
               /\ SlotOf(eventMap[f])' = SlotOf(eventMap[f])
    <2> DEFINE g == eventMap[f]
    <2>1. f \in DOMAIN eventMap /\ f # fdOf[e] /\ eventMap'[f] = g
      BY <1>4
    <2>2. /\ g \in Event
          /\ index[g] \in Nat
          /\ index[g] + 1 \in 1..n
          /\ index[g] + 1 # k
      BY <2>1, <1>1, <1>2, OwnerSlot, DistinctSlots DEF k
    <2>3. CASE f = m
      <3>1. g = moved /\ k # n
        BY <2>1, <2>2, <2>3, <1>2, <1>3 DEF moved
      <3>2. index'[g] = index[e] /\ k \in DOMAIN pfds' /\ pfds'[k] = pfds[n]
        BY <3>1, <2>2, <1>2, <1>4 DEF Inv, TypeOK
      <3>3. index'[g] + 1 = k /\ index[g] + 1 = n
        BY <3>1, <3>2, <1>2, <1>3 DEF k
      <3> QED  BY <2>1, <2>2, <3>2, <3>3 DEF SlotOf
    <2>4. CASE f # m
      <3>1. index[g] + 1 # n
        BY <2>1, <2>4, <2>2, <1>2, <1>3, DistinctSlots DEF moved
      <3>2. g # moved
        BY <2>1, <2>4, <1>3, OwnerSlot DEF moved
      <3>3. index'[g] = index[g]
        BY <3>2, <2>2, <1>4 DEF Inv, TypeOK
      <3>4. index[g] + 1 \in DOMAIN pfds' /\ pfds'[index[g] + 1] = pfds[index[g] + 1]
        BY <3>1, <2>2, <1>2, <1>4
      <3> QED  BY <2>1, <2>2, <3>3, <3>4 DEF SlotOf
    <2> QED  BY <2>3, <2>4
  <1>7. OwnersHaveSlots'
    <2> SUFFICES ASSUME NEW f \in DOMAIN eventMap'
                 PROVE  /\ fdOf[eventMap[f]] = f
                        /\ index'[eventMap[f]] + 1 \in DOMAIN pfds'
                        /\ SlotOf(eventMap[f]).fd' \in {f, Masked(f)}
      BY <1>4, <1>6 DEF OwnersHaveSlots, SlotOf, Masked
    <2> QED
      BY <1>6 DEF Inv, TableConsistent, OwnersHaveSlots
  <1>8. SlotsHaveOwners'
    <2> SUFFICES ASSUME NEW i \in 1..(n - 1)
                 PROVE  /\ Unmasked(pfds'[i].fd) \in DOMAIN eventMap'
                        /\ index'[eventMap'[Unmasked(pfds'[i].fd)]] = i - 1
      BY <1>4 DEF SlotsHaveOwners, Unmasked
    <2>1. CASE i = k
      <3>1. pfds'[i] = pfds[n] /\ k # n
        BY <2>1, <1>2, <1>4
      <3>2. m # fdOf[e]
        BY <3>1, <1>1, <1>2, <1>3 DEF k, moved
      <3>3. eventMap'[m] = moved /\ m \in DOMAIN eventMap' /\ moved \in Event
        BY <3>2, <1>3, <1>4, OwnerSlot DEF moved
      <3>4. index'[moved] = i - 1
        BY <3>1, <3>3, <2>1, <1>2, <1>4 DEF k, Inv, TypeOK
      <3> QED  BY <3>1, <3>3, <3>4 DEF m
    <2>2. CASE i # k
      <3> DEFINE f == Unmasked(pfds[i].fd)
      <3>1. pfds'[i] = pfds[i] /\ i \in DOMAIN pfds
        BY <2>2, <1>2, <1>4
      <3>2. f \in DOMAIN eventMap /\ index[eventMap[f]] = i - 1
        BY <3>1 DEF Inv, TableConsistent, SlotsHaveOwners
      <3>3. f # fdOf[e] /\ eventMap[f] # moved
        BY <3>2, <2>2, <1>1, <1>2, <1>3 DEF k
      <3>4. index'[eventMap[f]] = i - 1
        BY <3>2, <3>3, <1>4, OwnerSlot DEF Inv, TypeOK
      <3> QED  BY <3>1, <3>2, <3>3, <3>4, <1>4
    <2> QED  BY <2>1, <2>2
  <1>9. ASSUME ~MuteBeforeUse PROVE InterestIsPolled'
    <2> SUFFICES ASSUME NEW f \in DOMAIN eventMap', NEW g, g = eventMap[f]
                 PROVE  /\ SlotOf(g).fd' = f <=> events'[g] # {}
                        /\ Bits(events'[g]) \subseteq SlotOf(g).events'
                        /\ events'[g] = {} => SlotOf(g).events' = {}
      BY <1>6 DEF InterestIsPolled, Bits
    <2>1. f \in DOMAIN eventMap /\ SlotOf(g)' = SlotOf(g) /\ events' = events
      BY <1>4, <1>6
    <2> QED
      BY <2>1, <1>9 DEF Inv, InterestIsPolled
  <1>10. FreshIsIdle'
    <2> SUFFICES ASSUME NEW g \in Event, index'[g] = -1
                 PROVE  events[g] = {}
      BY <1>4 DEF FreshIsIdle
    <2>1. index[g] = -1
      BY <1>2, <1>4 DEF Inv, TypeOK
    <2> QED  BY <2>1 DEF Inv, FreshIsIdle
  <1> QED
    BY <1>5, <1>6, <1>7, <1>8, <1>9, <1>10 DEF Inv, TableConsistent

----------------------------------------------------------------------------
\* A registration by an owner keeps the invariant.
LEMMA RegisterInv ==
  ASSUME Inv, NEW e \in Event, NEW want \in SUBSET Interest,
         Alive(e), RegisterEvent(e, want),
         index[e] = -1 /\ ~MuteBeforeUse => want \in {{"READ"}, {"WRITE"}}
  PROVE  Inv'
  <1>1. CASE index[e] = -1
    <2>1. RegisterAsserts(e)
      BY DEF RegisterEvent
    <2> QED  BY <1>1, <2>1, AddSlotInv
  <1>2. CASE index[e] # -1
    BY <1>2, UpdateSlotInv
  <1> QED  BY <1>1, <1>2

\* An event that is registered has an index, so muting it is an update.
LEMMA MutedHasIndex ==
  ASSUME Inv, NEW e \in Event, MayMute(e), index[e] = -1
  PROVE  MuteBeforeUse
  BY OwnerSlot DEF MayMute, Registered

\* Every operation of an owner keeps the invariant.
LEMMA OperateInv ==
  ASSUME Inv, NEW e \in Event, Operate(e)
  PROVE  Inv'
  <1>1. events[e] \in SUBSET Interest
    BY DEF Inv, TypeOK
  <1>2. index[e] = -1 => events[e] = {}
    BY DEF Inv, FreshIsIdle
  <1>3. CASE EnableReading(e)
    BY <1>1, <1>2, <1>3, RegisterInv DEF EnableReading, MayEnable, Interest
  <1>4. CASE EnableWriting(e)
    BY <1>1, <1>2, <1>4, RegisterInv DEF EnableWriting, MayEnable, Interest
  <1>5. CASE DisableReading(e)
    BY <1>1, <1>5, RegisterInv, MutedHasIndex
       DEF DisableReading, MayMute, MayEnable
  <1>6. CASE DisableWriting(e)
    BY <1>1, <1>6, RegisterInv, MutedHasIndex
       DEF DisableWriting, MayMute, MayEnable
  <1>7. CASE DisableAllEvent(e)
    BY <1>7, RegisterInv, MutedHasIndex DEF DisableAllEvent, MayMute, MayEnable
  <1>8. CASE UnRegister(e)
    <2>1. UnRegisterEvent(e)
      BY <1>8 DEF UnRegister
    <2>2. CASE fdOf[e] \in DOMAIN eventMap
      BY <2>1, <2>2, RemoveSlotInv
    <2>3. CASE fdOf[e] \notin DOMAIN eventMap
      <3>1. UNCHANGED vars
        BY <2>1, <2>3 DEF UnRegisterEvent, vars
      <3> QED
        BY <3>1 DEF vars, Inv, TypeOK, TableConsistent, OwnersHaveSlots,
                    SlotsHaveOwners, InterestIsPolled, FreshIsIdle, SlotOf, Bits,
                    Masked, Unmasked
    <2> QED  BY <2>2, <2>3
  <1> QED
    BY <1>3, <1>4, <1>5, <1>6, <1>7, <1>8 DEF Operate

\* A step that only builds or destroys objects outside the table keeps it.
LEMMA ObjectInv ==
  ASSUME Inv, NEW e \in Event, ~Registered(e),
         UNCHANGED <<pfds, eventMap>>, TypeOK', FreshIsIdle',
         \A g \in Event \ {e} : /\ fdOf'[g] = fdOf[g]
                                /\ index'[g] = index[g]
                                /\ events'[g] = events[g]
  PROVE  Inv'
  <1>1. ASSUME NEW f \in DOMAIN eventMap
        PROVE  /\ eventMap[f] \in Event \ {e}
               /\ fdOf'[eventMap[f]] = fdOf[eventMap[f]]
               /\ index'[eventMap[f]] = index[eventMap[f]]
               /\ events'[eventMap[f]] = events[eventMap[f]]
               /\ SlotOf(eventMap[f])' = SlotOf(eventMap[f])
    BY OwnerSlot DEF Registered, SlotOf
  <1>2. OwnersHaveSlots'
    BY <1>1 DEF Inv, TableConsistent, OwnersHaveSlots, Masked
  <1>3. SlotsHaveOwners'
    BY <1>1 DEF Inv, TableConsistent, SlotsHaveOwners, Unmasked
  <1>4. ASSUME ~MuteBeforeUse PROVE InterestIsPolled'
    BY <1>1, <1>4 DEF Inv, InterestIsPolled, Bits
  <1> QED  BY <1>2, <1>3, <1>4 DEF Inv, TableConsistent

\* Every step keeps the invariant.
LEMMA NextInv == Inv /\ [Next]_vars => Inv'
  <1> SUFFICES ASSUME Inv, [Next]_vars PROVE Inv'
    OBVIOUS
  <1>1. ASSUME NEW e \in Event, NEW f \in Fd, NewIoEvent(e, f) PROVE Inv'
    <2>1. TypeOK' /\ FreshIsIdle'
      BY <1>1 DEF NewIoEvent, Inv, TypeOK, FreshIsIdle
    <2>2. ~Registered(e)
      BY <1>1, FdAssumption DEF NewIoEvent, Alive, Registered, Inv, TypeOK, NoFd
    <2> QED
      BY <1>1, <2>1, <2>2, ObjectInv DEF NewIoEvent, Inv, TypeOK
  <1>2. ASSUME NEW e \in Event, DestroyIoEvent(e) PROVE Inv'
    <2>1. TypeOK' /\ FreshIsIdle'
      BY <1>2 DEF DestroyIoEvent, Inv, TypeOK, FreshIsIdle
    <2> QED
      BY <1>2, <2>1, ObjectInv DEF DestroyIoEvent, Inv, TypeOK
  <1>3. ASSUME NEW e \in Event, Operate(e) PROVE Inv'
    BY <1>3, OperateInv
  <1>4. CASE UNCHANGED vars
    BY <1>4 DEF vars, Inv, TypeOK, TableConsistent, OwnersHaveSlots,
                SlotsHaveOwners, InterestIsPolled, FreshIsIdle, SlotOf, Bits,
                Masked, Unmasked
  <1> QED  BY <1>1, <1>2, <1>3, <1>4 DEF Next

----------------------------------------------------------------------------
\* Poll and IoEvent keep the invariant of the table for ever.
THEOREM Invariance == Spec => []Inv
  BY InitInv, NextInv, PTL DEF Spec

\* Every part of the poll table always has its type.
THEOREM TypeCorrect == Spec => []TypeOK
  <1>1. Inv => TypeOK
    BY DEF Inv
  <1> QED  BY <1>1, Invariance, PTL

\* pfds_, io_events_map and the indices of the events always correspond one
\* to one, whatever slots UnRegisterEvent has moved.
THEOREM Consistent == Spec => []TableConsistent
  <1>1. Inv => TableConsistent
    BY DEF Inv
  <1> QED  BY <1>1, Invariance, PTL

\* Where no owner mutes an event it never enabled, the kernel is also always
\* asked about everything the owners want.
THEOREM TableAlwaysAgrees == ASSUME ~MuteBeforeUse PROVE Spec => []TableAgrees
  <1>1. Inv => TableAgrees
    BY DEF Inv, TableAgrees
  <1> QED  BY <1>1, Invariance, PTL

\* Under the same condition no legal call of RegisterEvent or
\* UnRegisterEvent ever fails an assertion.
THEOREM NoAssertFails == ASSUME ~MuteBeforeUse PROVE Spec => []AssertsHold
  <1>1. Inv => AssertsHold
    <2> SUFFICES ASSUME Inv, NEW e \in Event
                 PROVE  /\ MayEnable(e) \/ MayMute(e) => RegisterAsserts(e)
                        /\ MayUnRegister(e) => UnRegisterAsserts(e)
      BY DEF AssertsHold
    <2>1. ASSUME Registered(e)
          PROVE  /\ index[e] # -1
                 /\ index[e] + 1 \in DOMAIN pfds
                 /\ SlotOf(e).fd \in {fdOf[e], Masked(fdOf[e])}
                 /\ SlotOf(e).fd = fdOf[e] <=> events[e] # {}
                 /\ events[e] = {} => SlotOf(e).events = {}
      BY <2>1, OwnerSlot
         DEF Registered, Inv, TableConsistent, OwnersHaveSlots, InterestIsPolled
    <2>2. ASSUME Registered(e)
          PROVE  Unmasked(pfds[Len(pfds)].fd) \in DOMAIN eventMap
      <3>1. Len(pfds) \in DOMAIN pfds
        BY <2>1, <2>2 DEF Inv, TypeOK
      <3> QED  BY <3>1 DEF Inv, TableConsistent, SlotsHaveOwners
    <2>3. MayEnable(e) \/ MayMute(e) => RegisterAsserts(e)
      BY <2>1 DEF MayEnable, MayMute, RegisterAsserts
    <2>4. MayUnRegister(e) => UnRegisterAsserts(e)
      BY <2>1, <2>2 DEF MayUnRegister, UnRegisterAsserts
    <2> QED  BY <2>3, <2>4
  <1> QED  BY <1>1, Invariance, PTL

----------------------------------------------------------------------------
\* The poll table implements PollSet.  polled is the refinement mapping's
\* value of the abstract variable of that name.
polled == [f \in DOMAIN eventMap |-> SlotOf(eventMap[f]).events]

\* A first registration is a Watch of the abstract set.
LEMMA AddSlotRefines ==
  ASSUME Inv, NEW e \in Event, NEW want \in SUBSET Interest,
         Alive(e), index[e] = -1, RegisterEvent(e, want)
  PROVE  Table!Next
  <1> DEFINE f == fdOf[e]
             bits == FirstBits(want)
  <1>1. f \in Fd /\ f \notin DOMAIN eventMap /\ bits \in SUBSET PollBit
    BY AliveFd, BitFacts DEF Inv, RegisterEvent, RegisterAsserts
  <1>2. /\ pfds' = Append(pfds, [fd |-> f, events |-> bits])
        /\ index' = [index EXCEPT ![e] = Len(pfds)]
        /\ eventMap' = [g \in DOMAIN eventMap \cup {f} |->
                          IF g \in DOMAIN eventMap THEN eventMap[g] ELSE e]
    BY DEF RegisterEvent, AddSlot
  <1> HIDE DEF f, bits
  <1>3. SlotOf(e)' = [fd |-> f, events |-> bits]
    BY <1>2 DEF SlotOf, Inv, TypeOK
  <1>4. ASSUME NEW g \in DOMAIN eventMap
        PROVE  SlotOf(eventMap[g])' = SlotOf(eventMap[g])
    <2>1. eventMap[g] # e
      BY <1>1, OwnerSlot DEF f
    <2>2. index'[eventMap[g]] = index[eventMap[g]]
      BY <1>2, <2>1, OwnerSlot DEF Inv, TypeOK
    <2> QED
      BY <1>2, <2>2, OwnerSlot DEF SlotOf, Inv, TypeOK
  <1>5. eventMap' = Table!Put(eventMap, f, e)
    BY <1>1, <1>2 DEF Table!Put
  <1>6. polled' = Table!Put(polled, f, bits)
    BY <1>1, <1>2, <1>3, <1>4 DEF Table!Put, polled
  <1>7. Table!Watch(e, f, bits)
    BY <1>1, <1>5, <1>6 DEF Table!Watch, polled
  <1> QED  BY <1>1, <1>7 DEF Table!Next

\* An update is a Mute when the interest is gone, else an Extend.
LEMMA UpdateSlotRefines ==
  ASSUME Inv, NEW e \in Event, NEW want \in SUBSET Interest,
         Alive(e), index[e] # -1, RegisterEvent(e, want)
  PROVE  Table!Next
  <1> DEFINE f == fdOf[e]
  <1>1. f \in Fd /\ f \in DOMAIN eventMap /\ eventMap[f] = e
    BY AliveFd DEF Inv, RegisterEvent, RegisterAsserts, Registered
  <1>2. /\ pfds' = [pfds EXCEPT ![index[e] + 1] = Refreshed(e, want, SlotOf(e))]
        /\ index' = index
        /\ eventMap' = eventMap
    BY DEF RegisterEvent, UpdateSlot, SlotOf
  <1> HIDE DEF f
  <1>3. SlotOf(e)' = Refreshed(e, want, SlotOf(e))
    BY <1>1, <1>2, OwnerSlot DEF SlotOf, Inv, TypeOK
  <1>4. ASSUME NEW g \in DOMAIN eventMap, g # f
        PROVE  SlotOf(eventMap[g])' = SlotOf(eventMap[g])
    BY <1>1, <1>2, <1>4, OwnerSlot, DistinctSlots DEF SlotOf, Inv, TypeOK
  <1>5. CASE want = {}
    <2>1. SlotOf(e).events' = {}
      BY <1>3, <1>5 DEF Refreshed
    <2>2. polled' = Table!Put(polled, f, {})
      BY <1>1, <1>2, <1>4, <2>1 DEF Table!Put, polled
    <2>3. Table!Mute(f)
      BY <1>1, <1>2, <2>2 DEF Table!Mute, polled
    <2> QED  BY <1>1, <2>3 DEF Table!Next
  <1>6. CASE want # {}
    <2>1. SlotOf(e).events' = SlotOf(e).events \cup Bits(want)
      BY <1>3, <1>6 DEF Refreshed
    <2>2. polled' = Table!Put(polled, f, polled[f] \cup Bits(want))
      BY <1>1, <1>2, <1>4, <2>1 DEF Table!Put, polled
    <2>3. Table!Extend(f, Bits(want))
      BY <1>1, <1>2, <2>2 DEF Table!Extend, polled
    <2> QED  BY <1>1, <2>3, BitFacts DEF Table!Next
  <1> QED  BY <1>5, <1>6

\* Unregistering is a Drop of the abstract set.
LEMMA RemoveSlotRefines ==
  ASSUME Inv, NEW e \in Event, Alive(e), UnRegisterEvent(e),
         fdOf[e] \in DOMAIN eventMap
  PROVE  Table!Next
  <1> DEFINE f == fdOf[e]
  <1>1. f \in Fd /\ f \in DOMAIN eventMap /\ polled[f] = {}
    BY AliveFd
       DEF Inv, UnRegisterEvent, UnRegisterAsserts, Registered, SlotOf, polled
  <1>2. eventMap' = [g \in DOMAIN eventMap \ {f} |-> eventMap[g]]
    BY DEF UnRegisterEvent, RemoveSlot
  <1>3. \A g \in DOMAIN eventMap' : SlotOf(eventMap[g])' = SlotOf(eventMap[g])
    BY RemoveSlotInv
  <1> HIDE DEF f
  <1>4. polled' = Table!Without(polled, f)
    BY <1>2, <1>3 DEF Table!Without, polled
  <1>5. eventMap' = Table!Without(eventMap, f)
    BY <1>2 DEF Table!Without
  <1>6. Table!Drop(f)
    BY <1>1, <1>4, <1>5 DEF Table!Drop, polled
  <1> QED  BY <1>1, <1>6 DEF Table!Next

\* Every step of the table is a step of the set or leaves it as it was.
LEMMA StepRefines == Inv /\ [Next]_vars => [Table!Next]_(Table!vars)
  <1> SUFFICES ASSUME Inv, [Next]_vars PROVE Table!Next \/ UNCHANGED Table!vars
    OBVIOUS
  <1>1. ASSUME NEW e \in Event, UNCHANGED <<pfds, eventMap>>,
               ~Registered(e) \/ UNCHANGED index,
               \A g \in Event \ {e} : index'[g] = index[g]
        PROVE  UNCHANGED Table!vars
    <2>1. ASSUME NEW f \in DOMAIN eventMap
          PROVE  SlotOf(eventMap[f])' = SlotOf(eventMap[f])
      BY <1>1, OwnerSlot DEF Registered, SlotOf
    <2> QED  BY <1>1, <2>1 DEF Table!vars
  <1>2. ASSUME NEW e \in Event, NEW f \in Fd, NewIoEvent(e, f)
        PROVE  UNCHANGED Table!vars
    <2>1. ~Registered(e)
      BY <1>2, FdAssumption DEF NewIoEvent, Alive, Registered, Inv, TypeOK, NoFd
    <2> QED  BY <1>1, <1>2, <2>1 DEF NewIoEvent, Inv, TypeOK
  <1>3. ASSUME NEW e \in Event, DestroyIoEvent(e)
        PROVE  UNCHANGED Table!vars
    BY <1>1, <1>3 DEF DestroyIoEvent
  <1>4. ASSUME NEW e \in Event, NEW want \in SUBSET Interest, Alive(e),
               RegisterEvent(e, want)
        PROVE  Table!Next
    BY <1>4, AddSlotRefines, UpdateSlotRefines
  <1>5. ASSUME NEW e \in Event, UnRegister(e)
        PROVE  Table!Next \/ UNCHANGED Table!vars
    <2>1. UnRegisterEvent(e) /\ Alive(e)
      BY <1>5 DEF UnRegister, MayUnRegister
    <2>2. CASE fdOf[e] \in DOMAIN eventMap
      BY <2>1, <2>2, RemoveSlotRefines
    <2>3. CASE fdOf[e] \notin DOMAIN eventMap
      BY <2>1, <2>3, <1>1 DEF UnRegisterEvent
    <2> QED  BY <2>2, <2>3
  <1>6. ASSUME NEW e \in Event, Operate(e)
        PROVE  Table!Next \/ UNCHANGED Table!vars
    <2>1. events[e] \in SUBSET Interest
      BY DEF Inv, TypeOK
    <2>2. CASE EnableReading(e)
      BY <2>1, <2>2, <1>4 DEF EnableReading, MayEnable, Interest
    <2>3. CASE EnableWriting(e)
      BY <2>1, <2>3, <1>4 DEF EnableWriting, MayEnable, Interest
    <2>4. CASE DisableReading(e)
      BY <2>1, <2>4, <1>4 DEF DisableReading, MayMute, MayEnable
    <2>5. CASE DisableWriting(e)
      BY <2>1, <2>5, <1>4 DEF DisableWriting, MayMute, MayEnable
    <2>6. CASE DisableAllEvent(e)
      BY <2>6, <1>4 DEF DisableAllEvent, MayMute, MayEnable
    <2> QED  BY <2>2, <2>3, <2>4, <2>5, <2>6, <1>5, <1>6 DEF Operate
  <1>7. CASE UNCHANGED vars
    BY <1>7 DEF vars, SlotOf, Table!vars
  <1> QED  BY <1>2, <1>3, <1>6, <1>7 DEF Next

\* What the owners see is the plain set: every behaviour of the poll table
\* is, seen through the refinement mapping, a behaviour of PollSet.
THEOREM Refinement == Spec => ImplementsPollSet
  <1>1. Init => Table!Init
    BY DEF Init, Table!Init
  <1> QED
    BY <1>1, StepRefines, Invariance, PTL DEF Spec, Table!Spec, ImplementsPollSet
====
