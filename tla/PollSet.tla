---- MODULE PollSet ----
(***************************************************************************)
(* What a poll table promises its users, without slots and indices: a set  *)
(* of watched descriptors, each held by one event, each with the           *)
(* conditions the kernel is asked about.  Conditions accumulate until the  *)
(* holder mutes the descriptor; only a muted descriptor can be dropped.    *)
(***************************************************************************)
CONSTANTS Event, Fd, PollBit

VARIABLES
  holder,   \* the event behind every watched descriptor
  polled    \* the conditions asked about for every watched descriptor

vars == <<holder, polled>>

Init ==
  /\ holder = [f \in {} |-> f]
  /\ polled = [f \in {} |-> f]

Put(map, f, v) == [g \in DOMAIN map \cup {f} |-> IF g = f THEN v ELSE map[g]]
Without(map, f) == [g \in DOMAIN map \ {f} |-> map[g]]

Watch(e, f, bits) ==
  /\ f \notin DOMAIN holder
  /\ holder' = Put(holder, f, e)
  /\ polled' = Put(polled, f, bits)

Extend(f, bits) ==
  /\ f \in DOMAIN holder
  /\ polled' = Put(polled, f, polled[f] \cup bits)
  /\ UNCHANGED holder

Mute(f) ==
  /\ f \in DOMAIN holder
  /\ polled' = Put(polled, f, {})
  /\ UNCHANGED holder

Drop(f) ==
  /\ f \in DOMAIN holder
  /\ polled[f] = {}
  /\ holder' = Without(holder, f)
  /\ polled' = Without(polled, f)

Next ==
  \E f \in Fd :
    \/ \E e \in Event, bits \in SUBSET PollBit : Watch(e, f, bits)
    \/ \E bits \in SUBSET PollBit : Extend(f, bits)
    \/ Mute(f)
    \/ Drop(f)

Spec == Init /\ [][Next]_vars
====
