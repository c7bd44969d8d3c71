---- MODULE Connection ----
(***************************************************************************)
(* What the owner of a connection may rely on: what it sends goes out in   *)
(* the order it was sent, what the kernel does not take at once waits, FIN *)
(* has nothing before it that waits, it receives only while it reads, and  *)
(* nothing happens any more once the connection is closed.                 *)
(***************************************************************************)
EXTENDS Integers, SequencesExt

VARIABLES
  state,     \* "none", "connected", "disconnecting" or "disconnected"
  wire,      \* all that the kernel took of it
  left,      \* what waits to be taken
  fin,       \* was the write side shut?
  reading,   \* does the owner want to read?
  got        \* how much it received

vars == <<state, wire, left, fin, reading, got>>

Init ==
  /\ state = "none"
  /\ wire = <<>> /\ left = <<>> /\ fin = FALSE
  /\ reading = FALSE /\ got = 0

There == state \in {"connected", "disconnecting"}

Opens ==
  /\ state = "none" /\ state' = "connected"
  /\ reading' \in BOOLEAN
  /\ UNCHANGED <<wire, left, fin, got>>

\* Nothing overtakes what waits.
Sends ==
  /\ state = "connected"
  /\ IsPrefix(wire, wire') /\ (left # <<>> => wire' = wire)
  /\ IsPrefix(wire \o left, wire' \o left')
  /\ UNCHANGED <<state, fin, reading, got>>

\* The loop sends what waits, and FIN behind it.
Writes ==
  /\ There /\ left # <<>>
  /\ IsPrefix(wire, wire') /\ wire' \o left' = wire \o left
  /\ fin' \in {fin, state = "disconnecting" /\ left' = <<>>}
  /\ UNCHANGED <<state, reading, got>>

SendsFin ==
  /\ state = "disconnecting" /\ left = <<>>
  /\ fin' = TRUE
  /\ UNCHANGED <<state, wire, left, reading, got>>

ShutsDown ==
  /\ state = "connected" /\ state' = "disconnecting"
  /\ fin' = (left = <<>>)
  /\ UNCHANGED <<wire, left, reading, got>>

Pauses ==
  /\ There
  /\ reading' \in BOOLEAN
  /\ UNCHANGED <<state, wire, left, fin, got>>

Receives ==
  /\ There /\ reading
  /\ got' > got
  /\ UNCHANGED <<state, wire, left, fin, reading>>

\* By the owner or for it: what waits is lost.
Closes ==
  /\ There /\ state' = "disconnected"
  /\ left' = <<>> /\ reading' = FALSE
  /\ UNCHANGED <<wire, fin, got>>

Next ==
  \/ Opens
  \/ Sends
  \/ Writes
  \/ SendsFin
  \/ ShutsDown
  \/ Pauses
  \/ Receives
  \/ Closes

Spec == Init /\ [][Next]_vars
====
