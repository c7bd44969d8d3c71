---- MODULE Pipe ----
(***************************************************************************)
(* What a program between a client and a target promises: the connection   *)
(* of the client, the near end, and that of the target, the far end, are   *)
(* one pipe.  Data comes out at either end as it went in at the other, and *)
(* the ends stand and fall together: at once, or, if they are apart, when  *)
(* word of it has travelled from one to the other.                         *)
(*                                                                         *)
(* An end is "closing" when it takes no more from the other end, but what  *)
(* is on the way to its peer still goes out.                               *)
(***************************************************************************)
EXTENDS SequencesExt

VARIABLES
  apart,     \* do the ends learn of each other with a delay?
  near, far, \* the ends: "none", "open", "closing" or "closed"
  sentUp,    \* what the client sent to the target
  gotUp,     \* what was handed to the target's connection of it
  sentDown,  \* what the target sent to the client
  gotDown    \* what was handed to the client's connection of it

vars == <<apart, near, far, sentUp, gotUp, sentDown, gotDown>>

Init ==
  /\ apart \in BOOLEAN
  /\ near = "none" /\ far = "none"
  /\ sentUp = <<>> /\ gotUp = <<>> /\ sentDown = <<>> /\ gotDown = <<>>

There(end) == end \in {"open", "closing"}

\* Streams only grow, nothing comes out that did not go in, and nothing comes
\* out of an end that is not there.
Carries ==
  /\ IsPrefix(sentUp, sentUp') /\ IsPrefix(sentDown, sentDown')
  /\ IsPrefix(gotUp, gotUp') /\ IsPrefix(gotUp', sentUp')
  /\ IsPrefix(gotDown, gotDown') /\ IsPrefix(gotDown', sentDown')
  /\ gotUp' # gotUp => There(far')
  /\ gotDown' # gotDown => There(near')

NearOpens == near = "none" /\ near' = "open" /\ UNCHANGED far

\* There is a far end only for a near end.
FarOpens ==
  /\ far = "none" /\ far' = "open"
  /\ near = "open" \/ (apart /\ near # "none")
  /\ UNCHANGED near

\* A client that is turned down never gets a far end.
NearTurnedDown == near = "open" /\ near' = "closing" /\ far = "none" /\ UNCHANGED far

\* The client goes; the far end follows, abruptly or in good order.
NearLeaves ==
  /\ There(near) /\ near' = "closed"
  /\ \/ far = "open" /\ far' \in {"closing", "closed"}
     \/ (far # "open" \/ apart) /\ UNCHANGED far

\* The target goes; the near end follows, in good order.
FarLeaves ==
  /\ There(far) /\ far' = "closed"
  /\ \/ near = "open" /\ near' = "closing"
     \/ (near # "open" \/ apart) /\ UNCHANGED near

\* Of ends that are apart one may be cut off, because the other is gone or
\* because what is between them broke.
NearIsCut == apart /\ near = "open" /\ near' = "closing" /\ UNCHANGED far
FarIsCut == apart /\ far = "open" /\ far' \in {"closing", "closed"} /\ UNCHANGED near

Next ==
  /\ UNCHANGED apart
  /\ Carries
  /\ \/ UNCHANGED <<near, far>>
     \/ NearOpens
     \/ FarOpens
     \/ NearTurnedDown
     \/ NearLeaves
     \/ FarLeaves
     \/ NearIsCut
     \/ FarIsCut

Spec == Init /\ [][Next]_vars

\* Word of the end of one side gets to the other: no end stays open alone.
EndsFollow ==
  /\ near \in {"closing", "closed"} ~> far # "open"
  /\ far = "closed" ~> near # "open"
====
