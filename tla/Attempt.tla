---- MODULE Attempt ----
(***************************************************************************)
(* What the owner of a client may rely on while it is being connected:     *)
(* there is one attempt at a time, a failed one is repeated or given up,   *)
(* and the event of an attempt outlives it, so that the next one, or the   *)
(* end of the client, has to wait for it.                                  *)
(***************************************************************************)

VARIABLES
  attempt,   \* "idle", "connecting", "waiting", "connected", "gaveUp", "stopped"
  spent      \* is its event unregistered but not yet destroyed?

vars == <<attempt, spent>>

Init == attempt = "idle" /\ spent = FALSE

\* An attempt under way, a retry to come, or an errno that ends it.
Begins == attempt' \in {"connecting", "waiting", "gaveUp"} /\ UNCHANGED spent

Starts == attempt \in {"idle", "gaveUp", "stopped"} /\ ~spent /\ Begins

Repeats == attempt = "waiting" /\ ~spent /\ Begins

Ends == attempt = "connecting" /\ attempt' \in {"connected", "waiting"} /\ spent' = TRUE

EventGoes == spent /\ spent' = FALSE /\ UNCHANGED attempt

\* A stop in the middle of an attempt leaves its event behind.
Stops ==
  /\ attempt \notin {"idle", "stopped"}
  /\ attempt' = "stopped"
  /\ spent' = (spent \/ attempt = "connecting")

Next ==
  \/ Starts
  \/ Repeats
  \/ Ends
  \/ EventGoes
  \/ Stops

Spec == Init /\ [][Next]_vars
====
