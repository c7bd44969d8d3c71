---- MODULE Lifetime ----
(***************************************************************************)
(* The life of one connection, as its owner, its loop and its users may    *)
(* count on it: it opens once, is closed once, its owner hears of that     *)
(* once, and it is destroyed after that and not before: from a timer for a *)
(* server, at once for a client.  It is watched from beginning to end.     *)
(***************************************************************************)

VARIABLES
  stage,    \* "none", "open", "closing", "posted" or "gone"
  owner,    \* "nobody" until it opens, then "server" or "client"
  watched   \* is its event in the poll table?

vars == <<stage, owner, watched>>

Init == stage = "none" /\ owner = "nobody" /\ watched = FALSE

Opens ==
  /\ stage = "none" /\ stage' = "open"
  /\ owner' \in {"server", "client"}
  /\ watched' = TRUE

\* By end of file, by an error, or by ForceClose: on_close_ is still to come.
Closes == stage = "open" /\ stage' = "closing" /\ UNCHANGED <<owner, watched>>

TellsServer ==
  /\ stage = "closing" /\ owner = "server"
  /\ stage' = "posted"
  /\ UNCHANGED <<owner, watched>>

TellsClient ==
  /\ stage = "closing" /\ owner = "client"
  /\ stage' = "gone" /\ watched' = FALSE
  /\ UNCHANGED owner

\* The timer the server posted.
IsDestroyed ==
  /\ stage = "posted"
  /\ stage' = "gone" /\ watched' = FALSE
  /\ UNCHANGED owner

Next ==
  \/ Opens
  \/ Closes
  \/ TellsServer
  \/ TellsClient
  \/ IsDestroyed

Spec == Init /\ [][Next]_vars
====
