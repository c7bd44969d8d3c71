---- MODULE TimerLife ----
(***************************************************************************)
(* What a user of the loop may rely on for every timer it creates: it runs *)
(* only after it came due, a one-shot timer runs at most once, and         *)
(* cancelling is final.  The one thing cancelling cannot do is recall a    *)
(* timer that is already due: that one still runs, once (state "doomed").  *)
(***************************************************************************)
CONSTANT Timer

VARIABLES
  life,      \* the state of every timer
  repeats    \* the timers created to run again and again

vars == <<life, repeats>>

Init ==
  /\ life = [t \in Timer |-> "unused"]
  /\ repeats = {}

Becomes(t, from, to) == life[t] = from /\ life' = [life EXCEPT ![t] = to]

Create(t) ==
  /\ Becomes(t, "unused", "armed")
  /\ repeats' \in {repeats, repeats \cup {t}}

Run(t) ==
  /\ Becomes(t, "due", "ran") \/ Becomes(t, "doomed", "gone")
  /\ UNCHANGED repeats

Cancel(t) ==
  /\ \/ Becomes(t, "armed", "gone")
     \/ Becomes(t, "due", "doomed")
     \/ Becomes(t, "ran", "gone")
  /\ UNCHANGED repeats

Rearm(t) ==
  /\ t \in repeats
  /\ Becomes(t, "ran", "armed")
  /\ UNCHANGED repeats

\* All timers that came due are taken together.
ComeDue(ts) ==
  /\ \A t \in ts : life[t] = "armed"
  /\ life' = [t \in Timer |-> IF t \in ts THEN "due" ELSE life[t]]
  /\ UNCHANGED repeats

\* A one-shot timer that ran is forgotten.
Forget(ts) ==
  /\ \A t \in ts : life[t] = "ran" /\ t \notin repeats
  /\ life' = [t \in Timer |-> IF t \in ts THEN "gone" ELSE life[t]]
  /\ UNCHANGED repeats

Next ==
  \/ \E t \in Timer : Create(t) \/ Run(t) \/ Cancel(t) \/ Rearm(t)
  \/ \E ts \in SUBSET Timer : ComeDue(ts) \/ Forget(ts)

Spec == Init /\ [][Next]_vars
====
