---- MODULE TimerManager ----
(***************************************************************************)
(* The timers of the loop: TimerManager, Timer, TimerId and TimePoint      *)
(* (tohka/timermanager.cc, timer.cc, timer.h, timerid.h, timepoint.h) and  *)
(* the part of IoLoop::RunForever (tohka/ioloop.cc) that drives them.      *)
(*                                                                         *)
(* A round of the loop computes how long poll(2) may sleep, sleeps, runs   *)
(* the I/O handlers, takes every timer that is due out of the map as one   *)
(* batch, runs the batch, and arms its repeating timers again.  Handlers   *)
(* and timer callbacks add and delete timers; the clock runs meanwhile.    *)
(***************************************************************************)
EXTENDS Integers, SequencesExt

CONSTANTS
  MaxTimers,    \* bound: how many timers are ever created
  MaxTime,      \* bound: where the clock stops
  TicksPerMs,   \* clock ticks (microseconds in the code) per millisecond
  Delay,        \* ticks from now to the expiry of a new timer
  Interval,     \* periods in ticks; 0 for a one-shot timer
  IdleTimeout   \* kDefaultTimeOutMs, in milliseconds

ASSUME TimeAssumption ==
  /\ MaxTimers \in Nat
  /\ MaxTime \in Nat
  /\ TicksPerMs \in Nat \ {0}
  /\ Delay \subseteq Nat
  /\ Interval \subseteq Nat
  /\ IdleTimeout \in Nat

Timer == 1..MaxTimers    \* timer ids, handed out in order

VARIABLES
  now,        \* TimePoint::now()
  phase,      \* where the loop is: "top", "poll", "io", "batch" or "reset"
  wake,       \* when poll(2) times out
  nextId,     \* Timer::auto_increment_id_
  expires,    \* Timer::expired_time_
  interval,   \* Timer::interval_; the timer repeats when it is positive
  timerMap,   \* TimerManager::timer_map_: entries in the order of their keys
  active,     \* the ids in TimerManager::activate_timers_
  canceled,   \* the ids in TimerManager::cancel_timers_
  batch,      \* the local vector expired_timers of DoExpiredTimers
  pos,        \* how many timers of the batch were run, or were reset
  resetAt,    \* the time read at the start of Reset
  lastRun     \* history: when a repeating timer last ran, -1 before

timers == <<nextId, expires, interval, timerMap, active, canceled>>
vars == <<now, phase, wake, timers, batch, pos, resetAt, lastRun>>

Init ==
  /\ now = 0 /\ phase = "top" /\ wake = 0
  /\ nextId = 1
  /\ expires = [t \in Timer |-> 0]
  /\ interval = [t \in Timer |-> 0]
  /\ timerMap = <<>> /\ active = {} /\ canceled = {}
  /\ batch = <<>> /\ pos = 0 /\ resetAt = 0
  /\ lastRun = [t \in Timer |-> -1]

----------------------------------------------------------------------------
\* timer_map_ is a multimap: keys are sorted, equal keys in insertion order

Entry(when, t) == [when |-> when, timer |-> t]

\* Mutant: an equal key is inserted before its peers.
LowerBound(when) ==
  Cardinality({i \in DOMAIN timerMap : timerMap[i].when < when}) + 1

UpperBound(when) ==
  Cardinality({i \in DOMAIN timerMap : timerMap[i].when <= when}) + 1

\* Mutant: a map in place of the multimap keeps one entry per key.
MapEmplaced(when, t) ==
  IF \E i \in DOMAIN timerMap : timerMap[i].when = when
  THEN timerMap
  ELSE InsertAt(timerMap, UpperBound(when), Entry(when, t))

Emplaced(when, t) == InsertAt(timerMap, UpperBound(when), Entry(when, t))

\* A weak pointer to a timer locks while the map or the batch holds it.
Valid(t) == t \in active \/ t \in ToSet(batch)

----------------------------------------------------------------------------
\* AddTimer and DeleteTimer, called from I/O handlers and timer callbacks

InCallback == phase = "io" \/ (phase = "batch" /\ pos > 0)

AddTimer(delay, every) ==
  /\ InCallback
  /\ nextId \in Timer
  /\ now + delay + TicksPerMs <= MaxTime
  /\ expires' = [expires EXCEPT ![nextId] = now + delay]
  /\ interval' = [interval EXCEPT ![nextId] = every]
  /\ timerMap' = Emplaced(now + delay, nextId)
  /\ active' = active \cup {nextId}
  /\ nextId' = nextId + 1
  /\ UNCHANGED <<now, phase, wake, canceled, batch, pos, resetAt, lastRun>>

\* Mutant: the id is forgotten and the map entry is not.
HalfDelete(t) ==
  \/ /\ t \in active
     /\ active' = active \ {t}
     /\ UNCHANGED <<timerMap, canceled>>
  \/ /\ t \notin active /\ phase = "batch"
     /\ canceled' = canceled \cup {t}
     /\ UNCHANGED <<timerMap, active>>

\* The entry is looked up by the timer's expiry; a timer that is out of the
\* maps because it is in the batch is remembered for Reset.
Erase(t) ==
  \/ /\ t \in active
     /\ \E i \in DOMAIN timerMap :
          /\ timerMap[i] = Entry(expires[t], t)
          /\ timerMap' = RemoveAt(timerMap, i)
     /\ active' = active \ {t}
     /\ UNCHANGED canceled
  \/ /\ t \notin active
     /\ phase = "batch"
     /\ canceled' = canceled \cup {t}
     /\ UNCHANGED <<timerMap, active>>

DeleteTimer(t) ==
  /\ InCallback
  /\ Valid(t)
  /\ Erase(t)
  /\ UNCHANGED <<now, phase, wake, nextId, expires, interval, batch, pos,
                 resetAt, lastRun>>

----------------------------------------------------------------------------
\* The loop

\* Mutants: no timeout without timers; the difference rounded up instead
\* of both times down.
UnboundedDuration ==
  IF timerMap = <<>> THEN -1
  ELSE LET left == timerMap[1].when \div TicksPerMs - now \div TicksPerMs
       IN  IF left < 0 THEN 0 ELSE left

RoundedUpDuration ==
  IF timerMap = <<>> THEN IdleTimeout
  ELSE LET left == timerMap[1].when - now
       IN  IF left < 0 THEN 0 ELSE left \div TicksPerMs + 1

GetNextExpiredDuration ==
  IF timerMap = <<>> THEN IdleTimeout
  ELSE LET left == timerMap[1].when \div TicksPerMs - now \div TicksPerMs
       IN  IF left < 0 THEN 0 ELSE left

StartPoll ==
  /\ phase = "top"
  /\ phase' = "poll"
  /\ wake' = now + GetNextExpiredDuration * TicksPerMs
  /\ UNCHANGED <<now, timers, batch, pos, resetAt, lastRun>>

PollTimesOut ==
  /\ phase = "poll" /\ wake <= now
  /\ phase' = "io"
  /\ wake' = 0
  /\ UNCHANGED <<now, timers, batch, pos, resetAt, lastRun>>

PollReportsIo ==
  /\ phase = "poll" /\ now < wake
  /\ phase' = "io"
  /\ wake' = 0
  /\ UNCHANGED <<now, timers, batch, pos, resetAt, lastRun>>

\* GetExpiredTimers stops at the first entry that is not before now.
DuePrefix ==
  {i \in DOMAIN timerMap : \A j \in 1..i : timerMap[j].when < now}

BeginBatch ==
  LET due == Cardinality(DuePrefix)
      expired == [i \in 1..due |-> timerMap[i].timer]
  IN  /\ phase = "io"
      /\ phase' = "batch"
      /\ batch' = expired
      /\ timerMap' = SubSeq(timerMap, due + 1, Len(timerMap))
      /\ active' = active \ ToSet(expired)
      /\ canceled' = {}
      /\ pos' = 0
      /\ UNCHANGED <<now, wake, nextId, expires, interval, resetAt, lastRun>>

RunTimer ==
  /\ phase = "batch" /\ pos < Len(batch)
  /\ pos' = pos + 1
  /\ lastRun' = [lastRun EXCEPT ![batch[pos + 1]] =
                    IF interval[batch[pos + 1]] > 0 THEN now ELSE @]
  /\ UNCHANGED <<now, phase, wake, timers, batch, resetAt>>

BeginReset ==
  /\ phase = "batch" /\ pos = Len(batch)
  /\ phase' = "reset"
  /\ pos' = 0
  /\ resetAt' = now
  /\ UNCHANGED <<now, wake, timers, batch, lastRun>>

\* Mutant: the next expiry is counted from the last one.
RestartFromExpiry(t) == expires[t] + interval[t]

Restart(t) == resetAt + interval[t]

\* Mutant: a timer cancelled while its batch ran is armed again.
RepeatsAnyway(t) == interval[t] > 0

ToRearm(t) == interval[t] > 0 /\ t \notin canceled

ResetTimer ==
  /\ phase = "reset" /\ pos < Len(batch)
  /\ pos' = pos + 1
  /\ LET t == batch[pos + 1] IN
     IF ToRearm(t)
     THEN /\ expires' = [expires EXCEPT ![t] = Restart(t)]
          /\ timerMap' = Emplaced(Restart(t), t)
          /\ active' = active \cup {t}
     ELSE UNCHANGED <<expires, timerMap, active>>
  /\ UNCHANGED <<now, phase, wake, nextId, interval, canceled, batch, resetAt,
                 lastRun>>

\* DoExpiredTimers returns: the vector dies, and with it the timers only it
\* holds.
EndReset ==
  /\ phase = "reset" /\ pos = Len(batch)
  /\ phase' = "top"
  /\ batch' = <<>> /\ pos' = 0 /\ resetAt' = 0
  /\ UNCHANGED <<now, wake, timers, lastRun>>

\* Time passes anywhere; a sleeping poll(2) does not outlast its timeout.
Tick ==
  /\ now < MaxTime
  /\ phase = "poll" => now < wake
  /\ now' = now + 1
  /\ UNCHANGED <<phase, wake, timers, batch, pos, resetAt, lastRun>>

Loop ==
  \/ StartPoll
  \/ PollTimesOut
  \/ PollReportsIo
  \/ BeginBatch
  \/ RunTimer
  \/ BeginReset
  \/ ResetTimer
  \/ EndReset

Next ==
  \/ \E delay \in Delay, every \in Interval : AddTimer(delay, every)
  \/ \E t \in Timer : DeleteTimer(t)
  \/ Loop
  \/ Tick

\* The loop never stops and callbacks return; poll(2) reports I/O or times
\* out, whichever is first.  The clock advances even under a loop that spins,
\* as it does while a timer expires exactly now (SF: a poll(2) at its timeout
\* holds the model's clock for a step).
Fairness ==
  /\ WF_vars(StartPoll) /\ WF_vars(PollTimesOut)
  /\ WF_vars(BeginBatch) /\ WF_vars(RunTimer)
  /\ WF_vars(BeginReset) /\ WF_vars(ResetTimer) /\ WF_vars(EndReset)
  /\ SF_vars(Tick)

Spec == Init /\ [][Next]_vars
FairSpec == Spec /\ Fairness

----------------------------------------------------------------------------
\* Properties

\* Every part of the state has its type.
TypeOK ==
  /\ now \in 0..MaxTime
  /\ phase \in {"top", "poll", "io", "batch", "reset"}
  /\ wake \in Nat
  /\ nextId \in 1..(MaxTimers + 1)
  /\ expires \in [Timer -> Nat]
  /\ interval \in [Timer -> Interval \cup {0}]
  /\ timerMap \in Seq([when : Nat, timer : Timer])
  /\ active \subseteq Timer
  /\ canceled \subseteq Timer
  /\ batch \in Seq(Timer)
  /\ pos \in 0..Len(batch)
  /\ resetAt \in Nat
  /\ lastRun \in [Timer -> Nat \cup {-1}]

\* timer_map_ and activate_timers_ hold the same timers, each once, and a
\* timer's entry is found under its own expiry: the sizes the code asserts
\* agree, and DeleteTimer finds what it looks up.  No timer is in a batch
\* twice, or in the maps while it waits in the batch.
MapsAgree ==
  /\ {timerMap[i].timer : i \in DOMAIN timerMap} = active
  /\ \A i, j \in DOMAIN timerMap :
       timerMap[i].timer = timerMap[j].timer => i = j
  /\ \A i \in DOMAIN timerMap : timerMap[i].when = expires[timerMap[i].timer]
  /\ IsInjective(batch)
  /\ \A i \in DOMAIN batch :
       batch[i] \in active => phase = "reset" /\ i <= pos

\* The map is in the order of expiry, and timers that never repeated keep
\* the order of their creation when they expire together: CallLater(0) runs
\* callbacks in the order they were posted, which the deferred destruction
\* of connections counts on.
FirstComeFirstServed ==
  \A i, j \in DOMAIN timerMap :
    i < j =>
      LET x == timerMap[i]
          y == timerMap[j]
      IN  /\ x.when <= y.when
          /\ x.when = y.when /\ interval[x.timer] = 0 /\ interval[y.timer] = 0
               => x.timer < y.timer

\* A sleeping poll(2) times out less than a millisecond after the earliest
\* expiry, although its timeout is the difference of two truncated times.
NoOversleep ==
  phase = "poll" /\ now < wake /\ timerMap # <<>>
    => wake < timerMap[1].when + TicksPerMs

\* A repeating timer never runs again before its period has passed since
\* the last run, however late that one was.
PeriodKept ==
  [][\A t \in Timer :
       lastRun'[t] # lastRun[t] /\ lastRun[t] >= 0
         => lastRun'[t] > lastRun[t] + interval[t]]_vars

\* Every armed timer is eventually taken out of the map, to be run or
\* because it was deleted (timers the clock of the model cannot reach
\* excepted).
ArmedIsTaken ==
  \A t \in Timer :
    (t \in active /\ expires[t] + TicksPerMs <= MaxTime) ~> (t \notin active)

\* Seen timer by timer the manager behaves as TimerLife promises.
Waiting == {batch[i] : i \in (pos + 1)..Len(batch)}

Life(t) ==
  CASE t >= nextId -> "unused"
    [] t \in active -> "armed"
    [] phase = "batch" /\ t \in Waiting \ canceled -> "due"
    [] phase = "batch" /\ t \in Waiting \cap canceled -> "doomed"
    [] t \in ToSet(batch) \ (active \cup canceled)
         /\ (phase = "batch" => t \notin Waiting) -> "ran"
    [] OTHER -> "gone"

Abstract == INSTANCE TimerLife WITH
  life <- [t \in Timer |-> Life(t)],
  repeats <- {t \in Timer : interval[t] > 0}

ImplementsTimerLife == Abstract!Spec
====
