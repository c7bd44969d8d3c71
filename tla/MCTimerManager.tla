---- MODULE MCTimerManager ----
(* Timers on a short clock with two ticks to the millisecond, so that      *)
(* expiries fall between milliseconds as microseconds do.                  *)
EXTENDS TimerManager

MCDelay == {0, 1}
MCInterval == {0, 2}
====
