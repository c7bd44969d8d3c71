SPECIFICATION FairSpec
CONSTANTS
  MaxTimers = 3
  MaxTime = 4
  TicksPerMs = 2
  Delay <- MCDelay
  Interval <- MCInterval
  IdleTimeout = 2
INVARIANTS TypeOK MapsAgree FirstComeFirstServed NoOversleep
PROPERTIES PeriodKept ArmedIsTaken ImplementsTimerLife
