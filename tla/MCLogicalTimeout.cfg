SPECIFICATION FairSpec
CONSTANTS
  None = None  STARTUP = STARTUP  SHUTDOWN = SHUTDOWN
  a = a  b = b  p = p  t = t  u = u
  LogicalActions = {a, b}
  PhysicalActions = {}
  Timers = {t, u}
  Threads = {}
  Triggers <- MCTriggers
  Reacting <- MCTriggers
  MinDelay <- MCMinDelay
  TimerOffset <- MCTimerOffset
  TimerPeriod <- MCTimerPeriod
  Timeout = 2
  Delays = {0, 1}
  MaxCalls = 3  MaxSends = 0  Horizon = 3  MicroMax = 4
INVARIANTS EventsAhead DueWorkDone EarliestStopWins
  ValuesMatchEvents ValuesReclaimed NotEarly PresenceAgrees
PROPERTIES TagsAscend ImplementsDiscreteEvents
