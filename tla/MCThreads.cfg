SPECIFICATION FairSpec
CONSTANTS
  None = None  STARTUP = STARTUP  SHUTDOWN = SHUTDOWN
  a = a  b = b  p = p  t = t  u = u
  LogicalActions = {a}
  PhysicalActions = {p}
  Timers = {}
  Threads = {x1, x2}
  Triggers <- MCTriggers
  Reacting <- MCTriggers
  MinDelay <- MCMinDelay
  TimerOffset <- MCTimerOffset
  TimerPeriod <- MCTimerPeriod
  Timeout = None
  Delays = {0, 1}
  MaxCalls = 2  MaxSends = 1  Horizon = 2  MicroMax = 3
INVARIANTS TypeOK TerminatedAfterShutdown KeepsAlive
PROPERTIES StopsEventually SentIsProcessed EndsAlone
