SPECIFICATION FairSpec
CONSTANTS
  None = None  STARTUP = STARTUP  SHUTDOWN = SHUTDOWN
  a = a  b = b  p = p  t = t  u = u
  LogicalActions = {}
  PhysicalActions = {p}
  Timers = {u}
  Threads = {x1}
  Triggers <- MCTriggers
  Reacting <- MCTriggers
  MinDelay <- MCMinDelay
  TimerOffset <- MCTimerOffset
  TimerPeriod <- MCTimerPeriod
  Timeout = None
  Delays = {2}
  MaxCalls = 1  MaxSends = 1  Horizon = 3  MicroMax = 2
INVARIANT NotEarly
