SPECIFICATION FairSpec
CONSTANTS
  None = None  STARTUP = STARTUP  SHUTDOWN = SHUTDOWN
  a = a  b = b  p = p  t = t  u = u
  LogicalActions = {b}
  PhysicalActions = {}
  Timers = {u}
  Threads = {}
  Triggers <- MCTriggers
  Reacting <- MCReacting
  MinDelay <- MCMinDelay
  TimerOffset <- MCTimerOffset
  TimerPeriod <- MCTimerPeriod
  Timeout = None
  Delays = {0}
  MaxCalls = 1  MaxSends = 0  Horizon = 3  MicroMax = 2
INVARIANT ValuesReclaimed
