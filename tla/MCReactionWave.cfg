SPECIFICATION FairValuesSpec
CONSTANTS
  a1 = a1  a2 = a2  boot = boot  again = again  b1 = b1  b2 = b2  c = c
  i = i  q = q  k = k  m = m  m0 = m0  m1 = m1  STARTUP = STARTUP  t = t
  Reactions = {a1, a2, boot, again, b1, b2, c}
  Declared = {a1, a2, b1, b2, c}
  ReactorOf <- MCReactorOf
  Rank <- MCRank
  Ports = {i, q, k, m0, m1}
  Banks = {m}
  Channels <- MCChannels
  Others = {STARTUP, t}
  Programs <- MCPrograms
  NoPlan = NoPlan  Absent = Absent  Idle = Idle
  Workers = {w1, w2}  Main = w1
  ParallelThreshold = 2
INVARIANTS TypeOK ReactorNotShared DependenciesFirst ReadsFinal RunOnce WaveComplete
PROPERTY WaveEnds
