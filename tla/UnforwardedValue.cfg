SPECIFICATION Spec
CONSTANTS
  main = main  s = s  e = e  o = o  n = n  l = l
  si = si  so = so  oi = oi  oo = oo  ni = ni  no = no  li = li  m = m  m0 = m0  m1 = m1  v = v
  Reactors = {main, s, e, o, n, l}
  Main = main
  Ports = {si, so, oi, oo, ni, no, li, m0, m1}
  Components = {si, so, oi, oo, ni, no, li, m, m0, m1}
  Programs <- MCPrograms
  Values = {v}
  Absent = Absent  Unset = Unset
  FirstRegular = 2
  TriggerLimit = 11
  ReactorIds = 6
INVARIANT ForwardsValues
