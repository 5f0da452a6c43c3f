\* One device, udevd and two administrators removing its programs at any time.
CONSTANTS
  d1 = d1  d2 = d2  net = net
  hi = hi  lo = lo  tp = tp  fix = fix  tr = tr
  l1 = l1  l2 = l2  m1 = m1
  None = None
  u1 = u1  u2 = u2  u3 = u3  c1 = c1  c2 = c2  c3 = c3
  Device = {d1}
  OtherPath = {net}
  Object = {hi, lo, tp}
  Entry = {l1, m1}
  Links <- MCLinks
  Maps <- MCMaps
  PropertyMap = {m1}
  Unreadable = {}
  Tracing = {}
  Fixup = {}
  Stem <- MCStem
  Version <- MCVersion
  Properties <- NotInstalled
  Ignored = {}
  Installed <- TouchpadInstalled
  Compatible <- ForAll
  Accepts <- NotNewest
  Proc = {u1, u2, u3, c1, c2}
  Udev = {u1, u2, u3}
  Commands <- RemoveOnly
  Matches = {}
  Binds = TRUE
  Serial = FALSE
  Crash = {"add"}
  MaxAdds = 1
SPECIFICATION Spec
SYMMETRY Procs
INVARIANTS LoadedIsComplete AtMostOnePerStem
PROPERTIES SuccessSurvives
CHECK_DEADLOCK FALSE
