\* A device with the packaged file of a group and a newer one that was installed.
CONSTANTS
  d1 = d1  d2 = d2  net = net
  hi = hi  lo = lo  tp = tp  fix = fix  tr = tr
  l1 = l1  l2 = l2  m1 = m1
  None = None
  u1 = u1  u2 = u2  c1 = c1  c2 = c2  c3 = c3
  Device = {d1}
  OtherPath = {net}
  Object = {hi, lo, tp}
  Entry = {l1, m1}
  Links <- MCLinks
  Maps <- MCMaps
  PropertyMap = {m1}
  Unreadable = {}
  Tracing = {}
  Fixup = {}
  Stem <- MCStem
  Version <- MCVersion
  Properties <- OlderFiles
  Ignored = {}
  Installed <- NewestInstalled
  Compatible <- ForAll
  Accepts <- NotNewest
  Proc = {u1, u2}
  Udev = {u1, u2}
  Commands <- NoCommands
  Matches = {}
  Binds = FALSE
  Serial = FALSE
  Crash = {}
  MaxAdds = 1
SPECIFICATION Spec
INVARIANTS AtMostOnePerStem
CHECK_DEADLOCK FALSE
