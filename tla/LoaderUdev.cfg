\* Two devices that udevd serves alone: plugged, loaded, unplugged; workers killed while loading.
CONSTANTS
  d1 = d1  d2 = d2  net = net
  hi = hi  lo = lo  tp = tp  fix = fix  tr = tr
  l1 = l1  l2 = l2  m1 = m1
  None = None
  u1 = u1  u2 = u2  u3 = u3  u4 = u4
  Device = {d1, d2}
  OtherPath = {net}
  Object = {hi, lo, tp}
  Entry = {l1, m1}
  Links <- MCLinks
  Maps <- MCMaps
  PropertyMap = {m1}
  Unreadable = {}
  Tracing = {}
  Fixup = {}
  Stem <- MCStem
  Version <- MCVersion
  Properties <- AllFiles
  Ignored = {}
  Installed <- NoneInstalled
  Compatible <- ForAll
  Accepts <- NotNewest
  Proc = {u1, u2, u3, u4}
  Udev = {u1, u2, u3, u4}
  Commands <- NoCommands
  Matches = {}
  Binds = TRUE
  Serial = FALSE
  Crash = {"add"}
  MaxAdds = 1
SPECIFICATION Spec
SYMMETRY Procs
INVARIANTS TypeOK LoadedIsComplete AtMostOnePerStem UdevKnowsProperties
PROPERTIES RemoveIsThorough ImplementsStemLoader
CHECK_DEADLOCK FALSE
