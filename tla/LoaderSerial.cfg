\* One device, three commands one after the other in any order.
CONSTANTS
  d1 = d1  d2 = d2  net = net
  hi = hi  lo = lo  tp = tp  fix = fix  tr = tr
  l1 = l1  l2 = l2  m1 = m1
  None = None
  u1 = u1  u2 = u2  c1 = c1  c2 = c2  c3 = c3
  Device = {d1}
  OtherPath = {net}
  Object = {hi, lo, tp, tr}
  Entry = {l1, l2, m1}
  Links <- MCLinks
  Maps <- MCMaps
  PropertyMap = {m1}
  Unreadable = {}
  Tracing = {tr}
  Fixup = {hi, lo}
  Stem <- MCStem
  Version <- MCVersion
  Properties <- AllFiles
  Ignored = {}
  Installed <- NoneInstalled
  Compatible <- ForAll
  Accepts <- NotNewest
  Proc = {u1, u2, c1, c2, c3}
  Udev = {u1, u2}
  Commands <- SerialCommands
  Matches <- SerialMatches
  Binds = FALSE
  Serial = TRUE
  Crash = {}
  MaxAdds = 1
SPECIFICATION Spec
SYMMETRY Procs
INVARIANTS LoadedIsComplete
PROPERTIES ReplaceOwns ReplaceLoadsBest RemoveIsThorough
CHECK_DEADLOCK FALSE
