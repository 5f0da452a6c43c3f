\* A device whose add event is triggered a second time; its program exports a property.
CONSTANTS
  d1 = d1  d2 = d2  net = net
  hi = hi  lo = lo  tp = tp  fix = fix  tr = tr
  l1 = l1  l2 = l2  m1 = m1
  None = None
  u1 = u1  u2 = u2  c1 = c1  c2 = c2  c3 = c3
  Device = {d1}
  OtherPath = {net}
  Object = {tp}
  Entry = {m1}
  Links <- MCLinks
  Maps <- MCMaps
  PropertyMap = {m1}
  Unreadable = {}
  Tracing = {}
  Fixup = {}
  Stem <- MCStem
  Version <- MCVersion
  Properties <- AllFiles
  Ignored = {}
  Installed <- NoneInstalled
  Compatible <- ForAll
  Accepts <- NotNewest
  Proc = {u1, u2}
  Udev = {u1, u2}
  Commands <- NoCommands
  Matches = {}
  Binds = FALSE
  Serial = FALSE
  Crash = {}
  MaxAdds = 2
SPECIFICATION Spec
PROPERTIES SuccessSurvives
CHECK_DEADLOCK FALSE
