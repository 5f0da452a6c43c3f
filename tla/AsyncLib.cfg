\* Two functions that events call and that call each other; nothing fails.
CONSTANTS
  f = f  g = g  h = h
  None = None
  Event = event
  Fun = {f, g}
  MaxCtx = 2
  Inits <- BothInits
  Calls <- GCalls
  Delays = {TRUE, FALSE}
  Failing = {}
  MaxCalls = 3
SPECIFICATION FairSpec
INVARIANTS NotStuck FewShareARun
PROPERTIES EveryCallRuns
CHECK_DEADLOCK FALSE
