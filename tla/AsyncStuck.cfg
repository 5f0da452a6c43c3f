\* One function; there is no memory for its context.
CONSTANTS
  f = f  g = g  h = h
  None = None
  Event = event
  Fun = {f}
  MaxCtx = 1
  Inits <- OneInit
  Calls <- NoCalls
  Delays = {TRUE}
  Failing = {"hid_bpf_allocate_context"}
  MaxCalls = 2
SPECIFICATION Spec
INVARIANTS NotStuck
CHECK_DEADLOCK FALSE
