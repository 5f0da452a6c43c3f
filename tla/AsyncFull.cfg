\* Fewer slots than functions, and every kernel function may fail.
CONSTANTS
  f = f  g = g  h = h
  None = None
  Event = event
  Fun = {f, g, h}
  MaxCtx = 2
  Inits <- AllInits
  Calls <- GCalls
  Delays = {TRUE, FALSE}
  Failing = {"bpf_timer_init", "bpf_timer_set_callback", "bpf_timer_start", "bpf_wq_init", "bpf_wq_set_callback", "bpf_wq_start", "hid_bpf_allocate_context"}
  MaxCalls = 3
SPECIFICATION Spec
INVARIANTS TypeOK OwnSlot
CHECK_DEADLOCK FALSE
