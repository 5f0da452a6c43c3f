---------------------------- MODULE HidBpfAsync ----------------------------
(***************************************************************************)
(* hid_bpf_async.h: functions of a HID-BPF program that are called from a  *)
(* device event, where nothing may sleep, and run later in a workqueue.    *)
(*                                                                         *)
(* Each function has a slot of hid_bpf_async_ctx_map with a timer, a work  *)
(* item and a state.  A call moves the state to STARTING and starts the    *)
(* timer or the work; the work moves it to RUNNING and, when the function  *)
(* has returned, to INITIALIZED.  Only the claim of a slot and the test of *)
(* the state hold the slot's lock; the work writes the state without it,   *)
(* while events call on other CPUs and the function itself may call again. *)
(*                                                                         *)
(* A call that is refused changes nothing and is no step of the model.     *)
(***************************************************************************)
EXTENDS Integers, Sequences, FiniteSets

CONSTANTS
  Fun,         \* the functions declared with HID_BPF_ASYNC_FUN
  MaxCtx,      \* HID_BPF_ASYNC_MAX_CTX
  Inits,       \* the functions probe() initialises, in order
  Calls,       \* the pairs <<f, g>>: f calls g while it runs
  Delays,      \* whether calls have a delay: TRUE, FALSE or either
  Failing,     \* the kernel functions that may return an error
  MaxCalls,    \* bound: calls from device events
  Event,       \* the context of device events
  None

Key == 0..(MaxCtx - 1)
Caller == {Event} \cup Key   \* an event, or the work of a slot

Kernel == {"bpf_timer_init", "bpf_timer_set_callback", "bpf_timer_start", "bpf_wq_init",
           "bpf_wq_set_callback", "bpf_wq_start", "hid_bpf_allocate_context"}

ASSUME AsyncAssumption ==
  /\ MaxCtx \in Nat /\ MaxCalls \in Nat
  /\ Inits \in Seq(Fun)
  /\ Calls \subseteq Fun \X Fun
  /\ Delays \subseteq BOOLEAN
  /\ Failing \subseteq Kernel
  /\ Event \notin Key /\ None \notin Fun

VARIABLES
  key,      \* [Fun -> Int], ____key__fun: its slot, or a negative error
  todo,     \* the functions probe() has still to initialise
  state,    \* [Key -> State]
  timer,    \* [Key -> BOOLEAN], the timer is armed
  queued,   \* [Key -> BOOLEAN], the work is queued
  cb,       \* [Key -> Fun], the function whose callback the work runs
  work,     \* [Key -> {"idle", "begun", "running"}], the work
  now,      \* [Key -> Fun], the function it has begun with
  pc,       \* where each caller is in hid_bpf_async_delayed_call
  call,     \* the function it calls, and whether with a delay
  calls,    \* calls from events so far
  owed      \* history: [Key -> Nat], calls that returned 0 and have not run yet

initVars == <<key, todo>>
workVars == <<work, now>>
callVars == <<pc, call, calls>>
vars == <<initVars, state, timer, queued, cb, workVars, callVars, owed>>

State == {"UNSET", "INITIALIZING", "INITIALIZED", "STARTING", "RUNNING"}

Init ==
  /\ key = [f \in Fun |-> 0]
  /\ todo = Inits
  /\ state = [k \in Key |-> "UNSET"]
  /\ timer = [k \in Key |-> FALSE]
  /\ queued = [k \in Key |-> FALSE]
  /\ cb = [k \in Key |-> None]
  /\ work = [k \in Key |-> "idle"]
  /\ now = [k \in Key |-> None]
  /\ pc = [c \in Caller |-> "idle"]
  /\ call = [c \in Caller |-> <<None, FALSE>>]
  /\ calls = 0
  /\ owed = [k \in Key |-> 0]

-----------------------------------------------------------------------------
(* HID_BPF_ASYNC_INIT, in probe(), before the program is attached.         *)

FreeKey(k) == state[k] = "UNSET" /\ \A j \in Key : j < k => state[j] # "UNSET"

\* ____key__fun = hid_bpf_async_get_ctx(), r being what it returns.
SetKeySlotsOnly(f, r) == IF r \in Key THEN [key EXCEPT ![f] = r] ELSE key  \* a slip: not when it fails
SetKey(f, r) == [key EXCEPT ![f] = r]

\* All of it succeeds, or all but bpf_wq_set_callback, which comes after the
\* slot is INITIALIZED and the key is known.
InitSlot(f) ==
  \E k \in Key :
    /\ FreeKey(k)
    /\ state' = [state EXCEPT ![k] = "INITIALIZED"]
    /\ key' = SetKey(f, k)
    /\ \/ cb' = [cb EXCEPT ![k] = f]
       \/ "bpf_wq_set_callback" \in Failing /\ UNCHANGED cb

\* A slot whose timer or work cannot be set up is lost.
LoseSlot(f) ==
  \E k \in Key :
    /\ FreeKey(k)
    /\ Failing \cap {"bpf_timer_init", "bpf_timer_set_callback", "bpf_wq_init"} # {}
    /\ state' = [state EXCEPT ![k] = "INITIALIZING"]
    /\ key' = SetKey(f, -1)
    /\ UNCHANGED cb

NoSlot(f) ==
  /\ \A k \in Key : state[k] # "UNSET"
  /\ key' = SetKey(f, -1)
  /\ UNCHANGED <<state, cb>>

InitFun ==
  /\ todo # <<>>
  /\ todo' = Tail(todo)
  /\ InitSlot(Head(todo)) \/ LoseSlot(Head(todo)) \/ NoSlot(Head(todo))
  /\ UNCHANGED <<timer, queued, workVars, callVars, owed>>

-----------------------------------------------------------------------------
(* hid_bpf_async_delayed_call                                              *)

\* Under the lock: the slot exists and is not already starting.
AcceptsStarting(k) == state[k] \notin {"UNSET", "INITIALIZING"}  \* a slip: a call may overtake one
Accepts(k) == state[k] \in {"INITIALIZED", "RUNNING"}

\* After the lock is dropped: the macros always give the function's callback.
FirstStepStart == "start"  \* a slip: HID_BPF_ASYNC_INIT has set the callback
FirstStep == "callback"

Claim(c, f, delay) ==
  /\ pc[c] = "idle"
  /\ key[f] \in Key
  /\ Accepts(key[f])
  /\ state' = [state EXCEPT ![key[f]] = "STARTING"]
  /\ pc' = [pc EXCEPT ![c] = FirstStep]
  /\ call' = [call EXCEPT ![c] = <<f, delay>>]
  /\ UNCHANGED <<initVars, timer, queued, cb, workVars, owed>>

EventCalls(f, delay) ==
  /\ todo = <<>>
  /\ calls < MaxCalls
  /\ calls' = calls + 1
  /\ Claim(Event, f, delay)

FunCalls(k, f, delay) ==
  /\ work[k] = "running"
  /\ <<now[k], f>> \in Calls
  /\ Claim(k, f, delay)
  /\ UNCHANGED calls

Return(c) == pc' = [pc EXCEPT ![c] = "idle"] /\ UNCHANGED <<call, calls>>

\* An error on the way is returned; the state stays as it is.
CallFails(c) ==
  /\ \/ pc[c] = "callback" /\ "bpf_wq_set_callback" \in Failing
     \/ pc[c] = "start" /\ call[c][2]
        /\ Failing \cap {"bpf_timer_set_callback", "bpf_timer_start"} # {}
     \/ pc[c] = "start" /\ ~call[c][2] /\ "bpf_wq_start" \in Failing
  /\ Return(c)
  /\ UNCHANGED <<initVars, state, timer, queued, cb, workVars, owed>>

SetCallback(c) ==
  /\ pc[c] = "callback"
  /\ cb' = [cb EXCEPT ![key[call[c][1]]] = call[c][1]]
  /\ pc' = [pc EXCEPT ![c] = "start"]
  /\ UNCHANGED <<initVars, state, timer, queued, workVars, call, calls, owed>>

\* Arming an armed timer moves its expiry, queuing a queued work does nothing.
Start(c) ==
  /\ pc[c] = "start"
  /\ LET k == key[call[c][1]] IN
       /\ IF call[c][2]
          THEN timer' = [timer EXCEPT ![k] = TRUE] /\ UNCHANGED queued
          ELSE queued' = [queued EXCEPT ![k] = TRUE] /\ UNCHANGED timer
       /\ owed' = [owed EXCEPT ![k] = @ + 1]
  /\ Return(c)
  /\ UNCHANGED <<initVars, state, cb, workVars>>

-----------------------------------------------------------------------------
(* The timer, and the work.                                                *)

\* __start_wq_timer_cb
TimerStartsNothing(k) == queued  \* a slip: the work is not started
TimerStarts(k) == [queued EXCEPT ![k] = TRUE]

TimerFires(k) ==
  /\ timer[k]
  /\ timer' = [timer EXCEPT ![k] = FALSE]
  /\ queued' = TimerStarts(k)
  /\ UNCHANGED <<initVars, state, cb, workVars, callVars, owed>>

\* A work item may be queued again while it runs, but never runs twice at once.
WorkBegins(k) ==
  /\ queued[k]
  /\ work[k] = "idle"
  /\ queued' = [queued EXCEPT ![k] = FALSE]
  /\ work' = [work EXCEPT ![k] = "begun"]
  /\ now' = [now EXCEPT ![k] = cb[k]]
  /\ UNCHANGED <<initVars, state, timer, cb, callVars, owed>>

FunBegins(k) ==
  /\ work[k] = "begun"
  /\ work' = [work EXCEPT ![k] = "running"]
  /\ state' = [state EXCEPT ![k] = "RUNNING"]
  /\ owed' = [owed EXCEPT ![k] = 0]
  /\ UNCHANGED <<initVars, timer, queued, cb, now, callVars>>

\* hid_bpf_allocate_context has returned NULL.
NoContext(k) ==
  /\ "hid_bpf_allocate_context" \in Failing
  /\ work[k] = "begun"
  /\ work' = [work EXCEPT ![k] = "idle"]
  /\ UNCHANGED <<initVars, state, timer, queued, cb, now, callVars, owed>>

FunReturns(k) ==
  /\ work[k] = "running"
  /\ pc[k] = "idle"
  /\ work' = [work EXCEPT ![k] = "idle"]
  /\ state' = [state EXCEPT ![k] = "INITIALIZED"]
  /\ UNCHANGED <<initVars, timer, queued, cb, now, callVars, owed>>

-----------------------------------------------------------------------------
CallStep(c) == CallFails(c) \/ SetCallback(c) \/ Start(c)
WorkStep(k) == WorkBegins(k) \/ FunBegins(k) \/ NoContext(k) \/ FunReturns(k)

Next ==
  \/ InitFun
  \/ \E f \in Fun, delay \in Delays : EventCalls(f, delay)
  \/ \E k \in Key, f \in Fun, delay \in Delays : FunCalls(k, f, delay)
  \/ \E c \in Caller : CallStep(c)
  \/ \E k \in Key : TimerFires(k) \/ WorkStep(k)

Spec == Init /\ [][Next]_vars

\* A call that has been made returns, timers fire and works run.  A function
\* returns however often it calls others: a BPF program always terminates.
Fairness ==
  /\ \A c \in Caller : WF_vars(CallStep(c))
  /\ \A k \in Key : WF_vars(TimerFires(k)) /\ WF_vars(WorkStep(k)) /\ SF_vars(FunReturns(k))

FairSpec == Spec /\ Fairness
-----------------------------------------------------------------------------
(* Properties                                                              *)

\* Every variable has its type; a caller on its way through
\* hid_bpf_async_delayed_call calls a function that has a slot, and a work that
\* has begun has a function to run.
TypeOK ==
  /\ key \in [Fun -> Int]
  /\ todo \in Seq(Fun)
  /\ state \in [Key -> State]
  /\ timer \in [Key -> BOOLEAN]
  /\ queued \in [Key -> BOOLEAN]
  /\ cb \in [Key -> Fun \cup {None}]
  /\ work \in [Key -> {"idle", "begun", "running"}]
  /\ now \in [Key -> Fun \cup {None}]
  /\ pc \in [Caller -> {"idle", "callback", "start"}]
  /\ call \in [Caller -> (Fun \cup {None}) \X BOOLEAN]
  /\ calls \in 0..MaxCalls
  /\ owed \in [Key -> Nat]
  /\ \A c \in Caller : pc[c] # "idle" => call[c][1] \in Fun /\ key[call[c][1]] \in Key
  /\ \A k \in Key : work[k] # "idle" => now[k] \in Fun

\* The slot c is calling on.
CallsOn(c, k) == pc[c] # "idle" /\ key[call[c][1]] = k

\* A slot that refuses calls has a call, a timer or a work under way that will
\* release it (hid_bpf_async_delayed_call refuses while STARTING, and only the
\* work leaves that state).
NotStuck ==
  \A k \in Key :
    state[k] = "STARTING" /\ (\A c \in Caller : ~CallsOn(c, k)) =>
      timer[k] \/ queued[k] \/ work[k] # "idle"

\* A slot runs the one function it was given to by HID_BPF_ASYNC_INIT, also
\* when slots are lost and when there are fewer slots than functions.
OwnSlot == \A k \in Key : work[k] # "idle" => {f \in Fun : key[f] = k} = {now[k]}

\* The callers of slot k: events, and the works whose functions call it.
CallersOf(k) == {Event} \cup {j \in Key : \E c \in Calls : key[c[1]] = j /\ key[c[2]] = k}

\* However often a function is called, at most two calls more than it has
\* callers share a run: a call of each that was let in before INITIALIZED was
\* written over STARTING, one after that and one while the run before went on.
\* All others are refused until the next run, which they would put off.
FewShareARun == \A k \in Key : owed[k] <= Cardinality(CallersOf(k)) + 2

\* A call that has returned 0 is followed by a run of its function.
EveryCallRuns == \A k \in Key : owed[k] > 0 ~> owed[k] = 0
=============================================================================
