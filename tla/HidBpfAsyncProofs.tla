------------------------- MODULE HidBpfAsyncProofs -------------------------
(***************************************************************************)
(* For any functions, slots and calls: the types of HidBpfAsync, that a    *)
(* slot runs its own function, and that no slot gets stuck unless a kernel *)
(* function fails on the way.                                              *)
(***************************************************************************)
EXTENDS HidBpfAsync, FiniteSetTheorems, TLAPS

\* Nothing is called before probe() has initialised the last function.
InitFirst ==
  todo # <<>> =>
    /\ \A c \in Caller : pc[c] = "idle"
    /\ \A k \in Key : ~timer[k] /\ ~queued[k] /\ work[k] = "idle"

\* What is to be run has a function to run.
HasCallback ==
  /\ \A k \in Key : timer[k] \/ queued[k] => cb[k] \in Fun
  /\ \A c \in Caller : pc[c] = "start" => cb[key[call[c][1]]] \in Fun

TypeInv == TypeOK /\ InitFirst /\ HasCallback

LEMMA InitTypeInv == Init => TypeInv
  <1> SUFFICES ASSUME Init PROVE TypeInv
    OBVIOUS
  <1>1. /\ key \in [Fun -> Int] /\ todo \in Seq(Fun) /\ state \in [Key -> State]
        /\ calls \in 0..MaxCalls /\ owed \in [Key -> Nat]
    BY AsyncAssumption DEF Init, State
  <1>2. timer \in [Key -> BOOLEAN] /\ queued \in [Key -> BOOLEAN]
    BY DEF Init
  <1>3. /\ cb \in [Key -> Fun \cup {None}] /\ now \in [Key -> Fun \cup {None}]
        /\ work \in [Key -> {"idle", "begun", "running"}]
        /\ pc \in [Caller -> {"idle", "callback", "start"}]
        /\ call \in [Caller -> (Fun \cup {None}) \X BOOLEAN]
    BY DEF Init
  <1>4. /\ \A c \in Caller : pc[c] = "idle"
        /\ \A k \in Key : ~timer[k] /\ ~queued[k] /\ work[k] = "idle"
    BY DEF Init
  <1>5. QED
    BY <1>1, <1>2, <1>3, <1>4 DEF TypeInv, TypeOK, InitFirst, HasCallback

\* What hid_bpf_async_get_ctx does to one slot, or to none.
LEMMA InitFunSlot ==
  ASSUME TypeInv, InitFun
  PROVE  /\ todo # <<>> /\ Head(todo) \in Fun /\ todo' \in Seq(Fun)
         /\ \E n \in Int : key' = [key EXCEPT ![Head(todo)] = n]
         /\ state' \in [Key -> State]
         /\ cb' \in [Key -> Fun \cup {None}]
         /\ \A k \in Key : state[k] # "UNSET" => state'[k] = state[k] /\ cb'[k] = cb[k]
  <1>1. todo # <<>> /\ todo \in Seq(Fun) /\ todo' = Tail(todo)
    BY DEF InitFun, TypeInv, TypeOK
  <1>2. Head(todo) \in Fun /\ todo' \in Seq(Fun)
    BY <1>1
  <1>3. state \in [Key -> State] /\ cb \in [Key -> Fun \cup {None}]
    BY DEF TypeInv, TypeOK
  <1>4. Key \subseteq Int
    BY DEF Key
  <1>5. CASE InitSlot(Head(todo))
    BY <1>2, <1>3, <1>4, <1>5, <1>1 DEF InitSlot, FreeKey, SetKey, State
  <1>6. CASE LoseSlot(Head(todo))
    <2>1. key' = [key EXCEPT ![Head(todo)] = -1]
      BY <1>6 DEF LoseSlot, SetKey
    <2>2. \E n \in Int : key' = [key EXCEPT ![Head(todo)] = n]
      <3>1. -1 \in Int
        OBVIOUS
      <3>2. QED
        BY <2>1, <3>1
    <2>3. QED
      BY <1>1, <1>2, <1>3, <1>6, <2>2 DEF LoseSlot, FreeKey, State
  <1>7. CASE NoSlot(Head(todo))
    <2>1. key' = [key EXCEPT ![Head(todo)] = -1] /\ UNCHANGED <<state, cb>>
      BY <1>7 DEF NoSlot, SetKey
    <2>2. \E n \in Int : key' = [key EXCEPT ![Head(todo)] = n]
      <3>1. -1 \in Int
        OBVIOUS
      <3>2. QED
        BY <2>1, <3>1
    <2>3. QED
      BY <1>1, <1>2, <1>3, <2>1, <2>2
  <1>8. QED
    BY <1>5, <1>6, <1>7 DEF InitFun

LEMMA InitFunTypeInv ==
  ASSUME TypeInv, InitFun
  PROVE  TypeInv'
  <1>1. UNCHANGED <<timer, queued, workVars, callVars, owed>>
    BY DEF InitFun
  <1>2. /\ \A c \in Caller : pc[c] = "idle"
        /\ \A k \in Key : ~timer[k] /\ ~queued[k] /\ work[k] = "idle"
    BY InitFunSlot DEF TypeInv, InitFirst
  <1>3. TypeOK'
    BY <1>1, <1>2, InitFunSlot DEF TypeInv, TypeOK, workVars, callVars
  <1>4. InitFirst' /\ HasCallback'
    BY <1>1, <1>2 DEF InitFirst, HasCallback, workVars, callVars
  <1>5. QED
    BY <1>3, <1>4 DEF TypeInv

LEMMA ClaimTypeInv ==
  ASSUME TypeInv, NEW c \in Caller, NEW f \in Fun, NEW delay \in Delays,
         todo = <<>>, calls' \in 0..MaxCalls, Claim(c, f, delay)
  PROVE  TypeInv'
  <1>1. delay \in BOOLEAN
    BY AsyncAssumption
  <1>2. TypeOK'
    BY <1>1 DEF TypeInv, TypeOK, Claim, FirstStep, State, initVars, workVars
  <1>3. InitFirst' /\ HasCallback'
    BY DEF TypeInv, TypeOK, InitFirst, HasCallback, Claim, FirstStep, initVars, workVars
  <1>4. QED
    BY <1>2, <1>3 DEF TypeInv

LEMMA CallStepTypeInv ==
  ASSUME TypeInv, NEW c \in Caller, CallStep(c)
  PROVE  TypeInv'
  <1>0. todo = <<>> /\ call[c][1] \in Fun /\ key[call[c][1]] \in Key
    BY DEF TypeInv, TypeOK, InitFirst, CallStep, CallFails, SetCallback, Start
  <1> USE DEF TypeInv, TypeOK, InitFirst, HasCallback, Return, initVars, workVars
  <1>1. CASE CallFails(c)
    BY <1>0, <1>1 DEF CallFails
  <1>2. CASE SetCallback(c)
    BY <1>0, <1>2 DEF SetCallback
  <1>3. CASE Start(c)
    <2>1. owed' \in [Key -> Nat]
      BY <1>0, <1>3 DEF Start
    <2>2. timer' \in [Key -> BOOLEAN] /\ queued' \in [Key -> BOOLEAN]
      BY <1>0, <1>3 DEF Start
    <2>3. TypeOK'
      BY <1>0, <1>3, <2>1, <2>2 DEF Start
    <2>4. HasCallback'
      BY <1>0, <1>3, <2>2 DEF Start
    <2>5. QED
      BY <1>0, <1>3, <2>3, <2>4 DEF Start
  <1>4. QED
    BY <1>1, <1>2, <1>3 DEF CallStep

LEMMA WorkTypeInv ==
  ASSUME TypeInv, NEW k \in Key, TimerFires(k) \/ WorkStep(k)
  PROVE  TypeInv'
  <1>0. todo = <<>>
    BY DEF TypeInv, InitFirst, TimerFires, WorkStep, WorkBegins, FunBegins, NoContext, FunReturns
  <1> USE DEF TypeInv, TypeOK, InitFirst, HasCallback, State, initVars, callVars
  <1>1. CASE TimerFires(k)
    BY <1>0, <1>1 DEF TimerFires, TimerStarts, workVars
  <1>2. CASE WorkBegins(k)
    BY <1>0, <1>2 DEF WorkBegins
  <1>3. CASE FunBegins(k)
    BY <1>0, <1>3 DEF FunBegins
  <1>4. CASE NoContext(k)
    BY <1>0, <1>4 DEF NoContext
  <1>5. CASE FunReturns(k)
    BY <1>0, <1>5 DEF FunReturns
  <1>6. QED
    BY <1>1, <1>2, <1>3, <1>4, <1>5 DEF WorkStep

\* A call that is let in, from an event or from a function that may call.
Enters(c, f, delay) ==
  /\ todo = <<>> /\ calls' \in 0..MaxCalls
  /\ c # Event => work[c] = "running" /\ <<now[c], f>> \in Calls
  /\ Claim(c, f, delay)

\* The steps of Next: probe(), a claim, the rest of a call, a timer or a work.
LEMMA NextCases ==
  ASSUME TypeInv, [Next]_vars
  PROVE  \/ InitFun
         \/ \E c \in Caller, f \in Fun, delay \in Delays : Enters(c, f, delay)
         \/ \E c \in Caller : CallStep(c)
         \/ \E k \in Key : TimerFires(k) \/ WorkStep(k)
         \/ UNCHANGED vars
  <1>1. ASSUME NEW f \in Fun, NEW delay \in Delays, EventCalls(f, delay)
        PROVE  Event \in Caller /\ Enters(Event, f, delay)
    BY <1>1, AsyncAssumption DEF Caller, EventCalls, Enters, TypeInv, TypeOK
  <1>2. ASSUME NEW k \in Key, NEW f \in Fun, NEW delay \in Delays, FunCalls(k, f, delay)
        PROVE  k \in Caller /\ Enters(k, f, delay)
    BY <1>2 DEF Caller, FunCalls, Enters, TypeInv, TypeOK, InitFirst
  <1>3. QED
    BY <1>1, <1>2 DEF Next

LEMMA NextTypeInv ==
  ASSUME TypeInv, [Next]_vars
  PROVE  TypeInv'
  <1>1. CASE UNCHANGED vars
    BY <1>1 DEF vars, initVars, workVars, callVars, TypeInv, TypeOK, InitFirst, HasCallback
  <1>2. QED
    BY <1>1, InitFunTypeInv, ClaimTypeInv, CallStepTypeInv, WorkTypeInv, NextCases DEF Enters

LEMMA TypeInvariance == Spec => []TypeInv
  BY InitTypeInv, NextTypeInv, PTL DEF Spec

\* Every variable has its type, a call on its way has a slot, and a work that has
\* begun has a function to run (hid_bpf_async_delayed_call, __init_async_wq).
THEOREM Typing == Spec => []TypeOK
  <1>1. TypeInv => TypeOK
    BY DEF TypeInv
  <1>2. QED
    BY <1>1, TypeInvariance, PTL

-----------------------------------------------------------------------------
(* Slots that refuse calls.                                                *)

\* No kernel function fails once a call was accepted.
Reliable ==
  Failing \cap {"bpf_wq_set_callback", "bpf_timer_set_callback", "bpf_timer_start",
                "bpf_wq_start", "hid_bpf_allocate_context"} = {}

LEMMA NextNotStuck ==
  ASSUME Reliable, TypeInv, NotStuck, [Next]_vars
  PROVE  NotStuck'
  <1> USE DEF NotStuck, CallsOn
  <1>1. CASE UNCHANGED vars
    BY <1>1 DEF vars, initVars, workVars, callVars
  <1>2. CASE InitFun
    <2>1. ASSUME NEW k \in Key PROVE state'[k] = "STARTING" => state[k] = "STARTING"
      BY <1>2 DEF InitFun, InitSlot, LoseSlot, NoSlot, TypeInv, TypeOK
    <2>2. UNCHANGED <<timer, queued, work, pc, call>>
      BY <1>2 DEF InitFun, workVars, callVars
    <2>3. \A c \in Caller : pc[c] = "idle"
      BY <1>2 DEF InitFun, TypeInv, InitFirst
    <2>4. QED
      BY <2>1, <2>2, <2>3
  <1>3. ASSUME NEW c \in Caller, NEW f \in Fun, NEW delay \in Delays, Claim(c, f, delay)
        PROVE  NotStuck'
    BY <1>3 DEF Claim, FirstStep, initVars, workVars, TypeInv, TypeOK
  <1>4. ASSUME NEW c \in Caller, CallStep(c) PROVE NotStuck'
    <2>1. ~CallFails(c)
      BY DEF CallFails, Reliable
    <2>2. CASE SetCallback(c)
      BY <2>2 DEF SetCallback, initVars, workVars, TypeInv, TypeOK
    <2>3. CASE Start(c)
      <3> DEFINE k == key[call[c][1]]
      <3>1. k \in Key
        BY <2>3 DEF Start, TypeInv, TypeOK
      <3>2. UNCHANGED <<key, state, work, call>> /\ pc' = [pc EXCEPT ![c] = "idle"]
        BY <2>3 DEF Start, Return, initVars, workVars
      <3>3. timer'[k] \/ queued'[k]
        BY <2>3, <3>1 DEF Start, TypeInv, TypeOK
      <3>4. \A j \in Key : (timer[j] => timer'[j]) /\ (queued[j] => queued'[j])
        BY <2>3, <3>1 DEF Start, TypeInv, TypeOK
      <3>5. ASSUME NEW j \in Key, j # k, \A d \in Caller : ~CallsOn(d, j)'
            PROVE  \A d \in Caller : ~CallsOn(d, j)
        BY <3>2, <3>5 DEF TypeInv, TypeOK
      <3>6. QED
        BY <3>2, <3>3, <3>4, <3>5
    <2>4. QED
      BY <1>4, <2>1, <2>2, <2>3 DEF CallStep
  <1>5. ASSUME NEW k \in Key, TimerFires(k) \/ WorkStep(k) PROVE NotStuck'
    <2>1. ~NoContext(k)
      BY DEF NoContext, Reliable
    <2>2. UNCHANGED <<key, pc, call>>
      BY <1>5 DEF TimerFires, WorkStep, WorkBegins, FunBegins, NoContext, FunReturns,
                  initVars, callVars
    <2>3. CASE TimerFires(k)
      BY <2>2, <2>3 DEF TimerFires, TimerStarts, workVars, TypeInv, TypeOK
    <2>4. CASE WorkBegins(k)
      BY <2>2, <2>4 DEF WorkBegins, TypeInv, TypeOK
    <2>5. CASE FunBegins(k)
      BY <2>2, <2>5 DEF FunBegins, TypeInv, TypeOK
    <2>6. CASE FunReturns(k)
      BY <2>2, <2>6 DEF FunReturns, TypeInv, TypeOK
    <2>7. QED
      BY <1>5, <2>1, <2>3, <2>4, <2>5, <2>6 DEF WorkStep
  <1>6. QED
    BY <1>1, <1>2, <1>3, <1>4, <1>5, NextCases DEF Enters

\* As long as no kernel function fails, a slot that refuses calls has a call, a
\* timer or a work under way that releases it, whatever the work writes without
\* the lock (hid_bpf_async_delayed_call, __init_async_wq).
THEOREM NeverStuck == ASSUME Reliable PROVE Spec => []NotStuck
  <1>1. Init => NotStuck
    BY DEF Init, NotStuck
  <1>2. TypeInv /\ NotStuck /\ [Next]_vars => NotStuck'
    BY NextNotStuck
  <1>3. QED
    BY <1>1, <1>2, TypeInvariance, PTL DEF Spec

-----------------------------------------------------------------------------
(* Slots and their functions.                                              *)

\* probe() initialises each function, and only once.
EachInitOnce ==
  \A f \in Fun : \E i \in 1..Len(Inits) : \A j \in 1..Len(Inits) : Inits[j] = f <=> j = i

\* probe() has still to initialise f.
Waits(f) == \E i \in 1..Len(todo) : todo[i] = f

\* Functions that were initialised have slots of their own, which are taken, and
\* the callbacks that are set and run in a slot are those of its function.
Owned ==
  /\ \A i, j \in 1..Len(todo) : todo[i] = todo[j] => i = j
  /\ \A f \in Fun : ~Waits(f) /\ key[f] \in Key =>
       /\ state[key[f]] # "UNSET"
       /\ \A g \in Fun : ~Waits(g) /\ key[g] = key[f] => g = f
  /\ \A k \in Key : cb[k] \in Fun => ~Waits(cb[k]) /\ key[cb[k]] = k
  /\ \A k \in Key : work[k] # "idle" => key[now[k]] = k

LEMMA InitOwned == ASSUME EachInitOnce, Init PROVE Owned
  <1>1. \A f \in Fun : Waits(f)
    BY DEF Init, EachInitOnce, Waits
  <1>2. ASSUME NEW i \in 1..Len(todo), NEW j \in 1..Len(todo), todo[i] = todo[j] PROVE i = j
    <2>1. todo[i] \in Fun
      BY AsyncAssumption DEF Init
    <2>2. QED
      BY <1>2, <2>1 DEF Init, EachInitOnce
  <1>3. \A k \in Key : cb[k] \notin Fun /\ work[k] = "idle"
    BY AsyncAssumption DEF Init
  <1>4. QED
    BY <1>1, <1>2, <1>3 DEF Owned

\* The function that is initialised does not wait any more, and all others do as before.
LEMMA TailWaits ==
  ASSUME TypeInv, Owned, InitFun
  PROVE  /\ \A f \in Fun : Waits(f)' <=> Waits(f) /\ f # Head(todo)
         /\ \A i, j \in 1..Len(todo') : todo'[i] = todo'[j] => i = j
  <1>1. todo \in Seq(Fun) /\ todo # <<>> /\ todo' = Tail(todo)
    BY DEF InitFun, TypeInv, TypeOK
  <1>2. /\ Len(todo') = Len(todo) - 1 /\ Len(todo) \in Nat
        /\ \A i \in 1..Len(todo') : todo'[i] = todo[i + 1]
    BY <1>1
  <1>3. \A i, j \in 1..Len(todo) : todo[i] = todo[j] => i = j
    BY DEF Owned
  <1>4. \A i, j \in 1..Len(todo') : todo'[i] = todo'[j] => i = j
    BY <1>2, <1>3
  <1>5. ASSUME NEW f \in Fun PROVE Waits(f)' <=> Waits(f) /\ f # Head(todo)
    <2>1. Head(todo) = todo[1] /\ 1 \in 1..Len(todo)
      BY <1>1
    <2>2. ASSUME Waits(f)' PROVE Waits(f) /\ f # Head(todo)
      <3>1. PICK i \in 1..Len(todo') : todo'[i] = f
        BY <2>2 DEF Waits
      <3>2. i + 1 \in 1..Len(todo) /\ todo[i + 1] = f /\ i + 1 # 1
        BY <1>2, <3>1
      <3>3. QED
        BY <1>3, <2>1, <3>2 DEF Waits
    <2>3. ASSUME Waits(f), f # Head(todo) PROVE Waits(f)'
      <3>1. PICK i \in 1..Len(todo) : todo[i] = f
        BY <2>3 DEF Waits
      <3>2. i - 1 \in 1..Len(todo') /\ todo'[i - 1] = f
        BY <1>2, <2>1, <2>3, <3>1
      <3>3. QED
        BY <3>2 DEF Waits
    <2>4. QED
      BY <2>2, <2>3
  <1>6. QED
    BY <1>4, <1>5

LEMMA InitFunOwned ==
  ASSUME TypeInv, Owned, InitFun
  PROVE  Owned'
  <1> DEFINE f == Head(todo)
  <1>1. f \in Fun /\ todo # <<>> /\ key \in [Fun -> Int] /\ state \in [Key -> State]
        /\ cb \in [Key -> Fun \cup {None}]
    BY InitFunSlot DEF TypeInv, TypeOK
  <1>2. Waits(f)
    BY InitFunSlot DEF TypeInv, TypeOK, Waits
  <1>3. \A k \in Key : work'[k] = "idle"
    BY <1>1 DEF InitFun, TypeInv, InitFirst, workVars
  <1>4. \A g \in Fun \ {f} : key'[g] = key[g]
    BY <1>1, InitFunSlot
  <1>5. \/ \E k \in Key : /\ state[k] = "UNSET" /\ state'[k] # "UNSET"
                          /\ key'[f] = k /\ cb'[k] \in {f, cb[k]}
                          /\ \A j \in Key \ {k} : state'[j] = state[j] /\ cb'[j] = cb[j]
        \/ /\ key'[f] = -1 /\ cb' = cb
           /\ \A k \in Key : state[k] # "UNSET" => state'[k] # "UNSET"
    <2>1. CASE InitSlot(f)
      BY <1>1, <2>1 DEF InitSlot, FreeKey, SetKey
    <2>2. CASE LoseSlot(f)
      <3>1. key' = [key EXCEPT ![f] = -1] /\ cb' = cb
        BY <2>2 DEF LoseSlot, SetKey
      <3>2. \A k \in Key : state[k] # "UNSET" => state'[k] # "UNSET"
        BY <1>1, <2>2 DEF LoseSlot
      <3>3. QED
        BY <1>1, <3>1, <3>2
    <2>3. CASE NoSlot(f)
      <3>1. key' = [key EXCEPT ![f] = -1] /\ cb' = cb /\ state' = state
        BY <2>3 DEF NoSlot, SetKey
      <3>2. QED
        BY <1>1, <3>1
    <2>4. QED
      BY <2>1, <2>2, <2>3 DEF InitFun
  <1>6. -1 \notin Key
    BY DEF Key
  <1>7. CASE \E k \in Key : /\ state[k] = "UNSET" /\ state'[k] # "UNSET"
                            /\ key'[f] = k /\ cb'[k] \in {f, cb[k]}
                            /\ \A j \in Key \ {k} : state'[j] = state[j] /\ cb'[j] = cb[j]
    <2>1. PICK k \in Key : /\ state[k] = "UNSET" /\ state'[k] # "UNSET"
                           /\ key'[f] = k /\ cb'[k] \in {f, cb[k]}
                           /\ \A j \in Key \ {k} : state'[j] = state[j] /\ cb'[j] = cb[j]
      BY <1>7
    <2>2. \A g \in Fun : ~Waits(g) => key[g] # k
      BY <2>1 DEF Owned
    <2>3. cb[k] \notin Fun
      BY <2>2 DEF Owned
    <2>4. QED
      BY <1>1, <1>2, <1>3, <1>4, <2>1, <2>2, <2>3, TailWaits DEF Owned
  <1>8. CASE /\ key'[f] = -1 /\ cb' = cb
             /\ \A k \in Key : state[k] # "UNSET" => state'[k] # "UNSET"
    BY <1>1, <1>2, <1>3, <1>4, <1>6, <1>8, TailWaits DEF Owned
  <1>9. QED
    BY <1>5, <1>7, <1>8

\* A step after probe().
LEMMA StepOwned ==
  ASSUME TypeInv, Owned, UNCHANGED <<key, todo>>, todo = <<>>,
         \A k \in Key : state[k] # "UNSET" => state'[k] # "UNSET",
         \A k \in Key : cb'[k] = cb[k] \/ (cb'[k] \in Fun /\ key[cb'[k]] = k),
         \A k \in Key : work'[k] # "idle" =>
           \/ work[k] # "idle" /\ now'[k] = now[k]
           \/ cb[k] \in Fun /\ now'[k] = cb[k]
  PROVE  Owned'
  <1>1. \A f : ~Waits(f) /\ ~Waits(f)'
    BY DEF Waits
  <1>2. QED
    BY <1>1 DEF Owned, TypeInv, TypeOK

LEMMA NextOwned ==
  ASSUME TypeInv, Owned, [Next]_vars
  PROVE  Owned'
  <1>1. CASE UNCHANGED vars
    BY <1>1 DEF vars, initVars, workVars, Owned, Waits
  <1>2. CASE InitFun
    BY <1>2, InitFunOwned
  <1>3. ASSUME NEW c \in Caller, NEW f \in Fun, NEW delay \in Delays, Enters(c, f, delay)
        PROVE  Owned'
    <2>1. todo = <<>> /\ UNCHANGED <<key, todo, cb, work, now>>
      BY <1>3 DEF Enters, Claim, initVars, workVars
    <2>2. \A k \in Key : state[k] # "UNSET" => state'[k] # "UNSET"
      BY <1>3 DEF Enters, Claim, TypeInv, TypeOK
    <2>3. QED
      BY <2>1, <2>2, StepOwned
  <1>4. ASSUME NEW c \in Caller, CallStep(c) PROVE Owned'
    <2>1. UNCHANGED <<key, todo, state, work, now>> /\ pc[c] # "idle"
      BY <1>4 DEF CallStep, CallFails, SetCallback, Start, initVars, workVars
    <2>2. todo = <<>> /\ call[c][1] \in Fun /\ key[call[c][1]] \in Key
      BY <2>1 DEF TypeInv, TypeOK, InitFirst
    <2>3. \A k \in Key : cb'[k] = cb[k] \/ (cb'[k] \in Fun /\ key[cb'[k]] = k)
      BY <1>4, <2>2 DEF CallStep, CallFails, SetCallback, Start, TypeInv, TypeOK
    <2>4. QED
      BY <2>1, <2>2, <2>3, StepOwned
  <1>5. ASSUME NEW k \in Key, TimerFires(k) \/ WorkStep(k) PROVE Owned'
    <2>1. todo = <<>> /\ UNCHANGED <<key, todo, cb>>
      BY <1>5 DEF TimerFires, WorkStep, WorkBegins, FunBegins, NoContext, FunReturns,
                  TypeInv, InitFirst, initVars
    <2>2. \A j \in Key : state[j] # "UNSET" => state'[j] # "UNSET"
      BY <1>5 DEF TimerFires, WorkStep, WorkBegins, FunBegins, NoContext, FunReturns,
                  TypeInv, TypeOK
    <2>3. \A j \in Key : work'[j] # "idle" =>
            \/ work[j] # "idle" /\ now'[j] = now[j]
            \/ cb[j] \in Fun /\ now'[j] = cb[j]
      BY <1>5 DEF TimerFires, WorkStep, WorkBegins, FunBegins, NoContext, FunReturns,
                  TypeInv, TypeOK, HasCallback, workVars
    <2>4. QED
      BY <2>1, <2>2, <2>3, StepOwned
  <1>6. QED
    BY <1>1, <1>2, <1>3, <1>4, <1>5, NextCases

LEMMA OwnedInvariance == ASSUME EachInitOnce PROVE Spec => [](TypeInv /\ Owned)
  <1>1. Init => Owned
    BY InitOwned
  <1>2. TypeInv /\ Owned /\ [Next]_vars => Owned'
    BY NextOwned
  <1>3. QED
    BY <1>1, <1>2, TypeInvariance, PTL DEF Spec

\* A slot runs the one function it was given to, however many slots are lost and
\* whatever fails (HID_BPF_ASYNC_INIT, hid_bpf_async_get_ctx).
THEOREM SlotsAreOwned == ASSUME EachInitOnce PROVE Spec => []OwnSlot
  <1>1. TypeInv /\ Owned => OwnSlot
    <2> SUFFICES ASSUME TypeInv, Owned, NEW k \in Key, work[k] # "idle"
                 PROVE  {f \in Fun : key[f] = k} = {now[k]}
      BY DEF OwnSlot
    <2>1. \A f : ~Waits(f)
      BY DEF TypeInv, InitFirst, Waits
    <2>2. now[k] \in Fun /\ key[now[k]] = k
      BY DEF TypeInv, TypeOK, Owned
    <2>3. QED
      BY <2>1, <2>2 DEF Owned
  <1>2. QED
    BY <1>1, OwnedInvariance, PTL

-----------------------------------------------------------------------------
(* Calls that share a run.                                                 *)

\* The calls on slot k that are on their way.
Pending(k) == {c \in Caller : CallsOn(c, k)}

\* What is still to be let in: one call when a run has written RUNNING, and one
\* when it has written INITIALIZED, in addition to one of each caller.
Budget(k) ==
  Cardinality(CallersOf(k)) + (IF work[k] = "running" THEN 0 ELSE 1)
                            + (IF state[k] = "STARTING" THEN 1 ELSE 0)

\* A call of a function is made while it runs.
CalledByWork ==
  \A k \in Key : pc[k] # "idle" => work[k] = "running" /\ <<now[k], call[k][1]>> \in Calls

ShareInv ==
  /\ CalledByWork
  /\ \A k \in Key : todo # <<>> => owed[k] = 0
  /\ \A k \in Key : owed[k] + Cardinality(Pending(k)) <= Budget(k)

LEMMA FiniteCallers ==
  ASSUME NEW k
  PROVE  /\ IsFiniteSet(Pending(k)) /\ Cardinality(Pending(k)) \in Nat
         /\ IsFiniteSet(CallersOf(k)) /\ Cardinality(CallersOf(k)) \in Nat
  <1>1. IsFiniteSet(Key)
    BY AsyncAssumption, FS_Interval DEF Key
  <1>2. Caller = Key \cup {Event}
    BY DEF Caller
  <1>3. IsFiniteSet(Caller)
    BY <1>1, <1>2, FS_AddElement
  <1>4. Pending(k) \in SUBSET Caller /\ CallersOf(k) \in SUBSET Caller
    BY DEF Pending, CallersOf, Caller
  <1>5. QED
    BY <1>3, <1>4, FS_Subset, FS_CardinalityType

LEMMA PendingAreCallers ==
  ASSUME TypeInv, Owned, CalledByWork, NEW k \in Key
  PROVE  Cardinality(Pending(k)) <= Cardinality(CallersOf(k))
  <1>1. ASSUME NEW c \in Pending(k) PROVE c \in CallersOf(k)
    <2>1. c \in Caller /\ pc[c] # "idle" /\ key[call[c][1]] = k
      BY DEF Pending, CallsOn
    <2>2. CASE c \in Key
      <3>1. work[c] = "running" /\ <<now[c], call[c][1]>> \in Calls
        BY <2>1, <2>2 DEF CalledByWork
      <3>2. key[now[c]] = c
        BY <2>2, <3>1 DEF Owned
      <3>3. key[<<now[c], call[c][1]>>[1]] = c /\ key[<<now[c], call[c][1]>>[2]] = k
        BY <2>1, <3>2
      <3>4. QED
        BY <2>2, <3>1, <3>3 DEF CallersOf
    <2>3. QED
      BY <2>1, <2>2 DEF Caller, CallersOf
  <1>2. Pending(k) \in SUBSET CallersOf(k)
    BY <1>1
  <1>3. QED
    BY <1>2, FiniteCallers, FS_Subset

\* A step that neither adds calls on k nor takes from what is still to be let in.
LEMMA SameShare ==
  ASSUME TypeInv, ShareInv, NEW k \in Key,
         UNCHANGED key, owed'[k] = owed[k], Pending(k)' = Pending(k),
         work'[k] = "running" => work[k] = "running",
         state[k] = "STARTING" => state'[k] = "STARTING" \/ (work[k] = "running" /\ work'[k] # "running")
  PROVE  owed'[k] + Cardinality(Pending(k)') <= Budget(k)'
  <1>1. CallersOf(k)' = CallersOf(k)
    BY DEF CallersOf
  <1>2. owed[k] + Cardinality(Pending(k)) <= Budget(k)
    BY DEF ShareInv
  <1>3. owed[k] \in Nat
    BY DEF TypeInv, TypeOK
  <1>4. QED
    BY <1>1, <1>2, <1>3, FiniteCallers DEF Budget

LEMMA InitShareInv == Init => ShareInv
  <1> SUFFICES ASSUME Init PROVE ShareInv
    OBVIOUS
  <1>1. CalledByWork
    BY DEF Init, CalledByWork, Caller
  <1>2. ASSUME NEW k \in Key PROVE owed[k] + Cardinality(Pending(k)) <= Budget(k)
    <2>1. Pending(k) = {}
      BY DEF Init, Pending, CallsOn
    <2>2. owed[k] = 0 /\ work[k] = "idle" /\ state[k] = "UNSET"
      BY <1>2 DEF Init
    <2>3. QED
      BY <2>1, <2>2, FiniteCallers, FS_EmptySet DEF Budget
  <1>3. QED
    BY <1>1, <1>2 DEF ShareInv, Init

LEMMA InitFunShareInv ==
  ASSUME TypeInv, ShareInv, InitFun
  PROVE  ShareInv'
  <1>1. /\ todo # <<>> /\ UNCHANGED <<work, pc, owed>>
        /\ \A c \in Caller : pc[c] = "idle"
        /\ \A k \in Key : work[k] = "idle" /\ owed[k] = 0
    BY DEF InitFun, TypeInv, InitFirst, ShareInv, workVars, callVars
  <1>2. CalledByWork'
    BY <1>1 DEF CalledByWork, Caller
  <1>3. ASSUME NEW k \in Key PROVE owed'[k] + Cardinality(Pending(k)') <= Budget(k)'
    <2>1. Pending(k)' = {}
      BY <1>1 DEF Pending, CallsOn
    <2>2. Cardinality(CallersOf(k)') \in Nat
      <3>1. CallersOf(k)' \in SUBSET (Key \cup {Event}) /\ IsFiniteSet(Key)
        BY AsyncAssumption, FS_Interval DEF CallersOf, Key
      <3>2. QED
        BY <3>1, FS_AddElement, FS_Subset, FS_CardinalityType
    <2>3. QED
      BY <1>1, <2>1, <2>2, FS_EmptySet DEF Budget
  <1>4. QED
    BY <1>1, <1>2, <1>3 DEF ShareInv

LEMMA EnterShareInv ==
  ASSUME TypeInv, ShareInv, NEW c \in Caller, NEW f \in Fun, NEW delay \in Delays,
         Enters(c, f, delay)
  PROVE  ShareInv'
  <1>1. /\ pc[c] = "idle" /\ key[f] \in Key /\ Accepts(key[f]) /\ todo = <<>>
        /\ UNCHANGED <<key, todo, work, now, owed>>
        /\ pc' = [pc EXCEPT ![c] = "callback"] /\ call' = [call EXCEPT ![c] = <<f, delay>>]
        /\ state' = [state EXCEPT ![key[f]] = "STARTING"]
    BY DEF Enters, Claim, FirstStep, initVars, workVars
  <1>2. c # Event => work[c] = "running" /\ <<now[c], f>> \in Calls
    BY DEF Enters
  <1>3. CalledByWork'
    BY <1>1, <1>2, AsyncAssumption DEF ShareInv, CalledByWork, Caller, TypeInv, TypeOK
  <1>4. ASSUME NEW k \in Key PROVE owed'[k] + Cardinality(Pending(k)') <= Budget(k)'
    <2>1. CASE k # key[f]
      <3>1. Pending(k)' = Pending(k)
        BY <1>1, <2>1 DEF Pending, CallsOn, TypeInv, TypeOK
      <3>2. state'[k] = state[k]
        BY <1>1, <2>1 DEF TypeInv, TypeOK
      <3>3. QED
        BY <1>1, <3>1, <3>2, SameShare
    <2>2. CASE k = key[f]
      <3>1. Pending(k)' = Pending(k) \cup {c} /\ c \notin Pending(k)
        BY <1>1, <2>2 DEF Pending, CallsOn, TypeInv, TypeOK
      <3>2. Cardinality(Pending(k)') = Cardinality(Pending(k)) + 1
        BY <3>1, FiniteCallers, FS_AddElement
      <3>3. state[k] # "STARTING" /\ state'[k] = "STARTING"
        BY <1>1, <2>2 DEF Accepts, TypeInv, TypeOK
      <3>4. Budget(k)' = Budget(k) + 1
        <4>1. CallersOf(k)' = CallersOf(k)
          BY <1>1 DEF CallersOf
        <4>2. QED
          BY <1>1, <3>3, <4>1, FiniteCallers DEF Budget
      <3>5. owed[k] + Cardinality(Pending(k)) <= Budget(k) /\ owed[k] \in Nat
        BY DEF ShareInv, TypeInv, TypeOK
      <3>6. Budget(k) \in Nat
        BY FiniteCallers DEF Budget
      <3>7. QED
        BY <1>1, <3>2, <3>4, <3>5, <3>6, FiniteCallers
    <2>3. QED
      BY <2>1, <2>2
  <1>5. QED
    BY <1>1, <1>3, <1>4 DEF ShareInv

LEMMA CallStepShareInv ==
  ASSUME TypeInv, ShareInv, NEW c \in Caller, CallStep(c)
  PROVE  ShareInv'
  <1>1. /\ pc[c] # "idle" /\ UNCHANGED <<key, todo, state, work, now, call>>
        /\ pc' \in {[pc EXCEPT ![c] = "idle"], [pc EXCEPT ![c] = "start"]}
    BY DEF CallStep, CallFails, SetCallback, Start, Return, initVars, workVars
  <1>2. todo = <<>> /\ call[c][1] \in Fun /\ key[call[c][1]] \in Key
    BY <1>1 DEF TypeInv, TypeOK, InitFirst
  <1>3. CalledByWork'
    BY <1>1 DEF ShareInv, CalledByWork, Caller, TypeInv, TypeOK
  <1>4. ASSUME NEW k \in Key PROVE owed'[k] + Cardinality(Pending(k)') <= Budget(k)'
    <2>1. CallersOf(k)' = CallersOf(k) /\ Budget(k)' = Budget(k)
      BY <1>1 DEF CallersOf, Budget
    <2>2. owed[k] + Cardinality(Pending(k)) <= Budget(k) /\ owed[k] \in Nat /\ Budget(k) \in Nat
      BY FiniteCallers DEF ShareInv, TypeInv, TypeOK, Budget
    <2>3. Pending(k)' \in SUBSET Pending(k)
      BY <1>1 DEF Pending, CallsOn, TypeInv, TypeOK
    <2>4. Cardinality(Pending(k)') <= Cardinality(Pending(k)) /\ Cardinality(Pending(k)') \in Nat
      BY <2>3, FiniteCallers, FS_Subset, FS_CardinalityType
    <2>5. CASE owed'[k] = owed[k]
      BY <2>1, <2>2, <2>4, <2>5, FiniteCallers
    <2>6. CASE owed'[k] # owed[k]
      <3>1. Start(c) /\ k = key[call[c][1]]
        BY <1>2, <2>6 DEF CallStep, CallFails, SetCallback, Start, TypeInv, TypeOK
      <3>2. owed'[k] = owed[k] + 1 /\ pc' = [pc EXCEPT ![c] = "idle"]
        BY <3>1 DEF Start, Return, TypeInv, TypeOK
      <3>3. Pending(k)' = Pending(k) \ {c} /\ c \in Pending(k)
        BY <1>1, <3>1, <3>2 DEF Pending, CallsOn, TypeInv, TypeOK
      <3>4. Cardinality(Pending(k)') = Cardinality(Pending(k)) - 1
        BY <3>3, FiniteCallers, FS_RemoveElement
      <3>5. QED
        BY <2>1, <2>2, <3>2, <3>4, FiniteCallers
    <2>7. QED
      BY <2>5, <2>6
  <1>5. QED
    BY <1>1, <1>2, <1>3, <1>4 DEF ShareInv

LEMMA WorkShareInv ==
  ASSUME TypeInv, Owned, ShareInv, NEW k \in Key, TimerFires(k) \/ WorkStep(k)
  PROVE  ShareInv'
  <1> USE DEF TypeInv, TypeOK
  <1>1. todo = <<>> /\ UNCHANGED <<key, todo, pc, call>>
    BY DEF InitFirst, TimerFires, WorkStep, WorkBegins, FunBegins, NoContext, FunReturns,
           initVars, callVars
  <1>2. \A j \in Key : Pending(j)' = Pending(j) /\ CallersOf(j)' = CallersOf(j)
    BY <1>1 DEF Pending, CallsOn, CallersOf
  <1>3. CalledByWork'
    BY <1>1 DEF ShareInv, CalledByWork, TimerFires, WorkStep, WorkBegins, FunBegins,
                NoContext, FunReturns, workVars, Caller
  <1>4. ASSUME NEW j \in Key PROVE owed'[j] + Cardinality(Pending(j)') <= Budget(j)'
    <2>1. CASE FunBegins(k) /\ j = k
      <3>1. owed'[k] = 0 /\ work'[k] = "running" /\ state'[k] = "RUNNING"
        BY <2>1 DEF FunBegins
      <3>2. Cardinality(Pending(k)) <= Cardinality(CallersOf(k))
        BY PendingAreCallers DEF ShareInv
      <3>3. QED
        BY <1>2, <2>1, <3>1, <3>2, FiniteCallers DEF Budget
    <2>2. CASE ~(FunBegins(k) /\ j = k)
      <3>1. owed'[j] = owed[j]
        BY <2>2 DEF TimerFires, WorkStep, WorkBegins, FunBegins, NoContext, FunReturns
      <3>2. work'[j] = "running" => work[j] = "running"
        BY <2>2 DEF TimerFires, WorkStep, WorkBegins, FunBegins, NoContext, FunReturns, workVars
      <3>3. state[j] = "STARTING" =>
              state'[j] = "STARTING" \/ (work[j] = "running" /\ work'[j] # "running")
        BY <2>2 DEF TimerFires, WorkStep, WorkBegins, FunBegins, NoContext, FunReturns
      <3>4. QED
        BY <1>1, <1>2, <3>1, <3>2, <3>3, SameShare
    <2>3. QED
      BY <2>1, <2>2
  <1>5. QED
    BY <1>1, <1>3, <1>4 DEF ShareInv

LEMMA NextShareInv ==
  ASSUME TypeInv, Owned, ShareInv, [Next]_vars
  PROVE  ShareInv'
  <1>1. CASE UNCHANGED vars
    <2>1. UNCHANGED <<key, todo, state, work, now, pc, call, owed>>
      BY <1>1 DEF vars, initVars, workVars, callVars
    <2>2. \A k \in Key : Pending(k)' = Pending(k)
      BY <2>1 DEF Pending, CallsOn
    <2>3. QED
      BY <2>1, <2>2, SameShare DEF ShareInv, CalledByWork
  <1>2. QED
    BY <1>1, InitFunShareInv, EnterShareInv, CallStepShareInv, WorkShareInv, NextCases

\* However often a function is called, and whoever calls it, at most two calls more
\* than it has callers share a run (hid_bpf_async_delayed_call refuses the others,
\* although __init_async_wq writes the state without the lock).
THEOREM SharingIsBounded == ASSUME EachInitOnce PROVE Spec => []FewShareARun
  <1>1. TypeInv /\ Owned /\ ShareInv /\ [Next]_vars => ShareInv'
    BY NextShareInv
  <1>2. TypeInv /\ ShareInv => FewShareARun
    <2> SUFFICES ASSUME TypeInv, ShareInv, NEW k \in Key
                 PROVE  owed[k] <= Cardinality(CallersOf(k)) + 2
      BY DEF FewShareARun
    <2>1. owed[k] + Cardinality(Pending(k)) <= Budget(k) /\ owed[k] \in Nat
      BY DEF ShareInv, TypeInv, TypeOK
    <2>2. QED
      BY <2>1, FiniteCallers DEF Budget
  <1>3. QED
    BY <1>1, <1>2, InitShareInv, OwnedInvariance, PTL DEF Spec
=============================================================================
