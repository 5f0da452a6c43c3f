---------------------------- MODULE SurfaceDial ----------------------------
(***************************************************************************)
(* 0010-Microsoft__Surface_Dial.bpf.c: a button held for two seconds       *)
(* switches the dial between a low resolution with haptic ticks and a high *)
(* resolution without, and the haptics a dial forgets while it sleeps are  *)
(* configured again.                                                       *)
(*                                                                         *)
(* Device events come one at a time; two timers and a work item run beside *)
(* them on other CPUs, and all share four plain variables without a lock.  *)
(* Time is not modelled: an armed timer may expire at any moment.  The     *)
(* dial only goes to sleep when the sleep timer has expired, which is what *)
(* the program takes its 120 seconds for.                                  *)
(*                                                                         *)
(* A System Wake Up report is dropped before anything is read or written   *)
(* and is no step of the model.                                            *)
(***************************************************************************)
EXTENDS Naturals

CONSTANTS
  RequestsFail   \* may a request to an awake dial fail?

ASSUME RequestsAssumption == RequestsFail \in BOOLEAN

MapKey == {"HAPTIC", "SLEEP"}
Multiplier == {"0", "LOW", "HIGH"}

VARIABLES
  haptic_enabled, prev_click, initialized, current_multiplier,
  armed,    \* [MapKey -> BOOLEAN], the timers
  cb,       \* [MapKey -> {"idle", "write", "start"}], their callbacks
  queued,   \* the work is queued
  work,     \* {"idle", "request", "scale"}, the work
  enable,   \* what the work was started with
  failed,   \* history: the last run of the work could not configure the dial
  event,    \* {"idle", "init", "set", "edge", "rearm"}, the device event
  click,    \* the button in the report it handles
  toggled,  \* history: the mode was changed since the button was pressed
  awake,    \* the dial: is it awake,
  ticks,    \*   are its haptics on,
  res       \*   and the multiplier for its resolution

progVars == <<haptic_enabled, prev_click, initialized, current_multiplier>>
workVars == <<work, enable, failed>>
eventVars == <<event, click, toggled>>
hardwareVars == <<awake, ticks, res>>
dialVars == <<progVars, armed, cb, queued, workVars, eventVars, hardwareVars>>

DialInit ==
  /\ haptic_enabled = TRUE
  /\ prev_click = FALSE
  /\ initialized = FALSE
  /\ current_multiplier = "0"
  /\ armed = [k \in MapKey |-> FALSE]
  /\ cb = [k \in MapKey |-> "idle"]
  /\ queued = FALSE
  /\ work = "idle" /\ enable = FALSE /\ failed = FALSE
  /\ event = "idle" /\ click = FALSE /\ toggled = FALSE
  /\ awake = TRUE /\ ticks = FALSE
  /\ res \in {"LOW", "HIGH"}

-----------------------------------------------------------------------------
(* The dial.                                                               *)

\* A report wakes a sleeping dial.  The hid core delivers one at a time.
Report(c) ==
  /\ event = "idle"
  /\ event' = "init"
  /\ click' = c
  /\ awake' = TRUE
  /\ UNCHANGED <<progVars, armed, cb, queued, workVars, toggled, ticks, res>>

\* The dial keeps its resolution and forgets its haptics.
Sleep ==
  /\ awake
  /\ event = "idle" /\ ~armed["SLEEP"] /\ cb["SLEEP"] = "idle"
  /\ awake' = FALSE
  /\ ticks' = FALSE
  /\ UNCHANGED <<progVars, armed, cb, queued, workVars, eventVars, res>>

-----------------------------------------------------------------------------
(* surface_dial_event                                                      *)

\* delay_work_control(hctx, 0, false)
StartWork ==
  /\ event = "init"
  /\ IF initialized THEN event' = "edge" /\ UNCHANGED queued
                    ELSE event' = "set" /\ queued' = TRUE
  /\ UNCHANGED <<progVars, armed, cb, workVars, click, toggled, hardwareVars>>

SetInitialized ==
  /\ event = "set"
  /\ event' = "edge"
  /\ initialized' = TRUE
  /\ UNCHANGED <<haptic_enabled, prev_click, current_multiplier, armed, cb, queued,
                 workVars, click, toggled, hardwareVars>>

\* delay_work_control(hctx, 2, !click): bpf_timer_cancel waits for a callback
\* that is running.
HapticTimerKept ==  \* a slip: the release does not cancel the timer
  IF click /\ ~prev_click THEN [armed EXCEPT !["HAPTIC"] = TRUE] ELSE armed
HapticTimerAgain == [armed EXCEPT !["HAPTIC"] = click]  \* a slip: not only on an edge
HapticTimer == IF prev_click = click THEN armed ELSE [armed EXCEPT !["HAPTIC"] = click]

Edge ==
  /\ event = "edge"
  /\ prev_click /\ ~click => cb["HAPTIC"] = "idle"
  /\ event' = "rearm"
  /\ armed' = HapticTimer
  /\ prev_click' = click
  /\ toggled' = (toggled /\ prev_click)
  /\ UNCHANGED <<haptic_enabled, initialized, current_multiplier, cb, queued,
                 workVars, click, hardwareVars>>

RestartSleepTimer ==
  /\ event = "rearm"
  /\ event' = "idle"
  /\ armed' = [armed EXCEPT !["SLEEP"] = TRUE]
  /\ UNCHANGED <<progVars, cb, queued, workVars, click, toggled, hardwareVars>>

-----------------------------------------------------------------------------
(* The timers and the work.                                                *)

Expire(k) ==
  /\ armed[k]
  /\ cb[k] = "idle"
  /\ armed' = [armed EXCEPT ![k] = FALSE]
  /\ cb' = [cb EXCEPT ![k] = "write"]
  /\ UNCHANGED <<progVars, queued, workVars, eventVars, hardwareVars>>

\* haptic_timer_cb: the mode is changed first, the work is started after that.
HapticTimerCb ==
  /\ \/ /\ cb["HAPTIC"] = "write"
        /\ haptic_enabled' = ~haptic_enabled
        /\ toggled' = TRUE
        /\ cb' = [cb EXCEPT !["HAPTIC"] = "start"]
        /\ UNCHANGED queued
     \/ /\ cb["HAPTIC"] = "start"
        /\ queued' = TRUE
        /\ cb' = [cb EXCEPT !["HAPTIC"] = "idle"]
        /\ UNCHANGED <<haptic_enabled, toggled>>
  /\ UNCHANGED <<prev_click, initialized, current_multiplier, armed, workVars,
                 event, click, hardwareVars>>

\* sleep_timer_cb
ForgetNothing == initialized  \* a slip: the dial is thought to keep its haptics
Initialized == FALSE

SleepTimerCb ==
  /\ cb["SLEEP"] = "write"
  /\ cb' = [cb EXCEPT !["SLEEP"] = "idle"]
  /\ initialized' = Initialized
  /\ UNCHANGED <<haptic_enabled, prev_click, current_multiplier, armed, queued,
                 workVars, eventVars, hardwareVars>>

\* haptic_wq_cb: the mode is read when the work begins.
WorkBegins ==
  /\ queued
  /\ work = "idle"
  /\ queued' = FALSE
  /\ work' = "request"
  /\ enable' = haptic_enabled
  /\ failed' = FALSE
  /\ UNCHANGED <<progVars, armed, cb, eventVars, hardwareVars>>

MultiplierOf(e) == IF e THEN "LOW" ELSE "HIGH"

\* set_res_and_haptic up to the SET_REPORT request, which the dial obeys.
SetReport ==
  /\ work = "request"
  /\ awake
  /\ work' = "scale"
  /\ ticks' = enable
  /\ res' = MultiplierOf(enable)
  /\ UNCHANGED <<progVars, armed, cb, queued, enable, failed, eventVars, awake>>

\* No context, no answer, or an answer that is lost: the multiplier is kept and
\* nobody tries again.
SetReportFails ==
  /\ work = "request"
  /\ ~awake \/ RequestsFail
  /\ work' = "idle"
  /\ failed' = TRUE
  /\ \/ UNCHANGED <<ticks, res>>
     \/ awake /\ ticks' = enable /\ res' = MultiplierOf(enable)
  /\ UNCHANGED <<progVars, armed, cb, queued, enable, eventVars, awake>>

SetMultiplier ==
  /\ work = "scale"
  /\ work' = "idle"
  /\ current_multiplier' = MultiplierOf(enable)
  /\ UNCHANGED <<haptic_enabled, prev_click, initialized, armed, cb, queued,
                 enable, failed, eventVars, hardwareVars>>

-----------------------------------------------------------------------------
DeviceEvent == StartWork \/ SetInitialized \/ Edge \/ RestartSleepTimer
Work == WorkBegins \/ SetReport \/ SetReportFails \/ SetMultiplier

DialNext ==
  \/ \E c \in BOOLEAN : Report(c)
  \/ Sleep
  \/ DeviceEvent
  \/ \E k \in MapKey : Expire(k)
  \/ HapticTimerCb \/ SleepTimerCb
  \/ Work
-----------------------------------------------------------------------------
(* Properties                                                              *)

\* The dial has been used, and nothing is under way.
AtRest ==
  /\ awake /\ event = "idle" /\ (initialized \/ current_multiplier # "0")
  /\ cb["HAPTIC"] = "idle" /\ ~queued /\ work = "idle"

\* A dial at rest is set up for the mode the program believes in, and its reports
\* are scaled for the resolution they have: no interleaving of timers, work and
\* events leaves a stale mode, a stale multiplier or a dial that has slept
\* without its haptics, unless the last request failed.
Configured ==
  AtRest /\ ~failed =>
    /\ ticks = haptic_enabled
    /\ current_multiplier = MultiplierOf(haptic_enabled)
    /\ res = current_multiplier

\* The mode changes while the button is down, and once for each press however
\* many reports the dial sends meanwhile (prev_click in surface_dial_event).
OneTogglePerPress ==
  [][haptic_enabled' # haptic_enabled => prev_click /\ ~toggled]_dialVars
=============================================================================
