----------------------------- MODULE PenFilters -----------------------------
(***************************************************************************)
(* Four device event programs that keep memory between the reports of a    *)
(* pen, and the tablets they are for:                                      *)
(*                                                                         *)
(*   Artist24  0010-XPPen__Artist24.bpf.c                                  *)
(*   Inspiroy  0020-Huion__Inspiroy-2-S.bpf.c                              *)
(*   Kamvas19  0030-Huion__Kamvas-Pro-19.bpf.c                             *)
(*   Waltop    0010-WALTOP__Batteryless-Tablet.bpf.c                       *)
(*                                                                         *)
(* What a hand does with the pen is one thing, what the firmware reports   *)
(* of it another, and the program has only the reports to tell which.  The *)
(* firmware is as the comments of the programs describe it.  A report is   *)
(* the set of the switches that are on; a pen has one button.              *)
(***************************************************************************)
EXTENDS Naturals, Sequences

CONSTANT
  MaxFalse   \* bound of the firmware: reports without tip after the button's

ASSUME PenAssumption == MaxFalse \in Nat

Switch == {"InRange", "Tip", "Eraser", "Invert", "Barrel", "SecondaryBarrel", "ThirdButton"}
Tablet == {"Artist24", "Inspiroy", "Kamvas19", "Waltop"}

\* In range, in contact, button down, and the eraser end down.
Pen == [near: BOOLEAN, touch: BOOLEAN, button: BOOLEAN, eraser: BOOLEAN]

VARIABLES
  tablet,    \* the tablet, and with it the program that is loaded
  pen,       \* what the hand does with it
  due,       \* reports of the firmware that show no state of the pen
  told,      \* the last report showed the pen as it is
  prev_state,                                                       \* Artist24
  last_tip_state, last_sec_barrel_state, force_tip_down_count,      \* Inspiroy
  prev_was_out_of_range, in_eraser_mode,                            \* Kamvas19
  waltop_button_state,                                              \* Waltop (last_button_state)
  host,      \* the last report that got through
  down,      \* history: in contact ever since the host saw the tip
  touched,   \* history: in contact since it came in range
  since,     \* history: its reports since then, up to 4
  clean      \* history: it came in range with its button up

inspiroyVars == <<last_tip_state, last_sec_barrel_state, force_tip_down_count>>
kamvasVars == <<prev_was_out_of_range, in_eraser_mode>>
memoryVars == <<prev_state, inspiroyVars, kamvasVars, waltop_button_state>>
penVars == <<tablet, pen, due, told, memoryVars, host, down, touched, since, clean>>

PenInit ==
  /\ tablet \in Tablet
  /\ pen = [near |-> FALSE, touch |-> FALSE, button |-> FALSE, eraser |-> FALSE]
  /\ due = <<>> /\ told = TRUE
  /\ prev_state = {}
  /\ last_tip_state = FALSE /\ last_sec_barrel_state = FALSE /\ force_tip_down_count = 0
  /\ prev_was_out_of_range = FALSE /\ in_eraser_mode = FALSE
  /\ waltop_button_state = {}
  /\ host = {}
  /\ down = FALSE /\ touched = FALSE /\ since = 0 /\ clean = TRUE

If(condition, switches) == IF condition THEN switches ELSE {}

-----------------------------------------------------------------------------
(* The firmware.                                                           *)

ButtonAs == [t \in Tablet |-> CASE t = "Artist24" -> {"Eraser"}
                                [] t = "Inspiroy" -> {"SecondaryBarrel"}
                                [] t = "Kamvas19" -> {"Invert"}
                                [] t = "Waltop" -> {"Tip", "Barrel"}]

\* How the tablet reports the pen x.
Shown(x) ==
  If(x.near, {"InRange"} \cup If(x.touch, {IF x.eraser THEN "Eraser" ELSE "Tip"})
             \cup If(x.eraser, {"Invert"}) \cup If(x.button, ButtonAs[tablet]))

\* After its first report the button's change takes the tip from n more.
TipLost(first, n, x) == <<first>> \o [i \in 1..n |-> Shown(x) \ {"Tip"}]

\* The reports that show no state of the pen when its button changes: one out of
\* range, and in contact one without tip, or several.
FalseReports(x) ==
  CASE tablet = "Artist24" ->
         {IF x.touch THEN <<{}, Shown(x) \ {"Tip"}>> ELSE <<{}>>}
    [] tablet = "Inspiroy" /\ x.touch ->
         {TipLost(first, n, x) : first \in {Shown(x), Shown(x) \ {"Tip"}}, n \in 0..MaxFalse}
    [] OTHER -> {<<>>}

-----------------------------------------------------------------------------
(* The hand.  A tablet reports many times while a hand moves once: the     *)
(* button changes, and the pen comes and goes, when all is reported.       *)

Reported == told /\ due = <<>>

\* An eraser only comes in range after a report out of range.
Enter(eraser) ==
  /\ ~pen.near /\ Reported
  /\ eraser => tablet = "Kamvas19"
  /\ pen' = [pen EXCEPT !.near = TRUE, !.eraser = eraser]
  /\ due' = IF eraser THEN <<{}>> ELSE <<>>
  /\ told' = FALSE
  /\ clean' = ~pen.button
  /\ touched' = FALSE /\ since' = 0
  /\ UNCHANGED <<tablet, memoryVars, host, down>>

Leave ==
  /\ pen.near /\ ~pen.touch /\ Reported
  /\ pen' = [pen EXCEPT !.near = FALSE]
  /\ told' = FALSE
  /\ UNCHANGED <<tablet, due, memoryVars, host, down, touched, since, clean>>

TouchOrLift ==
  /\ pen.near
  /\ pen' = [pen EXCEPT !.touch = ~@]
  /\ told' = FALSE
  /\ touched' = TRUE
  /\ down' = FALSE
  /\ UNCHANGED <<tablet, due, memoryVars, host, since, clean>>

PressOrRelease ==
  /\ Reported
  /\ pen' = [pen EXCEPT !.button = ~@]
  /\ due' \in IF pen.near THEN FalseReports(pen') ELSE {<<>>}
  /\ told' = ~pen.near
  /\ UNCHANGED <<tablet, memoryVars, host, down, touched, since, clean>>

-----------------------------------------------------------------------------
(* xppen_24_fix_eraser.  A report equal to the one before passes; one out  *)
(* of range is never stored.                                               *)

Changed(r) == (r \ prev_state) \cup (prev_state \ r)

IgnoredInRangeOnly(r) == "InRange" \in r /\ {"Tip", "Eraser"} \subseteq Changed(r)  \* a slip
Ignored24(r) ==
  \/ "InRange" \notin r /\ "Tip" \in prev_state
  \/ "InRange" \in r /\ {"Tip", "Eraser"} \subseteq Changed(r)

StoredIfPassed(r) == "InRange" \in r /\ ~Ignored24(r)  \* a slip: after the last return
Stored24(r) == "InRange" \in r

Artist24(r) ==
  /\ prev_state' = IF Stored24(r) THEN r ELSE prev_state
  /\ IF Ignored24(r) THEN UNCHANGED host ELSE host' = r
  /\ UNCHANGED <<inspiroyVars, kamvasVars, waltop_button_state>>

-----------------------------------------------------------------------------
(* inspiroy_2_fix_events, pen reports in tablet mode.                      *)

ButtonChanges(r) == ("SecondaryBarrel" \in r) # last_sec_barrel_state

ForcesAlways(r) == ButtonChanges(r)  \* a slip: whether the tip was down or not
Forces(r) == last_tip_state /\ ButtonChanges(r)

CountWraps(r) == IF "Tip" \in r THEN 0 ELSE (force_tip_down_count + 255) % 256  \* a slip
Count(r) == IF force_tip_down_count = 0 \/ "Tip" \in r THEN 0 ELSE force_tip_down_count - 1

Inspiroy(r) ==
  /\ IF "InRange" \in r
     THEN /\ host' = r \cup If(force_tip_down_count > 0 \/ Forces(r), {"Tip"})
          /\ force_tip_down_count' = IF Forces(r) THEN 4 ELSE Count(r)
          /\ last_tip_state' = ("Tip" \in r)
          /\ last_sec_barrel_state' = ("SecondaryBarrel" \in r)
     ELSE host' = r /\ UNCHANGED inspiroyVars
  /\ UNCHANGED <<prev_state, kamvasVars, waltop_button_state>>

-----------------------------------------------------------------------------
(* kamvas_pro_19_fix_3rd_button                                            *)

EraserMode(r) ==
  /\ "InRange" \in r
  /\ in_eraser_mode \/ (prev_was_out_of_range /\ r \cap {"Invert", "Eraser"} # {})

OutOfRangeKept(r) == prev_was_out_of_range \/ "InRange" \notin r  \* a slip: not reset
WasOutOfRange(r) ==
  "InRange" \notin r \/ (prev_was_out_of_range /\ EraserMode(r))

Kamvas19(r) ==
  /\ in_eraser_mode' = EraserMode(r)
  /\ prev_was_out_of_range' = WasOutOfRange(r)
  /\ host' = IF "InRange" \notin r \/ EraserMode(r) THEN r
             ELSE (r \ {"Invert"}) \cup If("Invert" \in r, {"ThirdButton"})
  /\ UNCHANGED <<prev_state, inspiroyVars, waltop_button_state>>

-----------------------------------------------------------------------------
(* waltop_fix_events, the buttons.                                         *)

Waltop(r) ==
  LET out == IF {"Tip", "Barrel"} \subseteq r /\ waltop_button_state \cap {"Tip", "Barrel"} = {}
             THEN (r \ {"Tip", "Barrel"}) \cup {"SecondaryBarrel"}
             ELSE r
  IN
    /\ host' = out
    /\ waltop_button_state' = out
    /\ UNCHANGED <<prev_state, inspiroyVars, kamvasVars>>

-----------------------------------------------------------------------------
(* A report goes through the program that is loaded.                       *)

Filter(r) ==
  CASE tablet = "Artist24" -> Artist24(r)
    [] tablet = "Inspiroy" -> Inspiroy(r)
    [] tablet = "Kamvas19" -> Kamvas19(r)
    [] tablet = "Waltop" -> Waltop(r)

PenReport ==
  /\ due # <<>> \/ pen.near \/ ~told
  /\ LET r == IF due # <<>> THEN Head(due) ELSE Shown(pen) IN
       /\ Filter(r)
       /\ due' = IF due # <<>> THEN Tail(due) ELSE due
       /\ told' = (due = <<>>)
  /\ since' = IF pen.near /\ since < 4 THEN since + 1 ELSE since
  /\ down' = (down \/ (pen.touch /\ "Tip" \in host'))
  /\ UNCHANGED <<tablet, pen, touched, clean>>

PenNext ==
  \/ \E eraser \in BOOLEAN : Enter(eraser)
  \/ Leave
  \/ TouchOrLift
  \/ PressOrRelease
  \/ PenReport
-----------------------------------------------------------------------------
(* Properties                                                              *)

\* While a pen stays in contact the host never sees its tip released, whatever
\* the firmware makes of its button (xppen_24_fix_eraser, force_tip_down_count).
NoFalseRelease == [][down /\ "Tip" \in host => "Tip" \in host']_penVars

\* The host sees no tip of a pen that has not been in contact since it came in
\* range, neither a forced one nor a button that is reported as one, except in its
\* first three reports: force_tip_down_count outlasts a pen that leaves early.
NoFalsePress ==
  "Tip" \in host /\ ~touched => tablet = "Inspiroy" /\ since <= 3

\* The third button and the eraser share a bit and are never taken for each other,
\* unless the pen comes in range with its button down (in_eraser_mode).
ButtonOrEraser ==
  tablet = "Kamvas19" /\ clean /\ pen.near =>
    ("Invert" \in host => pen.eraser) /\ ("ThirdButton" \in host => ~pen.eraser)

\* What the host should see of the pen.
Meant ==
  IF tablet = "Kamvas19" /\ pen.button /\ ~pen.eraser
  THEN (Shown(pen) \ {"Invert"}) \cup If(pen.near, {"ThirdButton"}) ELSE Shown(pen)

\* A pen that is held still is soon seen as it is: nothing that was ignored or
\* forced stays (on a Waltop the button hides the tip, see waltop_fix_events, and a
\* Kamvas takes a pen that comes in range with its button down for an eraser).
HostCatchesUp ==
  \A x \in Pen : pen = x ~>
    pen # x \/ host = Meant \/ tablet = "Waltop" \/ (tablet = "Kamvas19" /\ ~clean)
=============================================================================
