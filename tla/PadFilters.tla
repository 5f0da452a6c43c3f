----------------------------- MODULE PadFilters -----------------------------
(***************************************************************************)
(* Device event programs for tablets with buttons and wheels, which report *)
(* the buttons in one kind of report and the wheels in another:            *)
(*                                                                         *)
(*   Mask     Huion Inspiroy-2-S, Inspiroy-2-M, Dial-2 and KeydialK20: the *)
(*            buttons that are down                                        *)
(*   Kamvas   Huion Kamvas13Gen3 and Kamvas16Gen3, whose firmware handles  *)
(*            one button at a time                                         *)
(*   Keydial  Huion KeydialK20-Bluetooth: the keys that are down, and the  *)
(*            button inside the wheel in a report of its own               *)
(*                                                                         *)
(* The host gets reports of one kind that tell buttons and wheel, so that  *)
(* the programs remember the buttons.  How far a wheel has turned passes   *)
(* through with its direction encoded anew, and is left out.               *)
(***************************************************************************)
EXTENDS Naturals, FiniteSets

CONSTANTS
  Key,      \* the buttons of a pad
  Center    \* the button inside the wheel

ASSUME PadAssumption == Center \notin Key

Pads == {"Mask", "Kamvas", "Keydial"}
Button == Key \cup {Center}

VARIABLES
  pad,                 \* the tablet, and with it the program that is loaded
  held,                \* the buttons somebody holds down
  mixed,               \* more than one of them since all were up
  last_button_state,
  pressed              \* the buttons of the last report that got through

padVars == <<pad, held, mixed, last_button_state, pressed>>

PadInit ==
  /\ pad \in Pads
  /\ held = {} /\ mixed = FALSE
  /\ last_button_state = {} /\ pressed = {}

-----------------------------------------------------------------------------
(* The programs.                                                           *)

PassOn(buttons) == last_button_state' = buttons /\ pressed' = buttons

\* A report of the buttons, of the keys only on a Keydial.
KamvasTakes(r) == IF last_button_state # {} /\ r # {} THEN last_button_state ELSE r

ButtonReport(r) ==
  CASE pad = "Mask" -> PassOn(r)
    [] pad = "Kamvas" -> PassOn(KamvasTakes(r))
    [] pad = "Keydial" -> PassOn(r \ {Center})

\* The report of the button inside a Keydial's wheel.
CenterAlone(down) == PassOn(IF down THEN {Center} ELSE {})  \* a slip: the keys are lost
CenterReport(down) ==
  PassOn(IF down THEN last_button_state \cup {Center} ELSE last_button_state \ {Center})

\* A report of a wheel repeats the buttons.
WheelReport == PassOn(last_button_state)

-----------------------------------------------------------------------------
(* The hands, and what the firmware makes of them: a Kamvas may report     *)
(* presses and releases that never were while more than one is held.       *)

Reports(holds) ==
  IF pad = "Kamvas" /\ holds # {} /\ (mixed \/ Cardinality(holds) > 1)
  THEN SUBSET Button ELSE {holds}

Hold(b) ==
  /\ held' = IF b \in held THEN held \ {b} ELSE held \cup {b}
  /\ mixed' = (held' # {} /\ (mixed \/ Cardinality(held') > 1))
  /\ IF pad = "Keydial" /\ b = Center
     THEN CenterReport(b \in held')
     ELSE \E r \in Reports(held') : ButtonReport(r)
  /\ UNCHANGED pad

Imagined ==
  /\ pad = "Kamvas" /\ mixed
  /\ \E r \in SUBSET Button : ButtonReport(r)
  /\ UNCHANGED <<pad, held, mixed>>

Turn == WheelReport /\ UNCHANGED <<pad, held, mixed>>

PadNext == (\E b \in Button : Hold(b)) \/ Imagined \/ Turn
-----------------------------------------------------------------------------
(* Properties                                                              *)

\* The host sees the buttons that are held, whatever other reports come between
\* (last_button_state): no wheel, key or firmware releases or presses one.  Where
\* the firmware is at a loss it sees them again when all have been up, and the
\* button inside a Keydial's wheel is seen until a key changes.
HostFollowsPad ==
  CASE pad = "Mask" -> pressed = held
    [] pad = "Kamvas" -> ~mixed => pressed = held
    [] pad = "Keydial" -> pressed \in {held, held \ {Center}}
=============================================================================
