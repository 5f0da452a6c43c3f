--------------------------- MODULE DevicePrograms ---------------------------
(***************************************************************************)
(* The programs of PenFilters, PadFilters, PressureFilters, TiltFilter and *)
(* SurfaceDial.  Each is loaded on a device of its own, or filters reports *)
(* of its own, and they share no memory: each behaviour is about one of    *)
(* them.                                                                   *)
(***************************************************************************)
EXTENDS PenFilters, PadFilters, PressureFilters, TiltFilter, SurfaceDial

VARIABLE part

tabletVars == <<penVars, padVars, pressureVars, tiltVars>>
vars == <<part, tabletVars, dialVars>>

\* A behaviour about one of them has the others as they are somewhere.
Init ==
  /\ part \in {"pen", "pad", "pressure", "tilt", "dial"}
  /\ PenInit /\ PadInit /\ PressureInit /\ TiltInit /\ DialInit
  /\ part # "pen" => tablet = "Artist24"
  /\ part # "pad" => pad = "Mask"
  /\ part # "pressure" => sensor = "Waltop"
  /\ part # "tilt" => place = CHOOSE x \in Places : TRUE
  /\ part # "dial" => res = "LOW"

PenPart ==
  part = "pen" /\ PenNext /\ UNCHANGED <<part, padVars, pressureVars, tiltVars, dialVars>>
PadPart ==
  part = "pad" /\ PadNext /\ UNCHANGED <<part, penVars, pressureVars, tiltVars, dialVars>>
PressurePart ==
  part = "pressure" /\ PressureNext /\ UNCHANGED <<part, penVars, padVars, tiltVars, dialVars>>
TiltPart ==
  part = "tilt" /\ TiltReport /\ UNCHANGED <<part, penVars, padVars, pressureVars, dialVars>>
DialPart == part = "dial" /\ DialNext /\ UNCHANGED <<part, tabletVars>>

Next == PenPart \/ PadPart \/ PressurePart \/ TiltPart \/ DialPart

\* A tablet keeps reporting a pen in range.
Fairness == WF_vars(PenReport /\ PenPart)

Spec == Init /\ [][Next]_vars /\ Fairness
-----------------------------------------------------------------------------
\* Every variable has its type; the count of forced reports, a byte, never runs
\* below zero (force_tip_down_count in inspiroy_2_fix_events), and the two-second
\* timer only runs while the button is down (delay_work_control with cancel on its
\* release).
TypeOK ==
  /\ tablet \in Tablet /\ pen \in Pen
  /\ due \in Seq(SUBSET Switch) /\ told \in BOOLEAN /\ since \in 0..4
  /\ prev_state \subseteq Switch /\ waltop_button_state \subseteq Switch /\ host \subseteq Switch
  /\ last_tip_state \in BOOLEAN /\ last_sec_barrel_state \in BOOLEAN
  /\ force_tip_down_count \in 0..4
  /\ prev_was_out_of_range \in BOOLEAN /\ in_eraser_mode \in BOOLEAN
  /\ down \in BOOLEAN /\ touched \in BOOLEAN /\ clean \in BOOLEAN
  /\ pad \in Pads /\ held \subseteq Button /\ mixed \in BOOLEAN
  /\ last_button_state \subseteq Button /\ pressed \subseteq Button
  /\ sensor \in {"Waltop", "ArtPen"} /\ tip \in BOOLEAN /\ again \in BOOLEAN
  /\ raw \in Nat /\ out \in Nat /\ prev_pressure \in Nat
  /\ odd \in BOOLEAN /\ whole \in BOOLEAN
  /\ place \in Places /\ tilt \in -127..127 /\ beyond \in Int /\ cursor \in Int
  /\ haptic_enabled \in BOOLEAN /\ prev_click \in BOOLEAN /\ initialized \in BOOLEAN
  /\ current_multiplier \in Multiplier
  /\ armed \in [MapKey -> BOOLEAN]
  /\ cb \in [MapKey -> {"idle", "write", "start"}]
  /\ queued \in BOOLEAN
  /\ work \in {"idle", "request", "scale"} /\ enable \in BOOLEAN /\ failed \in BOOLEAN
  /\ event \in {"idle", "init", "set", "edge", "rearm"}
  /\ click \in BOOLEAN /\ toggled \in BOOLEAN
  /\ awake \in BOOLEAN /\ ticks \in BOOLEAN /\ res \in {"LOW", "HIGH"}
  /\ armed["HAPTIC"] => prev_click
=============================================================================
