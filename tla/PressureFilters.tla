-------------------------- MODULE PressureFilters --------------------------
(***************************************************************************)
(* Device event programs that change the pressure of a pen:                *)
(*                                                                         *)
(*   Waltop   0010-WALTOP__Batteryless-Tablet.bpf.c: half the range of the *)
(*            sensor is 0 to 100, and is spread                            *)
(*   ArtPen   0010-Wacom__ArtPen.bpf.c: every pressure is reported twice,  *)
(*            and the first report gets the mean with the one before       *)
(***************************************************************************)
EXTENDS Integers

CONSTANTS
  Pressure   \* bound: the pressures of an Art Pen

ASSUME PressureAssumption == Pressure \subseteq Nat

VARIABLES
  sensor,          \* the tablet, and with it the program that is loaded
  tip,             \* the tip switch
  raw,             \* the pressure in the last report of the tablet,
  again,           \* which reports it once more
  odd, prev_pressure,
  out,             \* the pressure in the last report the host got
  whole            \* history: the program has seen the stroke begin

pressureVars == <<sensor, tip, raw, again, odd, prev_pressure, out, whole>>

\* An Art Pen may be in contact when the program is loaded.
PressureInit ==
  /\ sensor \in {"Waltop", "ArtPen"}
  /\ raw \in IF sensor = "ArtPen" THEN Pressure ELSE {0}
  /\ again \in IF sensor = "ArtPen" THEN BOOLEAN ELSE {FALSE}
  /\ tip = (sensor = "ArtPen")
  /\ odd = FALSE /\ prev_pressure = 0
  /\ out = raw
  /\ whole = FALSE

-----------------------------------------------------------------------------
(* waltop_fix_events, the pressure.                                        *)

FloorLog2(x) == CHOOSE n \in 0..16 : 2^n <= x /\ x < 2^(n + 1)

\* Between two powers of 2 the logarithm is a straight line; 11 bits of fraction.
ScaledLog2(v) ==
  LET x == v + 1
      n == FloorLog2(x)
      log2 == n * 2048 + ((x - 2^n) * 2048) \div 2^n
  IN ((log2 * 2047) \div 11) \div 2048

CurveTooLong(v) == IF v <= 120 THEN v * 12 ELSE ScaledLog2(v)  \* a slip
Curve(v) == IF v <= 102 THEN v * 12 ELSE ScaledLog2(v)

WaltopReport ==
  /\ sensor = "Waltop"
  /\ raw' \in {raw - 1, raw, raw + 1} \cap 0..2047
  /\ out' = Curve(raw')
  /\ UNCHANGED <<sensor, tip, again, odd, prev_pressure, whole>>

-----------------------------------------------------------------------------
(* artpen_pressure_interpolate                                             *)

PenUpKept == UNCHANGED <<odd, prev_pressure>>  \* a slip: a stroke begins as the last one ended
PenUp == odd' = TRUE /\ prev_pressure' = 0

ArtPenUp ==
  /\ sensor = "ArtPen" /\ tip
  /\ PenUp
  /\ tip' = FALSE /\ raw' = 0 /\ out' = 0 /\ again' = FALSE
  /\ whole' = TRUE
  /\ UNCHANGED sensor

ArtPenReport ==
  /\ sensor = "ArtPen"
  /\ tip' = TRUE
  /\ raw' \in IF again THEN {raw} ELSE Pressure
  /\ again' = ~again
  /\ out' = IF odd THEN (raw' + prev_pressure) \div 2 ELSE raw'
  /\ prev_pressure' = out'
  /\ odd' = ~odd
  /\ UNCHANGED <<sensor, whole>>

PressureNext == WaltopReport \/ ArtPenUp \/ ArtPenReport
-----------------------------------------------------------------------------
(* Properties                                                              *)

\* Pressing harder on a Waltop never reads as less, also where the two curves
\* meet, and what is read stays in the range of the report descriptor.
HarderReadsMore ==
  [][sensor = "Waltop" => (raw' >= raw => out' >= out) /\ out' \in 0..2047]_pressureVars

\* On an Art Pen the host sees every pressure with the second report of it and
\* meets it halfway with the first, in any stroke the program has seen begin; it
\* never sees one beyond the last two, wherever the program came in.
Interpolated ==
  [][sensor = "ArtPen" /\ tip' =>
       IF again THEN out' = raw'
       ELSE IF whole THEN out' = (raw + raw') \div 2
       ELSE out' \in {raw', (raw + raw') \div 2}]_pressureVars
=============================================================================
