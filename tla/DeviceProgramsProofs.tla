------------------------ MODULE DeviceProgramsProofs ------------------------
(***************************************************************************)
(* What the dial and the filters of DevicePrograms promise for any keys,   *)
(* pressures and tables of offsets.  Each theorem is about one part; the   *)
(* steps of the others leave its variables alone.  The pens' switches are  *)
(* in PenFiltersProofs.                                                    *)
(***************************************************************************)
EXTENDS DevicePrograms, FiniteSetTheorems, TLAPS

LEMMA PartsAreApart ==
  ASSUME [Next]_vars
  PROVE  /\ UNCHANGED penVars \/ PenNext
         /\ UNCHANGED padVars \/ PadNext
         /\ UNCHANGED pressureVars \/ PressureNext
         /\ UNCHANGED tiltVars \/ TiltReport
         /\ UNCHANGED dialVars \/ DialNext
  BY DEF Next, vars, tabletVars, PenPart, PadPart, PressurePart, TiltPart, DialPart

-----------------------------------------------------------------------------
(* TiltFilter                                                              *)

TiltInv == place \in Places /\ tilt \in -127..127 /\ TipIsSeen

LEMMA OffsetsAndPlaces ==
  /\ \A n \in 0..127 : Offsets[n] \in Int /\ 0 <= Offsets[n] /\ Offsets[n] <= Maximum
  /\ \A x \in Places : x \in Int /\ 0 <= x /\ x <= Maximum
  <1>1. Maximum \in Nat
    BY DEF Maximum
  <1>2. Offsets \in [0..127 -> 0..Maximum] /\ Places \subseteq 0..Maximum
    BY TiltAssumption
  <1>3. QED
    BY <1>1, <1>2

\* A coil that is o to the right of the tip, or to the left.
LEMMA Beside ==
  ASSUME NEW x \in Int, 0 <= x, x <= Maximum, NEW o \in Int, 0 <= o, o <= Maximum,
         NEW e \in Int, -Error <= e, e <= Error,
         NEW c \in Int, NEW s \in Int, s = Seen(c), NEW d \in Int,
         \/ c = x + o + e /\ d = IF s > o THEN s - o ELSE 0
         \/ c = x - o + e /\ d = IF s < Maximum - o THEN s + o ELSE Maximum
  PROVE  /\ 0 <= d /\ d <= Maximum
         /\ d - (x - (c - s)) \in -Error..Error
  <1>1. Error \in Nat
    BY TiltAssumption
  <1>2. s = IF c < 0 THEN 0 ELSE IF c > Maximum THEN Maximum ELSE c
    BY DEF Seen
  <1>3. /\ 0 <= d /\ d <= Maximum
        /\ -Error <= d - (x - (c - s)) /\ d - (x - (c - s)) <= Error
    BY <1>1, <1>2 DEF Maximum
  <1>4. QED
    BY <1>1, <1>3

LEMMA NextTilt ==
  ASSUME TiltInv, [Next]_vars
  PROVE  TiltInv'
  <1>1. CASE UNCHANGED tiltVars
    BY <1>1 DEF TiltInv, TipIsSeen, tiltVars
  <1>2. CASE TiltReport
    <2>1. place' \in Places /\ tilt' \in -127..127
      BY <1>2 DEF TiltReport, TiltInv
    <2>2. place' \in Int /\ 0 <= place' /\ place' <= Maximum
      BY <2>1, OffsetsAndPlaces
    <2>3. tilt' \in Int /\ -127 <= tilt' /\ tilt' <= 127
      BY <2>1
    <2>4. PICK e \in -Error..Error :
            LET coil == Coil(place', tilt') + e
            IN  beyond' = coil - Seen(coil) /\ cursor' = Compensate(Seen(coil), tilt')
      BY <1>2 DEF TiltReport
    <2>5. e \in Int /\ -Error <= e /\ e <= Error
      BY TiltAssumption
    <2>6. \A n \in 0..127 : Offsets[n] \in Int /\ 0 <= Offsets[n] /\ Offsets[n] <= Maximum
      BY OffsetsAndPlaces
    <2>7. \A c \in Int : Seen(c) \in Int
      BY DEF Seen, Maximum
    <2>8. PICK c \in Int, d \in Int :
            /\ beyond' = c - Seen(c) /\ cursor' = d
            /\ 0 <= d /\ d <= Maximum
            /\ d - (place' - (c - Seen(c))) \in -Error..Error
      <3>1. CASE tilt' > 0
        <4> DEFINE o == Offsets[tilt']
                   c == place' + o + e
        <4>1. o \in Int /\ 0 <= o /\ o <= Maximum
          BY <2>3, <2>6, <3>1
        <4>2. c \in Int /\ Coil(place', tilt') + e = c /\ Seen(c) \in Int
          BY <2>2, <2>5, <2>7, <3>1, <4>1 DEF Coil
        <4>3. ~(tilt' > 127)
          BY <2>3
        <4>4. Compensate(Seen(c), tilt') = IF Seen(c) > o THEN Seen(c) - o ELSE 0
          BY <3>1, <4>3 DEF Compensate
        <4> HIDE DEF o, c
        <4>5. cursor' \in Int /\ cursor' = IF Seen(c) > o THEN Seen(c) - o ELSE 0
          BY <2>4, <4>1, <4>2, <4>4
        <4>6. c = place' + o + e
          BY DEF c
        <4>7. QED
          BY <2>2, <2>4, <2>5, <4>1, <4>2, <4>5, <4>6, Beside
      <3>2. CASE ~(tilt' > 0)
        <4> DEFINE o == Offsets[-tilt']
                   c == place' - o + e
        <4>1. o \in Int /\ 0 <= o /\ o <= Maximum
          BY <2>3, <2>6, <3>2
        <4>2. c \in Int /\ Coil(place', tilt') + e = c /\ Seen(c) \in Int
          BY <2>2, <2>5, <2>7, <3>2, <4>1 DEF Coil
        <4>3. \A x, t \in Int : -127 <= t /\ ~(t > 0) =>
                Compensate(x, t) = IF x < Maximum - Offsets[-t] THEN x + Offsets[-t] ELSE Maximum
          <5>1. \A t \in Int : -127 <= t => ~(-t > 127)
            OBVIOUS
          <5>2. QED
            BY <5>1 DEF Compensate
        <4>4. Compensate(Seen(c), tilt')
                = IF Seen(c) < Maximum - o THEN Seen(c) + o ELSE Maximum
          BY <2>3, <3>2, <4>2, <4>3
        <4> HIDE DEF o, c
        <4>5. /\ cursor' \in Int
              /\ cursor' = IF Seen(c) < Maximum - o THEN Seen(c) + o ELSE Maximum
          BY <2>4, <4>1, <4>2, <4>4 DEF Maximum
        <4>6. c = place' - o + e
          BY DEF c
        <4>7. QED
          BY <2>2, <2>4, <2>5, <4>1, <4>2, <4>5, <4>6, Beside
      <3>3. QED
        BY <3>1, <3>2
    <2>9. QED
      BY <2>1, <2>8 DEF TiltInv, TipIsSeen, Maximum
  <1>3. QED
    BY <1>1, <1>2, PartsAreApart

LEMMA TiltInvariance == Spec => []TiltInv
  <1>1. Init => TiltInv
    <2>1. SUFFICES ASSUME TiltInit PROVE TiltInv
      BY DEF Init
    <2>2. place \in Places /\ place \in 0..Maximum /\ tilt = 0 /\ beyond = 0 /\ cursor = place
      BY <2>1, TiltAssumption DEF TiltInit
    <2>3. 0 \in -Error..Error
      BY TiltAssumption
    <2>4. cursor - (place - beyond) = 0
      BY <2>2 DEF Maximum
    <2>5. QED
      BY <2>2, <2>3, <2>4 DEF TiltInv, TipIsSeen
  <1>2. QED
    BY <1>1, NextTilt, PTL DEF Spec

\* With any table of offsets and any error, the host sees the tip of a tilted pen as
\* well as the tablet sees its coil (compensate_coordinates_by_tilt).
THEOREM TipSeen == Spec => []TipIsSeen
  <1>1. TiltInv => TipIsSeen
    BY DEF TiltInv
  <1>2. QED
    BY <1>1, TiltInvariance, PTL

-----------------------------------------------------------------------------
(* PadFilters                                                              *)

\* The program has passed on what it remembers; a Kamvas that is not at a loss has
\* no more than one button held.
PadInv ==
  /\ pad \in Pads /\ held \subseteq Button /\ IsFiniteSet(held) /\ mixed \in BOOLEAN
  /\ pressed = last_button_state
  /\ ~mixed => Cardinality(held) <= 1
  /\ HostFollowsPad

LEMMA HoldPad ==
  ASSUME PadInv, NEW b \in Button, Hold(b)
  PROVE  PadInv'
  <1>1. pad' = pad /\ held' = IF b \in held THEN held \ {b} ELSE held \cup {b}
    BY DEF Hold
  <1>2. held' \subseteq Button /\ IsFiniteSet(held') /\ Cardinality(held') \in Nat
    BY <1>1, FS_AddElement, FS_RemoveElement, FS_CardinalityType DEF PadInv
  <1>3. /\ mixed' \in BOOLEAN
        /\ ~mixed' => Cardinality(held') <= 1
    <2>1. held' = {} => Cardinality(held') = 0
      BY FS_EmptySet
    <2>2. mixed' = (held' # {} /\ (mixed \/ Cardinality(held') > 1))
      BY DEF Hold
    <2>3. mixed' \in BOOLEAN
      BY ONLY <2>2
    <2>4. ASSUME ~mixed' PROVE held' = {} \/ ~(Cardinality(held') > 1)
      BY ONLY <2>2, <2>4
    <2>5. QED
      BY <1>2, <2>1, <2>3, <2>4
  <1>4. pressed' = last_button_state'
    <2>1. ASSUME NEW r, ButtonReport(r) PROVE pressed' = last_button_state'
      <3>1. pad = "Mask" \/ pad = "Kamvas" \/ pad = "Keydial"
        BY DEF PadInv, Pads
      <3>2. \E s : PassOn(s)
        <4>1. CASE pad = "Mask"
          BY <2>1, <4>1 DEF ButtonReport
        <4>2. CASE pad = "Kamvas"
          BY <2>1, <4>2 DEF ButtonReport
        <4>3. CASE pad = "Keydial"
          BY <2>1, <4>3 DEF ButtonReport
        <4>4. QED
          BY <3>1, <4>1, <4>2, <4>3
      <3>3. QED
        BY <3>2 DEF PassOn
    <2>2. ASSUME NEW d, CenterReport(d) PROVE pressed' = last_button_state'
      BY <2>2 DEF CenterReport, PassOn
    <2>3. QED
      BY <2>1, <2>2 DEF Hold
  <1>5. CASE pad = "Mask"
    BY <1>1, <1>2, <1>3, <1>4, <1>5
    DEF PadInv, HostFollowsPad, Hold, Reports, ButtonReport, PassOn
  <1>6. CASE pad = "Keydial"
    BY <1>1, <1>2, <1>3, <1>4, <1>6, PadAssumption
    DEF PadInv, HostFollowsPad, Hold, Reports, ButtonReport, CenterReport, PassOn
  <1>7. CASE pad = "Kamvas"
    <2>1. ASSUME ~mixed' PROVE pressed' = held'
      <3>1. held' = {} \/ (~mixed /\ ~(Cardinality(held') > 1))
        BY <2>1 DEF Hold
      <3>2. pressed' = KamvasTakes(held')
        BY <1>7, <3>1 DEF Hold, Reports, ButtonReport, PassOn
      <3>3. CASE held' = {}
        BY <3>2, <3>3 DEF KamvasTakes
      <3>4. CASE held' # {} /\ ~mixed /\ ~(Cardinality(held') > 1)
        <4>1. IsFiniteSet(held) /\ Cardinality(held) \in Nat /\ Cardinality(held) <= 1
          BY <3>4, FS_CardinalityType DEF PadInv
        <4>2. Cardinality(held') # 0
          BY <1>2, <3>4, FS_EmptySet
        <4>3. b \notin held
          BY <1>1, <1>2, <4>1, <4>2, FS_RemoveElement
        <4>4. Cardinality(held') = Cardinality(held) + 1
          BY <1>1, <4>1, <4>3, FS_AddElement
        <4>5. held = {}
          BY <1>2, <3>4, <4>1, <4>4, FS_EmptySet
        <4>6. last_button_state = {}
          BY <1>7, <3>4, <4>5 DEF PadInv, HostFollowsPad
        <4>7. QED
          BY <3>2, <4>6 DEF KamvasTakes
      <3>5. QED
        BY <3>1, <3>3, <3>4
    <2>2. QED
      BY <1>1, <1>2, <1>3, <1>4, <1>7, <2>1 DEF PadInv, HostFollowsPad, Pads
  <1>8. QED
    BY <1>5, <1>6, <1>7 DEF PadInv, Pads

LEMMA NextPad ==
  ASSUME PadInv, [Next]_vars
  PROVE  PadInv'
  <1>1. CASE UNCHANGED padVars
    BY <1>1 DEF PadInv, HostFollowsPad, padVars
  <1>2. ASSUME NEW b \in Button, Hold(b) PROVE PadInv'
    BY <1>2, HoldPad
  <1>3. CASE Imagined \/ Turn
    <2>1. UNCHANGED <<pad, held, mixed>> /\ pressed' = last_button_state'
      BY <1>3 DEF Imagined, Turn, ButtonReport, WheelReport, PassOn, PadInv
    <2>2. CASE Imagined
      BY <2>1, <2>2 DEF Imagined, PadInv, HostFollowsPad
    <2>3. CASE Turn
      <3>1. pressed' = pressed
        BY <2>3 DEF Turn, WheelReport, PassOn, PadInv
      <3>2. QED
        BY <2>1, <3>1 DEF PadInv, HostFollowsPad
    <2>4. QED
      BY <1>3, <2>2, <2>3
  <1>4. QED
    BY <1>1, <1>2, <1>3, PartsAreApart DEF PadNext

LEMMA PadInvariance == Spec => []PadInv
  <1>1. Init => PadInv
    <2>1. SUFFICES ASSUME PadInit PROVE PadInv
      BY DEF Init
    <2>2. /\ pad \in Pads /\ held = {} /\ mixed \in BOOLEAN
          /\ pressed = held /\ pressed = last_button_state
          /\ IsFiniteSet(held) /\ Cardinality(held) = 0
      BY <2>1, FS_EmptySet DEF PadInit
    <2>3. HostFollowsPad
      BY <2>2 DEF HostFollowsPad, Pads
    <2>4. held \subseteq Button /\ Cardinality(held) <= 1
      BY <2>2
    <2>5. QED
      BY <2>2, <2>3, <2>4 DEF PadInv
  <1>2. QED
    BY <1>1, NextPad, PTL DEF Spec

\* Whatever keys a pad has, the host sees those that are held (last_button_state).
THEOREM PadFollowed == Spec => []HostFollowsPad
  <1>1. PadInv => HostFollowsPad
    BY DEF PadInv
  <1>2. QED
    BY <1>1, PadInvariance, PTL

-----------------------------------------------------------------------------
(* PressureFilters                                                         *)

\* Before a mean the pressure before is remembered, and the program is in step from
\* the first stroke that it has seen begin.
PressureInv ==
  sensor = "ArtPen" =>
    /\ raw \in Nat /\ prev_pressure \in Nat
    /\ odd \in BOOLEAN /\ again \in BOOLEAN
    /\ odd => prev_pressure = raw
    /\ whole => odd = ~again

LEMMA ReportPressure ==
  ASSUME PressureInv, ArtPenReport
  PROVE  /\ PressureInv'
         /\ IF again THEN out' = raw'
            ELSE IF whole THEN out' = (raw + raw') \div 2
            ELSE out' \in {raw', (raw + raw') \div 2}
  <1>1. /\ sensor = "ArtPen" /\ sensor' = sensor /\ whole' = whole
        /\ raw \in Nat /\ odd \in BOOLEAN /\ again \in BOOLEAN /\ raw' \in Nat
        /\ odd' = ~odd /\ again' = ~again /\ prev_pressure' = out'
        /\ again => raw' = raw
        /\ odd => prev_pressure = raw
        /\ whole => odd = ~again
    BY PressureAssumption DEF PressureInv, ArtPenReport
  <1>2. out' = IF odd THEN (raw + raw') \div 2 ELSE raw'
    BY <1>1 DEF ArtPenReport
  <1>3. \A m, n \in Nat : (m + m) \div 2 = m /\ (m + n) \div 2 \in Nat
    OBVIOUS
  <1>4. again => out' = raw'
    BY <1>1, <1>2, <1>3
  <1>5. PressureInv'
    BY <1>1, <1>2, <1>3, <1>4 DEF PressureInv
  <1>6. QED
    BY <1>1, <1>2, <1>4, <1>5

LEMMA NextPressure ==
  ASSUME PressureInv, [Next]_vars
  PROVE  PressureInv'
  <1>1. CASE UNCHANGED pressureVars
    BY <1>1 DEF PressureInv, pressureVars
  <1>2. CASE WaltopReport
    BY <1>2 DEF WaltopReport, PressureInv
  <1>3. CASE ArtPenUp
    BY <1>3 DEF ArtPenUp, PenUp, PressureInv
  <1>4. CASE ArtPenReport
    BY <1>4, ReportPressure
  <1>5. QED
    BY <1>1, <1>2, <1>3, <1>4, PartsAreApart DEF PressureNext

\* Whatever the pressures, the mean of an Art Pen stays in step with its reports
\* (artpen_pressure_interpolate).
THEOREM InStep == Spec => Interpolated
  <1>1. Init => PressureInv
    <2>1. SUFFICES ASSUME PressureInit, sensor = "ArtPen" PROVE PressureInv
      BY DEF Init, PressureInv
    <2>2. raw \in Nat /\ again \in BOOLEAN /\ odd = FALSE /\ prev_pressure = 0 /\ whole = FALSE
      BY <2>1, PressureAssumption DEF PressureInit
    <2>3. QED
      BY <2>2 DEF PressureInv
  <1>2. ASSUME PressureInv, [Next]_vars
        PROVE  [sensor = "ArtPen" /\ tip' =>
                  IF again THEN out' = raw'
                  ELSE IF whole THEN out' = (raw + raw') \div 2
                  ELSE out' \in {raw', (raw + raw') \div 2}]_pressureVars
    <2>1. CASE UNCHANGED pressureVars
      BY <2>1
    <2>2. CASE WaltopReport \/ ArtPenUp
      BY <2>2 DEF WaltopReport, ArtPenUp
    <2>3. CASE ArtPenReport
      BY <1>2, <2>3, ReportPressure
    <2>4. QED
      BY <1>2, <2>1, <2>2, <2>3, PartsAreApart DEF PressureNext
  <1>3. QED
    BY <1>1, <1>2, NextPressure, PTL DEF Spec, Interpolated

\* The curve of a Waltop is straight up to 102 and between two powers of 2.
Power(n) == 2^n

LEMMA Powers ==
  /\ Power(0) = 1 /\ Power(1) = 2 /\ Power(2) = 4 /\ Power(3) = 8 /\ Power(4) = 16 /\ Power(5) = 32
  /\ Power(6) = 64 /\ Power(7) = 128 /\ Power(8) = 256 /\ Power(9) = 512 /\ Power(10) = 1024 /\ Power(11) = 2048
  /\ Power(12) = 4096 /\ Power(13) = 8192 /\ Power(14) = 16384 /\ Power(15) = 32768 /\ Power(16) = 65536 /\ Power(17) = 131072
  BY DEF Power

Segment(n, p, x) ==
  \/ 64 <= x /\ x < 128 /\ n = 6 /\ p = 64
  \/ 128 <= x /\ x < 256 /\ n = 7 /\ p = 128
  \/ 256 <= x /\ x < 512 /\ n = 8 /\ p = 256
  \/ 512 <= x /\ x < 1024 /\ n = 9 /\ p = 512
  \/ 1024 <= x /\ x < 2048 /\ n = 10 /\ p = 1024
  \/ 2048 <= x /\ x < 4096 /\ n = 11 /\ p = 2048

LEMMA Logarithm ==
  ASSUME NEW x \in Int, 64 <= x, x <= 2048
  PROVE  Segment(FloorLog2(x), Power(FloorLog2(x)), x)
  <1>1. ASSUME NEW n \in 0..16, Power(n) <= x, x < Power(n + 1)
        PROVE  Segment(n, Power(n), x)
    <2>1. \/ n = 0 \/ n = 1 \/ n = 2 \/ n = 3 \/ n = 4 \/ n = 5 \/ n = 6 \/ n = 7 \/ n = 8
          \/ n = 9 \/ n = 10 \/ n = 11 \/ n = 12 \/ n = 13 \/ n = 14 \/ n = 15 \/ n = 16
      OBVIOUS
    <2>2. QED
      BY <1>1, <2>1, Powers DEF Segment
  <1>2. \E n \in 0..16 : Power(n) <= x /\ x < Power(n + 1)
    <2>1. /\ 64 <= x /\ x < 128 => Power(6) <= x /\ x < Power(6 + 1)
          /\ 128 <= x /\ x < 256 => Power(7) <= x /\ x < Power(7 + 1)
          /\ 256 <= x /\ x < 512 => Power(8) <= x /\ x < Power(8 + 1)
          /\ 512 <= x /\ x < 1024 => Power(9) <= x /\ x < Power(9 + 1)
          /\ 1024 <= x /\ x < 2048 => Power(10) <= x /\ x < Power(10 + 1)
          /\ x = 2048 => Power(11) <= x /\ x < Power(11 + 1)
      BY Powers
    <2>2. QED
      BY <2>1
  <1>3. PICK k \in 0..16 : Power(k) <= x /\ x < Power(k + 1)
    BY <1>2
  <1>4. Segment(k, Power(k), x)
    BY <1>1, <1>3
  <1>5. \A n \in 0..16 : Power(n) <= x /\ x < Power(n + 1) => n = k
    <2>1. \A n, p, q : Segment(n, p, x) /\ Segment(k, q, x) => n = k
      BY DEF Segment
    <2>2. QED
      BY <1>1, <1>4, <2>1
  <1>6. FloorLog2(x) = k
    BY <1>3, <1>5 DEF FloorLog2, Power
  <1>7. QED
    BY <1>4, <1>6

Straight(n, p, v) == (((n * 2048 + (((v + 1) - p) * 2048) \div p) * 2047) \div 11) \div 2048

LEMMA CurveAs ==
  ASSUME NEW v \in Int, 0 <= v, v <= 2047
  PROVE  Curve(v) = IF v <= 102 THEN v * 12
                    ELSE IF v <= 126 THEN Straight(6, 64, v)
                    ELSE IF v <= 254 THEN Straight(7, 128, v)
                    ELSE IF v <= 510 THEN Straight(8, 256, v)
                    ELSE IF v <= 1022 THEN Straight(9, 512, v)
                    ELSE IF v <= 2046 THEN Straight(10, 1024, v)
                    ELSE Straight(11, 2048, v)
  <1>1. CASE v <= 102
    BY <1>1 DEF Curve
  <1>2. CASE v > 102
    <2> DEFINE x == v + 1
               n == FloorLog2(x)
    <2>1. x = v + 1
      OBVIOUS
    <2>2. Segment(n, Power(n), x)
      <3>1. x \in Int /\ 64 <= x /\ x <= 2048
        BY <1>2
      <3> HIDE DEF x
      <3>2. Segment(FloorLog2(x), Power(FloorLog2(x)), x)
        BY <3>1, Logarithm
      <3>3. QED
        BY <3>2
    <2>3. Curve(v) = ScaledLog2(v)
      BY <1>2 DEF Curve
    <2>4. ScaledLog2(v) = Straight(n, Power(n), v)
      <3>1. ScaledLog2(v) = Straight(FloorLog2(v + 1), Power(FloorLog2(v + 1)), v)
        BY DEF ScaledLog2, Straight, Power
      <3>2. QED
        BY <3>1
    <2> HIDE DEF n, x
    <2>5. QED
      BY <1>2, <2>1, <2>2, <2>3, <2>4 DEF Segment
  <1>3. QED
    BY <1>1, <1>2

LEMMA CurveRises ==
  ASSUME NEW v \in Int, 0 <= v, v <= 2047
  PROVE  /\ Curve(v) \in Int /\ 0 <= Curve(v) /\ Curve(v) <= 2047
         /\ v < 2047 => Curve(v) <= Curve(v + 1)
  <1>1. Curve(v) \in Int /\ 0 <= Curve(v) /\ Curve(v) <= 2047
    <2>1. CASE v <= 102
      BY <2>1, CurveAs
    <2>2. CASE v > 102 /\ v <= 126
      BY <2>2, CurveAs DEF Straight
    <2>3. CASE v > 126 /\ v <= 254
      BY <2>3, CurveAs DEF Straight
    <2>4. CASE v > 254 /\ v <= 510
      BY <2>4, CurveAs DEF Straight
    <2>5. CASE v > 510 /\ v <= 1022
      BY <2>5, CurveAs DEF Straight
    <2>6. CASE v > 1022 /\ v <= 2046
      <3>1. ((v + 1 - 1024) * 2048) \div 1024 = 2 * (v - 1023)
        BY <2>6
      <3>2. Curve(v) = (((10 * 2048 + 2 * (v - 1023)) * 2047) \div 11) \div 2048
        BY <2>6, <3>1, CurveAs DEF Straight
      <3>3. QED
        BY <2>6, <3>2
    <2>7. CASE v > 2046
      BY <2>7, CurveAs DEF Straight
    <2>8. QED
      BY <2>1, <2>2, <2>3, <2>4, <2>5, <2>6, <2>7
  <1>2. ASSUME v < 2047 PROVE Curve(v) <= Curve(v + 1)
    <2> DEFINE w == v + 1
    <2>1. w \in 0..2047 /\ w = v + 1
      BY <1>2
    <2> HIDE DEF w
    <2>2. CASE v <= 102
      BY <2>1, <2>2, CurveAs DEF Straight
    <2>3. CASE v > 102 /\ v <= 126
      BY <2>1, <2>3, CurveAs DEF Straight
    <2>4. CASE v > 126 /\ v <= 254
      BY <2>1, <2>4, CurveAs DEF Straight
    <2>5. CASE v > 254 /\ v <= 510
      BY <2>1, <2>5, CurveAs DEF Straight
    <2>6. CASE v > 510 /\ v <= 1022
      BY <2>1, <2>6, CurveAs DEF Straight
    <2>7. CASE v > 1022 /\ v <= 2046
      BY <2>1, <2>7, CurveAs DEF Straight
    <2>8. QED
      BY <1>2, <2>1, <2>2, <2>3, <2>4, <2>5, <2>6, <2>7 DEF w
  <1>3. QED
    BY <1>1, <1>2

\* What a Waltop reports is what the curve makes of the pressure.
CurveInv ==
  sensor = "Waltop" => raw \in 0..2047 /\ out = Curve(raw)

LEMMA NextCurve ==
  ASSUME CurveInv, [Next]_vars
  PROVE  CurveInv'
  <1>1. CASE UNCHANGED pressureVars
    BY <1>1 DEF CurveInv, pressureVars
  <1>2. CASE PressureNext
    BY <1>2 DEF CurveInv, PressureNext, WaltopReport, ArtPenUp, ArtPenReport
  <1>3. QED
    BY <1>1, <1>2, PartsAreApart

LEMMA CurveInvariance == Spec => []CurveInv
  <1>1. Init => CurveInv
    <2>1. ASSUME PressureInit, sensor = "Waltop" PROVE raw = 0 /\ out = 0
      BY <2>1 DEF PressureInit
    <2>2. Curve(0) = 0
      BY DEF Curve
    <2>3. QED
      BY <2>1, <2>2 DEF Init, CurveInv
  <1>2. QED
    BY <1>1, NextCurve, PTL DEF Spec

\* Pressing harder on a Waltop never reads as less, at any pressure: not at 102 where
\* the curves meet, nor at a power of 2 (scaled_log2, waltop_fix_events).
THEOREM HarderIsMore == Spec => HarderReadsMore
  <1>1. ASSUME CurveInv, [Next]_vars
        PROVE  [sensor = "Waltop" => (raw' >= raw => out' >= out) /\ out' \in 0..2047]_pressureVars
    <2>1. SUFFICES ASSUME PressureNext, sensor = "Waltop"
                   PROVE  (raw' >= raw => out' >= out) /\ out' \in 0..2047
      BY <1>1, PartsAreApart
    <2>2. WaltopReport
      BY <2>1 DEF PressureNext, ArtPenUp, ArtPenReport
    <2>3. /\ raw \in 0..2047 /\ out = Curve(raw)
          /\ raw' \in 0..2047 /\ raw' \in {raw - 1, raw, raw + 1} /\ out' = Curve(raw')
      BY <1>1, <2>1, <2>2 DEF CurveInv, WaltopReport
    <2>4. PICK v \in Int, w \in Int :
            /\ raw = v /\ raw' = w /\ out = Curve(v) /\ out' = Curve(w)
            /\ 0 <= v /\ v <= 2047 /\ 0 <= w /\ w <= 2047
            /\ w >= v => w = v \/ (w = v + 1 /\ v < 2047)
      BY <2>3
    <2>5. /\ Curve(v) \in Int
          /\ v < 2047 => Curve(v) <= Curve(v + 1)
      BY <2>4, CurveRises
    <2>6. Curve(w) \in Int /\ 0 <= Curve(w) /\ Curve(w) <= 2047
      BY <2>4, CurveRises
    <2>7. w >= v => Curve(w) >= Curve(v)
      BY <2>4, <2>5
    <2>8. QED
      BY <2>4, <2>6, <2>7
  <1>2. QED
    BY <1>1, CurveInvariance, PTL DEF Spec, HarderReadsMore

-----------------------------------------------------------------------------
(* SurfaceDial                                                             *)

DialTypes ==
  /\ haptic_enabled \in BOOLEAN /\ prev_click \in BOOLEAN /\ initialized \in BOOLEAN
  /\ current_multiplier \in Multiplier
  /\ armed \in [MapKey -> BOOLEAN]
  /\ cb \in [MapKey -> {"idle", "write", "start"}]
  /\ queued \in BOOLEAN
  /\ work \in {"idle", "request", "scale"} /\ enable \in BOOLEAN /\ failed \in BOOLEAN
  /\ event \in {"idle", "init", "set", "edge", "rearm"}
  /\ click \in BOOLEAN /\ toggled \in BOOLEAN
  /\ awake \in BOOLEAN /\ ticks \in BOOLEAN /\ res \in {"LOW", "HIGH"}

\* The two-second timer runs for a press that has not changed the mode, or its
\* callback does, which a release waits for.
OnePress ==
  /\ armed["HAPTIC"] => prev_click /\ ~toggled /\ cb["HAPTIC"] = "idle"
  /\ cb["HAPTIC"] # "idle" => prev_click
  /\ cb["HAPTIC"] = "write" => ~toggled

\* Before a dial may sleep the sleep timer has made the program forget it, unless an
\* event is about to start that timer again.
SleepIsSeen ==
  /\ awake \/ (event = "idle" /\ ~initialized)
  /\ initialized => event \in {"edge", "rearm"} \/ armed["SLEEP"] \/ cb["SLEEP"] # "idle"

\* The work will read the mode again; an event will find that the dial has slept.
ReadsAgain == queued \/ cb["HAPTIC"] = "start"
Forgotten == ~initialized /\ (~awake \/ event = "init")

\* A run of the work that nothing follows is about the present mode; one that has
\* succeeded leaves the dial as it was asked to be until it sleeps.
WorkAgrees ==
  /\ work # "idle" /\ ~ReadsAgain => enable = haptic_enabled
  /\ work = "scale" => res = MultiplierOf(enable) /\ (ticks = enable \/ Forgotten \/ queued)
  /\ work = "idle" /\ ~ReadsAgain /\ ~failed /\ current_multiplier # "0" =>
       /\ current_multiplier = MultiplierOf(haptic_enabled)
       /\ res = current_multiplier
       /\ ticks = haptic_enabled \/ Forgotten
  /\ initialized \/ event = "set" =>
       queued \/ work # "idle" \/ failed \/ current_multiplier # "0"

DialInv == DialTypes /\ OnePress /\ SleepIsSeen /\ WorkAgrees

LEMMA DialTypesStep ==
  ASSUME DialTypes, DialNext
  PROVE  DialTypes'
  <1> USE DEF DialTypes, progVars, workVars, eventVars, hardwareVars
  <1>1. ASSUME NEW c \in BOOLEAN, Report(c) PROVE DialTypes'
    <2>1. click' \in BOOLEAN
      BY <1>1, Zenon DEF Report
    <2>2. QED
      BY <1>1, <2>1 DEF Report
  <1>2. CASE Sleep
    BY <1>2 DEF Sleep
  <1>3. CASE StartWork \/ SetInitialized
    <2>1. /\ UNCHANGED <<haptic_enabled, prev_click, current_multiplier, armed, cb, work, enable,
                        failed, click, toggled, awake, ticks, res>>
          /\ event' \in {"edge", "set"}
      BY <1>3 DEF StartWork, SetInitialized
    <2>2. initialized' \in BOOLEAN /\ queued' \in BOOLEAN
      BY <1>3 DEF StartWork, SetInitialized
    <2>3. QED
      BY <2>1, <2>2
  <1>4. CASE Edge
    <2>1. HapticTimer \in [MapKey -> BOOLEAN]
      BY DEF HapticTimer
    <2>2. toggled' \in BOOLEAN
      BY <1>4, Zenon DEF Edge
    <2>3. QED
      BY <1>4, <2>1, <2>2 DEF Edge
  <1>5. CASE RestartSleepTimer
    BY <1>5 DEF RestartSleepTimer, MapKey
  <1>6. ASSUME NEW k \in MapKey, Expire(k) PROVE DialTypes'
    BY <1>6 DEF Expire, MapKey
  <1>7. CASE HapticTimerCb
    <2>1. haptic_enabled' \in BOOLEAN /\ toggled' \in BOOLEAN /\ queued' \in BOOLEAN
      BY <1>7, Zenon DEF HapticTimerCb
    <2>2. cb' \in [MapKey -> {"idle", "write", "start"}]
      BY <1>7 DEF HapticTimerCb
    <2>3. QED
      BY <1>7, <2>1, <2>2 DEF HapticTimerCb
  <1>8. CASE SleepTimerCb
    <2>1. cb' \in [MapKey -> {"idle", "write", "start"}] /\ UNCHANGED <<armed, current_multiplier>>
      BY <1>8 DEF SleepTimerCb
    <2>2. initialized' \in BOOLEAN
      BY <1>8, Zenon DEF SleepTimerCb, Initialized
    <2>3. QED
      BY <1>8, <2>1, <2>2 DEF SleepTimerCb
  <1>9. CASE WorkBegins
    BY <1>9 DEF WorkBegins
  <1>10. CASE SetReport \/ SetReportFails \/ SetMultiplier
    <2>1. MultiplierOf(enable) \in Multiplier /\ MultiplierOf(enable) \in {"LOW", "HIGH"}
      BY DEF MultiplierOf, Multiplier
    <2>2. work' \in {"idle", "request", "scale"}
      BY <1>10 DEF SetReport, SetReportFails, SetMultiplier
    <2>3. ticks' \in BOOLEAN /\ failed' \in BOOLEAN
      BY <1>10 DEF SetReport, SetReportFails, SetMultiplier
    <2>4. QED
      BY <1>10, <2>1, <2>2, <2>3 DEF SetReport, SetReportFails, SetMultiplier
  <1>11. QED
    BY <1>1, <1>2, <1>3, <1>4, <1>5, <1>6, <1>7, <1>8, <1>9, <1>10
    DEF DialNext, DeviceEvent, Work

LEMMA OnePressStep ==
  ASSUME DialTypes, OnePress, DialNext
  PROVE  OnePress'
  <1> USE DEF DialTypes, OnePress, MapKey, progVars, workVars, eventVars, hardwareVars
  <1>1. ASSUME NEW c \in BOOLEAN, Report(c) PROVE OnePress'
    BY <1>1 DEF Report
  <1>2. CASE Sleep \/ StartWork \/ SetInitialized
    BY <1>2 DEF Sleep, StartWork, SetInitialized
  <1>3. CASE Edge
    BY <1>3 DEF Edge, HapticTimer
  <1>4. CASE RestartSleepTimer
    BY <1>4 DEF RestartSleepTimer
  <1>5. ASSUME NEW k \in MapKey, Expire(k) PROVE OnePress'
    BY <1>5 DEF Expire
  <1>6. CASE HapticTimerCb \/ SleepTimerCb
    BY <1>6 DEF HapticTimerCb, SleepTimerCb
  <1>7. CASE Work
    BY <1>7 DEF Work, WorkBegins, SetReport, SetReportFails, SetMultiplier
  <1>8. QED
    BY <1>1, <1>2, <1>3, <1>4, <1>5, <1>6, <1>7 DEF DialNext, DeviceEvent

LEMMA SleepIsSeenStep ==
  ASSUME DialTypes, SleepIsSeen, DialNext
  PROVE  SleepIsSeen'
  <1> USE DEF DialTypes, SleepIsSeen, MapKey, progVars, workVars, eventVars, hardwareVars
  <1>1. ASSUME NEW c \in BOOLEAN, Report(c) PROVE SleepIsSeen'
    BY <1>1 DEF Report
  <1>2. CASE Sleep
    BY <1>2 DEF Sleep
  <1>3. CASE StartWork \/ SetInitialized
    BY <1>3 DEF StartWork, SetInitialized
  <1>4. CASE Edge
    BY <1>4 DEF Edge, HapticTimer
  <1>5. CASE RestartSleepTimer
    BY <1>5 DEF RestartSleepTimer
  <1>6. ASSUME NEW k \in MapKey, Expire(k) PROVE SleepIsSeen'
    BY <1>6 DEF Expire
  <1>7. CASE HapticTimerCb
    BY <1>7 DEF HapticTimerCb
  <1>8. CASE SleepTimerCb
    BY <1>8 DEF SleepTimerCb, Initialized
  <1>9. CASE Work
    BY <1>9 DEF Work, WorkBegins, SetReport, SetReportFails, SetMultiplier
  <1>10. QED
    BY <1>1, <1>2, <1>3, <1>4, <1>5, <1>6, <1>7, <1>8, <1>9 DEF DialNext, DeviceEvent

LEMMA WorkAgreesStep ==
  ASSUME DialTypes, SleepIsSeen, WorkAgrees, DialNext
  PROVE  WorkAgrees'
  <1> USE DEF DialTypes, WorkAgrees, ReadsAgain, Forgotten, MapKey,
              progVars, workVars, eventVars, hardwareVars
  <1>1. ASSUME NEW c \in BOOLEAN, Report(c) PROVE WorkAgrees'
    BY <1>1 DEF Report, SleepIsSeen
  <1>2. CASE Sleep
    BY <1>2 DEF Sleep, SleepIsSeen
  <1>3. CASE StartWork
    BY <1>3 DEF StartWork, SleepIsSeen
  <1>4. CASE SetInitialized
    BY <1>4 DEF SetInitialized, SleepIsSeen
  <1>5. CASE Edge \/ RestartSleepTimer
    BY <1>5 DEF Edge, RestartSleepTimer
  <1>6. ASSUME NEW k \in MapKey, Expire(k) PROVE WorkAgrees'
    BY <1>6 DEF Expire
  <1>7. CASE HapticTimerCb
    BY <1>7 DEF HapticTimerCb
  <1>8. CASE SleepTimerCb
    BY <1>8 DEF SleepTimerCb, Initialized
  <1>9. CASE WorkBegins
    BY <1>9 DEF WorkBegins
  <1>10. CASE SetReport
    BY <1>10 DEF SetReport
  <1>11. CASE SetReportFails
    BY <1>11 DEF SetReportFails
  <1>12. CASE SetMultiplier
    BY <1>12 DEF SetMultiplier, MultiplierOf
  <1>13. QED
    BY <1>1, <1>2, <1>3, <1>4, <1>5, <1>6, <1>7, <1>8, <1>9, <1>10, <1>11, <1>12
    DEF DialNext, DeviceEvent, Work

LEMMA DialInvariance == Spec => []DialInv
  <1>1. Init => DialInv
    BY DEF Init, DialInit, DialInv, DialTypes, OnePress, SleepIsSeen, WorkAgrees, ReadsAgain,
           Forgotten, MapKey, Multiplier
  <1>2. ASSUME DialInv, [Next]_vars
        PROVE  DialInv'
    <2>1. CASE UNCHANGED dialVars
      BY <1>2, <2>1
      DEF DialInv, DialTypes, OnePress, SleepIsSeen, WorkAgrees, ReadsAgain, Forgotten,
          dialVars, progVars, workVars, eventVars, hardwareVars
    <2>2. CASE DialNext
      BY <1>2, <2>2, DialTypesStep, OnePressStep, SleepIsSeenStep, WorkAgreesStep DEF DialInv
    <2>3. QED
      BY <1>2, <2>1, <2>2, PartsAreApart
  <1>3. QED
    BY <1>1, <1>2, PTL DEF Spec

\* Whatever the order of events, timers and work, and whichever requests fail, a dial
\* at rest is set up for the mode the program believes in (haptic_wq_cb).
THEOREM DialConfigured == Spec => []Configured
  <1>1. DialInv => Configured
    BY DEF DialInv, DialTypes, SleepIsSeen, WorkAgrees, ReadsAgain, Forgotten, Configured, AtRest,
           Multiplier, MultiplierOf
  <1>2. QED
    BY <1>1, DialInvariance, PTL

\* However long a press is held and however many reports it sends, it changes the mode
\* once (haptic_timer_cb, prev_click in surface_dial_event).
THEOREM OneToggle == Spec => OneTogglePerPress
  <1>1. ASSUME DialInv, [Next]_vars
        PROVE  [haptic_enabled' # haptic_enabled => prev_click /\ ~toggled]_dialVars
    <2>1. SUFFICES ASSUME DialNext, haptic_enabled' # haptic_enabled
                   PROVE  prev_click /\ ~toggled
      BY <1>1, PartsAreApart
    <2>2. HapticTimerCb /\ cb["HAPTIC"] = "write"
      BY <2>1 DEF DialNext, DeviceEvent, Work, Report, Sleep, StartWork, SetInitialized, Edge,
                  RestartSleepTimer, Expire, HapticTimerCb, SleepTimerCb, WorkBegins, SetReport,
                  SetReportFails, SetMultiplier, progVars
    <2>3. QED
      BY <1>1, <2>2 DEF DialInv, OnePress
  <1>2. QED
    BY <1>1, DialInvariance, PTL DEF Spec, OneTogglePerPress

=============================================================================
