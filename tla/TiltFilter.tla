----------------------------- MODULE TiltFilter -----------------------------
(***************************************************************************)
(* XPPen Artist Pro 14, 16 and 19 Gen2, 0020- and 0030-XPPen__ArtistPro16- *)
(* Gen2.bpf.c: a tilted pen has its coil beside its tip, and the tablet    *)
(* reports where the coil is.  The program takes the distance, which it    *)
(* finds in a table for every angle, from the coordinate.  Both            *)
(* coordinates go the same way, so that one stands for either.             *)
(***************************************************************************)
EXTENDS Integers

CONSTANTS
  Offsets,   \* [0..127 -> Nat], the table of the product and the direction
  Error,     \* how far the tablet, and the table of whole degrees, may be off
  Places     \* bound: where the tip may be

Maximum == 32767
ASSUME TiltAssumption ==
  /\ Offsets \in [0..127 -> 0..Maximum]
  /\ Error \in Nat
  /\ Places \subseteq 0..Maximum

VARIABLES
  place,    \* where the tip is on the screen
  tilt,     \* the angle of the pen, a signed byte
  beyond,   \* how far the coil is beyond the edge, where the tablet sees it at the edge
  cursor    \* the coordinate in the last report the host got

tiltVars == <<place, tilt, beyond, cursor>>

TiltInit ==
  /\ place \in Places
  /\ tilt = 0 /\ beyond = 0 /\ cursor = place

\* compensate_coordinates_by_tilt, in 16 bits
CompensateWraps(x, t) ==  \* a slip: nobody looks where the screen ends
  LET angle == IF t > 0 THEN t ELSE -t IN
  IF angle > 127 THEN x
  ELSE (IF t > 0 THEN x - Offsets[angle] ELSE x + Offsets[angle]) % 65536
Compensate(x, t) ==
  LET angle == IF t > 0 THEN t ELSE -t IN
  IF angle > 127 THEN x
  ELSE IF t > 0
  THEN IF x > Offsets[angle] THEN x - Offsets[angle] ELSE 0
  ELSE IF x < Maximum - Offsets[angle] THEN x + Offsets[angle] ELSE Maximum

\* Where the coil is, and where the tablet sees it.
Coil(x, t) == IF t > 0 THEN x + Offsets[t] ELSE x - Offsets[-t]
Seen(x) == IF x < 0 THEN 0 ELSE IF x > Maximum THEN Maximum ELSE x

\* The pen moves or tilts, and is reported.
TiltReport ==
  /\ \/ place' \in Places /\ tilt' = tilt
     \/ place' = place /\ tilt' \in {tilt - 1, tilt + 1} \cap -127..127
  /\ \E e \in -Error..Error : LET coil == Coil(place', tilt') + e IN
       /\ beyond' = coil - Seen(coil)
       /\ cursor' = Compensate(Seen(coil), tilt')
-----------------------------------------------------------------------------
\* The host sees the tip, however the pen is tilted, as long as its coil is above
\* the screen; beyond the edge it is off by what the tablet could not see.  An error
\* of the tablet stays as small as it is, at the edges of the screen, too
\* (compensate_coordinates_by_tilt).
TipIsSeen == cursor \in 0..Maximum /\ cursor - (place - beyond) \in -Error..Error
=============================================================================
