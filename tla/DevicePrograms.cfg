\* Each program with one pen, two keys and a centre button, a pressure, or a tilt;
\* the dial, whose requests may fail.
CONSTANTS
  MaxFalse = 4
  Key = {k1, k2}
  Center = center
  Pressure = {0, 100, 200, 1001}
  RequestsFail = TRUE
  Offsets <- VerticalOffsets
  Error = 1
  Places = {0, 1, 120, 246, 247, 16000, 32520, 32521, 32600, 32766, 32767}
SPECIFICATION Spec
INVARIANTS TypeOK NoFalsePress ButtonOrEraser HostFollowsPad TipIsSeen Configured
PROPERTIES NoFalseRelease HostCatchesUp HarderReadsMore Interpolated OneTogglePerPress
CHECK_DEADLOCK FALSE
