-------------------------- MODULE MCDevicePrograms --------------------------
EXTENDS DevicePrograms

\* angle_offsets_vertical_14, the longest offsets of all.
VerticalOffsets ==
  LET table == <<
    0, 4, 9, 13, 17, 21, 26, 30, 34, 38, 43, 47, 51, 55, 59, 64, 68, 72, 76, 80, 84,
    88, 92, 96, 100, 104, 108, 112, 115, 119, 123, 127, 130, 134, 137, 141, 145, 148,
    151, 155, 158, 161, 165, 168, 171, 174, 177, 180, 183, 186, 188, 191, 194, 196,
    199, 201, 204, 206, 208, 211, 213, 215, 217, 219, 221, 223, 225, 226, 228, 230,
    231, 232, 234, 235, 236, 237, 239, 240, 240, 241, 242, 243, 243, 244, 244, 245,
    245, 246, 246, 246, 246, 246, 246, 246, 245, 245, 244, 244, 243, 243, 242, 241,
    240, 240, 239, 237, 236, 235, 234, 232, 231, 230, 228, 226, 225, 223, 221, 219,
    217, 215, 213, 211, 208, 206, 204, 201, 199, 196 >>
  IN  [angle \in 0..127 |-> table[angle + 1]]
=============================================================================
