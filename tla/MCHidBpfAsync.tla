--------------------------- MODULE MCHidBpfAsync ---------------------------
(***************************************************************************)
(* Instances of HidBpfAsync for TLC: functions f, g and h.                 *)
(***************************************************************************)
EXTENDS HidBpfAsync

CONSTANTS f, g, h

BothInits == <<f, g>>
AllInits == <<f, g, h>>
OneInit == <<f>>
NoCalls == {}
GCalls == {<<g, f>>, <<g, g>>}
=============================================================================
