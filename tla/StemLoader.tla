----------------------------- MODULE StemLoader -----------------------------
(***************************************************************************)
(* What the loader promises for one device: of every group of files that   *)
(* differ only in their version, at most one is active, it is the highest  *)
(* version among the files found that the device accepts, and it stays     *)
(* until it is dropped.  How programs and maps are pinned, in which order  *)
(* and by which process, is not said.                                      *)
(***************************************************************************)
EXTENDS Naturals

CONSTANTS Device, Object, Stem, Version, Found, Accepts

VARIABLE active   \* [Device -> SUBSET Object]

Init == active = [d \in Device |-> {}]

Load(d, o) ==
  /\ o \in Found[d] \cap Accepts[d]
  /\ \A x \in active[d] : Stem[x] # Stem[o]
  /\ \A x \in Found[d] \cap Accepts[d] :
       Stem[x] = Stem[o] => Version[x] <= Version[o]
  /\ active' = [active EXCEPT ![d] = @ \cup {o}]

Drop(d, o) ==
  /\ o \in active[d]
  /\ active' = [active EXCEPT ![d] = @ \ {o}]

Next == \E d \in Device, o \in Object : Load(d, o) \/ Drop(d, o)

Spec == Init /\ [][Next]_active
=============================================================================
