----------------------------- MODULE Preparation -----------------------------
(***************************************************************************)
(* What comes before a program runs: the choice of an object file          *)
(* (ObjectSelection), and what is put into the object (PropertyInjection,  *)
(* DescriptorLayout).  The three share nothing but the order they happen   *)
(* in, and none reads what another has written: each behaviour is about    *)
(* one of them.                                                            *)
(***************************************************************************)
EXTENDS ObjectSelection, PropertyInjection, DescriptorLayout

VARIABLE part

vars == <<part, selectionVars, injectionVars, descriptorVars>>

\* The device is anything when the choice is what the behaviour is about.
Init ==
  /\ part \in {"selection", "injection", "descriptor"}
  /\ SelectionInit /\ InjectionInit /\ DescriptorInit
  /\ part # "selection" => tree = {} /\ ~ignore /\ dev = CHOOSE d \in Devices : TRUE

SelectionPart ==
  part = "selection" /\ SelectionNext /\ UNCHANGED <<part, injectionVars, descriptorVars>>
InjectionPart ==
  part = "injection" /\ InjectionNext /\ UNCHANGED <<part, selectionVars, descriptorVars>>
DescriptorPart ==
  part = "descriptor" /\ DescriptorNext /\ UNCHANGED <<part, selectionVars, injectionVars>>

Next == SelectionPart \/ InjectionPart \/ DescriptorPart

Spec == Init /\ [][Next]_vars
-----------------------------------------------------------------------------
\* Every variable of the three has its type; two files of one name are never both
\* loaded, since they would share a directory of bpffs (Loads).
TypeOK ==
  /\ dev \in Modalias /\ here \in {"new", "here", "gone"} /\ ignore \in BOOLEAN
  /\ tree \subseteq Path /\ hwdb \subseteq Name /\ rules \subseteq Name
  /\ db \in Properties /\ env \in Properties
  /\ event \in {"none", "add", "typed"} /\ jobs \subseteq Name \cup {Search}
  /\ todo \subseteq Path /\ loaded \subseteq Path
  /\ changes \in 0..MaxChanges
  /\ {quiet, bare, typed, stray} \subseteq BOOLEAN
  /\ \A p, q \in loaded : p.name = q.name => p = q
  /\ sizes \in [Property -> Sizes \cup {1}] /\ offset \in [Variables -> 0..Room]
  /\ device \in [Property -> Given("device")] /\ options \in Options
  /\ preset \in BOOLEAN /\ writes \in Given("probe")
  /\ {memory, slot, printed} \subseteq Seq(Char)
  /\ injection \in {"open", "inject", "probe", "read", "done"}
  /\ (btf # <<>> => btf \in Objects) /\ cache \subseteq DOMAIN Rust
  /\ \A i \in DOMAIN pending : pending[i] \in (DOMAIN btf) \X (DOMAIN Rust)
  /\ pairs \subseteq (DOMAIN btf) \X (DOMAIN Rust)
  /\ verdict \in {"unknown", "none", "accepted", "rejected"}
  /\ {field.start, field.end} \subseteq Int /\ {cField.start, cField.end} \subseteq -1..(2^16 - 1)
  /\ bits \in Seq(Nat)
=============================================================================
