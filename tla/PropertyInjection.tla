-------------------------- MODULE PropertyInjection --------------------------
(***************************************************************************)
(* What load_programs does with the properties of a device between opening *)
(* and pinning an object: their values are copied over the object's global *)
(* variables and into its property maps, probe() runs, and what the maps   *)
(* hold then is printed for udev.                                          *)
(*                                                                         *)
(* A string is a sequence of characters, each of which says where it comes *)
(* from.  The section .bss or .data has the object's UDEV_PROP_ variables  *)
(* somewhere, and other variables or padding wherever they are not.        *)
(***************************************************************************)
EXTENDS Naturals, Sequences, FiniteSets

CONSTANTS
  Variables,  \* the properties there are variables for
  Exported,   \* the property there is a map for
  Sizes,      \* sizes of the variables and of the map
  Lengths,    \* lengths of values
  Room        \* bound: the bytes of the section

ASSUME InjectionAssumption ==
  Sizes \subseteq Nat \ {0} /\ Lengths \subseteq Nat /\ Room \in Nat

VARIABLES
  sizes,     \* [Property -> Sizes], of the variables and of the map
  offset,    \* [Variables -> 0..Room], the bytes before each of the variables
  device,    \* [Property -> Given], what udev's database has
  options,   \* the --property options
  preset,    \* the section is .data: its variables have a value of their own
  writes,    \* Given, what probe() writes into the map
  memory,    \* the bytes of the section
  slot,      \* the bytes of the map
  printed,   \* what is printed of the map, <<>> for nothing
  injection  \* {"open", "inject", "probe", "read", "done"}, what comes next

injectionVars == <<sizes, offset, device, options, preset, writes, memory, slot, printed, injection>>

Property == Variables \cup {Exported}
NUL == "NUL"
Char == {NUL, "preset", "device", "option", "later", "probe", "other"}

\* A string of some length, or nothing.
String(c, n) == [i \in 1..n |-> c]
Nothing == <<NUL>>
Given(c) == {String(c, n) : n \in Lengths} \cup {Nothing}
Option(c) == [name: Property, value: {String(c, n) : n \in Lengths}]

\* The string that begins at a byte: up to the first NUL, or to the end.
StringAt(bytes, i) ==
  LET Ends == {j \in i..Len(bytes) : bytes[j] = NUL} \cup {Len(bytes) + 1}
  IN  SubSeq(bytes, i, (CHOOSE j \in Ends : \A k \in Ends : j <= k) - 1)

-----------------------------------------------------------------------------
\* extract_variables_metadata takes the offsets from the BTF of the section, where a
\* compiler has laid the variables apart.
Layouts(size) ==
  {o \in [Variables -> 0..Room] :
     \A p \in Variables :
       /\ o[p] + size[p] <= Room
       /\ \A q \in Variables \ {p} : o[p] + size[p] <= o[q] \/ o[q] + size[q] <= o[p]}

InjectionInit ==
  /\ sizes = [p \in Property |-> 1]
  /\ offset = [p \in Variables |-> 0]
  /\ device = [p \in Property |-> Nothing]
  /\ options = <<>>
  /\ preset = FALSE
  /\ writes = Nothing
  /\ memory = <<>> /\ slot = <<>>
  /\ printed = <<>>
  /\ injection = "open"

\* No option, one, or two.
Options == {<<>>} \cup {<<o>> : o \in Option("option")} \cup
             (Option("option") \X Option("later"))

\* The section of an object just loaded: zeros or C strings, and what is not theirs.
Within(p, k) == offset[p] < k /\ k <= offset[p] + sizes[p]
Section ==
  [k \in 1..Room |->
     IF \A p \in Variables : ~Within(p, k) THEN "other"
     ELSE IF preset /\ \A p \in Variables : k # offset[p] + sizes[p] THEN "preset"
     ELSE NUL]

\* An object is opened and loaded, for some device and some options.
Open ==
  /\ injection = "open"
  /\ injection' = "inject"
  /\ sizes' \in [Property -> Sizes]
  /\ offset' \in Layouts(sizes')
  /\ device' \in [Property -> Given("device")]
  /\ options' \in Options
  /\ preset' \in BOOLEAN
  /\ writes' \in Given("probe")
  /\ memory' = Section'
  /\ slot' = String(NUL, sizes'[Exported])
  /\ UNCHANGED printed

\* inject_udev_properties: an option hides the device's property of its name, and
\* the first property of a name is taken.
ValueLast(p) ==  \* a slip: the last option is taken
  LET On == {i \in DOMAIN options : options[i].name = p}
  IN  IF On = {} THEN device[p] ELSE options[CHOOSE i \in On : \A j \in On : j <= i].value
ValueOf(p) ==
  LET On == {i \in DOMAIN options : options[i].name = p}
  IN  IF On = {} THEN device[p] ELSE options[CHOOSE i \in On : \A j \in On : i <= j].value

\* There must be room for a NUL, which is not written.
FitsExactly(p) == ValueOf(p) # Nothing /\ Len(ValueOf(p)) <= sizes[p]  \* a slip: no room
Fits(p) == ValueOf(p) # Nothing /\ Len(ValueOf(p)) < sizes[p]

\* The variable whose value is copied over the k-th byte.
CopiedTo(p, k) == Fits(p) /\ offset[p] < k /\ k <= offset[p] + Len(ValueOf(p))
Written(k) == \E p \in Variables : CopiedTo(p, k)
Writer(k) == CHOOSE p \in Variables : CopiedTo(p, k)

Inject ==
  /\ injection = "inject"
  /\ injection' = "probe"
  /\ memory' = [k \in DOMAIN memory |->
       IF Written(k) THEN ValueOf(Writer(k))[k - offset[Writer(k)]] ELSE memory[k]]
  /\ slot' = IF Fits(Exported)
             THEN [k \in DOMAIN slot |-> IF k <= Len(ValueOf(Exported))
                                         THEN ValueOf(Exported)[k] ELSE NUL]
             ELSE slot
  /\ UNCHANGED <<sizes, offset, device, options, preset, writes, printed>>

\* UDEV_PROP_SPRINTF writes no more than the map holds, and a NUL.
Probe ==
  /\ injection = "probe"
  /\ injection' = "read"
  /\ slot' = IF writes = Nothing THEN slot
             ELSE [k \in DOMAIN slot |->
                     IF k <= Len(writes) /\ k < Len(slot) THEN writes[k]
                     ELSE IF k <= Len(writes) + 1 THEN NUL ELSE slot[k]]
  /\ UNCHANGED <<sizes, offset, device, options, preset, writes, memory, printed>>

\* read_udev_property_map
WholeSlot == SelectSeq(slot, LAMBDA c : c # NUL)  \* a slip: the first NUL is no end
SlotValue == StringAt(slot, 1)

Read ==
  /\ injection = "read"
  /\ injection' = "done"
  /\ printed' = SlotValue
  /\ UNCHANGED <<sizes, offset, device, options, preset, writes, memory, slot>>

InjectionNext == Open \/ Inject \/ Probe \/ Read
-----------------------------------------------------------------------------
(* Properties                                                              *)

\* What a property should be for the program: the first --property option of its
\* name, or else what udev says.
Meant(p) ==
  LET First == {i \in DOMAIN options :
                  options[i].name = p /\ \A j \in 1..(i - 1) : options[j].name # p}
  IN  IF First = {} THEN device[p] ELSE options[CHOOSE i \in First : TRUE].value

\* A variable without a value of its own shows what it should, whole, or nothing
\* when there is no such value or no room for it; one with a value of its own
\* keeps what is not written over.  Whatever lies around the variables is left alone
\* (inject_udev_properties_in_array).
VariablesShow ==
  injection \in {"probe", "read", "done"} =>
    /\ \A k \in 1..Room : (\A p \in Variables : ~Within(p, k)) => memory[k] = "other"
    /\ \A p \in Variables :
         LET v == Meant(p)
             own == IF preset THEN String("preset", sizes[p] - 1) ELSE <<>>
             shown == StringAt(memory, offset[p] + 1)
         IN  shown = IF v = Nothing \/ Len(v) >= sizes[p] THEN own
                     ELSE v \o SubSeq(own, Len(v) + 1, Len(own))

\* udev is told what probe() has written, cut to the map, and no rest of a longer
\* value that was there before; if it has written nothing, what was injected
\* (UDEV_PROP_SPRINTF, read_udev_property_map).
ExportsShow ==
  injection = "done" =>
    LET size == sizes[Exported] v == Meant(Exported) IN
    printed = IF writes # Nothing
              THEN SubSeq(writes, 1, IF Len(writes) < size THEN Len(writes) ELSE size - 1)
              ELSE IF v # Nothing /\ Len(v) < size THEN v ELSE <<>>
=============================================================================
