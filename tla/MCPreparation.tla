---------------------------- MODULE MCPreparation ----------------------------
EXTENDS Preparation

CONSTANTS local, lib

\* Files: two versions of one program, 0009-x and 0010-x, and a program for every
\* multitouch device, like testing/0010-Generic__touchpad, of an earlier group.
MCDirs == <<local, lib>>
Generic == [num |-> <<1, 0>>, stem |-> 0]
Old == [num |-> <<0, 9>>, stem |-> 1]
New == [num |-> <<1, 0>>, stem |-> 1]
MCName == {Old, New, Generic}

\* The older version only pins maps.
MCFixup == {New, Generic}
MCMapsOnly == {Old}

\* Buses 3 and 5 are USB and Bluetooth, groups 1 and 4 generic and multitouch.
Id(b, g, v, p) == [bus |-> b, group |-> g, vid |-> v, pid |-> p]
MCMeta ==
  [n \in MCName |->
     CASE n = Generic -> {Id(0, 4, 0, 0)}
       [] n = New -> {Id(3, 1, 5, 6), Id(3, 0, 5, 6)}
       [] n = Old -> {Id(3, 0, 5, 0), Id(5, 0, 2^16 + 5, 6)}]
MCDevices == {Id(3, 4, 5, 6), Id(5, 4, 2^16 + 5, 6)}

\* The newest version is broken where an administrator has put it, and wants a
\* property where the package has it.
MCWorks == Path \ {[dir |-> local, name |-> New]}
MCChoosy == {[dir |-> lib, name |-> New]}

\* The Rust structs: HidRdescDescriptor with two arrays of reports, in which the
\* union with an anonymous struct of HidRdescField is, all of them cut short.
F(n, o, t) == [name |-> n, offset |-> o, type |-> t]
R(k, s, b, f) == [kind |-> k, size |-> s, base |-> b, fields |-> f]
Text == {"u8", "u16", "Range", "Usage", "Report", "[Report; 2]", "Descriptor"}
MCRust ==
  [x \in Text |->
     CASE x = "u8" -> R("int", 1, x, <<>>)
       [] x = "u16" -> R("int", 2, x, <<>>)
       [] x = "Range" -> R("struct", 2, x, <<F("min", 0, "u8"), F("max", 1, "u8")>>)
       [] x = "Usage" -> R("union", 2, x, <<F("id", 0, "u16"), F("", 0, "Range")>>)
       [] x = "Report" -> R("struct", 3, x, <<F("type", 0, "u8"), F("", 1, "Usage")>>)
       [] x = "[Report; 2]" -> R("array", 6, "Report", <<>>)
       [] x = "Descriptor" -> R("struct", 13, x, <<F("num", 0, "u8"), F("input", 1, "[Report; 2]"),
                                                   F("output", 7, "[Report; 2]")>>)]

\* The same in C, and what goes wrong when only one side is changed: members in
\* another order, renamed, missing or of another kind, another number of reports,
\* another size, and an output report with a type of its own.
C(k, s, e, n, m) == [kind |-> k, size |-> s, elem |-> e, count |-> n, members |-> m]
RangeMembers == {
  <<F("min", 0, "u8"), F("max", 1, "byte")>>,
  <<F("min", 1, "u8"), F("max", 0, "byte")>>,
  <<F("min", 0, "u8"), F("top", 1, "byte")>>}
UsageTypes == {
  C("union", 2, "u8", 1, <<F("id", 0, "u16"), F("", 0, "range")>>),
  C("union", 2, "u8", 1, <<F("", 0, "range"), F("id", 0, "u16")>>),
  C("union", 2, "u8", 1, <<F("", 0, "u16")>>),
  C("struct", 2, "u8", 1, <<F("id", 0, "u16")>>)}
Swapped == <<F("type", 2, "u8"), F("", 0, "usage")>>
ReportMembers == {
  <<F("type", 0, "u8"), F("", 1, "usage")>>,
  <<F("type", 0, "byte"), F("", 0, "u8"), F("", 1, "usage")>>,
  Swapped}
DescriptorMembers == {
  <<F("num", 0, "u8"), F("input", 1, "reports"), F("output", 7, "reports")>>,
  <<F("num", 0, "u8"), F("output", 1, "reports"), F("input", 7, "reports")>>,
  <<F("num", 0, "u8"), F("input", 1, "reports"), F("output", 7, "others")>>}
MCObjects ==
  {("u8" :> C("int", 1, "u8", 1, <<>>)) @@ ("u16" :> C("int", 2, "u8", 1, <<>>)) @@
   ("byte" :> C("typedef", 0, "u8", 1, <<>>)) @@
   ("range" :> C("struct", 2, "u8", 1, r)) @@ ("usage" :> u) @@
   ("report" :> C("struct", 3, "u8", 1, i)) @@ ("reports" :> C("array", 0, "report", n, <<>>)) @@
   ("other" :> C("struct", 3, "u8", 1, Swapped)) @@ ("others" :> C("array", 0, "other", 2, <<>>)) @@
   ("descriptor" :> C("struct", s, "u8", 1, d)) @@
   ("variable" :> C(v, 0, "descriptor", 1, <<>>)) :
     r \in RangeMembers, u \in UsageTypes, i \in ReportMembers, n \in {2, 3},
     d \in DescriptorMembers, s \in {13, 14}, v \in {"typedef", "array"}}
=============================================================================
