-------------------------- MODULE DescriptorLayout --------------------------
(***************************************************************************)
(* A program with a HID_REPORT_DESCRIPTOR gets the parsed report           *)
(* descriptor of its device as a C struct.  Before the struct is copied    *)
(* into the object, its Rust layout is compared with the types that the    *)
(* object was compiled with (its BTF); the program then takes fields out   *)
(* of reports at the bits that the struct says.                            *)
(*                                                                         *)
(* The bits of a value are the positions they were taken from, lowest bit  *)
(* first.                                                                  *)
(***************************************************************************)
EXTENDS Naturals, Integers, Sequences, FiniteSets, SequencesExt

CONSTANTS
  Rust,     \* [text |-> [kind, size, base, fields]], the Rust types by their text
  Struct,   \* the text of the type of the whole descriptor
  Objects,  \* BTFs, each [id |-> [kind, size, elem, count, members]]
  Root,     \* the id of the type of HID_REPORT_DESCRIPTOR in them
  Starts,   \* where fields may start, in bits
  Widths,   \* how many bits they may have
  Buffers   \* sizes of the buffers reports are in, in bytes

ASSUME FieldAssumption == Starts \subseteq Nat /\ Widths \subseteq Nat /\ Buffers \subseteq Nat

VARIABLES
  btf,      \* the BTF of the object
  pending,  \* Seq(<<id, text>>), what is still to be compared
  cache,    \* the texts that need no comparison any more
  verdict,  \* {"unknown", "none", "accepted", "rejected"}
  pairs,    \* history: the <<id, text>> that were met
  field,    \* [start, end], a field of the parsed descriptor
  cField,   \* [start, end], what the C struct has of it
  bits      \* the size of a buffer and the bits taken out of it, <<>> before
layoutVars == <<btf, pending, cache, verdict, pairs>>
fieldVars == <<field, cField, bits>>
descriptorVars == <<layoutVars, fieldVars>>

-----------------------------------------------------------------------------
(* Comparing the types.                                                    *)

Anonymous == ""
NoField == [start |-> -1, end |-> -1]

\* resolve_btf_type: typedefs and qualifiers are looked through.
Resolve[t \in DOMAIN btf] == IF btf[t].kind = "typedef" THEN Resolve[btf[t].elem] ELSE t

\* get_btf_type_size
SizeOf[t \in DOMAIN btf] ==
  IF btf[t].kind = "array" THEN btf[t].count * SizeOf[Resolve[btf[t].elem]] ELSE btf[t].size

\* An array counts as its element, on both sides.
Base(x) == Rust[Rust[x].base]
Element(t) == IF btf[t].kind = "array" THEN Resolve[btf[t].elem] ELSE t

\* What tells a member from the others: an anonymous one of a struct is known by its place.
Key(kind, m) == [name |-> m.name, at |-> IF m.name = Anonymous /\ kind = "struct" THEN m.offset ELSE 0]

\* The member a field stands for, the first one if there are several.
Found(t, f) ==
  {i \in DOMAIN btf[t].members : Key(btf[t].kind, btf[t].members[i]) = Key(btf[t].kind, f)}
MemberFor(t, f) == btf[t].members[CHOOSE i \in Found(t, f) : \A j \in Found(t, f) : i <= j]

\* BtfCompositeType::validate, but for what the types of the fields are.
FieldsByName(t, r) ==  \* a slip: named fields may be anywhere
  /\ btf[t].kind = r.kind /\ btf[t].size = r.size
  /\ \A i \in DOMAIN r.fields : LET f == r.fields[i] IN
       /\ Found(t, f) # {}
       /\ SizeOf[Resolve[MemberFor(t, f).type]] = Rust[f.type].size
FieldsMatch(t, r) ==
  /\ btf[t].kind = r.kind /\ btf[t].size = r.size
  /\ \A i \in DOMAIN r.fields : LET f == r.fields[i] IN
       /\ Found(t, f) # {}
       /\ btf[t].kind = "struct" => MemberFor(t, f).offset = f.offset
       /\ SizeOf[Resolve[MemberFor(t, f).type]] = Rust[f.type].size

Nested(t, r) ==
  [i \in DOMAIN r.fields |-> <<Resolve[MemberFor(t, r.fields[i]).type], r.fields[i].type>>]

\* validate_btf_layout_from_type: the variable itself may be no array.
IsStruct == btf[Resolve[Root]].kind = "struct"

\* inject_report_descriptor: the variable of an object is looked up.
FindDescriptor ==
  /\ verdict = "unknown"
  /\ btf' \in Objects
  /\ \/ IsStruct' /\ verdict' = "none" /\ pending' = <<<<Resolve'[Root], Struct>>>>
     \/ ~IsStruct' /\ verdict' = "rejected" /\ pending' = <<>>
  /\ UNCHANGED <<cache, pairs, fieldVars>>

\* validate_complex_type_by_name, of one type and its fields.
\* A type is known by its text, and taken as compared when its fields are next.
Compare ==
  /\ verdict = "none" /\ pending # <<>>
  /\ LET text == Head(pending)[2]
         r == Base(text)
         id == Head(pending)[1]
         t == Element(id)
         Known == text \in cache \/ r.kind = "int"
     IN  /\ pairs' = pairs \cup {<<t, Rust[text].base>>}
         /\ cache' = cache \cup {text}
         /\ IF Known THEN pending' = Tail(pending) /\ verdict' = verdict
            ELSE IF FieldsMatch(t, r)
            THEN pending' = Nested(t, r) \o Tail(pending) /\ verdict' = verdict
            ELSE pending' = <<>> /\ verdict' = "rejected"
  /\ UNCHANGED <<btf, fieldVars>>

Accept ==
  /\ verdict = "none" /\ pending = <<>>
  /\ verdict' = "accepted"
  /\ UNCHANGED <<btf, pending, cache, pairs, fieldVars>>

-----------------------------------------------------------------------------
(* Taking fields out of reports.                                           *)

\* impl From<&hidreport::Field> for HidRdescField: bits_start and bits_end are u16.
ToC(f) == [start |-> f.start % 2^16, end |-> f.end % 2^16]

Bytes(first, last) == [i \in 1..(8 * (last - first + 1)) |-> 8 * first + i - 1]

\* extract_bits, for a field in C and a buffer of that many bytes; no bits are 0.
EndByte(c) == IF c.end = 0 THEN 0 ELSE (c.end - 1) \div 8
ExtractUnshifted(c, size) ==  \* a slip: the bits before the field are not dropped
  LET n == c.end - c.start first == c.start \div 8 IN
  IF n <= 0 \/ n > 32 \/ first >= size \/ EndByte(c) >= size THEN <<>>
  ELSE SubSeq(Bytes(first, EndByte(c)), 1, n)
Extract(c, size) ==
  LET n == c.end - c.start
      first == c.start \div 8
      shift == c.start % 8
  IN  IF n <= 0 \/ n > 32 \/ first >= size \/ EndByte(c) >= size THEN <<>>
      ELSE IF shift = 0 /\ n \in {8, 16, 32} THEN Bytes(first, first + n \div 8 - 1)
      ELSE SubSeq(Bytes(first, EndByte(c)), shift + 1, shift + n)

\* inject_report_descriptor, once the types agree; a field of the descriptor.
Convert ==
  /\ verdict = "accepted" /\ field = NoField
  /\ field' \in {[start |-> s, end |-> s + w] : s \in Starts, w \in Widths}
  /\ cField' = ToC(field')
  /\ UNCHANGED <<layoutVars, bits>>

\* The program takes it out of a report.
TakeField ==
  /\ field # NoField /\ bits = <<>>
  /\ \E size \in Buffers : bits' = <<size>> \o Extract(cField, size)
  /\ UNCHANGED <<layoutVars, field, cField>>

-----------------------------------------------------------------------------
DescriptorInit ==
  /\ btf = <<>> /\ pending = <<>>
  /\ cache = {} /\ verdict = "unknown" /\ pairs = {}
  /\ field = NoField /\ cField = NoField
  /\ bits = <<>>

DescriptorNext == FindDescriptor \/ Compare \/ Accept \/ Convert \/ TakeField
-----------------------------------------------------------------------------
(* Properties                                                              *)

\* A flat view of a type: the paths to everything in it, with offset and size, and
\* what a struct or union, or the elements of an array of them, are.
Node(kind, size) == [path |-> <<>>, offset |-> 0, kind |-> kind, size |-> size]
Below(key, offset, View) ==
  {[path |-> <<key>> \o n.path, offset |-> offset + n.offset, kind |-> n.kind, size |-> n.size] :
     n \in View}
Inside(kind, members, View) ==
  UNION {Below(Key(kind, members[i]), members[i].offset, View[members[i].type]) : i \in DOMAIN members}
RustNodes(x) ==
  {Node("any", Rust[x].size)} \cup
    (IF Base(x).kind = "int" THEN {} ELSE {Node(Base(x).kind, Base(x).size)})
RustView[x \in DOMAIN Rust] == RustNodes(x) \cup Inside(Base(x).kind, Base(x).fields, RustView)
Inner(t) == btf[Element(Resolve[t])]
BtfNodes(t) == {Node("any", SizeOf[Resolve[t]]), Node(Inner(t).kind, Inner(t).size)}
BtfView[t \in DOMAIN btf] == BtfNodes(t) \cup Inside(Inner(t).kind, Inner(t).members, BtfView)
Agrees == btf[Resolve[Root]].kind # "array" /\ RustView[Struct] \subseteq BtfView[Root]

\* An object is accepted only when whatever the Rust struct writes lies where the
\* program reads it, through nested, anonymous and repeated types, and rejected only when
\* it does not.  The first holds of objects with one C type for every Rust type: the
\* second one would not be looked at (validate_complex_type_by_name).
OneTypeEach == \A p, q \in pairs : p[2] = q[2] => p[1] = q[1]
AcceptedAgrees ==
  /\ verdict = "accepted" /\ OneTypeEach => Agrees
  /\ verdict = "rejected" => ~Agrees

\* A field of up to 32 bits in the buffer is read as it is in the report, and any
\* other as 0, when it ends below bit 2^16 (extract_bits).
FieldsAreRead ==
  LET n == field.end - field.start IN
  bits # <<>> /\ field.end < 2^16 =>
    Tail(bits) = IF n > 32 \/ field.end > 8 * Head(bits) THEN <<>>
                 ELSE [i \in 1..n |-> field.start + i - 1]
=============================================================================
