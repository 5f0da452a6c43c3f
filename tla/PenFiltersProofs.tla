-------------------------- MODULE PenFiltersProofs --------------------------
(***************************************************************************)
(* What the programs of PenFilters promise whatever the hand does with the *)
(* pen and however its tablet reports the button: no tip is seen that is   *)
(* not there, none is lost in contact, and an eraser is not taken for the  *)
(* third button.  The reports that show no state of the pen are few enough *)
(* (MaxFalse) for the forced ones to outlast them; of the forced ones, no  *)
(* more than three are left for a pen that comes back.  At the end are the *)
(* types of DevicePrograms, for which those of the pens are needed.        *)
(***************************************************************************)
EXTENDS DeviceProgramsProofs, SequenceTheorems

LEMMA NextPen ==
  ASSUME [Next]_vars
  PROVE  UNCHANGED penVars \/ PenNext
  BY PartsAreApart

-----------------------------------------------------------------------------
(* The reports                                                             *)

LEMMA ShownAs ==
  ASSUME tablet \in Tablet, NEW x \in Pen
  PROVE  /\ "InRange" \in Shown(x) <=> x.near
         /\ "Tip" \in Shown(x) <=>
              x.near /\ ((x.touch /\ ~x.eraser) \/ (x.button /\ tablet = "Waltop"))
         /\ "Eraser" \in Shown(x) <=>
              x.near /\ ((x.touch /\ x.eraser) \/ (x.button /\ tablet = "Artist24"))
         /\ "Invert" \in Shown(x) <=>
              x.near /\ (x.eraser \/ (x.button /\ tablet = "Kamvas19"))
         /\ "Barrel" \in Shown(x) <=> x.near /\ x.button /\ tablet = "Waltop"
         /\ "SecondaryBarrel" \in Shown(x) <=> x.near /\ x.button /\ tablet = "Inspiroy"
         /\ "ThirdButton" \notin Shown(x)
         /\ Shown(x) \subseteq Switch
  <1>1. /\ ButtonAs["Artist24"] = {"Eraser"} /\ ButtonAs["Inspiroy"] = {"SecondaryBarrel"}
        /\ ButtonAs["Kamvas19"] = {"Invert"} /\ ButtonAs["Waltop"] = {"Tip", "Barrel"}
    BY DEF ButtonAs, Tablet
  <1>2. CASE tablet = "Artist24"
    BY <1>1, <1>2 DEF Shown, If, Switch
  <1>3. CASE tablet = "Inspiroy"
    BY <1>1, <1>3 DEF Shown, If, Switch
  <1>4. CASE tablet = "Kamvas19"
    BY <1>1, <1>4 DEF Shown, If, Switch
  <1>5. CASE tablet = "Waltop"
    BY <1>1, <1>5 DEF Shown, If, Switch
  <1>6. QED
    BY <1>2, <1>3, <1>4, <1>5 DEF Tablet

LEMMA HeadAndTail ==
  ASSUME NEW S, NEW s \in Seq(S), s # <<>>
  PROVE  /\ Head(s) = s[1] /\ s[1] \in S
         /\ Tail(s) \in Seq(S) /\ Len(s) \in Nat /\ Len(s) >= 1 /\ Len(Tail(s)) = Len(s) - 1
         /\ Tail(s) = <<>> <=> Len(s) = 1
         /\ \A i \in 1..(Len(s) - 1) : Tail(s)[i] = s[i + 1]
  <1>1. Len(s) \in Nat /\ Len(s) # 0 /\ DOMAIN s = 1..Len(s)
    BY EmptySeq, LenProperties
  <1>2. Tail(s) \in Seq(S) /\ Len(Tail(s)) = Len(s) - 1
        /\ \A i \in 1..(Len(s) - 1) : Tail(s)[i] = s[i + 1]
    BY <1>1, HeadTailProperties
  <1>3. Head(s) = s[1] /\ s[1] \in S
    BY <1>1, ElementOfSeq
  <1>4. Tail(s) = <<>> <=> Len(Tail(s)) = 0
    BY <1>2, EmptySeq
  <1>5. QED
    BY <1>1, <1>2, <1>3, <1>4

LEMMA Repeated ==
  ASSUME NEW S, NEW z \in S, NEW n \in Nat
  PROVE  /\ [i \in 1..n |-> z] \in Seq(S)
         /\ Len([i \in 1..n |-> z]) = n
         /\ \A i \in 1..n : [j \in 1..n |-> z][i] = z
  OBVIOUS

LEMMA FalseReportsAs ==
  ASSUME tablet \in Tablet, NEW x \in Pen, x.near, x.eraser => tablet = "Kamvas19",
         NEW s \in FalseReports(x)
  PROVE  /\ s \in Seq(SUBSET Switch)
         /\ tablet \in {"Kamvas19", "Waltop"} => s = <<>>
         /\ tablet = "Inspiroy" =>
              /\ x.touch <=> s # <<>>
              /\ s # <<>> => Len(s) <= MaxFalse + 1
              /\ \A i \in 1..Len(s) :
                   /\ "InRange" \in s[i]
                   /\ "SecondaryBarrel" \in s[i] <=> x.button
                   /\ i > 1 => "Tip" \notin s[i]
         /\ tablet = "Artist24" =>
              /\ Len(s) = (IF x.touch THEN 2 ELSE 1) /\ s # <<>>
              /\ s[1] = {}
              /\ x.touch => /\ "InRange" \in s[2] /\ "Tip" \notin s[2]
                            /\ "Eraser" \in s[2] <=> x.button
  <1> DEFINE untipped == Shown(x) \ {"Tip"}
  <1>1. Shown(x) \in SUBSET Switch /\ untipped \in SUBSET Switch /\ {} \in SUBSET Switch
    BY ShownAs
  <1>2. /\ "Tip" \notin untipped
        /\ \A r \in {Shown(x), untipped} :
             /\ "InRange" \in r
             /\ "SecondaryBarrel" \in r <=> x.button /\ tablet = "Inspiroy"
             /\ tablet = "Artist24" => ("Eraser" \in r <=> x.button)
    <2>1. tablet = "Artist24" => ~x.eraser
      OBVIOUS
    <2>2. QED
      BY <2>1, ShownAs
  <1>3. CASE tablet = "Artist24"
    <2>1. s = IF x.touch THEN <<{}, untipped>> ELSE <<{}>>
      BY <1>3 DEF FalseReports
    <2> HIDE DEF untipped
    <2>2. CASE x.touch
      <3>1. s = <<{}, untipped>>
        BY <2>1, <2>2
      <3>2. s \in Seq(SUBSET Switch) /\ Len(s) = 2 /\ s # <<>> /\ s[1] = {} /\ s[2] = untipped
        BY <1>1, <3>1
      <3>3. QED
        BY <1>2, <1>3, <2>2, <3>2
    <2>3. CASE ~x.touch
      <3>1. s = <<{}>>
        BY <2>1, <2>3
      <3>2. s \in Seq(SUBSET Switch) /\ Len(s) = 1 /\ s # <<>> /\ s[1] = {}
        BY <1>1, <3>1
      <3>3. QED
        BY <1>3, <2>3, <3>2
    <2>4. QED
      BY <2>2, <2>3
  <1>4. CASE tablet = "Inspiroy" /\ x.touch
    <2>1. PICK first \in {Shown(x), untipped}, n \in 0..MaxFalse :
            s = <<first>> \o [i \in 1..n |-> untipped]
      <3>1. PICK first \in {Shown(x), untipped}, n \in 0..MaxFalse : s = TipLost(first, n, x)
        BY <1>4 DEF FalseReports
      <3>2. QED
        BY <3>1 DEF TipLost
    <2>2. n \in Nat /\ n <= MaxFalse
      BY PenAssumption
    <2> DEFINE more == [i \in 1..n |-> untipped]
    <2> HIDE DEF untipped
    <2>3. /\ more \in Seq(SUBSET Switch) /\ Len(more) = n
          /\ \A i \in 1..n : more[i] = untipped
      BY <1>1, <2>2, Repeated
    <2>4. s = <<first>> \o more
      BY <2>1
    <2> HIDE DEF more
    <2>5. <<first>> \in Seq(SUBSET Switch) /\ Len(<<first>>) = 1 /\ <<first>>[1] = first
      BY <1>1
    <2>6. /\ s \in Seq(SUBSET Switch) /\ Len(s) = n + 1
          /\ \A i \in 1..(n + 1) : s[i] = IF i = 1 THEN first ELSE untipped
      <3>1. /\ s \in Seq(SUBSET Switch) /\ Len(s) = 1 + n
            /\ \A i \in 1..(1 + n) : s[i] = IF i <= 1 THEN <<first>>[i] ELSE more[i - 1]
        BY <2>3, <2>4, <2>5, ConcatProperties
      <3>2. \A i \in 1..(1 + n) : (i <= 1 <=> i = 1) /\ (i # 1 => i - 1 \in 1..n)
        BY <2>2
      <3>3. ASSUME NEW i \in 1..(1 + n) PROVE s[i] = IF i = 1 THEN first ELSE untipped
        <4>1. CASE i = 1
          BY <2>5, <3>1, <3>2, <4>1
        <4>2. CASE i # 1
          BY <2>3, <3>1, <3>2, <4>2
        <4>3. QED
          BY <4>1, <4>2
      <3>4. QED
        BY <2>2, <3>1, <3>3
    <2>7. \A i \in 1..Len(s) : /\ "InRange" \in s[i] /\ ("SecondaryBarrel" \in s[i] <=> x.button)
                               /\ i > 1 => "Tip" \notin s[i]
      BY <1>2, <1>4, <2>6
    <2>8. s # <<>>
      BY <2>2, <2>6, EmptySeq
    <2>9. QED
      BY <1>4, <2>2, <2>6, <2>7, <2>8, PenAssumption
  <1>5. CASE tablet \in {"Kamvas19", "Waltop"} \/ (tablet = "Inspiroy" /\ ~x.touch)
    <2>1. s = <<>>
      BY <1>5 DEF FalseReports
    <2>2. s \in Seq(SUBSET Switch) /\ Len(s) = 0
      BY <2>1, EmptySeq
    <2>3. QED
      BY <1>5, <2>1, <2>2
  <1>6. QED
    BY <1>3, <1>4, <1>5 DEF Tablet
-----------------------------------------------------------------------------
(* The invariant                                                           *)

PenTypes ==
  /\ tablet \in Tablet /\ pen \in Pen
  /\ due \in Seq(SUBSET Switch) /\ told \in BOOLEAN /\ since \in 0..4
  /\ prev_state \subseteq Switch /\ waltop_button_state \subseteq Switch /\ host \subseteq Switch
  /\ last_tip_state \in BOOLEAN /\ last_sec_barrel_state \in BOOLEAN
  /\ force_tip_down_count \in 0..4
  /\ prev_was_out_of_range \in BOOLEAN /\ in_eraser_mode \in BOOLEAN
  /\ down \in BOOLEAN /\ touched \in BOOLEAN /\ clean \in BOOLEAN

HandInv ==
  /\ pen.eraser => tablet = "Kamvas19"
  /\ told \/ ~pen.near => due = <<>>
  /\ pen.touch => pen.near /\ touched
  /\ down => pen.touch

TipInv ==
  /\ "Tip" \in host => touched \/ (tablet = "Inspiroy" /\ since <= 3)
  /\ ~pen.near /\ told => "Tip" \notin host

\* A report in contact without tip differs in both bits from what is remembered, or
\* none was in contact when the button changed.
Untipped(r) == "InRange" \in r /\ "Tip" \notin r /\ ("Eraser" \in r <=> pen.button)
Remembered == "Tip" \in prev_state /\ ("Eraser" \in prev_state <=> ~pen.button)

Artist24Inv ==
  /\ told /\ pen.near => ("Tip" \in prev_state <=> pen.touch) /\ ("Eraser" \in prev_state <=> pen.button)
  /\ ~pen.near => "Tip" \notin prev_state
  /\ told /\ ~pen.touch => "Tip" \notin host
  /\ due = <<>> => "Tip" \notin prev_state \/ ("Eraser" \in prev_state <=> pen.button)
  /\ due # <<>> =>
       \/ Len(due) = 1 /\ due[1] = {} /\ "Tip" \notin prev_state /\ "Tip" \notin host
       \/ Len(due) = 2 /\ due[1] = {} /\ Untipped(due[2]) /\ Remembered
       \/ Len(due) = 1 /\ Untipped(due[1]) /\ Remembered

\* Reports are forced from the first that shows the button's change, and as many as
\* may come without tip.  A pen leaves after a report that shows it, which is one of
\* them.
InspiroyInv ==
  /\ ~pen.near => ~last_tip_state
  /\ ~touched => ~last_tip_state
  /\ told \/ ~pen.near => force_tip_down_count <= 3
  /\ ~touched /\ force_tip_down_count # 0 => force_tip_down_count + since <= 3
  /\ told /\ pen.near => /\ last_tip_state <=> pen.touch
                         /\ last_sec_barrel_state <=> pen.button
  /\ due = <<>> /\ last_tip_state => (last_sec_barrel_state <=> pen.button)
  /\ due # <<>> =>
       /\ touched
       /\ \A i \in 1..Len(due) : /\ "InRange" \in due[i]
                                 /\ "SecondaryBarrel" \in due[i] <=> pen.button
                                 /\ i > 1 => "Tip" \notin due[i]
       /\ \/ /\ last_tip_state /\ (last_sec_barrel_state <=> ~pen.button)
             /\ Len(due) <= MaxFalse + 1
          \/ /\ last_sec_barrel_state <=> pen.button
             /\ "Tip" \notin due[1]
             /\ MaxFalse <= 4 => Len(due) <= force_tip_down_count

\* An eraser comes in range after a report out of range, a button never does.
KamvasInv ==
  /\ due # <<>> => Len(due) = 1 /\ due[1] = {} /\ pen.eraser
  /\ ~pen.near /\ told => /\ ~in_eraser_mode
                          /\ host \cap {"Tip", "Invert", "ThirdButton"} = {}
  /\ pen.near /\ pen.eraser => /\ host \cap {"Tip", "ThirdButton"} = {}
                               /\ due = <<>> => in_eraser_mode \/ prev_was_out_of_range
  /\ pen.near /\ ~pen.eraser /\ clean => /\ "Invert" \notin host /\ ~in_eraser_mode
                                         /\ prev_was_out_of_range => ~told /\ ~pen.button

WaltopInv ==
  /\ due = <<>>
  /\ waltop_button_state = host
  /\ "Barrel" \in host => "Tip" \in host

TabletInv ==
  /\ tablet = "Artist24" => Artist24Inv
  /\ tablet = "Inspiroy" => InspiroyInv
  /\ tablet = "Kamvas19" => KamvasInv
  /\ tablet = "Waltop" => WaltopInv

PenInv == PenTypes /\ HandInv /\ TipInv /\ TabletInv

-----------------------------------------------------------------------------
(* The steps                                                               *)

\* What a step of the hand makes of the pen.
LEMMA HandMoves ==
  ASSUME PenTypes
  PROVE  /\ \A e \in BOOLEAN : Enter(e) =>
              pen' \in Pen /\ pen'.near /\ (pen'.touch <=> pen.touch)
              /\ (pen'.button <=> pen.button) /\ (pen'.eraser <=> e)
         /\ Leave => pen' \in Pen /\ ~pen'.near /\ (pen'.touch <=> pen.touch)
                     /\ (pen'.button <=> pen.button) /\ (pen'.eraser <=> pen.eraser)
         /\ TouchOrLift => pen' \in Pen /\ (pen'.near <=> pen.near) /\ (pen'.touch <=> ~pen.touch)
                           /\ (pen'.button <=> pen.button) /\ (pen'.eraser <=> pen.eraser)
         /\ PressOrRelease => pen' \in Pen /\ (pen'.near <=> pen.near) /\ (pen'.touch <=> pen.touch)
                              /\ (pen'.button <=> ~pen.button) /\ (pen'.eraser <=> pen.eraser)
  BY DEF PenTypes, Pen, Enter, Leave, TouchOrLift, PressOrRelease

\* A report of what is due, or of the pen.
LEMMA ReportIs ==
  ASSUME PenTypes, PenReport
  PROVE  \E r \in SUBSET Switch :
           /\ Filter(r)
           /\ \/ /\ due # <<>> /\ r = due[1] /\ ~told'
                 /\ due' = Tail(due) /\ due' \in Seq(SUBSET Switch)
                 /\ Len(due) \in Nat /\ Len(due) >= 1 /\ Len(due') = Len(due) - 1
                 /\ due' = <<>> <=> Len(due) = 1
                 /\ \A i \in 1..(Len(due) - 1) : due'[i] = due[i + 1]
              \/ /\ due = <<>> /\ r = Shown(pen) /\ told' /\ due' = <<>>
                 /\ pen.near \/ ~told
           /\ UNCHANGED <<tablet, pen, touched, clean>>
           /\ since' = IF pen.near /\ since < 4 THEN since + 1 ELSE since
           /\ told' \in BOOLEAN /\ down' \in BOOLEAN
           /\ down' => down \/ pen.touch
  <1>1. UNCHANGED <<tablet, pen, touched, clean>>
        /\ since' = IF pen.near /\ since < 4 THEN since + 1 ELSE since
    BY DEF PenReport
  <1>2. down' \in BOOLEAN
    BY Zenon DEF PenReport
  <1>3. down' => down \/ pen.touch
    BY DEF PenReport
  <1>4. CASE due # <<>>
    <2>1. Filter(Head(due)) /\ due' = Tail(due) /\ told' = FALSE
      BY <1>4 DEF PenReport
    <2>2. due \in Seq(SUBSET Switch)
      BY DEF PenTypes
    <2>3. /\ Head(due) = due[1] /\ due[1] \in SUBSET Switch
          /\ Tail(due) \in Seq(SUBSET Switch)
          /\ Len(due) \in Nat /\ Len(due) >= 1 /\ Len(Tail(due)) = Len(due) - 1
          /\ Tail(due) = <<>> <=> Len(due) = 1
          /\ \A i \in 1..(Len(due) - 1) : Tail(due)[i] = due[i + 1]
      BY <1>4, <2>2, HeadAndTail
    <2>4. told' \in BOOLEAN /\ ~told'
      BY <2>1
    <2>5. Filter(due[1])
      BY <2>1, <2>3
    <2>6. QED
      BY <1>1, <1>2, <1>3, <1>4, <2>1, <2>3, <2>4, <2>5
  <1>5. CASE due = <<>>
    <2>1. Filter(Shown(pen)) /\ due' = due /\ told' = TRUE /\ (pen.near \/ ~told)
      BY <1>5 DEF PenReport
    <2>2. Shown(pen) \in SUBSET Switch
      BY ShownAs DEF PenTypes
    <2>3. told' \in BOOLEAN /\ told'
      BY <2>1
    <2>4. QED
      BY <1>1, <1>2, <1>3, <1>5, <2>1, <2>2, <2>3
  <1>6. QED
    BY <1>4, <1>5

LEMMA FilterTypes ==
  ASSUME PenTypes, NEW r \in SUBSET Switch, Filter(r)
  PROVE  /\ prev_state' \subseteq Switch /\ waltop_button_state' \subseteq Switch
         /\ host' \subseteq Switch
         /\ last_tip_state' \in BOOLEAN /\ last_sec_barrel_state' \in BOOLEAN
         /\ force_tip_down_count' \in 0..4
         /\ prev_was_out_of_range' \in BOOLEAN /\ in_eraser_mode' \in BOOLEAN
  <1>1. CASE tablet = "Artist24"
    BY <1>1 DEF PenTypes, Filter, Artist24, Stored24, inspiroyVars, kamvasVars
  <1>2. CASE tablet = "Inspiroy"
    <2>1. Inspiroy(r)
      BY <1>2 DEF Filter
    <2>2. force_tip_down_count' \in 0..4
      BY <2>1 DEF PenTypes, Inspiroy, Count, inspiroyVars
    <2>3. host' \subseteq Switch
      BY <2>1 DEF PenTypes, Inspiroy, If, Switch
    <2>4. last_tip_state' \in BOOLEAN /\ last_sec_barrel_state' \in BOOLEAN
      <3>1. CASE "InRange" \in r
        <4>1. /\ last_tip_state' = ("Tip" \in r)
              /\ last_sec_barrel_state' = ("SecondaryBarrel" \in r)
          BY <2>1, <3>1 DEF Inspiroy
        <4>2. QED
          BY <4>1, SMT
      <3>2. CASE "InRange" \notin r
        BY <2>1, <3>2 DEF PenTypes, Inspiroy, inspiroyVars
      <3>3. QED
        BY <3>1, <3>2
    <2>5. QED
      BY <2>1, <2>2, <2>3, <2>4 DEF PenTypes, Inspiroy, kamvasVars
  <1>3. CASE tablet = "Kamvas19"
    <2>1. Kamvas19(r)
      BY <1>3 DEF Filter
    <2>2. host' \subseteq Switch
      BY <2>1 DEF Kamvas19, If, Switch
    <2>3. prev_was_out_of_range' \in BOOLEAN /\ in_eraser_mode' \in BOOLEAN
      BY <2>1, Zenon DEF Kamvas19, WasOutOfRange, EraserMode
    <2>4. QED
      BY <2>1, <2>2, <2>3 DEF PenTypes, Kamvas19, inspiroyVars
  <1>4. CASE tablet = "Waltop"
    BY <1>4 DEF PenTypes, Filter, Waltop, inspiroyVars, kamvasVars, Switch
  <1>5. QED
    BY <1>1, <1>2, <1>3, <1>4 DEF PenTypes, Tablet

\* What is due after the button has changed.
LEMMA DueOnPress ==
  ASSUME PenTypes, HandInv, PressOrRelease
  PROVE  /\ pen' \in Pen /\ (pen'.near <=> pen.near) /\ (pen'.touch <=> pen.touch)
         /\ (pen'.button <=> ~pen.button) /\ (pen'.eraser <=> pen.eraser)
         /\ told /\ due = <<>> /\ (told' <=> ~pen.near)
         /\ ~pen.near => due' = <<>>
         /\ pen.near => due' \in FalseReports(pen')
         /\ due' \in Seq(SUBSET Switch)
         /\ UNCHANGED <<tablet, memoryVars, host, down, touched, since, clean>>
         /\ told' \in BOOLEAN
  <1>1. /\ pen' \in Pen /\ (pen'.near <=> pen.near) /\ (pen'.touch <=> pen.touch)
        /\ (pen'.button <=> ~pen.button) /\ (pen'.eraser <=> pen.eraser)
    BY HandMoves
  <1>2. /\ told /\ due = <<>> /\ (told' <=> ~pen.near)
        /\ ~pen.near => due' = <<>>
        /\ pen.near => due' \in FalseReports(pen')
        /\ UNCHANGED <<tablet, memoryVars, host, down, touched, since, clean>>
    BY DEF PressOrRelease, Reported
  <1>3. told' \in BOOLEAN
    BY Zenon DEF PressOrRelease
  <1>4. due' \in Seq(SUBSET Switch)
    <2>1. <<>> \in Seq(SUBSET Switch)
      BY EmptySeq
    <2>2. CASE pen.near
      BY <1>1, <1>2, <2>2, FalseReportsAs DEF PenTypes, HandInv
    <2>3. QED
      BY <1>2, <2>1, <2>2
  <1>5. QED
    BY <1>1, <1>2, <1>3, <1>4

LEMMA PenTypesStep ==
  ASSUME PenTypes, HandInv, PenNext
  PROVE  PenTypes'
  <1> USE DEF memoryVars, inspiroyVars, kamvasVars
  <1>1. ASSUME NEW e \in BOOLEAN, Enter(e) PROVE PenTypes'
    <2>1. <<>> \in Seq(SUBSET Switch) /\ <<{}>> \in Seq(SUBSET Switch)
      BY EmptySeq
    <2>2. due' \in Seq(SUBSET Switch)
      BY <1>1, <2>1 DEF Enter
    <2>3. clean' \in BOOLEAN /\ touched' \in BOOLEAN /\ told' \in BOOLEAN
      BY <1>1, Zenon DEF Enter
    <2>4. pen' \in Pen /\ since' \in 0..4
      <3>1. pen' \in Pen
        BY <1>1, HandMoves
      <3>2. since' = 0
        BY <1>1 DEF Enter
      <3>3. QED
        BY <3>1, <3>2
    <2>5. UNCHANGED <<tablet, memoryVars, host, down>>
      BY <1>1 DEF Enter
    <2>6. QED
      BY <2>2, <2>3, <2>4, <2>5 DEF PenTypes
  <1>2. CASE Leave
    <2>1. pen' \in Pen
      BY <1>2, HandMoves
    <2>2. told' \in BOOLEAN
      BY <1>2, Zenon DEF Leave
    <2>3. UNCHANGED <<tablet, due, memoryVars, host, down, touched, since, clean>>
      BY <1>2 DEF Leave
    <2>4. QED
      BY <2>1, <2>2, <2>3 DEF PenTypes
  <1>3. CASE TouchOrLift
    <2>1. pen' \in Pen
      BY <1>3, HandMoves
    <2>2. touched' \in BOOLEAN /\ told' \in BOOLEAN /\ down' \in BOOLEAN
      BY <1>3, Zenon DEF TouchOrLift
    <2>3. QED
      BY <1>3, <2>1, <2>2 DEF TouchOrLift, PenTypes
  <1>4. CASE PressOrRelease
    BY <1>4, DueOnPress DEF PenTypes
  <1>5. CASE PenReport
    <2>1. PICK r \in SUBSET Switch :
            /\ Filter(r)
            /\ (due' \in Seq(SUBSET Switch) \/ due' = <<>>)
            /\ UNCHANGED <<tablet, pen, touched, clean>>
            /\ since' = IF pen.near /\ since < 4 THEN since + 1 ELSE since
            /\ told' \in BOOLEAN /\ down' \in BOOLEAN
      BY <1>5, ReportIs
    <2>2. due' \in Seq(SUBSET Switch)
      BY <2>1, EmptySeq
    <2>3. since' \in 0..4
      BY <2>1 DEF PenTypes
    <2>4. QED
      BY <2>1, <2>2, <2>3, FilterTypes DEF PenTypes
  <1>6. QED
    BY <1>1, <1>2, <1>3, <1>4, <1>5 DEF PenNext

LEMMA HandStep ==
  ASSUME PenTypes, HandInv, PenNext
  PROVE  HandInv'
  <1>1. ASSUME NEW e \in BOOLEAN, Enter(e) PROVE HandInv'
    <2>1. pen'.near /\ (pen'.touch <=> pen.touch) /\ (pen'.eraser <=> e)
      BY <1>1, HandMoves
    <2>2. QED
      BY <1>1, <2>1 DEF HandInv, Enter
  <1>2. CASE Leave
    <2>1. ~pen'.near /\ (pen'.touch <=> pen.touch) /\ (pen'.eraser <=> pen.eraser)
      BY <1>2, HandMoves
    <2>2. QED
      BY <1>2, <2>1 DEF HandInv, Leave, Reported
  <1>3. CASE TouchOrLift
    <2>1. (pen'.near <=> pen.near) /\ (pen'.touch <=> ~pen.touch) /\ (pen'.eraser <=> pen.eraser)
      BY <1>3, HandMoves
    <2>2. QED
      BY <1>3, <2>1 DEF HandInv, TouchOrLift
  <1>4. CASE PressOrRelease
    BY <1>4, DueOnPress DEF HandInv
  <1>5. CASE PenReport
    BY <1>5, ReportIs DEF HandInv
  <1>6. QED
    BY <1>1, <1>2, <1>3, <1>4, <1>5 DEF PenNext

LEMMA Artist24Step ==
  ASSUME PenTypes, HandInv, tablet = "Artist24", Artist24Inv, PenNext
  PROVE  Artist24Inv'
  <1> USE DEF Artist24Inv, memoryVars
  <1>1. ASSUME NEW e \in BOOLEAN, Enter(e) PROVE Artist24Inv'
    <2>1. pen'.near /\ (pen'.touch <=> pen.touch) /\ (pen'.button <=> pen.button)
      BY <1>1, HandMoves
    <2>2. /\ due' = <<>> /\ ~told' /\ ~pen.near /\ told /\ due = <<>>
          /\ UNCHANGED <<prev_state, host>>
      BY <1>1 DEF Enter, Reported
    <2>3. QED
      BY <2>1, <2>2
  <1>2. CASE Leave
    <2>1. ~pen'.near /\ (pen'.touch <=> pen.touch) /\ (pen'.button <=> pen.button)
      BY <1>2, HandMoves
    <2>2. /\ due' = <<>> /\ ~told' /\ pen.near /\ told /\ ~pen.touch
          /\ UNCHANGED <<prev_state, host>>
      BY <1>2 DEF Leave, Reported
    <2>3. QED
      BY <2>1, <2>2
  <1>3. CASE TouchOrLift
    <2>1. pen'.near /\ (pen'.button <=> pen.button)
      BY <1>3, HandMoves DEF TouchOrLift
    <2>2. ~told' /\ UNCHANGED <<due, prev_state, host>>
      BY <1>3 DEF TouchOrLift
    <2>3. QED
      BY <2>1, <2>2 DEF Untipped, Remembered
  <1>4. CASE PressOrRelease
    <2>1. /\ (pen'.near <=> pen.near) /\ (pen'.touch <=> pen.touch)
          /\ (pen'.button <=> ~pen.button)
          /\ pen' \in Pen /\ ~pen'.eraser
          /\ told /\ due = <<>> /\ (told' <=> ~pen.near)
          /\ ~pen.near => due' = <<>>
          /\ UNCHANGED <<prev_state, host>>
      BY <1>4, DueOnPress DEF HandInv
    <2>2. CASE ~pen.near
      BY <2>1, <2>2
    <2>3. CASE pen.near
      <3>1. due' \in FalseReports(pen')
        BY <1>4, <2>3, DueOnPress
      <3>2. /\ Len(due') = (IF pen'.touch THEN 2 ELSE 1) /\ due' # <<>>
            /\ due'[1] = {}
            /\ pen'.touch => /\ "InRange" \in due'[2] /\ "Tip" \notin due'[2]
                             /\ "Eraser" \in due'[2] <=> pen'.button
        BY <2>1, <2>3, <3>1, FalseReportsAs DEF PenTypes
      <3>3. QED
        BY <2>1, <2>3, <3>2 DEF Untipped, Remembered
    <2>4. QED
      BY <2>2, <2>3
  <1>5. CASE PenReport
    <2>1. PICK r \in SUBSET Switch :
           /\ Filter(r)
           /\ \/ /\ due # <<>> /\ r = due[1] /\ ~told'
                 /\ Len(due) \in Nat /\ Len(due) >= 1 /\ Len(due') = Len(due) - 1
                 /\ due' = <<>> <=> Len(due) = 1
                 /\ \A i \in 1..(Len(due) - 1) : due'[i] = due[i + 1]
              \/ due = <<>> /\ r = Shown(pen) /\ told' /\ due' = <<>>
           /\ UNCHANGED pen
      BY <1>5, ReportIs
    <2>2. /\ prev_state' = IF "InRange" \in r THEN r ELSE prev_state
          /\ IF Ignored24(r) THEN UNCHANGED host ELSE host' = r
      BY <2>1 DEF Filter, Artist24, Stored24
    <2>3. /\ "Tip" \in Changed(r) <=> ~("Tip" \in r <=> "Tip" \in prev_state)
          /\ "Eraser" \in Changed(r) <=> ~("Eraser" \in r <=> "Eraser" \in prev_state)
      BY DEF Changed
    <2>4. Ignored24(r) <=>
            \/ "InRange" \notin r /\ "Tip" \in prev_state
            \/ "InRange" \in r /\ "Tip" \in Changed(r) /\ "Eraser" \in Changed(r)
      BY DEF Ignored24
    <2>5. CASE due = <<>>
      <3>1. /\ "InRange" \in r <=> pen.near
            /\ "Tip" \in r <=> pen.near /\ pen.touch
            /\ "Eraser" \in r <=> pen.near /\ pen.button
        BY <2>1, <2>5, ShownAs DEF PenTypes, HandInv
      <3>2. due' = <<>> /\ told'
        BY <2>1, <2>5
      <3>3. "Tip" \in host' => pen.touch
        BY <2>2, <2>3, <2>4, <2>5, <3>1
      <3>4. QED
        BY <2>1, <2>2, <3>1, <3>2, <3>3
    <2>6. CASE due # <<>> /\ Len(due) = 1 /\ due[1] = {}
      BY <2>1, <2>2, <2>4, <2>6 DEF HandInv, Untipped, Remembered
    <2>7. CASE due # <<>> /\ Len(due) = 2 /\ due[1] = {} /\ Untipped(due[2]) /\ Remembered
      <3>1. /\ ~told' /\ due' # <<>> /\ Len(due') = 1 /\ due'[1] = due[2]
            /\ "InRange" \notin r
        BY <2>1, <2>7
      <3>2. UNCHANGED prev_state /\ pen.near
        BY <2>2, <2>7, <3>1 DEF HandInv
      <3>3. QED
        BY <2>1, <2>7, <3>1, <3>2 DEF Untipped, Remembered
    <2>8. CASE due # <<>> /\ Len(due) = 1 /\ Untipped(due[1]) /\ Remembered
      <3>1. ~told' /\ due' = <<>> /\ Untipped(r) /\ prev_state' = r
        BY <2>1, <2>2, <2>8 DEF Untipped
      <3>2. QED
        BY <2>1, <3>1 DEF Untipped
    <2>9. QED
      BY <2>5, <2>6, <2>7, <2>8
  <1>6. QED
    BY <1>1, <1>2, <1>3, <1>4, <1>5 DEF PenNext

LEMMA WaltopStep ==
  ASSUME PenTypes, HandInv, tablet = "Waltop", WaltopInv, PenNext
  PROVE  WaltopInv'
  <1> USE DEF WaltopInv, memoryVars
  <1>1. ASSUME NEW e \in BOOLEAN, Enter(e) PROVE WaltopInv'
    BY <1>1 DEF Enter
  <1>2. CASE Leave \/ TouchOrLift
    BY <1>2 DEF Leave, TouchOrLift
  <1>3. CASE PressOrRelease
    <2>1. /\ pen' \in Pen /\ (pen'.near <=> pen.near) /\ ~pen'.eraser
          /\ ~pen.near => due' = <<>>
          /\ pen.near => due' \in FalseReports(pen')
          /\ UNCHANGED <<waltop_button_state, host>>
      BY <1>3, DueOnPress DEF HandInv
    <2>2. due' = <<>>
      BY <2>1, FalseReportsAs DEF PenTypes
    <2>3. QED
      BY <2>1, <2>2
  <1>4. CASE PenReport
    <2>1. PICK r \in SUBSET Switch : Filter(r) /\ r = Shown(pen) /\ due' = <<>>
      BY <1>4, ReportIs
    <2>2. "Barrel" \in r => "Tip" \in r
      BY <2>1, ShownAs DEF PenTypes
    <2>3. QED
      BY <2>1, <2>2 DEF Filter, Waltop
  <1>5. QED
    BY <1>1, <1>2, <1>3, <1>4 DEF PenNext

LEMMA InspiroyStep ==
  ASSUME PenTypes, HandInv, tablet = "Inspiroy", InspiroyInv, PenNext
  PROVE  InspiroyInv'
  <1> USE DEF InspiroyInv, memoryVars, inspiroyVars
  <1>1. ASSUME NEW e \in BOOLEAN, Enter(e) PROVE InspiroyInv'
    <2>1. pen'.near /\ (pen'.touch <=> pen.touch) /\ (pen'.button <=> pen.button)
      BY <1>1, HandMoves
    <2>2. /\ due' = <<>> /\ ~told' /\ ~pen.near /\ since' = 0
          /\ UNCHANGED <<last_tip_state, last_sec_barrel_state, force_tip_down_count>>
      BY <1>1 DEF Enter, HandInv
    <2>3. force_tip_down_count \in 0..4
      BY DEF PenTypes
    <2>4. QED
      BY <2>1, <2>2, <2>3
  <1>2. CASE Leave
    <2>1. ~pen'.near /\ (pen'.touch <=> pen.touch) /\ (pen'.button <=> pen.button)
      BY <1>2, HandMoves
    <2>2. /\ due' = <<>> /\ ~told' /\ pen.near /\ told /\ ~pen.touch
          /\ UNCHANGED <<touched, since, last_tip_state, last_sec_barrel_state,
                         force_tip_down_count>>
      BY <1>2 DEF Leave, Reported
    <2>3. QED
      BY <2>1, <2>2
  <1>3. CASE TouchOrLift
    <2>1. pen.near /\ pen'.near /\ (pen'.button <=> pen.button)
      BY <1>3, HandMoves DEF TouchOrLift
    <2>2. /\ ~told' /\ touched'
          /\ UNCHANGED <<due, last_tip_state, last_sec_barrel_state, force_tip_down_count>>
      BY <1>3 DEF TouchOrLift
    <2>3. force_tip_down_count \in 0..4
      BY DEF PenTypes
    <2>4. QED
      BY <2>1, <2>2, <2>3
  <1>4. CASE PressOrRelease
    <2>1. /\ (pen'.near <=> pen.near) /\ (pen'.touch <=> pen.touch)
          /\ (pen'.button <=> ~pen.button)
          /\ pen' \in Pen /\ ~pen'.eraser
          /\ told /\ due = <<>> /\ (told' <=> ~pen.near)
          /\ ~pen.near => due' = <<>>
          /\ pen.near => due' \in FalseReports(pen')
          /\ UNCHANGED <<touched, since, last_tip_state, last_sec_barrel_state,
                         force_tip_down_count>>
      BY <1>4, DueOnPress DEF HandInv
    <2>2. pen.near =>
            /\ pen.touch <=> due' # <<>>
            /\ due' # <<>> => Len(due') <= MaxFalse + 1
            /\ \A i \in 1..Len(due') :
                 /\ "InRange" \in due'[i]
                 /\ "SecondaryBarrel" \in due'[i] <=> pen'.button
                 /\ i > 1 => "Tip" \notin due'[i]
      BY <2>1, FalseReportsAs DEF PenTypes
    <2>3. pen.touch => pen.near /\ touched
      BY DEF HandInv
    <2>4. QED
      BY <2>1, <2>2, <2>3
  <1>5. CASE PenReport
    <2>1. PICK r \in SUBSET Switch :
           /\ Filter(r)
           /\ \/ /\ due # <<>> /\ r = due[1] /\ ~told'
                 /\ Len(due) \in Nat /\ Len(due) >= 1 /\ Len(due') = Len(due) - 1
                 /\ due' = <<>> <=> Len(due) = 1
                 /\ \A i \in 1..(Len(due) - 1) : due'[i] = due[i + 1]
              \/ due = <<>> /\ r = Shown(pen) /\ told' /\ due' = <<>>
           /\ UNCHANGED <<pen, touched>>
           /\ since' = IF pen.near /\ since < 4 THEN since + 1 ELSE since
      BY <1>5, ReportIs
    <2>2. Inspiroy(r)
      BY <2>1 DEF Filter
    <2>3. force_tip_down_count \in 0..4 /\ since \in 0..4
      BY DEF PenTypes
    <2>4. ASSUME "InRange" \notin r PROVE InspiroyInv'
      <3>1. UNCHANGED <<last_tip_state, last_sec_barrel_state, force_tip_down_count>>
        BY <2>2, <2>4 DEF Inspiroy
      <3>2. due = <<>> /\ due' = <<>> /\ ~pen.near
        BY <2>1, <2>4, ShownAs DEF PenTypes
      <3>3. QED
        BY <2>1, <3>1, <3>2
    <2>5. ASSUME "InRange" \in r PROVE InspiroyInv'
      <3>1. /\ pen.near
            /\ "SecondaryBarrel" \in r <=> pen.button
            /\ due = <<>> => ("Tip" \in r <=> pen.touch)
        <4>1. CASE due = <<>>
          BY <2>1, <2>5, <4>1, ShownAs DEF PenTypes, HandInv
        <4>2. CASE due # <<>>
          BY <2>1, <4>2 DEF HandInv
        <4>3. QED
          BY <4>1, <4>2
      <3>2. /\ last_tip_state' <=> "Tip" \in r
            /\ last_sec_barrel_state' <=> pen.button
            /\ force_tip_down_count' = IF Forces(r) THEN 4 ELSE Count(r)
        BY <2>2, <2>5, <3>1 DEF Inspiroy
      <3>3. Forces(r) <=> last_tip_state /\ (last_sec_barrel_state <=> ~pen.button)
        BY <3>1 DEF Forces, ButtonChanges, PenTypes
      <3>4. Count(r) = IF force_tip_down_count = 0 \/ "Tip" \in r THEN 0 ELSE force_tip_down_count - 1
        BY DEF Count
      <3>5. pen.touch => touched
        BY DEF HandInv
      <3>6. ~touched => ~last_tip_state' /\ (force_tip_down_count' # 0 => force_tip_down_count' + since' <= 3)
        BY <2>1, <2>3, <3>1, <3>2, <3>3, <3>4, <3>5
      <3>7. told' => force_tip_down_count' <= 3
        <4>1. told' => due = <<>> /\ ~Forces(r)
          BY <2>1, <3>3
        <4>2. QED
          BY <2>3, <3>2, <3>4, <4>1
      <3>8. ASSUME due' # <<>>
            PROVE  /\ touched
                   /\ \A i \in 1..Len(due') :
                        /\ "InRange" \in due'[i]
                        /\ "SecondaryBarrel" \in due'[i] <=> pen.button
                        /\ "Tip" \notin due'[i]
                   /\ MaxFalse <= 4 => Len(due') <= force_tip_down_count'
        <4>1. /\ due # <<>> /\ r = due[1]
              /\ Len(due) \in Nat /\ Len(due) >= 2 /\ Len(due') = Len(due) - 1
              /\ \A i \in 1..(Len(due) - 1) : due'[i] = due[i + 1]
          BY <2>1, <3>8
        <4>2. \A i \in 1..Len(due') : i + 1 \in 1..Len(due) /\ i + 1 > 1 /\ due'[i] = due[i + 1]
          BY <4>1
        <4>3. CASE Forces(r)
          BY <2>3, <3>2, <3>3, <4>1, <4>2, <4>3, PenAssumption
        <4>4. CASE ~Forces(r)
          <5>1. (last_sec_barrel_state <=> pen.button) /\ "Tip" \notin r
                /\ (MaxFalse <= 4 => Len(due) <= force_tip_down_count)
            BY <3>3, <4>1, <4>4
          <5>2. MaxFalse <= 4 => Len(due') <= force_tip_down_count'
            BY <2>3, <3>2, <3>4, <4>1, <4>4, <5>1
          <5>3. QED
            BY <4>1, <4>2, <5>2
        <4>5. QED
          BY <4>3, <4>4
      <3>9. due' # <<>> => Len(due') >= 1 /\ 1 \in 1..Len(due')
        BY <2>1
      <3>10. told' => due = <<>>
        BY <2>1
      <3>11. QED
        BY <2>1, <3>1, <3>2, <3>6, <3>7, <3>8, <3>9, <3>10
    <2>6. QED
      BY <2>4, <2>5
  <1>6. QED
    BY <1>1, <1>2, <1>3, <1>4, <1>5 DEF PenNext

LEMMA KamvasStep ==
  ASSUME PenTypes, HandInv, tablet = "Kamvas19", KamvasInv, PenNext
  PROVE  KamvasInv'
  <1> USE DEF KamvasInv, memoryVars, kamvasVars
  <1>1. ASSUME NEW e \in BOOLEAN, Enter(e) PROVE KamvasInv'
    <2>1. pen'.near /\ (pen'.button <=> pen.button) /\ (pen'.eraser <=> e)
      BY <1>1, HandMoves
    <2>2. /\ due' = (IF e THEN <<{}>> ELSE <<>>) /\ ~told' /\ ~pen.near /\ told
          /\ clean' <=> ~pen.button
          /\ UNCHANGED <<host, in_eraser_mode, prev_was_out_of_range>>
      BY <1>1 DEF Enter, Reported
    <2>3. Len(<<{}>>) = 1 /\ <<{}>>[1] = {} /\ <<{}>> # <<>>
      OBVIOUS
    <2>4. QED
      BY <2>1, <2>2, <2>3
  <1>2. CASE Leave
    <2>1. ~pen'.near
      BY <1>2, HandMoves
    <2>2. due' = <<>> /\ ~told'
      BY <1>2 DEF Leave, Reported
    <2>3. QED
      BY <2>1, <2>2
  <1>3. CASE TouchOrLift
    <2>1. /\ pen.near /\ pen'.near /\ (pen'.button <=> pen.button)
          /\ (pen'.eraser <=> pen.eraser)
      BY <1>3, HandMoves DEF TouchOrLift
    <2>2. ~told' /\ UNCHANGED <<due, clean, host, in_eraser_mode, prev_was_out_of_range>>
      BY <1>3 DEF TouchOrLift
    <2>3. QED
      BY <2>1, <2>2
  <1>4. CASE PressOrRelease
    <2>1. /\ pen' \in Pen /\ (pen'.near <=> pen.near) /\ (pen'.eraser <=> pen.eraser)
          /\ told /\ due = <<>> /\ (told' <=> ~pen.near)
          /\ ~pen.near => due' = <<>>
          /\ pen.near => due' \in FalseReports(pen')
          /\ UNCHANGED <<clean, host, in_eraser_mode, prev_was_out_of_range>>
      BY <1>4, DueOnPress
    <2>2. due' = <<>>
      BY <2>1, FalseReportsAs DEF PenTypes
    <2>3. QED
      BY <2>1, <2>2
  <1>5. CASE PenReport
    <2>1. PICK r \in SUBSET Switch :
           /\ Filter(r)
           /\ \/ /\ due # <<>> /\ r = due[1] /\ ~told'
                 /\ due' = <<>> <=> Len(due) = 1
              \/ due = <<>> /\ r = Shown(pen) /\ told' /\ due' = <<>>
           /\ UNCHANGED <<pen, clean>>
      BY <1>5, ReportIs
    <2>2. /\ in_eraser_mode' <=> EraserMode(r)
          /\ prev_was_out_of_range' <=>
               "InRange" \notin r \/ (prev_was_out_of_range /\ EraserMode(r))
          /\ host' = IF "InRange" \notin r \/ EraserMode(r) THEN r
                     ELSE (r \ {"Invert"}) \cup If("Invert" \in r, {"ThirdButton"})
      BY <2>1 DEF Filter, Kamvas19, WasOutOfRange
    <2>3. EraserMode(r) <=>
            /\ "InRange" \in r
            /\ \/ in_eraser_mode
               \/ prev_was_out_of_range /\ ("Invert" \in r \/ "Eraser" \in r)
      BY DEF EraserMode
    <2>4. due' = <<>>
      BY <2>1
    <2>5. CASE due # <<>>
      <3>1. pen.near /\ pen.eraser /\ r = {} /\ ~told'
        BY <2>1, <2>5 DEF HandInv
      <3>2. host' = {} /\ prev_was_out_of_range'
        BY <2>2, <3>1
      <3>3. QED
        BY <2>1, <2>4, <3>1, <3>2
    <2>6. CASE due = <<>>
      <3>1. /\ "InRange" \in r <=> pen.near
            /\ "Tip" \in r <=> pen.near /\ pen.touch /\ ~pen.eraser
            /\ "Eraser" \in r <=> pen.near /\ pen.touch /\ pen.eraser
            /\ "Invert" \in r <=> pen.near /\ (pen.eraser \/ pen.button)
            /\ "ThirdButton" \notin r
            /\ ~pen.near => r = {}
        BY <2>1, <2>6, ShownAs DEF PenTypes, Shown, If
      <3>2. CASE ~pen.near
        BY <2>1, <2>2, <2>3, <2>4, <3>1, <3>2
      <3>3. CASE pen.near /\ pen.eraser
        <4>1. EraserMode(r)
          BY <2>3, <2>6, <3>1, <3>3
        <4>2. host' = r
          BY <2>2, <4>1
        <4>3. QED
          BY <2>1, <2>2, <2>4, <3>1, <3>3, <4>1, <4>2
      <3>4. CASE pen.near /\ ~pen.eraser
        <4>1. "Invert" \notin host' \/ EraserMode(r)
          BY <2>2, <3>1, <3>4 DEF If
        <4>2. clean => ~EraserMode(r)
          BY <2>3, <3>1, <3>4
        <4>3. QED
          BY <2>1, <2>2, <2>4, <3>1, <3>4, <4>1, <4>2
      <3>5. QED
        BY <3>2, <3>3, <3>4
    <2>7. QED
      BY <2>5, <2>6
  <1>6. QED
    BY <1>1, <1>2, <1>3, <1>4, <1>5 DEF PenNext

LEMMA TipStep ==
  ASSUME PenTypes, HandInv, TipInv, TabletInv, PenNext
  PROVE  TipInv'
  <1> USE DEF memoryVars
  <1>1. tablet' = tablet
    BY DEF PenNext, Enter, Leave, TouchOrLift, PressOrRelease, PenReport
  <1>2. /\ "Tip" \in host => touched \/ (tablet = "Inspiroy" /\ since <= 3)
        /\ ~pen.near /\ told => "Tip" \notin host
    BY DEF TipInv
  <1>3. ASSUME NEW e \in BOOLEAN, Enter(e) PROVE TipInv'
    BY <1>2, <1>3 DEF TipInv, Enter, Reported
  <1>4. CASE Leave \/ TouchOrLift
    BY <1>1, <1>2, <1>4 DEF TipInv, Leave, TouchOrLift
  <1>5. CASE PressOrRelease
    BY <1>1, <1>2, <1>5, DueOnPress DEF TipInv
  <1>6. CASE PenReport
    <2>1. PICK r \in SUBSET Switch :
           /\ Filter(r)
           /\ \/ /\ due # <<>> /\ r = due[1] /\ ~told'
                 /\ Len(due) \in Nat /\ Len(due) >= 1
              \/ due = <<>> /\ r = Shown(pen) /\ told'
           /\ UNCHANGED <<pen, touched>>
           /\ since' = IF pen.near /\ since < 4 THEN since + 1 ELSE since
           /\ told' => due = <<>>
      BY <1>6, ReportIs
    <2>2. pen.touch => pen.near /\ touched
      BY DEF HandInv
    <2>3. told' => /\ "InRange" \in r <=> pen.near
                   /\ "Tip" \in r <=> pen.near /\ ((pen.touch /\ ~pen.eraser)
                                                  \/ (pen.button /\ tablet = "Waltop"))
                   /\ "Barrel" \in r <=> pen.near /\ pen.button /\ tablet = "Waltop"
      BY <2>1, ShownAs DEF PenTypes
    <2>4. CASE tablet = "Artist24"
      <3>1. IF Ignored24(r) THEN UNCHANGED host ELSE host' = r
        BY <2>1, <2>4 DEF Filter, Artist24
      <3>2. Artist24Inv
        BY <2>4 DEF TabletInv
      <3>3. "Tip" \in r => touched
        BY <2>1, <2>2, <2>3, <2>4, <3>2 DEF Artist24Inv, Untipped
      <3>4. ~pen.near /\ told' => ~Ignored24(r)
        BY <2>3, <3>2 DEF Artist24Inv, Ignored24
      <3>5. QED
        BY <1>2, <2>1, <2>3, <2>4, <3>1, <3>3, <3>4 DEF TipInv
    <2>5. CASE tablet = "Inspiroy"
      <3>1. host' = IF "InRange" \in r
                    THEN r \cup If(force_tip_down_count > 0 \/ Forces(r), {"Tip"}) ELSE r
        BY <2>1, <2>5 DEF Filter, Inspiroy
      <3>2. InspiroyInv /\ force_tip_down_count \in 0..4 /\ since \in 0..4
        BY <2>5 DEF TabletInv, PenTypes
      <3>3. ~touched => /\ ~Forces(r) /\ due = <<>>
                        /\ force_tip_down_count # 0 => force_tip_down_count + since <= 3
        BY <3>2 DEF InspiroyInv, Forces
      <3>4. ~touched => "Tip" \notin r
        BY <2>1, <2>2, <2>3, <2>5, <3>3
      <3>5. ~touched /\ "Tip" \in host' => force_tip_down_count # 0
        BY <3>1, <3>3, <3>4 DEF If
      <3>6. ~touched /\ "Tip" \in host' => since' <= 3
        BY <2>1, <3>2, <3>3, <3>5
      <3>7. ~pen.near /\ told' => "Tip" \notin host'
        BY <2>3, <3>1
      <3>8. QED
        BY <1>1, <2>1, <2>5, <3>6, <3>7 DEF TipInv
    <2>6. CASE tablet = "Kamvas19"
      <3>1. host' = IF "InRange" \notin r \/ EraserMode(r) THEN r
                    ELSE (r \ {"Invert"}) \cup If("Invert" \in r, {"ThirdButton"})
        BY <2>1, <2>6 DEF Filter, Kamvas19
      <3>2. "Tip" \in host' => "Tip" \in r
        BY <3>1 DEF If
      <3>3. "Tip" \in r => touched /\ pen.near
        BY <2>1, <2>2, <2>3, <2>6 DEF TabletInv, KamvasInv
      <3>4. QED
        BY <2>1, <3>2, <3>3 DEF TipInv
    <2>7. CASE tablet = "Waltop"
      <3>1. WaltopInv /\ due = <<>> /\ told'
        BY <2>1, <2>7 DEF TabletInv, WaltopInv
      <3>2. host' = IF {"Tip", "Barrel"} \subseteq r /\ host \cap {"Tip", "Barrel"} = {}
                    THEN (r \ {"Tip", "Barrel"}) \cup {"SecondaryBarrel"} ELSE r
        BY <2>1, <2>7, <3>1 DEF Filter, Waltop, WaltopInv
      <3>3. "Tip" \in r => ("Barrel" \in r \/ touched) /\ pen.near
        BY <2>2, <2>3, <3>1
      <3>4. "Tip" \in r /\ ~touched => {"Tip", "Barrel"} \subseteq r /\ host \cap {"Tip", "Barrel"} = {}
        BY <1>2, <2>7, <3>1, <3>3 DEF WaltopInv
      <3>5. "Tip" \in host' => "Tip" \in r /\ touched
        BY <3>2, <3>4
      <3>6. QED
        BY <2>1, <3>3, <3>5 DEF TipInv
    <2>8. QED
      BY <2>4, <2>5, <2>6, <2>7 DEF PenTypes, Tablet
  <1>7. QED
    BY <1>3, <1>4, <1>5, <1>6 DEF PenNext

LEMMA PenInvariance == Spec => []PenInv
  <1>1. Init => PenInv
    <2> SUFFICES ASSUME PenInit PROVE PenInv
      BY DEF Init
    <2>1. /\ pen = [near |-> FALSE, touch |-> FALSE, button |-> FALSE, eraser |-> FALSE]
          /\ pen \in Pen /\ ~pen.near /\ ~pen.touch /\ ~pen.button /\ ~pen.eraser
      BY DEF PenInit, Pen
    <2>2. /\ due = <<>> /\ due \in Seq(SUBSET Switch) /\ told = TRUE /\ since = 0
          /\ since \in 0..4
      BY EmptySeq DEF PenInit
    <2>3. /\ prev_state = {} /\ waltop_button_state = {} /\ host = {}
          /\ ~last_tip_state /\ force_tip_down_count = 0 /\ ~in_eraser_mode
          /\ ~down
      BY DEF PenInit
    <2>4. PenTypes
      <3>1. /\ told \in BOOLEAN /\ down \in BOOLEAN /\ touched \in BOOLEAN /\ clean \in BOOLEAN
            /\ last_tip_state \in BOOLEAN /\ last_sec_barrel_state \in BOOLEAN
            /\ prev_was_out_of_range \in BOOLEAN /\ in_eraser_mode \in BOOLEAN
        BY Zenon DEF PenInit
      <3>2. tablet \in Tablet
        BY DEF PenInit
      <3>3. QED
        BY <2>1, <2>2, <2>3, <3>1, <3>2 DEF PenTypes
    <2>5. HandInv /\ TipInv
      BY <2>1, <2>2, <2>3 DEF HandInv, TipInv
    <2>6. TabletInv
      BY <2>1, <2>2, <2>3 DEF TabletInv, Artist24Inv, InspiroyInv, KamvasInv, WaltopInv
    <2>7. QED
      BY <2>4, <2>5, <2>6 DEF PenInv
  <1>2. ASSUME PenInv, [Next]_vars
        PROVE  PenInv'
    <2>1. CASE UNCHANGED penVars
      BY <1>2, <2>1
      DEF PenInv, PenTypes, HandInv, TipInv, TabletInv, Artist24Inv, Untipped,
          Remembered, InspiroyInv, KamvasInv, WaltopInv, penVars, memoryVars, inspiroyVars,
          kamvasVars
    <2>2. CASE PenNext
      <3>1. tablet' = tablet
        BY <2>2 DEF PenNext, Enter, Leave, TouchOrLift, PressOrRelease, PenReport
      <3>2. TabletInv'
        BY <1>2, <2>2, <3>1, Artist24Step, InspiroyStep, KamvasStep, WaltopStep
        DEF PenInv, TabletInv
      <3>3. QED
        BY <1>2, <2>2, <3>2, PenTypesStep, HandStep, TipStep DEF PenInv
    <2>3. QED
      BY <1>2, <2>1, <2>2, NextPen
  <1>3. QED
    BY <1>1, <1>2, PTL DEF Spec

-----------------------------------------------------------------------------
(* Theorems                                                                *)

\* However a pen is moved, no tip that the program forces or a button is reported as
\* reaches the host of a pen that has not been in contact, but for the forced reports
\* left from before it went, three at most (force_tip_down_count in
\* inspiroy_2_fix_events, waltop_fix_events).
THEOREM NoPress == Spec => []NoFalsePress
  <1>1. PenInv => NoFalsePress
    BY DEF PenInv, TipInv, NoFalsePress
  <1>2. QED
    BY <1>1, PenInvariance, PTL

\* However often a hand and a report change it, the bit the third button and the
\* eraser share is taken for what it is (prev_was_out_of_range in
\* kamvas_pro_19_fix_3rd_button).
THEOREM ThirdOrEraser == Spec => []ButtonOrEraser
  <1>1. PenInv => ButtonOrEraser
    BY DEF PenInv, TabletInv, KamvasInv, ButtonOrEraser
  <1>2. QED
    BY <1>1, PenInvariance, PTL

\* As long as a tablet loses the tip for no more than the four reports the program
\* forces it in, a pen in contact stays so for the host (force_tip_down_count,
\* xppen_24_fix_eraser).
THEOREM NoRelease ==
  ASSUME MaxFalse <= 4
  PROVE  Spec => NoFalseRelease
  <1>1. ASSUME PenInv, [Next]_vars
        PROVE  [down /\ "Tip" \in host => "Tip" \in host']_penVars
    <2>1. SUFFICES ASSUME PenNext, down, "Tip" \in host PROVE "Tip" \in host'
      BY <1>1, NextPen
    <2>2. PenTypes /\ HandInv /\ TabletInv
      BY <1>1 DEF PenInv
    <2>3. pen.touch /\ pen.near
      BY <2>1, <2>2 DEF HandInv
    <2>4. CASE ~PenReport
      BY <2>1, <2>4 DEF PenNext, Enter, Leave, TouchOrLift, PressOrRelease
    <2>5. CASE PenReport
      <3>1. PICK r \in SUBSET Switch :
             /\ Filter(r)
             /\ \/ /\ due # <<>> /\ r = due[1]
                   /\ Len(due) \in Nat /\ Len(due) >= 1
                \/ due = <<>> /\ r = Shown(pen)
        BY <2>2, <2>5, ReportIs
      <3>2. due = <<>> => /\ "InRange" \in r
                          /\ "Tip" \in r <=> ~pen.eraser \/ (pen.button /\ tablet = "Waltop")
        BY <2>2, <2>3, <3>1, ShownAs DEF PenTypes
      <3>3. pen.eraser => tablet = "Kamvas19"
        BY <2>2 DEF HandInv
      <3>4. CASE tablet = "Artist24"
        <4>1. IF Ignored24(r) THEN UNCHANGED host ELSE host' = r
          BY <3>1, <3>4 DEF Filter, Artist24
        <4>2. Artist24Inv
          BY <2>2, <3>4 DEF TabletInv
        <4>3. due # <<>> => Ignored24(r)
          BY <2>1, <3>1, <4>2 DEF Artist24Inv, Ignored24, Changed, Untipped, Remembered
        <4>4. QED
          BY <2>1, <3>2, <3>3, <3>4, <4>1, <4>3
      <3>5. CASE tablet = "Inspiroy"
        <4>1. InspiroyInv
          BY <2>2, <3>5 DEF TabletInv
        <4>2. host' = IF "InRange" \in r
                      THEN r \cup If(force_tip_down_count > 0 \/ Forces(r), {"Tip"}) ELSE r
          BY <3>1, <3>5 DEF Filter, Inspiroy
        <4>3. due # <<>> => /\ "InRange" \in r
                            /\ force_tip_down_count > 0 \/ Forces(r)
          <5>1. SUFFICES ASSUME due # <<>>
                         PROVE  "InRange" \in r /\ (force_tip_down_count > 0 \/ Forces(r))
            OBVIOUS
          <5>2. "InRange" \in r /\ ("SecondaryBarrel" \in r <=> pen.button)
            BY <3>1, <4>1, <5>1 DEF InspiroyInv
          <5>3. CASE last_tip_state /\ (last_sec_barrel_state <=> ~pen.button)
            BY <2>2, <5>2, <5>3 DEF Forces, ButtonChanges, PenTypes
          <5>4. CASE Len(due) <= force_tip_down_count
            BY <2>2, <3>1, <5>1, <5>2, <5>4 DEF PenTypes
          <5>5. QED
            BY <4>1, <5>1, <5>3, <5>4 DEF InspiroyInv
        <4>4. QED
          BY <3>2, <3>3, <3>5, <4>2, <4>3 DEF If
      <3>6. CASE tablet = "Kamvas19"
        <4>1. KamvasInv
          BY <2>2, <3>6 DEF TabletInv
        <4>2. host' = IF "InRange" \notin r \/ EraserMode(r) THEN r
                      ELSE (r \ {"Invert"}) \cup If("Invert" \in r, {"ThirdButton"})
          BY <3>1, <3>6 DEF Filter, Kamvas19
        <4>3. ~pen.eraser /\ due = <<>>
          BY <2>1, <2>3, <4>1 DEF KamvasInv
        <4>4. QED
          BY <3>2, <4>2, <4>3
      <3>7. CASE tablet = "Waltop"
        <4>1. WaltopInv
          BY <2>2, <3>7 DEF TabletInv
        <4>2. "Tip" \in r
          BY <3>2, <3>3, <3>7, <4>1 DEF WaltopInv
        <4>3. QED
          BY <2>1, <3>1, <3>7, <4>1, <4>2 DEF Filter, Waltop, WaltopInv
      <3>8. QED
        BY <2>2, <3>4, <3>5, <3>6, <3>7 DEF PenTypes, Tablet
    <2>6. QED
      BY <2>4, <2>5
  <1>2. QED
    BY <1>1, PenInvariance, PTL DEF Spec, NoFalseRelease

-----------------------------------------------------------------------------
(* Types                                                                   *)

PadTypes == last_button_state \subseteq Button /\ pressed \subseteq Button

LEMMA PadTypesStep ==
  ASSUME PadTypes, PadInv, PadNext
  PROVE  PadTypes'
  <1>1. pad \in Pads /\ held \subseteq Button /\ last_button_state \subseteq Button
    BY DEF PadTypes, PadInv
  <1>2. ASSUME NEW s \in SUBSET Button, PassOn(s) PROVE PadTypes'
    BY <1>2 DEF PadTypes, PassOn
  <1>3. ASSUME NEW r \in SUBSET Button, ButtonReport(r) PROVE PadTypes'
    <2>1. PICK s \in SUBSET Button : PassOn(s)
      <3>1. pad = "Mask" \/ pad = "Kamvas" \/ pad = "Keydial"
        BY <1>1 DEF Pads
      <3>2. KamvasTakes(r) \in SUBSET Button /\ r \ {Center} \in SUBSET Button
        BY <1>1 DEF KamvasTakes
      <3>3. PassOn(r) \/ PassOn(KamvasTakes(r)) \/ PassOn(r \ {Center})
        BY <1>3, <3>1 DEF ButtonReport
      <3>4. QED
        BY <3>2, <3>3
    <2>2. QED
      BY <1>2, <2>1
  <1>4. ASSUME NEW b \in Button, Hold(b) PROVE PadTypes'
    <2>1. held' \in SUBSET Button
      BY <1>1, <1>4 DEF Hold
    <2>2. ASSUME NEW d, CenterReport(d) PROVE PadTypes'
      <3>1. (last_button_state \cup {Center}) \in SUBSET Button /\ (last_button_state \ {Center}) \in SUBSET Button
        BY <1>1 DEF Button
      <3>2. QED
        BY <1>2, <2>2, <3>1 DEF CenterReport
    <2>3. ASSUME NEW r \in Reports(held') PROVE r \in SUBSET Button
      BY <2>1, <2>3 DEF Reports
    <2>4. QED
      BY <1>3, <1>4, <2>2, <2>3 DEF Hold
  <1>5. CASE Imagined
    BY <1>3, <1>5 DEF Imagined
  <1>6. CASE Turn
    BY <1>1, <1>2, <1>6 DEF Turn, WheelReport
  <1>7. QED
    BY <1>4, <1>5, <1>6 DEF PadNext

PressureTypes ==
  /\ sensor \in {"Waltop", "ArtPen"} /\ tip \in BOOLEAN /\ again \in BOOLEAN
  /\ raw \in Nat /\ out \in Nat /\ prev_pressure \in Nat
  /\ odd \in BOOLEAN /\ whole \in BOOLEAN

LEMMA PressureTypesStep ==
  ASSUME PressureTypes, PressureNext
  PROVE  PressureTypes'
  <1> USE DEF PressureTypes
  <1>1. CASE WaltopReport
    <2>1. PICK v \in Int : v = raw' /\ 0 <= v /\ v <= 2047
      BY <1>1 DEF WaltopReport
    <2>2. Curve(v) \in Int /\ 0 <= Curve(v)
      BY <2>1, CurveRises
    <2>3. raw' \in Nat /\ out' \in Nat
      BY <1>1, <2>1, <2>2 DEF WaltopReport
    <2>4. QED
      BY <1>1, <2>3 DEF WaltopReport
  <1>2. CASE ArtPenUp
    BY <1>2 DEF ArtPenUp, PenUp
  <1>3. CASE ArtPenReport
    <2>1. raw' \in Nat
      BY <1>3, PressureAssumption DEF ArtPenReport
    <2>2. out' \in Nat /\ prev_pressure' = out'
      <3>1. out' = raw' \/ out' = (raw' + prev_pressure) \div 2
        BY <1>3 DEF ArtPenReport
      <3>2. \A m, n \in Nat : (m + n) \div 2 \in Nat
        OBVIOUS
      <3>3. prev_pressure' = out'
        BY <1>3 DEF ArtPenReport
      <3>4. QED
        BY <2>1, <3>1, <3>2, <3>3
    <2>3. again' \in BOOLEAN /\ odd' \in BOOLEAN
      BY <1>3, Zenon DEF ArtPenReport
    <2>4. QED
      BY <1>3, <2>1, <2>2, <2>3 DEF ArtPenReport
  <1>4. QED
    BY <1>1, <1>2, <1>3 DEF PressureNext

TiltTypes == beyond \in Int /\ cursor \in Int

LEMMA TiltTypesStep ==
  ASSUME TiltInv, TiltInv', TiltReport
  PROVE  TiltTypes'
  <1>1. /\ place' \in Int /\ tilt' \in Int /\ -127 <= tilt' /\ tilt' <= 127
        /\ cursor' \in Int
    <2>1. place' \in Places /\ tilt' \in -127..127 /\ cursor' \in 0..Maximum
      BY DEF TiltInv, TipIsSeen
    <2>2. place' \in Int
      BY <2>1, OffsetsAndPlaces
    <2>3. cursor' \in Int
      BY <2>1 DEF Maximum
    <2>4. QED
      BY ONLY <2>1, <2>2, <2>3
  <1>2. PICK e \in Int : beyond' = (Coil(place', tilt') + e) - Seen(Coil(place', tilt') + e)
    <2>1. PICK e \in -Error..Error :
            LET coil == Coil(place', tilt') + e
            IN  beyond' = coil - Seen(coil) /\ cursor' = Compensate(Seen(coil), tilt')
      BY DEF TiltReport
    <2>2. e \in Int
      BY TiltAssumption
    <2>3. QED
      BY <2>1, <2>2
  <1>3. Coil(place', tilt') \in Int
    <2>1. \A n \in 0..127 : Offsets[n] \in Int
      BY OffsetsAndPlaces
    <2>2. QED
      BY <1>1, <2>1 DEF Coil
  <1>4. \A c \in Int : Seen(c) \in Int
    BY DEF Seen, Maximum
  <1>5. QED
    BY <1>1, <1>2, <1>3, <1>4 DEF TiltTypes

\* Whatever the constants, every variable has its type; a forced count never runs
\* below zero, and the two-second timer of a dial only runs while its button is down.
THEOREM DeviceTypes == Spec => []TypeOK
  <1> DEFINE Types == PadTypes /\ PressureTypes /\ TiltTypes
  <1>1. Init => Types
    <2>1. PadInit => PadTypes
      BY DEF PadInit, PadTypes
    <2>2. PressureInit => PressureTypes
      <3> SUFFICES ASSUME PressureInit PROVE PressureTypes
        OBVIOUS
      <3>1. tip \in BOOLEAN /\ odd \in BOOLEAN /\ whole \in BOOLEAN
        BY Zenon DEF PressureInit
      <3>2. sensor = "Waltop" \/ sensor = "ArtPen"
        BY DEF PressureInit
      <3>3. again \in BOOLEAN
        BY <3>2 DEF PressureInit
      <3>4. raw \in Nat /\ out = raw /\ prev_pressure = 0
        BY <3>2, PressureAssumption DEF PressureInit
      <3>5. QED
        BY <3>1, <3>2, <3>3, <3>4 DEF PressureTypes
    <2>3. TiltInit => TiltTypes
      BY OffsetsAndPlaces DEF TiltInit, TiltTypes
    <2>4. QED
      BY <2>1, <2>2, <2>3 DEF Init
  <1>2. ASSUME Types, PadInv, TiltInv, TiltInv', [Next]_vars
        PROVE  Types'
    <2>1. PadTypes'
      BY <1>2, PartsAreApart, PadTypesStep DEF PadTypes, padVars
    <2>2. PressureTypes'
      BY <1>2, PartsAreApart, PressureTypesStep DEF PressureTypes, pressureVars
    <2>3. TiltTypes'
      BY <1>2, PartsAreApart, TiltTypesStep DEF TiltTypes, tiltVars
    <2>4. QED
      BY <2>1, <2>2, <2>3
  <1>3. PenTypes /\ PadInv /\ TiltInv /\ DialInv /\ Types => TypeOK
    BY DEF TypeOK, PenTypes, PadInv, PadTypes, PressureTypes, TiltInv, TiltTypes, DialInv, DialTypes, OnePress
  <1>4. PenInv => PenTypes
    BY DEF PenInv
  <1> HIDE DEF Types
  <1>5. QED
    BY <1>1, <1>2, <1>3, <1>4, PenInvariance, PadInvariance, TiltInvariance, DialInvariance, PTL DEF Spec

=============================================================================
