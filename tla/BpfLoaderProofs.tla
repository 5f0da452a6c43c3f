-------------------------- MODULE BpfLoaderProofs --------------------------
(***************************************************************************)
(* For any devices, objects, processes and command lines: the types of     *)
(* BpfLoader, and that load_programs reports success for complete objects. *)
(***************************************************************************)
EXTENDS BpfLoader, FiniteSetTheorems, SequenceTheorems, TLAPS

\* A process that works on a device or an object has one.
Assigned ==
  \A p \in Proc :
    /\ pc[p] \in Loading \cup {"load", "walk"} => dev[p] \in Device
    /\ pc[p] \in Loading => obj[p] \in Object

TypeInv == TypeOK /\ Assigned

LEMMA InitTypeInv == Init => TypeInv
  BY DeviceAssumption, ProcessAssumption, NoneAssumption
  DEF Init, TypeInv, TypeOK, Assigned, Command, Call, Path, Exited, Loading, Node, NodeSet,
      Uevent, NoList, ListSet

USE DEF Exited, Loading

LEMMA RulesType ==
  ASSUME NEW d \in Device
  PROVE  /\ AddRules(d) \in Seq(Uevent) /\ RemoveRules(d) \in Seq(Uevent)
         /\ IfBinds("bind") \in Seq(Uevent) /\ IfBinds("unbind") \in Seq(Uevent)
  <1>1. Installed[d] \in Seq(Object)
    BY DeviceAssumption
  <1>2. Installed[d] \in Seq(Uevent)
    <2>1. PICK n \in Nat : Installed[d] \in [1..n -> Object]
      BY <1>1
    <2>2. Installed[d] \in [1..n -> Uevent]
      BY <2>1 DEF Uevent
    <2>3. QED
      BY <2>2
  <1>3. <<"add">> \in Seq(Uevent) /\ <<"remove">> \in Seq(Uevent)
    BY DEF Uevent
  <1>4. AddRules(d) \in Seq(Uevent)
    BY <1>2, <1>3, ConcatProperties DEF AddRules
  <1>5. [i \in DOMAIN Installed[d] |-> "remove"] \in Seq(Uevent)
    <2>1. PICK n \in Nat : DOMAIN Installed[d] = 1..n
      BY <1>1
    <2>2. [i \in 1..n |-> "remove"] \in [1..n -> Uevent]
      BY DEF Uevent
    <2>3. QED
      BY <2>1, <2>2
  <1>6. RemoveRules(d) \in Seq(Uevent)
    BY <1>3, <1>5, ConcatProperties DEF RemoveRules
  <1>7. <<"bind">> \in Seq(Uevent) /\ <<"unbind">> \in Seq(Uevent)
    BY DEF Uevent
  <1>8. QED
    BY <1>4, <1>6, <1>7 DEF IfBinds

LEMMA KernelTypeInv ==
  ASSUME TypeInv, NEW d \in Device, Plug(d) \/ Trigger(d) \/ Unplug(d)
  PROVE  TypeInv'
  <1>1. here' \in [Device -> {"new", "here", "gone"}]
    BY DEF TypeInv, TypeOK, Plug, Trigger, Unplug
  <1>2. uevents' \in [Device -> Seq(Uevent)]
    <2>1. uevents \in [Device -> Seq(Uevent)]
      BY DEF TypeInv, TypeOK
    <2>2. /\ AddRules(d) \in Seq(Uevent) /\ RemoveRules(d) \in Seq(Uevent)
          /\ IfBinds("bind") \in Seq(Uevent) /\ IfBinds("unbind") \in Seq(Uevent)
      BY RulesType
    <2>3. PICK x \in {uevents[d] \o AddRules(d) \o IfBinds("bind"), uevents[d] \o AddRules(d),
                      uevents[d] \o IfBinds("unbind") \o RemoveRules(d)} :
            uevents' = [uevents EXCEPT ![d] = x]
      BY DEF Plug, Trigger, Unplug
    <2>4. uevents[d] \in Seq(Uevent)
      BY <2>1
    <2>5. /\ uevents[d] \o AddRules(d) \in Seq(Uevent)
          /\ uevents[d] \o IfBinds("unbind") \in Seq(Uevent)
      BY <2>2, <2>4, ConcatProperties
    <2>6. x \in Seq(Uevent)
      BY <2>2, <2>5, ConcatProperties
    <2>7. QED
      BY <2>1, <2>3, <2>6
  <1>3. adds' \in [Device -> 0..MaxAdds]
    BY ProcessAssumption DEF TypeInv, TypeOK, Plug, Trigger, Unplug
  <1>4. UNCHANGED <<udevVars, fsVars, pc, jobVars, loadVars, held, seen, loaded>>
    BY DEF Plug, Trigger, Unplug
  <1>5. QED
    BY <1>1, <1>2, <1>3, <1>4 DEF TypeInv, TypeOK, Assigned, udevVars, fsVars, jobVars, loadVars

LEMMA BeginTypeInv ==
  ASSUME TypeInv, NEW p \in Proc, NEW c \in Command, Begin(p, c),
         uevents' \in [Device -> Seq(Uevent)],
         udev' \in [Device -> SUBSET (Object \X Entry)]
  PROVE  TypeInv'
  <1>1. c.devs \in Seq(Path) /\ c.calls \in Seq(Call)
    BY DEF Command
  <1>2. QED
    BY <1>1 DEF TypeInv, TypeOK, Assigned, Begin, Goto, fsVars, jobVars, loadVars

LEMMA RemoverTypeInv ==
  ASSUME TypeInv, NEW p \in Proc, Remover(p)
  PROVE  TypeInv'
  <1> USE DEF TypeInv, TypeOK, Assigned, Goto, Exit, kernelVars, udevVars, fsVars, jobVars, loadVars
  <1>1. CASE RemoveNext(p)
    BY <1>1 DEF RemoveNext, HasSysname, Path
  <1>2. CASE RemoveBadPath(p)
    BY <1>2 DEF RemoveBadPath
  <1>3. CASE RemoveDone(p)
    <2>1. CASE Exit(p, "ok")
      BY <1>3, <2>1 DEF RemoveDone
    <2>2. CASE Goto(p, "check") /\ UNCHANGED <<calls, named, todo, dev, cand, held>>
      BY <1>3, <2>2 DEF RemoveDone
    <2>3. QED
      BY <1>3, <2>1, <2>2 DEF RemoveDone
  <1>4. CASE Unlink(p)
    BY <1>4 DEF Unlink, Under
  <1>5. CASE RmDir(p)
    BY <1>5 DEF RmDir
  <1>6. CASE EndRemove(p)
    BY <1>6 DEF EndRemove
  <1>7. QED
    BY <1>1, <1>2, <1>3, <1>4, <1>5, <1>6 DEF Remover

LEMMA NodeType ==
  ASSUME NEW d \in Device, NEW o \in Object, NEW e \in Entry, NEW p \in Proc
  PROVE  Node(d, o, e, p) \in NodeSet
  BY DEF Node, NodeSet

\* What a process that loads an object knows of it.
LEMMA LoadingTypes ==
  ASSUME TypeInv, NEW p \in Proc, pc[p] \in Loading
  PROVE  /\ dev[p] \in Device /\ obj[p] \in Object
         /\ Links[obj[p]] \subseteq Entry /\ Maps[obj[p]] \subseteq Entry
         /\ left[p] \subseteq Entry /\ done[p] \subseteq Entry
         /\ left[p] \cup done[p] \subseteq Links[obj[p]] \cup Maps[obj[p]]
  BY ObjectAssumption DEF TypeInv, TypeOK, Assigned

\* One more element, or a smaller set, at one argument of a set-valued function.
LEMMA AddElement ==
  ASSUME NEW S, NEW T, NEW f \in [S -> SUBSET T], NEW s, NEW x \in T
  PROVE  [f EXCEPT ![s] = @ \cup {x}] \in [S -> SUBSET T]
  OBVIOUS

LEMMA RemoveElement ==
  ASSUME NEW S, NEW T, NEW f \in [S -> SUBSET T], NEW s, NEW x
  PROVE  [f EXCEPT ![s] = @ \ {x}] \in [S -> SUBSET T]
  OBVIOUS

\* The end of load_programs, however it ends.
LEMMA ReportTypes ==
  ASSUME TypeInv, NEW p \in Proc, pc[p] \in Loading \cup {"load"},
         NEW o \in Object, NEW ok \in BOOLEAN, Report(p, o, ok)
  PROVE  /\ pc' \in [Proc -> Exited \cup Loading \cup {"remove", "walk", "check", "device", "load"}]
         /\ cand' \in [Proc -> SUBSET Object]
         /\ loaded' \in [Proc -> SUBSET (Device \X Object)]
         /\ \A q \in Proc : pc'[q] \in Loading => pc[q] \in Loading
         /\ \A q \in Proc : pc'[q] \in Loading \cup {"load", "walk"} =>
                            pc[q] \in Loading \cup {"load", "walk"}
         /\ UNCHANGED <<cmd, calls, named, todo, dev>>
  <1>1. dev[p] \in Device
    BY DEF TypeInv, Assigned
  <1>2. pc' = [pc EXCEPT ![p] = "load"] /\ UNCHANGED <<cmd, calls, named, todo, dev>>
    BY DEF Report, Goto
  <1>3. cand' \in [Proc -> SUBSET Object]
    BY DEF Report, Remaining, TypeInv, TypeOK
  <1>4. loaded \in [Proc -> SUBSET (Device \X Object)]
    BY DEF TypeInv, TypeOK
  <1>5. <<dev[p], o>> \in Device \X Object
    BY <1>1
  <1>6. [loaded EXCEPT ![p] = @ \cup {<<dev[p], o>>}] \in [Proc -> SUBSET (Device \X Object)]
    BY <1>4, <1>5, AddElement
  <1>7. /\ loaded' \in [Proc -> SUBSET (Device \X Object)]
    BY <1>4, <1>6 DEF Report
  <1>8. QED
    BY <1>2, <1>3, <1>7 DEF TypeInv, TypeOK

\* load_programs ends, and what it did to bpffs has the right type.
LEMMA ReportTypeInv ==
  ASSUME TypeInv, NEW p \in Proc, pc[p] \in Loading \cup {"load"},
         NEW o \in Object, NEW ok \in BOOLEAN, Report(p, o, ok),
         UNCHANGED <<kernelVars, udevVars, fsVars, loadVars, seen>>,
         held' \in [Proc -> SUBSET NodeSet]
  PROVE  TypeInv'
  <1>1. /\ pc' \in [Proc -> Exited \cup Loading \cup {"remove", "walk", "check", "device", "load"}]
        /\ cand' \in [Proc -> SUBSET Object]
        /\ loaded' \in [Proc -> SUBSET (Device \X Object)]
        /\ UNCHANGED <<cmd, calls, named, todo, dev>>
    BY ReportTypes
  <1>2. \A q \in Proc : pc'[q] \in Loading => pc[q] \in Loading
    BY ReportTypes
  <1>3. \A q \in Proc : pc'[q] \in Loading \cup {"load", "walk"} =>
                       pc[q] \in Loading \cup {"load", "walk"}
    BY ReportTypes
  <1>4. UNCHANGED <<here, uevents, adds, udev, list, pins, dirs, unlinked, obj, left, done, seen>>
    BY DEF kernelVars, udevVars, fsVars, loadVars
  <1>5. TypeOK'
    BY <1>1, <1>2, <1>4 DEF TypeInv, TypeOK
  <1>6. Assigned'
    BY <1>1, <1>2, <1>3, <1>4 DEF TypeInv, Assigned
  <1>7. QED
    BY <1>5, <1>6 DEF TypeInv

\* load_programs goes on with the object, and with A left and B pinned of it.
LEMMA LoadingTypeInv ==
  ASSUME TypeInv, NEW p \in Proc, pc[p] \in Loading,
         NEW l \in Loading, pc' = [pc EXCEPT ![p] = l],
         NEW A, NEW B, A \cup B \subseteq Links[obj[p]] \cup Maps[obj[p]],
         left' = [left EXCEPT ![p] = A], done' = [done EXCEPT ![p] = B],
         UNCHANGED <<kernelVars, udevVars, unlinked, obj, jobVars, loaded>>,
         pins' \subseteq NodeSet, dirs' \subseteq Device \X Object,
         held' \in [Proc -> SUBSET NodeSet], seen' \in [Proc -> SUBSET NodeSet]
  PROVE  TypeInv'
  <1>1. A \subseteq Entry /\ B \subseteq Entry
    BY LoadingTypes
  <1>2. left' \in [Proc -> SUBSET Entry] /\ done' \in [Proc -> SUBSET Entry]
    BY <1>1 DEF TypeInv, TypeOK
  <1>3. \A q \in Proc : pc'[q] \in Loading =>
          left'[q] \cup done'[q] \subseteq Links[obj'[q]] \cup Maps[obj'[q]]
    BY DEF TypeInv, TypeOK
  <1>4. pc' \in [Proc -> Exited \cup Loading \cup {"remove", "walk", "check", "device", "load"}]
    BY DEF TypeInv, TypeOK
  <1>5. Assigned'
    BY DEF TypeInv, TypeOK, Assigned, jobVars
  <1>6. QED
    BY <1>2, <1>3, <1>4, <1>5 DEF TypeInv, TypeOK, kernelVars, udevVars, jobVars

LEMMA AdderTypeInv ==
  ASSUME TypeInv, NEW p \in Proc, Adder(p)
  PROVE  TypeInv'
  <1> USE DEF TypeInv, TypeOK, Assigned, Goto, Exit, kernelVars, udevVars, fsVars, jobVars, loadVars
  <1>1. CASE CheckPaths(p)
    <2>1. calls[p] \in Seq(Call) /\ calls[p] # <<>>
      BY <1>1 DEF CheckPaths
    <2>2. Head(calls[p]) \in Call /\ Tail(calls[p]) \in Seq(Call)
      BY <2>1, HeadTailProperties
    <2>2a. Head(calls[p]).devs \in Seq(Path) /\ Head(calls[p]).objs \in SUBSET Object
      BY <2>2 DEF Call
    <2>3. ASSUME pc' = [pc EXCEPT ![p] = "device"],
                 calls' = [calls EXCEPT ![p] = Tail(@)],
                 named' = [named EXCEPT ![p] = Head(calls[p]).objs],
                 todo' = [todo EXCEPT ![p] = Head(calls[p]).devs],
                 UNCHANGED <<dev, cand, held>>
          PROVE  TypeInv'
      BY <1>1, <2>2, <2>2a, <2>3 DEF CheckPaths
    <2>4. CASE Exit(p, "err")
      BY <1>1, <2>4 DEF CheckPaths
    <2>5. QED
      BY <1>1, <2>3, <2>4 DEF CheckPaths
  <1>2. CASE NextDevice(p)
    BY <1>2, DeviceAssumption DEF NextDevice, Selected
  <1>3. CASE NoDevice(p)
    BY <1>3 DEF NoDevice
  <1>4. CASE AddDone(p)
    <2>1. udev' \in [Device -> SUBSET (Object \X Entry)]
      BY <1>4 DEF AddDone, PropertiesOf
    <2>2. QED
      BY <1>4, <2>1 DEF AddDone
  <1>5. CASE LoadAndProbe(p)
    <2>1. PICK o \in cand[p] :
            \/ /\ StartObject(p, o)
               /\ Goto(p, IF o \in Tracing THEN "attach" ELSE "mkdir")
               /\ UNCHANGED <<jobVars, loaded>>
            \/ Report(p, o, FALSE) /\ UNCHANGED loadVars
      BY <1>5 DEF LoadAndProbe
    <2>2. o \in Object /\ Links[o] \subseteq Entry /\ pc[p] = "load"
      BY <1>5, ObjectAssumption DEF LoadAndProbe
    <2>3. UNCHANGED <<kernelVars, udevVars, fsVars, held, seen>>
      BY <1>5 DEF LoadAndProbe
    <2>4. CASE StartObject(p, o) /\ UNCHANGED <<jobVars, loaded>>
               /\ Goto(p, IF o \in Tracing THEN "attach" ELSE "mkdir")
      BY <2>2, <2>3, <2>4 DEF StartObject
    <2>5. CASE Report(p, o, FALSE) /\ UNCHANGED loadVars
      BY <2>2, <2>3, <2>5, ReportTypes
    <2>6. QED
      BY <2>1, <2>4, <2>5
  <1>6. CASE DeviceDone(p)
    BY <1>6 DEF DeviceDone
  <1>7. CASE CallDone(p)
    BY <1>7 DEF CallDone
  <1>8. QED
    BY <1>1, <1>2, <1>3, <1>4, <1>5, <1>6, <1>7 DEF Adder

LEMMA LoaderTypeInv ==
  ASSUME TypeInv, NEW p \in Proc, Loader(p)
  PROVE  TypeInv'
  <1>0. /\ pins \subseteq NodeSet /\ dirs \subseteq Device \X Object
        /\ held \in [Proc -> SUBSET NodeSet] /\ seen \in [Proc -> SUBSET NodeSet]
        /\ left \in [Proc -> SUBSET Entry] /\ done \in [Proc -> SUBSET Entry]
    BY DEF TypeInv, TypeOK
  <1>a. left = [left EXCEPT ![p] = left[p]] /\ done = [done EXCEPT ![p] = done[p]]
    BY <1>0
  <1>b. pc[p] \in Loading
    BY DEF Loader, MkDir, Attach, PinLink, AttachDone, PinMap, PinMapsDone, EndClean
  <1>c. /\ dev[p] \in Device /\ obj[p] \in Object
        /\ left[p] \subseteq Entry /\ done[p] \subseteq Entry
        /\ left[p] \cup done[p] \subseteq Links[obj[p]] \cup Maps[obj[p]]
    BY <1>b, LoadingTypes
  <1>d. \A e \in left[p] : Node(dev[p], obj[p], e, p) \in NodeSet
    BY <1>c, NodeType
  <1>e. ASSUME NEW e \in left[p], Skip(p, e),
               UNCHANGED <<kernelVars, udevVars, fsVars, seen>>, held' \in [Proc -> SUBSET NodeSet]
        PROVE  TypeInv'
    <2>1. CASE Report(p, obj[p], FALSE) /\ UNCHANGED loadVars
      BY <1>b, <1>c, <1>e, <2>1, ReportTypeInv
    <2>2. ASSUME left' = [left EXCEPT ![p] = @ \ {e}], Goto(p, "attach"),
                 UNCHANGED <<obj, done, jobVars, loaded>>
          PROVE  TypeInv'
      <3>1. pc' = [pc EXCEPT ![p] = "attach"] /\ done' = [done EXCEPT ![p] = done[p]]
        BY <1>a, <2>2 DEF Goto
      <3>2. UNCHANGED <<kernelVars, udevVars, unlinked, obj, jobVars, loaded>>
        BY <1>e, <2>2 DEF fsVars
      <3>3. /\ pins' \subseteq NodeSet /\ dirs' \subseteq Device \X Object
            /\ seen' \in [Proc -> SUBSET NodeSet]
        BY <1>0, <1>e DEF fsVars
      <3>4. (left[p] \ {e}) \cup done[p] \subseteq Links[obj[p]] \cup Maps[obj[p]]
        BY <1>c
      <3>5. QED
        BY <1>b, <1>e, <2>2, <3>1, <3>2, <3>3, <3>4, LoadingTypeInv
    <2>3. QED
      BY <1>e, <2>1, <2>2 DEF Skip
  <1>1. CASE MkDir(p)
    <2>1. PICK l \in Loading : pc' = [pc EXCEPT ![p] = l]
      BY <1>1 DEF MkDir, Goto
    <2>2. dirs' \subseteq Device \X Object
      BY <1>0, <1>1, <1>c DEF MkDir
    <2>3. /\ UNCHANGED <<kernelVars, udevVars, unlinked, obj, jobVars, loaded>>
          /\ UNCHANGED <<pins, held, seen, left, done>>
      BY <1>1 DEF MkDir, loadVars
    <2>4. left' = [left EXCEPT ![p] = left[p]] /\ done' = [done EXCEPT ![p] = done[p]]
      BY <1>a, <2>3
    <2>5. /\ pins' \subseteq NodeSet
          /\ held' \in [Proc -> SUBSET NodeSet] /\ seen' \in [Proc -> SUBSET NodeSet]
      BY <1>0, <2>3
    <2>6. QED
      BY <1>b, <1>c, <2>1, <2>2, <2>3, <2>4, <2>5, LoadingTypeInv
  <1>2. CASE Attach(p)
    <2>1. UNCHANGED <<kernelVars, udevVars, fsVars, seen>>
      BY <1>2 DEF Attach
    <2>2. PICK e \in left[p] :
            \/ /\ held' = [held EXCEPT ![p] = @ \cup {Node(dev[p], obj[p], e, p)}]
               /\ Goto(p, IF obj[p] \in Tracing THEN "mkdir" ELSE "pin")
               /\ UNCHANGED <<jobVars, loadVars, loaded>>
            \/ Skip(p, e) /\ UNCHANGED held
      BY <1>2 DEF Attach
    <2>3. CASE Skip(p, e) /\ UNCHANGED held
      BY <1>0, <1>e, <2>1, <2>2, <2>3 DEF fsVars
    <2>4. ASSUME held' = [held EXCEPT ![p] = @ \cup {Node(dev[p], obj[p], e, p)}],
                 Goto(p, IF obj[p] \in Tracing THEN "mkdir" ELSE "pin"),
                 UNCHANGED <<jobVars, loadVars, loaded>>
          PROVE  TypeInv'
      <3>1. held' \in [Proc -> SUBSET NodeSet]
        BY <1>0, <1>d, <2>4, AddElement
      <3>2. PICK l \in Loading : pc' = [pc EXCEPT ![p] = l]
        BY <2>4 DEF Goto
      <3>3. /\ UNCHANGED <<kernelVars, udevVars, unlinked, obj, jobVars, loaded>>
            /\ UNCHANGED <<pins, dirs, seen, left, done>>
        BY <2>1, <2>4 DEF fsVars, loadVars
      <3>4. left' = [left EXCEPT ![p] = left[p]] /\ done' = [done EXCEPT ![p] = done[p]]
        BY <1>a, <3>3
      <3>5. /\ pins' \subseteq NodeSet /\ dirs' \subseteq Device \X Object
            /\ seen' \in [Proc -> SUBSET NodeSet]
        BY <1>0, <3>3
      <3>6. QED
        BY <1>b, <1>c, <3>1, <3>2, <3>3, <3>4, <3>5, LoadingTypeInv
    <2>5. QED
      BY <2>2, <2>3, <2>4
  <1>3. CASE PinLink(p)
    <2>1. UNCHANGED <<kernelVars, udevVars, dirs, unlinked, seen>>
      BY <1>3 DEF PinLink
    <2>2. PICK e \in left[p] : LET n == Node(dev[p], obj[p], e, p) IN
            \/ /\ pins' = pins \cup {n}
               /\ held' = [held EXCEPT ![p] = @ \ {n}]
               /\ left' = [left EXCEPT ![p] = @ \ {e}]
               /\ done' = [done EXCEPT ![p] = @ \cup {e}]
               /\ Goto(p, "attach")
               /\ UNCHANGED <<obj, jobVars, loaded>>
            \/ /\ Skip(p, e)
               /\ \/ held' = held
                  \/ held' = [held EXCEPT ![p] = @ \ {n}]
               /\ UNCHANGED pins
      BY <1>3 DEF PinLink
    <2> DEFINE n == Node(dev[p], obj[p], e, p)
    <2>3. n \in NodeSet /\ e \in Links[obj[p]] \cup Maps[obj[p]]
      BY <1>c, <1>d
    <2>4. [held EXCEPT ![p] = @ \ {n}] \in [Proc -> SUBSET NodeSet]
      BY <1>0, RemoveElement
    <2> HIDE DEF n
    <2>5. ASSUME pins' = pins \cup {n}, held' = [held EXCEPT ![p] = @ \ {n}],
                 left' = [left EXCEPT ![p] = @ \ {e}], done' = [done EXCEPT ![p] = @ \cup {e}],
                 Goto(p, "attach"), UNCHANGED <<obj, jobVars, loaded>>
          PROVE  TypeInv'
      <3>1. pc' = [pc EXCEPT ![p] = "attach"]
        BY <2>5 DEF Goto
      <3>2. UNCHANGED <<kernelVars, udevVars, unlinked, obj, jobVars, loaded>>
        BY <2>1, <2>5
      <3>3. /\ pins' \subseteq NodeSet /\ dirs' \subseteq Device \X Object
            /\ held' \in [Proc -> SUBSET NodeSet] /\ seen' \in [Proc -> SUBSET NodeSet]
        BY <1>0, <2>1, <2>3, <2>4, <2>5
      <3>4. (left[p] \ {e}) \cup (done[p] \cup {e}) \subseteq Links[obj[p]] \cup Maps[obj[p]]
        BY <1>c, <2>3
      <3>5. QED
        BY <1>b, <2>5, <3>1, <3>2, <3>3, <3>4, LoadingTypeInv
    <2>6. ASSUME Skip(p, e), held' = held \/ held' = [held EXCEPT ![p] = @ \ {n}], UNCHANGED pins
          PROVE  TypeInv'
      BY <1>0, <1>e, <2>1, <2>4, <2>6 DEF fsVars
    <2>7. QED
      BY <2>2, <2>5, <2>6 DEF n
  <1>4. CASE AttachDone(p)
    <2>1. UNCHANGED <<kernelVars, udevVars, fsVars, held, seen>>
      BY <1>4 DEF AttachDone
    <2>2. CASE Report(p, obj[p], FALSE) /\ UNCHANGED loadVars
      BY <1>0, <1>b, <1>c, <2>1, <2>2, ReportTypeInv
    <2>3. ASSUME left' = [left EXCEPT ![p] = Maps[obj[p]]], Goto(p, "maps"),
                 UNCHANGED <<obj, done, jobVars, loaded>>
          PROVE  TypeInv'
      <3>1. pc' = [pc EXCEPT ![p] = "maps"] /\ done' = [done EXCEPT ![p] = done[p]]
        BY <1>a, <2>3 DEF Goto
      <3>2. UNCHANGED <<kernelVars, udevVars, unlinked, obj, jobVars, loaded>>
        BY <2>1, <2>3 DEF fsVars
      <3>3. /\ pins' \subseteq NodeSet /\ dirs' \subseteq Device \X Object
            /\ held' \in [Proc -> SUBSET NodeSet] /\ seen' \in [Proc -> SUBSET NodeSet]
        BY <1>0, <2>1 DEF fsVars
      <3>4. Maps[obj[p]] \cup done[p] \subseteq Links[obj[p]] \cup Maps[obj[p]]
        BY <1>c
      <3>5. QED
        BY <1>b, <2>3, <3>1, <3>2, <3>3, <3>4, LoadingTypeInv
    <2>4. QED
      BY <1>4, <2>2, <2>3 DEF AttachDone
  <1>5. CASE PinMap(p)
    <2>1. UNCHANGED <<kernelVars, udevVars, dirs, unlinked, obj, jobVars, held, loaded>>
      BY <1>5 DEF PinMap
    <2>2. PICK e \in left[p] :
            \/ /\ pins' = pins \cup {Node(dev[p], obj[p], e, p)}
               /\ left' = [left EXCEPT ![p] = @ \ {e}]
               /\ done' = [done EXCEPT ![p] = @ \cup {e}]
               /\ UNCHANGED <<pc, seen>>
            \/ /\ Goto(p, "clean")
               /\ seen' = [seen EXCEPT ![p] = {n \in pins : n.dev = dev[p] /\ n.obj = obj[p]}]
               /\ UNCHANGED <<pins, left, done>>
      BY <1>5 DEF PinMap
    <2>3. Node(dev[p], obj[p], e, p) \in NodeSet /\ e \in Links[obj[p]] \cup Maps[obj[p]]
      BY <1>c, <1>d
    <2>4. ASSUME pins' = pins \cup {Node(dev[p], obj[p], e, p)},
                 left' = [left EXCEPT ![p] = @ \ {e}], done' = [done EXCEPT ![p] = @ \cup {e}],
                 UNCHANGED <<pc, seen>>
          PROVE  TypeInv'
      <3>1. pc' = [pc EXCEPT ![p] = pc[p]]
        BY <2>4 DEF TypeInv, TypeOK
      <3>2. /\ pins' \subseteq NodeSet /\ dirs' \subseteq Device \X Object
            /\ held' \in [Proc -> SUBSET NodeSet] /\ seen' \in [Proc -> SUBSET NodeSet]
        BY <1>0, <2>1, <2>3, <2>4
      <3>3. (left[p] \ {e}) \cup (done[p] \cup {e}) \subseteq Links[obj[p]] \cup Maps[obj[p]]
        BY <1>c, <2>3
      <3>4. QED
        BY <1>b, <2>1, <2>4, <3>1, <3>2, <3>3, LoadingTypeInv
    <2>5. ASSUME Goto(p, "clean"),
                 seen' = [seen EXCEPT ![p] = {n \in pins : n.dev = dev[p] /\ n.obj = obj[p]}],
                 UNCHANGED <<pins, left, done>>
          PROVE  TypeInv'
      <3>1. pc' = [pc EXCEPT ![p] = "clean"]
        BY <2>5 DEF Goto
      <3>2. left' = [left EXCEPT ![p] = left[p]] /\ done' = [done EXCEPT ![p] = done[p]]
        BY <1>a, <2>5
      <3>3. {n \in pins : n.dev = dev[p] /\ n.obj = obj[p]} \in SUBSET NodeSet
        BY <1>0
      <3>4. seen' \in [Proc -> SUBSET NodeSet]
        BY <1>0, <2>5, <3>3
      <3>5. /\ pins' \subseteq NodeSet /\ dirs' \subseteq Device \X Object
            /\ held' \in [Proc -> SUBSET NodeSet]
        BY <1>0, <2>1, <2>5
      <3>6. QED
        BY <1>b, <1>c, <2>1, <3>1, <3>2, <3>4, <3>5, LoadingTypeInv
    <2>6. QED
      BY <2>2, <2>4, <2>5
  <1>6. CASE PinMapsDone(p)
    BY <1>0, <1>6, <1>b, <1>c, ReportTypeInv DEF PinMapsDone
  <1>7. CASE EndClean(p)
    BY <1>0, <1>7, <1>b, <1>c, ReportTypeInv DEF EndClean
  <1>8. QED
    BY <1>1, <1>2, <1>3, <1>4, <1>5, <1>6, <1>7 DEF Loader

LEMMA ListerTypeInv ==
  ASSUME TypeInv, NEW d \in Device, Lister(d)
  PROVE  TypeInv'
  <1> USE DEF TypeInv, TypeOK, Assigned, kernelVars, fsVars, jobVars, loadVars
  <1>1. CASE ListStart(d)
    <2>1. Tail(uevents[d]) \in Seq(Uevent)
      BY <1>1 DEF ListStart
    <2>2. [on |-> TRUE, left |-> DirectoriesOf(d), got |-> {}] \in ListSet
      BY DEF ListSet, DirectoriesOf
    <2>3. QED
      BY <1>1, <2>1, <2>2 DEF ListStart
  <1>2. CASE ListObject(d)
    <2>1. list[d] \in ListSet
      OBVIOUS
    <2>2. ASSUME NEW o \in Object
          PROVE  PropertiesOf({<<o, n.ent>> : n \in {x \in pins : x.dev = d /\ x.obj = o}})
                   \subseteq Object \X Entry
      BY DEF PropertiesOf, NodeSet
    <2>3. PICK x \in ListSet : list' = [list EXCEPT ![d] = x]
      <3>1. PICK o \in list[d].left : list' = [list EXCEPT ![d] =
               IF <<d, o>> \in dirs
               THEN [on |-> TRUE, left |-> @.left \ {o},
                     got |-> @.got \cup PropertiesOf({<<o, n.ent>> : n \in
                                           {x \in pins : x.dev = d /\ x.obj = o}})]
               ELSE NoList]
        BY <1>2 DEF ListObject
      <3>2. o \in Object
        BY <2>1 DEF ListSet
      <3>3. [on |-> TRUE, left |-> list[d].left \ {o},
             got |-> list[d].got \cup PropertiesOf({<<o, n.ent>> : n \in
                                           {x \in pins : x.dev = d /\ x.obj = o}})] \in ListSet
        BY <2>1, <2>2, <3>2 DEF ListSet
      <3>4. NoList \in ListSet
        BY DEF NoList, ListSet
      <3>5. QED
        BY <3>1, <3>3, <3>4
    <2>4. list' \in [Device -> ListSet]
      BY <2>3
    <2>5. UNCHANGED <<kernelVars, udev, fsVars, pc, jobVars, loadVars, held, seen, loaded>>
      BY <1>2 DEF ListObject
    <2>6. QED
      BY <2>4, <2>5
  <1>3. CASE ListDone(d)
    <2>1. list[d].got \subseteq Object \X Entry /\ NoList \in ListSet
      BY DEF ListSet, NoList
    <2>2. QED
      BY <1>3, <2>1 DEF ListDone
  <1>4. QED
    BY <1>1, <1>2, <1>3 DEF Lister

\* What udevd starts is a command line of the program.
LEMMA UdevCommand ==
  ASSUME NEW d \in Device, NEW e \in Uevent
  PROVE  [op |-> IF e = "remove" THEN "remove" ELSE "add", replace |-> FALSE,
          devs |-> <<d>>,
          calls |-> IF e = "remove" THEN <<>>
                    ELSE <<[devs |-> <<d>>, objs |-> {e} \cap Object]>>] \in Command
  <1>1. <<d>> \in Seq(Path)
    BY DEF Path
  <1>2. [devs |-> <<d>>, objs |-> {e} \cap Object] \in Call
    BY <1>1 DEF Call
  <1>3. <<[devs |-> <<d>>, objs |-> {e} \cap Object]>> \in Seq(Call) /\ <<>> \in Seq(Call)
    BY <1>2
  <1>4. QED
    BY <1>1, <1>3 DEF Command

\* A finite set in some order is a sequence.
LEMMA OrdersType ==
  ASSUME NEW T, NEW S, S \subseteq T, IsFiniteSet(S), NEW s \in Orders(S)
  PROVE  s \in Seq(T) /\ DOMAIN s = 1..Cardinality(S) /\ Cardinality(S) \in Nat
  <1>1. Cardinality(S) \in Nat
    BY FS_CardinalityType
  <1>2. s \in [1..Cardinality(S) -> S]
    BY DEF Orders
  <1>3. s \in [1..Cardinality(S) -> T]
    BY <1>2
  <1>4. QED
    BY <1>1, <1>2, <1>3

\* What add - does is a command line with the devices it has found.
LEMMA MatchCommand ==
  ASSUME NEW p \in Proc, NEW m \in Matches, CliMatch(p, m)
  PROVE  (\E c \in Command : Begin(p, c)) /\ UNCHANGED <<uevents, udev>>
  <1> DEFINE Found(o) == {d \in Compatible[o] : Here(d)}
             pairs == {x \in Range(m.objs) \X Device : x[2] \in Found(x[1])}
             Line(ds, f) == [op |-> "add", replace |-> m.replace,
                             devs |-> [i \in DOMAIN ds |-> ds[i][2]],
                             calls |-> [i \in DOMAIN m.objs |->
                                          [devs |-> f[m.objs[i]], objs |-> {m.objs[i]}]]]
  <1>1. m.replace \in BOOLEAN /\ m.objs \in Seq(Object)
    BY ProcessAssumption
  <1>2. PICK n \in Nat : m.objs \in [1..n -> Object]
    BY <1>1
  <1>3. Range(m.objs) \subseteq Object
    BY <1>2 DEF Range
  <1>4. PICK ds \in Orders(pairs), f \in [Range(m.objs) -> UNION {Orders(Found(o)) : o \in Object}] :
          (\A o \in DOMAIN f : f[o] \in Orders(Found(o))) /\ Begin(p, Line(ds, f))
    BY DEF CliMatch
  <1>5. IsFiniteSet(Object \X Device)
    BY ObjectAssumption, DeviceAssumption, FS_Product
  <1>6. pairs \subseteq Object \X Device /\ IsFiniteSet(pairs)
    BY <1>3, <1>5, FS_Subset
  <1>7. ds \in Seq(Object \X Device)
    BY <1>6, OrdersType
  <1>8. [i \in DOMAIN ds |-> ds[i][2]] \in Seq(Path)
    <2>1. PICK k \in Nat : ds \in [1..k -> Object \X Device]
      BY <1>7
    <2>2. \A i \in 1..k : ds[i][2] \in Path
      BY <2>1 DEF Path
    <2>3. DOMAIN ds = 1..k
      BY <2>1
    <2>4. [i \in DOMAIN ds |-> ds[i][2]] \in [1..k -> Path]
      BY <2>2, <2>3
    <2>5. QED
      BY <2>4
  <1>9. ASSUME NEW i \in 1..n PROVE [devs |-> f[m.objs[i]], objs |-> {m.objs[i]}] \in Call
    <2>1. m.objs[i] \in Object /\ m.objs[i] \in Range(m.objs)
      BY <1>2 DEF Range
    <2>2. f[m.objs[i]] \in Orders(Found(m.objs[i]))
      BY <1>4, <2>1
    <2>3. Found(m.objs[i]) \subseteq Path /\ IsFiniteSet(Found(m.objs[i]))
      BY <2>1, DeviceAssumption, FS_Subset DEF Path
    <2>4. f[m.objs[i]] \in Seq(Path)
      BY <2>2, <2>3, OrdersType
    <2>5. QED
      BY <2>1, <2>4 DEF Call
  <1>10. [i \in DOMAIN m.objs |-> [devs |-> f[m.objs[i]], objs |-> {m.objs[i]}]] \in Seq(Call)
    <2>1. DOMAIN m.objs = 1..n
      BY <1>2
    <2>2. [i \in DOMAIN m.objs |-> [devs |-> f[m.objs[i]], objs |-> {m.objs[i]}]] \in [1..n -> Call]
      BY <1>9, <2>1
    <2>3. QED
      BY <2>2
  <1>11. Line(ds, f) \in Command
    BY <1>1, <1>8, <1>10 DEF Command
  <1>12. UNCHANGED <<uevents, udev>>
    BY DEF CliMatch
  <1>13. QED
    BY <1>4, <1>11, <1>12

\* Every step is one of these.
LEMMA NextCases ==
  ASSUME [Next]_vars
  PROVE  \/ \E d \in Device : Plug(d) \/ Trigger(d) \/ Unplug(d) \/ Lister(d)
         \/ \E p \in Proc, d \in Device : UdevStart(p, d)
         \/ \E p \in Proc, c \in Command : Begin(p, c) /\ UNCHANGED <<uevents, udev>>
         \/ \E p \in Proc : Remover(p) \/ Adder(p) \/ Loader(p) \/ Kill(p)
         \/ UNCHANGED vars
  <1>1. ASSUME NEW p \in Proc, NEW c \in Commands, CliStart(p, c)
        PROVE  c \in Command /\ Begin(p, c) /\ UNCHANGED <<uevents, udev>>
    BY <1>1, ProcessAssumption DEF CliStart
  <1>2. QED
    BY <1>1, MatchCommand DEF Next, Step

LEMMA NextTypeInv == TypeInv /\ [Next]_vars => TypeInv'
  <1> SUFFICES ASSUME TypeInv, [Next]_vars PROVE TypeInv'
    OBVIOUS
  <1>1. ASSUME NEW d \in Device, Plug(d) \/ Trigger(d) \/ Unplug(d) PROVE TypeInv'
    BY <1>1, KernelTypeInv
  <1>2. ASSUME NEW p \in Proc, NEW d \in Device, UdevStart(p, d) PROVE TypeInv'
    <2>1. uevents[d] \in Seq(Uevent) /\ uevents[d] # <<>>
      BY <1>2 DEF UdevStart, TypeInv, TypeOK
    <2>2. Head(uevents[d]) \in Uevent /\ Tail(uevents[d]) \in Seq(Uevent)
      BY <2>1
    <2>3. uevents' \in [Device -> Seq(Uevent)]
      BY <1>2, <2>2 DEF UdevStart, TypeInv, TypeOK
    <2>4. udev' \in [Device -> SUBSET (Object \X Entry)]
      BY <1>2 DEF UdevStart, TypeInv, TypeOK
    <2>5. PICK c \in Command : Begin(p, c)
      BY <1>2, <2>2, UdevCommand DEF UdevStart
    <2>6. QED
      BY <2>3, <2>4, <2>5, BeginTypeInv
  <1>3. ASSUME NEW p \in Proc, NEW c \in Command, Begin(p, c), UNCHANGED <<uevents, udev>>
        PROVE  TypeInv'
    <2>1. uevents' \in [Device -> Seq(Uevent)] /\ udev' \in [Device -> SUBSET (Object \X Entry)]
      BY <1>3 DEF TypeInv, TypeOK
    <2>2. QED
      BY <1>3, <2>1, BeginTypeInv
  <1>4. ASSUME NEW p \in Proc, Kill(p) PROVE TypeInv'
    BY <1>4 DEF Kill, Goto, TypeInv, TypeOK, Assigned,
                kernelVars, udevVars, fsVars, jobVars, loadVars
  <1>5. CASE UNCHANGED vars
    BY <1>5 DEF TypeInv, TypeOK, Assigned, vars,
                kernelVars, udevVars, fsVars, jobVars, loadVars
  <1>6. QED
    BY <1>1, <1>2, <1>3, <1>4, <1>5, NextCases, RemoverTypeInv, AdderTypeInv, LoaderTypeInv,
       ListerTypeInv

\* In every run every variable keeps its type, and the entries a process has
\* left or has pinned are entries of the object it is loading.
THEOREM Typing == Spec => []TypeOK
  <1>1. Spec => []TypeInv
    BY InitTypeInv, NextTypeInv, PTL DEF Spec
  <1>2. TypeInv => TypeOK
    BY DEF TypeInv
  <1>3. QED
    BY <1>1, <1>2, PTL

-----------------------------------------------------------------------------
(* What load_programs reports as loaded is complete.                       *)

\* How far process p is with the object it is loading: it has pinned all of
\* done, and once the programs are dealt with every entry the object needs is
\* in done or still in left.
ProgressOf(p) ==
  /\ pc[p] \in Loading => \A e \in done[p] : Pinned(dev[p], obj[p], e, p)
  /\ pc[p] \in {"mkdir", "attach", "pin"} =>
       /\ left[p] \cup done[p] \subseteq Links[obj[p]]
       /\ obj[p] \notin Tracing => Links[obj[p]] \subseteq left[p] \cup done[p]
  /\ pc[p] = "maps" =>
       /\ Maps[obj[p]] \subseteq left[p] \cup done[p]
       /\ obj[p] \notin Tracing => Links[obj[p]] \subseteq done[p]
       /\ obj[p] \in Tracing => Links[obj[p]] \cap done[p] # {}

Progress == \A p \in Proc : ProgressOf(p)

CompleteInv == TypeInv /\ LoadedIsComplete /\ Progress

\* In the next state, q still loads what it was loading, or loads nothing.
SameFor(q) ==
  pc'[q] \in Loading =>
    /\ pc'[q] = pc[q] /\ dev'[q] = dev[q] /\ obj'[q] = obj[q]
    /\ left'[q] = left[q] /\ done'[q] = done[q]

\* An unlinked entry is remembered.
PinnedGrows == pins \cup unlinked \subseteq pins' \cup unlinked'

LEMMA InitCompleteInv == Init => CompleteInv
  <1>1. Init => LoadedIsComplete /\ Progress
    BY DEF Init, LoadedIsComplete, Progress, ProgressOf
  <1>2. QED
    BY <1>1, InitTypeInv DEF CompleteInv

LEMMA SameProgress ==
  ASSUME NEW q \in Proc, ProgressOf(q), SameFor(q), PinnedGrows
  PROVE  ProgressOf(q)'
  <1>1. CASE pc'[q] \in Loading
    <2>1. /\ pc'[q] = pc[q] /\ dev'[q] = dev[q] /\ obj'[q] = obj[q]
          /\ left'[q] = left[q] /\ done'[q] = done[q]
      BY <1>1 DEF SameFor
    <2>2. \A e : Node(dev[q], obj[q], e, q) \in pins \cup unlinked =>
                 Node(dev[q], obj[q], e, q) \in pins' \cup unlinked'
      BY DEF PinnedGrows
    <2>3. QED
      BY <2>1, <2>2 DEF ProgressOf, Pinned
  <1>2. CASE pc'[q] \notin Loading
    BY <1>2 DEF ProgressOf
  <1>3. QED
    BY <1>1, <1>2

LEMMA SameLoaded ==
  ASSUME LoadedIsComplete, loaded' = loaded, PinnedGrows
  PROVE  LoadedIsComplete'
  BY DEF LoadedIsComplete, Pinned, PinnedGrows, Node

\* Only these steps bring a process further with an object.
Advance(p) == LoadAndProbe(p) \/ MkDir(p) \/ Attach(p) \/ PinLink(p) \/ AttachDone(p) \/ PinMap(p)

LEMMA NextPinnedGrows == [Next]_vars => PinnedGrows
  <1> SUFFICES ASSUME [Next]_vars PROVE PinnedGrows
    OBVIOUS
  <1> USE DEF PinnedGrows, fsVars
  <1>1. ASSUME NEW d \in Device, Plug(d) \/ Trigger(d) \/ Unplug(d) \/ Lister(d)
        PROVE  PinnedGrows
    BY <1>1 DEF Plug, Trigger, Unplug, Lister, ListStart, ListObject, ListDone
  <1>2. ASSUME NEW p \in Proc, NEW c, Begin(p, c) PROVE PinnedGrows
    BY <1>2 DEF Begin
  <1>3. ASSUME NEW p \in Proc, Remover(p) PROVE PinnedGrows
    BY <1>3 DEF Remover, RemoveNext, RemoveBadPath, RemoveDone, Unlink, RmDir, EndRemove
  <1>4. ASSUME NEW p \in Proc, Adder(p) PROVE PinnedGrows
    BY <1>4 DEF Adder, CheckPaths, NextDevice, NoDevice, AddDone, CallDone, LoadAndProbe, DeviceDone
  <1>5. ASSUME NEW p \in Proc, Loader(p) PROVE PinnedGrows
    BY <1>5 DEF Loader, MkDir, Attach, PinLink, AttachDone, PinMap, PinMapsDone, EndClean
  <1>6. ASSUME NEW p \in Proc, Kill(p) PROVE PinnedGrows
    BY <1>6 DEF Kill
  <1>7. CASE UNCHANGED vars
    BY <1>7 DEF vars
  <1>8. QED
    BY <1>1, <1>2, <1>3, <1>4, <1>5, <1>6, <1>7, NextCases DEF UdevStart

\* The variables SameFor speaks of are functions of the processes.
LEMMA LoadFunctions ==
  ASSUME TypeInv
  PROVE  /\ pc = [q \in Proc |-> pc[q]] /\ dev = [q \in Proc |-> dev[q]]
         /\ obj = [q \in Proc |-> obj[q]]
         /\ left = [q \in Proc |-> left[q]] /\ done = [q \in Proc |-> done[q]]
  BY DEF TypeInv, TypeOK

LEMMA OthersSame ==
  ASSUME TypeInv, NEW p \in Proc, Advance(p)
  PROVE  \A q \in Proc \ {p} : SameFor(q)
  <1> USE LoadFunctions DEF SameFor, Goto, Report, Skip, StartObject, jobVars, loadVars
  <1>1. CASE LoadAndProbe(p)
    BY <1>1 DEF LoadAndProbe
  <1>2. CASE MkDir(p)
    BY <1>2 DEF MkDir
  <1>3. CASE Attach(p)
    BY <1>3 DEF Attach
  <1>4. CASE PinLink(p)
    BY <1>4 DEF PinLink
  <1>5. CASE AttachDone(p)
    BY <1>5 DEF AttachDone
  <1>6. CASE PinMap(p)
    BY <1>6 DEF PinMap
  <1>7. QED
    BY <1>1, <1>2, <1>3, <1>4, <1>5, <1>6 DEF Advance

LEMMA QuietSame ==
  ASSUME TypeInv, [Next]_vars, \A p \in Proc : ~Advance(p)
  PROVE  \A q \in Proc : SameFor(q)
  <1> USE LoadFunctions DEF SameFor, Goto, Exit, Report, jobVars, loadVars
  <1>1. ASSUME NEW d \in Device, Plug(d) \/ Trigger(d) \/ Unplug(d) \/ Lister(d)
        PROVE  \A q \in Proc : SameFor(q)
    BY <1>1 DEF Plug, Trigger, Unplug, Lister, ListStart, ListObject, ListDone
  <1>2. ASSUME NEW p \in Proc, NEW c, Begin(p, c) PROVE \A q \in Proc : SameFor(q)
    BY <1>2 DEF Begin
  <1>3. ASSUME NEW p \in Proc, Remover(p) PROVE \A q \in Proc : SameFor(q)
    BY <1>3 DEF Remover, RemoveNext, RemoveBadPath, RemoveDone, Unlink, RmDir, EndRemove
  <1>4. ASSUME NEW p \in Proc, Adder(p) PROVE \A q \in Proc : SameFor(q)
    BY <1>4 DEF Adder, Advance, CheckPaths, NextDevice, NoDevice, AddDone, CallDone, DeviceDone
  <1>5. ASSUME NEW p \in Proc, Loader(p) PROVE \A q \in Proc : SameFor(q)
    BY <1>5 DEF Loader, Advance, PinMapsDone, EndClean
  <1>6. ASSUME NEW p \in Proc, Kill(p) PROVE \A q \in Proc : SameFor(q)
    BY <1>6 DEF Kill
  <1>7. CASE UNCHANGED vars
    BY <1>7 DEF vars
  <1>8. QED
    BY <1>1, <1>2, <1>3, <1>4, <1>5, <1>6, <1>7, NextCases DEF UdevStart

\* A process that gives up on its object, or is done with it, loads nothing.
LEMMA ReportProgress ==
  ASSUME TypeInv, NEW p \in Proc, NEW o, NEW ok, Report(p, o, ok)
  PROVE  ProgressOf(p)'
  BY LoadFunctions DEF Report, Goto, ProgressOf

\* A program of a tracing object that is skipped leaves the others as they were.
LEMMA SkipProgress ==
  ASSUME TypeInv, NEW p \in Proc, ProgressOf(p), pc[p] \in {"attach", "pin"},
         NEW e \in left[p], Skip(p, e), PinnedGrows
  PROVE  ProgressOf(p)'
  <1>1. CASE obj[p] \notin Tracing
    BY <1>1, ReportProgress DEF Skip
  <1>2. CASE obj[p] \in Tracing
    <2>1. /\ pc'[p] = "attach" /\ dev'[p] = dev[p] /\ obj'[p] = obj[p]
          /\ left'[p] \subseteq left[p] /\ done'[p] = done[p]
      BY <1>2, LoadFunctions DEF Skip, Goto, jobVars
    <2>2. QED
      BY <1>2, <2>1 DEF ProgressOf, Pinned, PinnedGrows
  <1>3. QED
    BY <1>1, <1>2

LEMMA AdvanceProgress ==
  ASSUME CompleteInv, NEW p \in Proc, Advance(p), PinnedGrows
  PROVE  ProgressOf(p)'
  <1>0. TypeInv /\ ProgressOf(p)
    BY DEF CompleteInv, Progress
  <1>1. CASE LoadAndProbe(p)
    <2>1. ASSUME NEW o, StartObject(p, o), Goto(p, IF o \in Tracing THEN "attach" ELSE "mkdir")
          PROVE  ProgressOf(p)'
      <3>1. pc'[p] \in {"attach", "mkdir"} /\ obj'[p] = o /\ left'[p] = Links[o] /\ done'[p] = {}
        BY <1>0, <2>1, LoadFunctions DEF StartObject, Goto
      <3>2. QED
        BY <3>1 DEF ProgressOf
    <2>2. QED
      BY <1>0, <1>1, <2>1, ReportProgress DEF LoadAndProbe
  <1>2. CASE MkDir(p)
    <2>1. /\ pc[p] = "mkdir" /\ pc'[p] \in {"attach", "pin"}
          /\ dev' = dev /\ obj' = obj /\ left' = left /\ done' = done
      BY <1>0, <1>2, LoadFunctions DEF MkDir, Goto, jobVars, loadVars
    <2>2. QED
      BY <1>0, <2>1 DEF ProgressOf, Pinned, PinnedGrows
  <1>3. CASE Attach(p)
    <2>1. PICK e \in left[p] :
            \/ /\ Goto(p, IF obj[p] \in Tracing THEN "mkdir" ELSE "pin")
               /\ UNCHANGED <<jobVars, loadVars, loaded>>
            \/ Skip(p, e)
      BY <1>3 DEF Attach
    <2>2. pc[p] = "attach"
      BY <1>3 DEF Attach
    <2>3. CASE Goto(p, IF obj[p] \in Tracing THEN "mkdir" ELSE "pin")
               /\ UNCHANGED <<jobVars, loadVars, loaded>>
      <3>1. /\ pc'[p] \in {"mkdir", "pin"}
            /\ dev' = dev /\ obj' = obj /\ left' = left /\ done' = done
        BY <1>0, <2>3, LoadFunctions DEF Goto, jobVars, loadVars
      <3>2. QED
        BY <1>0, <2>2, <3>1 DEF ProgressOf, Pinned, PinnedGrows
    <2>4. QED
      BY <1>0, <2>1, <2>2, <2>3, SkipProgress
  <1>4. CASE PinLink(p)
    <2>1. PICK e \in left[p] :
            \/ /\ pins' = pins \cup {Node(dev[p], obj[p], e, p)}
               /\ left' = [left EXCEPT ![p] = @ \ {e}]
               /\ done' = [done EXCEPT ![p] = @ \cup {e}]
               /\ Goto(p, "attach")
               /\ UNCHANGED <<obj, jobVars, loaded>>
            \/ Skip(p, e)
      BY <1>4 DEF PinLink
    <2>2. pc[p] = "pin"
      BY <1>4 DEF PinLink
    <2>3. ASSUME pins' = pins \cup {Node(dev[p], obj[p], e, p)},
                 left' = [left EXCEPT ![p] = @ \ {e}],
                 done' = [done EXCEPT ![p] = @ \cup {e}],
                 Goto(p, "attach"), UNCHANGED <<obj, jobVars, loaded>>
          PROVE  ProgressOf(p)'
      <3>1. /\ pc'[p] = "attach" /\ dev' = dev /\ obj' = obj
            /\ left'[p] = left[p] \ {e} /\ done'[p] = done[p] \cup {e}
        BY <1>0, <2>3, LoadFunctions DEF Goto, jobVars
      <3>2. \A x \in done'[p] : Node(dev[p], obj[p], x, p) \in pins' \cup unlinked'
        BY <1>0, <2>2, <2>3, <3>1 DEF ProgressOf, Pinned, PinnedGrows
      <3>3. QED
        BY <1>0, <2>2, <3>1, <3>2 DEF ProgressOf, Pinned
    <2>4. QED
      BY <1>0, <2>1, <2>2, <2>3, SkipProgress
  <1>5. CASE AttachDone(p)
    <2>1. pc[p] = "attach" /\ left[p] = {}
      BY <1>5 DEF AttachDone
    <2>2. ASSUME ~(obj[p] \in Tracing /\ done[p] = {}), left' = [left EXCEPT ![p] = Maps[obj[p]]],
                 Goto(p, "maps"), UNCHANGED <<obj, done, jobVars, loaded>>
          PROVE  ProgressOf(p)'
      <3>1. /\ pc'[p] = "maps" /\ dev' = dev /\ obj' = obj
            /\ left'[p] = Maps[obj[p]] /\ done' = done
        BY <1>0, <2>2, LoadFunctions DEF Goto, jobVars
      <3>2. QED
        BY <1>0, <2>1, <2>2, <3>1 DEF ProgressOf, Pinned, PinnedGrows
    <2>3. QED
      BY <1>0, <1>5, <2>2, ReportProgress DEF AttachDone
  <1>6. CASE PinMap(p)
    <2>1. PICK e \in left[p] :
            \/ /\ pins' = pins \cup {Node(dev[p], obj[p], e, p)}
               /\ left' = [left EXCEPT ![p] = @ \ {e}]
               /\ done' = [done EXCEPT ![p] = @ \cup {e}]
               /\ UNCHANGED pc
            \/ Goto(p, "clean") /\ UNCHANGED done
      BY <1>6 DEF PinMap
    <2>2. pc[p] = "maps" /\ dev' = dev /\ obj' = obj
      BY <1>6 DEF PinMap, jobVars
    <2>3. ASSUME pins' = pins \cup {Node(dev[p], obj[p], e, p)},
                 left' = [left EXCEPT ![p] = @ \ {e}],
                 done' = [done EXCEPT ![p] = @ \cup {e}], UNCHANGED pc
          PROVE  ProgressOf(p)'
      <3>1. left'[p] = left[p] \ {e} /\ done'[p] = done[p] \cup {e}
        BY <1>0, <2>3, LoadFunctions
      <3>2. \A x \in done'[p] : Node(dev[p], obj[p], x, p) \in pins' \cup unlinked'
        BY <1>0, <2>2, <2>3, <3>1 DEF ProgressOf, Pinned, PinnedGrows
      <3>3. QED
        BY <1>0, <2>2, <2>3, <3>1, <3>2 DEF ProgressOf, Pinned
    <2>4. CASE Goto(p, "clean") /\ UNCHANGED done
      <3>1. pc'[p] = "clean"
        BY <1>0, <2>4, LoadFunctions DEF Goto
      <3>2. QED
        BY <1>0, <2>2, <2>4, <3>1 DEF ProgressOf, Pinned, PinnedGrows
    <2>5. QED
      BY <2>1, <2>3, <2>4
  <1>7. QED
    BY <1>1, <1>2, <1>3, <1>4, <1>5, <1>6 DEF Advance

LEMMA NextProgress ==
  ASSUME CompleteInv, [Next]_vars
  PROVE  Progress'
  <1>1. TypeInv /\ PinnedGrows /\ \A q \in Proc : ProgressOf(q)
    BY NextPinnedGrows DEF CompleteInv, Progress
  <1>2. CASE \A p \in Proc : ~Advance(p)
    BY <1>1, <1>2, QuietSame, SameProgress DEF Progress
  <1>3. ASSUME NEW p \in Proc, Advance(p) PROVE Progress'
    <2>1. ASSUME NEW q \in Proc PROVE ProgressOf(q)'
      <3>1. CASE q = p
        BY <1>1, <1>3, <3>1, AdvanceProgress
      <3>2. CASE q # p
        BY <1>1, <1>3, <3>2, OthersSame, SameProgress
      <3>3. QED
        BY <3>1, <3>2
    <2>2. QED
      BY <2>1 DEF Progress
  <1>4. QED
    BY <1>2, <1>3

\* Nothing but the end of pin_maps adds to what is reported as loaded.
LEMMA LoadedSame ==
  ASSUME [Next]_vars, \A p \in Proc : ~PinMapsDone(p)
  PROVE  loaded' = loaded
  <1> USE DEF Report
  <1>1. ASSUME NEW d \in Device, Plug(d) \/ Trigger(d) \/ Unplug(d) \/ Lister(d)
        PROVE  loaded' = loaded
    BY <1>1 DEF Plug, Trigger, Unplug, Lister, ListStart, ListObject, ListDone
  <1>2. ASSUME NEW p \in Proc, NEW c, Begin(p, c) PROVE loaded' = loaded
    BY <1>2 DEF Begin
  <1>3. ASSUME NEW p \in Proc, Remover(p) PROVE loaded' = loaded
    BY <1>3 DEF Remover, RemoveNext, RemoveBadPath, RemoveDone, Unlink, RmDir, EndRemove
  <1>4. ASSUME NEW p \in Proc, Adder(p) PROVE loaded' = loaded
    BY <1>4 DEF Adder, CheckPaths, NextDevice, NoDevice, AddDone, CallDone, LoadAndProbe, DeviceDone
  <1>5. ASSUME NEW p \in Proc, Loader(p), ~PinMapsDone(p) PROVE loaded' = loaded
    BY <1>5 DEF Loader, MkDir, Attach, PinLink, Skip, AttachDone, PinMap, EndClean
  <1>6. ASSUME NEW p \in Proc, Kill(p) PROVE loaded' = loaded
    BY <1>6 DEF Kill
  <1>7. CASE UNCHANGED vars
    BY <1>7 DEF vars
  <1>8. QED
    BY <1>1, <1>2, <1>3, <1>4, <1>5, <1>6, <1>7, NextCases DEF UdevStart

LEMMA NextLoadedIsComplete ==
  ASSUME CompleteInv, [Next]_vars
  PROVE  LoadedIsComplete'
  <1>0. TypeInv /\ LoadedIsComplete /\ Progress /\ PinnedGrows
    BY NextPinnedGrows DEF CompleteInv
  <1>1. CASE \A p \in Proc : ~PinMapsDone(p)
    BY <1>0, <1>1, LoadedSame, SameLoaded
  <1>2. ASSUME NEW p \in Proc, PinMapsDone(p) PROVE LoadedIsComplete'
    <2>1. pins' = pins /\ unlinked' = unlinked
      BY <1>2 DEF PinMapsDone, fsVars
    <2>2. \/ loaded' = [loaded EXCEPT ![p] = @ \cup {<<dev[p], obj[p]>>}]
          \/ loaded' = loaded
      BY <1>2 DEF PinMapsDone, Report
    <2>3. \A q \in Proc : \A x \in loaded'[q] :
            x \in loaded[q] \/ (q = p /\ x = <<dev[p], obj[p]>>)
      BY <1>0, <2>2 DEF TypeInv, TypeOK
    <2>4. /\ \A e \in Maps[obj[p]] : Node(dev[p], obj[p], e, p) \in pins \cup unlinked
          /\ obj[p] \in Tracing =>
               \E e \in Links[obj[p]] : Node(dev[p], obj[p], e, p) \in pins \cup unlinked
          /\ obj[p] \notin Tracing =>
               \A e \in Links[obj[p]] : Node(dev[p], obj[p], e, p) \in pins \cup unlinked
      <3>1. pc[p] = "maps" /\ left[p] = {} /\ ProgressOf(p)
        BY <1>0, <1>2 DEF PinMapsDone, Progress
      <3>2. QED
        BY <3>1 DEF ProgressOf, Pinned
    <2>5. QED
      BY <1>0, <2>1, <2>3, <2>4 DEF LoadedIsComplete, Pinned
  <1>3. QED
    BY <1>1, <1>2

\* load_programs reports success only for an object whose maps, and whose
\* programs (for a tracing object, one of them at least), it has all pinned
\* itself, whatever other processes did to bpffs in the meantime.
THEOREM SuccessIsComplete == Spec => []LoadedIsComplete
  <1>1. CompleteInv /\ [Next]_vars => CompleteInv'
    BY NextTypeInv, NextLoadedIsComplete, NextProgress DEF CompleteInv
  <1>2. Spec => []CompleteInv
    BY <1>1, InitCompleteInv, PTL DEF Spec
  <1>3. CompleteInv => LoadedIsComplete
    BY DEF CompleteInv
  <1>4. QED
    BY <1>2, <1>3, PTL
=============================================================================
