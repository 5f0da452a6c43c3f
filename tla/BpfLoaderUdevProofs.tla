------------------------ MODULE BpfLoaderUdevProofs ------------------------
(***************************************************************************)
(* What BpfLoader guarantees when nothing else works on the same device at *)
(* the same time: because udevd is alone and waits for each program it has *)
(* started for a device, or because every command waits for the one before.*)
(***************************************************************************)
EXTENDS BpfLoaderStemProofs

\* Nobody types a command.
UdevAlone == Commands = {} /\ Matches = {}

USE DEF Exited, Loading

-----------------------------------------------------------------------------
(* Two processes never work on one device.                                 *)

\* p works on dev[p].
Works(p) == pc[p] \in Loading \cup {"load", "walk"}
Exclusive == \A p, q \in Proc : Works(p) /\ Works(q) /\ dev[p] = dev[q] => p = q

\* One command at a time.
OneCommand == \A p, q \in Proc : Running(p) /\ Running(q) => p = q

\* A process that udevd has started goes over its device once.
Place(p) ==
  /\ pc[p] # "idle" => p \in Udev /\ On(p) \in Device /\ cmd[p].devs = <<On(p)>>
  /\ pc[p] \in {"remove", "walk"} => cmd[p].op = "remove"
  /\ pc[p] \in {"check", "device", "load"} \cup Loading => cmd[p].op = "add"
  /\ pc[p] \in {"remove", "device"} => todo[p] \in {<<>>, <<On(p)>>}
  /\ pc[p] = "check" =>
       calls[p] = <<>> \/ \E S \in SUBSET Object : calls[p] = <<[devs |-> <<On(p)>>, objs |-> S]>>
  /\ pc[p] \in {"device", "load"} \cup Loading => calls[p] = <<>>
  /\ Works(p) => dev[p] = On(p) /\ todo[p] = <<>>

OneRunner == \A p, q \in Proc : Running(p) /\ Running(q) /\ On(p) = On(q) => p = q

AloneInv == TypeInv /\ OneRunner /\ \A p \in Proc : Place(p)

LEMMA InitAloneInv == Init => AloneInv
  BY InitTypeInv DEF Init, AloneInv, OneRunner, Running, Place, Works

LEMMA AloneExclusive == AloneInv => Exclusive
  BY DEF AloneInv, Exclusive, OneRunner, Running, Place, Works

LEMMA SamePlace ==
  ASSUME NEW q \in Proc, Place(q), Same(q)
  PROVE  Place(q)' /\ Running(q)' = Running(q) /\ On(q)' = On(q)
  BY DEF Place, Same, On, Works, Running

\* A step of a running process.
LEMMA StepAlone ==
  ASSUME AloneInv, TypeInv', NEW p \in Proc, \A q \in Proc \ {p} : Same(q),
         Running(p), cmd' = cmd, Place(p)'
  PROVE  AloneInv'
  <1>1. \A q \in Proc : Running(q)' => Running(q)
    BY SamePlace DEF AloneInv
  <1>2. \A q \in Proc : On(q)' = On(q)
    BY DEF On
  <1>3. QED
    BY <1>1, <1>2, SamePlace DEF AloneInv, OneRunner

LEMMA RemoverPlace ==
  ASSUME TypeInv, NEW p \in Proc, Place(p), Remover(p)
  PROVE  Place(p)' /\ cmd' = cmd /\ Running(p)
  <1> USE JobFunctions DEF Goto, Exit, jobVars, Running
  <1>1. CASE RemoveNext(p)
    <2>1. todo[p] = <<On(p)>>
      BY <1>1 DEF RemoveNext, Place
    <2>2. Head(todo[p]) = On(p) /\ Tail(todo[p]) = <<>>
      BY <2>1
    <2>3. /\ pc[p] = "remove" /\ pc'[p] = "walk" /\ dev'[p] = On(p) /\ todo'[p] = <<>>
          /\ cmd' = cmd
      BY <1>1, <2>2 DEF RemoveNext
    <2>4. QED
      BY <2>3 DEF Place, Works, On
  <1>2. CASE RemoveBadPath(p) \/ RemoveDone(p)
    <2>1. pc[p] = "remove" /\ pc'[p] \in {"err", "ok"} /\ cmd' = cmd
      BY <1>2 DEF RemoveBadPath, RemoveDone, Place
    <2>2. QED
      BY <2>1 DEF Place, Works, On
  <1>3. CASE Unlink(p) \/ RmDir(p)
    <2>1. pc[p] \in {"walk", "clean"} /\ UNCHANGED <<pc, jobVars>>
      BY <1>3 DEF Unlink, RmDir
    <2>2. QED
      BY <2>1 DEF Place, Works, On
  <1>4. CASE EndRemove(p)
    <2>1. pc[p] = "walk" /\ pc'[p] = "remove" /\ UNCHANGED <<jobVars>>
      BY <1>4 DEF EndRemove
    <2>2. QED
      BY <2>1 DEF Place, Works, On
  <1>5. QED
    BY <1>1, <1>2, <1>3, <1>4 DEF Remover

LEMMA ExitPlace ==
  ASSUME NEW p \in Proc, Place(p), pc[p] # "idle", pc'[p] \in {"ok", "err", "dead"}, cmd' = cmd
  PROVE  Place(p)'
  BY DEF Place, Works, On

\* A process goes on with its device.
LEMMA StayPlace ==
  ASSUME NEW p \in Proc, Place(p), pc[p] \in Loading \cup {"load"},
         pc'[p] \in Loading \cup {"load"}, UNCHANGED <<cmd, calls, todo, dev>>
  PROVE  Place(p)'
  BY DEF Place, Works, On

LEMMA AdderPlace ==
  ASSUME TypeInv, NEW p \in Proc, Place(p), Adder(p)
  PROVE  Place(p)' /\ cmd' = cmd /\ Running(p)
  <1>0. cmd' = cmd /\ Running(p) /\ pc[p] \in {"check", "device", "load"}
    BY DEF Running, Adder, CheckPaths, NextDevice, NoDevice, AddDone, CallDone, LoadAndProbe,
           DeviceDone, jobVars, Report
  <1> USE JobFunctions DEF Goto, Exit, jobVars
  <1>1. CASE CheckPaths(p)
    <2>1. PICK S \in SUBSET Object : calls[p] = <<[devs |-> <<On(p)>>, objs |-> S]>>
      BY <1>1 DEF CheckPaths, Place
    <2>2. Head(calls[p]).devs = <<On(p)>> /\ Tail(calls[p]) = <<>>
      BY <2>1
    <2>3. CASE pc'[p] = "device" /\ calls'[p] = Tail(calls[p]) /\ todo'[p] = Head(calls[p]).devs
      BY <1>0, <2>2, <2>3 DEF Place, Works, On
    <2>4. CASE pc'[p] = "err"
      BY <1>0, <2>4, ExitPlace
    <2>5. QED
      BY <1>0, <1>1, <2>3, <2>4 DEF CheckPaths
  <1>2. CASE NextDevice(p)
    <2>1. todo[p] = <<On(p)>> /\ calls[p] = <<>>
      BY <1>2 DEF NextDevice, Place
    <2>2. Head(todo[p]) = On(p) /\ Tail(todo[p]) = <<>>
      BY <2>1
    <2>3. pc'[p] = "load" /\ dev'[p] = On(p) /\ todo'[p] = <<>> /\ calls'[p] = <<>>
      BY <1>2, <2>1, <2>2 DEF NextDevice
    <2>4. QED
      BY <1>0, <2>3 DEF Place, Works, On
  <1>3. CASE NoDevice(p) \/ AddDone(p)
    BY <1>0, <1>3, ExitPlace DEF NoDevice, AddDone
  <1>4. CASE CallDone(p)
    <2>1. pc[p] = "device" /\ pc'[p] = "check" /\ UNCHANGED <<calls, todo>>
      BY <1>4 DEF CallDone
    <2>2. QED
      BY <1>0, <2>1 DEF Place, Works, On
  <1>5. CASE DeviceDone(p)
    <2>1. pc[p] = "load" /\ pc'[p] = "device" /\ UNCHANGED <<calls, todo>>
      BY <1>5 DEF DeviceDone
    <2>2. QED
      BY <1>0, <2>1 DEF Place, Works, On
  <1>6. CASE LoadAndProbe(p)
    <2>1. /\ pc[p] = "load" /\ pc'[p] \in {"attach", "mkdir", "load"}
          /\ UNCHANGED <<cmd, calls, todo, dev>>
      BY <1>6 DEF LoadAndProbe, Report
    <2>2. QED
      BY <1>0, <2>1, StayPlace
  <1>7. QED
    BY <1>0, <1>1, <1>2, <1>3, <1>4, <1>5, <1>6 DEF Adder

LEMMA LoaderPlace ==
  ASSUME TypeInv, NEW p \in Proc, Place(p), Loader(p)
  PROVE  Place(p)' /\ cmd' = cmd /\ Running(p)
  <1> USE JobFunctions DEF Goto, Report, Skip, jobVars
  <1>1. pc[p] \in Loading /\ Running(p)
    BY DEF Running, Loader, MkDir, Attach, PinLink, AttachDone, PinMap, PinMapsDone, EndClean
  <1>2. UNCHANGED <<cmd, calls, todo, dev>>
    BY DEF Loader, MkDir, Attach, PinLink, AttachDone, PinMap, PinMapsDone, EndClean
  <1>3. pc'[p] \in Loading \cup {"load"}
    <2>1. CASE MkDir(p) \/ AttachDone(p) \/ PinMapsDone(p) \/ EndClean(p)
      BY <2>1 DEF MkDir, AttachDone, PinMapsDone, EndClean
    <2>2. CASE Attach(p)
      BY <2>2 DEF Attach
    <2>3. CASE PinLink(p)
      BY <2>3 DEF PinLink
    <2>4. CASE PinMap(p)
      BY <2>4 DEF PinMap
    <2>5. QED
      BY <2>1, <2>2, <2>3, <2>4 DEF Loader
  <1>4. QED
    BY <1>1, <1>2, <1>3, StayPlace

\* No other step moves a running process.
LEMMA StepOthers ==
  ASSUME TypeInv, NEW p \in Proc, Step(p)
  PROVE  Running(p) /\ cmd' = cmd /\ \A q \in Proc \ {p} : Same(q)
  <1>1. \A q \in Proc \ {p} : Same(q)
    BY RemoverOthers, AdderOthers, LoaderOthers DEF Step
  <1>2. CASE Remover(p)
    BY <1>1, <1>2 DEF Remover, RemoveNext, RemoveBadPath, RemoveDone, Unlink, RmDir, EndRemove,
                      jobVars, Running
  <1>3. CASE Adder(p)
    BY <1>1, <1>3 DEF Adder, CheckPaths, NextDevice, NoDevice, AddDone, CallDone, LoadAndProbe,
                      DeviceDone, jobVars, Report, Running
  <1>4. CASE Loader(p)
    BY <1>1, <1>4 DEF Loader, MkDir, Attach, PinLink, AttachDone, PinMap, PinMapsDone, EndClean,
                      Skip, jobVars, Report, Running
  <1>5. QED
    BY <1>2, <1>3, <1>4 DEF Step

LEMMA BeginOthers ==
  ASSUME TypeInv, NEW p \in Proc, NEW c, Begin(p, c)
  PROVE  /\ \A q \in Proc \ {p} : Same(q)
         /\ pc[p] = "idle" /\ pc'[p] = IF RemovesFirst(c) THEN "remove" ELSE "check"
         /\ cmd'[p] = c /\ calls'[p] = c.calls /\ todo'[p] = c.devs
         /\ UNCHANGED <<dev, cand, obj, left, done, pins, dirs, unlinked, held, seen, loaded>>
  BY JobFunctions DEF Begin, Goto, Same, fsVars, loadVars

LEMMA KillOthers ==
  ASSUME TypeInv, NEW p \in Proc, Kill(p)
  PROVE  /\ \A q \in Proc \ {p} : Same(q)
         /\ Running(p) /\ pc'[p] = "dead"
         /\ UNCHANGED <<kernelVars, udevVars, fsVars, jobVars, loadVars, seen, loaded>>
  BY JobFunctions DEF Kill, Goto, Same, jobVars, loadVars

LEMMA OthersStay ==
  ASSUME NEW d \in Device, Plug(d) \/ Trigger(d) \/ Unplug(d) \/ Lister(d)
  PROVE  UNCHANGED <<fsVars, pc, jobVars, loadVars, held, seen, loaded>>
  BY DEF Plug, Trigger, Unplug, Lister, ListStart, ListObject, ListDone

LEMMA UdevAloneInv ==
  ASSUME AloneInv, TypeInv', NEW p \in Proc, NEW d \in Device, UdevStart(p, d)
  PROVE  AloneInv'
  <1> DEFINE e == Head(uevents[d])
             c == [op |-> IF e = "remove" THEN "remove" ELSE "add", replace |-> FALSE,
                   devs |-> <<d>>,
                   calls |-> IF e = "remove" THEN <<>>
                             ELSE <<[devs |-> <<d>>, objs |-> {e} \cap Object]>>]
  <1>0. TypeInv
    BY DEF AloneInv
  <1>1. Begin(p, c) /\ p \in Udev /\ ~Busy(d)
    BY DEF UdevStart
  <1>2. /\ \A q \in Proc \ {p} : Same(q)
        /\ cmd'[p] = c /\ pc'[p] = IF RemovesFirst(c) THEN "remove" ELSE "check"
        /\ calls'[p] = c.calls /\ todo'[p] = <<d>>
    <2>1. c.devs = <<d>>
      OBVIOUS
    <2> HIDE DEF c
    <2>2. QED
      BY <1>0, <1>1, <2>1, BeginOthers
  <1>3. On(p)' = d
    BY <1>2 DEF On
  <1>4. Place(p)'
    <2>1. CASE e = "remove"
      <3>1. /\ pc'[p] = "remove" /\ cmd'[p].op = "remove" /\ cmd'[p].devs = <<d>>
            /\ todo'[p] = <<d>>
        BY <1>2, <2>1 DEF RemovesFirst
      <3>2. QED
        BY <1>1, <1>3, <3>1 DEF Place, Works
    <2>2. CASE e # "remove"
      <3>1. /\ pc'[p] = "check" /\ cmd'[p].op = "add" /\ cmd'[p].devs = <<d>>
            /\ calls'[p] = <<[devs |-> <<d>>, objs |-> {e} \cap Object]>>
        BY <1>2, <2>2 DEF RemovesFirst
      <3>2. {e} \cap Object \in SUBSET Object
        OBVIOUS
      <3>3. QED
        BY <1>1, <1>3, <3>1, <3>2 DEF Place, Works
    <2>3. QED
      BY <2>1, <2>2
  <1>5. ASSUME NEW q \in Proc, q # p PROVE Place(q)' /\ Running(q)' = Running(q) /\ On(q)' = On(q)
    BY <1>2, <1>5, SamePlace DEF AloneInv
  <1>6. ASSUME NEW q \in Proc, q # p, Running(q), On(q) = d PROVE FALSE
    <2>1. q \in Udev /\ cmd[q].devs = <<d>>
      BY <1>6 DEF AloneInv, Place, Running
    <2>2. QED
      BY <1>1, <1>6, <2>1 DEF Busy
  <1>7. OneRunner'
    BY <1>3, <1>5, <1>6 DEF AloneInv, OneRunner
  <1>8. QED
    BY <1>4, <1>5, <1>7 DEF AloneInv

LEMMA NextAloneInv ==
  ASSUME UdevAlone, AloneInv, [Next]_vars
  PROVE  AloneInv'
  <1>0. TypeInv /\ TypeInv'
    BY NextTypeInv DEF AloneInv
  <1>1. ASSUME UNCHANGED <<pc, jobVars, loadVars>> PROVE AloneInv'
    BY <1>0, <1>1 DEF AloneInv, OneRunner, Place, Works, Running, On, jobVars
  <1>2. ASSUME NEW d \in Device, Plug(d) \/ Trigger(d) \/ Unplug(d) \/ Lister(d) PROVE AloneInv'
    BY <1>1, <1>2, OthersStay
  <1>3. ASSUME NEW p \in Proc, Step(p) PROVE AloneInv'
    <2>1. Place(p)' /\ Running(p) /\ cmd' = cmd
      BY <1>0, <1>3, RemoverPlace, AdderPlace, LoaderPlace DEF AloneInv, Step
    <2>2. QED
      BY <1>0, <1>3, <2>1, StepOthers, StepAlone
  <1>4. ASSUME NEW p \in Proc, Kill(p) PROVE AloneInv'
    <2>1. /\ \A q \in Proc \ {p} : Same(q)
          /\ Running(p) /\ pc'[p] = "dead" /\ cmd' = cmd
      BY <1>0, <1>4, KillOthers DEF jobVars
    <2>2. Place(p)'
      BY <2>1, ExitPlace DEF AloneInv, Running
    <2>3. QED
      BY <1>0, <2>1, <2>2, StepAlone
  <1>5. ASSUME NEW p \in Proc, NEW d \in Device, UdevStart(p, d) PROVE AloneInv'
    BY <1>0, <1>5, UdevAloneInv
  <1>6. CASE UNCHANGED vars
    BY <1>1, <1>6 DEF vars
  <1>7. QED
    BY <1>2, <1>3, <1>4, <1>5, <1>6 DEF Next, UdevAlone

\* When every command is waited for, only one of them runs.
LEMMA NextOneCommand ==
  ASSUME Serial, TypeInv, OneCommand, [Next]_vars
  PROVE  OneCommand'
  <1>1. ASSUME \A q \in Proc : Running(q)' => Running(q) PROVE OneCommand'
    BY <1>1 DEF OneCommand
  <1>2. ASSUME NEW d \in Device, Plug(d) \/ Trigger(d) \/ Unplug(d) \/ Lister(d) PROVE OneCommand'
    BY <1>1, <1>2, OthersStay DEF Running
  <1>3. ASSUME NEW p \in Proc, Step(p) PROVE OneCommand'
    BY <1>1, <1>3, StepOthers DEF Same, Running
  <1>4. ASSUME NEW p \in Proc, Kill(p) PROVE OneCommand'
    BY <1>1, <1>4, KillOthers DEF Same, Running
  <1>5. ASSUME NEW p \in Proc, NEW c, Begin(p, c) PROVE OneCommand'
    <2>1. \A q \in Proc \ {p} : Same(q) /\ ~Running(q)
      BY <1>5, BeginOthers DEF Begin
    <2>2. QED
      BY <2>1 DEF OneCommand, Same, Running
  <1>6. CASE UNCHANGED vars
    BY <1>1, <1>6 DEF vars, Running
  <1>7. QED
    BY <1>2, <1>3, <1>4, <1>5, <1>6, NextCases DEF UdevStart, Step

Alone == TypeInv /\ (Serial => OneCommand) /\ (UdevAlone => AloneInv)

LEMMA InitAlone == Init => Alone
  BY InitTypeInv, InitAloneInv DEF Init, Alone, OneCommand, Running

LEMMA NextAlone == Alone /\ [Next]_vars => Alone'
  BY NextTypeInv, NextOneCommand, NextAloneInv DEF Alone

LEMMA AloneIsExclusive ==
  ASSUME Serial \/ UdevAlone, Alone
  PROVE  Exclusive
  BY AloneExclusive DEF Alone, Exclusive, OneCommand, Works, Running

-----------------------------------------------------------------------------
(* A removal unlinks everything it has found.                              *)

PinsInDirs == \A n \in pins : <<n.dev, n.obj>> \in dirs

\* The walk of p has listed what is pinned on its device, and nothing else is.
WalkOf(p) == pc[p] = "walk" => seen[p] = {n \in pins : n.dev = dev[p]}

TreeInv == PinsInDirs /\ \A p \in Proc : WalkOf(p)

LEMMA InitTreeInv == Init => TreeInv
  BY DEF Init, TreeInv, PinsInDirs, WalkOf

LEMMA RemoverTreeInv ==
  ASSUME TypeInv, Exclusive, TreeInv, NEW p \in Proc, Remover(p)
  PROVE  TreeInv'
  <1>0. /\ \A q \in Proc \ {p} : Same(q)
        /\ seen = [q \in Proc |-> seen[q]]
    BY RemoverOthers DEF TypeInv, TypeOK
  <1> USE <1>0, JobFunctions DEF Goto, Exit, fsVars
  <1>1. CASE RemoveNext(p)
    <2>1. pins' = pins /\ dirs' = dirs /\ dev'[p] = Head(todo[p])
      BY <1>1 DEF RemoveNext
    <2>2. \A q \in Proc \ {p} : seen'[q] = seen[q]
      BY <1>1 DEF RemoveNext
    <2>3. seen'[p] = {n \in pins : n.dev = Head(todo[p])}
      BY <1>1 DEF RemoveNext
    <2>4. QED
      BY <2>1, <2>2, <2>3 DEF TreeInv, PinsInDirs, WalkOf, Same
  <1>2. CASE RemoveBadPath(p) \/ RemoveDone(p) \/ EndRemove(p)
    <2>1. pc'[p] # "walk" /\ UNCHANGED <<pins, dirs, seen>>
      BY <1>2 DEF RemoveBadPath, RemoveDone, EndRemove
    <2>2. QED
      BY <2>1 DEF TreeInv, PinsInDirs, WalkOf, Same
  <1>3. CASE RmDir(p)
    <2>1. /\ UNCHANGED <<pins, seen, pc, dev>>
          /\ \A x \in dirs \ dirs' : \A n \in pins : ~(n.dev = x[1] /\ n.obj = x[2])
      BY <1>3 DEF RmDir, jobVars
    <2>2. \A n \in pins : <<n.dev, n.obj>> \in dirs'
      <3>1. ASSUME NEW n \in pins, <<n.dev, n.obj>> \notin dirs' PROVE FALSE
        <4>1. <<n.dev, n.obj>> \in dirs
          BY DEF TreeInv, PinsInDirs
        <4>2. QED
          BY <2>1, <3>1, <4>1
      <3>2. QED
        BY <3>1
    <2>3. QED
      BY <2>1, <2>2 DEF TreeInv, PinsInDirs, WalkOf
  <1>4. CASE Unlink(p)
    <2>1. PICK n \in Under(p) : pins' = pins \ {n} /\ seen' = [seen EXCEPT ![p] = @ \ {n}]
      BY <1>4 DEF Unlink
    <2>2. /\ UNCHANGED <<dirs, pc, dev>> /\ pc[p] \in {"walk", "clean"} /\ n.dev = dev[p]
      BY <1>4 DEF Unlink, jobVars, Under
    <2>3. \A q \in Proc \ {p} : WalkOf(q)'
      <3>1. ASSUME NEW q \in Proc \ {p}, pc[q] = "walk" PROVE dev[q] # n.dev
        BY <2>2, <3>1 DEF Exclusive, Works
      <3>2. QED
        BY <2>1, <2>2, <3>1 DEF TreeInv, WalkOf
    <2>4. WalkOf(p)'
      BY <2>1, <2>2 DEF TreeInv, WalkOf
    <2>5. QED
      BY <2>1, <2>2, <2>3, <2>4 DEF TreeInv, PinsInDirs
  <1>5. QED
    BY <1>1, <1>2, <1>3, <1>4 DEF Remover

\* load_programs pins on its own device, in a directory that is there.
LEMMA LoaderPins ==
  ASSUME TypeInv, NEW p \in Proc, Loader(p)
  PROVE  /\ pc[p] \in Loading /\ pc'[p] \in Loading \cup {"load"}
         /\ dirs \subseteq dirs' /\ pins \subseteq pins' /\ unlinked' = unlinked
         /\ \A n \in pins' \ pins : n.dev = dev[p] /\ n.obj = obj[p] /\ n.by = p
                                    /\ <<n.dev, n.obj>> \in dirs
         /\ \A q \in Proc \ {p} : seen'[q] = seen[q]
  <1>0. seen = [q \in Proc |-> seen[q]]
    BY DEF TypeInv, TypeOK
  <1> USE JobFunctions DEF Goto, Report, Skip, fsVars
  <1>1. CASE MkDir(p) \/ AttachDone(p) \/ PinMapsDone(p) \/ EndClean(p)
    BY <1>1 DEF MkDir, AttachDone, PinMapsDone, EndClean
  <1>2. CASE Attach(p)
    BY <1>2 DEF Attach
  <1>3. CASE PinLink(p)
    <2>1. /\ pc[p] = "pin" /\ UNCHANGED <<dirs, unlinked, seen>>
          /\ pc'[p] \in {"attach", "load"}
      BY <1>3 DEF PinLink
    <2>2. \/ pins' = pins
          \/ \E e \in left[p] : /\ CanPin(dev[p], obj[p], e)
                               /\ pins' = pins \cup {Node(dev[p], obj[p], e, p)}
      BY <1>3 DEF PinLink
    <2>3. QED
      BY <2>1, <2>2 DEF CanPin, Node
  <1>4. CASE PinMap(p)
    BY <1>0, <1>4 DEF PinMap, CanPin, Node
  <1>5. QED
    BY <1>1, <1>2, <1>3, <1>4 DEF Loader

LEMMA NextTreeInv ==
  ASSUME TypeInv, Exclusive, TreeInv, [Next]_vars
  PROVE  TreeInv'
  <1>1. ASSUME UNCHANGED <<pins, dirs, pc, dev, seen>> PROVE TreeInv'
    BY <1>1 DEF TreeInv, PinsInDirs, WalkOf
  <1>2. ASSUME NEW d \in Device, Plug(d) \/ Trigger(d) \/ Unplug(d) \/ Lister(d) PROVE TreeInv'
    <2>1. UNCHANGED <<fsVars, pc, jobVars, seen>>
      BY <1>2, OthersStay
    <2>2. QED
      BY <1>1, <2>1 DEF fsVars, jobVars
  <1>3. ASSUME NEW p \in Proc, pc'[p] # "walk", \A q \in Proc \ {p} : Same(q),
               UNCHANGED <<pins, dirs, seen>>
        PROVE  TreeInv'
    BY <1>3 DEF TreeInv, PinsInDirs, WalkOf, Same
  <1>4. ASSUME NEW p \in Proc, Kill(p) PROVE TreeInv'
    BY <1>3, <1>4, KillOthers DEF fsVars
  <1>5. ASSUME NEW p \in Proc, NEW c, Begin(p, c) PROVE TreeInv'
    BY <1>3, <1>5, BeginOthers
  <1>6. ASSUME NEW p \in Proc, Adder(p) PROVE TreeInv'
    <2>1. UNCHANGED <<pins, dirs, seen>>
      BY <1>6
      DEF Adder, CheckPaths, NextDevice, NoDevice, AddDone, CallDone, LoadAndProbe, DeviceDone, fsVars
    <2>2. pc'[p] # "walk"
      <3> USE JobFunctions DEF Report, Goto, Exit
      <3>1. CASE CheckPaths(p) \/ NextDevice(p) \/ NoDevice(p) \/ AddDone(p)
        BY <3>1 DEF CheckPaths, NextDevice, NoDevice, AddDone
      <3>2. CASE CallDone(p) \/ DeviceDone(p)
        BY <3>2 DEF CallDone, DeviceDone
      <3>3. CASE LoadAndProbe(p)
        BY <3>3 DEF LoadAndProbe
      <3>4. QED
        BY <1>6, <3>1, <3>2, <3>3 DEF Adder
    <2>3. QED
      BY <1>3, <1>6, <2>1, <2>2, AdderOthers
  <1>7. ASSUME NEW p \in Proc, Loader(p) PROVE TreeInv'
    <2>1. /\ pc[p] \in Loading /\ pc'[p] \in Loading \cup {"load"}
          /\ dirs \subseteq dirs' /\ pins \subseteq pins'
          /\ \A n \in pins' \ pins : n.dev = dev[p] /\ <<n.dev, n.obj>> \in dirs
          /\ \A q \in Proc \ {p} : seen'[q] = seen[q] /\ Same(q)
      BY <1>7, LoaderPins, LoaderOthers
    <2>2. PinsInDirs'
      BY <2>1 DEF TreeInv, PinsInDirs
    <2>3. \A q \in Proc \ {p} : WalkOf(q)'
      <3>1. ASSUME NEW q \in Proc \ {p}, pc[q] = "walk" PROVE dev[q] # dev[p]
        BY <2>1, <3>1 DEF Exclusive, Works
      <3>2. ASSUME NEW q \in Proc \ {p}, pc[q] = "walk"
            PROVE  {n \in pins' : n.dev = dev[q]} = {n \in pins : n.dev = dev[q]}
        BY <2>1, <3>1, <3>2
      <3>3. QED
        BY <2>1, <3>2 DEF TreeInv, WalkOf, Same
    <2>4. QED
      BY <2>1, <2>2, <2>3 DEF TreeInv, WalkOf
  <1>8. CASE UNCHANGED vars
    BY <1>1, <1>8 DEF vars, fsVars, jobVars
  <1>9. QED
    BY <1>2, <1>4, <1>5, <1>6, <1>7, <1>8, NextCases, RemoverTreeInv DEF UdevStart

\* Only EndRemove goes from one path to the next.
LEMMA EndRemoveStep ==
  ASSUME TypeInv, [Next]_vars, NEW p \in Proc, pc[p] = "walk", pc'[p] = "remove"
  PROVE  EndRemove(p)
  <1>1. ASSUME NEW d \in Device, Plug(d) \/ Trigger(d) \/ Unplug(d) \/ Lister(d) PROVE FALSE
    BY <1>1, OthersStay
  <1>2. ASSUME NEW q \in Proc, NEW c, Begin(q, c) PROVE FALSE
    BY <1>2, BeginOthers DEF Same
  <1>3. ASSUME NEW q \in Proc, Kill(q) PROVE FALSE
    BY <1>3, KillOthers DEF Same
  <1>4. ASSUME NEW q \in Proc, Adder(q) PROVE FALSE
    <2>1. pc[q] # "walk"
      BY <1>4 DEF Adder, CheckPaths, NextDevice, NoDevice, AddDone, CallDone, LoadAndProbe, DeviceDone
    <2>2. QED
      BY <1>4, <2>1, AdderOthers DEF Same
  <1>5. ASSUME NEW q \in Proc, Loader(q) PROVE FALSE
    BY <1>5, LoaderPins, LoaderOthers DEF Same
  <1>6. ASSUME NEW q \in Proc, Remover(q) PROVE EndRemove(p)
    <2>1. q = p
      BY <1>6, RemoverOthers DEF Same
    <2>2. QED
      BY <1>6, <2>1 DEF Remover, RemoveNext, RemoveBadPath, RemoveDone, Unlink, RmDir
  <1>7. CASE UNCHANGED vars
    BY <1>7 DEF vars
  <1>8. QED
    BY <1>1, <1>2, <1>3, <1>4, <1>5, <1>6, <1>7, NextCases DEF UdevStart

\* A walk that ends has left nothing.
LEMMA EndRemoveEmpties ==
  ASSUME TypeInv, TreeInv, NEW p \in Proc, EndRemove(p)
  PROVE  \A n \in pins : n.dev # dev[p]
  <1>1. WalkOver(p) /\ pc[p] = "walk" /\ seen[p] = {n \in pins : n.dev = dev[p]}
    BY DEF EndRemove, TreeInv, WalkOf
  <1>2. CASE DirsUnder(p) = {}
    <2>1. ASSUME NEW n \in pins, n.dev = dev[p] PROVE FALSE
      <3>1. <<n.dev, n.obj>> \in dirs /\ n.obj \in Object
        BY DEF TreeInv, PinsInDirs, TypeInv, TypeOK, NodeSet
      <3>2. <<n.dev, n.obj>> \in DirsUnder(p)
        BY <1>1, <2>1, <3>1 DEF DirsUnder, Scope
      <3>3. QED
        BY <1>2, <3>2
    <2>2. QED
      BY <2>1
  <1>3. ASSUME NEW x \in DirsUnder(p), NEW n \in pins, n.dev = x[1] PROVE n \in seen[p]
    BY <1>1, <1>3 DEF DirsUnder
  <1>4. QED
    BY <1>1, <1>2, <1>3 DEF WalkOver

\* When udevd is alone, or every command is waited for, nothing comes in and nobody
\* else unlinks while a directory is removed: cmd_remove goes on only when everything
\* it had found is unlinked, although remove_dir_all drops its errors.
THEOREM RemovesAll ==
  ASSUME Serial \/ UdevAlone
  PROVE  Spec => RemoveIsThorough
  <1>1. ASSUME Alone, TreeInv, [Next]_vars
        PROVE  [\A p \in Proc : pc[p] = "walk" /\ pc'[p] = "remove" => seen[p] \cap pins = {}]_vars
    <2>1. ASSUME NEW p \in Proc, pc[p] = "walk", pc'[p] = "remove"
          PROVE  seen[p] \cap pins = {}
      <3>1. EndRemove(p) /\ seen[p] = {n \in pins : n.dev = dev[p]}
        BY <1>1, <2>1, EndRemoveStep DEF Alone, TreeInv, WalkOf
      <3>2. QED
        BY <1>1, <3>1, EndRemoveEmpties DEF Alone
    <2>2. QED
      BY <2>1
  <1>2. Alone /\ TreeInv /\ [Next]_vars => Alone' /\ TreeInv'
    BY NextAlone, NextTreeInv, AloneIsExclusive DEF Alone
  <1>3. Init => Alone /\ TreeInv
    BY InitAlone, InitTreeInv
  <1>4. QED
    BY <1>1, <1>2, <1>3, PTL DEF Spec, RemoveIsThorough

-----------------------------------------------------------------------------
(* What udevd knows of a device that it serves alone.                      *)

\* No process works for d.
Quiet(d) == \A p \in Proc : Running(p) => On(p) # d

PinsOn(d) == {n \in pins : n.dev = d}
PropertiesOn(S) == PropertiesOf({<<n.obj, n.ent>> : n \in S})

\* Either binding a driver is still to come, and with it list-loaded, or nothing
\* is: then list-loaded has got what it needs so far, or udevd knows it all.
Known(d) ==
  Binds /\ Here(d) =>
    \/ uevents[d] # <<>> /\ uevents[d][Len(uevents[d])] = "bind"
    \/ /\ uevents[d] = <<>> /\ Quiet(d)
       /\ list[d].on => /\ list[d].left \subseteq DirectoriesOf(d)
                        /\ list[d].got =
                             PropertiesOn({n \in PinsOn(d) : n.obj \notin list[d].left})
       /\ ~list[d].on => udev[d] = PropertiesOn(PinsOn(d))

\* A process has loaded nothing on any other device.
LoadedOn(p) ==
  /\ pc[p] = "idle" => loaded[p] = {}
  /\ \A x \in loaded[p] : x[1] = On(p)

KnownInv ==
  /\ AloneInv
  /\ TreeInv
  /\ \A p \in Proc : LoadedOn(p)
  /\ \A d \in Device : Known(d) /\ (here[d] # "new" => adds[d] >= MaxAdds)

LEMMA InitKnownInv == Init => KnownInv
  BY InitAloneInv, InitTreeInv DEF Init, KnownInv, LoadedOn, Known, Here

\* What a process changes belongs to its device.
LEMMA OwnDevice ==
  ASSUME AloneInv, NEW p \in Proc, LoadedOn(p), Step(p)
  PROVE  /\ Running(p) /\ UNCHANGED <<kernelVars, list>>
         /\ \A d \in Device \ {On(p)} : PinsOn(d)' = PinsOn(d)
         /\ \A d \in Device \ {On(p)} : DirectoriesOf(d)' = DirectoriesOf(d)
         /\ \A d \in Device \ {On(p)} : udev'[d] = udev[d]
         /\ \A q \in Proc \ {p} : loaded'[q] = loaded[q]
         /\ \A x \in loaded'[p] \ loaded[p] : x[1] = On(p)
  <1>0. TypeInv /\ Place(p) /\ Running(p)
    BY StepOthers DEF AloneInv
  <1>a. udev = [d \in Device |-> udev[d]] /\ loaded = [q \in Proc |-> loaded[q]]
    BY <1>0 DEF TypeInv, TypeOK
  <1>1. CASE Remover(p)
    <2>1. UNCHANGED <<kernelVars, udevVars, loaded>>
      BY <1>1 DEF Remover, RemoveNext, RemoveBadPath, RemoveDone, Unlink, RmDir, EndRemove
    <2>2. CASE RemoveNext(p) \/ RemoveBadPath(p) \/ RemoveDone(p) \/ EndRemove(p)
      <3>1. UNCHANGED <<pins, dirs>>
        BY <2>2 DEF RemoveNext, RemoveBadPath, RemoveDone, EndRemove, fsVars
      <3>2. QED
        BY <1>0, <2>1, <3>1 DEF udevVars, PinsOn, DirectoriesOf
    <2>3. CASE Unlink(p) \/ RmDir(p)
      <3>1. dev[p] = On(p)
        BY <1>0, <2>3 DEF Place, Works, Unlink, RmDir
      <3>2. \A d \in Device \ {On(p)} : PinsOn(d)' = PinsOn(d)
        BY <2>3, <3>1 DEF Unlink, RmDir, Under, PinsOn
      <3>3. \A d \in Device \ {On(p)} : \A o \in Object : <<d, o>> \in dirs' <=> <<d, o>> \in dirs
        BY <2>3, <3>1 DEF Unlink, RmDir, DirsUnder
      <3>4. QED
        BY <1>0, <2>1, <3>2, <3>3 DEF udevVars, DirectoriesOf
    <2>4. QED
      BY <1>1, <2>2, <2>3 DEF Remover
  <1>2. CASE Adder(p)
    <2>1. UNCHANGED <<kernelVars, list, pins, dirs>>
      BY <1>2 DEF Adder, CheckPaths, NextDevice, NoDevice, AddDone, CallDone, LoadAndProbe,
                  DeviceDone, udevVars, fsVars
    <2>2. loaded' = loaded
      BY <1>2 DEF Adder, CheckPaths, NextDevice, NoDevice, AddDone, CallDone, LoadAndProbe,
                  DeviceDone, Report
    <2>3. udev' = udev \/ AddDone(p)
      BY <1>2 DEF Adder, CheckPaths, NextDevice, NoDevice, CallDone, LoadAndProbe, DeviceDone, udevVars
    <2>4. ASSUME AddDone(p), NEW d \in Device \ {On(p)} PROVE udev'[d] = udev[d]
      <3>1. \A x \in loaded[p] : x[1] = On(p)
        BY DEF LoadedOn
      <3>2. PropertiesOf({x \in Object \X Entry :
                            <<d, x[1]>> \in loaded[p] /\ x[2] \in Maps[x[1]]}) = {}
        BY <3>1 DEF PropertiesOf
      <3>3. QED
        BY <2>4, <3>2 DEF AddDone
    <2>5. \A d \in Device : PinsOn(d)' = PinsOn(d) /\ DirectoriesOf(d)' = DirectoriesOf(d)
      BY <2>1 DEF PinsOn, DirectoriesOf
    <2>6. \A d \in Device \ {On(p)} : udev'[d] = udev[d]
      BY <2>3, <2>4
    <2>7. QED
      BY <1>0, <2>1, <2>2, <2>5, <2>6
  <1>3. CASE Loader(p)
    <2>1. dev[p] = On(p) /\ pc[p] \in Loading
      BY <1>0, <1>3, LoaderPins DEF Place, Works
    <2>2. UNCHANGED <<kernelVars, list, udev>>
      BY <1>3 DEF Loader, MkDir, Attach, PinLink, AttachDone, PinMap, PinMapsDone, EndClean, udevVars
    <2>3. \A d \in Device \ {On(p)} : PinsOn(d)' = PinsOn(d)
      <3>1. pins \subseteq pins' /\ \A n \in pins' \ pins : n.dev = On(p)
        BY <1>0, <1>3, <2>1, LoaderPins
      <3>2. QED
        BY <3>1 DEF PinsOn
    <2>4. dirs' = dirs \/ dirs' = dirs \cup {<<dev[p], obj[p]>>}
      BY <1>3 DEF Loader, MkDir, Attach, PinLink, AttachDone, PinMap, PinMapsDone, EndClean, fsVars
    <2>5. \A d \in Device \ {On(p)} : DirectoriesOf(d)' = DirectoriesOf(d)
      BY <2>1, <2>4 DEF DirectoriesOf
    <2>6. loaded' = loaded \/ \E o \in Object : loaded' = [loaded EXCEPT ![p] = @ \cup {<<dev[p], o>>}]
      <3> USE DEF Report, Skip
      <3>1. obj[p] \in Object
        BY <1>0, <2>1 DEF TypeInv, Assigned
      <3>2. CASE MkDir(p) \/ AttachDone(p) \/ PinMapsDone(p) \/ EndClean(p)
        BY <3>1, <3>2 DEF MkDir, AttachDone, PinMapsDone, EndClean
      <3>3. CASE Attach(p) \/ PinLink(p) \/ PinMap(p)
        BY <3>3 DEF Attach, PinLink, PinMap
      <3>4. QED
        BY <1>3, <3>2, <3>3 DEF Loader
    <2>7. QED
      BY <1>0, <1>a, <2>1, <2>2, <2>3, <2>5, <2>6
  <1>4. QED
    BY <1>1, <1>2, <1>3 DEF Step

\* Nothing happens to a device that is quiet.
LEMMA StayKnown ==
  ASSUME NEW d \in Device, Known(d),
         here'[d] = here[d], uevents'[d] = uevents[d], list'[d] = list[d],
         Quiet(d) => /\ Quiet(d)' /\ PinsOn(d)' = PinsOn(d)
                     /\ DirectoriesOf(d)' = DirectoriesOf(d) /\ udev'[d] = udev[d]
  PROVE  Known(d)'
  BY DEF Known, Here, PropertiesOn, PropertiesOf

\* Nobody returns to the state before the start.
LEMMA StepStarted ==
  ASSUME AloneInv, NEW p \in Proc, Step(p)
  PROVE  pc'[p] # "idle"
  <1>0. TypeInv
    BY DEF AloneInv
  <1>1. CASE Loader(p)
    BY <1>0, <1>1, LoaderPins
  <1> USE <1>0, JobFunctions DEF Goto, Exit, Report
  <1>2. CASE Remover(p)
    <2>1. CASE Unlink(p) \/ RmDir(p)
      BY <2>1 DEF Unlink, RmDir
    <2>2. CASE RemoveNext(p) \/ RemoveBadPath(p) \/ RemoveDone(p) \/ EndRemove(p)
      BY <2>2 DEF RemoveNext, RemoveBadPath, RemoveDone, EndRemove
    <2>3. QED
      BY <1>2, <2>1, <2>2 DEF Remover
  <1>3. CASE Adder(p)
    <2>1. CASE CheckPaths(p) \/ NextDevice(p) \/ NoDevice(p) \/ AddDone(p)
      BY <2>1 DEF CheckPaths, NextDevice, NoDevice, AddDone
    <2>2. CASE CallDone(p) \/ DeviceDone(p)
      BY <2>2 DEF CallDone, DeviceDone
    <2>3. CASE LoadAndProbe(p)
      BY <2>3 DEF LoadAndProbe
    <2>4. QED
      BY <1>3, <2>1, <2>2, <2>3 DEF Adder
  <1>4. QED
    BY <1>1, <1>2, <1>3 DEF Step

LEMMA StepKnownInv ==
  ASSUME KnownInv, AloneInv', TreeInv', NEW p \in Proc, Step(p)
  PROVE  KnownInv'
  <1>1. /\ Running(p) /\ cmd' = cmd /\ UNCHANGED <<here, uevents, adds, list>>
        /\ \A q \in Proc \ {p} : Same(q) /\ loaded'[q] = loaded[q]
        /\ \A x \in loaded'[p] \ loaded[p] : x[1] = On(p)
    BY StepOthers, OwnDevice DEF KnownInv, AloneInv, kernelVars
  <1>2. \A q \in Proc : On(q)' = On(q) /\ (Running(q)' => Running(q))
    BY <1>1 DEF On, Same, Running
  <1>3. \A q \in Proc : LoadedOn(q)'
    <2>1. LoadedOn(p)'
      BY <1>1, <1>2, StepStarted DEF KnownInv, LoadedOn
    <2>2. QED
      BY <1>1, <1>2, <2>1 DEF KnownInv, LoadedOn, Same
  <1>4. ASSUME NEW d \in Device PROVE Known(d)'
    <2>1. ASSUME Quiet(d)
          PROVE  /\ Quiet(d)' /\ PinsOn(d)' = PinsOn(d)
                 /\ DirectoriesOf(d)' = DirectoriesOf(d) /\ udev'[d] = udev[d]
      <3>1. d # On(p)
        BY <1>1, <2>1 DEF Quiet
      <3>2. QED
        BY <1>2, <2>1, <3>1, OwnDevice DEF KnownInv, Quiet
    <2>2. QED
      BY <1>1, <2>1, StayKnown DEF KnownInv
  <1>5. QED
    BY <1>1, <1>3, <1>4 DEF KnownInv

LEMMA UdevKnownInv ==
  ASSUME KnownInv, AloneInv', TreeInv', NEW p \in Proc, NEW d \in Device, UdevStart(p, d)
  PROVE  KnownInv'
  <1> DEFINE e == Head(uevents[d])
             c == [op |-> IF e = "remove" THEN "remove" ELSE "add", replace |-> FALSE,
                   devs |-> <<d>>,
                   calls |-> IF e = "remove" THEN <<>>
                             ELSE <<[devs |-> <<d>>, objs |-> {e} \cap Object]>>]
  <1>0. TypeInv /\ uevents \in [Device -> Seq(Uevent)] /\ udev = [x \in Device |-> udev[x]]
    BY DEF KnownInv, AloneInv, TypeInv, TypeOK
  <1>1. /\ Begin(p, c) /\ uevents[d] # <<>> /\ Head(uevents[d]) # "bind"
        /\ uevents' = [uevents EXCEPT ![d] = Tail(@)]
        /\ \A x \in Device \ {d} : udev'[x] = udev[x]
    BY <1>0 DEF UdevStart
  <1>2. /\ \A q \in Proc \ {p} : Same(q) /\ On(q)' = On(q) /\ Running(q)' = Running(q)
        /\ pc[p] = "idle" /\ pc'[p] \in {"remove", "check"}
        /\ UNCHANGED <<here, adds, list, pins, dirs, loaded>>
    <2>1. UNCHANGED <<here, adds, list>>
      BY <1>1 DEF Begin
    <2> HIDE DEF c
    <2>2. QED
      BY <1>0, <1>1, <2>1, BeginOthers DEF Same, On, Running
  <1>3. On(p)' = d
    <2>1. c.devs = <<d>>
      OBVIOUS
    <2> HIDE DEF c
    <2>2. QED
      BY <1>0, <1>1, <2>1, BeginOthers DEF On
  <1>4. \A q \in Proc : LoadedOn(q)'
    BY <1>2 DEF KnownInv, LoadedOn, Same
  <1>5. Known(d)'
    <2>1. ASSUME Binds, Here(d) PROVE uevents[d][Len(uevents[d])] = "bind"
      BY <1>1, <2>1 DEF KnownInv, Known
    <2>2. /\ uevents[d] \in Seq(Uevent)
          /\ Len(uevents'[d]) = Len(uevents[d]) - 1
          /\ \A i \in 1..Len(uevents'[d]) : uevents'[d][i] = uevents[d][i + 1]
          /\ Len(uevents[d]) \in Nat \ {0} /\ Head(uevents[d]) = uevents[d][1]
      BY <1>0, <1>1, HeadTailProperties, LenProperties
    <2>3. ASSUME Binds, Here(d)
          PROVE  uevents'[d] # <<>> /\ uevents'[d][Len(uevents'[d])] = "bind"
      <3>1. Len(uevents[d]) # 1
        BY <1>1, <2>1, <2>2, <2>3
      <3>2. Len(uevents'[d]) \in 1..Len(uevents'[d]) /\ uevents'[d] # <<>>
        <4>1. Len(uevents'[d]) \in Nat \ {0}
          BY <2>2, <3>1
        <4>2. QED
          BY <4>1, EmptySeq
      <3>3. uevents'[d][Len(uevents'[d])] = uevents[d][Len(uevents[d])]
        BY <2>2, <3>2
      <3>4. QED
        BY <2>1, <2>3, <3>2, <3>3
    <2>4. QED
      BY <1>2, <2>3 DEF Known, Here
  <1>6. ASSUME NEW x \in Device \ {d} PROVE Known(x)'
    <2>1. Quiet(x) => Quiet(x)'
      BY <1>2, <1>3 DEF Quiet
    <2>2. /\ here'[x] = here[x] /\ uevents'[x] = uevents[x] /\ list'[x] = list[x]
          /\ PinsOn(x)' = PinsOn(x) /\ DirectoriesOf(x)' = DirectoriesOf(x) /\ udev'[x] = udev[x]
      BY <1>0, <1>1, <1>2 DEF PinsOn, DirectoriesOf
    <2>3. QED
      BY <2>1, <2>2, StayKnown DEF KnownInv
  <1>7. QED
    BY <1>2, <1>4, <1>5, <1>6 DEF KnownInv

LEMMA ListerKnownInv ==
  ASSUME KnownInv, AloneInv', TreeInv', NEW d \in Device, Lister(d)
  PROVE  KnownInv'
  <1>0. /\ uevents \in [Device -> Seq(Uevent)]
        /\ list \in [Device -> ListSet] /\ udev = [x \in Device |-> udev[x]]
        /\ pins \subseteq NodeSet
    BY DEF KnownInv, AloneInv, TypeInv, TypeOK
  <1>1. UNCHANGED <<here, adds, pins, dirs, pc, cmd, loaded>>
    BY DEF Lister, ListStart, ListObject, ListDone, fsVars, jobVars, kernelVars
  <1>2. \A x \in Device \ {d} : uevents'[x] = uevents[x] /\ list'[x] = list[x] /\ udev'[x] = udev[x]
    BY <1>0 DEF Lister, ListStart, ListObject, ListDone, kernelVars
  <1>3. /\ \A q \in Proc : LoadedOn(q)'
        /\ \A x \in Device : here'[x] # "new" => adds'[x] >= MaxAdds
    BY <1>1 DEF KnownInv, LoadedOn, On
  <1>4. \A x \in Device : /\ Quiet(x)' = Quiet(x) /\ PinsOn(x)' = PinsOn(x)
                          /\ DirectoriesOf(x)' = DirectoriesOf(x)
    BY <1>1 DEF Quiet, PinsOn, DirectoriesOf, Running, On
  <1>5. \A x \in Device \ {d} : Known(x)'
    BY <1>1, <1>2, <1>4, StayKnown DEF KnownInv
  <1>6. Known(d)'
    <2>1. SUFFICES ASSUME Binds, Here(d) PROVE Known(d)'
      BY <1>1 DEF Known, Here
    <2>2. CASE ListStart(d)
      <3>1. /\ uevents[d] # <<>> /\ uevents'[d] = Tail(uevents[d])
            /\ list'[d] = [on |-> TRUE, left |-> DirectoriesOf(d), got |-> {}]
            /\ ~Busy(d)
        BY <1>0, <2>2 DEF ListStart
      <3>2. Quiet(d)
        BY <3>1 DEF KnownInv, AloneInv, Place, Busy, Quiet, Running
      <3>3. CASE uevents'[d] # <<>>
        <4>1. uevents[d][Len(uevents[d])] = "bind"
          BY <2>1, <3>1 DEF KnownInv, Known
        <4>2. /\ Len(uevents'[d]) = Len(uevents[d]) - 1
              /\ \A i \in 1..Len(uevents'[d]) : uevents'[d][i] = uevents[d][i + 1]
              /\ Len(uevents[d]) \in Nat \ {0} /\ uevents'[d] \in Seq(Uevent)
          BY <1>0, <3>1, HeadTailProperties, LenProperties
        <4>3. Len(uevents'[d]) \in 1..Len(uevents'[d])
          BY <3>3, <4>2, EmptySeq
        <4>4. uevents'[d][Len(uevents'[d])] = "bind"
          BY <4>1, <4>2, <4>3
        <4>5. QED
          BY <3>3, <4>4 DEF Known
      <3>4. CASE uevents'[d] = <<>>
        <4>1. {n \in PinsOn(d) : n.obj \notin DirectoriesOf(d)} = {}
          BY <1>0 DEF KnownInv, TreeInv, PinsInDirs, PinsOn, DirectoriesOf, NodeSet
        <4>2. PropertiesOn({}) = {}
          BY DEF PropertiesOn, PropertiesOf
        <4>3. {n \in PinsOn(d)' : n.obj \notin list'[d].left} = {}
          BY <1>4, <3>1, <4>1
        <4>4. list'[d].got = PropertiesOn({n \in PinsOn(d)' : n.obj \notin list'[d].left})
          <5> DEFINE S == {n \in PinsOn(d)' : n.obj \notin list'[d].left}
          <5>1. S = {} /\ list'[d].got = {}
            BY <3>1, <4>3
          <5> HIDE DEF S
          <5>2. list'[d].got = PropertiesOn(S)
            BY <4>2, <5>1
          <5>3. QED
            BY <5>2 DEF S
        <4>5. list'[d].on /\ list'[d].left \subseteq DirectoriesOf(d)'
          BY <1>4, <3>1
        <4>6. QED
          BY <1>4, <3>2, <3>4, <4>4, <4>5 DEF Known, PropertiesOn, PropertiesOf
      <3>5. QED
        BY <3>3, <3>4
    <2>3. CASE ListObject(d)
      <3>1. PICK o \in list[d].left :
              list'[d] = IF <<d, o>> \in dirs
                         THEN [on |-> TRUE, left |-> list[d].left \ {o},
                               got |-> list[d].got \cup PropertiesOf({<<o, n.ent>> : n \in
                                     {x \in pins : x.dev = d /\ x.obj = o}})]
                         ELSE NoList
        BY <1>0, <2>3 DEF ListObject
      <3>2. list[d].on /\ uevents'[d] = uevents[d]
        BY <2>3 DEF ListObject, kernelVars
      <3>3. CASE uevents[d] # <<>>
        BY <2>1, <3>2, <3>3 DEF KnownInv, Known
      <3>4. CASE uevents[d] = <<>>
        <4>1. /\ Quiet(d) /\ list[d].left \subseteq DirectoriesOf(d)
              /\ list[d].got = PropertiesOn({n \in PinsOn(d) : n.obj \notin list[d].left})
          BY <2>1, <3>2, <3>4 DEF KnownInv, Known
        <4>2. <<d, o>> \in dirs
          BY <4>1 DEF DirectoriesOf
        <4>3. /\ list'[d].on /\ list'[d].left = list[d].left \ {o}
              /\ list'[d].got = list[d].got \cup PropertiesOf({<<o, n.ent>> : n \in
                                     {x \in pins : x.dev = d /\ x.obj = o}})
          BY <3>1, <4>2
        <4>4. {n \in PinsOn(d) : n.obj \notin list[d].left \ {o}} =
                {n \in PinsOn(d) : n.obj \notin list[d].left} \cup {x \in pins : x.dev = d /\ x.obj = o}
          BY DEF PinsOn
        <4>5. {<<o, n.ent>> : n \in {x \in pins : x.dev = d /\ x.obj = o}} =
                {<<n.obj, n.ent>> : n \in {x \in pins : x.dev = d /\ x.obj = o}}
          OBVIOUS
        <4>6. \A S, T : PropertiesOn(S \cup T) = PropertiesOn(S) \cup PropertiesOn(T)
          BY DEF PropertiesOn, PropertiesOf
        <4>7. list'[d].got = PropertiesOn({n \in PinsOn(d) : n.obj \notin list'[d].left})
          <5> DEFINE S == {n \in PinsOn(d) : n.obj \notin list[d].left}
                     T == {x \in pins : x.dev = d /\ x.obj = o}
                     U == {n \in PinsOn(d) : n.obj \notin list'[d].left}
          <5>1. U = S \cup T
            BY <4>3, <4>4
          <5>2. list'[d].got = PropertiesOn(S) \cup PropertiesOn(T)
            BY <4>1, <4>3, <4>5 DEF PropertiesOn
          <5> HIDE DEF S, T, U
          <5>3. list'[d].got = PropertiesOn(U)
            BY <4>6, <5>1, <5>2
          <5>4. QED
            BY <5>3 DEF U
        <4>8. QED
          BY <1>4, <3>2, <3>4, <4>1, <4>3, <4>7 DEF Known, PropertiesOn, PropertiesOf
      <3>5. QED
        BY <3>3, <3>4
    <2>4. CASE ListDone(d)
      <3>1. /\ list[d].on /\ list[d].left = {} /\ ~list'[d].on
            /\ udev'[d] = list[d].got /\ uevents'[d] = uevents[d]
        BY <1>0, <2>4 DEF ListDone, NoList, kernelVars
      <3>2. CASE uevents[d] # <<>>
        BY <2>1, <3>1, <3>2 DEF KnownInv, Known
      <3>3. CASE uevents[d] = <<>>
        <4>1. /\ Quiet(d)
              /\ list[d].got = PropertiesOn({n \in PinsOn(d) : n.obj \notin list[d].left})
          BY <2>1, <3>1, <3>3 DEF KnownInv, Known
        <4>2. {n \in PinsOn(d) : n.obj \notin list[d].left} = PinsOn(d)
          BY <3>1
        <4>3. udev'[d] = PropertiesOn(PinsOn(d))
          BY <3>1, <4>1, <4>2
        <4>4. QED
          BY <1>4, <3>1, <3>3, <4>1, <4>3 DEF Known, PropertiesOn, PropertiesOf
      <3>4. QED
        BY <3>2, <3>3
    <2>5. QED
      BY <2>2, <2>3, <2>4 DEF Lister
  <1>7. QED
    BY <1>3, <1>5, <1>6 DEF KnownInv

LEMMA KernelKnownInv ==
  ASSUME MaxAdds <= 1, KnownInv, AloneInv', TreeInv',
         NEW d \in Device, Plug(d) \/ Trigger(d) \/ Unplug(d)
  PROVE  KnownInv'
  <1>0. /\ here = [x \in Device |-> here[x]] /\ uevents \in [Device -> Seq(Uevent)]
        /\ adds \in [Device -> 0..MaxAdds] /\ MaxAdds \in Nat
    BY ProcessAssumption DEF KnownInv, AloneInv, TypeInv, TypeOK
  <1>1. ~Trigger(d)
    <2>1. Here(d) => adds[d] >= MaxAdds
      BY DEF KnownInv, Here
    <2>2. adds[d] \in Nat
      BY <1>0
    <2>3. QED
      BY <1>0, <2>1, <2>2 DEF Trigger
  <1>2. UNCHANGED <<udev, list, pins, dirs, pc, cmd, loaded>>
    BY <1>1 DEF Plug, Unplug, udevVars, fsVars, jobVars
  <1>3. \A x \in Device \ {d} : here'[x] = here[x] /\ uevents'[x] = uevents[x] /\ adds'[x] = adds[x]
    BY <1>0, <1>1 DEF Plug, Unplug
  <1>4. \A q \in Proc : LoadedOn(q)'
    BY <1>2 DEF KnownInv, LoadedOn, On
  <1>5. \A x \in Device : /\ Quiet(x)' = Quiet(x) /\ PinsOn(x)' = PinsOn(x)
                          /\ DirectoriesOf(x)' = DirectoriesOf(x)
    BY <1>2 DEF Quiet, PinsOn, DirectoriesOf, Running, On
  <1>6. \A x \in Device \ {d} : Known(x)'
    BY <1>2, <1>3, <1>5, StayKnown DEF KnownInv
  <1>7. CASE Plug(d)
    <2>1. /\ adds'[d] = adds[d] + 1 /\ here'[d] = "here"
          /\ uevents'[d] = uevents[d] \o AddRules(d) \o IfBinds("bind")
      BY <1>0, <1>7 DEF Plug
    <2>2. adds'[d] >= MaxAdds
      BY <1>0, <2>1
    <2>3. ASSUME Binds PROVE uevents'[d] # <<>> /\ uevents'[d][Len(uevents'[d])] = "bind"
      <3>1. AddRules(d) \in Seq(Uevent) /\ <<"bind">> \in Seq(Uevent)
        BY <2>3, RulesType DEF IfBinds
      <3>2. PICK s \in Seq(Uevent) : s = uevents[d] \o AddRules(d)
        BY <1>0, <3>1, ConcatProperties
      <3>3. uevents'[d] = s \o <<"bind">>
        BY <2>1, <2>3, <3>2 DEF IfBinds
      <3>4. /\ Len(uevents'[d]) = Len(s) + 1 /\ Len(s) \in Nat
            /\ uevents'[d][Len(s) + 1] = "bind"
        BY <3>1, <3>2, <3>3
      <3>5. QED
        BY <3>4, EmptySeq
    <2>4. Known(d)'
      BY <2>3 DEF Known
    <2>5. QED
      BY <1>3, <1>4, <1>6, <2>2, <2>4 DEF KnownInv
  <1>8. CASE Unplug(d)
    <2>1. here'[d] = "gone" /\ adds'[d] = adds[d] /\ here[d] # "new"
      BY <1>0, <1>8 DEF Unplug, Here
    <2>2. Known(d)'
      BY <2>1 DEF Known, Here
    <2>3. QED
      BY <1>3, <1>4, <1>6, <2>1, <2>2 DEF KnownInv
  <1>9. QED
    BY <1>1, <1>7, <1>8

LEMMA NextKnownInv ==
  ASSUME UdevAlone, MaxAdds <= 1, KnownInv, [Next]_vars
  PROVE  KnownInv'
  <1>0. TypeInv /\ AloneInv' /\ TreeInv'
    BY NextAloneInv, NextTreeInv, AloneExclusive DEF KnownInv, AloneInv
  <1>1. ASSUME NEW d \in Device, Plug(d) \/ Trigger(d) \/ Unplug(d) \/ Lister(d) PROVE KnownInv'
    BY <1>0, <1>1, KernelKnownInv, ListerKnownInv
  <1>2. ASSUME NEW p \in Proc, NEW d \in Device, UdevStart(p, d) PROVE KnownInv'
    BY <1>0, <1>2, UdevKnownInv
  <1>3. ASSUME NEW p \in Proc, Step(p) PROVE KnownInv'
    BY <1>0, <1>3, StepKnownInv
  <1>4. ASSUME UNCHANGED <<kernelVars, udevVars, fsVars, jobVars, loaded>>,
               \A q \in Proc : (pc'[q] = "idle" <=> pc[q] = "idle") /\ (Running(q)' => Running(q))
        PROVE  KnownInv'
    <2>1. \A q \in Proc : LoadedOn(q)' /\ On(q)' = On(q)
      BY <1>4 DEF KnownInv, LoadedOn, On, jobVars
    <2>2. \A d \in Device : Known(d)'
      <3>1. \A d \in Device : PinsOn(d)' = PinsOn(d) /\ DirectoriesOf(d)' = DirectoriesOf(d)
        BY <1>4 DEF PinsOn, DirectoriesOf, fsVars
      <3>2. \A d \in Device : Quiet(d) => Quiet(d)'
        BY <1>4, <2>1 DEF Quiet
      <3>3. QED
        BY <1>4, <3>1, <3>2, StayKnown DEF KnownInv, kernelVars, udevVars
    <2>3. QED
      BY <1>0, <1>4, <2>1, <2>2 DEF KnownInv, kernelVars
  <1>5. ASSUME NEW p \in Proc, Kill(p) PROVE KnownInv'
    BY <1>0, <1>4, <1>5, KillOthers DEF Same, Running
  <1>6. CASE UNCHANGED vars
    BY <1>4, <1>6 DEF vars, Running
  <1>7. QED
    BY <1>1, <1>2, <1>3, <1>5, <1>6 DEF Next, UdevAlone

\* When udevd is alone and each device is added once, whatever files are installed
\* and wherever its workers are killed: once it has handled the uevents of a device
\* udevd knows the properties of the programs pinned there, and of no others.
THEOREM UdevKnows ==
  ASSUME UdevAlone, MaxAdds <= 1
  PROVE  Spec => []UdevKnowsProperties
  <1>1. KnownInv /\ [Next]_vars => KnownInv'
    BY NextKnownInv
  <1>2. KnownInv => UdevKnowsProperties
    <2>1. ASSUME KnownInv, NEW d \in Device, Settled(d)
          PROVE  udev[d] = PropertiesOf({<<n.obj, n.ent>> : n \in {x \in pins : x.dev = d}})
      <3>1. Binds /\ Here(d) /\ uevents[d] = <<>> /\ ~list[d].on
        BY <2>1 DEF Settled, Busy
      <3>2. udev[d] = PropertiesOn(PinsOn(d))
        BY <2>1, <3>1 DEF KnownInv, Known
      <3>3. QED
        BY <3>2 DEF PropertiesOn, PinsOn
    <2>2. QED
      BY <2>1 DEF UdevKnowsProperties
  <1>3. Spec => []KnownInv
    BY <1>1, InitKnownInv, PTL DEF Spec
  <1>4. QED
    BY <1>2, <1>3, PTL

-----------------------------------------------------------------------------
(* What add --replace leaves on its devices.                               *)

\* The devices of p on which others may still have something pinned: those it has
\* not removed yet.
ToRemove(p) ==
  {d \in Device : /\ pc[p] \in {"remove", "walk"}
                  /\ \/ \E i \in DOMAIN todo[p] : todo[p][i] = d
                     \/ pc[p] = "walk" /\ dev[p] = d}

OwnsOf(p) ==
  Running(p) /\ cmd[p].op = "add" /\ cmd[p].replace =>
    \A n \in pins : (\E i \in DOMAIN cmd[p].devs : cmd[p].devs[i] = n.dev) =>
      n.by = p \/ n.dev \in ToRemove(p)

OwnsInv == TypeInv /\ OneCommand /\ TreeInv /\ \A p \in Proc : OwnsOf(p)

LEMMA InitOwnsInv == Init => OwnsInv
  BY InitTypeInv, InitTreeInv DEF Init, OwnsInv, OneCommand, OwnsOf, Running

LEMMA SerialExclusive == OneCommand => Exclusive
  BY DEF OneCommand, Exclusive, Works, Running

LEMMA RemoverOwns ==
  ASSUME OwnsInv, NEW p \in Proc, Remover(p)
  PROVE  OwnsOf(p)'
  <1>0. TypeInv /\ OwnsOf(p) /\ Running(p) /\ cmd' = cmd
    BY StepOthers DEF OwnsInv, Step
  <1> USE JobFunctions DEF Goto, Exit
  <1>1. CASE RemoveNext(p)
    <2>1. /\ pc[p] = "remove" /\ pc'[p] = "walk" /\ pins' = pins
          /\ dev'[p] = Head(todo[p]) /\ todo'[p] = Tail(todo[p])
      BY <1>0, <1>1 DEF RemoveNext, fsVars
    <2>2. todo[p] \in Seq(Path) /\ todo[p] # <<>>
      BY <1>0, <1>1 DEF RemoveNext, TypeInv, TypeOK
    <2>3. ASSUME NEW i \in DOMAIN todo[p]
          PROVE  todo[p][i] = Head(todo[p])
                 \/ \E j \in DOMAIN Tail(todo[p]) : Tail(todo[p])[j] = todo[p][i]
      <3>1. CASE i = 1
        BY <2>2, <3>1, HeadTailProperties
      <3>2. CASE i # 1
        <4>1. i - 1 \in DOMAIN Tail(todo[p]) /\ Tail(todo[p])[i - 1] = todo[p][i]
          BY <2>2, <3>2, HeadTailProperties, LenProperties
        <4>2. QED
          BY <4>1
      <3>3. QED
        BY <3>1, <3>2
    <2>4. ASSUME NEW d \in ToRemove(p) PROVE d \in ToRemove(p)'
      BY <2>1, <2>3 DEF ToRemove
    <2>5. QED
      BY <1>0, <2>1, <2>4 DEF OwnsOf
  <1>2. CASE RemoveBadPath(p)
    BY <1>0, <1>2 DEF RemoveBadPath, OwnsOf, Running
  <1>3. CASE RemoveDone(p)
    <2>1. ToRemove(p) = {} /\ pins' = pins
      BY <1>3 DEF RemoveDone, ToRemove, fsVars
    <2>2. QED
      BY <1>0, <2>1 DEF OwnsOf
  <1>4. CASE Unlink(p) \/ RmDir(p)
    <2>1. pins' \subseteq pins /\ UNCHANGED <<pc, todo, dev>>
      BY <1>4 DEF Unlink, RmDir, jobVars
    <2>2. ToRemove(p)' = ToRemove(p)
      BY <2>1 DEF ToRemove
    <2>3. QED
      BY <1>0, <2>1, <2>2 DEF OwnsOf
  <1>5. CASE EndRemove(p)
    <2>1. pins' = pins /\ pc[p] = "walk" /\ pc'[p] = "remove" /\ todo' = todo
      BY <1>0, <1>5 DEF EndRemove, fsVars, jobVars
    <2>2. \A n \in pins : n.dev # dev[p]
      BY <1>5, EndRemoveEmpties DEF OwnsInv
    <2>3. \A d \in ToRemove(p) : d = dev[p] \/ d \in ToRemove(p)'
      BY <2>1 DEF ToRemove
    <2>4. QED
      BY <1>0, <2>1, <2>2, <2>3 DEF OwnsOf
  <1>6. QED
    BY <1>1, <1>2, <1>3, <1>4, <1>5 DEF Remover

LEMMA NextOwnsInv ==
  ASSUME Serial, OwnsInv, [Next]_vars
  PROVE  OwnsInv'
  <1>0. TypeInv /\ TypeInv' /\ OneCommand' /\ TreeInv'
    BY NextTypeInv, NextOneCommand, NextTreeInv, SerialExclusive DEF OwnsInv
  <1>1. ASSUME UNCHANGED <<pins, pc, jobVars>> PROVE OwnsInv'
    BY <1>0, <1>1 DEF OwnsInv, OwnsOf, ToRemove, Running, jobVars
  <1>2. ASSUME NEW p \in Proc, Running(p), \A q \in Proc \ {p} : Same(q), OwnsOf(p)'
        PROVE  OwnsInv'
    <2>1. \A q \in Proc \ {p} : ~Running(q)'
      BY <1>2 DEF OwnsInv, OneCommand, Same, Running
    <2>2. QED
      BY <1>0, <1>2, <2>1 DEF OwnsInv, OwnsOf
  <1>3. ASSUME NEW d \in Device, Plug(d) \/ Trigger(d) \/ Unplug(d) \/ Lister(d) PROVE OwnsInv'
    BY <1>1, <1>3, OthersStay DEF fsVars
  <1>4. ASSUME NEW p \in Proc, Kill(p) PROVE OwnsInv'
    BY <1>0, <1>2, <1>4, KillOthers DEF OwnsOf, Running
  <1>5. ASSUME NEW p \in Proc, NEW c, Begin(p, c) PROVE OwnsInv'
    <2>1. /\ \A q \in Proc \ {p} : Same(q) /\ ~Running(q)
          /\ pc'[p] = (IF RemovesFirst(c) THEN "remove" ELSE "check")
          /\ cmd'[p] = c /\ todo'[p] = c.devs /\ pins' = pins
      BY <1>0, <1>5, BeginOthers DEF Begin
    <2>2. \A n \in pins' : n.dev \in Device
      BY <1>0 DEF TypeInv, TypeOK, NodeSet
    <2>3. OwnsOf(p)'
      BY <2>1, <2>2 DEF OwnsOf, ToRemove, RemovesFirst
    <2>4. \A q \in Proc \ {p} : OwnsOf(q)'
      BY <2>1 DEF OwnsOf, Running, Same
    <2>5. QED
      BY <1>0, <2>3, <2>4 DEF OwnsInv
  <1>6. ASSUME NEW p \in Proc, Remover(p) PROVE OwnsInv'
    BY <1>0, <1>2, <1>6, RemoverOwns, StepOthers DEF Step
  <1>7. ASSUME NEW p \in Proc, Adder(p) \/ Loader(p) PROVE OwnsInv'
    <2>1. Running(p) /\ cmd' = cmd /\ \A q \in Proc \ {p} : Same(q)
      BY <1>0, <1>7, StepOthers DEF Step
    <2>2. ToRemove(p) = {}
      BY <1>7 DEF ToRemove, Adder, CheckPaths, NextDevice, NoDevice, AddDone, CallDone,
                  LoadAndProbe, DeviceDone, Loader, MkDir, Attach, PinLink, AttachDone, PinMap,
                  PinMapsDone, EndClean
    <2>3. \A n \in pins' \ pins : n.by = p
      <3>1. CASE Adder(p)
        BY <3>1 DEF Adder, CheckPaths, NextDevice, NoDevice, AddDone, CallDone, LoadAndProbe,
                    DeviceDone, fsVars
      <3>2. QED
        BY <1>0, <1>7, <3>1, LoaderPins
    <2>4. OwnsOf(p)'
      BY <2>1, <2>2, <2>3 DEF OwnsInv, OwnsOf
    <2>5. QED
      BY <1>2, <2>1, <2>4
  <1>8. CASE UNCHANGED vars
    BY <1>1, <1>8 DEF vars, fsVars
  <1>9. QED
    BY <1>3, <1>4, <1>5, <1>6, <1>7, <1>8, NextCases DEF UdevStart

\* Only AddDone ends an add successfully.
LEMMA AddDoneStep ==
  ASSUME TypeInv, [Next]_vars, NEW p \in Proc, pc[p] # "ok", pc'[p] = "ok", cmd[p].op = "add"
  PROVE  AddDone(p)
  <1>1. ASSUME NEW d \in Device, Plug(d) \/ Trigger(d) \/ Unplug(d) \/ Lister(d) PROVE FALSE
    BY <1>1, OthersStay
  <1>2. ASSUME NEW q \in Proc, NEW c, Begin(q, c) PROVE FALSE
    BY <1>2, BeginOthers DEF Same
  <1>3. ASSUME NEW q \in Proc, Kill(q) PROVE FALSE
    BY <1>3, KillOthers DEF Same
  <1>4. ASSUME NEW q \in Proc, Loader(q) PROVE FALSE
    BY <1>4, LoaderPins, LoaderOthers DEF Same
  <1> USE JobFunctions DEF Goto, Exit, Report
  <1>5. ASSUME NEW q \in Proc, Remover(q) PROVE FALSE
    <2>1. q = p
      BY <1>5, RemoverOthers DEF Same
    <2>2. CASE Unlink(p) \/ RmDir(p)
      BY <2>2 DEF Unlink, RmDir
    <2>3. CASE RemoveNext(p) \/ RemoveBadPath(p) \/ RemoveDone(p) \/ EndRemove(p)
      BY <2>3 DEF RemoveNext, RemoveBadPath, RemoveDone, EndRemove
    <2>4. QED
      BY <1>5, <2>1, <2>2, <2>3 DEF Remover
  <1>6. ASSUME NEW q \in Proc, Adder(q) PROVE AddDone(p)
    <2>1. q = p
      BY <1>6, AdderOthers DEF Same
    <2>2. CASE CheckPaths(p) \/ NextDevice(p) \/ NoDevice(p)
      BY <2>2 DEF CheckPaths, NextDevice, NoDevice
    <2>3. CASE CallDone(p) \/ DeviceDone(p)
      BY <2>3 DEF CallDone, DeviceDone
    <2>4. CASE LoadAndProbe(p)
      BY <2>4 DEF LoadAndProbe
    <2>5. QED
      BY <1>6, <2>1, <2>2, <2>3, <2>4 DEF Adder
  <1>7. CASE UNCHANGED vars
    BY <1>7 DEF vars
  <1>8. QED
    BY <1>1, <1>2, <1>3, <1>4, <1>5, <1>6, <1>7, NextCases DEF UdevStart

\* When commands are typed one after the other, an add --replace that succeeds has
\* removed what anybody else had pinned on any of its devices, so that what is left
\* there is its own.
THEOREM Replacement ==
  ASSUME Serial
  PROVE  Spec => ReplaceOwns
  <1>1. ASSUME OwnsInv, [Next]_vars
        PROVE  [\A p \in Proc : \A n \in pins' : Replaces(p, n.dev) => n.by = p]_vars
    <2>1. ASSUME NEW p \in Proc, NEW n \in pins', Replaces(p, n.dev) PROVE n.by = p
      <3>1. AddDone(p)
        BY <1>1, <2>1, AddDoneStep DEF OwnsInv, Replaces
      <3>2. Running(p) /\ pins' = pins /\ ToRemove(p) = {}
        BY <3>1 DEF AddDone, Running, fsVars, ToRemove
      <3>3. QED
        BY <1>1, <2>1, <3>2 DEF OwnsInv, OwnsOf, Replaces
    <2>2. QED
      BY <2>1
  <1>2. OwnsInv /\ [Next]_vars => OwnsInv'
    BY NextOwnsInv
  <1>3. QED
    BY <1>1, <1>2, InitOwnsInv, PTL DEF Spec, ReplaceOwns

-----------------------------------------------------------------------------
(* What add --replace loads on its devices.                                *)

\* Command lines as main.rs makes them: an add is one call of cmd_add, on the devices
\* that --replace goes over.
OneCall ==
  \A c \in Commands : c.op = "add" =>
    \E S \in SUBSET Object : c.calls = <<[devs |-> c.devs, objs |-> S]>>

\* Files as those of the repository, for whatever is typed: a HidBPFTrace object has a
\* program, the files of a group have different numbers, and those with a report
\* descriptor fixup for a device are of one group.
Distinct ==
  /\ \A o \in Tracing : Links[o] # {}
  /\ \A x, y \in Object : Stem[x] = Stem[y] /\ Version[x] = Version[y] => x = y
  /\ \A d \in Device : \A x, y \in Fixup \cap Accepts[d] : Stem[x] = Stem[y]

OnDevice(p) == pc[p] \in {"load"} \cup Loading

\* The calls of s with d, and the objects that the first of them has for it.
With(s, d) == {i \in DOMAIN s : d \in Range(s[i].devs)}
FirstIn(s, d) == Selected(s[CHOOSE i \in With(s, d) : \A j \in With(s, d) : i <= j].objs, d)

\* p has still to come to d: it has nothing there, and its first turn will be with the
\* objects of the first call.
Waiting(p, d) ==
  /\ OnDevice(p) => dev[p] # d
  /\ \A n \in pins : n.dev = d => n.by # p
  /\ \A n \in held[p] : n.dev # d
  /\ \A x \in loaded[p] : x[1] # d
  /\ IF (pc[p] = "device" \/ OnDevice(p)) /\ d \in Range(todo[p])
     THEN Selected(named[p], d) = FirstNamed(p, d)
     ELSE With(calls[p], d) # {} /\ FirstIn(calls[p], d) = FirstNamed(p, d)

\* What p has not tried on d is a candidate, or its group has its best file, which is
\* all that p has there; what it is loading is the best of its group.
Trying(p, d) ==
  LET S == FirstNamed(p, d) IN
  /\ OnDevice(p) /\ dev[p] = d /\ Here(d)
  /\ cand[p] \subseteq S
  /\ \A o \in Object : <<d, o>> \in loaded[p] =>
       Best(d, S, o) /\ \A c \in cand[p] : Stem[o] # Stem[c]
  /\ \A x \in S \cap Accepts[d] :
       x \in cand[p] \/ \E o \in Object : <<d, o>> \in loaded[p] /\ Stem[o] = Stem[x]
  /\ \A n \in pins : n.dev = d =>
       <<d, n.obj>> \in loaded[p] \/ (pc[p] \in Loading /\ n.obj = obj[p] /\ n.ent \in done[p])
  /\ \A n \in held[p] : n.dev = d => pc[p] = "pin" \/ (pc[p] = "mkdir" /\ obj[p] \in Tracing)
  /\ \A m, n \in held[p] : m.dev = d /\ n.dev = d => m = n

\* The object p is loading will not fail: its directory is there and its names are free.
Succeeding(p) ==
  pc[p] \in Loading =>
    /\ obj[p] \in cand[p] /\ Best(dev[p], FirstNamed(p, dev[p]), obj[p])
    /\ pc[p] # "clean"
    /\ \/ pc[p] \in {"pin", "maps"} \/ done[p] # {}
       \/ obj[p] \notin Tracing /\ pc[p] # "mkdir"
       => <<dev[p], obj[p]>> \in dirs
    /\ left[p] \cap done[p] = {}
    /\ pc[p] # "maps" =>
         IF done[p] = {} THEN left[p] = Links[obj[p]] ELSE obj[p] \in Tracing \/ left[p] = {}

\* p has loaded the best of every group on d.
Satisfied(p, d) ==
  \A o \in Object : Best(d, FirstNamed(p, d), o) => <<d, o>> \in loaded[p]

TurnOf(p, d) == Waiting(p, d) \/ (Trying(p, d) /\ Succeeding(p)) \/ Satisfied(p, d)

Replacing(p) == Running(p) /\ cmd[p].op = "add" /\ cmd[p].replace
TurnsOf(p) ==
  Replacing(p) =>
    \A d \in Device : d \in Range(cmd[p].devs) /\ here[d] # "gone" => TurnOf(p, d)

\* Only what runs holds programs open, and what has not begun has done nothing.
FreeOf(p) ==
  /\ held[p] # {} => Running(p)
  /\ pc[p] = "idle" => loaded[p] = {} /\ \A n \in pins : n.by # p

TurnInv == OwnsInv /\ CompleteInv /\ \A p \in Proc : FreeOf(p) /\ TurnsOf(p)

-----------------------------------------------------------------------------
(* The first of the calls with a device.                                   *)

Less == {ss \in Nat \X Nat : ss[1] < ss[2]}

\* A set of numbers has a least one.
LEMMA Least ==
  ASSUME NEW T, T \subseteq Nat, T # {}
  PROVE  \E m \in T : \A n \in T : m <= n
  <1>1. IsWellFoundedOn(Less, Nat)
    BY NatLessThanWellFounded DEF OpToRel, Less
  <1>2. PICK m \in T : \A n \in T : <<n, m>> \notin Less
    BY <1>1, WFMin
  <1>3. ASSUME NEW n \in T PROVE m <= n
    <2>1. m \in Nat /\ n \in Nat /\ <<n, m>> \notin Less
      BY <1>2
    <2>2. QED
      BY <2>1 DEF Less
  <1>4. QED
    BY <1>3

LEMMA TailRange ==
  ASSUME NEW T, NEW s \in Seq(T), s # <<>>
  PROVE  /\ Range(s) = {Head(s)} \cup Range(Tail(s))
         /\ \A i \in DOMAIN s : i # 1 => i - 1 \in DOMAIN Tail(s)
         /\ \A j \in DOMAIN Tail(s) : j + 1 \in DOMAIN s /\ Tail(s)[j] = s[j + 1]
         /\ 1 \in DOMAIN s /\ Head(s) = s[1]
  <1>1. /\ Len(s) \in Nat \ {0} /\ DOMAIN s = 1..Len(s) /\ Head(s) = s[1]
        /\ DOMAIN Tail(s) = 1..(Len(s) - 1) /\ \A j \in 1..(Len(s) - 1) : Tail(s)[j] = s[j + 1]
    BY HeadTailProperties, LenProperties, EmptySeq
  <1>2. /\ \A i \in DOMAIN s : i # 1 => i - 1 \in DOMAIN Tail(s)
        /\ \A j \in DOMAIN Tail(s) : j + 1 \in DOMAIN s /\ Tail(s)[j] = s[j + 1]
        /\ 1 \in DOMAIN s
    BY <1>1
  <1>3. ASSUME NEW x \in Range(s) PROVE x = Head(s) \/ x \in Range(Tail(s))
    <2>1. PICK i \in DOMAIN s : s[i] = x
      BY <1>3 DEF Range
    <2>2. CASE i = 1
      BY <1>1, <2>1, <2>2
    <2>3. CASE i # 1
      <3>1. i - 1 \in DOMAIN Tail(s) /\ Tail(s)[i - 1] = s[i]
        BY <1>1, <2>1, <2>3
      <3>2. QED
        BY <2>1, <3>1 DEF Range
    <2>4. QED
      BY <2>2, <2>3
  <1>4. Range(Tail(s)) \subseteq Range(s) /\ Head(s) \in Range(s)
    BY <1>1, <1>2 DEF Range
  <1>5. QED
    BY <1>1, <1>2, <1>3, <1>4

LEMMA FirstOfHead ==
  ASSUME NEW s \in Seq(Call), s # <<>>, NEW d, d \in Range(Head(s).devs)
  PROVE  FirstIn(s, d) = Selected(Head(s).objs, d)
  <1>1. /\ 1 \in With(s, d) /\ Head(s) = s[1] /\ DOMAIN s \subseteq Nat \ {0}
    BY TailRange, LenProperties DEF With
  <1>2. \A i \in With(s, d) : (\A j \in With(s, d) : i <= j) <=> i = 1
    BY <1>1 DEF With
  <1>3. (CHOOSE i \in With(s, d) : \A j \in With(s, d) : i <= j) = 1
    BY <1>1, <1>2
  <1>4. QED
    BY <1>1, <1>3 DEF FirstIn

LEMMA FirstOfTail ==
  ASSUME NEW s \in Seq(Call), s # <<>>, NEW d, d \notin Range(Head(s).devs), With(s, d) # {}
  PROVE  With(Tail(s), d) # {} /\ FirstIn(Tail(s), d) = FirstIn(s, d)
  <1> DEFINE W == With(s, d)
             V == With(Tail(s), d)
  <1>1. /\ W \subseteq Nat \ {0} /\ V \subseteq Nat /\ 1 \notin W
        /\ \A i \in W : i - 1 \in V
        /\ \A j \in V : j + 1 \in W /\ Tail(s)[j] = s[j + 1]
    <2>1. DOMAIN s \subseteq Nat \ {0} /\ DOMAIN Tail(s) \subseteq Nat
      BY LenProperties, HeadTailProperties
    <2>2. 1 \notin W
      BY TailRange DEF With
    <2>3. QED
      BY TailRange, <2>1, <2>2 DEF With
  <1>2. PICK m \in V : \A j \in V : m <= j
    <2>1. V # {}
      BY <1>1
    <2>2. QED
      BY <1>1, <2>1, Least
  <1>3. (CHOOSE i \in V : \A j \in V : i <= j) = m
    BY <1>1, <1>2
  <1>4. \A i \in W : m + 1 <= i
    BY <1>1, <1>2
  <1>5. (CHOOSE i \in W : \A j \in W : i <= j) = m + 1
    BY <1>1, <1>2, <1>4
  <1>6. Tail(s)[m] = s[m + 1]
    BY <1>1, <1>2
  <1>7. QED
    BY <1>2, <1>3, <1>5, <1>6 DEF FirstIn

-----------------------------------------------------------------------------
(* Steps that leave a turn as it is.                                       *)

LEMMA SameFirst ==
  ASSUME NEW p \in Proc, cmd'[p] = cmd[p], NEW d
  PROVE  FirstNamed(p, d)' = FirstNamed(p, d)
  BY DEF FirstNamed

LEMMA SatisfiedStays ==
  ASSUME NEW p \in Proc, NEW d, Satisfied(p, d), cmd'[p] = cmd[p], loaded[p] \subseteq loaded'[p]
  PROVE  Satisfied(p, d)'
  BY SameFirst DEF Satisfied, Best

\* Whatever p has come to have, it has it on the device it works on.
Gains(p) ==
  /\ \A n \in pins' \ pins : n.by = p => OnDevice(p) /\ n.dev = dev[p]
  /\ \A n \in held'[p] \ held[p] : OnDevice(p) /\ n.dev = dev[p]
  /\ \A x \in loaded'[p] \ loaded[p] : OnDevice(p) /\ x[1] = dev[p]

LEMMA WaitingStays ==
  ASSUME NEW p \in Proc, NEW d, Waiting(p, d), Gains(p),
         cmd'[p] = cmd[p], calls'[p] = calls[p], named'[p] = named[p],
         OnDevice(p)' => OnDevice(p) /\ dev'[p] = dev[p],
         (pc'[p] = "device" \/ OnDevice(p)') <=> (pc[p] = "device" \/ OnDevice(p)),
         pc[p] = "device" \/ OnDevice(p) => todo'[p] = todo[p]
  PROVE  Waiting(p, d)'
  <1>1. FirstNamed(p, d)' = FirstNamed(p, d)
    BY SameFirst
  <1>2. /\ OnDevice(p)' => dev'[p] # d
        /\ \A n \in pins' : n.dev = d => n.by # p
        /\ \A n \in held'[p] : n.dev # d
        /\ \A x \in loaded'[p] : x[1] # d
    BY DEF Waiting, Gains
  <1>3. FirstIn(calls[p], d)' = FirstIn(calls[p], d) /\ With(calls[p], d)' = With(calls[p], d)
    BY DEF FirstIn, With
  <1>4. Selected(named[p], d)' = Selected(named[p], d)
    BY DEF Selected
  <1>5. QED
    BY <1>1, <1>2, <1>3, <1>4 DEF Waiting

LEMMA TurnStays ==
  ASSUME NEW p \in Proc, NEW d, TurnOf(p, d), Same(p), pins' = pins, dirs' = dirs,
         named'[p] = named[p], held'[p] = held[p], loaded'[p] = loaded[p], Here(d) => Here(d)'
  PROVE  TurnOf(p, d)'
  <1>1. \A e : FirstNamed(p, e)' = FirstNamed(p, e)
    BY SameFirst DEF Same
  <1>2. OnDevice(p)' = OnDevice(p)
    BY DEF Same, OnDevice
  <1>3. Gains(p)
    BY DEF Gains
  <1>4. CASE Waiting(p, d)
    BY <1>2, <1>3, <1>4, WaitingStays DEF TurnOf, Same
  <1>5. CASE Trying(p, d) /\ Succeeding(p)
    BY <1>1, <1>2, <1>5 DEF TurnOf, Trying, Succeeding, Same, Best
  <1>6. CASE Satisfied(p, d)
    BY <1>6, SatisfiedStays DEF TurnOf, Same
  <1>7. QED
    BY <1>4, <1>5, <1>6 DEF TurnOf

-----------------------------------------------------------------------------
(* The steps of cmd_remove and of cmd_add.                                 *)

LEMMA FreeFunctions ==
  ASSUME TypeInv
  PROVE  /\ named = [q \in Proc |-> named[q]] /\ held = [q \in Proc |-> held[q]]
         /\ loaded = [q \in Proc |-> loaded[q]] /\ here = [d \in Device |-> here[d]]
  BY DEF TypeInv, TypeOK

LEMMA RemoverTurn ==
  ASSUME TypeInv, NEW p \in Proc, NEW d, TurnOf(p, d), Remover(p), Running(p)'
  PROVE  TurnOf(p, d)'
  <1> USE JobFunctions DEF Goto, Exit
  <1>1. /\ UNCHANGED <<here, cmd, calls, named, held, loaded>> /\ pins' \subseteq pins
        /\ pc[p] \in {"remove", "walk", "clean"}
        /\ IF pc[p] = "clean" THEN UNCHANGED <<pc, jobVars, loadVars>>
           ELSE pc'[p] \in {"remove", "walk", "check"}
    <2>1. CASE Unlink(p) \/ RmDir(p)
      BY <2>1 DEF Unlink, RmDir, kernelVars, jobVars
    <2>2. CASE RemoveNext(p) \/ EndRemove(p)
      BY <2>2 DEF RemoveNext, EndRemove, kernelVars, jobVars, fsVars
    <2>3. CASE RemoveBadPath(p) \/ RemoveDone(p)
      BY <2>3 DEF RemoveBadPath, RemoveDone, kernelVars, jobVars, fsVars, Running
    <2>4. QED
      BY <2>1, <2>2, <2>3 DEF Remover
  <1>2. Gains(p)
    BY <1>1 DEF Gains
  <1>3. ~(Trying(p, d) /\ Succeeding(p))
    BY <1>1 DEF Trying, Succeeding, OnDevice
  <1>4. CASE Waiting(p, d)
    <2>1. CASE pc[p] = "clean"
      BY <1>1, <1>2, <1>4, <2>1, WaitingStays DEF TurnOf, OnDevice, jobVars
    <2>2. CASE pc[p] # "clean"
      <3>1. ~OnDevice(p) /\ ~OnDevice(p)' /\ pc[p] # "device" /\ pc'[p] # "device"
        BY <1>1, <2>2 DEF OnDevice
      <3>2. QED
        BY <1>1, <1>2, <1>4, <3>1, WaitingStays DEF TurnOf
    <2>3. QED
      BY <2>1, <2>2
  <1>5. CASE Satisfied(p, d)
    BY <1>1, <1>5, SatisfiedStays DEF TurnOf
  <1>6. QED
    BY <1>3, <1>4, <1>5 DEF TurnOf

LEMMA CheckTurn ==
  ASSUME TypeInv, NEW p \in Proc, NEW d, TurnOf(p, d), CheckPaths(p), Running(p)'
  PROVE  TurnOf(p, d)'
  <1> USE JobFunctions, FreeFunctions DEF Goto, Exit
  <1>0. calls[p] \in Seq(Call) /\ calls[p] # <<>> /\ pc[p] = "check"
    BY DEF CheckPaths, TypeInv, TypeOK
  <1>1. /\ pc'[p] = "device" /\ calls'[p] = Tail(calls[p]) /\ named'[p] = Head(calls[p]).objs
        /\ todo'[p] = Head(calls[p]).devs
        /\ UNCHANGED <<cmd, pins, held, loaded>>
    BY DEF CheckPaths, Running, fsVars
  <1>2. CASE Satisfied(p, d)
    BY <1>1, <1>2, SatisfiedStays DEF TurnOf
  <1>3. ~Trying(p, d)
    BY <1>0 DEF Trying, OnDevice
  <1>4. CASE Waiting(p, d)
    <2>1. With(calls[p], d) # {} /\ FirstIn(calls[p], d) = FirstNamed(p, d)
      BY <1>0, <1>4 DEF Waiting, OnDevice
    <2>2. FirstNamed(p, d)' = FirstNamed(p, d)
      BY <1>1, SameFirst
    <2>3. /\ ~OnDevice(p)'
          /\ \A n \in pins' : n.dev = d => n.by # p
          /\ \A n \in held'[p] : n.dev # d
          /\ \A x \in loaded'[p] : x[1] # d
      BY <1>1, <1>4 DEF Waiting, OnDevice
    <2>4. CASE d \in Range(Head(calls[p]).devs)
      <3>1. FirstIn(calls[p], d) = Selected(Head(calls[p]).objs, d)
        BY <1>0, <2>4, FirstOfHead
      <3>2. Selected(named[p], d)' = FirstNamed(p, d)'
        BY <1>1, <2>1, <2>2, <3>1 DEF Selected
      <3>3. QED
        BY <1>1, <2>3, <2>4, <3>2 DEF TurnOf, Waiting
    <2>5. CASE d \notin Range(Head(calls[p]).devs)
      <3>1. With(Tail(calls[p]), d) # {} /\ FirstIn(Tail(calls[p]), d) = FirstIn(calls[p], d)
        BY <1>0, <2>1, <2>5, FirstOfTail
      <3>2. With(calls[p], d)' # {} /\ FirstIn(calls[p], d)' = FirstNamed(p, d)'
        BY <1>1, <2>1, <2>2, <3>1 DEF With, FirstIn, Selected
      <3>3. QED
        BY <1>1, <2>3, <2>5, <3>2 DEF TurnOf, Waiting
    <2>6. QED
      BY <2>4, <2>5
  <1>5. QED
    BY <1>2, <1>3, <1>4 DEF TurnOf

LEMMA NextDeviceTurn ==
  ASSUME OwnsInv, NEW p \in Proc, Replacing(p), NEW d \in Device, d \in Range(cmd[p].devs),
         TurnOf(p, d), NextDevice(p)
  PROVE  TurnOf(p, d)'
  <1>0. TypeInv /\ OwnsOf(p)
    BY DEF OwnsInv
  <1> USE <1>0, JobFunctions, FreeFunctions DEF Goto
  <1>1. /\ pc[p] = "device" /\ todo[p] # <<>> /\ todo[p] \in Seq(Path)
        /\ Here(Head(todo[p]))
    BY DEF NextDevice, TypeInv, TypeOK
  <1>2. /\ pc'[p] = "load" /\ dev'[p] = Head(todo[p]) /\ todo'[p] = Tail(todo[p])
        /\ cand'[p] = Selected(named[p], Head(todo[p]))
        /\ UNCHANGED <<here, cmd, calls, named, pins, held, loaded>>
    BY DEF NextDevice, fsVars, kernelVars
  <1>3. CASE Satisfied(p, d)
    BY <1>2, <1>3, SatisfiedStays DEF TurnOf
  <1>4. ~Trying(p, d)
    BY <1>1 DEF Trying, OnDevice
  <1>5. FirstNamed(p, d)' = FirstNamed(p, d) /\ OnDevice(p)'
    BY <1>2, SameFirst DEF OnDevice
  <1>6. Range(todo[p]) = {Head(todo[p])} \cup Range(Tail(todo[p]))
    BY <1>1, TailRange
  <1>7. CASE Waiting(p, d) /\ Head(todo[p]) = d
    <2>1. cand'[p] = FirstNamed(p, d)'
      BY <1>1, <1>2, <1>5, <1>6, <1>7 DEF Waiting
    <2>2. ASSUME NEW n \in pins', n.dev = d PROVE FALSE
      <3>1. n \in pins /\ n.by # p /\ \E i \in DOMAIN cmd[p].devs : cmd[p].devs[i] = n.dev
        BY <1>2, <1>7, <2>2 DEF Waiting, Range
      <3>2. n.dev \notin ToRemove(p)
        BY <1>1 DEF ToRemove
      <3>3. QED
        BY <1>0, <3>1, <3>2 DEF OwnsOf, Replacing
    <2>3. /\ \A o \in Object : <<d, o>> \notin loaded'[p]
          /\ \A n \in held'[p] : n.dev # d
      BY <1>2, <1>7 DEF Waiting
    <2>4. Here(d)' /\ dev'[p] = d
      BY <1>1, <1>2, <1>7 DEF Here
    <2>5. Trying(p, d)'
      BY <1>5, <2>1, <2>2, <2>3, <2>4 DEF Trying
    <2>6. Succeeding(p)'
      BY <1>2 DEF Succeeding
    <2>7. QED
      BY <2>5, <2>6 DEF TurnOf
  <1>8. CASE Waiting(p, d) /\ Head(todo[p]) # d
    <2>1. d \in Range(todo'[p]) <=> d \in Range(todo[p])
      BY <1>2, <1>6, <1>8
    <2>2. /\ Selected(named[p], d)' = Selected(named[p], d)
          /\ With(calls[p], d)' = With(calls[p], d) /\ FirstIn(calls[p], d)' = FirstIn(calls[p], d)
      BY <1>2 DEF Selected, With, FirstIn
    <2>3. Waiting(p, d)'
      BY <1>1, <1>2, <1>5, <1>8, <2>1, <2>2 DEF Waiting
    <2>4. QED
      BY <2>3 DEF TurnOf
  <1>9. QED
    BY <1>3, <1>4, <1>7, <1>8 DEF TurnOf

LEMMA CallDoneTurn ==
  ASSUME TypeInv, NEW p \in Proc, NEW d, TurnOf(p, d), CallDone(p)
  PROVE  TurnOf(p, d)'
  <1>1. /\ pc[p] = "device" /\ pc'[p] = "check" /\ todo[p] = <<>>
        /\ UNCHANGED <<cmd, calls, pins, held, loaded>>
    BY JobFunctions DEF CallDone, Goto, jobVars, fsVars
  <1>2. CASE Satisfied(p, d)
    BY <1>1, <1>2, SatisfiedStays DEF TurnOf
  <1>3. ~Trying(p, d) /\ ~OnDevice(p) /\ ~OnDevice(p)' /\ FirstNamed(p, d)' = FirstNamed(p, d)
    BY <1>1, SameFirst DEF Trying, OnDevice
  <1>4. Range(todo[p]) = {}
    BY <1>1 DEF Range
  <1>5. With(calls[p], d)' = With(calls[p], d) /\ FirstIn(calls[p], d)' = FirstIn(calls[p], d)
    BY <1>1 DEF Selected, With, FirstIn
  <1>6. CASE Waiting(p, d)
    BY <1>1, <1>3, <1>4, <1>5, <1>6 DEF TurnOf, Waiting
  <1>7. QED
    BY <1>2, <1>3, <1>6 DEF TurnOf

\* The candidates are used up, and what is loaded is the best of every group.
LEMMA DeviceDoneTurn ==
  ASSUME Distinct, TypeInv, NEW p \in Proc, NEW d, TurnOf(p, d), DeviceDone(p)
  PROVE  TurnOf(p, d)'
  <1>1. /\ pc[p] = "load" /\ cand[p] = {} /\ pc'[p] = "device"
        /\ UNCHANGED <<cmd, calls, named, todo, dev, pins, held, loaded>>
    BY JobFunctions DEF DeviceDone, Goto, jobVars, fsVars
  <1>2. CASE Satisfied(p, d)
    BY <1>1, <1>2, SatisfiedStays DEF TurnOf
  <1>3. CASE Waiting(p, d)
    <2>1. Gains(p)
      BY <1>1 DEF Gains
    <2>2. QED
      BY <1>1, <1>3, <2>1, WaitingStays DEF TurnOf, OnDevice
  <1>4. CASE Trying(p, d)
    <2>1. ASSUME NEW o \in Object, Best(d, FirstNamed(p, d), o) PROVE <<d, o>> \in loaded[p]
      <3>1. PICK x \in Object : <<d, x>> \in loaded[p] /\ Stem[x] = Stem[o]
        BY <1>1, <1>4, <2>1 DEF Trying, Best
      <3>2. Best(d, FirstNamed(p, d), x)
        BY <1>4, <3>1 DEF Trying
      <3>3. Version[x] <= Version[o] /\ Version[o] <= Version[x]
        BY <2>1, <3>1, <3>2 DEF Best
      <3>4. Version[x] \in Nat /\ Version[o] \in Nat
        BY ObjectAssumption
      <3>5. x = o
        BY <3>1, <3>3, <3>4 DEF Distinct
      <3>6. QED
        BY <3>1, <3>5
    <2>2. Satisfied(p, d)
      BY <2>1 DEF Satisfied
    <2>3. QED
      BY <1>1, <2>2, SatisfiedStays DEF TurnOf
  <1>5. QED
    BY <1>2, <1>3, <1>4 DEF TurnOf

\* The next candidate is the best of its group.
LEMMA ProbeTurn ==
  ASSUME TypeInv, NEW p \in Proc, NEW d, TurnOf(p, d), LoadAndProbe(p)
  PROVE  TurnOf(p, d)'
  <1> USE JobFunctions, FreeFunctions DEF Goto
  <1>0. /\ pc[p] = "load" /\ UNCHANGED <<here, pins, held>> /\ cand[p] \subseteq Object
    BY DEF LoadAndProbe, fsVars, kernelVars, TypeInv, TypeOK
  <1>1. PICK o \in cand[p] :
          /\ \A x \in cand[p] : Before(o, x)
          /\ IF Here(dev[p]) /\ o \in Accepts[dev[p]]
             THEN /\ StartObject(p, o)
                  /\ Goto(p, IF o \in Tracing THEN "attach" ELSE "mkdir")
                  /\ UNCHANGED <<jobVars, loaded>>
             ELSE Report(p, o, FALSE) /\ UNCHANGED loadVars
    BY DEF LoadAndProbe
  <1>2. /\ UNCHANGED <<cmd, calls, named, todo, dev, loaded>> /\ pc'[p] \in {"load", "attach", "mkdir"}
    BY <1>1 DEF Report, jobVars
  <1>3. CASE Satisfied(p, d)
    BY <1>2, <1>3, SatisfiedStays DEF TurnOf
  <1>4. CASE Waiting(p, d)
    <2>1. Gains(p) /\ OnDevice(p) /\ OnDevice(p)'
      BY <1>0, <1>2 DEF Gains, OnDevice
    <2>2. QED
      BY <1>2, <1>4, <2>1, WaitingStays DEF TurnOf, OnDevice
  <1>5. CASE Trying(p, d)
    <2> DEFINE S == FirstNamed(p, d)
    <2>0. dev[p] = d /\ Here(d) /\ dev'[p] = d /\ Here(d)' /\ OnDevice(p)'
      BY <1>0, <1>2, <1>5 DEF Trying, Here, OnDevice
    <2>1. S' = S
      BY <1>2, SameFirst
    <2>2. /\ \A n \in pins' : n.dev = d => <<d, n.obj>> \in loaded'[p]
          /\ \A n \in held'[p] : n.dev # d
      BY <1>0, <1>2, <1>5 DEF Trying
    <2>3. CASE o \in Accepts[d]
      <3>1. /\ obj'[p] = o /\ left'[p] = Links[o] /\ done'[p] = {} /\ cand' = cand
            /\ pc'[p] = (IF o \in Tracing THEN "attach" ELSE "mkdir")
        BY <1>1, <2>0, <2>3 DEF StartObject, jobVars
      <3>2. Best(d, S, o)
        <4>1. ASSUME NEW x \in S \cap Accepts[d], Stem[x] = Stem[o] PROVE Version[x] <= Version[o]
          <5>0. \A y \in Object : <<d, y>> \in loaded[p] => Stem[y] # Stem[o]
            BY <1>5 DEF Trying
          <5>1. x \in cand[p]
            <6>1. x \in cand[p] \/ \E y \in Object : <<d, y>> \in loaded[p] /\ Stem[y] = Stem[x]
              BY <1>5, <4>1 DEF Trying
            <6>2. QED
              BY <4>1, <5>0, <6>1
          <5>2. /\ Stem[x] \in Nat /\ Version[x] \in Nat /\ Stem[o] \in Nat /\ Version[o] \in Nat
            BY <1>0, <5>1, ObjectAssumption
          <5>3. QED
            BY <1>1, <4>1, <5>1, <5>2 DEF Before
        <4>2. o \in S
          BY <1>5 DEF Trying
        <4>3. QED
          BY <2>3, <4>1, <4>2 DEF Best
      <3>3. Trying(p, d)'
        BY <1>2, <1>5, <2>0, <2>1, <2>2, <3>1 DEF Trying, Best
      <3>4. Best(dev[p], FirstNamed(p, dev[p]), obj[p])'
        BY <2>0, <2>1, <3>1, <3>2 DEF Best
      <3>5. Succeeding(p)'
        BY <3>1, <3>4 DEF Succeeding
      <3>6. QED
        BY <3>3, <3>5 DEF TurnOf
    <2>4. CASE o \notin Accepts[d]
      <3>1. pc'[p] = "load" /\ cand'[p] = cand[p] \ {o}
        BY <1>1, <2>0, <2>4 DEF Report, Remaining
      <3>2. Trying(p, d)'
        BY <1>2, <1>5, <2>0, <2>1, <2>2, <2>4, <3>1 DEF Trying, Best
      <3>3. Succeeding(p)'
        BY <3>1 DEF Succeeding
      <3>4. QED
        BY <3>2, <3>3 DEF TurnOf
    <2>5. QED
      BY <2>3, <2>4
  <1>6. QED
    BY <1>3, <1>4, <1>5 DEF TurnOf

-----------------------------------------------------------------------------
(* The steps of load_programs.                                             *)

\* A name is free until the object is pinned there, and its directory stays.
LEMMA PinIsFree ==
  ASSUME TypeInv, NEW p \in Proc, NEW d, Trying(p, d), Succeeding(p), pc[p] \in {"pin", "maps"},
         NEW e \in left[p]
  PROVE  CanPin(dev[p], obj[p], e)
  <1>1. dev[p] = d /\ obj[p] \in cand[p] /\ <<dev[p], obj[p]>> \in dirs /\ obj[p] \in Object
    BY DEF Trying, Succeeding, TypeInv, Assigned
  <1>2. ASSUME NEW n \in pins, n.dev = dev[p], n.obj = obj[p], n.ent = e PROVE FALSE
    <2>1. <<d, obj[p]>> \notin loaded[p]
      BY <1>1 DEF Trying
    <2>2. e \in done[p]
      BY <1>1, <1>2, <2>1 DEF Trying
    <2>3. QED
      BY <2>2 DEF Succeeding
  <1>3. QED
    BY <1>1, <1>2 DEF CanPin

\* Nothing with a report descriptor fixup is there before the first program.
LEMMA AttachIsFree ==
  ASSUME Distinct, TypeInv, OneCommand, \A q \in Proc : FreeOf(q), NEW p \in Proc, NEW d \in Device,
         Trying(p, d), Succeeding(p), pc[p] = "attach", done[p] = {}
  PROVE  CanAttach(dev[p], obj[p])
  <1>1. /\ dev[p] = d /\ obj[p] \in cand[p] /\ Here(d) /\ obj[p] \in Object
        /\ Best(d, FirstNamed(p, d), obj[p])
    BY DEF Trying, Succeeding, TypeInv, Assigned
  <1>2. ASSUME obj[p] \in Fixup, NEW n \in Attached(d), n.obj \in Fixup PROVE FALSE
    <2>1. n.dev = d
      BY DEF Attached
    <2>2. CASE n \in pins
      <3>1. <<d, n.obj>> \in loaded[p] /\ n.obj \in Object
        BY <2>1, <2>2 DEF Trying, TypeInv, TypeOK, NodeSet
      <3>2. Best(d, FirstNamed(p, d), n.obj) /\ Stem[n.obj] # Stem[obj[p]]
        BY <1>1, <3>1 DEF Trying
      <3>3. QED
        BY <1>1, <1>2, <3>2 DEF Distinct, Best
    <2>3. ASSUME NEW q \in Proc, n \in held[q] PROVE FALSE
      <3>1. Running(q) /\ Running(p)
        BY <2>3 DEF FreeOf, Running
      <3>2. q = p
        BY <3>1 DEF OneCommand
      <3>3. QED
        BY <2>1, <2>3, <3>2 DEF Trying
    <2>4. QED
      BY <2>2, <2>3 DEF Attached
  <1>3. QED
    BY <1>1, <1>2 DEF CanAttach

\* load_programs goes on.
LEMMA LoadingTurn ==
  ASSUME NEW p \in Proc, NEW d, Trying(p, d), pc[p] \in Loading, pc'[p] \in Loading,
         UNCHANGED <<here, cmd, dev, cand, obj, loaded>>, done[p] \subseteq done'[p],
         \A n \in pins' \ pins : n.obj = obj[p] /\ n.ent \in done'[p],
         \A n \in held'[p] : n.dev = d => pc'[p] = "pin" \/ (pc'[p] = "mkdir" /\ obj[p] \in Tracing),
         \A m, n \in held'[p] : m.dev = d /\ n.dev = d => m = n
  PROVE  Trying(p, d)'
  <1>1. FirstNamed(p, d)' = FirstNamed(p, d)
    BY SameFirst
  <1>2. OnDevice(p)' /\ dev'[p] = d /\ Here(d)'
    BY DEF Trying, OnDevice, Here
  <1>3. \A n \in pins' : n.dev = d =>
          <<d, n.obj>> \in loaded'[p] \/ (pc'[p] \in Loading /\ n.obj = obj'[p] /\ n.ent \in done'[p])
    BY DEF Trying
  <1>4. QED
    BY <1>1, <1>2, <1>3 DEF Trying, Best

\* An attachment that fails is skipped, when a program of the object is pinned already.
LEMMA AttachTurn ==
  ASSUME Distinct, TypeInv, OneCommand, \A q \in Proc : FreeOf(q), NEW p \in Proc, NEW d \in Device,
         Trying(p, d), Succeeding(p), Attach(p), UNCHANGED <<here, cmd>>
  PROVE  Trying(p, d)' /\ Succeeding(p)'
  <1> USE JobFunctions, FreeFunctions DEF Goto, jobVars, loadVars
  <1>1. /\ pc[p] = "attach" /\ UNCHANGED <<pins, dirs>> /\ dev[p] = d
        /\ \A n \in held[p] : n.dev # d
    BY DEF Attach, fsVars, Trying
  <1>2. PICK e \in left[p] :
          IF CanAttach(dev[p], obj[p])
          THEN /\ held' = [held EXCEPT ![p] = @ \cup {Node(dev[p], obj[p], e, p)}]
               /\ Goto(p, IF obj[p] \in Tracing THEN "mkdir" ELSE "pin")
               /\ UNCHANGED <<jobVars, loadVars, loaded>>
          ELSE Skip(p, e) /\ UNCHANGED held
    BY DEF Attach
  <1>3. FirstNamed(p, d)' = FirstNamed(p, d)
    BY SameFirst
  <1>4. CASE CanAttach(dev[p], obj[p])
    <2>1. /\ held'[p] = held[p] \cup {Node(dev[p], obj[p], e, p)}
          /\ pc'[p] = (IF obj[p] \in Tracing THEN "mkdir" ELSE "pin")
          /\ UNCHANGED <<dev, cand, obj, left, done, loaded>>
      BY <1>2, <1>4
    <2>2. /\ \A n \in held'[p] : n.dev = d => pc'[p] = "pin" \/ (pc'[p] = "mkdir" /\ obj[p] \in Tracing)
          /\ \A m, n \in held'[p] : m.dev = d /\ n.dev = d => m = n
      BY <1>1, <2>1
    <2>3. Trying(p, d)'
      BY <1>1, <2>1, <2>2, LoadingTurn
    <2>4. Succeeding(p)'
      BY <1>1, <1>3, <2>1 DEF Succeeding, Best
    <2>5. QED
      BY <2>3, <2>4
  <1>5. CASE ~CanAttach(dev[p], obj[p])
    <2>1. done[p] # {} /\ obj[p] \in Tracing
      BY <1>1, <1>2, <1>5, AttachIsFree DEF Succeeding
    <2>2. /\ pc'[p] = "attach" /\ left'[p] = left[p] \ {e} /\ held' = held
          /\ UNCHANGED <<dev, cand, obj, done, loaded>>
      BY <1>2, <1>5, <2>1 DEF Skip
    <2>3. Trying(p, d)'
      BY <1>1, <2>2, LoadingTurn
    <2>4. Succeeding(p)'
      BY <1>1, <1>3, <2>1, <2>2 DEF Succeeding, Best
    <2>5. QED
      BY <2>3, <2>4
  <1>6. QED
    BY <1>4, <1>5

LEMMA PinLinkTurn ==
  ASSUME WholeFiles, TypeInv, NEW p \in Proc, NEW d, Trying(p, d), Succeeding(p), PinLink(p),
         UNCHANGED <<here, cmd>>
  PROVE  Trying(p, d)' /\ Succeeding(p)'
  <1> USE JobFunctions, FreeFunctions DEF Goto, jobVars, loadVars
  <1>1. pc[p] = "pin" /\ UNCHANGED <<dirs>> /\ dev[p] = d
    BY DEF PinLink, Trying
  <1>2. PICK e \in left[p] : LET n == Node(dev[p], obj[p], e, p) IN
          /\ n \in held[p]
          /\ CanPin(dev[p], obj[p], e) =>
               /\ pins' = pins \cup {n}
               /\ held' = [held EXCEPT ![p] = @ \ {n}]
               /\ left' = [left EXCEPT ![p] = @ \ {e}]
               /\ done' = [done EXCEPT ![p] = @ \cup {e}]
               /\ Goto(p, "attach")
               /\ UNCHANGED <<obj, jobVars, loaded>>
    BY DEF PinLink
  <1>3. CanPin(dev[p], obj[p], e)
    BY <1>1, PinIsFree
  <1>4. /\ pc'[p] = "attach" /\ done'[p] = done[p] \cup {e} /\ left'[p] = left[p] \ {e}
        /\ held'[p] = held[p] \ {Node(dev[p], obj[p], e, p)}
        /\ pins' = pins \cup {Node(dev[p], obj[p], e, p)}
        /\ UNCHANGED <<dev, cand, obj, loaded>>
    BY <1>2, <1>3
  <1>5. \A n \in held'[p] : n.dev # d
    BY <1>1, <1>2, <1>4 DEF Trying, Node
  <1>6. Trying(p, d)'
    <2>1. \A n \in pins' \ pins : n.obj = obj[p] /\ n.ent \in done'[p]
      BY <1>4 DEF Node
    <2>2. QED
      BY <1>1, <1>4, <1>5, <2>1, LoadingTurn
  <1>7. obj[p] \in Tracing \/ left'[p] = {}
    <2>1. SUFFICES ASSUME obj[p] \notin Tracing PROVE left'[p] = {}
      OBVIOUS
    <2>2. left[p] = Links[obj[p]] /\ obj[p] \in Object
      BY <1>1, <1>2, <2>1 DEF Succeeding, TypeInv, Assigned
    <2>3. QED
      BY <1>4, <2>1, <2>2 DEF WholeFiles
  <1>8. Succeeding(p)'
    <2>1. FirstNamed(p, d)' = FirstNamed(p, d)
      BY SameFirst
    <2>2. QED
      BY <1>1, <1>4, <1>7, <2>1 DEF Succeeding, Best
  <1>9. QED
    BY <1>6, <1>8

LEMMA PinMapTurn ==
  ASSUME TypeInv, NEW p \in Proc, NEW d, Trying(p, d), Succeeding(p), PinMap(p),
         UNCHANGED <<here, cmd>>
  PROVE  Trying(p, d)' /\ Succeeding(p)'
  <1> USE JobFunctions, FreeFunctions DEF Goto, jobVars, loadVars
  <1>1. pc[p] = "maps" /\ dev[p] = d /\ UNCHANGED <<dirs, obj, jobVars, held, loaded>>
    BY DEF PinMap, Trying
  <1>2. PICK e \in left[p] :
          CanPin(dev[p], obj[p], e) =>
            /\ pins' = pins \cup {Node(dev[p], obj[p], e, p)}
            /\ left' = [left EXCEPT ![p] = @ \ {e}]
            /\ done' = [done EXCEPT ![p] = @ \cup {e}]
            /\ UNCHANGED pc
    BY DEF PinMap
  <1>3. CanPin(dev[p], obj[p], e)
    BY <1>1, PinIsFree
  <1>4. /\ pc'[p] = "maps" /\ done'[p] = done[p] \cup {e} /\ left'[p] = left[p] \ {e}
        /\ pins' = pins \cup {Node(dev[p], obj[p], e, p)}
        /\ UNCHANGED <<dev, cand>>
    BY <1>1, <1>2, <1>3
  <1>5. \A n \in held[p] : n.dev # d
    BY <1>1 DEF Trying
  <1>6. Trying(p, d)'
    <2>1. \A n \in pins' \ pins : n.obj = obj[p] /\ n.ent \in done'[p]
      BY <1>4 DEF Node
    <2>2. QED
      BY <1>1, <1>4, <1>5, <2>1, LoadingTurn
  <1>7. Succeeding(p)'
    <2>1. FirstNamed(p, d)' = FirstNamed(p, d)
      BY SameFirst
    <2>2. QED
      BY <1>1, <1>4, <2>1 DEF Succeeding, Best
  <1>8. QED
    BY <1>6, <1>7

LEMMA MkDirTurn ==
  ASSUME TypeInv, NEW p \in Proc, NEW d, Trying(p, d), Succeeding(p), MkDir(p),
         UNCHANGED <<here, cmd>>
  PROVE  Trying(p, d)' /\ Succeeding(p)'
  <1> USE JobFunctions DEF Goto, jobVars, loadVars
  <1>1. /\ pc[p] = "mkdir" /\ pc'[p] = (IF obj[p] \in Tracing THEN "pin" ELSE "attach")
        /\ dev[p] = d /\ <<dev[p], obj[p]>> \in dirs'
        /\ UNCHANGED <<dev, cand, obj, left, done, loaded, pins, held>>
    BY DEF MkDir, Trying
  <1>2. \A n \in held[p] : n.dev = d => obj[p] \in Tracing
    BY <1>1 DEF Trying
  <1>3. Trying(p, d)'
    <2>1. \A n \in held'[p] : n.dev = d => pc'[p] = "pin"
      BY <1>1, <1>2
    <2>2. \A m, n \in held'[p] : m.dev = d /\ n.dev = d => m = n
      BY <1>1 DEF Trying
    <2>3. QED
      BY <1>1, <2>1, <2>2, LoadingTurn
  <1>4. Succeeding(p)'
    <2>1. FirstNamed(p, d)' = FirstNamed(p, d)
      BY SameFirst
    <2>2. QED
      BY <1>1, <2>1 DEF Succeeding, Best
  <1>5. QED
    BY <1>3, <1>4

LEMMA AttachDoneTurn ==
  ASSUME Distinct, WholeFiles, TypeInv, NEW p \in Proc, ProgressOf(p), NEW d, Trying(p, d),
         Succeeding(p), AttachDone(p), UNCHANGED <<here, cmd>>
  PROVE  Trying(p, d)' /\ Succeeding(p)'
  <1> USE JobFunctions DEF Goto, jobVars, loadVars
  <1>1. /\ pc[p] = "attach" /\ left[p] = {} /\ dev[p] = d /\ UNCHANGED <<dirs, pins, held>>
        /\ obj[p] \in Object
    BY DEF AttachDone, Trying, fsVars, TypeInv, Assigned
  <1>2. ~(obj[p] \in Tracing /\ done[p] = {})
    BY <1>1 DEF Distinct, Succeeding
  <1>3. pc'[p] = "maps" /\ left'[p] = Maps[obj[p]] /\ UNCHANGED <<dev, cand, obj, done, loaded>>
    BY <1>2 DEF AttachDone
  <1>4. Trying(p, d)'
    <2>1. \A n \in held[p] : n.dev # d
      BY <1>1 DEF Trying
    <2>2. QED
      BY <1>1, <1>3, <2>1, LoadingTurn
  <1>5. left'[p] \cap done[p] = {}
    BY <1>1, <1>3 DEF ProgressOf, WholeFiles
  <1>6. <<dev[p], obj[p]>> \in dirs
    BY <1>1, <1>2 DEF Succeeding
  <1>7. Succeeding(p)'
    <2>1. FirstNamed(p, d)' = FirstNamed(p, d)
      BY SameFirst
    <2>2. QED
      BY <1>1, <1>3, <1>5, <1>6, <2>1 DEF Succeeding, Best
  <1>8. QED
    BY <1>4, <1>7

\* What was the best of its group is loaded, and its group is done with.
LEMMA PinMapsDoneTurn ==
  ASSUME WholeFiles, TypeInv, NEW p \in Proc, NEW d, Trying(p, d), Succeeding(p), PinMapsDone(p),
         UNCHANGED <<here, cmd>>
  PROVE  Trying(p, d)' /\ Succeeding(p)'
  <1> USE JobFunctions, FreeFunctions DEF Goto
  <1> DEFINE S == FirstNamed(p, d)
  <1>1. /\ pc[p] = "maps" /\ pc'[p] = "load" /\ dev[p] = d /\ obj[p] \in Object
        /\ UNCHANGED <<dev, pins, held>>
    BY DEF PinMapsDone, Report, Trying, fsVars, TypeInv, Assigned
  <1>2. /\ cand'[p] = {x \in cand[p] : Stem[x] # Stem[obj[p]]}
        /\ loaded'[p] = loaded[p] \cup {<<d, obj[p]>>}
    BY <1>1 DEF PinMapsDone, Report, Remaining, WholeFiles
  <1>3. S' = S /\ OnDevice(p)' /\ dev'[p] = d /\ Here(d)'
    BY <1>1, SameFirst DEF OnDevice, Trying, Here
  <1>4. Best(d, S, obj[p])
    BY <1>1 DEF Succeeding
  <1>5. ASSUME NEW o \in Object, <<d, o>> \in loaded'[p]
        PROVE  Best(d, S, o) /\ \A c \in cand'[p] : Stem[o] # Stem[c]
    <2>1. o = obj[p] \/ <<d, o>> \in loaded[p]
      BY <1>2, <1>5
    <2>2. CASE o = obj[p]
      BY <1>2, <1>4, <2>2
    <2>3. CASE <<d, o>> \in loaded[p]
      BY <1>2, <2>3 DEF Trying
    <2>4. QED
      BY <2>1, <2>2, <2>3
  <1>6. ASSUME NEW x \in S \cap Accepts[d]
        PROVE  x \in cand'[p] \/ \E o \in Object : <<d, o>> \in loaded'[p] /\ Stem[o] = Stem[x]
    <2>1. x \in cand[p] \/ \E o \in Object : <<d, o>> \in loaded[p] /\ Stem[o] = Stem[x]
      BY <1>6 DEF Trying
    <2>2. QED
      BY <1>1, <1>2, <2>1
  <1>7. \A n \in pins' : n.dev = d => <<d, n.obj>> \in loaded'[p]
    BY <1>1, <1>2 DEF Trying
  <1>8. \A n \in held'[p] : n.dev # d
    BY <1>1 DEF Trying
  <1>9. cand'[p] \subseteq S
    BY <1>2 DEF Trying
  <1>10. Trying(p, d)'
    BY <1>3, <1>5, <1>6, <1>7, <1>8, <1>9 DEF Trying, Best
  <1>11. Succeeding(p)'
    BY <1>1 DEF Succeeding
  <1>12. QED
    BY <1>10, <1>11

\* Whatever a step of load_programs changes is on the device of p.
LEMMA LoaderMoves ==
  ASSUME TypeInv, NEW p \in Proc, Loader(p)
  PROVE  /\ pc[p] \in Loading /\ pc'[p] \in {"load"} \cup Loading /\ loaded[p] \subseteq loaded'[p]
         /\ UNCHANGED <<here, cmd, calls, named, todo, dev>> /\ Gains(p)
  <1> USE JobFunctions, FreeFunctions DEF Goto, Report, Skip, jobVars
  <1>1. /\ pc[p] \in Loading /\ pc'[p] \in {"load"} \cup Loading
        /\ \A n \in pins' \ pins : n.dev = dev[p]
    BY LoaderPins
  <1>2. CASE MkDir(p) \/ AttachDone(p) \/ EndClean(p) \/ PinMap(p)
    <2>1. UNCHANGED <<here, cmd, calls, named, todo, dev, held, loaded>>
      BY <1>2 DEF MkDir, AttachDone, EndClean, PinMap, kernelVars
    <2>2. QED
      BY <1>1, <2>1 DEF Gains, OnDevice
  <1>3. CASE PinMapsDone(p)
    <2>1. UNCHANGED <<here, cmd, calls, named, todo, dev, held>>
      BY <1>3 DEF PinMapsDone, kernelVars
    <2>2. loaded'[p] \in {loaded[p], loaded[p] \cup {<<dev[p], obj[p]>>}}
      BY <1>3 DEF PinMapsDone
    <2>3. QED
      BY <1>1, <2>1, <2>2 DEF Gains, OnDevice
  <1>4. CASE Attach(p)
    <2>1. UNCHANGED <<here, cmd, calls, named, todo, dev, loaded>>
      BY <1>4 DEF Attach, kernelVars
    <2>2. \A n \in held'[p] \ held[p] : n.dev = dev[p]
      <3>1. PICK e \in left[p] :
              \/ held' = [held EXCEPT ![p] = @ \cup {Node(dev[p], obj[p], e, p)}]
              \/ held' = held
        BY <1>4 DEF Attach
      <3>2. QED
        BY <3>1 DEF Node
    <2>3. QED
      BY <1>1, <2>1, <2>2 DEF Gains, OnDevice
  <1>5. CASE PinLink(p)
    <2>1. UNCHANGED <<here, cmd, calls, named, todo, dev, loaded>>
      BY <1>5 DEF PinLink, kernelVars
    <2>2. held'[p] \subseteq held[p]
      <3>1. PICK e \in left[p] :
              \/ held' = [held EXCEPT ![p] = @ \ {Node(dev[p], obj[p], e, p)}]
              \/ held' = held
        BY <1>5 DEF PinLink
      <3>2. QED
        BY <3>1
    <2>3. QED
      BY <1>1, <2>1, <2>2 DEF Gains, OnDevice
  <1>6. QED
    BY <1>2, <1>3, <1>4, <1>5 DEF Loader

LEMMA LoaderTurn ==
  ASSUME Distinct, WholeFiles, TypeInv, OneCommand, \A q \in Proc : FreeOf(q), NEW p \in Proc,
         ProgressOf(p), NEW d \in Device, TurnOf(p, d), Loader(p)
  PROVE  TurnOf(p, d)'
  <1>1. /\ pc[p] \in Loading /\ pc'[p] \in {"load"} \cup Loading /\ loaded[p] \subseteq loaded'[p]
        /\ UNCHANGED <<here, cmd, calls, named, todo, dev>> /\ Gains(p)
    BY LoaderMoves
  <1>2. CASE Waiting(p, d)
    BY <1>1, <1>2, WaitingStays DEF TurnOf, OnDevice
  <1>3. CASE Satisfied(p, d)
    BY <1>1, <1>3, SatisfiedStays DEF TurnOf
  <1>4. CASE Trying(p, d) /\ Succeeding(p)
    <2>1. ~EndClean(p)
      BY <1>4 DEF EndClean, Succeeding
    <2>2. Trying(p, d)' /\ Succeeding(p)'
      BY <1>1, <1>4, <2>1, AttachTurn, PinLinkTurn, PinMapTurn, MkDirTurn, AttachDoneTurn,
         PinMapsDoneTurn DEF Loader
    <2>3. QED
      BY <2>2 DEF TurnOf
  <1>5. QED
    BY <1>2, <1>3, <1>4 DEF TurnOf

-----------------------------------------------------------------------------
(* The other steps.                                                        *)

LEMMA StepKeeps ==
  ASSUME TypeInv, NEW p \in Proc, Step(p)
  PROVE  /\ \A q \in Proc \ {p} :
              Same(q) /\ named'[q] = named[q] /\ held'[q] = held[q] /\ loaded'[q] = loaded[q]
         /\ \A n \in pins' \ pins : n.by = p
         /\ pc'[p] # "idle"
         /\ held'[p] # {} => Running(p)'
  <1> USE JobFunctions, FreeFunctions DEF Goto, Exit, Report, Skip, jobVars, fsVars, Running
  <1>1. \A q \in Proc \ {p} : Same(q)
    BY StepOthers
  <1>2. CASE Unlink(p) \/ RmDir(p)
    BY <1>1, <1>2 DEF Unlink, RmDir
  <1>3. CASE RemoveNext(p) \/ EndRemove(p) \/ RemoveBadPath(p) \/ RemoveDone(p)
    BY <1>1, <1>3 DEF RemoveNext, EndRemove, RemoveBadPath, RemoveDone
  <1>4. CASE CheckPaths(p)
    BY <1>1, <1>4 DEF CheckPaths
  <1>5. CASE NextDevice(p) \/ NoDevice(p) \/ AddDone(p) \/ CallDone(p) \/ DeviceDone(p)
    BY <1>1, <1>5 DEF NextDevice, NoDevice, AddDone, CallDone, DeviceDone
  <1>6. CASE LoadAndProbe(p)
    BY <1>1, <1>6 DEF LoadAndProbe
  <1>7. CASE Loader(p)
    <2>1. /\ pc'[p] \in {"load"} \cup Loading /\ named' = named
          /\ \A n \in pins' \ pins : n.by = p
      BY <1>7, LoaderPins, LoaderMoves
    <2>2. CASE MkDir(p) \/ AttachDone(p) \/ PinMapsDone(p) \/ EndClean(p) \/ PinMap(p)
      BY <1>1, <2>1, <2>2 DEF MkDir, AttachDone, PinMapsDone, EndClean, PinMap
    <2>3. CASE Attach(p)
      BY <1>1, <2>1, <2>3 DEF Attach
    <2>4. CASE PinLink(p)
      BY <1>1, <2>1, <2>4 DEF PinLink
    <2>5. QED
      BY <1>7, <2>2, <2>3, <2>4 DEF Loader
  <1>8. QED
    BY <1>2, <1>3, <1>4, <1>5, <1>6, <1>7 DEF Step, Remover, Adder

\* Every device of a command is in one of its calls.
Covers(c) == \A d \in Range(c.devs) : With(c.calls, d) # {}

LEMMA TypedCovers ==
  ASSUME OneCall, NEW c \in Commands, c.op = "add"
  PROVE  Covers(c)
  <1>1. PICK S \in SUBSET Object : c.calls = <<[devs |-> c.devs, objs |-> S]>>
    BY DEF OneCall
  <1>2. 1 \in DOMAIN c.calls /\ c.calls[1].devs = c.devs
    BY <1>1
  <1>3. QED
    BY <1>2 DEF Covers, With

LEMMA MatchCovers ==
  ASSUME NEW p \in Proc, NEW m \in Matches, CliMatch(p, m)
  PROVE  \E c : Begin(p, c) /\ Covers(c)
  <1> DEFINE Found(o) == {d \in Compatible[o] : Here(d)}
             pairs == {x \in Range(m.objs) \X Device : x[2] \in Found(x[1])}
             Line(ds, f) == [op |-> "add", replace |-> m.replace,
                             devs |-> [i \in DOMAIN ds |-> ds[i][2]],
                             calls |-> [i \in DOMAIN m.objs |->
                                          [devs |-> f[m.objs[i]], objs |-> {m.objs[i]}]]]
  <1>1. PICK ds \in Orders(pairs), f \in [Range(m.objs) -> UNION {Orders(Found(o)) : o \in Object}] :
          (\A o \in DOMAIN f : f[o] \in Orders(Found(o))) /\ Begin(p, Line(ds, f))
    BY DEF CliMatch
  <1>2. ASSUME NEW d \in Range(Line(ds, f).devs) PROVE With(Line(ds, f).calls, d) # {}
    <2>1. PICK i \in DOMAIN ds : ds[i][2] = d
      BY <1>2 DEF Range
    <2>2. ds[i] \in pairs
      BY <2>1 DEF Orders
    <2>3. PICK j \in DOMAIN m.objs : m.objs[j] = ds[i][1]
      BY <2>2 DEF Range
    <2>4. d \in Found(m.objs[j]) /\ m.objs[j] \in Range(m.objs)
      BY <2>1, <2>2, <2>3
    <2>5. f[m.objs[j]] \in Orders(Found(m.objs[j]))
      BY <1>1, <2>4
    <2>6. d \in Range(f[m.objs[j]])
      BY <2>4, <2>5 DEF Orders, Range
    <2>7. /\ j \in DOMAIN Line(ds, f).calls
          /\ Line(ds, f).calls[j].devs = f[m.objs[j]]
      BY <2>3
    <2>8. QED
      BY <2>6, <2>7 DEF With
  <1>3. QED
    BY <1>1, <1>2 DEF Covers

\* A command begins before all of its devices.
LEMMA BeginTurn ==
  ASSUME TypeInv, NEW p \in Proc, FreeOf(p), NEW c, Begin(p, c), c.op = "add" => Covers(c)
  PROVE  TurnsOf(p)' /\ FreeOf(p)'
  <1>1. /\ pc[p] = "idle" /\ pc'[p] \in {"remove", "check"}
        /\ cmd'[p] = c /\ calls'[p] = c.calls
        /\ UNCHANGED <<pins, held, loaded>>
    BY BeginOthers
  <1>2. held[p] = {} /\ loaded[p] = {} /\ \A n \in pins : n.by # p
    BY <1>1 DEF FreeOf, Running
  <1>3. FreeOf(p)'
    BY <1>1, <1>2 DEF FreeOf
  <1>4. ASSUME c.op = "add", NEW d \in Device, d \in Range(c.devs) PROVE Waiting(p, d)'
    <2>1. With(c.calls, d) # {}
      BY <1>4 DEF Covers
    <2>2. FirstNamed(p, d)' = FirstIn(calls'[p], d)
      BY <1>1 DEF FirstNamed, FirstIn, With, Selected
    <2>3. With(calls[p], d)' = With(c.calls, d) /\ FirstIn(calls[p], d)' = FirstIn(calls'[p], d)
      BY <1>1 DEF With, FirstIn, Selected
    <2>4. ~OnDevice(p)'
      BY <1>1 DEF OnDevice
    <2>5. QED
      BY <1>1, <1>2, <2>1, <2>2, <2>3, <2>4 DEF Waiting
  <1>5. TurnsOf(p)'
    BY <1>1, <1>4 DEF TurnsOf, Replacing, TurnOf
  <1>6. QED
    BY <1>3, <1>5

\* A device that comes or goes.
LEMMA KernelTurn ==
  ASSUME TypeInv, NEW e \in Device, Plug(e) \/ Trigger(e) \/ Unplug(e) \/ Lister(e)
  PROVE  /\ \A p \in Proc : Same(p)
         /\ UNCHANGED <<pins, dirs, named, held, loaded>>
         /\ \A d \in Device : here'[d] # "gone" => here[d] # "gone" /\ (Here(d) => Here(d)')
  <1>1. UNCHANGED <<fsVars, pc, jobVars, loadVars, held, seen, loaded>>
    BY OthersStay
  <1>2. \A d \in Device : here'[d] # "gone" => here[d] # "gone" /\ (Here(d) => Here(d)')
    BY FreeFunctions DEF Plug, Trigger, Unplug, Lister, ListStart, ListObject, ListDone, kernelVars, Here
  <1>3. QED
    BY <1>1, <1>2 DEF fsVars, jobVars, loadVars, Same

LEMMA AdderTurn ==
  ASSUME Distinct, OwnsInv, NEW p \in Proc, Replacing(p), NEW d \in Device, d \in Range(cmd[p].devs),
         TurnOf(p, d), Adder(p), Running(p)'
  PROVE  TurnOf(p, d)'
  <1>0. TypeInv
    BY DEF OwnsInv
  <1>1. ~NoDevice(p) /\ ~AddDone(p)
    BY <1>0, JobFunctions DEF NoDevice, AddDone, Exit, Goto, Running
  <1>2. QED
    BY <1>0, <1>1, CheckTurn, NextDeviceTurn, CallDoneTurn, DeviceDoneTurn, ProbeTurn DEF Adder

LEMMA StepTurn ==
  ASSUME Distinct, WholeFiles, TurnInv, NEW p \in Proc, Step(p)
  PROVE  \A q \in Proc : FreeOf(q)' /\ TurnsOf(q)'
  <1>0. /\ OwnsInv /\ TypeInv /\ OneCommand /\ ProgressOf(p)
        /\ \A q \in Proc : FreeOf(q) /\ TurnsOf(q)
    BY DEF TurnInv, OwnsInv, CompleteInv, Progress
  <1>1. /\ \A q \in Proc \ {p} :
             Same(q) /\ named'[q] = named[q] /\ held'[q] = held[q] /\ loaded'[q] = loaded[q]
        /\ \A n \in pins' \ pins : n.by = p
        /\ pc'[p] # "idle" /\ (held'[p] # {} => Running(p)')
    BY <1>0, StepKeeps
  <1>2. Running(p) /\ cmd' = cmd
    BY <1>0, StepOthers
  <1>3. here' = here
    BY DEF Step, Remover, RemoveNext, RemoveBadPath, RemoveDone, Unlink, RmDir, EndRemove,
           Adder, CheckPaths, NextDevice, NoDevice, AddDone, CallDone, LoadAndProbe, DeviceDone,
           Loader, MkDir, Attach, PinLink, AttachDone, PinMap, PinMapsDone, EndClean, kernelVars
  <1>4. ASSUME Replacing(p)', NEW d \in Device, d \in Range(cmd[p].devs), here[d] # "gone"
        PROVE  TurnOf(p, d)'
    <2>1. Replacing(p) /\ Running(p)' /\ TurnOf(p, d)
      BY <1>0, <1>2, <1>4 DEF Replacing, TurnsOf
    <2>2. CASE Remover(p)
      BY <1>0, <2>1, <2>2, RemoverTurn
    <2>3. CASE Adder(p)
      BY <1>0, <1>4, <2>1, <2>3, AdderTurn
    <2>4. CASE Loader(p)
      BY <1>0, <2>1, <2>4, LoaderTurn
    <2>5. QED
      BY <2>2, <2>3, <2>4 DEF Step
  <1>5. FreeOf(p)' /\ TurnsOf(p)'
    BY <1>1, <1>2, <1>3, <1>4 DEF FreeOf, TurnsOf
  <1>6. ASSUME NEW q \in Proc, q # p PROVE FreeOf(q)' /\ TurnsOf(q)'
    <2>1. ~Running(q) /\ ~Running(q)' /\ Same(q)
      BY <1>0, <1>1, <1>2, <1>6 DEF OneCommand, Running, Same
    <2>2. FreeOf(q)'
      BY <1>0, <1>1, <1>6, <2>1 DEF FreeOf, Same
    <2>3. QED
      BY <2>1, <2>2 DEF TurnsOf, Replacing
  <1>7. QED
    BY <1>5, <1>6

LEMMA NextTurnInv ==
  ASSUME Serial, WholeFiles, OneCall, Distinct, TurnInv, [Next]_vars
  PROVE  TurnInv'
  <1>0. /\ TypeInv /\ OneCommand /\ OwnsInv' /\ CompleteInv'
        /\ \A q \in Proc : FreeOf(q) /\ TurnsOf(q)
    BY NextOwnsInv, NextTypeInv, NextLoadedIsComplete, NextProgress
    DEF TurnInv, OwnsInv, CompleteInv
  <1>1. SUFFICES \A q \in Proc : FreeOf(q)' /\ TurnsOf(q)'
    BY <1>0 DEF TurnInv
  <1>2. ASSUME \A q \in Proc : Same(q), UNCHANGED <<pins, dirs, named, held, loaded>>,
               \A d \in Device : here'[d] # "gone" => here[d] # "gone" /\ (Here(d) => Here(d)')
        PROVE  \A q \in Proc : FreeOf(q)' /\ TurnsOf(q)'
    <2>1. ASSUME NEW q \in Proc, NEW d \in Device, TurnOf(q, d), here'[d] # "gone" PROVE TurnOf(q, d)'
      BY <1>2, <2>1, TurnStays
    <2>2. \A q \in Proc : FreeOf(q)'
      BY <1>0, <1>2 DEF FreeOf, Same, Running
    <2>3. \A q \in Proc : TurnsOf(q)'
      BY <1>0, <1>2, <2>1 DEF TurnsOf, Replacing, Same, Running
    <2>4. QED
      BY <2>2, <2>3
  <1>3. ASSUME NEW d \in Device, Plug(d) \/ Trigger(d) \/ Unplug(d) \/ Lister(d)
        PROVE  \A q \in Proc : FreeOf(q)' /\ TurnsOf(q)'
    BY <1>0, <1>2, <1>3, KernelTurn
  <1>4. CASE UNCHANGED vars
    BY <1>2, <1>4 DEF vars, fsVars, kernelVars, jobVars, loadVars, Same, Here
  <1>5. ASSUME NEW p \in Proc, NEW c, Begin(p, c), c.op = "add" => ~c.replace \/ Covers(c)
        PROVE  \A q \in Proc : FreeOf(q)' /\ TurnsOf(q)'
    <2>1. /\ \A q \in Proc \ {p} : Same(q) /\ ~Running(q)
          /\ cmd'[p] = c /\ UNCHANGED <<pins, held, loaded>>
      BY <1>0, <1>5, BeginOthers DEF Begin
    <2>2. ASSUME NEW q \in Proc, q # p PROVE FreeOf(q)' /\ TurnsOf(q)'
      BY <1>0, <2>1, <2>2 DEF FreeOf, TurnsOf, Replacing, Running, Same
    <2>3. FreeOf(p)' /\ TurnsOf(p)'
      <3>1. CASE c.op = "add" => Covers(c)
        BY <1>0, <1>5, <3>1, BeginTurn
      <3>2. CASE ~c.replace
        <4>1. pc[p] = "idle" /\ pc'[p] \in {"remove", "check"}
          BY <1>0, <1>5, BeginOthers
        <4>2. QED
          BY <1>0, <2>1, <3>2, <4>1 DEF FreeOf, TurnsOf, Replacing, Running
      <3>3. QED
        BY <1>5, <3>1, <3>2
    <2>4. QED
      BY <2>2, <2>3
  <1>6. ASSUME NEW p \in Proc, NEW d \in Device, UdevStart(p, d)
        PROVE  \A q \in Proc : FreeOf(q)' /\ TurnsOf(q)'
    <2>1. \E c : Begin(p, c) /\ ~c.replace
      BY <1>6 DEF UdevStart
    <2>2. QED
      BY <1>5, <2>1
  <1>7. ASSUME NEW p \in Proc, NEW c \in Commands, CliStart(p, c)
        PROVE  \A q \in Proc : FreeOf(q)' /\ TurnsOf(q)'
    BY <1>5, <1>7, TypedCovers DEF CliStart
  <1>8. ASSUME NEW p \in Proc, NEW m \in Matches, CliMatch(p, m)
        PROVE  \A q \in Proc : FreeOf(q)' /\ TurnsOf(q)'
    BY <1>5, <1>8, MatchCovers
  <1>9. ASSUME NEW p \in Proc, Kill(p) PROVE \A q \in Proc : FreeOf(q)' /\ TurnsOf(q)'
    <2>1. /\ \A q \in Proc \ {p} : Same(q)
          /\ Running(p) /\ pc'[p] = "dead" /\ UNCHANGED <<pins, loaded>>
          /\ held'[p] = {} /\ \A q \in Proc \ {p} : held'[q] = held[q]
      BY <1>0, <1>9, KillOthers, FreeFunctions DEF Kill, fsVars
    <2>2. \A q \in Proc \ {p} : ~Running(q)
      BY <1>0, <2>1 DEF OneCommand
    <2>3. QED
      BY <1>0, <2>1, <2>2 DEF FreeOf, TurnsOf, Replacing, Running, Same
  <1>10. ASSUME NEW p \in Proc, Step(p) PROVE \A q \in Proc : FreeOf(q)' /\ TurnsOf(q)'
    BY <1>10, StepTurn
  <1>11. QED
    BY <1>3, <1>4, <1>6, <1>7, <1>8, <1>9, <1>10 DEF Next

\* When commands are typed one after the other, an add --replace that succeeds has
\* loaded the best file of every group on each of its devices that is still there: the
\* removal it began with has freed the names, the directories and the place of the one
\* report descriptor fixup, so that nothing it loads fails, nothing makes it fall back to
\* an older file, and a device that several calls name has its best from the first.
THEOREM ReplacementIsBest ==
  ASSUME Serial, WholeFiles, OneCall, Distinct
  PROVE  Spec => ReplaceLoadsBest
  <1>1. ASSUME TurnInv, [Next]_vars
        PROVE  [\A p \in Proc, d \in Device, o \in Object :
                  Replaces(p, d) /\ Here(d) /\ Best(d, FirstNamed(p, d), o) => <<d, o>> \in loaded[p]]_vars
    <2>1. ASSUME NEW p \in Proc, NEW d \in Device, NEW o \in Object, Replaces(p, d), Here(d),
                 Best(d, FirstNamed(p, d), o)
          PROVE  <<d, o>> \in loaded[p]
      <3>1. AddDone(p)
        BY <1>1, <2>1, AddDoneStep DEF TurnInv, OwnsInv, Replaces
      <3>2. pc[p] = "check" /\ calls[p] = <<>> /\ Replacing(p)
        BY <2>1, <3>1 DEF AddDone, Replaces, Replacing, Running
      <3>3. d \in Range(cmd[p].devs)
        BY <2>1 DEF Replaces, Range
      <3>4. TurnOf(p, d)
        BY <1>1, <2>1, <3>2, <3>3 DEF TurnInv, TurnsOf, Here
      <3>5. ~Waiting(p, d) /\ ~Trying(p, d)
        BY <3>2 DEF Waiting, Trying, OnDevice, With
      <3>6. QED
        BY <2>1, <3>4, <3>5 DEF TurnOf, Satisfied
    <2>2. QED
      BY <2>1
  <1>2. TurnInv /\ [Next]_vars => TurnInv'
    BY NextTurnInv
  <1>3. Init => TurnInv
    BY InitOwnsInv, InitCompleteInv DEF Init, TurnInv, FreeOf, TurnsOf, Replacing, Running
  <1>4. QED
    BY <1>1, <1>2, <1>3, PTL DEF Spec, ReplaceLoadsBest
=============================================================================
