--------------------- MODULE BpfLoaderRefinementProofs ---------------------
(***************************************************************************)
(* BpfLoader implements StemLoader: a device that udevd serves alone gets  *)
(* of every group of files the best one it accepts, and no other.          *)
(***************************************************************************)
EXTENDS BpfLoaderUdevProofs

\* Files as those of the repository, again: a HidBPFTrace object has a program, and
\* the files with a report descriptor fixup for a device are of one group.
Loadable ==
  /\ \A o \in Tracing : Links[o] # {}
  /\ \A d \in Device : \A x, y \in Fixup \cap Offered[d] \cap Accepts[d] : Stem[x] = Stem[y]

USE DEF Exited, Loading

\* What the device of p offers and accepts.
Choice(p) == Offered[dev[p]] \cap Accepts[dev[p]]

\* Before p has come to its device it has loaded nothing, and it was asked for nothing
\* in particular.
FreshOf(p) ==
  /\ loaded[p] # {} => Adds(p)
  /\ pc[p] = "check" /\ calls[p] # <<>> => loaded[p] = {}
  /\ pc[p] = "device" /\ todo[p] # <<>> => loaded[p] = {} /\ named[p] = {}

\* While the device is there, what p has not tried is a candidate, or its group is served.
TryOf(p) ==
  pc[p] \in {"load"} \cup Loading =>
    /\ cand[p] \subseteq Offered[dev[p]]
    /\ \A x \in loaded[p], c \in cand[p] : Stem[x[2]] # Stem[c]
    /\ Here(dev[p]) =>
         \A x \in Choice(p) : x \in cand[p] \/ \E y \in loaded[p] : Stem[y[2]] = Stem[x]

\* What p is loading is the best of its group.
BestOf(p) ==
  pc[p] \in Loading =>
    /\ obj[p] \in Accepts[dev[p]]
    /\ \A x \in Choice(p) : Stem[x] = Stem[obj[p]] => Version[x] <= Version[obj[p]]

\* Its directory stays, so that every pin succeeds, and pin_maps has nothing to clean.
PinsOf(p) ==
  pc[p] \in Loading =>
    /\ pc[p] # "clean"
    /\ \/ pc[p] = "pin" \/ done[p] # {}
       \/ obj[p] \notin Tracing /\ pc[p] # "mkdir"
       => <<dev[p], obj[p]>> \in dirs
    /\ Here(dev[p]) /\ pc[p] \in {"mkdir", "attach", "pin"} /\ done[p] = {} =>
         left[p] = Links[obj[p]]

\* A program is held open only between its attachment and its pin.
HeldOf(p) ==
  held[p] # {} =>
    /\ pc[p] = "pin" \/ (pc[p] = "mkdir" /\ obj[p] \in Tracing)
    /\ \A m, n \in held[p] : m = n /\ m.dev = dev[p]

ServesOf(p) == FreshOf(p) /\ TryOf(p) /\ BestOf(p) /\ PinsOf(p) /\ HeldOf(p)

\* What is pinned is for the device; what was unlinked had been pinned by an add that
\* is over.
ServedInv ==
  /\ StemInv /\ KnownInv
  /\ \A p \in Proc : ServesOf(p)
  /\ \A n \in pins : n.obj \in Offered[n.dev] \cap Accepts[n.dev]
  /\ \A n \in unlinked : Adds(n.by) /\ On(n.by) = n.dev /\ ~Running(n.by)

LEMMA InitServedInv == Init => ServedInv
  BY InitStemInv, InitKnownInv
  DEF Init, ServedInv, ServesOf, FreshOf, TryOf, BestOf, PinsOf, HeldOf

-----------------------------------------------------------------------------
(* Processes that do not move.                                             *)

LEMMA KeepServes ==
  ASSUME NEW q \in Proc, ServesOf(q), Same(q),
         named'[q] = named[q], held'[q] = held[q], loaded'[q] = loaded[q],
         pc[q] \in {"load"} \cup Loading /\ Here(dev[q])' => Here(dev[q]),
         pc[q] \in Loading /\ <<dev[q], obj[q]>> \in dirs => <<dev[q], obj[q]>> \in dirs'
  PROVE  ServesOf(q)'
  <1> USE DEF Same
  <1>1. FreshOf(q)'
    BY DEF ServesOf, FreshOf, Adds
  <1>2. TryOf(q)'
    BY DEF ServesOf, TryOf, Choice
  <1>3. BestOf(q)'
    BY DEF ServesOf, BestOf, Choice
  <1>4. PinsOf(q)'
    BY DEF ServesOf, PinsOf
  <1>5. HeldOf(q)'
    BY DEF ServesOf, HeldOf
  <1>6. QED
    BY <1>1, <1>2, <1>3, <1>4, <1>5 DEF ServesOf

LEMMA ServedFacts ==
  ASSUME ServedInv
  PROVE  /\ TypeInv /\ AloneInv /\ TreeInv /\ CompleteInv /\ OneAdder
         /\ \A p \in Proc : JobOf(p) /\ GroupOf(p) /\ ProgressOf(p) /\ LoadedOn(p) /\ Place(p)
  BY DEF ServedInv, StemInv, CompleteInv, KnownInv, AloneInv, Progress

\* What a step of p leaves alone.
LEMMA OthersKeep ==
  ASSUME ServedInv, NEW p \in Proc, Step(p)
  PROVE  /\ Running(p) /\ UNCHANGED <<cmd, here>>
         /\ \A q \in Proc \ {p} :
              Same(q) /\ named'[q] = named[q] /\ held'[q] = held[q] /\ loaded'[q] = loaded[q]
         /\ \A q \in Proc \ {p} : Works(q) =>
              \A o \in Object : <<dev[q], o>> \in dirs <=> <<dev[q], o>> \in dirs'
  <1>0. TypeInv /\ AloneInv /\ LoadedOn(p)
    BY ServedFacts
  <1>1. /\ Running(p) /\ cmd' = cmd /\ UNCHANGED kernelVars
        /\ \A q \in Proc \ {p} : Same(q) /\ loaded'[q] = loaded[q]
        /\ \A d \in Device \ {On(p)} : DirectoriesOf(d)' = DirectoriesOf(d)
    BY <1>0, StepOthers, OwnDevice
  <1>2. /\ named = [q \in Proc |-> named[q]] /\ held = [q \in Proc |-> held[q]]
    BY <1>0 DEF TypeInv, TypeOK
  <1>3. \A q \in Proc \ {p} : named'[q] = named[q] /\ held'[q] = held[q]
    <2> USE <1>2 DEF Exit, Report, Skip, jobVars
    <2>1. CASE Remover(p)
      BY <2>1 DEF Remover, RemoveNext, RemoveBadPath, RemoveDone, Unlink, RmDir, EndRemove
    <2>2. CASE Adder(p)
      BY <2>2 DEF Adder, CheckPaths, NextDevice, NoDevice, AddDone, CallDone, LoadAndProbe, DeviceDone
    <2>3. CASE MkDir(p) \/ AttachDone(p) \/ PinMapsDone(p) \/ EndClean(p) \/ PinMap(p)
      BY <2>3 DEF MkDir, AttachDone, PinMapsDone, EndClean, PinMap
    <2>4. CASE Attach(p)
      BY <2>4 DEF Attach
    <2>5. CASE PinLink(p)
      BY <2>5 DEF PinLink
    <2>6. QED
      BY <2>1, <2>2, <2>3, <2>4, <2>5 DEF Step, Loader
  <1>4. ASSUME NEW q \in Proc \ {p}, Works(q), NEW o \in Object
        PROVE  <<dev[q], o>> \in dirs <=> <<dev[q], o>> \in dirs'
    <2>1. dev[q] = On(q) /\ On(q) # On(p) /\ dev[q] \in Device
      BY <1>0, <1>1, <1>4 DEF AloneInv, Place, OneRunner, Works, Running, TypeInv, Assigned
    <2>2. \A d \in Device \ {On(p)} : \A x \in Object : <<d, x>> \in dirs <=> <<d, x>> \in dirs'
      BY <1>1 DEF DirectoriesOf
    <2>3. QED
      BY <2>1, <2>2
  <1>5. QED
    BY <1>1, <1>3, <1>4 DEF kernelVars

\* So p keeps the invariant when it keeps its part of it.
LEMMA StepServed ==
  ASSUME ServedInv, StemInv', KnownInv', NEW p \in Proc, Step(p), ServesOf(p)',
         \A n \in pins' \ pins : n.obj \in Offered[n.dev] \cap Accepts[n.dev],
         \A n \in unlinked' \ unlinked : Adds(n.by) /\ On(n.by) = n.dev /\ ~Running(n.by)
  PROVE  ServedInv'
  <1>1. /\ Running(p) /\ UNCHANGED <<cmd, here>>
        /\ \A q \in Proc \ {p} :
             Same(q) /\ named'[q] = named[q] /\ held'[q] = held[q] /\ loaded'[q] = loaded[q]
        /\ \A q \in Proc \ {p} : Works(q) =>
             \A o \in Object : <<dev[q], o>> \in dirs <=> <<dev[q], o>> \in dirs'
    BY OthersKeep
  <1>2. ASSUME NEW q \in Proc, q # p PROVE ServesOf(q)'
    <2>1. ServesOf(q) /\ (pc[q] \in Loading => Works(q) /\ obj[q] \in Object)
      BY ServedFacts DEF ServedInv, Works, TypeInv, Assigned
    <2>2. pc[q] \in Loading /\ <<dev[q], obj[q]>> \in dirs => <<dev[q], obj[q]>> \in dirs'
      BY <1>1, <1>2, <2>1
    <2>3. Here(dev[q])' => Here(dev[q])
      BY <1>1, <1>2 DEF Here, Same
    <2>4. QED
      BY <1>1, <1>2, <2>1, <2>2, <2>3, KeepServes
  <1>3. \A n \in unlinked \cup unlinked' : n.by \in Proc
    BY ServedFacts DEF StemInv, CompleteInv, TypeInv, TypeOK, NodeSet
  <1>4. \A q \in Proc : On(q)' = On(q) /\ (Adds(q) => Adds(q)') /\ (Running(q)' => Running(q))
    <2>1. pc'[p] # "idle"
      BY ServedFacts, StepStarted
    <2>2. QED
      BY <1>1, <2>1 DEF On, Adds, Running, Same
  <1>5. \A n \in unlinked' : (Adds(n.by) /\ On(n.by) = n.dev /\ ~Running(n.by))'
    <2>1. \A n \in unlinked' : Adds(n.by) /\ On(n.by) = n.dev /\ ~Running(n.by)
      BY DEF ServedInv
    <2>2. QED
      BY <1>3, <1>4, <2>1
  <1>6. \A n \in pins' : n.obj \in Offered[n.dev] \cap Accepts[n.dev]
    BY DEF ServedInv
  <1>7. QED
    BY <1>2, <1>5, <1>6 DEF ServedInv

-----------------------------------------------------------------------------
(* The steps of one process.                                               *)

LEMMA RemoverServed ==
  ASSUME ServedInv, StemInv', KnownInv', NEW p \in Proc, Remover(p)
  PROVE  ServedInv'
  <1>0. /\ TypeInv /\ JobOf(p) /\ Place(p) /\ AloneInv
        /\ FreshOf(p) /\ HeldOf(p) /\ PinsOf(p)
    BY ServedFacts DEF ServedInv, ServesOf
  <1>1. Running(p) /\ cmd' = cmd /\ loaded' = loaded /\ pc[p] \in {"remove", "walk"}
    <2>1. pc[p] # "clean"
      BY <1>0 DEF PinsOf
    <2>2. QED
      BY <1>0, <2>1, StepOthers
      DEF Remover, RemoveNext, RemoveBadPath, RemoveDone, Unlink, RmDir, EndRemove, Step
  <1>2. cmd[p].op = "remove" /\ loaded[p] = {} /\ held[p] = {}
    BY <1>0, <1>1 DEF JobOf, FreshOf, HeldOf, Adds
  <1>3. held = [q \in Proc |-> held[q]]
    BY <1>0 DEF TypeInv, TypeOK
  <1>4. pc'[p] \in {"remove", "walk", "ok", "err"} /\ held'[p] = {}
    <2> USE <1>0, <1>2, <1>3, JobFunctions DEF Goto, Exit
    <2>1. CASE Unlink(p) \/ RmDir(p)
      BY <1>1, <2>1 DEF Unlink, RmDir
    <2>2. CASE RemoveNext(p) \/ RemoveBadPath(p) \/ RemoveDone(p) \/ EndRemove(p)
      BY <2>2 DEF RemoveNext, RemoveBadPath, RemoveDone, EndRemove
    <2>3. QED
      BY <2>1, <2>2 DEF Remover
  <1>5. ServesOf(p)'
    BY <1>1, <1>2, <1>4 DEF ServesOf, FreshOf, TryOf, BestOf, PinsOf, HeldOf
  <1>6. pins' \subseteq pins
    BY DEF Remover, RemoveNext, RemoveBadPath, RemoveDone, Unlink, RmDir, EndRemove, fsVars
  <1>7. ASSUME NEW n \in unlinked' \ unlinked
        PROVE  Adds(n.by) /\ On(n.by) = n.dev /\ ~Running(n.by)
    <2>1. n \in pins /\ n.dev = dev[p] /\ pc[p] = "walk"
      BY <1>1, <1>7 DEF Remover, RemoveNext, RemoveBadPath, RemoveDone, Unlink, RmDir, EndRemove,
                        fsVars, Under
    <2>2. Adds(n.by) /\ On(n.by) = n.dev /\ n.by \in Proc
      BY <1>0, <2>1 DEF ServedInv, StemInv, PinOf, TypeInv, TypeOK, NodeSet
    <2>3. dev[p] = On(p)
      BY <1>0, <2>1 DEF Place, Works
    <2>4. n.by # p
      BY <1>2, <2>2 DEF Adds
    <2>5. QED
      BY <1>0, <1>1, <2>1, <2>2, <2>3, <2>4 DEF AloneInv, OneRunner
  <1>8. QED
    BY <1>5, <1>6, <1>7, StepServed DEF Step

LEMMA NoneInstalled ==
  ASSUME OneAdd, NEW d \in Device
  PROVE  Offered[d] = Selected({}, d)
  <1>1. Range(<<>>) = {}
    BY DEF Range
  <1>2. QED
    BY <1>1 DEF OneAdd, Offered, Selected

LEMMA AdderServed ==
  ASSUME OneAdd, ServedInv, StemInv', KnownInv', NEW p \in Proc, Adder(p)
  PROVE  ServedInv'
  <1>0. /\ TypeInv /\ JobOf(p) /\ Place(p)
        /\ ServesOf(p) /\ FreshOf(p) /\ TryOf(p) /\ HeldOf(p)
    BY ServedFacts DEF ServedInv, ServesOf
  <1>1. /\ Running(p) /\ cmd' = cmd
        /\ UNCHANGED <<here, dirs, pins, unlinked>> /\ pc[p] \in {"check", "device", "load"}
    BY <1>0, StepOthers
    DEF Adder, CheckPaths, NextDevice, NoDevice, AddDone, CallDone, LoadAndProbe, DeviceDone,
        fsVars, kernelVars, Step
  <1>2. loaded' = loaded
    BY DEF Adder, CheckPaths, NextDevice, NoDevice, AddDone, CallDone, LoadAndProbe, DeviceDone, Report
  <1>3. Adds(p) /\ held[p] = {} /\ dev[p] \in Device \cup {None}
    BY <1>0, <1>1 DEF JobOf, HeldOf, Adds, TypeInv, TypeOK
  <1>4. held'[p] = {}
    <2>1. held = [q \in Proc |-> held[q]]
      BY <1>0 DEF TypeInv, TypeOK
    <2>2. QED
      BY <1>3, <2>1
      DEF Adder, CheckPaths, NextDevice, NoDevice, AddDone, CallDone, LoadAndProbe, DeviceDone, Exit
  <1>5. ASSUME ServesOf(p)' PROVE ServedInv'
    BY <1>1, <1>5, StepServed DEF Step
  <1>6. ASSUME pc'[p] \in {"ok", "err", "check", "device"},
               pc'[p] = "check" => calls'[p] = <<>> \/ loaded[p] = {},
               pc'[p] = "device" => todo'[p] = <<>> \/ (loaded[p] = {} /\ named'[p] = {})
        PROVE  ServedInv'
    <2>1. Adds(p)'
      BY <1>1, <1>3, <1>6 DEF Adds
    <2>2. ServesOf(p)'
      BY <1>2, <1>4, <1>6, <2>1 DEF ServesOf, FreshOf, TryOf, BestOf, PinsOf, HeldOf
    <2>3. QED
      BY <1>5, <2>2
  <1>a. named = [q \in Proc |-> named[q]]
    BY <1>0 DEF TypeInv, TypeOK
  <1> USE <1>a, JobFunctions DEF Goto, jobVars
  <1>7. CASE CheckPaths(p)
    <2>1. calls[p] = <<[devs |-> <<On(p)>>, objs |-> {}]>> /\ loaded[p] = {}
      BY <1>0, <1>7 DEF CheckPaths, JobOf, FreshOf
    <2>2. Head(calls[p]).objs = {}
      BY <2>1
    <2>3. \/ pc'[p] = "device" /\ named'[p] = {}
          \/ pc'[p] = "err"
      BY <1>0, <1>7, <2>2 DEF CheckPaths, Exit
    <2>4. QED
      BY <1>6, <2>1, <2>3
  <1>8. CASE NextDevice(p)
    <2>1. todo[p] = <<On(p)>> /\ loaded[p] = {} /\ named[p] = {} /\ On(p) \in Device
      BY <1>0, <1>3, <1>8 DEF NextDevice, JobOf, FreshOf
    <2>2. Head(todo[p]) = On(p)
      BY <2>1
    <2>3. /\ pc'[p] = "load" /\ dev'[p] = On(p) /\ cand'[p] = Selected({}, On(p))
      BY <1>0, <1>8, <2>1, <2>2 DEF NextDevice
    <2>4. cand'[p] = Offered[dev'[p]]
      BY <2>1, <2>3, NoneInstalled
    <2>5. Adds(p)'
      BY <1>1, <1>3, <2>3 DEF Adds
    <2>6. FreshOf(p)' /\ HeldOf(p)' /\ PinsOf(p)' /\ BestOf(p)'
      BY <1>2, <1>4, <2>3, <2>5 DEF FreshOf, HeldOf, PinsOf, BestOf
    <2>7. TryOf(p)'
      BY <1>2, <2>1, <2>4 DEF TryOf, Choice
    <2>8. QED
      BY <1>5, <2>6, <2>7 DEF ServesOf
  <1>9. CASE NoDevice(p) \/ AddDone(p)
    BY <1>0, <1>6, <1>9 DEF NoDevice, AddDone, Exit
  <1>10. CASE CallDone(p)
    <2>1. calls[p] = <<>> /\ pc'[p] = "check" /\ calls' = calls
      BY <1>0, <1>10 DEF CallDone, JobOf
    <2>2. QED
      BY <1>6, <2>1
  <1>11. CASE DeviceDone(p)
    <2>1. todo[p] = <<>> /\ pc'[p] = "device" /\ todo' = todo
      BY <1>0, <1>11 DEF DeviceDone, JobOf
    <2>2. QED
      BY <1>6, <2>1
  <1>12. CASE LoadAndProbe(p)
    <2>1. PICK o \in cand[p] :
            /\ \A x \in cand[p] : Before(o, x)
            /\ IF Here(dev[p]) /\ o \in Accepts[dev[p]]
               THEN /\ StartObject(p, o)
                    /\ Goto(p, IF o \in Tracing THEN "attach" ELSE "mkdir")
                    /\ UNCHANGED <<jobVars, loaded>>
               ELSE Report(p, o, FALSE) /\ UNCHANGED loadVars
      BY <1>12 DEF LoadAndProbe
    <2>2. pc[p] = "load" /\ o \in Object /\ cand[p] \subseteq Object
      BY <1>0, <1>12 DEF LoadAndProbe, TypeInv, TypeOK
    <2>3. CASE Here(dev[p]) /\ o \in Accepts[dev[p]]
      <3>1. /\ obj'[p] = o /\ left'[p] = Links[o] /\ done'[p] = {}
            /\ pc'[p] = (IF o \in Tracing THEN "attach" ELSE "mkdir")
            /\ UNCHANGED <<dev, cand, calls, todo>>
        BY <1>0, <2>1, <2>3 DEF StartObject
      <3>2. Adds(p)'
        BY <1>1, <1>3, <3>1 DEF Adds
      <3>3. FreshOf(p)' /\ HeldOf(p)' /\ PinsOf(p)'
        BY <1>2, <1>4, <3>1, <3>2 DEF FreshOf, HeldOf, PinsOf
      <3>4. TryOf(p)'
        BY <1>0, <1>1, <1>2, <2>2, <3>1 DEF TryOf, Choice, Here
      <3>5. BestOf(p)'
        <4>1. ASSUME NEW x \in Choice(p), Stem[x] = Stem[o] PROVE Version[x] <= Version[o]
          <5>1. x \in cand[p]
            BY <1>0, <2>2, <2>3, <4>1 DEF TryOf
          <5>2. /\ Stem[x] \in Nat /\ Version[x] \in Nat /\ Stem[o] \in Nat /\ Version[o] \in Nat
            BY <2>2, <5>1, ObjectAssumption
          <5>3. QED
            BY <2>1, <4>1, <5>1, <5>2 DEF Before
        <4>2. QED
          BY <2>3, <3>1, <4>1 DEF BestOf, Choice
      <3>6. QED
        BY <1>5, <3>3, <3>4, <3>5 DEF ServesOf
    <2>4. CASE ~(Here(dev[p]) /\ o \in Accepts[dev[p]])
      <3>1. pc'[p] = "load" /\ cand'[p] = cand[p] \ {o} /\ UNCHANGED <<dev, calls, todo>>
        BY <1>0, <2>1, <2>4 DEF Report, Remaining
      <3>2. Adds(p)'
        BY <1>1, <1>3, <3>1 DEF Adds
      <3>3. FreshOf(p)' /\ HeldOf(p)' /\ PinsOf(p)' /\ BestOf(p)'
        BY <1>2, <1>4, <3>1, <3>2 DEF FreshOf, HeldOf, PinsOf, BestOf
      <3>4. TryOf(p)'
        BY <1>0, <1>1, <1>2, <2>2, <2>4, <3>1 DEF TryOf, Choice, Here
      <3>5. QED
        BY <1>5, <3>3, <3>4 DEF ServesOf
    <2>5. QED
      BY <2>3, <2>4
  <1>13. QED
    BY <1>7, <1>8, <1>9, <1>10, <1>11, <1>12 DEF Adder

\* Nobody takes the directory away, and a name is free until it is pinned.
LEMMA PinSucceeds ==
  ASSUME ServedInv, NEW p \in Proc, pc[p] \in {"pin", "maps"}, NEW e \in left[p]
  PROVE  CanPin(dev[p], obj[p], e)
  <1>0. /\ GroupOf(p) /\ ProgressOf(p) /\ PinsOf(p)
    BY ServedFacts DEF ServedInv, ServesOf
  <1>1. <<dev[p], obj[p]>> \in dirs
    <2>1. pc[p] = "maps" /\ obj[p] \in Tracing => done[p] # {}
      BY <1>0 DEF ProgressOf
    <2>2. QED
      BY <1>0, <2>1 DEF PinsOf
  <1>2. \A n \in pins : n.dev = dev[p] /\ n.obj = obj[p] => n.ent # e
    BY <1>0 DEF GroupOf
  <1>3. QED
    BY <1>1, <1>2 DEF CanPin

\* No other report descriptor fixup is in the way of the first program.
LEMMA AttachSucceeds ==
  ASSUME Loadable, ServedInv, NEW p \in Proc, pc[p] = "attach", done[p] = {}, Here(dev[p])
  PROVE  CanAttach(dev[p], obj[p])
  <1>0. /\ GroupOf(p) /\ BestOf(p) /\ TryOf(p) /\ Exclusive /\ dev[p] \in Device
    BY ServedFacts, AloneExclusive DEF ServedInv, ServesOf, TypeInv, Assigned
  <1>1. SUFFICES ASSUME obj[p] \in Fixup, NEW n \in Attached(dev[p]), n.obj \in Fixup PROVE FALSE
    BY DEF CanAttach
  <1>2. n.dev = dev[p]
    BY DEF Attached
  <1>3. CASE n \in pins
    <2>1. n.obj \in Fixup \cap Offered[dev[p]] \cap Accepts[dev[p]]
      BY <1>1, <1>2, <1>3 DEF ServedInv
    <2>2. obj[p] \in cand[p] /\ obj[p] \in Fixup \cap Offered[dev[p]] \cap Accepts[dev[p]]
      BY <1>0, <1>1 DEF GroupOf, BestOf, TryOf
    <2>3. Stem[n.obj] = Stem[obj[p]]
      BY <1>0, <2>1, <2>2 DEF Loadable
    <2>4. QED
      BY <1>0, <1>2, <1>3, <2>2, <2>3 DEF GroupOf
  <1>4. ASSUME NEW q \in Proc, n \in held[q] PROVE FALSE
    <2>1. pc[q] \in {"pin", "mkdir"} /\ dev[q] = dev[p]
      BY <1>2, <1>4 DEF ServedInv, ServesOf, HeldOf
    <2>2. QED
      BY <1>0, <2>1 DEF Exclusive, Works
  <1>5. QED
    BY <1>3, <1>4 DEF Attached

\* load_programs fails only when the device is gone.
LEMMA FailServes ==
  ASSUME ServedInv, NEW p \in Proc, pc[p] \in Loading, Report(p, obj[p], FALSE),
         ~Here(dev[p]), here' = here, cmd' = cmd, held'[p] = {}
  PROVE  ServesOf(p)'
  <1>0. TypeInv /\ JobOf(p) /\ FreshOf(p) /\ TryOf(p)
    BY ServedFacts DEF ServedInv, ServesOf
  <1>1. /\ pc'[p] = "load" /\ cand'[p] = cand[p] \ {obj[p]} /\ loaded' = loaded
        /\ dev' = dev
    BY <1>0, JobFunctions DEF Report, Remaining, Goto
  <1>2. Adds(p) /\ Adds(p)'
    BY <1>0, <1>1 DEF JobOf, Adds
  <1>3. TryOf(p)'
    BY <1>0, <1>1 DEF TryOf, Choice, Here
  <1>4. QED
    BY <1>1, <1>2, <1>3 DEF ServesOf, FreshOf, BestOf, PinsOf, HeldOf

\* load_programs goes on.
LEMMA LoadingServes ==
  ASSUME ServedInv, NEW p \in Proc, pc[p] \in Loading, pc'[p] \in Loading,
         UNCHANGED <<here, cmd, dev, cand, obj, loaded>>, PinsOf(p)', HeldOf(p)'
  PROVE  ServesOf(p)'
  <1>0. JobOf(p) /\ FreshOf(p) /\ TryOf(p) /\ BestOf(p)
    BY ServedFacts DEF ServedInv, ServesOf
  <1>1. Adds(p) /\ Adds(p)'
    BY <1>0 DEF JobOf, Adds
  <1>2. FreshOf(p)'
    BY <1>1 DEF FreshOf
  <1>3. TryOf(p)'
    BY <1>0 DEF TryOf, Choice, Here
  <1>4. BestOf(p)'
    BY <1>0 DEF BestOf, Choice
  <1>5. QED
    BY <1>2, <1>3, <1>4 DEF ServesOf

LEMMA AttachServes ==
  ASSUME Loadable, ServedInv, NEW p \in Proc, Attach(p), here' = here, cmd' = cmd
  PROVE  ServesOf(p)'
  <1>0. /\ TypeInv /\ GroupOf(p) /\ ProgressOf(p) /\ PinsOf(p) /\ HeldOf(p)
        /\ held = [q \in Proc |-> held[q]]
    BY ServedFacts DEF ServedInv, ServesOf, TypeInv, TypeOK
  <1>1. pc[p] = "attach" /\ held[p] = {} /\ dirs' = dirs
    BY <1>0 DEF Attach, HeldOf, fsVars
  <1> USE JobFunctions DEF Goto, jobVars, loadVars
  <1>2. PICK e \in left[p] :
          IF CanAttach(dev[p], obj[p])
          THEN /\ held' = [held EXCEPT ![p] = @ \cup {Node(dev[p], obj[p], e, p)}]
               /\ Goto(p, IF obj[p] \in Tracing THEN "mkdir" ELSE "pin")
               /\ UNCHANGED <<jobVars, loadVars, loaded>>
          ELSE Skip(p, e) /\ UNCHANGED held
    BY DEF Attach
  <1>3. CASE CanAttach(dev[p], obj[p])
    <2>1. /\ held'[p] = {Node(dev[p], obj[p], e, p)}
          /\ pc'[p] = (IF obj[p] \in Tracing THEN "mkdir" ELSE "pin")
          /\ UNCHANGED <<dev, cand, obj, left, done, loaded>>
      BY <1>0, <1>1, <1>2, <1>3
    <2>2. HeldOf(p)'
      BY <2>1 DEF HeldOf, Node
    <2>3. PinsOf(p)'
      BY <1>0, <1>1, <2>1 DEF PinsOf, Here
    <2>4. QED
      BY <1>1, <2>1, <2>2, <2>3, LoadingServes
  <1>4. ASSUME ~CanAttach(dev[p], obj[p]), obj[p] \in Tracing PROVE ServesOf(p)'
    <2>1. /\ pc'[p] = "attach" /\ left'[p] = left[p] \ {e} /\ held'[p] = {}
          /\ UNCHANGED <<dev, cand, obj, done, loaded>>
      BY <1>0, <1>1, <1>2, <1>4 DEF Skip
    <2>2. done[p] # {} \/ ~Here(dev[p])
      BY <1>1, <1>4, AttachSucceeds
    <2>3. PinsOf(p)'
      BY <1>0, <1>1, <2>1, <2>2 DEF PinsOf, Here
    <2>4. HeldOf(p)'
      BY <2>1 DEF HeldOf
    <2>5. QED
      BY <1>1, <2>1, <2>3, <2>4, LoadingServes
  <1>5. ASSUME ~CanAttach(dev[p], obj[p]), obj[p] \notin Tracing PROVE ServesOf(p)'
    <2>1. Report(p, obj[p], FALSE) /\ held'[p] = {}
      BY <1>0, <1>1, <1>2, <1>5 DEF Skip
    <2>2. done[p] = {}
      BY <1>0, <1>1, <1>5 DEF GroupOf
    <2>3. ~Here(dev[p])
      BY <1>1, <1>5, <2>2, AttachSucceeds
    <2>4. QED
      BY <1>1, <2>1, <2>3, FailServes
  <1>6. QED
    BY <1>3, <1>4, <1>5

LEMMA PinLinkServes ==
  ASSUME ServedInv, NEW p \in Proc, PinLink(p), here' = here, cmd' = cmd
  PROVE  /\ ServesOf(p)'
         /\ \E e \in left[p] : pins' = pins \cup {Node(dev[p], obj[p], e, p)}
  <1>0. /\ TypeInv /\ PinsOf(p) /\ HeldOf(p)
        /\ held = [q \in Proc |-> held[q]]
    BY ServedFacts DEF ServedInv, ServesOf, TypeInv, TypeOK
  <1>1. pc[p] = "pin" /\ dirs' = dirs
    BY DEF PinLink
  <1> USE JobFunctions DEF Goto, jobVars, loadVars
  <1>2. PICK e \in left[p] :
          /\ Node(dev[p], obj[p], e, p) \in held[p]
          /\ CanPin(dev[p], obj[p], e) =>
               /\ pins' = pins \cup {Node(dev[p], obj[p], e, p)}
               /\ held' = [held EXCEPT ![p] = @ \ {Node(dev[p], obj[p], e, p)}]
               /\ left' = [left EXCEPT ![p] = @ \ {e}]
               /\ done' = [done EXCEPT ![p] = @ \cup {e}]
               /\ Goto(p, "attach")
               /\ UNCHANGED <<obj, jobVars, loaded>>
    BY DEF PinLink
  <1>3. CanPin(dev[p], obj[p], e)
    BY <1>1, PinSucceeds
  <1>4. /\ pc'[p] = "attach" /\ done'[p] # {} /\ held'[p] = held[p] \ {Node(dev[p], obj[p], e, p)}
        /\ UNCHANGED <<dev, cand, obj, loaded>>
    BY <1>0, <1>2, <1>3
  <1>5. held'[p] = {}
    BY <1>0, <1>2, <1>4 DEF HeldOf
  <1>6. HeldOf(p)' /\ PinsOf(p)'
    BY <1>0, <1>1, <1>4, <1>5 DEF HeldOf, PinsOf
  <1>7. ServesOf(p)'
    BY <1>1, <1>4, <1>6, LoadingServes
  <1>8. QED
    BY <1>2, <1>3, <1>7

LEMMA PinMapServes ==
  ASSUME ServedInv, NEW p \in Proc, PinMap(p), here' = here, cmd' = cmd
  PROVE  /\ ServesOf(p)'
         /\ \E e \in left[p] : pins' = pins \cup {Node(dev[p], obj[p], e, p)}
  <1>0. /\ TypeInv /\ PinsOf(p) /\ HeldOf(p) /\ ProgressOf(p)
    BY ServedFacts DEF ServedInv, ServesOf
  <1>1. pc[p] = "maps" /\ dirs' = dirs /\ UNCHANGED <<obj, jobVars, held, loaded>>
    BY DEF PinMap
  <1>2. PICK e \in left[p] :
          CanPin(dev[p], obj[p], e) =>
            /\ pins' = pins \cup {Node(dev[p], obj[p], e, p)}
            /\ done' = [done EXCEPT ![p] = @ \cup {e}]
            /\ UNCHANGED pc
    BY DEF PinMap
  <1>3. CanPin(dev[p], obj[p], e)
    BY <1>1, PinSucceeds
  <1>4. pc'[p] = "maps" /\ UNCHANGED <<dev, cand>> /\ <<dev[p], obj[p]>> \in dirs
    BY <1>1, <1>2, <1>3 DEF jobVars, CanPin
  <1>5. HeldOf(p)' /\ PinsOf(p)'
    BY <1>0, <1>1, <1>4 DEF HeldOf, PinsOf
  <1>6. ServesOf(p)'
    BY <1>1, <1>4, <1>5, LoadingServes
  <1>7. QED
    BY <1>2, <1>3, <1>6

\* The other steps of load_programs: the directory, the end of the programs, the end.
LEMMA EndServes ==
  ASSUME Loadable, WholeFiles, ServedInv, NEW p \in Proc,
         MkDir(p) \/ AttachDone(p) \/ PinMapsDone(p) \/ EndClean(p), here' = here, cmd' = cmd
  PROVE  ServesOf(p)'
  <1>0. /\ TypeInv /\ JobOf(p) /\ FreshOf(p) /\ TryOf(p) /\ PinsOf(p) /\ HeldOf(p) /\ GroupOf(p)
    BY ServedFacts DEF ServedInv, ServesOf
  <1>a. /\ held' = held
    BY DEF MkDir, AttachDone, PinMapsDone, EndClean
  <1> USE JobFunctions DEF Goto, jobVars, loadVars
  <1>1. CASE MkDir(p)
    <2>1. /\ pc[p] = "mkdir" /\ pc'[p] = (IF obj[p] \in Tracing THEN "pin" ELSE "attach")
          /\ <<dev[p], obj[p]>> \in dirs' /\ UNCHANGED <<dev, cand, obj, left, done, loaded>>
      BY <1>0, <1>1 DEF MkDir
    <2>2. HeldOf(p)' /\ PinsOf(p)'
      BY <1>0, <1>a, <2>1 DEF HeldOf, PinsOf, Here
    <2>3. QED
      BY <2>1, <2>2, LoadingServes
  <1>2. CASE AttachDone(p)
    <2>1. pc[p] = "attach" /\ left[p] = {} /\ dirs' = dirs /\ held[p] = {}
      BY <1>0, <1>2 DEF AttachDone, fsVars, HeldOf
    <2>2. CASE obj[p] \in Tracing /\ done[p] = {}
      <3>1. Links[obj[p]] # {}
        BY <2>2 DEF Loadable
      <3>2. ~Here(dev[p])
        BY <1>0, <2>1, <2>2, <3>1 DEF PinsOf
      <3>3. QED
        BY <1>2, <1>a, <2>1, <2>2, <3>2, FailServes DEF AttachDone
    <2>3. CASE ~(obj[p] \in Tracing /\ done[p] = {})
      <3>1. pc'[p] = "maps" /\ UNCHANGED <<dev, cand, obj, done, loaded>>
        BY <1>0, <1>2, <2>3 DEF AttachDone
      <3>2. HeldOf(p)' /\ PinsOf(p)'
        BY <1>0, <1>a, <2>1, <2>3, <3>1 DEF HeldOf, PinsOf
      <3>3. QED
        BY <2>1, <3>1, <3>2, LoadingServes
    <2>4. QED
      BY <2>2, <2>3
  <1>3. CASE PinMapsDone(p)
    <2>1. /\ pc[p] = "maps" /\ pc'[p] = "load" /\ dev' = dev /\ held[p] = {}
          /\ cand'[p] = {x \in cand[p] : Stem[x] # Stem[obj[p]]}
      BY <1>0, <1>3 DEF PinMapsDone, Report, Remaining, HeldOf, WholeFiles
    <2>2. loaded' = [loaded EXCEPT ![p] = @ \cup {<<dev[p], obj[p]>>}]
      BY <1>3 DEF PinMapsDone, Report, WholeFiles
    <2>3. loaded'[p] = loaded[p] \cup {<<dev[p], obj[p]>>}
      BY <1>0, <2>2 DEF TypeInv, TypeOK
    <2>4. Adds(p) /\ Adds(p)'
      BY <1>0, <2>1 DEF JobOf, Adds
    <2>5. FreshOf(p)' /\ HeldOf(p)' /\ PinsOf(p)' /\ BestOf(p)'
      BY <1>a, <2>1, <2>4 DEF FreshOf, HeldOf, PinsOf, BestOf
    <2>6. cand'[p] \subseteq Offered[dev'[p]]
      BY <1>0, <2>1 DEF TryOf
    <2>7. \A x \in loaded'[p], c \in cand'[p] : Stem[x[2]] # Stem[c]
      BY <1>0, <2>1, <2>3 DEF TryOf
    <2>8. ASSUME Here(dev[p]), NEW x \in Choice(p)
          PROVE  x \in cand'[p] \/ \E y \in loaded'[p] : Stem[y[2]] = Stem[x]
      <3>1. x \in cand[p] \/ \E y \in loaded[p] : Stem[y[2]] = Stem[x]
        BY <1>0, <2>1, <2>8 DEF TryOf
      <3>2. CASE x \in cand[p] /\ Stem[x] = Stem[obj[p]]
        <4>1. <<dev[p], obj[p]>> \in loaded'[p] /\ <<dev[p], obj[p]>>[2] = obj[p]
          BY <2>3
        <4>2. QED
          BY <3>2, <4>1
      <3>3. QED
        BY <2>1, <2>3, <3>1, <3>2
    <2>9. TryOf(p)'
      BY <2>1, <2>6, <2>7, <2>8 DEF TryOf, Choice, Here
    <2>10. QED
      BY <2>5, <2>9 DEF ServesOf
  <1>4. ~EndClean(p)
    BY <1>0 DEF EndClean, PinsOf
  <1>5. QED
    BY <1>1, <1>2, <1>3, <1>4

LEMMA LoaderServed ==
  ASSUME Loadable, WholeFiles, ServedInv, StemInv', KnownInv', NEW p \in Proc, Loader(p)
  PROVE  ServedInv'
  <1>1. here' = here /\ cmd' = cmd
    BY OthersKeep DEF Step
  <1>2. ServesOf(p)'
    BY <1>1, AttachServes, PinLinkServes, PinMapServes, EndServes DEF Loader
  <1>3. /\ pc[p] \in Loading /\ unlinked' = unlinked
        /\ \A n \in pins' \ pins : n.dev = dev[p] /\ n.obj = obj[p]
    BY ServedFacts, LoaderPins
  <1>4. obj[p] \in Offered[dev[p]] \cap Accepts[dev[p]]
    BY <1>3, ServedFacts DEF ServedInv, ServesOf, TryOf, BestOf, GroupOf
  <1>5. QED
    BY <1>2, <1>3, <1>4, StepServed DEF Step

-----------------------------------------------------------------------------
(* The other steps.                                                        *)

\* Processes that stay, start, or are killed.
LEMMA OthersServed ==
  ASSUME ServedInv, StemInv', KnownInv', UNCHANGED <<fsVars, named, loaded>>,
         \A q \in Proc : Adds(q) => Adds(q)' /\ On(q)' = On(q) /\ (Running(q)' => Running(q)),
         \A q \in Proc : Adds(q) /\ Here(On(q))' => Here(On(q)),
         \A q \in Proc : ServesOf(q)' \/ (Same(q) /\ held'[q] = held[q])
  PROVE  ServedInv'
  <1>0. TypeInv /\ TypeInv'
    BY DEF ServedInv, StemInv, CompleteInv
  <1>1. ASSUME NEW q \in Proc, Same(q), held'[q] = held[q] PROVE ServesOf(q)'
    <2>1. JobOf(q) /\ ServesOf(q)
      BY ServedFacts DEF ServedInv
    <2>2. pc[q] \in {"load"} \cup Loading /\ Here(dev[q])' => Here(dev[q])
      BY <1>1, <2>1 DEF JobOf, Adds, Here, Same
    <2>3. QED
      BY <1>1, <2>1, <2>2, KeepServes DEF fsVars
  <1>2. \A n \in pins' : n.obj \in Offered[n.dev] \cap Accepts[n.dev]
    BY DEF ServedInv, fsVars
  <1>3. \A n \in unlinked' : (Adds(n.by) /\ On(n.by) = n.dev /\ ~Running(n.by))'
    <2>1. \A n \in unlinked : n.by \in Proc /\ Adds(n.by) /\ On(n.by) = n.dev /\ ~Running(n.by)
      BY <1>0 DEF ServedInv, TypeInv, TypeOK, NodeSet
    <2>2. QED
      BY <2>1 DEF fsVars
  <1>4. QED
    BY <1>1, <1>2, <1>3 DEF ServedInv

LEMMA KernelServed ==
  ASSUME ServedInv, StemInv', KnownInv', NEW d \in Device,
         Plug(d) \/ Trigger(d) \/ Unplug(d) \/ Lister(d)
  PROVE  ServedInv'
  <1>1. UNCHANGED <<fsVars, pc, jobVars, loadVars, held, loaded>>
    BY OthersStay
  <1>2. \A q \in Proc : Same(q) /\ held'[q] = held[q] /\ Adds(q)' = Adds(q) /\ On(q)' = On(q)
                        /\ Running(q)' = Running(q)
    BY <1>1 DEF Same, Adds, On, Running, jobVars, loadVars
  <1>3. ASSUME NEW q \in Proc, Adds(q), Here(On(q))' PROVE Here(On(q))
    <2>1. On(q) \in Device /\ here[On(q)] # "new"
      BY <1>3 DEF ServedInv, StemInv, JobOf, QueueOf
    <2>2. here'[On(q)] = "here"
      BY <1>2, <1>3 DEF Here
    <2>3. here = [x \in Device |-> here[x]]
      BY ServedFacts DEF TypeInv, TypeOK
    <2>4. QED
      BY <2>1, <2>2, <2>3
      DEF Plug, Trigger, Unplug, Lister, ListStart, ListObject, ListDone, Here, kernelVars
  <1>4. QED
    BY <1>1, <1>2, <1>3, OthersServed DEF jobVars

LEMMA KillServed ==
  ASSUME ServedInv, StemInv', KnownInv', NEW p \in Proc, Kill(p)
  PROVE  ServedInv'
  <1>0. TypeInv /\ FreshOf(p)
    BY ServedFacts DEF ServedInv, ServesOf
  <1>1. /\ \A q \in Proc \ {p} : Same(q)
        /\ Running(p) /\ pc'[p] = "dead"
        /\ UNCHANGED <<here, fsVars, cmd, calls, named, todo, loaded>>
    BY <1>0, KillOthers DEF kernelVars, jobVars
  <1>2. /\ held'[p] = {} /\ \A q \in Proc \ {p} : held'[q] = held[q]
    BY <1>0 DEF Kill, TypeInv, TypeOK
  <1>3. \A q \in Proc : Adds(q)' = Adds(q) /\ On(q)' = On(q) /\ (Running(q)' => Running(q))
    BY <1>1 DEF Adds, On, Running, Same
  <1>4. ServesOf(p)'
    BY <1>0, <1>1, <1>2, <1>3 DEF ServesOf, FreshOf, TryOf, BestOf, PinsOf, HeldOf
  <1>5. QED
    BY <1>1, <1>2, <1>3, <1>4, OthersServed DEF Here

LEMMA UdevServed ==
  ASSUME ServedInv, StemInv', KnownInv', NEW p \in Proc, NEW d \in Device, UdevStart(p, d)
  PROVE  ServedInv'
  <1>0. TypeInv /\ LoadedOn(p) /\ FreshOf(p) /\ HeldOf(p)
    BY ServedFacts DEF ServedInv, ServesOf
  <1>1. PICK c : Begin(p, c)
    BY DEF UdevStart
  <1>2. /\ \A q \in Proc \ {p} : Same(q)
        /\ pc[p] = "idle" /\ pc'[p] \in {"remove", "check"}
        /\ UNCHANGED <<pins, dirs, unlinked, held, loaded>>
    BY <1>0, <1>1, BeginOthers
  <1>3. here' = here /\ named' = named
    BY <1>1 DEF Begin
  <1>4. loaded[p] = {} /\ held[p] = {}
    BY <1>0, <1>2 DEF LoadedOn, HeldOf
  <1>5. ServesOf(p)'
    BY <1>2, <1>4 DEF ServesOf, FreshOf, TryOf, BestOf, PinsOf, HeldOf
  <1>6. \A q \in Proc : Adds(q) => Adds(q)' /\ On(q)' = On(q) /\ (Running(q)' => Running(q))
    BY <1>2 DEF Adds, On, Running, Same
  <1>7. ASSUME NEW q \in Proc, Adds(q), Here(On(q))' PROVE Here(On(q))
    BY <1>3, <1>6, <1>7 DEF Here
  <1>8. QED
    BY <1>2, <1>3, <1>5, <1>6, <1>7, OthersServed DEF fsVars

\* udevd is alone, each device is added once, and its files are whole.
Served == OneAdd /\ WholeFiles /\ UdevAlone /\ Loadable

LEMMA NextServedInv ==
  ASSUME Served, ServedInv, [Next]_vars
  PROVE  ServedInv'
  <1> USE DEF Served
  <1>0. StemInv' /\ KnownInv'
    BY NextStemInv, NextKnownInv DEF ServedInv, OneAdd
  <1>1. ASSUME NEW d \in Device, Plug(d) \/ Trigger(d) \/ Unplug(d) \/ Lister(d) PROVE ServedInv'
    BY <1>0, <1>1, KernelServed
  <1>2. ASSUME NEW p \in Proc, NEW d \in Device, UdevStart(p, d) PROVE ServedInv'
    BY <1>0, <1>2, UdevServed
  <1>3. ASSUME NEW p \in Proc, Step(p) PROVE ServedInv'
    BY <1>0, <1>3, RemoverServed, AdderServed, LoaderServed DEF Step
  <1>4. ASSUME NEW p \in Proc, Kill(p) PROVE ServedInv'
    BY <1>0, <1>4, KillServed
  <1>5. CASE UNCHANGED vars
    BY <1>0, <1>5, OthersServed
    DEF vars, kernelVars, jobVars, loadVars, Same, Adds, On, Running, Here
  <1>6. QED
    BY <1>1, <1>2, <1>3, <1>4, <1>5 DEF Next, UdevAlone

-----------------------------------------------------------------------------
(* What the abstract loader sees.                                          *)

\* Whoever has loaded an object is the add of the device.
LEMMA ActiveBy ==
  ASSUME ServedInv, NEW d \in Device, NEW o \in Object, NEW p \in Proc, <<d, o>> \in loaded[p]
  PROVE  Adds(p) /\ On(p) = d /\ \A q \in Proc : Adds(q) /\ On(q) = d => q = p
  BY ServedFacts DEF ServedInv, ServesOf, FreshOf, LoadedOn, OneAdder

\* Steps that report nothing and unlink nothing.
LEMMA SameActive ==
  ASSUME UNCHANGED <<loaded, unlinked>>
  PROVE  Active' = Active
  BY DEF Active

\* The first entry of an active object that is unlinked drops it.
LEMMA UnlinkDrops ==
  ASSUME ServedInv, NEW p \in Proc, Unlink(p)
  PROVE  Active' = Active \/ \E d \in Device, o \in Object : Abstract!Drop(d, o)
  <1>0. /\ pins \subseteq NodeSet /\ loaded' = loaded
    BY ServedFacts DEF TypeInv, TypeOK, Unlink
  <1>1. PICK n \in pins : unlinked' = unlinked \cup {n}
    BY DEF Unlink, Under
  <1>2. n.dev \in Device /\ n.obj \in Object /\ n.by \in Proc /\ Adds(n.by) /\ On(n.by) = n.dev
    BY <1>0 DEF NodeSet, ServedInv, StemInv, PinOf
  <1>3. \A d \in Device, o \in Object, q \in Proc :
          <<d, o>> \in loaded[q] /\ n.dev = d => n.by = q
    BY <1>2, ActiveBy
  <1>4. ASSUME NEW d \in Device, NEW o \in Object
        PROVE  o \in Active'[d] <=> o \in Active[d] /\ ~(d = n.dev /\ o = n.obj)
    BY <1>0, <1>1, <1>3, <1>4 DEF Active
  <1>5. \A d \in Device : Active[d] \subseteq Object /\ Active'[d] \subseteq Object
    BY DEF Active
  <1>6. \A d \in Device : d # n.dev => Active'[d] = Active[d]
    BY <1>4, <1>5
  <1>7. Active'[n.dev] = Active[n.dev] \ {n.obj}
    BY <1>2, <1>4, <1>5
  <1>8. Active = [d \in Device |-> Active[d]] /\ Active' = [d \in Device |-> Active'[d]]
    BY DEF Active
  <1>9. Active' = [Active EXCEPT ![n.dev] = @ \ {n.obj}]
    BY <1>2, <1>6, <1>7, <1>8
  <1>10. CASE n.obj \in Active[n.dev]
    BY <1>2, <1>9, <1>10 DEF Abstract!Drop
  <1>11. CASE n.obj \notin Active[n.dev]
    BY <1>6, <1>7, <1>8, <1>11
  <1>12. QED
    BY <1>10, <1>11

\* The report of a success is the step of the abstract loader: a device and an object.
LEMMA ReportLoads ==
  ASSUME WholeFiles, ServedInv, NEW p \in Proc, PinMapsDone(p)
  PROVE  \E d \in Device, o \in Object : Abstract!Load(d, o)
  <1> DEFINE d == dev[p]
             o == obj[p]
  <1>0. /\ TypeInv /\ JobOf(p) /\ GroupOf(p) /\ Place(p) /\ TryOf(p) /\ BestOf(p)
        /\ pc[p] = "maps"
    BY ServedFacts DEF ServedInv, ServesOf, PinMapsDone
  <1>1. d \in Device /\ o \in Object /\ o \in cand[p] /\ Adds(p) /\ On(p) = d /\ Running(p)
    BY <1>0 DEF TypeInv, Assigned, JobOf, GroupOf, Adds, Running
  <1>2. loaded' = [loaded EXCEPT ![p] = @ \cup {<<d, o>>}] /\ unlinked' = unlinked
    BY DEF PinMapsDone, Report, WholeFiles, fsVars
  <1>3. loaded'[p] = loaded[p] \cup {<<d, o>>} /\ \A q \in Proc \ {p} : loaded'[q] = loaded[q]
    BY <1>0, <1>2 DEF TypeInv, TypeOK
  <1>4. o \in Offered[d] \cap Accepts[d]
    BY <1>0, <1>1 DEF TryOf, BestOf
  <1>5. \A x \in Offered[d] \cap Accepts[d] : Stem[x] = Stem[o] => Version[x] <= Version[o]
    BY <1>0 DEF BestOf, Choice
  <1>6. ASSUME NEW x \in Active[d] PROVE Stem[x] # Stem[o]
    <2>1. PICK q \in Proc : x \in Object /\ <<d, x>> \in loaded[q]
      BY <1>1, <1>6 DEF Active
    <2>2. q = p
      BY <1>1, <2>1, ActiveBy
    <2>3. \A y \in loaded[p] : Stem[y[2]] # Stem[o]
      BY <1>0, <1>1 DEF TryOf
    <2>4. <<d, x>>[2] = x
      OBVIOUS
    <2>5. QED
      BY <2>1, <2>2, <2>3, <2>4
  <1>7. \A n \in unlinked : ~(n.dev = d /\ n.obj = o /\ n.by = p)
    BY <1>1 DEF ServedInv
  <1>8. ASSUME NEW e \in Device, NEW x \in Object
        PROVE  x \in Active'[e] <=> x \in Active[e] \/ (e = d /\ x = o)
    <2>1. x \in Active'[e] <=> \E q \in Proc :
            <<e, x>> \in loaded'[q] /\ \A n \in unlinked : ~(n.dev = e /\ n.obj = x /\ n.by = q)
      BY <1>2, <1>8 DEF Active
    <2>2. x \in Active[e] <=> \E q \in Proc :
            <<e, x>> \in loaded[q] /\ \A n \in unlinked : ~(n.dev = e /\ n.obj = x /\ n.by = q)
      BY <1>8 DEF Active
    <2>3. \A q \in Proc : <<e, x>> \in loaded'[q] <=>
            <<e, x>> \in loaded[q] \/ (q = p /\ e = d /\ x = o)
      BY <1>3
    <2> HIDE DEF d, o
    <2>4. QED
      BY <1>7, <2>1, <2>2, <2>3
  <1>9. \A e \in Device : Active[e] \subseteq Object /\ Active'[e] \subseteq Object
    BY DEF Active
  <1>10. Active = [e \in Device |-> Active[e]] /\ Active' = [e \in Device |-> Active'[e]]
    BY DEF Active
  <1>11. \A e \in Device : e # d => Active'[e] = Active[e]
    BY <1>8, <1>9
  <1>12. Active'[d] = Active[d] \cup {o}
    BY <1>1, <1>8, <1>9
  <1>13. Active' = [Active EXCEPT ![d] = @ \cup {o}]
    BY <1>1, <1>10, <1>11, <1>12
  <1>14. Abstract!Load(d, o)
    BY <1>4, <1>5, <1>6, <1>13 DEF Abstract!Load
  <1>15. QED
    BY <1>1, <1>14

LEMMA InitActive == Init => Abstract!Init
  BY DEF Init, Abstract!Init, Active

LEMMA NextActive ==
  ASSUME Served, ServedInv, [Next]_vars
  PROVE  [Abstract!Next]_Active
  <1> SUFFICES \/ Active' = Active
               \/ \E d \in Device, o \in Object : Abstract!Load(d, o) \/ Abstract!Drop(d, o)
    BY DEF Abstract!Next
  <1>1. ASSUME NEW d \in Device, Plug(d) \/ Trigger(d) \/ Unplug(d) \/ Lister(d)
        PROVE  Active' = Active
    BY <1>1, OthersStay, SameActive DEF fsVars
  <1>2. ASSUME NEW p \in Proc, NEW c, Begin(p, c) PROVE Active' = Active
    BY <1>2, SameActive DEF Begin, fsVars
  <1>3. ASSUME NEW p \in Proc, Kill(p) PROVE Active' = Active
    BY <1>3, SameActive DEF Kill, fsVars
  <1>4. ASSUME NEW p \in Proc, Adder(p) PROVE Active' = Active
    <2>1. loaded' = loaded
      BY <1>4 DEF Adder, CheckPaths, NextDevice, NoDevice, AddDone, CallDone, LoadAndProbe,
                  DeviceDone, Report
    <2>2. unlinked' = unlinked
      BY <1>4 DEF Adder, CheckPaths, NextDevice, NoDevice, AddDone, CallDone, LoadAndProbe,
                  DeviceDone, fsVars
    <2>3. QED
      BY <2>1, <2>2, SameActive
  <1>5. ASSUME NEW p \in Proc, Remover(p), ~Unlink(p) PROVE Active' = Active
    BY <1>5, SameActive
    DEF Remover, RemoveNext, RemoveBadPath, RemoveDone, RmDir, EndRemove, fsVars
  <1>6. ASSUME NEW p \in Proc, Loader(p), ~PinMapsDone(p) PROVE Active' = Active
    <2>1. unlinked' = unlinked
      BY <1>6, ServedFacts, LoaderPins
    <2> USE DEF Report, Skip
    <2>2. CASE MkDir(p) \/ AttachDone(p) \/ EndClean(p) \/ PinMap(p)
      BY <2>1, <2>2, SameActive DEF MkDir, AttachDone, EndClean, PinMap
    <2>3. CASE Attach(p) \/ PinLink(p)
      BY <2>1, <2>3, SameActive DEF Attach, PinLink
    <2>4. QED
      BY <1>6, <2>2, <2>3 DEF Loader
  <1>7. CASE UNCHANGED vars
    BY <1>7, SameActive DEF vars, fsVars
  <1>8. QED
    BY <1>1, <1>2, <1>3, <1>4, <1>5, <1>6, <1>7, NextCases, UnlinkDrops, ReportLoads
    DEF UdevStart, Served

\* When udevd is alone, each device is added once and its files are whole, wherever
\* adds are killed and devices unplugged: load_bpf_files serves every group of files
\* by the best one the device accepts, by one at a time, and what is loaded stays
\* until the device's programs are removed.
THEOREM Refinement ==
  ASSUME Served
  PROVE  Spec => ImplementsStemLoader
  <1>1. Init => Abstract!Init
    BY InitActive
  <1>2. ServedInv /\ [Next]_vars => [Abstract!Next]_Active
    BY NextActive
  <1>3. ServedInv /\ [Next]_vars => ServedInv'
    BY NextServedInv
  <1>4. QED
    BY <1>1, <1>2, <1>3, InitServedInv, PTL DEF Spec, ImplementsStemLoader, Abstract!Spec

=============================================================================
