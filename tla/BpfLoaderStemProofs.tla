------------------------ MODULE BpfLoaderStemProofs ------------------------
(***************************************************************************)
(* One file of each group: AtMostOnePerStem, for devices that get one add  *)
(* event each while programs are removed at any time, processes are killed *)
(* anywhere, and several devices are served at once; and SuccessSurvives,  *)
(* from the same invariant.                                                *)
(***************************************************************************)
EXTENDS BpfLoaderProofs

\* Each device is added once, by the rule of the package; what is typed removes.
OneAdd ==
  /\ MaxAdds <= 1
  /\ \A c \in Commands : c.op = "remove"
  /\ Matches = {}
  /\ \A d \in Device : Installed[d] = <<>>

\* Files as those of the repository: one struct_ops program at most, names of
\* programs that are not names of maps, and property maps that can be read.
WholeFiles ==
  /\ Unreadable = {}
  /\ \A o \in Object : Links[o] \cap Maps[o] = {}
  /\ \A o \in Object \ Tracing : \A e, f \in Links[o] : e = f

USE DEF Exited, Loading

\* p is or was the add of a device.
Adds(p) == pc[p] # "idle" /\ cmd[p].op = "add"
On(p) == cmd[p].devs[1]

OneAdder == \A p, q \in Proc : Adds(p) /\ Adds(q) /\ On(p) = On(q) => p = q

\* The add of a device is queued when it comes, before everything else, and once.
QueueOf(d) ==
  /\ here[d] = "new" => uevents[d] = <<>> /\ \A p \in Proc : ~(Adds(p) /\ On(p) = d)
  /\ here[d] # "new" => adds[d] >= MaxAdds
  /\ \A i \in 1..Len(uevents[d]) :
       \/ uevents[d][i] \in {"remove", "bind", "unbind"}
       \/ uevents[d][i] = "add" /\ i = 1 /\ \A p \in Proc : ~(Adds(p) /\ On(p) = d)

\* What is pinned on a device was pinned by its add, and is in a directory.
PinOf(n) == <<n.dev, n.obj>> \in dirs /\ Adds(n.by) /\ On(n.by) = n.dev

\* Where an add is, before its device is handled and after.
Bare(d) == \A n \in pins : n.dev # d
JobOf(p) ==
  /\ Adds(p) => On(p) \in Device
  /\ pc[p] \in {"remove", "walk"} => cmd[p].op = "remove"
  /\ pc[p] \in {"check", "device", "load"} \cup Loading => cmd[p].op = "add"
  /\ pc[p] = "check" =>
       calls[p] = <<>> \/ (calls[p] = <<[devs |-> <<On(p)>>, objs |-> {}]>> /\ Bare(On(p)))
  /\ pc[p] = "device" =>
       calls[p] = <<>> /\ (todo[p] = <<>> \/ (todo[p] = <<On(p)>> /\ Bare(On(p))))
  /\ pc[p] \in {"load"} \cup Loading => calls[p] = <<>> /\ todo[p] = <<>> /\ dev[p] = On(p)

\* No candidate has a file of its group on the device, but for the object that is
\* being loaded with what has been pinned of it; that fails only with nothing pinned.
GroupOf(p) ==
  /\ pc[p] \in {"load"} \cup Loading =>
       \A n \in pins, c \in cand[p] : n.dev = dev[p] /\ Stem[n.obj] = Stem[c] =>
         pc[p] \in Loading /\ n.obj = obj[p] /\ n.ent \in done[p]
  /\ pc[p] \in Loading => obj[p] \in cand[p]
  /\ pc[p] \in {"mkdir", "attach", "pin", "maps"} => left[p] \cap done[p] = {}
  /\ pc[p] \in {"mkdir", "attach", "pin"} /\ obj[p] \notin Tracing /\ left[p] # {} => done[p] = {}
  /\ pc[p] = "clean" => \A n \in pins : ~(n.dev = dev[p] /\ n.obj = obj[p])

StemInv ==
  /\ CompleteInv
  /\ OneAdder
  /\ \A d \in Device : QueueOf(d)
  /\ \A n \in pins : PinOf(n)
  /\ \A p \in Proc : JobOf(p) /\ GroupOf(p)
  /\ AtMostOnePerStem

LEMMA InitStemInv == Init => StemInv
  <1> SUFFICES ASSUME Init PROVE StemInv
    OBVIOUS
  <1>1. CompleteInv
    BY InitCompleteInv
  <1>2. \A p \in Proc : pc[p] = "idle" /\ ~Adds(p)
    BY DEF Init, Adds
  <1>3. \A d \in Device : QueueOf(d)
    BY <1>2 DEF Init, QueueOf
  <1>4. \A p \in Proc : JobOf(p) /\ GroupOf(p)
    BY <1>2 DEF JobOf, GroupOf
  <1>5. QED
    BY <1>1, <1>2, <1>3, <1>4 DEF Init, StemInv, OneAdder, AtMostOnePerStem

-----------------------------------------------------------------------------
(* Processes that do not move, and steps that pin nothing.                 *)

Same(q) ==
  /\ pc'[q] = pc[q] /\ cmd'[q] = cmd[q] /\ calls'[q] = calls[q] /\ todo'[q] = todo[q]
  /\ dev'[q] = dev[q] /\ cand'[q] = cand[q]
  /\ obj'[q] = obj[q] /\ left'[q] = left[q] /\ done'[q] = done[q]

LEMMA SameJob ==
  ASSUME NEW q \in Proc, JobOf(q), GroupOf(q), Same(q),
         Adds(q) => \A n \in pins' \ pins : n.dev # On(q)
  PROVE  JobOf(q)' /\ GroupOf(q)'
  <1>1. Adds(q)' = Adds(q) /\ On(q)' = On(q)
    BY DEF Adds, On, Same
  <1>2. Adds(q) /\ Bare(On(q)) => Bare(On(q))'
    BY <1>1 DEF Bare
  <1>3. JobOf(q)'
    BY <1>1, <1>2 DEF JobOf, Same, Adds
  <1>4. pc[q] \in {"load"} \cup Loading => \A n \in pins' : n.dev = dev[q] => n \in pins
    BY DEF JobOf, Adds
  <1>5. GroupOf(q)'
    BY <1>4 DEF GroupOf, Same
  <1>6. QED
    BY <1>3, <1>5

\* An exited process has nothing to say.
LEMMA ExitedJob ==
  ASSUME NEW q \in Proc, JobOf(q), pc[q] # "idle", pc'[q] \in {"ok", "err", "dead"},
         cmd'[q] = cmd[q]
  PROVE  JobOf(q)' /\ GroupOf(q)'
  BY DEF JobOf, GroupOf, Adds, On

LEMMA JobFunctions ==
  ASSUME TypeInv
  PROVE  /\ pc = [q \in Proc |-> pc[q]] /\ cmd = [q \in Proc |-> cmd[q]]
         /\ calls = [q \in Proc |-> calls[q]] /\ todo = [q \in Proc |-> todo[q]]
         /\ dev = [q \in Proc |-> dev[q]] /\ cand = [q \in Proc |-> cand[q]]
         /\ obj = [q \in Proc |-> obj[q]]
         /\ left = [q \in Proc |-> left[q]] /\ done = [q \in Proc |-> done[q]]
  BY DEF TypeInv, TypeOK

LEMMA RemoverOthers ==
  ASSUME TypeInv, NEW p \in Proc, Remover(p)
  PROVE  \A q \in Proc \ {p} : Same(q)
  BY JobFunctions
  DEF Same, Goto, Exit, jobVars, loadVars,
      Remover, RemoveNext, RemoveBadPath, RemoveDone, Unlink, RmDir, EndRemove

LEMMA AdderOthers ==
  ASSUME TypeInv, NEW p \in Proc, Adder(p)
  PROVE  \A q \in Proc \ {p} : Same(q)
  <1> USE JobFunctions DEF Same, Goto, Exit, Report, jobVars, loadVars
  <1>1. CASE CheckPaths(p) \/ NextDevice(p) \/ NoDevice(p) \/ AddDone(p) \/ CallDone(p) \/ DeviceDone(p)
    BY <1>1 DEF CheckPaths, NextDevice, NoDevice, AddDone, CallDone, DeviceDone
  <1>2. CASE LoadAndProbe(p)
    BY <1>2 DEF LoadAndProbe, StartObject
  <1>3. QED
    BY <1>1, <1>2 DEF Adder

LEMMA LoaderOthers ==
  ASSUME TypeInv, NEW p \in Proc, Loader(p)
  PROVE  \A q \in Proc \ {p} : Same(q)
  <1> USE JobFunctions DEF Same, Goto, Report, Skip, jobVars, loadVars
  <1>1. CASE MkDir(p) \/ PinMapsDone(p) \/ EndClean(p)
    BY <1>1 DEF MkDir, PinMapsDone, EndClean
  <1>2. CASE Attach(p)
    BY <1>2 DEF Attach
  <1>3. CASE PinLink(p)
    BY <1>3 DEF PinLink
  <1>4. CASE AttachDone(p)
    BY <1>4 DEF AttachDone
  <1>5. CASE PinMap(p)
    BY <1>5 DEF PinMap
  <1>6. QED
    BY <1>1, <1>2, <1>3, <1>4, <1>5 DEF Loader

-----------------------------------------------------------------------------
(* The steps of one process.                                               *)

\* A step of p keeps the invariant when p does, and pins only on its own device.
LEMMA StepStemInv ==
  ASSUME StemInv, CompleteInv', NEW p \in Proc, \A q \in Proc \ {p} : Same(q),
         UNCHANGED <<kernelVars, cmd>>, pc[p] # "idle", pc'[p] # "idle",
         \A n \in pins' \ pins : n.by = p /\ n.dev = On(p) /\ Adds(p),
         \A n \in pins' : <<n.dev, n.obj>> \in dirs',
         JobOf(p)' /\ GroupOf(p)', AtMostOnePerStem'
  PROVE  StemInv'
  <1>1. \A q \in Proc : Adds(q)' = Adds(q) /\ On(q)' = On(q)
    BY DEF Same, Adds, On
  <1>2. OneAdder'
    BY <1>1 DEF StemInv, OneAdder
  <1>3. \A d \in Device : QueueOf(d)'
    BY <1>1 DEF StemInv, QueueOf, kernelVars
  <1>4. \A n \in pins' : PinOf(n)'
    <2>1. ASSUME NEW n \in pins' PROVE PinOf(n)'
      <3>1. n.by \in Proc
        BY DEF CompleteInv, TypeInv, TypeOK, NodeSet
      <3>2. Adds(n.by) /\ On(n.by) = n.dev
        BY DEF StemInv, PinOf
      <3>3. QED
        BY <1>1, <3>1, <3>2 DEF PinOf
    <2>2. QED
      BY <2>1
  <1>5. ASSUME NEW q \in Proc PROVE JobOf(q)' /\ GroupOf(q)'
    <2>1. CASE q = p
      BY <2>1
    <2>2. CASE q # p
      <3>1. Adds(q) => \A n \in pins' \ pins : n.dev # On(q)
        BY <2>2 DEF StemInv, OneAdder
      <3>2. QED
        BY <2>2, <3>1, SameJob DEF StemInv
    <2>3. QED
      BY <2>1, <2>2
  <1>6. QED
    BY <1>2, <1>3, <1>4, <1>5 DEF StemInv

\* So it is for a step that pins nothing, and removes no directory with a pin in it.
LEMMA NoPinStemInv ==
  ASSUME StemInv, CompleteInv', NEW p \in Proc, \A q \in Proc \ {p} : Same(q),
         UNCHANGED <<kernelVars, cmd>>, pc[p] # "idle", pc'[p] # "idle",
         pins' \subseteq pins,
         \A x \in dirs \ dirs' : \A n \in pins : ~(n.dev = x[1] /\ n.obj = x[2]),
         JobOf(p)' /\ GroupOf(p)'
  PROVE  StemInv'
  <1>1. AtMostOnePerStem'
    BY DEF StemInv, AtMostOnePerStem
  <1>2. \A n \in pins' : <<n.dev, n.obj>> \in dirs'
    <2>1. ASSUME NEW n \in pins', <<n.dev, n.obj>> \notin dirs' PROVE FALSE
      <3>1. <<n.dev, n.obj>> \in dirs
        BY DEF StemInv, PinOf
      <3>2. QED
        BY <2>1, <3>1
    <2>2. QED
      BY <2>1
  <1>3. QED
    BY <1>1, <1>2, StepStemInv

LEMMA RemoverStemInv ==
  ASSUME StemInv, CompleteInv', NEW p \in Proc, Remover(p)
  PROVE  StemInv'
  <1>0. /\ TypeInv /\ JobOf(p) /\ GroupOf(p)
    BY DEF StemInv, CompleteInv
  <1>1. /\ \A q \in Proc \ {p} : Same(q)
        /\ UNCHANGED <<kernelVars, cmd>>
    BY <1>0, RemoverOthers
    DEF Remover, RemoveNext, RemoveBadPath, RemoveDone, Unlink, RmDir, EndRemove, jobVars
  <1>2. /\ pc[p] \in {"remove", "walk", "clean"}
        /\ pins' \subseteq pins
        /\ \A x \in dirs \ dirs' : \A n \in pins : ~(n.dev = x[1] /\ n.obj = x[2])
    BY DEF Remover, RemoveNext, RemoveBadPath, RemoveDone, Unlink, RmDir, EndRemove, fsVars
  <1> USE JobFunctions DEF Goto, Exit, jobVars, loadVars
  <1>3. CASE RemoveNext(p) \/ EndRemove(p)
    <2>1. pc[p] \in {"remove", "walk"} /\ pc'[p] \in {"remove", "walk"}
      BY <1>0, <1>3 DEF RemoveNext, EndRemove
    <2>2. cmd'[p].op = "remove"
      BY <1>0, <1>1, <2>1 DEF JobOf
    <2>3. QED
      BY <1>1, <1>2, <2>1, <2>2, NoPinStemInv DEF JobOf, GroupOf, Adds
  <1>4. CASE RemoveBadPath(p) \/ RemoveDone(p)
    <2>1. pc[p] = "remove" /\ cmd[p].op = "remove"
      BY <1>0, <1>4 DEF RemoveBadPath, RemoveDone, JobOf
    <2>2. pc'[p] \in {"ok", "err"}
      BY <1>0, <1>4, <2>1 DEF RemoveBadPath, RemoveDone
    <2>3. QED
      BY <1>0, <1>1, <1>2, <2>1, <2>2, ExitedJob, NoPinStemInv
  <1>5. CASE Unlink(p) \/ RmDir(p)
    <2>1. pc[p] \in {"walk", "clean"} /\ UNCHANGED <<pc, jobVars, loadVars>>
      BY <1>5 DEF Unlink, RmDir
    <2>2. JobOf(p)' /\ GroupOf(p)'
      BY <1>0, <1>2, <2>1 DEF JobOf, GroupOf, Adds, On
    <2>3. QED
      BY <1>1, <1>2, <2>1, <2>2, NoPinStemInv
  <1>6. QED
    BY <1>3, <1>4, <1>5 DEF Remover

\* load_programs ends: what is tried after it has none of its group pinned.
LEMMA ReportJob ==
  ASSUME StemInv, NEW p \in Proc, pc[p] \in {"load"} \cup Loading,
         NEW o \in Object, NEW ok \in BOOLEAN, Report(p, o, ok), pins' = pins,
         ok => pc[p] \in Loading /\ o = obj[p],
         ~ok /\ pc[p] \in Loading =>
           o = obj[p] /\ \A n \in pins : ~(n.dev = dev[p] /\ n.obj = obj[p])
  PROVE  JobOf(p)' /\ GroupOf(p)'
  <1>0. TypeInv /\ JobOf(p) /\ GroupOf(p)
    BY DEF StemInv, CompleteInv
  <1>1. /\ pc'[p] = "load" /\ UNCHANGED <<cmd, calls, todo, dev>>
        /\ cand'[p] = Remaining(cand[p], o, ok)
    BY <1>0, JobFunctions DEF Report, Goto
  <1>2. JobOf(p)'
    BY <1>0, <1>1 DEF JobOf, Adds, On
  <1>3. ASSUME NEW n \in pins, NEW c \in cand'[p], n.dev = dev[p], Stem[n.obj] = Stem[c]
        PROVE  FALSE
    <2>1. c \in cand[p]
      BY <1>1, <1>3 DEF Remaining
    <2>2. pc[p] \in Loading /\ n.obj = obj[p]
      BY <1>0, <1>3, <2>1 DEF GroupOf
    <2>3. CASE ok
      BY <1>1, <1>3, <2>2, <2>3 DEF Remaining
    <2>4. CASE ~ok
      BY <1>3, <2>2, <2>4
    <2>5. QED
      BY <2>3, <2>4
  <1>4. GroupOf(p)'
    BY <1>1, <1>3 DEF GroupOf
  <1>5. QED
    BY <1>2, <1>4

LEMMA AdderStemInv ==
  ASSUME StemInv, CompleteInv', NEW p \in Proc, Adder(p)
  PROVE  StemInv'
  <1>0. TypeInv /\ JobOf(p) /\ GroupOf(p)
    BY DEF StemInv, CompleteInv
  <1>1. \A q \in Proc \ {p} : Same(q)
    BY <1>0, AdderOthers
  <1>2. /\ UNCHANGED <<kernelVars, cmd, pins, dirs>>
        /\ pc[p] \in {"check", "device", "load"}
    BY DEF Adder, CheckPaths, NextDevice, NoDevice, AddDone, CallDone, LoadAndProbe, DeviceDone,
           fsVars, jobVars, Report
  <1>3. Adds(p) /\ On(p) \in Device /\ On(p)' = On(p)
    BY <1>0, <1>2 DEF JobOf, Adds, On
  <1>4. ASSUME JobOf(p)', GroupOf(p)', pc'[p] # "idle" PROVE StemInv'
    BY <1>1, <1>2, <1>4, NoPinStemInv
  <1>5. ASSUME pc'[p] \in {"ok", "err"} PROVE StemInv'
    BY <1>0, <1>2, <1>4, <1>5, ExitedJob
  <1> USE JobFunctions
  <1>6. CASE CheckPaths(p)
    <2>1. calls[p] = <<[devs |-> <<On(p)>>, objs |-> {}]>> /\ Bare(On(p))
      BY <1>0, <1>6 DEF CheckPaths, JobOf
    <2>2. Head(calls[p]).devs = <<On(p)>> /\ Tail(calls[p]) = <<>>
      BY <2>1
    <2>3. CASE pc'[p] = "device" /\ calls'[p] = Tail(calls[p]) /\ todo'[p] = Head(calls[p]).devs
      BY <1>0, <1>2, <1>3, <1>4, <2>1, <2>2, <2>3 DEF JobOf, GroupOf, Bare
    <2>4. QED
      BY <1>0, <1>5, <1>6, <2>3 DEF CheckPaths, Goto, Exit
  <1>7. CASE NextDevice(p)
    <2>1. calls[p] = <<>> /\ todo[p] = <<On(p)>> /\ Bare(On(p))
      BY <1>0, <1>7 DEF NextDevice, JobOf
    <2>2. Head(todo[p]) = On(p) /\ Tail(todo[p]) = <<>>
      BY <2>1
    <2>3. pc'[p] = "load" /\ calls'[p] = <<>> /\ todo'[p] = <<>> /\ dev'[p] = On(p)
      BY <1>0, <1>7, <2>1, <2>2 DEF NextDevice, Goto
    <2>4. QED
      BY <1>0, <1>2, <1>3, <1>4, <2>1, <2>3 DEF JobOf, GroupOf, Bare
  <1>8. CASE NoDevice(p) \/ AddDone(p)
    BY <1>0, <1>5, <1>8 DEF NoDevice, AddDone, Goto, Exit
  <1>9. CASE CallDone(p)
    <2>1. pc'[p] = "check" /\ calls'[p] = <<>>
      BY <1>0, <1>9 DEF CallDone, Goto, JobOf, jobVars
    <2>2. QED
      BY <1>0, <1>2, <1>3, <1>4, <2>1 DEF JobOf, GroupOf
  <1>10. CASE DeviceDone(p)
    <2>1. pc'[p] = "device" /\ calls'[p] = <<>> /\ todo'[p] = <<>>
      BY <1>0, <1>10 DEF DeviceDone, Goto, JobOf, jobVars
    <2>2. QED
      BY <1>0, <1>2, <1>3, <1>4, <2>1 DEF JobOf, GroupOf
  <1>11. CASE LoadAndProbe(p)
    <2>1. PICK o \in cand[p] :
            \/ /\ StartObject(p, o)
               /\ Goto(p, IF o \in Tracing THEN "attach" ELSE "mkdir")
               /\ UNCHANGED <<jobVars, loaded>>
            \/ Report(p, o, FALSE) /\ UNCHANGED loadVars
      BY <1>11 DEF LoadAndProbe
    <2>2. o \in Object /\ pc[p] = "load"
      BY <1>0, <1>11 DEF LoadAndProbe, TypeInv, TypeOK
    <2>3. CASE Report(p, o, FALSE)
      <3>1. JobOf(p)' /\ GroupOf(p)'
        BY <1>2, <2>2, <2>3, ReportJob
      <3>2. pc'[p] = "load"
        BY <1>0, <2>3 DEF Report, Goto
      <3>3. QED
        BY <1>4, <3>1, <3>2
    <2>4. CASE StartObject(p, o) /\ Goto(p, IF o \in Tracing THEN "attach" ELSE "mkdir")
               /\ UNCHANGED <<jobVars, loaded>>
      <3>1. /\ pc'[p] \in {"attach", "mkdir"} /\ obj'[p] = o
            /\ left'[p] = Links[o] /\ done'[p] = {}
            /\ UNCHANGED <<cmd, calls, todo, dev, cand>>
        BY <1>0, <2>4 DEF StartObject, Goto, jobVars
      <3>2. JobOf(p)'
        BY <1>0, <1>3, <2>2, <3>1 DEF JobOf
      <3>3. GroupOf(p)'
        BY <1>0, <1>2, <2>2, <3>1 DEF GroupOf
      <3>4. QED
        BY <1>4, <3>1, <3>2, <3>3
    <2>5. QED
      BY <2>1, <2>3, <2>4
  <1>12. QED
    BY <1>6, <1>7, <1>8, <1>9, <1>10, <1>11 DEF Adder

\* A program that is skipped: a struct_ops object is given up with nothing pinned.
LEMMA SkipJob ==
  ASSUME StemInv, NEW p \in Proc, pc[p] \in {"attach", "pin"}, NEW e \in left[p],
         Skip(p, e), pins' = pins
  PROVE  JobOf(p)' /\ GroupOf(p)' /\ pc'[p] # "idle"
  <1>0. TypeInv /\ JobOf(p) /\ GroupOf(p) /\ obj[p] \in Object
    BY DEF StemInv, CompleteInv, TypeInv, Assigned
  <1>1. CASE obj[p] \notin Tracing
    <2>1. \A n \in pins : ~(n.dev = dev[p] /\ n.obj = obj[p])
      BY <1>0, <1>1 DEF GroupOf
    <2>2. Report(p, obj[p], FALSE)
      BY <1>1 DEF Skip
    <2>3. pc'[p] = "load"
      BY <1>0, <2>2 DEF Report, Goto, TypeInv, TypeOK
    <2>4. QED
      BY <1>0, <2>1, <2>2, <2>3, ReportJob
  <1>2. CASE obj[p] \in Tracing
    <2>1. /\ pc'[p] = "attach" /\ left'[p] = left[p] \ {e}
          /\ UNCHANGED <<cmd, calls, todo, dev, cand, obj, done>>
      BY <1>0, <1>2, JobFunctions DEF Skip, Goto, jobVars
    <2>2. JobOf(p)'
      BY <1>0, <2>1 DEF JobOf, Adds, On
    <2>3. GroupOf(p)'
      BY <1>0, <1>2, <2>1 DEF GroupOf
    <2>4. QED
      BY <2>1, <2>2, <2>3
  <1>3. QED
    BY <1>1, <1>2

\* A new pin joins no other file of its group, and p remembers it.
LEMMA PinGroup ==
  ASSUME StemInv, CompleteInv', NEW p \in Proc, \A q \in Proc \ {p} : Same(q),
         UNCHANGED <<kernelVars, cmd, dirs, obj, jobVars>>, pc[p] \in Loading,
         NEW e \in left[p], CanPin(dev[p], obj[p], e),
         pins' = pins \cup {Node(dev[p], obj[p], e, p)},
         left'[p] = left[p] \ {e}, done'[p] = done[p] \cup {e},
         \/ pc[p] = "maps" /\ pc'[p] = "maps"
         \/ /\ pc[p] = "pin" /\ pc'[p] = "attach"
            /\ obj[p] \notin Tracing => left[p] = {e}
  PROVE  StemInv'
  <1> DEFINE n == Node(dev[p], obj[p], e, p)
  <1>0. JobOf(p) /\ GroupOf(p) /\ Adds(p)
    BY DEF StemInv, JobOf, Adds
  <1>1. n.dev = dev[p] /\ n.obj = obj[p] /\ n.ent = e /\ n.by = p /\ dev[p] = On(p)
    BY <1>0 DEF Node, JobOf
  <1>2. \A m \in pins : m.dev = dev[p] /\ Stem[m.obj] = Stem[obj[p]] => m.obj = obj[p]
    BY <1>0 DEF GroupOf
  <1>3. AtMostOnePerStem'
    BY <1>1, <1>2 DEF StemInv, AtMostOnePerStem
  <1>4. \A m \in pins' : <<m.dev, m.obj>> \in dirs'
    BY <1>1 DEF StemInv, PinOf, CanPin
  <1>5. JobOf(p)'
    BY <1>0 DEF JobOf, Adds, On, jobVars
  <1>6. GroupOf(p)'
    <2>1. UNCHANGED <<dev, cand, obj>>
      BY DEF jobVars
    <2>2. ASSUME NEW m \in pins', NEW c \in cand[p], m.dev = dev[p], Stem[m.obj] = Stem[c]
          PROVE  m.obj = obj[p] /\ m.ent \in done'[p]
      BY <1>0, <1>1, <2>2 DEF GroupOf
    <2>3. left'[p] \cap done'[p] = {}
      BY <1>0 DEF GroupOf
    <2>4. QED
      BY <1>0, <2>1, <2>2, <2>3 DEF GroupOf
  <1>7. QED
    BY <1>0, <1>1, <1>3, <1>4, <1>5, <1>6, StepStemInv

LEMMA LoaderStemInv ==
  ASSUME StemInv, WholeFiles, CompleteInv', NEW p \in Proc, Loader(p)
  PROVE  StemInv'
  <1>0. TypeInv /\ JobOf(p) /\ GroupOf(p) /\ ProgressOf(p)
    BY DEF StemInv, CompleteInv, Progress
  <1>1. \A q \in Proc \ {p} : Same(q)
    BY <1>0, LoaderOthers
  <1>2. /\ UNCHANGED <<kernelVars, cmd>> /\ pc[p] \in Loading /\ dirs \subseteq dirs'
    BY DEF Loader, MkDir, Attach, PinLink, Skip, AttachDone, PinMap, PinMapsDone, EndClean,
           fsVars, jobVars, Report
  <1>3. Adds(p) /\ On(p) \in Device /\ On(p)' = On(p) /\ obj[p] \in Object
    BY <1>0, <1>2 DEF JobOf, Adds, On, TypeInv, Assigned
  <1>4. ASSUME JobOf(p)', GroupOf(p)', pc'[p] # "idle", pins' = pins PROVE StemInv'
    BY <1>1, <1>2, <1>4, NoPinStemInv
  <1> USE JobFunctions
  <1>5. CASE MkDir(p)
    <2>1. /\ pc[p] = "mkdir" /\ pc'[p] \in {"attach", "pin"}
          /\ UNCHANGED <<pins, jobVars, loadVars>>
      BY <1>0, <1>5 DEF MkDir, Goto
    <2>2. QED
      BY <1>0, <1>3, <1>4, <2>1 DEF JobOf, GroupOf, jobVars, loadVars, Adds
  <1>6. CASE Attach(p)
    <2>1. PICK e \in left[p] :
            \/ /\ Goto(p, IF obj[p] \in Tracing THEN "mkdir" ELSE "pin")
               /\ UNCHANGED <<jobVars, loadVars>>
            \/ Skip(p, e)
      BY <1>6 DEF Attach
    <2>2. pc[p] = "attach" /\ pins' = pins
      BY <1>6 DEF Attach, fsVars
    <2>3. CASE Skip(p, e)
      BY <1>4, <2>1, <2>2, <2>3, SkipJob
    <2>4. CASE Goto(p, IF obj[p] \in Tracing THEN "mkdir" ELSE "pin")
               /\ UNCHANGED <<jobVars, loadVars>>
      <3>1. pc'[p] \in {"mkdir", "pin"}
        BY <1>0, <2>4 DEF Goto
      <3>2. QED
        BY <1>0, <1>3, <1>4, <2>2, <2>4, <3>1 DEF JobOf, GroupOf, jobVars, loadVars, Adds
    <2>5. QED
      BY <2>1, <2>3, <2>4
  <1>7. CASE PinLink(p)
    <2>1. PICK e \in left[p] :
            \/ /\ CanPin(dev[p], obj[p], e)
               /\ pins' = pins \cup {Node(dev[p], obj[p], e, p)}
               /\ left' = [left EXCEPT ![p] = @ \ {e}]
               /\ done' = [done EXCEPT ![p] = @ \cup {e}]
               /\ Goto(p, "attach")
               /\ UNCHANGED <<obj, jobVars>>
            \/ Skip(p, e) /\ pins' = pins
      BY <1>7 DEF PinLink
    <2>2. pc[p] = "pin" /\ dirs' = dirs
      BY <1>7 DEF PinLink
    <2>3. CASE Skip(p, e) /\ pins' = pins
      BY <1>4, <2>1, <2>2, <2>3, SkipJob
    <2>4. ASSUME CanPin(dev[p], obj[p], e), pins' = pins \cup {Node(dev[p], obj[p], e, p)},
                 left' = [left EXCEPT ![p] = @ \ {e}], done' = [done EXCEPT ![p] = @ \cup {e}],
                 Goto(p, "attach"), UNCHANGED <<obj, jobVars>>
          PROVE  StemInv'
      <3>1. /\ pc'[p] = "attach"
            /\ left'[p] = left[p] \ {e} /\ done'[p] = done[p] \cup {e}
        BY <1>0, <2>4 DEF Goto
      <3>2. obj[p] \notin Tracing => left[p] = {e}
        <4>1. left[p] \subseteq Links[obj[p]]
          BY <1>0, <2>2 DEF ProgressOf
        <4>2. QED
          BY <1>3, <2>1, <4>1 DEF WholeFiles
      <3>3. QED
        BY <1>1, <1>2, <2>2, <2>4, <3>1, <3>2, PinGroup
    <2>5. QED
      BY <2>1, <2>3, <2>4
  <1>8. CASE AttachDone(p)
    <2>1. pc[p] = "attach" /\ left[p] = {} /\ pins' = pins
      BY <1>8 DEF AttachDone, fsVars
    <2>2. CASE obj[p] \in Tracing /\ done[p] = {}
      <3>1. Report(p, obj[p], FALSE)
        BY <1>8, <2>2 DEF AttachDone
      <3>2. pc'[p] = "load"
        BY <1>0, <3>1 DEF Report, Goto
      <3>3. \A n \in pins : ~(n.dev = dev[p] /\ n.obj = obj[p])
        BY <1>0, <2>1, <2>2 DEF GroupOf
      <3>4. QED
        BY <1>3, <1>4, <2>1, <3>1, <3>2, <3>3, ReportJob
    <2>3. CASE ~(obj[p] \in Tracing /\ done[p] = {})
      <3>1. /\ pc'[p] = "maps" /\ left'[p] = Maps[obj[p]]
            /\ UNCHANGED <<obj, done, jobVars>>
        BY <1>0, <1>8, <2>3 DEF AttachDone, Goto
      <3>2. done[p] \cap Maps[obj[p]] = {}
        BY <1>0, <1>3, <2>1 DEF ProgressOf, WholeFiles
      <3>3. QED
        BY <1>0, <1>3, <1>4, <2>1, <3>1, <3>2 DEF JobOf, GroupOf, jobVars, Adds
    <2>4. QED
      BY <2>2, <2>3
  <1>9. CASE PinMap(p)
    <2>1. pc[p] = "maps" /\ UNCHANGED <<dirs, obj, jobVars>>
      BY <1>9 DEF PinMap
    <2>2. PICK e \in left[p] :
            IF CanPin(dev[p], obj[p], e)
            THEN /\ pins' = pins \cup {Node(dev[p], obj[p], e, p)}
                 /\ left' = [left EXCEPT ![p] = @ \ {e}]
                 /\ done' = [done EXCEPT ![p] = @ \cup {e}]
                 /\ UNCHANGED pc
            ELSE /\ Goto(p, "clean")
                 /\ UNCHANGED <<pins, left, done>>
      BY <1>9 DEF PinMap
    <2>3. CASE CanPin(dev[p], obj[p], e)
      <3>1. /\ pc'[p] = "maps" /\ left'[p] = left[p] \ {e} /\ done'[p] = done[p] \cup {e}
            /\ pins' = pins \cup {Node(dev[p], obj[p], e, p)}
        BY <1>0, <2>1, <2>2, <2>3
      <3>2. QED
        BY <1>1, <1>2, <2>1, <2>3, <3>1, PinGroup
    <2>4. CASE ~CanPin(dev[p], obj[p], e)
      <3>1. pc'[p] = "clean" /\ UNCHANGED <<pins, left, done>>
        BY <1>0, <2>2, <2>4 DEF Goto
      <3>2. ASSUME NEW n \in pins, n.dev = dev[p], n.obj = obj[p] PROVE FALSE
        <4>1. <<dev[p], obj[p]>> \in dirs
          BY <3>2 DEF StemInv, PinOf
        <4>2. PICK m \in pins : m.dev = dev[p] /\ m.obj = obj[p] /\ m.ent = e
          BY <2>4, <4>1 DEF CanPin
        <4>3. e \in done[p]
          BY <1>0, <1>2, <4>2 DEF GroupOf
        <4>4. QED
          BY <1>0, <2>1, <2>2, <4>3 DEF GroupOf
      <3>3. QED
        BY <1>0, <1>3, <1>4, <2>1, <3>1, <3>2 DEF JobOf, GroupOf, jobVars, Adds
    <2>5. QED
      BY <2>3, <2>4
  <1>10. CASE PinMapsDone(p)
    <2>1. Report(p, obj[p], TRUE) /\ pins' = pins
      BY <1>10 DEF PinMapsDone, WholeFiles, fsVars
    <2>2. pc'[p] = "load"
      BY <1>0, <2>1 DEF Report, Goto
    <2>3. QED
      BY <1>2, <1>3, <1>4, <2>1, <2>2, ReportJob
  <1>11. CASE EndClean(p)
    <2>1. Report(p, obj[p], FALSE) /\ pins' = pins /\ pc[p] = "clean"
      BY <1>11 DEF EndClean, fsVars
    <2>2. pc'[p] = "load" /\ \A n \in pins : ~(n.dev = dev[p] /\ n.obj = obj[p])
      BY <1>0, <2>1 DEF Report, Goto, GroupOf
    <2>3. QED
      BY <1>3, <1>4, <2>1, <2>2, ReportJob
  <1>12. QED
    BY <1>5, <1>6, <1>7, <1>8, <1>9, <1>10, <1>11 DEF Loader

-----------------------------------------------------------------------------
(* The kernel, udevd, and the start of a command.                          *)

LEMMA TwoEvents ==
  ASSUME NEW a \in Uevent, NEW b \in Uevent
  PROVE  /\ <<a>> \o <<b>> = <<a, b>>
         /\ <<>> \o <<b>> = <<b>> /\ <<a>> \o <<>> = <<a>>
  <1>1. <<a>> \in Seq(Uevent) /\ <<b>> \in Seq(Uevent)
    OBVIOUS
  <1>2. <<>> \o <<b>> = <<b>> /\ <<a>> \o <<>> = <<a>>
    BY <1>1, ConcatEmptySeq
  <1>3. /\ <<a, b>> \in Seq(Uevent) /\ Len(<<a, b>>) = 2
        /\ <<a, b>>[1] = a /\ <<a, b>>[2] = b
    OBVIOUS
  <1>4. /\ <<a>> \o <<b>> \in Seq(Uevent) /\ Len(<<a>> \o <<b>>) = 2
        /\ (<<a>> \o <<b>>)[1] = a /\ (<<a>> \o <<b>>)[2] = b
    BY <1>1, ConcatProperties
  <1>5. \A i \in 1..2 : (<<a>> \o <<b>>)[i] = <<a, b>>[i]
    BY <1>3, <1>4
  <1>6. <<a>> \o <<b>> = <<a, b>>
    BY <1>3, <1>4, <1>5, SeqEqual
  <1>7. QED
    BY <1>2, <1>6

LEMMA AppendQueue ==
  ASSUME NEW s \in Seq(Uevent), NEW t \in Seq(Uevent),
         \A i \in 1..Len(t) : t[i] \in {"remove", "bind", "unbind"}
  PROVE  \A i \in 1..Len(s \o t) :
           \/ i \in 1..Len(s) /\ (s \o t)[i] = s[i]
           \/ (s \o t)[i] \in {"remove", "bind", "unbind"}
  OBVIOUS

\* What udevd has for a device whose add is the rule of the package.
LEMMA PlainRules ==
  ASSUME NEW d \in Device, Installed[d] = <<>>
  PROVE  /\ AddRules(d) = <<"add">> /\ RemoveRules(d) = <<"remove">>
         /\ \A e : IfBinds(e) = <<e>> \/ IfBinds(e) = <<>>
  <1>1. [i \in DOMAIN Installed[d] |-> "remove"] = <<>>
    BY EmptySeq
  <1>2. QED
    BY <1>1 DEF AddRules, RemoveRules, IfBinds

\* No process moves and nothing is pinned or unpinned.
LEMMA QueueStemInv ==
  ASSUME StemInv, CompleteInv', UNCHANGED <<fsVars, pc, jobVars, loadVars>>,
         \A d \in Device : QueueOf(d)'
  PROVE  StemInv'
  <1>1. \A q \in Proc : Same(q) /\ Adds(q)' = Adds(q) /\ On(q)' = On(q)
    BY DEF Same, Adds, On, jobVars, loadVars
  <1>2. pins' = pins /\ dirs' = dirs
    BY DEF fsVars
  <1>3. \A q \in Proc : JobOf(q)' /\ GroupOf(q)'
    BY <1>1, <1>2, SameJob DEF StemInv
  <1>4. \A n \in pins : n.by \in Proc
    BY DEF StemInv, CompleteInv, TypeInv, TypeOK, NodeSet
  <1>5. \A n \in pins' : PinOf(n)'
    BY <1>1, <1>2, <1>4 DEF StemInv, PinOf
  <1>6. OneAdder' /\ AtMostOnePerStem'
    BY <1>1, <1>2 DEF StemInv, OneAdder, AtMostOnePerStem
  <1>7. QED
    BY <1>3, <1>5, <1>6 DEF StemInv

LEMMA KernelStemInv ==
  ASSUME OneAdd, StemInv, CompleteInv', NEW d \in Device, Plug(d) \/ Trigger(d) \/ Unplug(d)
  PROVE  StemInv'
  <1>0. /\ TypeInv /\ QueueOf(d) /\ adds[d] \in 0..MaxAdds /\ MaxAdds \in Nat /\ MaxAdds <= 1
        /\ uevents \in [Device -> Seq(Uevent)] /\ uevents[d] \in Seq(Uevent)
    BY ProcessAssumption DEF StemInv, CompleteInv, TypeInv, TypeOK, OneAdd
  <1>1. UNCHANGED <<fsVars, pc, jobVars, loadVars>>
    BY DEF Plug, Trigger, Unplug
  <1>2. \A q \in Proc : Adds(q)' = Adds(q) /\ On(q)' = On(q)
    BY <1>1 DEF Adds, On, jobVars
  <1>3. \A c \in Device \ {d} : QueueOf(c)'
    <2>1. \A c \in Device \ {d} : here'[c] = here[c] /\ uevents'[c] = uevents[c] /\ adds'[c] = adds[c]
      BY <1>0 DEF Plug, Trigger, Unplug, TypeInv, TypeOK
    <2>2. QED
      BY <1>2, <2>1 DEF StemInv, QueueOf
  <1>4. /\ AddRules(d) = <<"add">> /\ RemoveRules(d) = <<"remove">>
        /\ \A e : IfBinds(e) = <<e>> \/ IfBinds(e) = <<>>
    BY PlainRules DEF OneAdd
  <1>5. CASE Plug(d)
    <2>1. uevents[d] = <<>> /\ \A q \in Proc : ~(Adds(q) /\ On(q) = d)
      BY <1>0, <1>5 DEF Plug, QueueOf
    <2>2. uevents'[d] = <<"add">> \/ uevents'[d] = <<"add", "bind">>
      <3>1. uevents'[d] = <<>> \o <<"add">> \o IfBinds("bind")
        BY <1>0, <1>4, <1>5, <2>1 DEF Plug
      <3>2. "add" \in Uevent /\ "bind" \in Uevent
        BY DEF Uevent
      <3>3. <<>> \o <<"add">> = <<"add">>
        BY <3>2, TwoEvents
      <3>4. uevents'[d] = <<"add">> \o <<"bind">> \/ uevents'[d] = <<"add">> \o <<>>
        BY <1>4, <3>1, <3>3
      <3>5. QED
        BY <3>2, <3>4, TwoEvents
    <2>3. here'[d] = "here" /\ adds'[d] >= MaxAdds
      BY <1>0, <1>5 DEF Plug, TypeInv, TypeOK
    <2>4. \A i \in 1..Len(uevents'[d]) :
            (i = 1 /\ uevents'[d][i] = "add") \/ uevents'[d][i] = "bind"
      <3>1. CASE uevents'[d] = <<"add">>
        BY <3>1
      <3>2. CASE uevents'[d] = <<"add", "bind">>
        BY <3>2
      <3>3. QED
        BY <2>2, <3>1, <3>2
    <2>5. QueueOf(d)'
      BY <1>2, <2>1, <2>3, <2>4 DEF QueueOf
    <2>6. QED
      BY <1>1, <1>3, <2>5, QueueStemInv
  <1>6. CASE Trigger(d)
    BY <1>0, <1>6 DEF Trigger, Here, QueueOf
  <1>7. CASE Unplug(d)
    <2>1. here'[d] = "gone" /\ adds'[d] = adds[d] /\ here[d] = "here"
      BY <1>0, <1>7 DEF Unplug, Here, TypeInv, TypeOK
    <2>2. PICK t \in {<<"remove">>, <<"unbind", "remove">>} : uevents'[d] = uevents[d] \o t
      <3>1. IfBinds("unbind") \in Seq(Uevent) /\ RemoveRules(d) \in Seq(Uevent)
        BY RulesType
      <3>2. uevents'[d] = uevents[d] \o IfBinds("unbind") \o RemoveRules(d)
        BY <1>0, <1>7 DEF Unplug
      <3>3. uevents'[d] = uevents[d] \o (IfBinds("unbind") \o RemoveRules(d))
        BY <1>0, <3>1, <3>2, ConcatAssociative
      <3>4. /\ <<>> \o <<"remove">> = <<"remove">>
            /\ <<"unbind">> \o <<"remove">> = <<"unbind", "remove">>
        BY TwoEvents DEF Uevent
      <3>5. QED
        BY <1>4, <3>3, <3>4
    <2>3. t \in Seq(Uevent) /\ \A i \in 1..Len(t) : t[i] \in {"remove", "bind", "unbind"}
      <3>1. CASE t = <<"remove">>
        BY <3>1 DEF Uevent
      <3>2. CASE t = <<"unbind", "remove">>
        BY <3>2 DEF Uevent
      <3>3. QED
        BY <3>1, <3>2
    <2>4. \A i \in 1..Len(uevents'[d]) :
            \/ i \in 1..Len(uevents[d]) /\ uevents'[d][i] = uevents[d][i]
            \/ uevents'[d][i] \in {"remove", "bind", "unbind"}
      BY <1>0, <2>2, <2>3, AppendQueue
    <2>5. QueueOf(d)'
      BY <1>0, <1>2, <2>1, <2>4 DEF QueueOf
    <2>6. QED
      BY <1>1, <1>3, <2>5, QueueStemInv
  <1>8. QED
    BY <1>5, <1>6, <1>7

LEMMA ListerStemInv ==
  ASSUME StemInv, CompleteInv', NEW d \in Device, Lister(d)
  PROVE  StemInv'
  <1>0. uevents \in [Device -> Seq(Uevent)]
    BY DEF StemInv, CompleteInv, TypeInv, TypeOK
  <1>1. UNCHANGED <<here, adds, fsVars, pc, jobVars, loadVars>>
    BY DEF Lister, ListStart, ListObject, ListDone, kernelVars
  <1>2. \A q \in Proc : Adds(q)' = Adds(q) /\ On(q)' = On(q)
    BY <1>1 DEF Adds, On, jobVars
  <1>3. ASSUME NEW c \in Device PROVE QueueOf(c)'
    <2>1. QueueOf(c) /\ uevents[c] \in Seq(Uevent)
      BY <1>0 DEF StemInv
    <2>2. CASE uevents'[c] = uevents[c]
      BY <1>1, <1>2, <2>1, <2>2 DEF QueueOf
    <2>3. CASE uevents[c] # <<>> /\ uevents'[c] = Tail(uevents[c])
      <3>1. \A i \in 1..Len(uevents'[c]) : /\ uevents'[c][i] = uevents[c][i + 1]
                                           /\ i + 1 \in 1..Len(uevents[c]) /\ i + 1 # 1
        BY <2>1, <2>3, HeadTailProperties, LenProperties
      <3>2. \A i \in 1..Len(uevents'[c]) : uevents'[c][i] \in {"remove", "bind", "unbind"}
        BY <2>1, <3>1 DEF QueueOf
      <3>3. QED
        BY <1>1, <1>2, <2>1, <2>3, <3>2 DEF QueueOf
    <2>4. QED
      BY <1>0, <2>2, <2>3 DEF Lister, ListStart, ListObject, ListDone, kernelVars
  <1>4. QED
    BY <1>1, <1>3, QueueStemInv

\* A process that starts has nothing pinned.
LEMMA BeginStemInv ==
  ASSUME StemInv, CompleteInv', NEW p \in Proc, NEW c, Begin(p, c),
         OneAdder', \A d \in Device : QueueOf(d)', JobOf(p)'
  PROVE  StemInv'
  <1>0. TypeInv
    BY DEF StemInv, CompleteInv
  <1>1. /\ pins' = pins /\ dirs' = dirs /\ ~Adds(p)
        /\ pc'[p] \in {"remove", "check"}
    BY <1>0 DEF Begin, Goto, fsVars, Adds, TypeInv, TypeOK
  <1>2. \A q \in Proc \ {p} : Same(q)
    BY <1>0, JobFunctions DEF Begin, Goto, Same, loadVars
  <1>3. \A n \in pins : n.by \in Proc /\ n.by # p
    BY <1>0, <1>1 DEF StemInv, PinOf, TypeInv, TypeOK, NodeSet
  <1>4. \A n \in pins' : PinOf(n)'
    <2>1. \A q \in Proc \ {p} : Adds(q)' = Adds(q) /\ On(q)' = On(q)
      BY <1>2 DEF Same, Adds, On
    <2>2. \A n \in pins : PinOf(n)
      BY DEF StemInv
    <2>3. QED
      BY <1>1, <1>3, <2>1, <2>2 DEF PinOf
  <1>5. \A q \in Proc : JobOf(q)'
    BY <1>1, <1>2, SameJob DEF StemInv
  <1>6. \A q \in Proc \ {p} : GroupOf(q)'
    BY <1>1, <1>2, SameJob DEF StemInv
  <1>7. GroupOf(p)'
    BY <1>1 DEF GroupOf
  <1>8. AtMostOnePerStem'
    BY <1>1 DEF StemInv, AtMostOnePerStem
  <1>9. QED
    BY <1>4, <1>5, <1>6, <1>7, <1>8 DEF StemInv

\* Starting a remove makes no adder.
LEMMA RemoveStarts ==
  ASSUME StemInv, NEW p \in Proc, NEW c, c.op = "remove", Begin(p, c)
  PROVE  /\ \A q \in Proc : Adds(q)' => Adds(q) /\ On(q)' = On(q)
         /\ OneAdder' /\ JobOf(p)' /\ here' = here /\ adds' = adds
  <1>0. TypeInv
    BY DEF StemInv, CompleteInv
  <1>1. pc[p] = "idle" /\ pc'[p] = "remove" /\ cmd'[p].op = "remove" /\ here' = here /\ adds' = adds
    BY <1>0 DEF Begin, Goto, RemovesFirst, TypeInv, TypeOK
  <1>2. \A q \in Proc \ {p} : pc'[q] = pc[q] /\ cmd'[q] = cmd[q]
    BY <1>0, JobFunctions DEF Begin, Goto
  <1>3. \A q \in Proc : Adds(q)' => Adds(q) /\ On(q)' = On(q)
    BY <1>1, <1>2 DEF Adds, On
  <1>4. OneAdder'
    BY <1>3 DEF StemInv, OneAdder
  <1>5. JobOf(p)'
    BY <1>1 DEF JobOf, Adds
  <1>6. QED
    BY <1>1, <1>3, <1>4, <1>5

LEMMA CommandStemInv ==
  ASSUME StemInv, CompleteInv', NEW p \in Proc, NEW c, c.op = "remove", Begin(p, c),
         UNCHANGED uevents
  PROVE  StemInv'
  <1>1. \A d \in Device : QueueOf(d)'
    BY RemoveStarts DEF StemInv, QueueOf
  <1>2. QED
    BY <1>1, RemoveStarts, BeginStemInv

LEMMA UdevStemInv ==
  ASSUME StemInv, CompleteInv', NEW p \in Proc, NEW d \in Device, UdevStart(p, d)
  PROVE  StemInv'
  <1> DEFINE e == Head(uevents[d])
             c == [op |-> IF e = "remove" THEN "remove" ELSE "add", replace |-> FALSE,
                   devs |-> <<d>>,
                   calls |-> IF e = "remove" THEN <<>>
                             ELSE <<[devs |-> <<d>>, objs |-> {e} \cap Object]>>]
  <1>0. /\ TypeInv /\ uevents \in [Device -> Seq(Uevent)] /\ uevents[d] \in Seq(Uevent)
        /\ QueueOf(d)
    BY DEF StemInv, CompleteInv, TypeInv, TypeOK
  <1>1. Begin(p, c) /\ uevents[d] # <<>> /\ uevents' = [uevents EXCEPT ![d] = Tail(@)]
    BY DEF UdevStart
  <1>2. e = uevents[d][1] /\ 1 \in 1..Len(uevents[d]) /\ e \notin {"bind", "unbind"}
    BY <1>0, <1>1, LenProperties DEF UdevStart
  <1>3. \A i \in 1..Len(uevents'[d]) : uevents'[d][i] \in {"remove", "bind", "unbind"}
    <2>1. \A i \in 1..Len(uevents'[d]) : /\ uevents'[d][i] = uevents[d][i + 1]
                                         /\ i + 1 \in 1..Len(uevents[d]) /\ i + 1 # 1
      BY <1>0, <1>1, HeadTailProperties, LenProperties
    <2>2. QED
      BY <1>0, <2>1 DEF QueueOf
  <1>4. here[d] # "new" /\ adds[d] >= MaxAdds
    BY <1>0, <1>1 DEF QueueOf
  <1>5. here' = here /\ adds' = adds
    BY <1>1 DEF Begin
  <1>6. \A x \in Device \ {d} : uevents'[x] = uevents[x]
    BY <1>0, <1>1
  <1>7. CASE e = "remove"
    <2>1. c.op = "remove"
      BY <1>7
    <2>2. /\ \A q \in Proc : Adds(q)' => Adds(q) /\ On(q)' = On(q)
          /\ OneAdder' /\ JobOf(p)'
      BY <1>1, <2>1, RemoveStarts
    <2>3. QueueOf(d)'
      BY <1>3, <1>4, <1>5 DEF QueueOf
    <2>4. \A x \in Device \ {d} : QueueOf(x)'
      BY <1>5, <1>6, <2>2 DEF StemInv, QueueOf
    <2>5. QED
      BY <1>1, <2>2, <2>3, <2>4, BeginStemInv
  <1>8. CASE e # "remove"
    <2>1. e = "add" /\ \A q \in Proc : ~(Adds(q) /\ On(q) = d)
      BY <1>0, <1>2, <1>8 DEF QueueOf
    <2>2. {e} \cap Object = {}
      BY <2>1, NoneAssumption
    <2>3. c.op = "add" /\ c.devs = <<d>> /\ c.calls = <<[devs |-> <<d>>, objs |-> {}]>> /\ ~c.replace
      BY <1>8, <2>2
    <2>4. /\ pc[p] = "idle" /\ pc'[p] = "check" /\ cmd'[p].op = "add" /\ On(p)' = d
          /\ calls'[p] = <<[devs |-> <<d>>, objs |-> {}]>>
      <3>1. pc' = [pc EXCEPT ![p] = "check"] /\ cmd'[p] = c /\ calls'[p] = c.calls /\ pc[p] = "idle"
        BY <1>0, <1>1, <2>3 DEF Begin, Goto, RemovesFirst, TypeInv, TypeOK
      <3>2. QED
        BY <1>0, <2>3, <3>1, JobFunctions DEF On
    <2>5. \A q \in Proc \ {p} : Adds(q)' = Adds(q) /\ On(q)' = On(q)
      BY <1>0, <1>1, JobFunctions DEF Begin, Goto, Adds, On
    <2>6. OneAdder'
      BY <2>1, <2>4, <2>5 DEF StemInv, OneAdder
    <2>7. QueueOf(d)'
      BY <1>3, <1>4, <1>5 DEF QueueOf
    <2>8. \A x \in Device \ {d} : QueueOf(x)'
      BY <1>5, <1>6, <2>4, <2>5 DEF StemInv, QueueOf, Adds
    <2>9. Bare(d)'
      <3>1. \A n \in pins : n.by \in Proc
        BY <1>0 DEF TypeInv, TypeOK, NodeSet
      <3>2. QED
        BY <1>1, <2>1, <3>1 DEF StemInv, PinOf, Bare, Begin, fsVars
    <2>10. JobOf(p)'
      BY <2>4, <2>9 DEF JobOf, Bare
    <2>11. QED
      BY <1>1, <2>6, <2>7, <2>8, <2>10, BeginStemInv
  <1>9. QED
    BY <1>7, <1>8

LEMMA KillStemInv ==
  ASSUME StemInv, CompleteInv', NEW p \in Proc, Kill(p)
  PROVE  StemInv'
  <1>0. TypeInv /\ JobOf(p)
    BY DEF StemInv, CompleteInv
  <1>1. /\ pc[p] # "idle" /\ pc'[p] = "dead" /\ UNCHANGED <<kernelVars, cmd>>
        /\ pins' = pins /\ dirs' = dirs
    BY <1>0 DEF Kill, Running, Goto, fsVars, jobVars, TypeInv, TypeOK
  <1>2. \A q \in Proc \ {p} : Same(q)
    BY <1>0, JobFunctions DEF Kill, Goto, Same, jobVars, loadVars
  <1>3. QED
    BY <1>0, <1>1, <1>2, ExitedJob, NoPinStemInv

LEMMA NextStemInv ==
  ASSUME OneAdd, WholeFiles, StemInv, [Next]_vars
  PROVE  StemInv'
  <1>0. CompleteInv'
    BY NextTypeInv, NextLoadedIsComplete, NextProgress DEF StemInv, CompleteInv
  <1>1. ASSUME NEW d \in Device, Plug(d) \/ Trigger(d) \/ Unplug(d) \/ Lister(d) PROVE StemInv'
    BY <1>0, <1>1, KernelStemInv, ListerStemInv
  <1>2. ASSUME NEW p \in Proc, NEW d \in Device, UdevStart(p, d) PROVE StemInv'
    BY <1>0, <1>2, UdevStemInv
  <1>3. ASSUME NEW p \in Proc, NEW c \in Commands, CliStart(p, c) PROVE StemInv'
    BY <1>0, <1>3, CommandStemInv DEF CliStart, OneAdd
  <1>4. ASSUME NEW p \in Proc, Step(p) \/ Kill(p) PROVE StemInv'
    BY <1>0, <1>4, RemoverStemInv, AdderStemInv, LoaderStemInv, KillStemInv DEF Step
  <1>5. CASE UNCHANGED vars
    <2>1. UNCHANGED <<here, uevents, adds, fsVars, pc, jobVars, loadVars>>
      BY <1>5 DEF vars, kernelVars
    <2>2. \A d \in Device : QueueOf(d)'
      BY <2>1 DEF StemInv, QueueOf, Adds, On, jobVars
    <2>3. QED
      BY <1>0, <2>1, <2>2, QueueStemInv
  <1>6. QED
    BY <1>1, <1>2, <1>3, <1>4, <1>5 DEF Next, OneAdd

\* When every device gets one add event, whatever is removed or killed meanwhile,
\* load_bpf_files never leaves two files of one group on a device: the next file of
\* a group is tried only when nothing of the one before it has stayed pinned.
THEOREM OnePerStem ==
  ASSUME OneAdd, WholeFiles
  PROVE  Spec => []AtMostOnePerStem
  <1>1. StemInv /\ [Next]_vars => StemInv'
    BY NextStemInv
  <1>2. Spec => []StemInv
    BY <1>1, InitStemInv, PTL DEF Spec
  <1>3. StemInv => AtMostOnePerStem
    BY DEF StemInv
  <1>4. QED
    BY <1>2, <1>3, PTL

\* Only a remove_dir_all unlinks, and the one of pin_maps finds nothing to unlink.
LEMMA UnlinkStep ==
  ASSUME TypeInv, [Next]_vars
  PROVE  \A n \in pins \ pins' : \E p \in Proc : Unlink(p) /\ n \in Under(p)
  <1> USE DEF fsVars
  <1>1. ASSUME NEW d \in Device, Plug(d) \/ Trigger(d) \/ Unplug(d) \/ Lister(d)
        PROVE  pins' = pins
    BY <1>1 DEF Plug, Trigger, Unplug, Lister, ListStart, ListObject, ListDone
  <1>2. ASSUME NEW p \in Proc, NEW c, Begin(p, c) PROVE pins' = pins
    BY <1>2 DEF Begin
  <1>3. ASSUME NEW p \in Proc, Remover(p) PROVE pins' = pins \/ Unlink(p)
    BY <1>3 DEF Remover, RemoveNext, RemoveBadPath, RemoveDone, RmDir, EndRemove
  <1>4. ASSUME NEW p \in Proc, Adder(p) PROVE pins' = pins
    BY <1>4 DEF Adder, CheckPaths, NextDevice, NoDevice, AddDone, CallDone, LoadAndProbe, DeviceDone
  <1>5. ASSUME NEW p \in Proc, Loader(p) PROVE pins \subseteq pins'
    BY <1>5 DEF Loader, MkDir, Attach, PinLink, AttachDone, PinMap, PinMapsDone, EndClean
  <1>6. ASSUME NEW p \in Proc, Kill(p) PROVE pins' = pins
    BY <1>6 DEF Kill
  <1>7. CASE UNCHANGED vars
    BY <1>7 DEF vars
  <1>8. ASSUME NEW p \in Proc, Unlink(p) PROVE \A n \in pins \ pins' : n \in Under(p)
    BY <1>8 DEF Unlink
  <1>9. QED
    BY <1>1, <1>2, <1>3, <1>4, <1>5, <1>6, <1>7, <1>8, NextCases DEF UdevStart

\* When every device gets one add event, what was reported as loaded is only taken
\* away by a removal of the device's programs: when pin_maps fails, the directory it
\* drops has no program or map of this or of another process in it.
THEOREM Survival ==
  ASSUME OneAdd, WholeFiles
  PROVE  Spec => SuccessSurvives
  <1>1. ASSUME StemInv, [Next]_vars
        PROVE  [\A n \in pins \ pins' : <<n.dev, n.obj>> \in loaded[n.by] =>
                  \E p \in Proc : pc[p] = "walk" /\ dev[p] = n.dev]_vars
    <2>1. ASSUME NEW n \in pins \ pins'
          PROVE  \E p \in Proc : pc[p] = "walk" /\ dev[p] = n.dev
      <3>1. PICK p \in Proc : Unlink(p) /\ n \in Under(p)
        BY <1>1, <2>1, UnlinkStep DEF StemInv, CompleteInv
      <3>2. n.dev = dev[p] /\ n.obj \in Scope(p) /\ pc[p] \in {"walk", "clean"}
        BY <3>1 DEF Under, Unlink
      <3>3. pc[p] # "clean"
        BY <1>1, <3>2 DEF StemInv, GroupOf, Scope
      <3>4. QED
        BY <3>2, <3>3
    <2>2. QED
      BY <2>1
  <1>2. StemInv /\ [Next]_vars => StemInv'
    BY NextStemInv
  <1>3. QED
    BY <1>1, <1>2, InitStemInv, PTL DEF Spec, SuccessSurvives

=============================================================================
