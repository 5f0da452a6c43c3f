----------------------------- MODULE BpfLoader -----------------------------
(***************************************************************************)
(* Concurrent invocations of udev-hid-bpf over one bpffs.                  *)
(*                                                                         *)
(* Every invocation (add, add -, add --replace, remove) is a process.      *)
(* udevd starts them for the uevents of a device and never two at once for *)
(* the same device; an administrator starts others at any time.  No lock   *)
(* orders them: what they share is the tree /sys/fs/bpf/hid/<dev>/<obj>/   *)
(* and the programs the kernel runs on the device, which live as long as   *)
(* somebody pins them or holds them open.                                  *)
(*                                                                         *)
(* What an add prints of a program's property maps becomes properties of   *)
(* the device in udev's database.  udevd clears them when a driver is      *)
(* bound or unbound and runs list-loaded, which finds them in bpffs again. *)
(*                                                                         *)
(* A .bpf.o file is an element of Object.  Loading it attaches and pins    *)
(* its programs, then pins its maps, entry by entry, and each of those     *)
(* steps may find the tree changed by somebody else.                       *)
(***************************************************************************)
EXTENDS Naturals, Sequences, FiniteSets, Functions

CONSTANTS
  Device,      \* HID devices by sysname; a device plugged in again is a new one
  OtherPath,   \* paths given on the command line that belong to no HID device
  Object,      \* .bpf.o files, each the name of a directory in bpffs
  Entry,       \* names of programs and maps
  Links,       \* [Object -> SUBSET Entry], the programs to attach and pin
  Maps,        \* [Object -> SUBSET Entry], the maps to pin
  PropertyMap, \* the maps whose name begins with UDEV_PROP_
  Unreadable,  \* the objects whose property maps the kernel does not look up
  Tracing,     \* the objects loaded by HidBPFTrace, the others by HidBPFStructOps
  Fixup,       \* the objects with a report descriptor fixup
  Stem,        \* [Object -> Nat], the file name after its first '-', in sort order
  Version,     \* [Object -> Nat], the number before it
  Properties,  \* [Device -> SUBSET Object], what the HID_BPF_ properties name
  Ignored,     \* the devices with HID_BPF_IGNORE_DEVICE
  Installed,   \* [Device -> Seq(Object)], files with a rule written by install
  Compatible,  \* [Object -> SUBSET Device], those find_sysfs_devices finds for it
  Accepts,     \* [Device -> SUBSET Object], what opens, loads and probes there
  Proc,        \* invocations of udev-hid-bpf
  Udev,        \* those that udevd starts
  Commands,    \* the command lines an administrator may type,
  Matches,     \*   and those of add -: the objects named, with or without --replace
  Binds,       \* TRUE: drivers are bound to devices, and the kernel says so
  Serial,      \* TRUE: every command is waited for before the next one starts
  Crash,       \* the operations during which a process may be killed
  MaxAdds,     \* bound: add uevents per device, the first one and triggers
  None

Path == Device \cup OtherPath

\* A call of cmd_add, and a command line: the paths for cmd_remove and the calls
\* of cmd_add.
Call == [devs: Seq(Path), objs: SUBSET Object]
Command == [op: {"add", "remove"}, replace: BOOLEAN, devs: Seq(Path), calls: Seq(Call)]

\* What udevd handles of an uevent: a rule for it, or the rule of an installed file.
Uevent == {"add", "remove", "bind", "unbind"} \cup Object

ASSUME ObjectAssumption ==
  /\ IsFiniteSet(Object)
  /\ Links \in [Object -> SUBSET Entry]
  /\ Maps \in [Object -> SUBSET Entry]
  /\ Stem \in [Object -> Nat]
  /\ Version \in [Object -> Nat]
ASSUME DeviceAssumption ==
  /\ IsFiniteSet(Device)
  /\ Device \cap OtherPath = {}
  /\ Properties \in [Device -> SUBSET Object]
  /\ Accepts \in [Device -> SUBSET Object]
  /\ Installed \in [Device -> Seq(Object)]
  /\ Compatible \in [Object -> SUBSET Device]
ASSUME ProcessAssumption ==
  /\ Udev \subseteq Proc
  /\ Commands \subseteq Command
  /\ Matches \subseteq [replace: BOOLEAN, objs: Seq(Object)]
  /\ Binds \in BOOLEAN
  /\ MaxAdds \in Nat
ASSUME NoneAssumption ==
  /\ None \notin Device \cup Object
  /\ Object \cap {"add", "remove", "bind", "unbind"} = {}

VARIABLES
  here,      \* [Device -> {"new", "here", "gone"}]
  uevents,   \* [Device -> Seq(Uevent)], not yet handled by udevd
  adds,      \* [Device -> Nat], add uevents so far
  udev,      \* [Device -> SUBSET (Object \X Entry)], properties of programs it knows
  list,      \* [Device -> ...], the list-loaded that udevd runs for it, if any
  pins,      \* the entries pinned in bpffs
  dirs,      \* the directories <dev>/<obj> of bpffs
  unlinked,  \* history: every entry that was pinned and then unlinked
  pc,        \* where each process is
  cmd,       \* its command line
  calls,     \* the calls of cmd_add it still has to make
  named,     \* the objects of the call it is in
  todo,      \* the paths it has not handled yet
  dev,       \* the device it is working on
  cand,      \* the objects it may still try on that device
  obj,       \* the object it is loading
  left,      \* the entries of that object it has not tried yet
  done,      \* the entries of that object it has pinned
  held,      \* programs it has attached and holds open without a pin
  seen,      \* the entries its remove_dir_all has listed and not unlinked
  loaded     \* history: <<device, object>> it reported as loaded

kernelVars == <<here, uevents, adds>>
udevVars   == <<udev, list>>
fsVars     == <<pins, dirs, unlinked>>
jobVars    == <<cmd, calls, named, todo, dev, cand>>
loadVars   == <<obj, left, done>>
vars == <<kernelVars, udevVars, fsVars, pc, jobVars, loadVars, held, seen, loaded>>

\* An entry of bpffs: what it is, and the process whose program or map it pins.
Node(d, o, e, p) == [dev |-> d, obj |-> o, ent |-> e, by |-> p]
NodeSet == [dev: Device, obj: Object, ent: Entry, by: Proc]

Exited  == {"idle", "ok", "err", "dead"}
Loading == {"mkdir", "attach", "pin", "maps", "clean"}
Running(p) == pc[p] \notin Exited

\* list-loaded: the objects it has still to look at, and what it has found.
NoList == [on |-> FALSE, left |-> {}, got |-> {}]
ListSet == [on: BOOLEAN, left: SUBSET Object, got: SUBSET (Object \X Entry)]

Goto(p, l) == pc' = [pc EXCEPT ![p] = l]
Here(d) == here[d] = "here"

\* bpf_obj_pin: the directory must exist and the name must be free.
CanPin(d, o, e) ==
  /\ <<d, o>> \in dirs
  /\ \A n \in pins : ~(n.dev = d /\ n.obj = o /\ n.ent = e)

\* The programs the kernel runs on d: pinned, or held open by a process.
Attached(d) == {n \in pins \cup UNION {held[q] : q \in Proc} :
                  n.dev = d /\ n.ent \in Links[n.obj]}

\* The kernel takes a program for a device that exists, and only one report
\* descriptor fixup for each device.
CanAttach(d, o) ==
  /\ Here(d)
  /\ o \in Fixup => \A n \in Attached(d) : n.obj \notin Fixup

\* The order in which one device's candidates are tried: group after group,
\* the highest version of a group first.
BeforeOldestFirst(o1, o2) ==  \* a slip: dictionary order within a group, too
  \/ Stem[o1] < Stem[o2]
  \/ Stem[o1] = Stem[o2] /\ Version[o1] <= Version[o2]
Before(o1, o2) ==
  \/ Stem[o1] < Stem[o2]
  \/ Stem[o1] = Stem[o2] /\ Version[o1] >= Version[o2]

Init ==
  /\ here = [d \in Device |-> "new"]
  /\ uevents = [d \in Device |-> <<>>]
  /\ adds = [d \in Device |-> 0]
  /\ udev = [d \in Device |-> {}] /\ list = [d \in Device |-> NoList]
  /\ pins = {} /\ dirs = {} /\ unlinked = {}
  /\ pc = [p \in Proc |-> "idle"]
  /\ cmd = [p \in Proc |-> [op |-> "add", replace |-> FALSE, devs |-> <<>>, calls |-> <<>>]]
  /\ calls = [p \in Proc |-> <<>>]
  /\ named = [p \in Proc |-> {}]
  /\ todo = [p \in Proc |-> <<>>]
  /\ dev = [p \in Proc |-> None]
  /\ cand = [p \in Proc |-> {}]
  /\ obj = [p \in Proc |-> None]
  /\ left = [p \in Proc |-> {}]
  /\ done = [p \in Proc |-> {}]
  /\ held = [p \in Proc |-> {}]
  /\ seen = [p \in Proc |-> {}]
  /\ loaded = [p \in Proc |-> {}]

-----------------------------------------------------------------------------
(* The kernel and udevd.                                                   *)

\* The rules an uevent meets: 81-hid-bpf.rules, and 99-hid-bpf-<name>.rules for
\* each installed file.
AddRules(d) == <<"add">> \o Installed[d]
RemoveRules(d) == <<"remove">> \o [i \in DOMAIN Installed[d] |-> "remove"]
IfBinds(e) == IF Binds THEN <<e>> ELSE <<>>

Plug(d) ==
  /\ here[d] = "new"
  /\ adds[d] < MaxAdds
  /\ here' = [here EXCEPT ![d] = "here"]
  /\ adds' = [adds EXCEPT ![d] = @ + 1]
  /\ uevents' = [uevents EXCEPT ![d] = @ \o AddRules(d) \o IfBinds("bind")]
  /\ UNCHANGED <<udevVars, fsVars, pc, jobVars, loadVars, held, seen, loaded>>

\* udevadm trigger --action=add
Trigger(d) ==
  /\ Here(d)
  /\ adds[d] < MaxAdds
  /\ adds' = [adds EXCEPT ![d] = @ + 1]
  /\ uevents' = [uevents EXCEPT ![d] = @ \o AddRules(d)]
  /\ UNCHANGED <<here, udevVars, fsVars, pc, jobVars, loadVars, held, seen, loaded>>

Unplug(d) ==
  /\ Here(d)
  /\ here' = [here EXCEPT ![d] = "gone"]
  /\ uevents' = [uevents EXCEPT ![d] = @ \o IfBinds("unbind") \o RemoveRules(d)]
  /\ UNCHANGED <<adds, udevVars, fsVars, pc, jobVars, loadVars, held, seen, loaded>>

\* Does the command begin with cmd_remove?
RemovesRemoveOnly(c) == c.op = "remove"  \* a slip: --replace is forgotten
RemovesFirst(c) == c.op = "remove" \/ c.replace

\* The command line is parsed and the command starts: remove, and the removal
\* of add --replace, go over the paths first.
Begin(p, c) ==
  /\ pc[p] = "idle"
  /\ Serial => \A q \in Proc : ~Running(q)
  /\ cmd' = [cmd EXCEPT ![p] = c]
  /\ calls' = [calls EXCEPT ![p] = c.calls]
  /\ todo' = [todo EXCEPT ![p] = c.devs]
  /\ Goto(p, IF RemovesFirst(c) THEN "remove" ELSE "check")
  /\ UNCHANGED <<named, dev, cand, here, adds, list, fsVars, loadVars, held, seen, loaded>>

\* udevd works on d: no other uevent of it is handled.
Busy(d) == list[d].on \/ \E q \in Udev : Running(q) /\ cmd[q].devs = <<d>>

\* A new uevent begins with the properties of none; the rule of an installed file
\* goes on with those of the rules before it.
UdevStart(p, d) ==
  /\ p \in Udev
  /\ uevents[d] # <<>>
  /\ Head(uevents[d]) \notin {"bind", "unbind"}
  /\ ~Busy(d)
  /\ LET e == Head(uevents[d]) IN
       /\ Begin(p, [op |-> IF e = "remove" THEN "remove" ELSE "add", replace |-> FALSE,
                    devs |-> <<d>>,
                    calls |-> IF e = "remove" THEN <<>>
                              ELSE <<[devs |-> <<d>>, objs |-> {e} \cap Object]>>])
       /\ udev' = [udev EXCEPT ![d] = IF e \in Object THEN @ ELSE {}]
  /\ uevents' = [uevents EXCEPT ![d] = Tail(@)]

CliStart(p, c) ==
  /\ p \notin Udev
  /\ Begin(p, c)
  /\ UNCHANGED <<uevents, udev>>

\* S in some order.
Orders(S) == {s \in [1..Cardinality(S) -> S] : \A x \in S : \E i \in DOMAIN s : s[i] = x}

\* add - <objects>: one cmd_add for each object, in the order of the command line,
\* on the devices find_sysfs_devices lists for it; --replace goes over the devices
\* of all of them, in the order of a HashMap.  Without a device it is refused.
CliMatch(p, m) ==
  LET Found(o) == {d \in Compatible[o] : Here(d)}
      pairs == {x \in Range(m.objs) \X Device : x[2] \in Found(x[1])}
  IN
    /\ p \notin Udev
    /\ pairs # {}
    /\ \E ds \in Orders(pairs), f \in [Range(m.objs) -> UNION {Orders(Found(o)) : o \in Object}] :
         /\ \A o \in DOMAIN f : f[o] \in Orders(Found(o))
         /\ Begin(p, [op |-> "add", replace |-> m.replace,
                      devs |-> [i \in DOMAIN ds |-> ds[i][2]],
                      calls |-> [i \in DOMAIN m.objs |->
                                   [devs |-> f[m.objs[i]], objs |-> {m.objs[i]}]]])
    /\ UNCHANGED <<uevents, udev>>

\* A killed process, or one that exits, loses the programs it only held open.
Kill(p) ==
  /\ Running(p)
  /\ cmd[p].op \in Crash
  /\ Goto(p, "dead")
  /\ held' = [held EXCEPT ![p] = {}]
  /\ UNCHANGED <<kernelVars, udevVars, fsVars, jobVars, loadVars, seen, loaded>>

Exit(p, code) ==
  /\ Goto(p, code)
  /\ held' = [held EXCEPT ![p] = {}]
  /\ UNCHANGED <<calls, named, todo, dev, cand>>

-----------------------------------------------------------------------------
(* cmd_remove, and remove_dir_all on the directory of a device or, when    *)
(* pin_maps has failed, on the directory of one object.                    *)

ScopeDevice(p) == Object  \* a slip: pin_maps drops the device's directory
ScopeLastObject(p) == {obj[p]}  \* a slip: remove drops one object, too
Scope(p) == IF pc[p] = "walk" THEN Object ELSE {obj[p]}
Under(p) == {n \in pins : n.dev = dev[p] /\ n.obj \in Scope(p)}
DirsUnder(p) == {x \in dirs : x[1] = dev[p] /\ x[2] \in Scope(p)}

\* sysname_from_syspath still names a device that sysfs no longer has.
HasSysnameInSysfs(x) == x \in Device /\ Here(x)  \* a slip: no such fallback
HasSysname(x) == x \in Device

RemoveNext(p) ==
  /\ pc[p] = "remove"
  /\ todo[p] # <<>>
  /\ HasSysname(Head(todo[p]))
  /\ dev' = [dev EXCEPT ![p] = Head(todo[p])]
  /\ todo' = [todo EXCEPT ![p] = Tail(@)]
  /\ seen' = [seen EXCEPT ![p] = {n \in pins : n.dev = Head(todo[p])}]
  /\ Goto(p, "walk")
  /\ UNCHANGED <<kernelVars, udevVars, fsVars, cmd, calls, named, cand, loadVars, held, loaded>>

\* A path of no HID device ends the command, whatever paths follow it.
RemoveBadPath(p) ==
  /\ pc[p] = "remove"
  /\ todo[p] # <<>>
  /\ ~HasSysname(Head(todo[p]))
  /\ Exit(p, "err")
  /\ UNCHANGED <<kernelVars, udevVars, fsVars, cmd, loadVars, seen, loaded>>

RemoveDone(p) ==
  /\ pc[p] = "remove"
  /\ todo[p] = <<>>
  /\ IF cmd[p].op = "remove"
     THEN Exit(p, "ok")
     ELSE Goto(p, "check") /\ UNCHANGED <<calls, named, todo, dev, cand, held>>
  /\ UNCHANGED <<kernelVars, udevVars, fsVars, cmd, loadVars, seen, loaded>>

Unlink(p) ==
  /\ pc[p] \in {"walk", "clean"}
  /\ \E n \in Under(p) :
       /\ pins' = pins \ {n}
       /\ unlinked' = unlinked \cup {n}
       /\ seen' = [seen EXCEPT ![p] = @ \ {n}]
  /\ UNCHANGED <<kernelVars, udevVars, dirs, pc, jobVars, loadVars, held, loaded>>

RmDir(p) ==
  /\ pc[p] \in {"walk", "clean"}
  /\ \E x \in DirsUnder(p) :
       /\ \A n \in pins : ~(n.dev = x[1] /\ n.obj = x[2])
       /\ dirs' = dirs \ {x}
  /\ UNCHANGED <<kernelVars, udevVars, pins, unlinked, pc, jobVars, loadVars, held, seen, loaded>>

\* The walk is over when the tree is gone, or at the first error, which is
\* dropped: a directory that is not empty because entries came in after it was
\* listed, or an entry that somebody else has unlinked (an error only for the
\* remove_dir_all of older standard libraries).
WalkOver(p) ==
  \/ DirsUnder(p) = {}
  \/ \E x \in DirsUnder(p) : LET In == {n \in pins : n.dev = x[1] /\ n.obj = x[2]} IN
       In # {} /\ In \cap seen[p] = {}
  \/ ~(seen[p] \subseteq pins)

EndRemove(p) ==
  /\ pc[p] = "walk"
  /\ WalkOver(p)
  /\ Goto(p, "remove")
  /\ UNCHANGED <<kernelVars, udevVars, fsVars, jobVars, loadVars, held, seen, loaded>>

-----------------------------------------------------------------------------
(* cmd_add                                                                 *)

\* The next call of cmd_add.  Every path must exist before the first one is handled,
\* and one of the directories that are searched when it names no file, which no
\* package or administrator promises.
CheckPaths(p) ==
  /\ pc[p] = "check"
  /\ calls[p] # <<>>
  /\ LET c == Head(calls[p]) IN
       \/ /\ \A i \in DOMAIN c.devs : c.devs[i] \in Device => Here(c.devs[i])
          /\ Goto(p, "device")
          /\ calls' = [calls EXCEPT ![p] = Tail(@)]
          /\ named' = [named EXCEPT ![p] = c.objs]
          /\ todo' = [todo EXCEPT ![p] = c.devs]
          /\ UNCHANGED <<dev, cand, held>>
       \/ /\ \/ \E i \in DOMAIN c.devs : c.devs[i] \in Device /\ ~Here(c.devs[i])
             \/ c.objs = {}
          /\ Exit(p, "err")
  /\ UNCHANGED <<kernelVars, udevVars, fsVars, cmd, loadVars, seen, loaded>>

\* What list-loaded, or an add that is over, prints of these objects and entries.
PropertiesOf(S) == {x \in S : x[2] \in PropertyMap}

\* udevd imports what its add has printed: the property maps of each object
\* when it was loaded.
AddDone(p) ==
  /\ pc[p] = "check"
  /\ calls[p] = <<>>
  /\ Exit(p, "ok")
  /\ udev' = [d \in Device |->
                udev[d] \cup IF p \notin Udev THEN {} ELSE
                  PropertiesOf({x \in Object \X Entry :
                                  <<d, x[1]>> \in loaded[p] /\ x[2] \in Maps[x[1]]})]
  /\ UNCHANGED <<kernelVars, list, fsVars, cmd, loadVars, seen, loaded>>

\* The files named on the command line, or those of the device's properties.
Selected(S, d) ==
  IF S # {} THEN S
  ELSE IF d \in Ignored THEN {} ELSE Properties[d]

NextDevice(p) ==
  /\ pc[p] = "device"
  /\ todo[p] # <<>>
  /\ Head(todo[p]) \in Device
  /\ Here(Head(todo[p]))
  /\ dev' = [dev EXCEPT ![p] = Head(todo[p])]
  /\ todo' = [todo EXCEPT ![p] = Tail(@)]
  /\ cand' = [cand EXCEPT ![p] = Selected(named[p], Head(todo[p]))]
  /\ Goto(p, "load")
  /\ UNCHANGED <<kernelVars, udevVars, fsVars, cmd, calls, named, loadVars, held, seen, loaded>>

\* No HID device there, or none any more: the rest of the list is dropped.
NoDevice(p) ==
  /\ pc[p] = "device"
  /\ todo[p] # <<>>
  /\ Head(todo[p]) \in Device => ~Here(Head(todo[p]))
  /\ Exit(p, "err")
  /\ UNCHANGED <<kernelVars, udevVars, fsVars, cmd, loadVars, seen, loaded>>

CallDone(p) ==
  /\ pc[p] = "device"
  /\ todo[p] = <<>>
  /\ Goto(p, "check")
  /\ UNCHANGED <<kernelVars, udevVars, fsVars, jobVars, loadVars, held, seen, loaded>>

-----------------------------------------------------------------------------
(* load_bpf_files and load_programs                                        *)

\* What is left to try after o: on success the rest of its group is skipped, on
\* an error the next program of the group is tried.
RemainingNoBreak(S, o, ok) == S \ {o}  \* a slip: no break after a success
Remaining(S, o, ok) == IF ok THEN {x \in S : Stem[x] # Stem[o]} ELSE S \ {o}

Report(p, o, ok) ==
  /\ Goto(p, "load")
  /\ cand' = [cand EXCEPT ![p] = Remaining(@, o, ok)]
  /\ IF ok
     THEN loaded' = [loaded EXCEPT ![p] = @ \cup {<<dev[p], o>>}]
     ELSE UNCHANGED loaded
  /\ UNCHANGED <<cmd, calls, named, todo, dev>>

StartObjectKeepDone(p, o) ==  \* a slip: what was pinned before is not forgotten
  /\ obj' = [obj EXCEPT ![p] = o]
  /\ left' = [left EXCEPT ![p] = Links[o]]
  /\ UNCHANGED done
StartObject(p, o) ==
  /\ obj' = [obj EXCEPT ![p] = o]
  /\ left' = [left EXCEPT ![p] = Links[o]]
  /\ done' = [done EXCEPT ![p] = {}]

\* From reading the report descriptor to the return value of probe().
LoadAndProbe(p) ==
  /\ pc[p] = "load"
  /\ \E o \in cand[p] :
       /\ \A x \in cand[p] : Before(o, x)
       /\ IF Here(dev[p]) /\ o \in Accepts[dev[p]]
          THEN /\ StartObject(p, o)
               /\ Goto(p, IF o \in Tracing THEN "attach" ELSE "mkdir")
               /\ UNCHANGED <<jobVars, loaded>>
          ELSE Report(p, o, FALSE) /\ UNCHANGED loadVars
  /\ UNCHANGED <<kernelVars, udevVars, fsVars, held, seen>>

DeviceDone(p) ==
  /\ pc[p] = "load"
  /\ cand[p] = {}
  /\ Goto(p, "device")
  /\ UNCHANGED <<kernelVars, udevVars, fsVars, jobVars, loadVars, held, seen, loaded>>

\* HidBPFStructOps creates the directory before its first program,
\* HidBPFTrace for each program it has attached.
MkDir(p) ==
  /\ pc[p] = "mkdir"
  /\ dirs' = dirs \cup {<<dev[p], obj[p]>>}
  /\ Goto(p, IF obj[p] \in Tracing THEN "pin" ELSE "attach")
  /\ UNCHANGED <<kernelVars, udevVars, pins, unlinked, jobVars, loadVars, held, seen, loaded>>

\* A program that fails ends a struct_ops object; for a tracing object it is
\* skipped with a warning.
SkipWarnOnly(p, e) ==  \* a slip: a struct_ops object goes on, too
  /\ left' = [left EXCEPT ![p] = @ \ {e}]
  /\ Goto(p, "attach")
  /\ UNCHANGED <<obj, done, jobVars, loaded>>
Skip(p, e) ==
  IF obj[p] \in Tracing
  THEN /\ left' = [left EXCEPT ![p] = @ \ {e}]
       /\ Goto(p, "attach")
       /\ UNCHANGED <<obj, done, jobVars, loaded>>
  ELSE Report(p, obj[p], FALSE) /\ UNCHANGED loadVars

Attach(p) ==
  /\ pc[p] = "attach"
  /\ \E e \in left[p] :
       IF CanAttach(dev[p], obj[p])
       THEN /\ held' = [held EXCEPT ![p] = @ \cup {Node(dev[p], obj[p], e, p)}]
            /\ Goto(p, IF obj[p] \in Tracing THEN "mkdir" ELSE "pin")
            /\ UNCHANGED <<jobVars, loadVars, loaded>>
       ELSE Skip(p, e) /\ UNCHANGED held
  /\ UNCHANGED <<kernelVars, udevVars, fsVars, seen>>

\* Once pinned a program outlives the process.  When the pin fails a
\* struct_ops link is dropped at once, the descriptor of a tracing link stays
\* open until the process exits.
PinLink(p) ==
  /\ pc[p] = "pin"
  /\ \E e \in left[p] : LET n == Node(dev[p], obj[p], e, p) IN
       /\ n \in held[p]
       /\ IF CanPin(dev[p], obj[p], e)
          THEN /\ pins' = pins \cup {n}
               /\ held' = [held EXCEPT ![p] = @ \ {n}]
               /\ left' = [left EXCEPT ![p] = @ \ {e}]
               /\ done' = [done EXCEPT ![p] = @ \cup {e}]
               /\ Goto(p, "attach")
               /\ UNCHANGED <<obj, jobVars, loaded>>
          ELSE /\ Skip(p, e)
               /\ held' = IF obj[p] \in Tracing THEN held
                          ELSE [held EXCEPT ![p] = @ \ {n}]
               /\ UNCHANGED pins
  /\ UNCHANGED <<kernelVars, udevVars, dirs, unlinked, seen>>

\* A tracing object needs one program at least, a struct_ops object may have none.
AttachDone(p) ==
  /\ pc[p] = "attach"
  /\ left[p] = {}
  /\ IF obj[p] \in Tracing /\ done[p] = {}
     THEN Report(p, obj[p], FALSE) /\ UNCHANGED loadVars
     ELSE /\ left' = [left EXCEPT ![p] = Maps[obj[p]]]
          /\ Goto(p, "maps")
          /\ UNCHANGED <<obj, done, jobVars, loaded>>
  /\ UNCHANGED <<kernelVars, udevVars, fsVars, held, seen>>

PinMap(p) ==
  /\ pc[p] = "maps"
  /\ \E e \in left[p] :
       IF CanPin(dev[p], obj[p], e)
       THEN /\ pins' = pins \cup {Node(dev[p], obj[p], e, p)}
            /\ left' = [left EXCEPT ![p] = @ \ {e}]
            /\ done' = [done EXCEPT ![p] = @ \cup {e}]
            /\ UNCHANGED <<pc, seen>>
       ELSE /\ Goto(p, "clean")
            /\ seen' = [seen EXCEPT ![p] =
                          {n \in pins : n.dev = dev[p] /\ n.obj = obj[p]}]
            /\ UNCHANGED <<pins, left, done>>
  /\ UNCHANGED <<kernelVars, udevVars, dirs, unlinked, obj, jobVars, held, loaded>>

\* read_udev_property_maps comes last: when it fails everything stays pinned.
PinMapsDone(p) ==
  /\ pc[p] = "maps"
  /\ left[p] = {}
  /\ Report(p, obj[p], obj[p] \notin Unreadable)
  /\ UNCHANGED <<kernelVars, udevVars, fsVars, loadVars, held, seen>>

EndClean(p) ==
  /\ pc[p] = "clean"
  /\ WalkOver(p)
  /\ Report(p, obj[p], FALSE)
  /\ UNCHANGED <<kernelVars, udevVars, fsVars, loadVars, held, seen>>

-----------------------------------------------------------------------------
(* list-loaded --format udev, which udevd runs when a driver was bound or  *)
(* unbound: collect_udev_properties reads directory after directory.       *)

NothingOf(d) == {}  \* a slip: sysname_to_bpffs is forgotten, no directory matches
DirectoriesOf(d) == {o \in Object : <<d, o>> \in dirs}

ListStart(d) ==
  /\ uevents[d] # <<>>
  /\ Head(uevents[d]) \in {"bind", "unbind"}
  /\ ~Busy(d)
  /\ uevents' = [uevents EXCEPT ![d] = Tail(@)]
  /\ udev' = [udev EXCEPT ![d] = {}]
  /\ list' = [list EXCEPT ![d] = [on |-> TRUE, left |-> DirectoriesOf(d), got |-> {}]]
  /\ UNCHANGED <<here, adds, fsVars, pc, jobVars, loadVars, held, seen, loaded>>

\* A directory that is gone ends it, and nothing is imported.
ListObject(d) ==
  /\ list[d].on
  /\ \E o \in list[d].left :
       list' = [list EXCEPT ![d] =
         IF <<d, o>> \in dirs
         THEN [on |-> TRUE, left |-> @.left \ {o},
               got |-> @.got \cup PropertiesOf({<<o, n.ent>> : n \in
                                     {x \in pins : x.dev = d /\ x.obj = o}})]
         ELSE NoList]
  /\ UNCHANGED <<kernelVars, udev, fsVars, pc, jobVars, loadVars, held, seen, loaded>>

ListDone(d) ==
  /\ list[d].on
  /\ list[d].left = {}
  /\ udev' = [udev EXCEPT ![d] = list[d].got]
  /\ list' = [list EXCEPT ![d] = NoList]
  /\ UNCHANGED <<kernelVars, fsVars, pc, jobVars, loadVars, held, seen, loaded>>

Lister(d) == ListStart(d) \/ ListObject(d) \/ ListDone(d)

-----------------------------------------------------------------------------
Remover(p) == RemoveNext(p) \/ RemoveBadPath(p) \/ RemoveDone(p)
              \/ Unlink(p) \/ RmDir(p) \/ EndRemove(p)
Adder(p) == CheckPaths(p) \/ NextDevice(p) \/ NoDevice(p) \/ AddDone(p) \/ CallDone(p)
            \/ LoadAndProbe(p) \/ DeviceDone(p)
Loader(p) == MkDir(p) \/ Attach(p) \/ PinLink(p) \/ AttachDone(p)
             \/ PinMap(p) \/ PinMapsDone(p) \/ EndClean(p)
Step(p) == Remover(p) \/ Adder(p) \/ Loader(p)

Next ==
  \/ \E d \in Device : Plug(d) \/ Trigger(d) \/ Unplug(d) \/ Lister(d)
  \/ \E p \in Proc, d \in Device : UdevStart(p, d)
  \/ \E p \in Proc, c \in Commands : CliStart(p, c)
  \/ \E p \in Proc, m \in Matches : CliMatch(p, m)
  \/ \E p \in Proc : Step(p) \/ Kill(p)

Spec == Init /\ [][Next]_vars

\* A process that can run does run, and udevd handles the events it has queued.
Fairness ==
  /\ \A p \in Proc : WF_vars(Step(p))
  /\ \A d \in Device : WF_vars(\E p \in Proc : UdevStart(p, d))
  /\ \A d \in Device : WF_vars(Lister(d))

FairSpec == Spec /\ Fairness
-----------------------------------------------------------------------------
(* Properties                                                              *)

\* Every variable has its type; the entries a process has left or has pinned
\* are entries of the object it is loading (load_programs starts each object
\* with nothing pinned and never mixes the entries of two objects).
TypeOK ==
  /\ here \in [Device -> {"new", "here", "gone"}]
  /\ uevents \in [Device -> Seq(Uevent)]
  /\ adds \in [Device -> 0..MaxAdds]
  /\ udev \in [Device -> SUBSET (Object \X Entry)]
  /\ list \in [Device -> ListSet]
  /\ pins \subseteq NodeSet /\ unlinked \subseteq NodeSet
  /\ dirs \subseteq Device \X Object
  /\ pc \in [Proc -> Exited \cup Loading \cup {"remove", "walk", "check", "device", "load"}]
  /\ cmd \in [Proc -> Command]
  /\ calls \in [Proc -> Seq(Call)]
  /\ named \in [Proc -> SUBSET Object]
  /\ todo \in [Proc -> Seq(Path)]
  /\ dev \in [Proc -> Device \cup {None}]
  /\ cand \in [Proc -> SUBSET Object]
  /\ obj \in [Proc -> Object \cup {None}]
  /\ left \in [Proc -> SUBSET Entry]
  /\ done \in [Proc -> SUBSET Entry]
  /\ held \in [Proc -> SUBSET NodeSet]
  /\ seen \in [Proc -> SUBSET NodeSet]
  /\ loaded \in [Proc -> SUBSET (Device \X Object)]
  /\ \A p \in Proc : pc[p] \in Loading =>
       left[p] \cup done[p] \subseteq Links[obj[p]] \cup Maps[obj[p]]

\* Was the entry pinned by that process, whatever became of it since?
Pinned(d, o, e, p) == Node(d, o, e, p) \in pins \cup unlinked

\* load_programs reports success only for an object that is all there: every
\* map and every program (for a tracing object, one program at least) was
\* pinned by this very process, and what is missing now was unlinked since.
LoadedIsComplete ==
  \A p \in Proc : \A x \in loaded[p] : LET d == x[1] o == x[2] IN
    /\ \A e \in Maps[o] : Pinned(d, o, e, p)
    /\ IF o \in Tracing THEN \E e \in Links[o] : Pinned(d, o, e, p)
       ELSE \A e \in Links[o] : Pinned(d, o, e, p)

\* load_bpf_files gives a device one program of each group: two files with the
\* same stem never both have something in bpffs.
AtMostOnePerStem ==
  \A m, n \in pins : m.dev = n.dev /\ Stem[m.obj] = Stem[n.obj] => m.obj = n.obj

\* udevd has handled every uevent of d that a driver was bound with.
Settled(d) == Binds /\ Here(d) /\ uevents[d] = <<>> /\ ~Busy(d)

\* When udevd is done with a device it knows the properties of the programs that
\* are loaded there, all of them and no others, although binding a driver has
\* cleared them and an add may have been killed before it had printed anything.
UdevKnowsProperties ==
  \A d \in Device : Settled(d) =>
    udev[d] = PropertiesOf({<<n.obj, n.ent>> : n \in {x \in pins : x.dev = d}})

\* What a process has loaded stays until somebody removes the device's
\* programs: the failure of another load never takes it away.
SuccessSurvives ==
  [][\A n \in pins \ pins' : <<n.dev, n.obj>> \in loaded[n.by] =>
       \E p \in Proc : pc[p] = "walk" /\ dev[p] = n.dev]_vars

\* A removal that goes on to the next path has unlinked everything it found
\* when it began, although remove_dir_all stops at the first error.
RemoveIsThorough ==
  [][\A p \in Proc : pc[p] = "walk" /\ pc'[p] = "remove" => seen[p] \cap pins = {}]_vars

\* In this step p's add --replace, with d among its devices, ends successfully.
Replaces(p, d) ==
  /\ pc[p] # "ok" /\ pc'[p] = "ok"
  /\ cmd[p].op = "add" /\ cmd[p].replace
  /\ \E i \in DOMAIN cmd[p].devs : cmd[p].devs[i] = d

\* add --replace leaves the device with its own programs only.
ReplaceOwns ==
  [][\A p \in Proc : \A n \in pins' : Replaces(p, n.dev) => n.by = p]_vars

\* The file a group should end up with: the highest version the device accepts.
Best(d, S, o) ==
  /\ o \in S \cap Accepts[d]
  /\ \A x \in S \cap Accepts[d] : Stem[x] = Stem[o] => Version[x] <= Version[o]

\* The objects that are tried first on d: those of the first call with d.
FirstNamed(p, d) ==
  LET On == {i \in DOMAIN cmd[p].calls : d \in Range(cmd[p].calls[i].devs)}
      i == CHOOSE x \in On : \A y \in On : x <= y
  IN  Selected(cmd[p].calls[i].objs, d)

\* An add --replace that succeeds has loaded the best file of every group on
\* every device still there, whatever was loaded on it before; add - --replace
\* the first file named on the command line that is for the device.
ReplaceLoadsBest ==
  [][\A p \in Proc, d \in Device, o \in Object :
       Replaces(p, d) /\ Here(d) /\ Best(d, FirstNamed(p, d), o) => <<d, o>> \in loaded[p]]_vars

\* Once a device is gone its programs are unpinned for good: udevd runs remove
\* after the adds it has queued, and remove finds the name of a device that
\* sysfs no longer has.
UnplugCleans ==
  \A d \in Device : here[d] = "gone" ~> [](\A n \in pins : n.dev # d)
-----------------------------------------------------------------------------
(* What the abstract loader sees of this one.                              *)

\* An object is active from the moment it is reported as loaded until the first
\* of its entries is unlinked.
Active ==
  [d \in Device |-> {o \in Object : \E p \in Proc :
      /\ <<d, o>> \in loaded[p]
      /\ \A n \in unlinked : ~(n.dev = d /\ n.obj = o /\ n.by = p)}]

\* What an add event may load.
Offered == [d \in Device |-> IF d \in Ignored THEN {} ELSE Properties[d] \cup Range(Installed[d])]

Abstract == INSTANCE StemLoader WITH active <- Active, Found <- Offered

\* Every step of the loader is a step of the abstract one: a group is served by
\* the best file the device accepts, and by no second one while that is active.
ImplementsStemLoader == Abstract!Spec
=============================================================================
