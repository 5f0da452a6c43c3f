# udev-hid-bpf in TLA+

udev-hid-bpf loads BPF programs that fix the reports of HID devices.  This
directory models the parts of it that keep state, or that decide: the choice of
the files for a device, what is put into a file before its programs run, the
loader, which several processes run at once over one directory tree, the BPF
programs that work outside of device events, and those that remember one report
to change the next.

## The system

| part | state | operations | meets |
|---|---|---|---|
| commands, `src/src/main.rs` | none of its own | `add`, `add -`, `add --replace`, `remove`, `list-loaded`, `install`; `inspect` and other lists | other invocations |
| selection, `src/src/hidudev.rs` | the device's udev properties | `search_for_matching_objfiles`, `find_named_objfiles`, `sort_by_stem`, `load_bpf_files` | udev's database, the environment, files that come and go |
| `tools/generate-hwdb.py`, `install` | the hwdb, rules | patterns and rules from the metadata of files | udevd |
| injection, `src/src/bpf.rs` | sections and maps of an object | `inject_udev_properties`, `read_udev_property_maps` | `probe()`, udev |
| descriptor, `src/src/bpf.rs`, `btf_validation.rs` | a cache of compared types | `validate_btf_layout`, conversion of fields; `extract_bits` in the programs | the types an object was compiled with |
| loading, `src/src/bpf.rs` | `/sys/fs/bpf/hid/<dev>/<obj>/` and the kernel's programs | `load_programs`, `pin_maps`, `remove_bpf_objects` | every other loader and remover |
| udev rule, `src/81-hid-bpf.rules.in` | udevd's event queue | add, bind/unbind, remove | the loader |
| `src/src/bpf/hid_bpf_async.h` | `hid_bpf_async_ctx_map`, `____key__<fun>` | `HID_BPF_ASYNC_INIT`, delayed calls, timer and work | events on other CPUs |
| Surface Dial (`userhacks`) | four variables, two timers, one work item | device event, timers, work | each other |
| pen, pad and pressure filters, `src/src/bpf/stable/` | the switches, buttons or pressure of reports before | `device_event` | the firmware of a tablet, its user |
| tilt filter, XPPen Artist Pro Gen2 | none; a table of offsets | `device_event` | a coil beside the tip of a pen |
| other BPF programs | none | `rdesc_fixup`, `device_event`, `probe` | hid core |

`udevd` runs one command for each uevent of a device, never two at once for
the same device; an administrator starts commands at any time.  There is no
lock between them.  Each command tries the files of a device in groups (same
name after the number), newest first, until one of the group loads; loading
injects properties, runs `probe()`, attaches and pins the programs, then pins the
maps, and prints the properties the program exports.  A loaded program lives as
long as its pins do, and `remove` unlinks them.

What makes each part correct:

* selection: of every group the newest file that is for the device and runs
  there, wherever files, patterns and properties come from; a device that goes
  leaves nothing, whichever rule has loaded it.
* injection: a variable shows the whole value that is meant for it or nothing,
  and its neighbours are left alone; udev is told what `probe()` wrote.
* descriptor: an object is accepted exactly when its types agree with the
  loader's, and a field is read from the bits it is at.
* loading: success means complete; one file of each group; a failure takes
  nothing of others with it; a removal, and the end of a device, leave nothing;
  udev knows the properties of what is loaded.
* `--replace`: the device ends up with the programs of this command, the best
  ones it accepts.
* async functions: a call that was accepted runs; a slot that refuses calls
  will accept them again; a slot belongs to one function.
* Surface Dial: whatever the order of timers, work and events, the dial ends up
  in the mode the program believes in.
* filters: the host sees what the hand does, whatever the firmware makes of it,
  and nothing that was dropped or forced stays.

What is hard: no lock over bpffs, `remove_dir_all` in several steps with its
errors dropped, processes killed by udevd's timeout, events repeated by
`udevadm trigger`, two sources of properties of which one is older, ids with
wildcards matched in three ways, timers and work on other CPUs than events,
reports that are wrong and must be told from right ones by what came before,
arithmetic at the edges of bytes, buffers and screens.  `PROJECT.json` lists the
hazards line by line.

## Modules

| module | models |
|---|---|
| `BpfLoader` | all invocations of the program over bpffs, udevd and the kernel |
| `StemLoader` | what the loader promises: one active file of each group, the best |
| `MCBpfLoader` | instances |
| `BpfLoaderProofs`, `BpfLoaderStemProofs`, `BpfLoaderUdevProofs`, `BpfLoaderRefinementProofs` | theorems about `BpfLoader`, each module on the ones before |
| `ObjectSelection` | from an uevent or a command line to the files tried on a device |
| `PropertyInjection` | properties in an object's variables and maps |
| `DescriptorLayout` | the comparison of types, and fields of a report descriptor |
| `Preparation`, `MCPreparation` | compose these three; instances |
| `PreparationProofs` | theorems about these three |
| `HidBpfAsync`, `MCHidBpfAsync` | slots, calls, timers and work of `hid_bpf_async.h`; instances |
| `HidBpfAsyncProofs` | theorems about `HidBpfAsync` |
| `SurfaceDial` | `0010-Microsoft__Surface_Dial.bpf.c` |
| `PenFilters` | XPPen Artist24, Huion Inspiroy-2-S (0020), Huion Kamvas-Pro-19 (0030), WALTOP Batteryless Tablet: the switches of the pen |
| `PadFilters` | Huion Inspiroy-2-S and -M, Dial-2, KeydialK20, Kamvas13Gen3, Kamvas16Gen3, KeydialK20-Bluetooth: buttons and wheels |
| `PressureFilters` | WALTOP Batteryless Tablet, Wacom ArtPen: the pressure of the pen |
| `TiltFilter` | XPPen Artist Pro 14, 16 and 19 Gen2: the place of a tilted pen |
| `DevicePrograms`, `MCDevicePrograms` | compose the dial and the four filters; a table of offsets |
| `DeviceProgramsProofs`, `PenFiltersProofs` | theorems about the dial and the filters |

### BpfLoader

A process of `Proc` is one invocation.  `pc` says where it is:

| `pc` | code | actions |
|---|---|---|
| `idle` | not started | `UdevStart`, `CliStart`, `CliMatch` (`add -`) |
| `remove` | `cmd_remove`, over the paths | `RemoveNext`, `RemoveBadPath`, `RemoveDone` |
| `walk` | `remove_dir_all` on the device | `Unlink`, `RmDir`, `EndRemove` |
| `check` | `cmd_add`, all paths exist | `CheckPaths`, `AddDone` |
| `device` | `cmd_add`, over the paths | `NextDevice`, `NoDevice`, `CallDone` |
| `load` | `load_bpf_files` | `LoadAndProbe`, `DeviceDone` |
| `mkdir`, `attach`, `pin` | `attach_and_pin` of both loaders | `MkDir`, `Attach`, `PinLink`, `AttachDone` |
| `maps` | `pin_maps`, `read_udev_property_maps` | `PinMap`, `PinMapsDone` |
| `clean` | `remove_dir_all` on one object | `Unlink`, `RmDir`, `EndClean` |

`add -` looks its devices up when it starts and then calls `cmd_add` once for each
object; `calls` are those still to be made, and `named` are the objects of the
running one.  `pins` and `dirs` are bpffs.  A pinned entry records the process
whose program it is (`by`), which the code does not know: it is what properties
need to tell entries of the same name apart.  `held` are links a process has not
pinned; they go when it exits or is killed.  `unlinked` and `loaded` are history.
`seen` is what `remove_dir_all` has listed.

An uevent is the sequence of rules that udevd runs for it: that of the package
and those that `install` wrote (`AddRules`, `RemoveRules`).  `udev` is what udev's
database knows of the properties that programs export.  An add brings them when
it is over, not object by object; a bind or unbind clears them, and `list-loaded`
reads them back from bpffs, directory after directory: `ListStart`,
`ListObject`, `ListDone`.  A struct_ops object that fails half way may keep a
program pinned, and one whose property maps cannot be read (`Unreadable`) keeps
all of it, as in the code.

Abstracted: a file is an element of `Object` with its group and rank as
numbers; opening it, loading it, injecting properties and `probe()` are one
step whose outcome is `Accepts`.  Programs of an object are attached in any
order (the code's order is that of the file).  Nothing happens between
`remove` and `add` of `--replace` but time.

`cmd_add` also ends when a search finds none of its directories (`CheckPaths`);
whether they are there is any of the two each time.

External, from how the code uses it: `bpf_obj_pin` needs the directory and a
free name; the kernel accepts one report descriptor fixup for a device;
`remove_dir_all` unlinks what it listed and stops at the first error.  Older
standard libraries also take an entry that has vanished for an error; the
model allows both.

### StemLoader

Its state is what is active on each device.  A group without an active file
gets the best one the device accepts, and anything active may go.
The mapping is in `BpfLoader`: an object is in `Active` from its report as loaded
until one of its entries is unlinked, and `Offered` is what the hwdb and installed
rules name for the device.

### ObjectSelection

One device, and what is loaded on it.  An uevent is `AddEvent`, which runs the
rules; its commands are `jobs`, an `add` without files (`Search`) or one with an
installed file; `StartSearch` and `StartNamed` begin one, `TryFile` is a turn of the
loop in `load_bpf_files`, and `EventDone` ends the event.  `RemoveEvent`, `Add`,
`AddMatching` (`add -`) and `CmdRemove` are the other operations.  Files, rules and
the hwdb change between any two of them: `ChangeFile`, `UpdateHwdb`, `Install`,
`RemoveRule`.

Ids match in three ways: `RuleMatches` in the rule of an installed file,
`HwdbMatches` in the hwdb, whose patterns have four digits behind four zeros, and
`SysfsMatches` in `add -`.  `db` is udev's database, which says what the event
before said; `env` is the environment, which says what this event says.
`Choosy` are files whose `probe()` wants a property that rules set, and which fail
until the database has it.  Names keep their digits, because the order is the
dictionary order of names.

What trying a file means in bpffs is `BpfLoader`'s.  Here a file loads (`Loads`) when
it gets as far as its pins (`Runs`), its name is free, and the device has no fixup
yet if it is one (`Fixup`).  A file whose only pins are those of its maps
(`MapsOnly`) meets a taken name in `pin_maps`, and takes away the directory that is
there; the others fail before and leave everything (`LeftBy`).  Files of one name in
several directories are taken for builds of one program, of one of these kinds.
A file that pins neither a program nor a map, which loads as often as it is tried
(`userhacks/0010-Logitech-MX-Master-3B-middle-button`), is not represented.

`quiet`, `bare`, `typed` and `stray` are history: they say of the properties under
which conditions they hold.

### PropertyInjection

Open an object, inject values, run `probe()`, read the maps.  The section of the
variables is a sequence of `Room` bytes, and a character says where it comes from:
the device, an option, a later option, `probe()`, the variable's own value, or what
lies between the variables.  That is all the properties need to tell a value from
the rest of another.  The code takes the place and the size of a variable from the
BTF of the section; `Open` takes any places where variables do not overlap
(`Layouts`), as a compiler lays them out.

### DescriptorLayout

The BTF of an object is a table of ids, the Rust types one of texts, as in the
code, where a type is known by its text in the cache.  `Compare` is one call of
`validate_complex_type_by_name`, `pending` what its recursion has still to do; it
takes a type for compared before its fields are, which gives the same verdict,
since one that disagrees ends everything.  A member stands for a field of its name, an
anonymous one of a struct for one at its place (`Key`).  The variable itself must be
a struct, and no array.  A field of a report is the sequence of
the positions of its bits, so that `Extract` is about which bits and in which
order, not about their values.

### Preparation

Selection, injection and descriptor share nothing but their order in
`load_programs`.  `part` says which of them a behaviour is about, the other two
stay in one state.

### HidBpfAsync

A slot has `state`, `timer`, `queued` and `work`.  A caller is the event
context or the work of a slot.  The claim of a slot (the part under its lock)
is one step, `Claim`; the calls after it are one step each, because the work
and other callers run between them.  The work writes RUNNING and INITIALIZED
without the lock: `FunBegins`, `FunReturns`.  A refused call changes nothing and
is no step.  `Failing` are the kernel functions that may return an error.
`hid_bpf_async_find_empty_key` and `hid_bpf_async_get_ctx` run in `probe()`,
before any event: they are one step for each function.

### SurfaceDial

`event` follows `surface_dial_event` from one shared access to the next; `cb`
are the callbacks of the two timers, `work` is `haptic_wq_cb`.  The dial itself
is `awake`, `ticks` (haptics) and `res`.  Multipliers are named `LOW`
and `HIGH`.  Buffers sent to the dial are abstracted to the mode they set.

### PenFilters, PadFilters, PressureFilters, TiltFilter

Each holds the device event programs for one part of a tablet, with the
program's variables under their names in the code, and the hand and the
firmware that feed it.  A report is the set of the switches or buttons that are
on, a pressure, or a coordinate; `host`, `pressed`, `out` and `cursor` are the last
report that got through.  The programs run one report at a time, so that a
report is one step: `Filter`, `ButtonReport`, `CenterReport`, `WheelReport`,
`Curve`, `ArtPenReport`, `Compensate`.

The hands and the firmware are external: the firmware does what the comments of
the programs say of it, no more.  When the button of a pen changes in
`PenFilters`, it may send reports that show no state of the pen (`FalseReports`,
queued in `due`); a Kamvas pad in `PadFilters` may report anything once two
buttons were held (`Reports`, `Imagined`); an Art Pen in `PressureFilters`
reports each pressure twice; a pen in `TiltFilter` has its coil beside its tip by
what the program's table says, give or take `Error`, and the tablet sees one that
is beyond the edge at the edge.

Abstracted: coordinates elsewhere, how far a wheel turns, the two bits of a
wheel's direction, the layout of reports.  Key reports in firmware mode keep
nothing and are left out.

### DevicePrograms

The programs share no memory: each is loaded on a device of its own, or filters
reports of its own.  As in `Preparation`, `part` says which one a behaviour is
about, so that TLC takes the union of the five, not their product.

## Runs

| run | question | instance |
|---|---|---|
| `LoaderUdev` | does udevd alone keep one complete and best file for each group, and its properties? | two devices, three files in two groups, four workers, drivers bound, adds killed anywhere |
| `LoaderLive` | is a device that is gone cleaned up? | one device, plugged, triggered, unplugged, adds killed anywhere, a file whose maps cannot be read |
| `LoaderRace` | what holds when removals run at any time? | one device with an installed file, udevd and two administrators |
| `LoaderSerial` | what do the commands leave, one after the other? | three commands, `add -` among them, bad paths, a tracing object, a fixup |
| `LoaderTwiceAdded` | finding: does an installed file end up beside the packaged one? | three files, the newest one installed |
| `LoaderTwiceAddedMap` | finding: does a second add event take maps away? | one file with a map, two add events |
| `Preparation` | are the right files chosen, filled and understood? | two versions of a program, the newer one a fixup and the older one maps only, and a fixup of an earlier group for any multitouch device, two changes; two variables and a map; 864 objects; fields at every kind of edge |
| `AddMatching` | finding: does `add -` find what metadata match? | the same device and files |
| `AsyncLib` | are slots released, are calls followed by runs, and how many share one? | two functions that call each other, nothing fails |
| `AsyncFull` | does a slot keep its function? | three functions, two slots, everything may fail |
| `AsyncStuck` | finding: does a failed allocation block a slot? | one function |
| `DevicePrograms` | does the host see what the hand does, and does the dial end up as its program believes? | every program, one pen, two keys and a wheel's button, four pressures, every angle of tilt; requests to the dial may fail |

What they show:

* `TypeOK` of each part holds the types and one relation each; it is checked once
  for each, that of the loader in `LoaderUdev`.
* `LoadedIsComplete`: no interleaving, kill or removal makes the loader report
  success for an object it has not pinned completely itself.
* `AtMostOnePerStem` and `ImplementsStemLoader` hold when each device gets one
  add event and no group has both a packaged and an installed file.  They fail
  otherwise (`LoaderTwiceAdded`).
* `SuccessSurvives` holds in `LoaderRace`, where a device gets one add event,
  and fails with a second one (`LoaderTwiceAddedMap`).
* `UdevKnowsProperties`: once udevd has handled every uevent of a device, its
  database has the properties of what is pinned, although an add may have been
  killed after it pinned and before it printed: the `list-loaded` of the bind
  event finds them.  It needs that event, and nobody who types commands.
* `RemoveIsThorough` holds when nobody adds to the device meanwhile.  With
  an `add` at the same time it does not: the walk stops at a directory the add
  fills, and the error is dropped.
* `ReplaceOwns`, `ReplaceLoadsBest`: after a successful `--replace` the device
  has this command's programs only, and the best of each group; after
  `add - --replace` the first file named that is for the device.
* `UnplugCleans` is the liveness property of the loader.
* `LoadsTheBest`: the hwdb, directories that hide each other, the order of names
  and udev's two sources of properties together load of every group the newest
  file that runs.  Exceptions, which the code makes: a fixup is not attached after
  one of an earlier group, and the next file of its group is loaded; an installed
  file that only pins maps takes away those of the packaged one of its name; ids with
  more than four digits are not in the hwdb; a database older than the hwdb is
  believed; a file that needs a property in its `probe()` misses it until the database
  has it; `0100-x` would be tried before `20-x`, but all numbers have four digits.
* `InstalledLoads`: an installed file that runs, or one of its name, is loaded for
  every device of its rule, whatever patterns, directories and properties there are,
  unless it is a fixup beside another fixup, or only pins maps and is searched for as
  well or finds something loaded before the event.  The second exception is the
  finding `LoaderTwiceAddedMap` for two calls of one event: the maps of the packaged
  file and of the installed one are both gone.
* `NothingLeft`: a device that is gone leaves programs only if an add was typed, or
  files, rules or the hwdb changed while it was there.  Then nothing may run
  `remove` for it.
* `VariablesShow`, `ExportsShow`: values that just fit, options that hide the
  device's properties, neighbours, initialised variables, maps that held something
  longer.
* `AcceptedAgrees`: the verdict on an object is that of a comparison of everything
  the two types hold, path by path: offsets, sizes, what is a struct and what a union,
  and the elements of arrays.  What is rejected never agrees.  What is accepted does
  if each Rust type has one C type there, because a second one is not looked at.
* `FieldsAreRead`: fields of any width and at any bit are read right if they end
  below bit 2^16; `bits_start` and `bits_end` wrap there, and the program reads
  another place.
* `NotStuck` and `EveryCallRuns` hold as long as no kernel function fails;
  `AsyncStuck` shows what one failure does.
* `FewShareARun`: the unlocked write of INITIALIZED lets in calls that share a
  run with others, at most two more than the function has callers: one of each
  caller from before the write, one after it, one while the run goes on.
  `AsyncLib` reaches that number.
* `Configured`, `OneTogglePerPress`: the Surface Dial needs no lock for its
  variables, because the work reads the mode after it was queued and every
  change queues it again.
* `NoFalseRelease`, `NoFalsePress`: between a hand that touches and lifts and a
  firmware that invents reports, the host sees no stroke broken and none that
  was not drawn.  The first needs the Inspiroy's firmware to send no more than
  four reports without tip after the first, as the program's comment says, and
  fails with five.  The second has an exception: `force_tip_down_count` is not reset
  when the pen leaves, so that one which is lifted, leaves and comes back at once on
  an Inspiroy may be seen in contact.  The property says for how long, three reports
  after it came in range, and TLC finds the third.
* `ButtonOrEraser`: on a Kamvas-Pro-19 the third button and the eraser, which
  share a bit, are told apart, except when the pen comes in range with the button
  down: it is then taken for an eraser.
* `HostCatchesUp`: a pen held still is soon seen as it is.  On a WALTOP a button
  that goes down during contact hides the tip, and is excepted, as is on a Kamvas
  the pen that came in range with its button down.
* `HostFollowsPad`: wheels and keys release and press nothing, and what the firmware
  of a Kamvas imagines while two buttons are held is over when all have been up.
  On the Keydial over Bluetooth a key report releases
  the wheel's button for the host; the property allows that, because nothing
  in the repository says what is meant.
* `HarderReadsMore` runs over the whole range of the WALTOP's sensor.
  `Interpolated`: the Art Pen's mean stays in step with its reports, from the
  first stroke the program has seen begin.
* `TipIsSeen`: taking the offset of the angle away gives back the tip, and makes no
  error larger than it was, at the edges of the screen, too.  A coil beyond the
  edge hides as much of the tip as it is beyond it.

The bounds and why they are enough. The hazards of the loader need two processes
on one device, two files of one group, an object with both a program and a map,
and one without a program; more devices only add commands that do not meet.
`MaxAdds` bounds add events for each device: 1 where one add is assumed, 2
otherwise. `MaxChanges = 2` lets a file appear and the hwdb follow, or a rule
come and its file go; the device has one wildcard of each kind against it.
`Sizes` and `Lengths` make a value shorter than its variable, as long as it, and
longer, and `Room` leaves the variables side by side or apart, in both orders;
the 864 `Objects` are all combinations of what can differ in one place, and of a
variable that is a struct or an array of one. `Starts`, `Widths` and `Buffers`
lie around the edges of bytes, of 32 bits, of buffers and of 2^16. `MaxCalls`
bounds calls from events: three are one before, one after and one during a run,
and the functions of `AsyncLib` call each other without a bound. In
`DevicePrograms`, `MaxFalse` is what the firmware is taken to do, not a bound on
the run, which is as long as it likes; the history `since` counts up to 4, one
more than its property speaks of; two keys are enough for one to be held while
another changes, the four `Pressure` values give means that are even, odd and
far apart, `Offsets` is the table with the longest offsets and `Places` lie
around them at both edges.

CHECK_DEADLOCK is off: commands end, devices stay unplugged and events stop
coming, and all of that is proper.

## Fairness

`BpfLoader`: a process that can take a step does (the operating system's
scheduling), udevd handles its queue, and the `list-loaded` it runs goes on.
Nothing forces a device to be plugged or unplugged, an administrator to type, or
a process to be killed.

`HidBpfAsync`: a call that has begun goes on, an armed timer fires, a queued
work runs.  Strong fairness for the return of a function: its calls are
disabled while it is between them, and a BPF program ends however often it
calls.

`DevicePrograms`: a tablet keeps reporting a pen that is in range.  The dial's
properties speak of a dial at rest.  `Preparation` states no fairness: its
properties speak of events that are over.

## Proofs

Eight modules hold theorems, for all values of the constants that the
assumptions in the specifications allow.  Where a theorem has a hypothesis it is
a named condition on the constants, which the run that checks the same property
satisfies and without which the property fails, or would need facts about the
files of the repository.

`BpfLoaderProofs`, for any finite sets of devices and objects and any processes
and commands:

* `Typing`: `Spec => []TypeOK`.  The last conjunct of `TypeOK`, that a loading
  process only has entries of its object left or done, is not a type and needs
  the action that starts an object to reset both sets.
* `SuccessIsComplete`: `Spec => []LoadedIsComplete`.  `LoadedIsComplete` is not
  inductive: `PinMapsDone` reports success because of what happened before it.
  The invariant `CompleteInv` adds `Progress`: a process on its way has pinned
  every entry in `done`, what is neither left nor done is skipped only for
  tracing objects, and from `maps` on the programs are complete.  It survives
  others because `Pinned` looks at `pins \cup unlinked`, which only grows.

The proof has one lemma for each action, split into the part of the state the
action changes.

`BpfLoaderStemProofs`, for any devices, objects, processes and removals:

* `OnePerStem`: `OneAdd` and `WholeFiles` imply `Spec => []AtMostOnePerStem`.
  `OneAdd` says that each device gets one add event, by the rule of the package,
  while `remove` may be typed at any time; the finding `LoaderTwiceAdded` is what
  happens otherwise.  `WholeFiles` describes the repository's files: at most one
  struct_ops program in each, programs and maps of different names, property maps
  the kernel can read.  The invariant `StemInv` extends
  `CompleteInv`: a device has one adder at most and the add it waits for is the first
  in its queue (`OneAdder`, `QueueOf`), what is pinned was pinned by that adder
  (`PinOf`), which starts on a device with nothing pinned (`JobOf`), and no candidate
  has a file of its group pinned except the object being loaded with what is in `done`
  (`GroupOf`).  The last part is what makes the next file safe: `load_programs` fails
  only with nothing of its object left in bpffs, since a struct_ops object fails
  before its one pin and a name that is taken would have to be its own.
* `Survival`: the same conditions imply `Spec => SuccessSurvives`.  The only other
  step that unlinks is the cleaning up after a failed map, and by `StemInv` the
  directory it cleans is that of an object that has not been reported.  The finding
  `LoaderTwiceAddedMap` is what happens with a second add.

`BpfLoaderUdevProofs`, about one process at a time on each device:

* `RemovesAll`: `Serial \/ UdevAlone` implies `Spec => RemoveIsThorough`.  `Serial`
  says that a command begins when the one before has ended, `UdevAlone` that nobody
  types commands, so that udevd's queue keeps them apart (`Exclusive`).  The
  invariant says that what a walk has seen is what is pinned on its device (`WalkOf`),
  which another process there could undo, and that what is pinned has its directory.
* `UdevKnows`: `UdevAlone` and one add event for each device imply
  `Spec => []UdevKnowsProperties`.  `KnownInv` says where the knowledge is on its way:
  in a process that has pinned and not printed, in an event still queued, or in the
  `list-loaded` that has still to come to the directory.
* `Replacement`: `Serial` implies `Spec => ReplaceOwns`.  `OwnsInv` says that on the
  devices a command has removed everything from, only its own programs are pinned.
* `ReplacementIsBest`: `Serial`, `WholeFiles`, `OneCall` and `Distinct` imply
  `Spec => ReplaceLoadsBest`.  `OneCall` says that a command line which is not `add -`
  makes one call with all of its devices, as `main.rs` does; `Distinct` that a tracing object
  has a program, that the files of a group have different numbers and that the fixups for
  one device are of one group.  `TurnInv` says that each device of a running `--replace`
  waits for its turn (`Waiting`), or has its turn and everything in it will succeed
  (`Trying`, `Succeeding`: the directory is there, the names are free, no other fixup is
  attached or pinned), or has the best of every group (`Satisfied`).  A later call or a
  device named twice finds it satisfied, since nothing that is loaded goes away again.

`BpfLoaderRefinementProofs`:

* `Refinement`: `Served` implies `Spec => ImplementsStemLoader`.  `Served` is `OneAdd`,
  `WholeFiles`, `UdevAlone` and `Loadable`: a tracing object has a program, and the
  fixups for one device are in one group.  Without the last, a fixup of another group
  keeps the better file from being attached, and the loader takes the next best.
  `ServedInv` says that an accepted file which is no candidate any more is one of a
  group that is served (`TryOf`), that the file being loaded is the best of its group
  (`BestOf`), and that its pins succeed, since its directory stays (`PinsOf`).
  Initial states map to initial states, the step that reports an object to `Load`, an
  `Unlink` of an active object to `Drop`, and every other action to a stutter.

`HidBpfAsyncProofs`, for any slots, functions, calls and delays:

* `Typing`: `Spec => []TypeOK`, from `TypeInv`, which adds that nothing runs before
  `probe()` is over (`InitFirst`) and that a timer or work that is to run has a
  callback (`HasCallback`).
* `NeverStuck`: `Reliable => (Spec => []NotStuck)`.  `Reliable` says that no
  function of the kernel fails between the claim of a slot and its run; the
  finding `AsyncStuck` is what happens otherwise.
* `SlotsAreOwned`: `EachInitOnce => (Spec => []OwnSlot)`.  `EachInitOnce` is what the
  programs do: one `HID_BPF_ASYNC_INIT` for each function.  The invariant `Owned`
  says that functions with a slot have different ones and that callbacks set or
  running in a slot are those of its function.
* `SharingIsBounded`: `EachInitOnce => (Spec => []FewShareARun)`.  The invariant
  `ShareInv` counts: the calls a run owes and those on their way (`Pending`) are
  never more than `Budget`, which is one for each caller, one more until the run
  has begun and one more while the slot is in STARTING.

`DeviceProgramsProofs`:

* `TipSeen`: `Spec => []TipIsSeen`, for any table of offsets, error and places.
  `TipIsSeen` alone says nothing of the step to come; `TiltInv` adds the types.
* `PadFollowed`: `Spec => []HostFollowsPad`, for any set of keys. `PadInv` adds
  that what the host has seen is what the program remembers, and that not more
  than one button is held on a Kamvas that is not at a loss; the step needs that
  a set with one element is empty without it.
* `InStep`: `Spec => Interpolated`, for any pressures.  `PressureInv` says what `odd`
  is before a mean, and is needed because one step shows nothing of the phase.
* `HarderIsMore`: `Spec => HarderReadsMore`.  TLC tries every pair of pressures; the
  proof says why they are ordered: the logarithm rises within a power of two
  (`Segment`) and from one to the next, the line behind it rises, and they meet in order.
* `DialConfigured`: `Spec => []Configured`, and `OneToggle`:
  `Spec => OneTogglePerPress`.  A dial at rest is one for which neither the work nor an
  event has anything to do, and the invariant follows the mode from the variable that
  was written to the work that is queued and to what the dial was told (`WorkAgrees`).

`PenFiltersProofs`:

* `NoPress`: `Spec => []NoFalsePress`, without a condition.  A tablet reports the lift
  before the pen is gone, so that three are the most that may still be forced when it
  comes back, and the invariant says that they and the reports since then are
  never more than three as long as it makes no contact.
* `NoRelease`: `MaxFalse <= 4` implies `Spec => NoFalseRelease`; with 5 TLC finds a stroke
  that breaks.  The reports that wait in `due` are never more than the program forces.
* `ThirdOrEraser`: `Spec => []ButtonOrEraser`, for any movement of the hand.
* `DeviceTypes`: `Spec => []TypeOK` of `DevicePrograms`.

`PreparationProofs`, for any files, directories, ids, sections, fields and types:

* `BestIsLoaded`: `Numbered` implies `Spec => []LoadsTheBest`.  `Numbered` says that the
  names of one program have their numbers in dictionary order, as they have with a
  fixed number of digits.  `BestInv` follows the loop of `load_bpf_files`: what was
  tried before the file that loaded does not suit the device beside what was
  loaded before (`Suits`), and nothing of its group is left (`Searched`).  The
  installed files come later, and leave of what the search has loaded (the set `S` of
  `InOrder`) all but what those already tried take away (`Gone`).
* `InstalledIsLoaded`: `Spec => []InstalledLoads`.  An installed file waits for its
  command, is tried, is there, or has met what keeps it away (`Awaited`).  That no
  command takes away the maps of another name, nor those that only it has pinned,
  needs to be said of what is still to be tried (`Traced`).
* `NothingStays`: `Spec => []NothingLeft`.  `RemovedInv` says that while nothing has
  changed, whatever is loaded or on its way belongs to a rule that also runs `remove`.
* `VariablesAreShown` and `ExportsAreTold`: `Spec => []VariablesShow` and
  `Spec => []ExportsShow`, from what a string is that ends at the first NUL, for values
  and variables of any length at any places of the section.
* `FieldsAreTaken`: `Spec => []FieldsAreRead`, for any fields and buffers.  `ExtractIs`
  is the lemma about `extract_bits`: both of its ways yield the positions of the field.
* `VerdictAgrees`: `Types` implies `Spec => []AcceptedAgrees`.  `Types` says what types
  are: their members have names or places of their own, those of a union lie at its
  beginning, arrays are of ints, structs or unions, and no type contains itself.  The
  last is a rank that goes down from a type to those it is made of (`Ranked`), and
  is what makes the recursive definitions (`Resolve`, `SizeOf`, `RustView`, `BtfView`)
  have a solution: `Recursion` gets it from the well-foundedness of the numbers, once
  for all of them.  `LevelAgrees` and `AgreesOnLevel` say that two types agree exactly if
  what `FieldsMatch` looks at does and each field agrees with its member.
  `CompareInv` follows the calls: while the Rust types have one C type each, whatever was
  met has matched, and what it is made of was met or is pending (`Followed`); if the
  whole types agree, so does all that is pending (`Agreeing`).  The cache is why the
  first is needed: a type in it is skipped, since it was met.  When nothing is pending,
  `MetAgrees` takes a pair of the least rank that disagrees, and there is none.
* `PreparationTypes`: `Types` implies `Spec => []TypeOK`, whose last conjunct on
  selection says that two files of one name are never both loaded.  The ends of a
  field that wrap at 2^16 may come before its start: then `Extract` takes nothing
  (`ExtractTypes`).

Every invariant and every action property of the passing runs is proved, under the conditions
named above.  TLC evaluates the assumptions of the specifications on every run;
`Types` quantifies over ranks, which TLC cannot enumerate, but the structs of
`MCPreparation` satisfy it: a descriptor contains arrays of reports, those reports, those
unions, those structs, and those ints.

Only model-checked: liveness under fairness (`UnplugCleans`, `EveryCallRuns`,
`HostCatchesUp`), which is out of the prover's reach.

## Findings

`PROJECT.json` lists four disagreements between the code and what its docs,
comments or tests say, each with the run that shows it:

* a second `add` for a device, of a newer file that was installed or by a trigger,
  loads another file of a group that is loaded already;
* a second add event takes away maps that the first one pinned;
* a failed allocation blocks an asynchronous function for good;
* `add -` finds no device for metadata with wildcards.

Seen while modelling, and stated in the modules where they bite, but without a
run: an installed fixup is not attached where the rule of the hwdb, which runs first, has
loaded a packaged one, an older one of its group for example (the first exception of
`InstalledLoads`), while `src/doc/getting-started.rst:93` says that it is attached
automatically; `add -` takes its files from where the argument says and not from the search
path (`src/src/main.rs:923`), and lists a device twice when two of a file's
entries name the same bus, vendor and product; `HID_BPF_IGNORE_DEVICE` is looked up
in udev's database only, which does not have it yet when a device is new
(`src/src/hidudev.rs:130`).

## Not modelled

* Report descriptor fixups are constant tables.
* Event filters without memory turn one report into another by a table, the tilt
  filter excepted, whose arithmetic has edges.
* `inspect`, `list-devices`, `list-bpf-programs` and the JSON form of `list-loaded`
  read and print.
* `install` before it copies (names, `--force`, `--dry-run`) and a copy that fails.
* The text of modaliases and metadata; usages, collections and limits of report
  descriptors, which are copied one by one.
* `vmlinux.h`, `hid_usages.h` and most of `hid_report_helpers.h` are generated.
  `vmlinux.h` is most of the lines of the repository.

## Plan

1. Done: `BpfLoader` with `StemLoader`, `add -`, `list-loaded` and installed rules;
   its types, `LoadedIsComplete` and `AtMostOnePerStem`.
2. Done: the programs that keep memory between reports, the Surface Dial, tilt.
3. Done: `ObjectSelection`, `PropertyInjection`, `DescriptorLayout`.
4. Done: the safety properties of `HidBpfAsync` for any functions and slots; four of
   the filters.
5. Done: the refinement of `StemLoader`, the other conditions of the loader, the
   switches of the pens, the dial, `ObjectSelection`, `PropertyInjection` and
   `DescriptorLayout`, for any values of their constants.
6. Done: `ReplaceLoadsBest` for commands that wait for each other; what the
   comparison of types accepts and rejects, for any types; the types of `Preparation`.
7. Left: key reports of pads in firmware mode and the eraser of the Artist Pro, as
   tables.
