--------------------------- MODULE ObjectSelection ---------------------------
(***************************************************************************)
(* From an uevent, or a command line, to the files that are tried on a     *)
(* device and the one of each group that is loaded.                        *)
(*                                                                         *)
(* A file says in its metadata which devices it is for.  generate-hwdb.py  *)
(* turns the metadata of packaged files into patterns of udev's hardware   *)
(* database, install turns those of one file into a rule, and `add -`      *)
(* compares them with the names of the devices in sysfs.  What the hwdb    *)
(* says in an event reaches the program in its environment; what it said   *)
(* in the event before is in udev's database, and is believed first.       *)
(*                                                                         *)
(* Packages, rules and files may change at any moment.                     *)
(***************************************************************************)
EXTENDS Naturals, Sequences, FiniteSets, SequencesExt

CONSTANTS
  Dirs,       \* the directories that are searched, in order; packages use the last
  Etc,        \* /etc/udev-hid-bpf, where install puts files
  Cwd,        \* the working directory, which has no files
  Name,       \* file names [num, stem]: the digits before the first '-', and the rest
  Meta,       \* [Name -> SUBSET Modalias], their HID_DEVICE entries
  Fixup,      \* those that fix up the report descriptor
  MapsOnly,   \* those that pin maps and no program
  Works,      \* the paths of files that load and probe on the device
  Choosy,     \* those among them whose probe() wants a property some rule sets
  Devices,    \* modaliases a device may have
  MaxChanges, \* bound: changes of files, rules and the hwdb
  Search      \* an `add` without files

ANY == 0
Modalias == [bus: Nat, group: Nat, vid: Nat, pid: Nat]

ASSUME SelectionAssumption ==
  /\ Dirs # <<>> /\ Dirs \in Seq(Range(Dirs))
  /\ Etc \notin Range(Dirs) /\ Cwd \notin Range(Dirs) \cup {Etc}
  /\ Search \notin Name
  /\ \A n \in Name : n.stem \in Nat
  /\ Fixup \subseteq Name /\ MapsOnly \subseteq Name \ Fixup
  /\ Devices \subseteq Modalias
  /\ MaxChanges \in Nat

VARIABLES
  dev,      \* the modalias of the device
  here,     \* {"new", "here", "gone"}
  ignore,   \* a rule sets HID_BPF_IGNORE_DEVICE
  tree,     \* the files there are
  hwdb,     \* the names in udev's hardware database
  rules,    \* the names with a rule written by install
  db,       \* what udev's database says of the device, from the event before
  env,      \* what the rules have said of it in this event
  event,    \* {"none", "add", "typed"}, what is under way
  jobs,     \* the commands still to be run for it
  todo,     \* the files the running command may still try
  loaded,   \* the files loaded on the device
  changes,  \* changes so far
  quiet,    \* history: nothing has changed since the event began,
  bare,     \*   nothing was loaded then,
  typed,    \*   nobody has typed an add,
  stray     \*   but something has changed since the device came
selectionVars ==
  <<dev, here, ignore, tree, hwdb, rules, db, env, event, jobs, todo, loaded,
    changes, quiet, bare, typed, stray>>

systemVars == <<dev, here, ignore>>
fileVars == <<tree, hwdb, rules, changes>>
udevVars == <<db, env>>
pastVars == <<quiet, bare, typed, stray>>

Path == [dir: Range(Dirs) \cup {Etc}, name: Name]
Properties == [names: SUBSET Name, ignore: BOOLEAN, prop: BOOLEAN]
NoProperties == [names |-> {}, ignore |-> FALSE, prop |-> FALSE]

-----------------------------------------------------------------------------
(* Matching a file's metadata to a device.                                 *)

Glob(v, x) == v = ANY \/ v = x

\* The rule of an installed file.
RuleMatches(m, d) ==
  Glob(m.bus, d.bus) /\ Glob(m.group, d.group) /\ Glob(m.vid, d.vid) /\ Glob(m.pid, d.pid)

\* The hwdb: ids have four digits, after the four zeros of the pattern.
Glob16(v, x) == x < 2^16 /\ Glob(v, x)
HwdbMatchesNoGroup(m, d) ==  \* a slip: the group is no wildcard
  Glob(m.bus, d.bus) /\ m.group = d.group /\ Glob16(m.vid, d.vid) /\ Glob16(m.pid, d.pid)
HwdbMatches(m, d) ==
  Glob(m.bus, d.bus) /\ Glob(m.group, d.group) /\ Glob16(m.vid, d.vid) /\ Glob16(m.pid, d.pid)

\* find_sysfs_devices: names in sysfs begin with BUS:VID:PID.
SysfsMatches(m, d) == m.bus = d.bus /\ m.vid = d.vid /\ m.pid = d.pid

Covered == {n \in hwdb : \E m \in Meta[n] : HwdbMatches(m, dev)}
Ruled == {n \in rules : \E m \in Meta[n] : RuleMatches(m, dev)}

-----------------------------------------------------------------------------
(* Finding and ordering files.                                             *)

\* The files generate-hwdb.py has read when the package was built.
Packaged == {p.name : p \in {x \in tree : x.dir = Last(Dirs)}}

\* find_first_matching_file
FirstMatching(n) ==
  LET D == {i \in DOMAIN Dirs : [dir |-> Dirs[i], name |-> n] \in tree}
  IN  {[dir |-> Dirs[i], name |-> n] : i \in {i \in D : \A j \in D : i <= j}}

\* find_named_objfiles: a path that exists, or a bare name that is searched.
NamedInDirs(a) == FirstMatching(a.name)  \* a slip: paths are searched, too
Named(a) == IF a \in tree THEN {a} ELSE IF a.dir = Cwd THEN FirstMatching(a.name) ELSE {}

\* hid_bpf_properties: the environment counts only when the database has nothing.
Selecting == IF db.names # {} \/ db.ignore THEN db.names ELSE env.names

\* Dictionary order of names with the same stem: '-' comes before any digit.
Dict(s, t) ==
  \E i \in 1..(Len(s) + 1) :
    /\ i <= Len(t) + 1
    /\ \A j \in 1..(i - 1) : s[j] = t[j]
    /\ i = Len(s) + 1 \/ (i <= Len(t) /\ s[i] < t[i])

\* sort_by_stem
BeforeOldest(n, o) ==  \* a slip: the values are not reversed
  n.stem < o.stem \/ (n.stem = o.stem /\ Dict(n.num, o.num))
Before(n, o) ==
  n.stem < o.stem \/ (n.stem = o.stem /\ Dict(o.num, n.num))

-----------------------------------------------------------------------------
SelectionInit ==
  /\ dev \in Devices
  /\ here = "new"
  /\ ignore \in BOOLEAN
  /\ tree \in SUBSET [dir : {Last(Dirs)}, name : Name]
  /\ hwdb = Packaged
  /\ rules = {}
  /\ db = NoProperties /\ env = NoProperties
  /\ event = "none" /\ jobs = {} /\ todo = {} /\ loaded = {}
  /\ changes = 0
  /\ quiet = TRUE /\ bare = TRUE /\ typed = FALSE /\ stray = FALSE

\* An add uevent, of a device plugged in or of udevadm trigger: the rules set the
\* properties and run the commands.
AddEvent ==
  /\ event = "none" /\ here # "gone"
  /\ here' = "here"
  /\ event' = "add"
  /\ env' = [names |-> Covered, ignore |-> ignore, prop |-> TRUE]
  /\ jobs' = Ruled \cup (IF Covered = {} THEN {} ELSE {Search})
  /\ quiet' = TRUE /\ bare' = (loaded = {})
  /\ stray' = (stray /\ here = "here")
  /\ UNCHANGED <<dev, ignore, fileVars, db, todo, loaded, typed>>

\* cmd_add without files.
StartSearch ==
  /\ Search \in jobs /\ todo = {}
  /\ jobs' = jobs \ {Search}
  /\ todo' = IF db.ignore THEN {} ELSE UNION {FirstMatching(n) : n \in Selecting}
  /\ UNCHANGED <<systemVars, fileVars, udevVars, event, loaded, pastVars>>

\* cmd_add with the file of an installed rule.
StartNamed ==
  /\ Search \notin jobs /\ todo = {}
  /\ \E n \in jobs : jobs' = jobs \ {n} /\ todo' = Named([dir |-> Etc, name |-> n])
  /\ UNCHANGED <<systemVars, fileVars, udevVars, event, loaded, pastVars>>

\* load_programs up to what it pins: a file that is gone, or a property that
\* probe() misses, makes it fail.
Runs(p) == p \in tree \cap Works /\ (p \in Choosy => db.prop)

\* A device takes one fixup, and a name in bpffs is pinned once.
LoadsTwice(p) ==  \* a slip: nobody looks for the name in bpffs
  Runs(p) /\ (p.name \in Fixup => \A q \in loaded : q.name \notin Fixup)
Loads(p) ==
  /\ Runs(p)
  /\ p.name \in Fixup => \A q \in loaded : q.name \notin Fixup
  /\ \A q \in loaded : q.name # p.name

\* A file fails before it has pinned anything, and a map that cannot be pinned
\* takes the directory away, with what is loaded under that name.
LeftBy(p) ==
  IF Runs(p) /\ p.name \in MapsOnly THEN {q \in loaded : q.name # p.name} ELSE loaded

\* load_bpf_files: the next file of a group, which ends the group when it loads.
TryFile ==
  /\ \E p \in todo :
       /\ \A q \in todo \ {p} : Before(p.name, q.name)
       /\ IF Loads(p)
          THEN /\ loaded' = loaded \cup {p}
               /\ todo' = {q \in todo : q.name.stem # p.name.stem}
          ELSE loaded' = LeftBy(p) /\ todo' = todo \ {p}
  /\ UNCHANGED <<systemVars, fileVars, udevVars, event, jobs, pastVars>>

\* The event is over, and udevd keeps the properties.
Over == event # "none" /\ jobs = {} /\ todo = {}

EventDone ==
  /\ Over
  /\ event' = "none"
  /\ db' = IF event = "add" THEN env ELSE db
  /\ env' = NoProperties
  /\ UNCHANGED <<systemVars, fileVars, jobs, todo, loaded, pastVars>>

\* A remove uevent: the rules of the hwdb, and of installed files, run remove.
RemoversHwdb == Covered  \* a slip: install writes no rule for remove
Removers == Covered \cup Ruled

RemoveEvent ==
  /\ event = "none" /\ here = "here"
  /\ here' = "gone"
  /\ loaded' = IF Removers = {} THEN loaded ELSE {}
  /\ db' = NoProperties
  /\ UNCHANGED <<dev, ignore, fileVars, env, event, jobs, todo, pastVars>>

-----------------------------------------------------------------------------
(* Commands that are typed.                                                *)

Argument == [dir: Range(Dirs) \cup {Etc, Cwd}, name: Name]

\* add <device> <file>
Add(a) ==
  /\ event = "none" /\ here = "here"
  /\ event' = "typed"
  /\ todo' = Named(a)
  /\ typed' = TRUE
  /\ UNCHANGED <<systemVars, fileVars, udevVars, jobs, loaded, quiet, bare, stray>>

\* add - <file>: inspect opens the file where the argument says it is; without a
\* device that matches, the command is refused.
Finds(a) == a \in tree /\ \E m \in Meta[a.name] : SysfsMatches(m, dev)

AddMatching(a) == Finds(a) /\ Add(a)

\* remove <device>
CmdRemove ==
  /\ event = "none" /\ here = "here"
  /\ loaded' = {}
  /\ UNCHANGED <<systemVars, fileVars, udevVars, event, jobs, todo, pastVars>>

-----------------------------------------------------------------------------
(* Files, rules and the hwdb change.                                       *)

Change ==
  /\ here # "gone"
  /\ changes < MaxChanges
  /\ changes' = changes + 1
  /\ quiet' = FALSE /\ stray' = TRUE
  /\ UNCHANGED <<systemVars, udevVars, event, jobs, todo, loaded, bare, typed>>

\* A file comes or goes.
ChangeFile ==
  /\ \E p \in Path : tree' = IF p \in tree THEN tree \ {p} ELSE tree \cup {p}
  /\ UNCHANGED <<hwdb, rules>>
  /\ Change

\* systemd-hwdb update
UpdateHwdb ==
  /\ hwdb' = Packaged
  /\ UNCHANGED <<tree, rules>>
  /\ Change

\* install copies a file that has metadata, and writes its rule.
Install ==
  /\ \E n \in Name :
       /\ Meta[n] # {}
       /\ tree' = tree \cup {[dir |-> Etc, name |-> n]}
       /\ rules' = rules \cup {n}
  /\ UNCHANGED hwdb
  /\ Change

RemoveRule ==
  /\ \E n \in rules : rules' = rules \ {n}
  /\ UNCHANGED <<tree, hwdb>>
  /\ Change

SelectionNext ==
  \/ AddEvent \/ StartSearch \/ StartNamed \/ TryFile \/ EventDone \/ RemoveEvent
  \/ \E a \in Argument : Add(a) \/ AddMatching(a)
  \/ CmdRemove
  \/ ChangeFile \/ UpdateHwdb \/ Install \/ RemoveRule
-----------------------------------------------------------------------------
(* Properties                                                              *)

\* What the documentation says of the files that are for the device, and of which
\* one of them is the best.
Wanted == {n \in hwdb : \E m \in Meta[n] : RuleMatches(m, dev)}
Version(n) == FoldLeft(LAMBDA v, digit : 10 * v + digit, 0, n.num)
FixedUpBefore(n) == \E q \in loaded : q.dir # Etc /\ q.name \in Fixup /\ q.name.stem < n.stem
Best(n) ==
  LET Candidates == {o \in Wanted : /\ o.stem = n.stem
                                    /\ \E p \in FirstMatching(o) : Runs(p)
                                    /\ ~(o \in Fixup /\ FixedUpBefore(o))}
  IN  n \in Candidates /\ \A o \in Candidates : Version(o) <= Version(n)

\* The installed file n, and whether it takes away the maps of a loaded one.
InEtc(n) == [dir |-> Etc, name |-> n]
TakesAway(n) == n \in Ruled \cap MapsOnly /\ Runs(InEtc(n))

\* An add event of a device without programs, during which no file changes, loads
\* of every group the newest file that is for the device and runs there, and none
\* besides but installed ones: through patterns of the hwdb, directories that
\* hide each other, dictionary order and udev's two sources of properties.  A
\* fixup is left out after one of an earlier group, and maps are lost to an installed
\* file of their name.  The hwdb has no device with longer ids, udev's database must
\* not be older than the hwdb, and what probe() wants must be in it
\* (hid_bpf_properties).
LoadsTheBest ==
  (/\ event = "add" /\ Over /\ quiet /\ bare
   /\ dev.vid < 2^16 /\ dev.pid < 2^16
   /\ ~db.ignore /\ db.names \in {{}, Wanted})
  => {p.name : p \in {x \in loaded : x.dir # Etc}} = {n \in Name : Best(n) /\ ~TakesAway(n)}

\* An installed file is loaded on the device of its rule, whatever files, patterns
\* and properties there are besides (write_udev_rule names it by its path), or a
\* file of its name is.  What keeps it away is another fixup, or maps that were
\* pinned before (attach_struct_ops and pin_maps in load_programs).
InstalledLoads ==
  event = "add" /\ Over /\ quiet =>
    \A n \in Ruled : Runs(InEtc(n)) =>
      \/ \E p \in loaded : p.name = n
      \/ n \in Fixup /\ \E p \in loaded : p.name \in Fixup
      \/ n \in MapsOnly /\ (~bare \/ n \in Selecting)

\* A device that is gone has left programs behind only if somebody typed an add, or
\* the hwdb, the rules or files were changed while it was there: then the rules
\* may not run remove for it.
NothingLeft == here = "gone" /\ ~typed /\ ~stray => loaded = {}

\* add - finds every device that a file's metadata match.
MatchesAreFound ==
  here = "here" => \A p \in tree :
    (\E m \in Meta[p.name] : RuleMatches(m, dev)) => Finds(p)
=============================================================================
