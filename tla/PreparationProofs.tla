------------------------- MODULE PreparationProofs -------------------------
(***************************************************************************)
(* What Preparation promises for any files, directories, devices,          *)
(* sections, fields and types of descriptors.  Each theorem is about one   *)
(* of its parts; the steps of the others leave its variables alone.        *)
(***************************************************************************)
EXTENDS Preparation, SequenceTheorems, NaturalsInduction, WellFoundedInduction, TLAPS

LEMMA PartsAreApart ==
  ASSUME [Next]_vars
  PROVE  /\ UNCHANGED selectionVars \/ SelectionNext
         /\ UNCHANGED injectionVars \/ InjectionNext
         /\ UNCHANGED descriptorVars \/ DescriptorNext
  BY DEF Next, vars, SelectionPart, InjectionPart, DescriptorPart

-----------------------------------------------------------------------------
(* ObjectSelection: what is removed                                        *)

\* While nothing has changed and nobody has typed an add, there is nothing on a
\* device, nor anything under way for it, that its rules would not remove.
RemovedInv ==
  /\ here \in {"new", "here", "gone"}
  /\ event = "none" => jobs = {} /\ todo = {}
  /\ here # "here" => event = "none"
  /\ here = "new" => loaded = {}
  /\ here = "here" /\ ~typed /\ ~stray /\ Removers = {} => jobs = {} /\ todo = {} /\ loaded = {}
  /\ NothingLeft

\* The rules say the same of a device as long as nothing changes.
LEMMA SameRules ==
  ASSUME UNCHANGED <<dev, hwdb, rules>>
  PROVE  UNCHANGED <<Covered, Ruled, Removers>>
  BY DEF Covered, Ruled, Removers, HwdbMatches

LEMMA RemovedStep ==
  ASSUME RemovedInv, SelectionNext
  PROVE  RemovedInv'
  <1> USE DEF RemovedInv, NothingLeft
  <1>1. CASE AddEvent
    <2>1. /\ event = "none" /\ here # "gone" /\ here' = "here" /\ event' = "add"
          /\ jobs' = Ruled \cup (IF Covered = {} THEN {} ELSE {Search})
          /\ stray' = (stray /\ here = "here")
          /\ todo' = todo /\ loaded' = loaded /\ typed' = typed
      BY <1>1 DEF AddEvent
    <2>2. Removers' = Removers
      BY <1>1, SameRules DEF AddEvent, fileVars
    <2>3. Removers = {} => jobs' = {}
      BY <2>1 DEF Removers
    <2>4. ~stray' => loaded = {} \/ (here = "here" /\ ~stray)
      BY <2>1, Zenon
    <2>5. here' = "here" /\ event' = "add" /\ todo' = {}
      BY <2>1
    <2>6. ~typed' /\ ~stray' /\ Removers' = {} => jobs' = {} /\ loaded' = {}
      BY <2>1, <2>2, <2>3, <2>4
    <2>7. QED
      BY <2>5, <2>6
  <1>2. CASE StartSearch \/ StartNamed
    <2>1. /\ UNCHANGED <<dev, hwdb, rules, here, event, loaded, typed, stray>> /\ jobs # {}
      BY <1>2 DEF StartSearch, StartNamed, systemVars, fileVars, pastVars
    <2>2. QED
      BY <2>1, SameRules
  <1>3. CASE TryFile
    <2>1. UNCHANGED <<dev, hwdb, rules, here, event, jobs, typed, stray>> /\ todo # {}
      BY <1>3 DEF TryFile, systemVars, fileVars, pastVars
    <2>2. QED
      BY <2>1, SameRules
  <1>4. CASE EventDone
    <2>1. /\ UNCHANGED <<dev, hwdb, rules, here, jobs, todo, loaded, typed, stray>>
          /\ event' = "none" /\ jobs = {} /\ todo = {}
      BY <1>4 DEF EventDone, Over, systemVars, fileVars, pastVars
    <2>2. QED
      BY <2>1, SameRules
  <1>5. CASE RemoveEvent
    <2>1. /\ event = "none" /\ here = "here" /\ here' = "gone"
          /\ loaded' = IF Removers = {} THEN loaded ELSE {}
          /\ UNCHANGED <<event, jobs, todo, typed, stray>>
      BY <1>5 DEF RemoveEvent, pastVars
    <2>2. QED
      BY <2>1
  <1>6. ASSUME NEW a, Add(a) PROVE RemovedInv'
    <2>1. typed' = TRUE /\ here = "here" /\ here' = here
      BY <1>6 DEF Add, systemVars
    <2>2. event' = "typed"
      BY <1>6 DEF Add
    <2>3. QED
      BY <2>1, <2>2
  <1>7. CASE CmdRemove
    <2>1. /\ UNCHANGED <<dev, hwdb, rules, here, event, jobs, todo, typed, stray>>
          /\ event = "none" /\ here = "here" /\ loaded' = {}
      BY <1>7 DEF CmdRemove, systemVars, fileVars, pastVars
    <2>2. QED
      BY <2>1, SameRules
  <1>8. CASE Change
    <2>1. stray' = TRUE /\ here # "gone" /\ UNCHANGED <<here, event, jobs, todo, loaded>>
      BY <1>8 DEF Change, systemVars
    <2>2. QED
      BY <2>1
  <1>9. QED
    BY <1>1, <1>2, <1>3, <1>4, <1>5, <1>6, <1>7, <1>8
    DEF SelectionNext, AddMatching, ChangeFile, UpdateHwdb, Install, RemoveRule

\* Whatever the patterns and the files are, a device that is gone has left no
\* programs behind if nobody typed an add and nothing was changed (the rules of
\* 81-hid-bpf.rules and of write_udev_rule run remove).
THEOREM NothingStays == Spec => []NothingLeft
  <1>1. Init => RemovedInv
    BY DEF Init, SelectionInit, RemovedInv, NothingLeft
  <1>2. ASSUME RemovedInv, [Next]_vars
        PROVE  RemovedInv'
    <2>1. CASE UNCHANGED selectionVars
      <3>1. UNCHANGED <<dev, hwdb, rules, here, event, jobs, todo, loaded, typed, stray>>
        BY <2>1 DEF selectionVars
      <3>2. QED
        BY <1>2, <3>1, SameRules DEF RemovedInv, NothingLeft
    <2>2. QED
      BY <1>2, <2>1, RemovedStep, PartsAreApart
  <1>3. RemovedInv => NothingLeft
    BY DEF RemovedInv
  <1>4. QED
    BY <1>1, <1>2, <1>3, PTL DEF Spec

-----------------------------------------------------------------------------
(* ObjectSelection: what is installed                                      *)

\* In an event in which nothing changes, an installed file that runs waits for its
\* command, is tried, is there, or has met what keeps it away.
Awaited(n) ==
  \/ n \in jobs
  \/ todo = {InEtc(n)}
  \/ \E p \in loaded : p.name = n
  \/ n \in Fixup /\ \E p \in loaded : p.name \in Fixup
  \/ n \in MapsOnly /\ (~bare \/ n \in Selecting)

\* What is loaded under the name of a file that is still to be tried has come from
\* the search, when nothing was there before.
Traced ==
  /\ \A t \in todo : t.name \in Selecting \/ t.name \notin jobs
  /\ \A p \in loaded :
       p.name \in Selecting \/ (p.name \notin jobs /\ \A t \in todo : t.name # p.name)

InstalledInv ==
  /\ rules \subseteq Name
  /\ event = "none" => jobs = {} /\ todo = {}
  /\ event = "add" /\ quiet => \A n \in Ruled : Runs(InEtc(n)) => Awaited(n)
  /\ event = "add" /\ quiet /\ bare => Traced

LEMMA FoundByName ==
  \A n : \A p \in FirstMatching(n) : p.name = n /\ p.dir # Etc
  <1>1. ASSUME NEW n, NEW p \in FirstMatching(n)
        PROVE  p.name = n /\ p.dir # Etc
    <2>1. PICK i \in DOMAIN Dirs : p = [dir |-> Dirs[i], name |-> n]
      BY DEF FirstMatching
    <2>2. Dirs[i] # Etc
      BY SelectionAssumption DEF Range
    <2>3. QED
      BY <2>1, <2>2
  <1>2. QED
    BY <1>1

LEMMA TracedStep ==
  ASSUME Traced, StartSearch \/ StartNamed \/ TryFile, Selecting' = Selecting
  PROVE  Traced'
  <1>1. \A n : \A p \in FirstMatching(n) : p.name = n
    BY FoundByName
  <1>2. CASE StartSearch
    <2>1. /\ jobs' \subseteq jobs /\ loaded' = loaded /\ todo = {}
          /\ todo' \subseteq UNION {FirstMatching(n) : n \in Selecting}
      BY <1>2 DEF StartSearch
    <2>2. \A t \in todo' : t.name \in Selecting
      BY <1>1, <2>1
    <2>3. ASSUME NEW p \in loaded, p.name \notin Selecting
          PROVE  p.name \notin jobs' /\ \A t \in todo' : t.name # p.name
      BY <2>1, <2>2, <2>3 DEF Traced
    <2>4. QED
      BY <2>1, <2>2, <2>3 DEF Traced
  <1>3. CASE StartNamed
    <2>1. PICK n \in jobs : jobs' = jobs \ {n} /\ todo' = Named([dir |-> Etc, name |-> n])
      BY <1>3 DEF StartNamed
    <2>2. \A t \in todo' : t.name = n
      BY <1>1, <2>1 DEF Named
    <2>3. loaded' = loaded /\ todo = {}
      BY <1>3 DEF StartNamed
    <2>4. QED
      BY <2>1, <2>2, <2>3 DEF Traced
  <1>4. CASE TryFile
    <2>1. PICK p \in todo :
            IF Loads(p)
            THEN /\ loaded' = loaded \cup {p}
                 /\ todo' = {q \in todo : q.name.stem # p.name.stem}
            ELSE loaded' = LeftBy(p) /\ todo' = todo \ {p}
      BY <1>4 DEF TryFile
    <2>2. jobs' = jobs
      BY <1>4 DEF TryFile
    <2>3. LeftBy(p) \subseteq loaded
      BY DEF LeftBy
    <2>4. QED
      BY <2>1, <2>2, <2>3 DEF Traced
  <1>5. QED
    BY <1>2, <1>3, <1>4

LEMMA InstalledStep ==
  ASSUME InstalledInv, SelectionNext
  PROVE  InstalledInv'
  <1>1. rules' \subseteq Name
    BY DEF InstalledInv, SelectionNext, AddEvent, StartSearch, StartNamed, TryFile, EventDone,
       RemoveEvent, Add, AddMatching, CmdRemove, ChangeFile, UpdateHwdb, Install, RemoveRule,
       fileVars
  <1>2. event' = "none" => jobs' = {} /\ todo' = {}
    BY DEF InstalledInv, SelectionNext, AddEvent, StartSearch, StartNamed, TryFile, EventDone,
       Over, RemoveEvent, Add, AddMatching, CmdRemove, ChangeFile, UpdateHwdb, Install,
       RemoveRule, Change
  <1>3. CASE event' # "add" \/ ~quiet'
    BY <1>1, <1>2, <1>3 DEF InstalledInv
  <1>4. CASE AddEvent
    <2>1. /\ \A n \in Ruled : n \in jobs'
          /\ todo' = {} /\ (bare' => loaded' = {})
      BY <1>4 DEF AddEvent, InstalledInv
    <2>2. Ruled' = Ruled
      BY <1>4, SameRules DEF AddEvent, fileVars
    <2>3. bare' => Traced'
      BY <2>1 DEF Traced
    <2>4. QED
      BY <1>1, <1>2, <2>1, <2>2, <2>3 DEF InstalledInv, Awaited
  <1>5. CASE event' = "add" /\ quiet' /\ ~AddEvent
    <2>1. StartSearch \/ StartNamed \/ TryFile
      BY <1>5 DEF SelectionNext, EventDone, RemoveEvent, Add, AddMatching, CmdRemove, ChangeFile,
         UpdateHwdb, Install, RemoveRule, Change
    <2>2. UNCHANGED <<dev, hwdb, rules, tree, db, env, event, quiet, bare>>
      BY <2>1 DEF StartSearch, StartNamed, TryFile, systemVars, fileVars, udevVars, pastVars
    <2>3. Ruled' = Ruled /\ Selecting' = Selecting
      BY <2>2, SameRules DEF Selecting
    <2>4. \A n : Runs(InEtc(n))' = Runs(InEtc(n))
      BY <2>2 DEF Runs, InEtc
    <2>5. bare => Traced /\ Traced'
      BY <1>5, <2>1, <2>2, <2>3, TracedStep DEF InstalledInv
    <2>6. ASSUME NEW n \in Ruled, Runs(InEtc(n))
          PROVE  Awaited(n)'
      <3>1. n \in Name /\ n # Search /\ Awaited(n)
        BY <1>5, <2>2, <2>6, SelectionAssumption DEF Ruled, InstalledInv
      <3>2. CASE n \in MapsOnly /\ (~bare \/ n \in Selecting)
        BY <2>2, <2>3, <3>2 DEF Awaited
      <3>3. CASE n \in jobs /\ (StartSearch \/ TryFile)
        BY <3>1, <3>3 DEF StartSearch, TryFile, Awaited
      <3>4. CASE n \in jobs /\ StartNamed
        <4>1. PICK m \in jobs : jobs' = jobs \ {m} /\ todo' = Named(InEtc(m))
          BY <3>4 DEF StartNamed, InEtc
        <4>2. CASE m = n
          BY <2>6, <4>1, <4>2 DEF Named, Runs, Awaited
        <4>3. CASE m # n
          BY <3>4, <4>1, <4>3 DEF Awaited
        <4>4. QED
          BY <4>2, <4>3
      <3>5. CASE ~TryFile /\ \E p \in loaded : p.name = n \/ (n \in Fixup /\ p.name \in Fixup)
        <4>1. loaded' = loaded
          BY <2>1, <3>5 DEF StartSearch, StartNamed
        <4>2. QED
          BY <3>5, <4>1 DEF Awaited
      <3>6. CASE TryFile /\ n \notin jobs /\ ~(n \in MapsOnly /\ (~bare \/ n \in Selecting))
        <4>1. PICK p \in todo :
                IF Loads(p)
                THEN /\ loaded' = loaded \cup {p}
                     /\ todo' = {q \in todo : q.name.stem # p.name.stem}
                ELSE loaded' = LeftBy(p) /\ todo' = todo \ {p}
          BY <3>6 DEF TryFile
        <4>2. \A q \in loaded : q.name \in Fixup => q \in loaded'
          BY <4>1, SelectionAssumption DEF LeftBy
        <4>3. ASSUME NEW q \in loaded, q.name = n
              PROVE  q \in loaded'
          <5>1. CASE n \in MapsOnly
            <6>1. \A t \in todo : t.name # n
              BY <2>5, <3>6, <4>3, <5>1 DEF Traced
            <6>2. QED
              BY <4>1, <4>3, <6>1 DEF LeftBy
          <5>2. CASE n \notin MapsOnly
            BY <4>1, <4>3, <5>2 DEF LeftBy
          <5>3. QED
            BY <5>1, <5>2
        <4>4. CASE \E q \in loaded : q.name = n
          BY <4>3, <4>4 DEF Awaited
        <4>5. CASE n \in Fixup /\ \E q \in loaded : q.name \in Fixup
          BY <4>2, <4>5 DEF Awaited
        <4>6. CASE todo = {InEtc(n)}
          <5>1. p = InEtc(n) /\ p.name = n
            BY <4>1, <4>6 DEF InEtc
          <5>2. CASE Loads(p)
            BY <4>1, <5>1, <5>2 DEF Awaited
          <5>3. CASE ~Loads(p)
            BY <2>6, <4>4, <4>5, <5>1, <5>3 DEF Loads
          <5>4. QED
            BY <5>2, <5>3
        <4>7. QED
          BY <3>1, <3>6, <4>4, <4>5, <4>6 DEF Awaited
      <3>7. CASE todo = {InEtc(n)} /\ ~TryFile
        BY <2>1, <3>7 DEF StartSearch, StartNamed
      <3>8. QED
        BY <2>1, <3>1, <3>2, <3>3, <3>4, <3>5, <3>6, <3>7 DEF Awaited
    <2>7. QED
      BY <1>1, <1>2, <2>2, <2>3, <2>4, <2>5, <2>6 DEF InstalledInv
  <1>6. QED
    BY <1>3, <1>4, <1>5

\* Whatever files, rules and patterns there are for a device, an add event in which
\* nothing changes loads every installed file that runs there, or a file of its name,
\* unless it is a fixup beside another one, or pins maps that were pinned already
\* (write_udev_rule, load_programs).
THEOREM InstalledIsLoaded == Spec => []InstalledLoads
  <1>1. Init => InstalledInv
    BY DEF Init, SelectionInit, InstalledInv
  <1>2. ASSUME InstalledInv, [Next]_vars
        PROVE  InstalledInv'
    <2>1. CASE UNCHANGED selectionVars
      <3>1. UNCHANGED <<dev, hwdb, rules, event, quiet, bare, tree, db, env, jobs, todo, loaded>>
        BY <2>1 DEF selectionVars
      <3>2. Ruled' = Ruled /\ Selecting' = Selecting
        BY <3>1, SameRules DEF Selecting
      <3>3. QED
        BY <1>2, <3>1, <3>2 DEF InstalledInv, Runs, Awaited, Traced
    <2>2. QED
      BY <1>2, <2>1, InstalledStep, PartsAreApart
  <1>3. InstalledInv => InstalledLoads
    <2>1. ASSUME InstalledInv, event = "add", Over, quiet, NEW n \in Ruled, Runs(InEtc(n))
          PROVE  \/ \E p \in loaded : p.name = n
                 \/ n \in Fixup /\ \E p \in loaded : p.name \in Fixup
                 \/ n \in MapsOnly /\ (~bare \/ n \in Selecting)
      <3>1. jobs = {} /\ todo = {} /\ Awaited(n)
        BY <2>1 DEF Over, InstalledInv
      <3>2. QED
        BY <3>1 DEF Awaited
    <2>2. QED
      BY <2>1 DEF InstalledLoads
  <1>4. QED
    BY <1>1, <1>2, <1>3, PTL DEF Spec

-----------------------------------------------------------------------------
(* ObjectSelection: what is loaded                                         *)

\* The dictionary order of the names of one program is the order of their numbers,
\* as it is when all have as many digits.
Numbered ==
  /\ \A n \in Name : Version(n) \in Int
  /\ \A m, n \in Name : m # n /\ m.stem = n.stem /\ Dict(n.num, m.num) => Version(n) < Version(m)

\* The events that LoadsTheBest is about, and the files that are tried in one.
Undisturbed == event = "add" /\ quiet /\ bare
Ordinary == dev.vid < 2^16 /\ dev.pid < 2^16 /\ ~db.ignore /\ db.names \in {{}, Wanted}
ForDevice == UNION {FirstMatching(n) : n \in Wanted}
NotInstalled(X) == {x \in X : x.dir # Etc}

\* A file that runs beside S, in which there is no fixup of an earlier group if it is one.
Suits(q, S) ==
  /\ Runs(q)
  /\ ~(q.name \in Fixup /\ \E r \in S : r.name \in Fixup /\ r.name.stem < q.name.stem)

\* S is what the search has loaded, and T what it may still try: of every group the
\* files before the one that was loaded do not fit, and no other is tried any more.
Searched(S, T) ==
  /\ T \subseteq ForDevice
  /\ \A p \in S :
       /\ p \in ForDevice /\ Suits(p, S)
       /\ \A q \in T : p.name.stem < q.name.stem
       /\ \A q \in ForDevice \ {p} :
            Suits(q, S) /\ q.name.stem = p.name.stem => Before(p.name, q.name)
  /\ \A q \in ForDevice \ T : Suits(q, S) => \E p \in S : p.name.stem = q.name.stem

\* An installed file that takes away maps has been tried.
Gone(n) == TakesAway(n) /\ n \notin jobs /\ InEtc(n) \notin todo

\* The search comes first, while nothing is loaded, and the installed files later,
\* which leave of what the search has loaded what they do not take away.
Searching ==
  /\ todo \subseteq ForDevice /\ NotInstalled(loaded) = loaded
  /\ Ruled \subseteq jobs
Installing == todo = {} \/ \E n \in Ruled \ jobs : todo = {InEtc(n)}
InOrder ==
  /\ jobs \subseteq Ruled \cup {Search}
  /\ IF Search \in jobs THEN todo = {} /\ loaded = {} /\ Ruled \subseteq jobs
     ELSE /\ Searching \/ Installing
          /\ \E S \in SUBSET ForDevice :
               /\ Searched(S, NotInstalled(todo))
               /\ NotInstalled(loaded) = {p \in S : ~Gone(p.name)}

BestInv ==
  /\ tree \subseteq Path /\ hwdb \subseteq Name /\ rules \subseteq Name
  /\ event = "none" => jobs = {} /\ todo = {}
  /\ event = "add" /\ quiet => env.names = Covered
  /\ Undisturbed /\ Ordinary => InOrder

LEMMA SameFiles ==
  ASSUME UNCHANGED <<dev, hwdb, rules, tree, db>>
  PROVE  /\ UNCHANGED <<Covered, Ruled, Wanted, ForDevice, Ordinary>>
         /\ \A p : Runs(p)' = Runs(p)
         /\ \A n : TakesAway(n)' = TakesAway(n)
         /\ \A S, T : Searched(S, T)' = Searched(S, T)
  <1>1. UNCHANGED <<Covered, Ruled>>
    BY SameRules
  <1>2. UNCHANGED Wanted
    BY DEF Wanted, RuleMatches
  <1>3. \A n : UNCHANGED FirstMatching(n)
    BY DEF FirstMatching
  <1>4. UNCHANGED ForDevice
    BY <1>2, <1>3 DEF ForDevice
  <1>5. UNCHANGED Ordinary
    BY <1>2 DEF Ordinary
  <1>6. \A p : Runs(p)' = Runs(p)
    BY DEF Runs
  <1>7. \A n : TakesAway(n)' = TakesAway(n)
    BY <1>1, <1>6 DEF TakesAway, InEtc
  <1>8. ASSUME NEW S, NEW T PROVE Searched(S, T)' = Searched(S, T)
    BY <1>4, <1>6 DEF Searched, Suits, Before, Dict
  <1>9. QED
    BY <1>1, <1>2, <1>4, <1>5, <1>6, <1>7, <1>8

LEMMA CoveredIsWanted ==
  ASSUME Ordinary
  PROVE  Covered = Wanted
  BY DEF Ordinary, Covered, Wanted, HwdbMatches, RuleMatches, Glob16, Glob

\* A file that is tried is found by its name in a directory that is searched.
LEMMA ForDeviceIs ==
  /\ NotInstalled(ForDevice) = ForDevice
  /\ \A p \in ForDevice : p.name \in Wanted /\ p \in FirstMatching(p.name)
  /\ \A n \in Wanted : FirstMatching(n) \subseteq ForDevice
  /\ \A n : \A p \in FirstMatching(n) : p.name = n
  <1>1. \A n \in Wanted : FirstMatching(n) \subseteq ForDevice
    BY DEF ForDevice
  <1>2. ASSUME NEW p \in ForDevice
        PROVE  p.name \in Wanted /\ p \in FirstMatching(p.name) /\ p.dir # Etc
    <2>1. PICK n \in Wanted : p \in FirstMatching(n)
      BY DEF ForDevice
    <2>2. QED
      BY <2>1, FoundByName
  <1>3. QED
    BY <1>1, <1>2, FoundByName DEF NotInstalled

\* The next file of a group ends the group or leaves it to the others.
LEMMA SearchGoesOn ==
  ASSUME hwdb \subseteq Name, NEW S, NEW T, Searched(S, T), NEW p \in T,
         \A q \in T \ {p} : Before(p.name, q.name)
  PROVE  /\ Suits(p, S) => Searched(S \cup {p}, {q \in T : q.name.stem # p.name.stem})
         /\ ~Suits(p, S) => Searched(S, T \ {p})
  <1>1. /\ T \subseteq ForDevice /\ S \subseteq ForDevice
        /\ \A q \in ForDevice : q.name.stem \in Nat
    BY ForDeviceIs, SelectionAssumption DEF Searched, Wanted
  <1>2. ASSUME Suits(p, S)
        PROVE  Searched(S \cup {p}, {q \in T : q.name.stem # p.name.stem})
    <2> DEFINE S1 == S \cup {p}
               T1 == {q \in T : q.name.stem # p.name.stem}
    <2>1. \A s \in S : s.name.stem < p.name.stem
      BY DEF Searched
    <2>2. \A q \in T1 : p.name.stem < q.name.stem
      BY DEF Before
    <2>3. \A q : Suits(q, S1) => Suits(q, S)
      BY DEF Suits
    <2>4. \A s \in S1 : Suits(s, S1)
      <3>1. \A s \in S : ~(p.name.stem < s.name.stem)
        BY <1>1, <2>1
      <3>2. ~(p.name.stem < p.name.stem)
        BY <1>1
      <3>3. QED
        BY <1>2, <3>1, <3>2 DEF Searched, Suits
    <2>5. \A s \in S1 : \A q \in T1 : s.name.stem < q.name.stem
      BY <2>2 DEF Searched
    <2>6. ASSUME NEW q \in ForDevice \ {p}, Suits(q, S), q.name.stem = p.name.stem
          PROVE  Before(p.name, q.name)
      <3>1. CASE q \in T
        BY <2>6, <3>1
      <3>2. CASE q \notin T
        <4>1. PICK s \in S : s.name.stem = q.name.stem
          BY <2>6, <3>2 DEF Searched
        <4>2. QED
          BY <1>1, <2>1, <2>6, <4>1
      <3>3. QED
        BY <3>1, <3>2
    <2>7. ASSUME NEW s \in S1, NEW q \in ForDevice \ {s}, Suits(q, S1),
                 q.name.stem = s.name.stem
          PROVE  Before(s.name, q.name)
      BY <2>3, <2>6, <2>7 DEF Searched
    <2>8. ASSUME NEW q \in ForDevice \ T1, Suits(q, S1)
          PROVE  \E s \in S1 : s.name.stem = q.name.stem
      BY <2>3, <2>8 DEF Searched
    <2>9. S1 \subseteq ForDevice /\ T1 \subseteq ForDevice
      BY <1>1
    <2> HIDE DEF S1, T1
    <2>10. Searched(S1, T1)
      BY <2>4, <2>5, <2>7, <2>8, <2>9 DEF Searched
    <2>11. QED
      BY <2>10 DEF S1, T1
  <1>3. ASSUME ~Suits(p, S) PROVE Searched(S, T \ {p})
    BY <1>3 DEF Searched
  <1>4. QED
    BY <1>2, <1>3

\* While the search goes on nothing is gone, and a file is loaded when it fits.
LEMMA SearchLoads ==
  ASSUME Searching, rules \subseteq Name, hwdb \subseteq Name, NEW p \in todo,
         Searched(loaded, todo)
  PROVE  (Loads(p) <=> Suits(p, loaded)) /\ LeftBy(p) = loaded
  <1>1. \A q \in loaded : q.name.stem < p.name.stem
    BY DEF Searched
  <1>2. p.name.stem \in Nat
    BY ForDeviceIs, SelectionAssumption DEF Searching, Wanted
  <1>3. \A q \in loaded : q.name # p.name
    BY <1>1, <1>2
  <1>4. QED
    BY <1>1, <1>3 DEF Loads, Suits, LeftBy

\* A step of an event in which nothing changes keeps the order.
LEMMA OrderKept ==
  ASSUME BestInv, StartSearch \/ StartNamed \/ TryFile, Undisturbed, Ordinary
  PROVE  InOrder'
  <1>1. InOrder /\ env.names = Covered /\ rules \subseteq Name /\ hwdb \subseteq Name
    BY DEF BestInv, Undisturbed
  <1>2. UNCHANGED <<dev, hwdb, rules, tree, db>>
    BY DEF StartSearch, StartNamed, TryFile, systemVars, fileVars, udevVars
  <1>3. /\ ForDevice' = ForDevice /\ Ruled' = Ruled /\ \A p : Runs(p)' = Runs(p)
        /\ \A n : TakesAway(n)' = TakesAway(n)
        /\ \A S, T : Searched(S, T)' = Searched(S, T)
    BY <1>2, SameFiles
  <1>4. Search \notin Ruled /\ Ruled \subseteq Name
    BY <1>1, SelectionAssumption DEF Ruled
  <1>5. jobs' \subseteq jobs
    BY DEF StartSearch, StartNamed, TryFile
  <1>6. jobs' \subseteq Ruled' \cup {Search}
    BY <1>1, <1>3, <1>5 DEF InOrder
  <1>7. Ruled \subseteq jobs => \A n : ~Gone(n)
    BY DEF Gone, TakesAway
  <1>8. Ruled' \subseteq jobs' => \A n : ~Gone(n)'
    BY DEF Gone, TakesAway
  <1>9. CASE StartSearch
    <2>1. /\ loaded = {} /\ loaded' = {} /\ Search \notin jobs'
          /\ Ruled' \subseteq jobs'
      BY <1>1, <1>3, <1>4, <1>9 DEF StartSearch, InOrder
    <2>2. Selecting = Wanted
      BY <1>1, CoveredIsWanted DEF Selecting, Ordinary
    <2>3. todo' = ForDevice
      BY <1>9, <2>2 DEF StartSearch, ForDevice, Ordinary
    <2>4. Searched({}, ForDevice)
      BY DEF Searched
    <2>5. NotInstalled(loaded)' = {} /\ NotInstalled(todo)' = ForDevice
      BY <2>1, <2>3, ForDeviceIs DEF NotInstalled
    <2>6. Searched({}, NotInstalled(todo))'
      BY <1>3, <2>4, <2>5
    <2>7. Searching'
      BY <1>3, <2>1, <2>3, <2>5 DEF Searching
    <2>8. NotInstalled(loaded)' = {p \in {} : ~Gone(p.name)'}
      BY <2>5
    <2>9. QED
      BY <1>6, <2>1, <2>6, <2>7, <2>8 DEF InOrder
  <1>10. CASE StartNamed
    <2>1. Search \notin jobs /\ Search \notin jobs' /\ todo = {} /\ loaded' = loaded
      BY <1>10 DEF StartNamed
    <2>2. PICK n \in jobs : jobs' = jobs \ {n} /\ todo' = Named([dir |-> Etc, name |-> n])
      BY <1>10 DEF StartNamed
    <2>3. n \in Ruled
      BY <1>1, <2>1, <2>2 DEF InOrder
    <2>4. todo' = IF InEtc(n) \in tree THEN {InEtc(n)} ELSE {}
      BY <2>2, SelectionAssumption DEF Named, InEtc
    <2>5. NotInstalled(todo) = {} /\ NotInstalled(todo)' = {}
      BY <2>1, <2>4 DEF NotInstalled, InEtc
    <2>6. Installing'
      BY <1>3, <2>2, <2>3, <2>4, Zenon DEF Installing, InEtc
    <2>7. \A m : Gone(m)' <=> Gone(m)
      <3>1. \A m : InEtc(m) = InEtc(n) => m = n
        BY DEF InEtc
      <3>2. InEtc(n) \notin tree => ~TakesAway(n)
        BY DEF TakesAway, Runs
      <3>3. \A m : InEtc(m)' = InEtc(m)
        BY DEF InEtc
      <3>4. QED
        BY <1>3, <2>1, <2>2, <2>4, <3>1, <3>2, <3>3 DEF Gone
    <2>8. PICK S \in SUBSET ForDevice :
            /\ Searched(S, NotInstalled(todo))
            /\ NotInstalled(loaded) = {p \in S : ~Gone(p.name)}
      BY <1>1, <2>1 DEF InOrder
    <2>9. Searched(S, NotInstalled(todo))'
      BY <1>3, <2>5, <2>8
    <2>10. NotInstalled(loaded)' = {p \in S : ~Gone(p.name)'}
      <3>1. NotInstalled(loaded)' = NotInstalled(loaded)
        BY <2>1 DEF NotInstalled
      <3>2. QED
        BY <2>7, <2>8, <3>1
    <2>11. QED
      BY <1>3, <1>6, <2>1, <2>6, <2>9, <2>10 DEF InOrder
  <1>11. CASE TryFile
    <2>1. PICK p \in todo :
            /\ \A q \in todo \ {p} : Before(p.name, q.name)
            /\ IF Loads(p)
               THEN /\ loaded' = loaded \cup {p}
                    /\ todo' = {q \in todo : q.name.stem # p.name.stem}
               ELSE loaded' = LeftBy(p) /\ todo' = todo \ {p}
      BY <1>11 DEF TryFile
    <2>2. jobs' = jobs /\ Search \notin jobs
      BY <1>1, <1>11, <2>1 DEF InOrder, TryFile
    <2>3. PICK S \in SUBSET ForDevice :
            /\ Searched(S, NotInstalled(todo))
            /\ NotInstalled(loaded) = {s \in S : ~Gone(s.name)}
      BY <1>1, <2>2 DEF InOrder
    <2>4. CASE Searching
      <3>1. todo' \subseteq ForDevice /\ NotInstalled(todo) = todo /\ NotInstalled(todo)' = todo'
        BY <2>1, <2>4, ForDeviceIs DEF NotInstalled, Searching
      <3>2. S = loaded
        BY <1>7, <2>3, <2>4 DEF Searching
      <3>3. Searched(loaded, todo)
        BY <2>3, <3>1, <3>2
      <3>4. (Loads(p) <=> Suits(p, loaded)) /\ LeftBy(p) = loaded
        BY <1>1, <2>1, <2>4, <3>3, SearchLoads
      <3>5. Searched(loaded', todo')
        <4>1. /\ Suits(p, loaded) => Searched(loaded \cup {p}, {q \in todo : q.name.stem # p.name.stem})
              /\ ~Suits(p, loaded) => Searched(loaded, todo \ {p})
          BY <1>1, <2>1, <3>3, SearchGoesOn
        <4>2. QED
          BY <2>1, <3>4, <4>1
      <3>6. loaded' \subseteq ForDevice /\ NotInstalled(loaded)' = loaded'
        BY <2>1, <2>4, <3>2, <3>4, ForDeviceIs DEF NotInstalled, Searching
      <3>7. Ruled' \subseteq jobs' /\ Searching'
        BY <1>3, <2>2, <2>4, <3>1, <3>6 DEF Searching
      <3>8. NotInstalled(loaded)' = {s \in loaded' : ~Gone(s.name)'}
        BY <1>8, <3>6, <3>7
      <3>9. Searched(loaded, NotInstalled(todo))'
        BY <1>3, <3>1, <3>5
      <3>10. QED
        BY <1>3, <1>6, <2>2, <3>6, <3>7, <3>8, <3>9 DEF InOrder
    <2>5. CASE Installing
      <3>1. PICK n \in Ruled \ jobs : todo = {InEtc(n)}
        BY <2>1, <2>5 DEF Installing
      <3>2. p = InEtc(n) /\ p.name = n /\ p.dir = Etc /\ todo' = {}
        BY <2>1, <3>1 DEF InEtc
      <3>3. NotInstalled(todo) = {} /\ NotInstalled(todo)' = {}
        BY <3>1, <3>2 DEF NotInstalled
      <3>4. \A m : m # n => (Gone(m)' <=> Gone(m))
        BY <1>3, <2>2, <3>1, <3>2 DEF Gone, InEtc
      <3>5. ~Gone(n) /\ (Gone(n)' <=> n \in MapsOnly /\ Runs(p))
        BY <1>3, <2>2, <3>1, <3>2 DEF Gone, TakesAway, InEtc
      <3>6. NotInstalled(loaded)' = {s \in S : ~Gone(s.name)'}
        <4>1. CASE Loads(p)
          <5>1. NotInstalled(loaded)' = NotInstalled(loaded)
            BY <2>1, <3>2, <4>1 DEF NotInstalled
          <5>2. \A s \in S : s.name # n
            BY <2>3, <3>2, <3>5, <4>1 DEF Loads, NotInstalled
          <5>3. QED
            BY <2>3, <3>4, <5>1, <5>2
        <4>2. CASE ~Loads(p) /\ n \in MapsOnly /\ Runs(p)
          <5>1. NotInstalled(loaded)' = {s \in NotInstalled(loaded) : s.name # n}
            BY <2>1, <3>2, <4>2 DEF LeftBy, NotInstalled
          <5>2. QED
            BY <2>3, <3>4, <3>5, <4>2, <5>1
        <4>3. CASE ~Loads(p) /\ ~(n \in MapsOnly /\ Runs(p))
          <5>1. NotInstalled(loaded)' = NotInstalled(loaded)
            BY <2>1, <3>2, <4>3 DEF LeftBy, NotInstalled
          <5>2. QED
            BY <2>3, <3>4, <3>5, <4>3, <5>1
        <4>4. QED
          BY <4>1, <4>2, <4>3
      <3>7. Searched(S, NotInstalled(todo))'
        BY <1>3, <2>3, <3>3
      <3>8. QED
        BY <1>3, <1>6, <2>2, <3>2, <3>6, <3>7 DEF InOrder, Installing
    <2>6. QED
      BY <1>1, <2>2, <2>4, <2>5 DEF InOrder
  <1>12. QED
    BY <1>9, <1>10, <1>11

LEMMA BestStep ==
  ASSUME BestInv, SelectionNext
  PROVE  BestInv'
  <1>1. tree' \subseteq Path /\ rules' \subseteq Name
    BY DEF BestInv, SelectionNext, AddEvent, StartSearch, StartNamed, TryFile, EventDone,
       RemoveEvent, Add, AddMatching, CmdRemove, ChangeFile, UpdateHwdb, Install, RemoveRule,
       fileVars, Path
  <1>2. hwdb' \subseteq Name
    <2>1. Packaged \subseteq Name
      BY DEF BestInv, Packaged, Path
    <2>2. hwdb' = hwdb \/ hwdb' = Packaged
      BY DEF SelectionNext, AddEvent, StartSearch, StartNamed, TryFile, EventDone,
         RemoveEvent, Add, AddMatching, CmdRemove, ChangeFile, UpdateHwdb, Install, RemoveRule,
         fileVars
    <2>3. QED
      BY <2>1, <2>2 DEF BestInv
  <1>3. event' = "none" => jobs' = {} /\ todo' = {}
    BY DEF BestInv, SelectionNext, AddEvent, StartSearch, StartNamed, TryFile, EventDone, Over,
       RemoveEvent, Add, AddMatching, CmdRemove, ChangeFile, UpdateHwdb, Install, RemoveRule,
       Change
  <1>4. CASE event' # "add" \/ ~quiet'
    BY <1>1, <1>2, <1>3, <1>4 DEF BestInv, Undisturbed
  <1>5. CASE AddEvent
    <2>1. /\ UNCHANGED <<dev, hwdb, rules, tree, db>>
          /\ event = "none" /\ todo' = todo /\ loaded' = loaded /\ bare' = (loaded = {})
          /\ jobs' = Ruled \cup (IF Covered = {} THEN {} ELSE {Search})
          /\ env'.names = Covered
      BY <1>5 DEF AddEvent, fileVars
    <2>2. todo' = {}
      BY <2>1 DEF BestInv
    <2>3. UNCHANGED <<Covered, Ruled, Ordinary, ForDevice>>
      BY <2>1, SameFiles
    <2>4. ASSUME Undisturbed', Ordinary'
          PROVE  InOrder'
      <3>1. loaded' = {}
        BY <2>1, <2>4 DEF Undisturbed
      <3>2. jobs' \subseteq Ruled' \cup {Search} /\ Ruled' \subseteq jobs'
        BY <2>1, <2>3
      <3>3. CASE Search \notin jobs'
        <4>1. ForDevice = {}
          BY <2>1, <2>3, <2>4, <3>3, CoveredIsWanted DEF ForDevice
        <4>2. Searched({}, {})
          BY <4>1 DEF Searched
        <4>3. Searched({}, {})'
          BY <2>1, <4>2, SameFiles
        <4>4. NotInstalled(loaded)' = {} /\ NotInstalled(todo)' = {}
          BY <2>2, <3>1 DEF NotInstalled
        <4>5. Installing'
          BY <2>2 DEF Installing
        <4>6. Searched({}, NotInstalled(todo))'
          BY <4>3, <4>4
        <4>7. QED
          BY <3>2, <3>3, <4>4, <4>5, <4>6 DEF InOrder
      <3>4. QED
        BY <2>2, <3>1, <3>2, <3>3 DEF InOrder
    <2>5. QED
      BY <1>1, <1>2, <1>3, <2>1, <2>3, <2>4 DEF BestInv
  <1>6. CASE event' = "add" /\ quiet' /\ (StartSearch \/ StartNamed \/ TryFile)
    <2>1. UNCHANGED <<dev, hwdb, rules, tree, db, env, event, quiet, bare>>
      BY <1>6 DEF StartSearch, StartNamed, TryFile, systemVars, fileVars, udevVars, pastVars
    <2>2. Covered' = Covered /\ Ordinary' = Ordinary
      BY <2>1, SameFiles
    <2>3. Undisturbed' = Undisturbed
      BY <2>1 DEF Undisturbed
    <2>4. Undisturbed' /\ Ordinary' => InOrder'
      BY <1>6, <2>2, <2>3, OrderKept
    <2>5. env'.names = Covered'
      BY <1>6, <2>1, <2>2 DEF BestInv
    <2>6. QED
      BY <1>1, <1>2, <1>3, <2>4, <2>5 DEF BestInv
  <1>7. QED
    BY <1>4, <1>5, <1>6
    DEF SelectionNext, EventDone, RemoveEvent, Add, AddMatching, CmdRemove, ChangeFile,
        UpdateHwdb, Install, RemoveRule, Change

LEMMA OrderIsBest ==
  ASSUME Numbered, hwdb \subseteq Name, NEW S, Searched(S, {}),
         NotInstalled(loaded) = {p \in S : ~TakesAway(p.name)}
  PROVE  {p.name : p \in NotInstalled(loaded)} = {n \in Name : Best(n) /\ ~TakesAway(n)}
  <1> DEFINE Group(n) == {o \in Wanted : /\ o.stem = n.stem
                                         /\ \E p \in FirstMatching(o) : Runs(p)
                                         /\ ~(o \in Fixup /\ FixedUpBefore(o))}
  <1>1. Wanted \subseteq Name
    BY DEF Wanted
  <1>2. \A n : Best(n) <=> n \in Group(n) /\ \A o \in Group(n) : Version(o) <= Version(n)
    BY DEF Best
  <1>3. \A n : FixedUpBefore(n) <=> \E r \in S : r.name \in Fixup /\ r.name.stem < n.stem
    BY SelectionAssumption DEF FixedUpBefore, NotInstalled, TakesAway
  <1>4. \A q : Suits(q, S) <=> Runs(q) /\ ~(q.name \in Fixup /\ FixedUpBefore(q.name))
    BY <1>3 DEF Suits
  <1>5. \A n : \A o \in Group(n) :
          \E q \in ForDevice : Suits(q, S) /\ q.name = o /\ o.stem = n.stem
    BY <1>4, ForDeviceIs
  <1>6. \A q \in ForDevice : \A n : Suits(q, S) /\ q.name.stem = n.stem => q.name \in Group(n)
    BY <1>4, ForDeviceIs
  <1>7. \A n \in Name : Version(n) \in Int
    BY DEF Numbered
  <1> HIDE DEF Group
  <1>8. ASSUME NEW p \in S, NEW q \in ForDevice, Suits(q, S), q.name.stem = p.name.stem,
               q.name # p.name
        PROVE  Version(q.name) < Version(p.name)
    <2>1. Before(p.name, q.name)
      BY <1>8 DEF Searched
    <2>2. p.name \in Name /\ q.name \in Name
      BY <1>1, ForDeviceIs DEF Searched
    <2>3. ~(p.name.stem < q.name.stem)
      BY <1>8, <2>2, SelectionAssumption
    <2>4. Dict(q.name.num, p.name.num)
      BY <2>1, <2>3 DEF Before
    <2>5. QED
      BY <1>8, <2>2, <2>4 DEF Numbered
  <1>9. ASSUME NEW p \in S
        PROVE  p.name \in Name /\ Best(p.name)
    <2>1. p \in ForDevice /\ Suits(p, S) /\ p.name \in Name
      BY <1>1, ForDeviceIs DEF Searched
    <2>2. p.name \in Group(p.name)
      BY <1>6, <2>1
    <2>3. ASSUME NEW o \in Group(p.name) PROVE Version(o) <= Version(p.name)
      <3>1. PICK q \in ForDevice : Suits(q, S) /\ q.name = o /\ o.stem = p.name.stem
        BY <1>5
      <3>2. o \in Name
        BY <1>1, <3>1, ForDeviceIs
      <3>3. o = p.name \/ Version(o) < Version(p.name)
        BY <1>8, <3>1
      <3>4. QED
        BY <1>7, <2>1, <3>2, <3>3
    <2>4. QED
      BY <1>2, <2>1, <2>2, <2>3
  <1>10. ASSUME NEW n \in Name, Best(n)
         PROVE  \E p \in S : p.name = n
    <2>1. PICK q \in ForDevice : Suits(q, S) /\ q.name = n
      BY <1>2, <1>5, <1>10
    <2>2. PICK p \in S : p.name.stem = n.stem
      BY <2>1 DEF Searched
    <2>3. p.name \in Name /\ p.name \in Group(n)
      BY <1>1, <1>6, <2>2, ForDeviceIs DEF Searched
    <2>4. Version(p.name) <= Version(n)
      BY <1>2, <1>10, <2>3
    <2>5. p.name # n => Version(n) < Version(p.name)
      BY <1>8, <2>1, <2>2
    <2>6. QED
      BY <1>7, <2>2, <2>3, <2>4, <2>5
  <1>11. QED
    BY <1>9, <1>10

\* Whatever the files, directories and patterns are, an undisturbed add event loads of
\* every group the file with the highest number that is for the device and runs, as
\* long as dictionary order is the order of the numbers (sort_by_stem, load_bpf_files):
\* but no fixup beside one of an earlier group, and installed files may take maps away.
THEOREM BestIsLoaded ==
  ASSUME Numbered
  PROVE  Spec => []LoadsTheBest
  <1>1. Init => BestInv
    <2> SUFFICES ASSUME SelectionInit PROVE BestInv
      BY DEF Init
    <2>1. Last(Dirs) \in Range(Dirs)
      BY SelectionAssumption DEF Last, Range
    <2>2. tree \subseteq Path
      BY <2>1 DEF SelectionInit, Path
    <2>3. hwdb \subseteq Name
      BY <2>2 DEF SelectionInit, Packaged, Path
    <2>4. QED
      BY <2>2, <2>3 DEF SelectionInit, BestInv, Undisturbed
  <1>2. ASSUME BestInv, [Next]_vars
        PROVE  BestInv'
    <2>1. CASE UNCHANGED selectionVars
      <3>1. /\ UNCHANGED <<dev, hwdb, rules, tree, db, env, event, quiet, bare>>
            /\ UNCHANGED <<jobs, todo, loaded>>
        BY <2>1 DEF selectionVars
      <3>2. /\ UNCHANGED <<Covered, Ruled, Ordinary, ForDevice>>
            /\ \A n : TakesAway(n)' = TakesAway(n)
            /\ \A S, T : Searched(S, T)' = Searched(S, T)
        BY <3>1, SameFiles
      <3>3. UNCHANGED <<Searching, Installing, Undisturbed>> /\ \A n : Gone(n)' = Gone(n)
        BY <3>1, <3>2 DEF Searching, Installing, Undisturbed, Gone, InEtc, NotInstalled
      <3>4. UNCHANGED <<NotInstalled(todo), NotInstalled(loaded)>>
        BY <3>1 DEF NotInstalled
      <3>5. UNCHANGED InOrder
        BY <3>1, <3>2, <3>3, <3>4 DEF InOrder
      <3>6. QED
        BY <1>2, <3>1, <3>2, <3>3, <3>5 DEF BestInv
    <2>2. QED
      BY <1>2, <2>1, BestStep, PartsAreApart
  <1>3. BestInv => LoadsTheBest
    <2>1. ASSUME BestInv, Undisturbed, Ordinary, Over
          PROVE  {p.name : p \in NotInstalled(loaded)} = {n \in Name : Best(n) /\ ~TakesAway(n)}
      <3>1. jobs = {} /\ todo = {} /\ InOrder /\ hwdb \subseteq Name
        BY <2>1 DEF BestInv, Over
      <3>2. PICK S \in SUBSET ForDevice :
              /\ Searched(S, NotInstalled(todo))
              /\ NotInstalled(loaded) = {p \in S : ~Gone(p.name)}
        BY <3>1 DEF InOrder
      <3>3. NotInstalled(todo) = {} /\ \A n : Gone(n) <=> TakesAway(n)
        BY <3>1 DEF NotInstalled, Gone
      <3>4. NotInstalled(loaded) = {p \in S : ~TakesAway(p.name)}
        BY <3>2, <3>3
      <3>5. QED
        BY <2>1, <3>1, <3>2, <3>3, <3>4, OrderIsBest
    <2>2. QED
      BY <2>1 DEF LoadsTheBest, Undisturbed, Ordinary, NotInstalled
  <1>4. QED
    BY <1>1, <1>2, <1>3, PTL DEF Spec

-----------------------------------------------------------------------------
(* PropertyInjection: strings                                              *)

LEMMA ArrayIsSeq ==
  ASSUME NEW S, NEW m \in Nat, NEW f \in [1..m -> S]
  PROVE  f \in Seq(S) /\ Len(f) = m
  <1>1. f \in Seq(S)
    BY SeqDef
  <1>2. Len(f) \in Nat /\ DOMAIN f = 1..Len(f) /\ DOMAIN f = 1..m
    BY <1>1, LenProperties
  <1>3. QED
    BY <1>1, <1>2

LEMMA StringIs ==
  ASSUME NEW c \in Char, NEW n \in Nat
  PROVE  /\ String(c, n) \in Seq(Char) /\ Len(String(c, n)) = n
         /\ \A i \in 1..n : String(c, n)[i] = c
  <1>1. String(c, n) \in [1..n -> Char]
    BY DEF String
  <1>2. QED
    BY <1>1, ArrayIsSeq DEF String

\* A string is what precedes the first NUL.
LEMMA Shown ==
  ASSUME NEW b \in Seq(Char), NEW i \in Nat, i >= 1, NEW s \in Seq(Char),
         i + Len(s) <= Len(b), b[i + Len(s)] = NUL,
         \A k \in 1..Len(s) : b[i + k - 1] = s[k] /\ s[k] # NUL
  PROVE  StringAt(b, i) = s
  <1> DEFINE e == i + Len(s)
             Ends == {j \in i..Len(b) : b[j] = NUL} \cup {Len(b) + 1}
  <1>1. Len(s) \in Nat /\ Len(b) \in Nat
    BY LenProperties
  <1>2. e \in Nat /\ i <= e /\ e <= Len(b)
    BY <1>1
  <1>3. e \in Ends
    BY <1>2
  <1>4. \A j \in Ends : e <= j
    <2>1. \A j \in i..(e - 1) : b[j] # NUL
      <3>1. \A j \in i..(e - 1) : j - i + 1 \in 1..Len(s) /\ i + (j - i + 1) - 1 = j
        BY <1>1
      <3>2. QED
        BY <3>1
    <2> HIDE DEF e
    <2>2. QED
      BY <1>1, <1>2, <2>1
  <1>5. \A j \in Ends : j \in Nat
    BY <1>1
  <1> HIDE DEF Ends
  <1>6. (CHOOSE j \in Ends : \A k \in Ends : j <= k) = e
    <2>1. \A j \in Ends : (\A k \in Ends : j <= k) => j = e
      BY <1>2, <1>3, <1>4, <1>5
    <2>2. QED
      BY <1>3, <1>4, <2>1
  <1>7. StringAt(b, i) = SubSeq(b, i, e - 1)
    BY <1>6 DEF StringAt, Ends
  <1>8. SubSeq(b, i, e - 1) = s
    <2>1. \A j \in i..(e - 1) : b[j] \in Char
      BY <1>1, <1>2, ElementOfSeq
    <2>2. e - 1 \in Int /\ (e - 1) - i + 1 = Len(s) /\ (i <= e - 1 \/ Len(s) = 0)
      BY <1>1, <1>2
    <2> HIDE DEF e
    <2>3. /\ SubSeq(b, i, e - 1) \in Seq(Char)
          /\ Len(SubSeq(b, i, e - 1)) = IF i <= e - 1 THEN (e - 1) - i + 1 ELSE 0
          /\ \A k \in 1..((e - 1) - i + 1) : SubSeq(b, i, e - 1)[k] = b[i + k - 1]
      BY <2>1, <2>2, SubSeqProperties
    <2>4. Len(SubSeq(b, i, e - 1)) = Len(s)
      BY <2>2, <2>3
    <2>5. \A k \in 1..Len(s) : SubSeq(b, i, e - 1)[k] = s[k]
      BY <2>2, <2>3
    <2>6. QED
      BY <2>3, <2>4, <2>5, SeqEqual
  <1>9. QED
    BY <1>7, <1>8

-----------------------------------------------------------------------------
(* PropertyInjection: values                                               *)

\* What a device, a command line and an object may be.
Opened ==
  /\ sizes \in [Property -> Sizes] /\ offset \in Layouts(sizes)
  /\ device \in [Property -> Given("device")]
  /\ options \in Options
  /\ preset \in BOOLEAN
  /\ writes \in Given("probe")

Strings == {String(c, n) : c \in Char \ {NUL}, n \in Lengths}

LEMMA StringsAre ==
  ASSUME NEW v \in Strings
  PROVE  /\ v \in Seq(Char) /\ Len(v) \in Nat /\ v # Nothing
         /\ \A i \in 1..Len(v) : v[i] # NUL
  <1>1. PICK c \in Char \ {NUL}, n \in Lengths : v = String(c, n)
    BY DEF Strings
  <1>2. n \in Nat
    BY InjectionAssumption
  <1>3. v \in Seq(Char) /\ Len(v) = n /\ \A i \in 1..n : v[i] = c
    BY <1>1, <1>2, StringIs
  <1>4. Len(Nothing) = 1 /\ Nothing[1] = NUL
    BY DEF Nothing
  <1>5. v # Nothing
    BY <1>1, <1>3, <1>4
  <1>6. QED
    BY <1>1, <1>2, <1>3, <1>5

LEMMA OptionsAre ==
  ASSUME NEW O \in Options
  PROVE  /\ DOMAIN O \in {{}, {1}, {1, 2}}
         /\ \A i \in DOMAIN O : O[i].value \in Strings
  <1>1. \A o : o \in Option("option") \/ o \in Option("later") => o.value \in Strings
    BY DEF Option, Strings, Char, NUL
  <1>2. CASE O = <<>>
    BY <1>2
  <1>3. ASSUME NEW o \in Option("option"), O = <<o>>
        PROVE  DOMAIN O = {1} /\ \A i \in DOMAIN O : O[i].value \in Strings
    BY <1>1, <1>3
  <1>4. ASSUME NEW o \in Option("option"), NEW l \in Option("later"), O = <<o, l>>
        PROVE  DOMAIN O = {1, 2} /\ \A i \in DOMAIN O : O[i].value \in Strings
    BY <1>1, <1>4
  <1>5. QED
    BY <1>2, <1>3, <1>4 DEF Options

\* The first option of a name is what it is meant to be.
LEMMA ValueIsMeant ==
  ASSUME Opened, NEW p \in Property
  PROVE  /\ ValueOf(p) = Meant(p)
         /\ Meant(p) \in Strings \cup {Nothing}
  <1> DEFINE On == {i \in DOMAIN options : options[i].name = p}
             First == {i \in DOMAIN options :
                         options[i].name = p /\ \A j \in 1..(i - 1) : options[j].name # p}
  <1>1. /\ DOMAIN options \in {{}, {1}, {1, 2}}
        /\ \A i \in DOMAIN options : options[i].value \in Strings
    BY OptionsAre DEF Opened
  <1>2. device[p] \in Strings \cup {Nothing}
    BY DEF Opened, Given, Strings, Char, NUL
  <1>3. 1..(1 - 1) = {} /\ 1..(2 - 1) = {1}
    OBVIOUS
  <1>4. \/ On = {} /\ First = {}
        \/ 1 \in On /\ On \subseteq {1, 2} /\ First = {1}
        \/ On = {2} /\ First = {2}
    BY <1>1, <1>3
  <1>5. On \subseteq DOMAIN options
    OBVIOUS
  <1>6. /\ ValueOf(p) = IF On = {} THEN device[p]
                        ELSE options[CHOOSE i \in On : \A j \in On : i <= j].value
        /\ Meant(p) = IF First = {} THEN device[p]
                      ELSE options[CHOOSE i \in First : TRUE].value
    BY Zenon DEF ValueOf, Meant
  <1> HIDE DEF On, First
  <1>7. On # {} => /\ (CHOOSE i \in On : \A j \in On : i <= j) = (CHOOSE i \in First : TRUE)
                   /\ (CHOOSE i \in First : TRUE) \in On
    <2>1. ASSUME NEW k \in {1, 2}, k \in On, First = {k}, \A j \in On : k <= j /\ j \in {1, 2}
          PROVE  /\ (CHOOSE i \in On : \A j \in On : i <= j) = k
                 /\ (CHOOSE i \in First : TRUE) = k
      <3>1. \A i \in On : (\A j \in On : i <= j) => i = k
        BY <2>1
      <3>2. QED
        BY <2>1, <3>1
    <2>2. QED
      BY <1>4, <2>1
  <1>8. QED
    BY <1>1, <1>2, <1>4, <1>5, <1>6, <1>7

-----------------------------------------------------------------------------
(* PropertyInjection: the steps                                            *)

\* The section and the map, as each step leaves them.
Injected ==
  [k \in 1..Room |->
     IF Written(k) THEN ValueOf(Writer(k))[k - offset[Writer(k)]] ELSE Section[k]]

EmptySlot == String(NUL, sizes[Exported])
SlotInjected ==
  IF Fits(Exported)
  THEN [k \in 1..sizes[Exported] |-> IF k <= Len(ValueOf(Exported))
                                     THEN ValueOf(Exported)[k] ELSE NUL]
  ELSE EmptySlot
SlotProbed ==
  IF writes = Nothing THEN SlotInjected
  ELSE [k \in 1..sizes[Exported] |->
          IF k <= Len(writes) /\ k < sizes[Exported] THEN writes[k]
          ELSE IF k <= Len(writes) + 1 THEN NUL ELSE SlotInjected[k]]

InjectionInv ==
  /\ injection \in {"open", "inject", "probe", "read", "done"}
  /\ injection # "open" => Opened
  /\ injection = "inject" => memory = Section /\ slot = EmptySlot
  /\ injection \in {"probe", "read", "done"} => memory = Injected
  /\ injection = "probe" => slot = SlotInjected
  /\ injection \in {"read", "done"} => slot = SlotProbed
  /\ injection = "done" => printed = SlotValue

LEMMA SameObject ==
  ASSUME UNCHANGED <<sizes, offset, device, options, preset, writes>>
  PROVE  UNCHANGED <<Opened, Injected, SlotInjected, SlotProbed>>
  <1>1. \A p : ValueOf(p)' = ValueOf(p)
    BY DEF ValueOf
  <1>2. \A p : Fits(p)' = Fits(p)
    BY <1>1 DEF Fits
  <1>3. Section' = Section
    BY DEF Section, Within
  <1>4. Injected' = Injected
    <2>1. \A p, k : CopiedTo(p, k)' = CopiedTo(p, k)
      BY <1>1, <1>2, Zenon DEF CopiedTo
    <2>2. \A k : Written(k)' = Written(k) /\ Writer(k)' = Writer(k)
      BY <2>1, Zenon DEF Written, Writer
    <2>3. QED
      BY <1>1, <1>3, <2>2 DEF Injected
  <1>5. SlotInjected' = SlotInjected
    BY <1>1, <1>2 DEF SlotInjected, EmptySlot
  <1>6. SlotProbed' = SlotProbed
    BY <1>5 DEF SlotProbed
  <1>7. Opened' = Opened
    BY DEF Opened
  <1>8. QED
    BY <1>4, <1>5, <1>6, <1>7

\* The map, and what it holds after each step, has the size of the map.
LEMMA SlotsAre ==
  ASSUME Opened
  PROVE  /\ sizes[Exported] \in Nat \ {0}
         /\ EmptySlot \in Seq(Char) /\ Len(EmptySlot) = sizes[Exported]
         /\ SlotInjected \in Seq(Char) /\ Len(SlotInjected) = sizes[Exported]
         /\ SlotProbed \in Seq(Char) /\ Len(SlotProbed) = sizes[Exported]
  <1> DEFINE m == sizes[Exported]
             v == ValueOf(Exported)
  <1>1. m \in Nat \ {0} /\ NUL \in Char
    BY InjectionAssumption DEF Opened, Property, Char
  <1>2. EmptySlot \in Seq(Char) /\ Len(EmptySlot) = m
    BY <1>1, StringIs DEF EmptySlot
  <1>3. SlotInjected \in [1..m -> Char]
    <2>1. EmptySlot \in [1..m -> Char]
      BY <1>1 DEF EmptySlot, String
    <2>2. v \in Strings \cup {Nothing}
      BY ValueIsMeant DEF Property
    <2>3. ASSUME Fits(Exported) PROVE v \in Seq(Char) /\ Len(v) \in Nat
      BY <2>2, <2>3, StringsAre DEF Fits
    <2>4. ASSUME Fits(Exported)
          PROVE  [k \in 1..m |-> IF k <= Len(v) THEN v[k] ELSE NUL] \in [1..m -> Char]
      <3>1. \A k \in 1..Len(v) : v[k] \in Char
        BY <2>3, <2>4, ElementOfSeq
      <3>2. \A k \in 1..m : k <= Len(v) => k \in 1..Len(v)
        BY <1>1, <2>3, <2>4
      <3>3. QED
        BY <1>1, <3>1, <3>2
    <2>5. QED
      BY <2>1, <2>4 DEF SlotInjected
  <1>4. SlotProbed \in [1..m -> Char]
    <2>1. writes # Nothing => writes \in Strings
      BY DEF Opened, Given, Strings, Char, NUL
    <2>2. ASSUME writes # Nothing PROVE writes \in Seq(Char) /\ Len(writes) \in Nat
      BY <2>1, <2>2, StringsAre
    <2>3. ASSUME writes # Nothing
          PROVE  [k \in 1..m |->
                    IF k <= Len(writes) /\ k < m THEN writes[k]
                    ELSE IF k <= Len(writes) + 1 THEN NUL ELSE SlotInjected[k]] \in [1..m -> Char]
      <3>1. \A k \in 1..Len(writes) : writes[k] \in Char
        BY <2>2, <2>3, ElementOfSeq
      <3>2. \A k \in 1..m : k <= Len(writes) => k \in 1..Len(writes)
        BY <1>1, <2>2, <2>3
      <3>3. QED
        BY <1>1, <1>3, <3>1, <3>2
    <2>4. QED
      BY <1>3, <2>3 DEF SlotProbed
  <1>5. QED
    BY <1>1, <1>2, <1>3, <1>4, ArrayIsSeq

LEMMA InjectionStep ==
  ASSUME InjectionInv, InjectionNext
  PROVE  InjectionInv'
  <1>1. CASE Open
    <2>1. Opened'
      BY <1>1 DEF Open, Opened
    <2>2. injection' = "inject" /\ memory' = Section' /\ slot' = EmptySlot'
      BY <1>1 DEF Open, EmptySlot
    <2>3. QED
      BY <2>1, <2>2 DEF InjectionInv
  <1>2. CASE Inject \/ Probe \/ Read
    <2>1. UNCHANGED <<sizes, offset, device, options, preset, writes>> /\ Opened
      BY <1>2 DEF Inject, Probe, Read, InjectionInv
    <2>2. UNCHANGED <<Opened, Injected, SlotInjected, SlotProbed>>
      BY <2>1, SameObject
    <2>3. CASE Inject
      <3>1. memory = Section /\ slot = EmptySlot
        BY <2>3 DEF Inject, InjectionInv
      <3>2. DOMAIN memory = 1..Room /\ DOMAIN slot = 1..sizes[Exported]
        BY <3>1 DEF Section, EmptySlot, String
      <3>3. memory' = Injected
        BY <2>3, <3>1, <3>2 DEF Inject, Injected
      <3>4. slot' = SlotInjected
        BY <2>3, <3>1, <3>2 DEF Inject, SlotInjected
      <3>5. injection' = "probe"
        BY <2>3 DEF Inject
      <3>6. QED
        BY <2>1, <2>2, <3>3, <3>4, <3>5 DEF InjectionInv
    <2>4. CASE Probe
      <3>1. slot = SlotInjected /\ Len(slot) = sizes[Exported] /\ DOMAIN slot = 1..sizes[Exported]
        BY <2>1, <2>4, SlotsAre, LenProperties DEF Probe, InjectionInv
      <3>2. slot' = SlotProbed
        BY <2>4, <3>1 DEF Probe, SlotProbed
      <3>3. injection' = "read" /\ memory' = memory /\ memory = Injected
        BY <2>4 DEF Probe, InjectionInv
      <3>4. QED
        BY <2>1, <2>2, <3>2, <3>3 DEF InjectionInv
    <2>5. CASE Read
      <3>1. printed' = SlotValue /\ UNCHANGED <<memory, slot>> /\ injection' = "done"
        BY <2>5 DEF Read
      <3>2. memory = Injected /\ slot = SlotProbed
        BY <2>5 DEF Read, InjectionInv
      <3>3. printed' = SlotValue'
        BY <3>1 DEF SlotValue, StringAt
      <3>4. QED
        BY <2>1, <2>2, <3>1, <3>2, <3>3 DEF InjectionInv
    <2>6. QED
      BY <1>2, <2>3, <2>4, <2>5
  <1>3. QED
    BY <1>1, <1>2 DEF InjectionNext

LEMMA InjectionInvariance == Spec => []InjectionInv
  <1>1. Init => InjectionInv
    BY DEF Init, InjectionInit, InjectionInv
  <1>2. ASSUME InjectionInv, [Next]_vars
        PROVE  InjectionInv'
    <2>1. CASE UNCHANGED injectionVars
      <3>1. /\ UNCHANGED <<sizes, offset, device, options, preset, writes>>
            /\ UNCHANGED <<memory, slot, printed, injection>>
        BY <2>1 DEF injectionVars
      <3>2. UNCHANGED <<Opened, Injected, SlotInjected, SlotProbed>>
        BY <3>1, SameObject
      <3>3. UNCHANGED <<Section, EmptySlot, SlotValue>>
        BY <3>1 DEF Section, Within, EmptySlot, String, SlotValue, StringAt
      <3>4. QED
        BY <1>2, <3>1, <3>2, <3>3 DEF InjectionInv
    <2>2. QED
      BY <1>2, <2>1, InjectionStep, PartsAreApart
  <1>3. QED
    BY <1>1, <1>2, PTL DEF Spec

-----------------------------------------------------------------------------
(* PropertyInjection: what udev is told                                    *)

\* The beginning of a string of C.
LEMMA Beginning ==
  ASSUME NEW v \in Strings, NEW e \in Nat, e <= Len(v)
  PROVE  /\ SubSeq(v, 1, e) \in Seq(Char) /\ Len(SubSeq(v, 1, e)) = e
         /\ \A k \in 1..e : SubSeq(v, 1, e)[k] = v[k] /\ v[k] # NUL
  <1>1. v \in Seq(Char) /\ Len(v) \in Nat /\ \A k \in 1..Len(v) : v[k] # NUL /\ v[k] \in Char
    BY StringsAre, ElementOfSeq
  <1>2. \A k \in 1..e : v[k] \in Char /\ v[k] # NUL
    BY <1>1
  <1>3. /\ SubSeq(v, 1, e) \in Seq(Char)
        /\ Len(SubSeq(v, 1, e)) = IF 1 <= e THEN e - 1 + 1 ELSE 0
        /\ \A k \in 1..(e - 1 + 1) : SubSeq(v, 1, e)[k] = v[1 + k - 1]
    BY <1>2, SubSeqProperties
  <1>4. e - 1 + 1 = e /\ \A k \in 1..e : 1 + k - 1 = k
    OBVIOUS
  <1>5. QED
    BY <1>2, <1>3, <1>4

LEMMA WhatIsTold ==
  ASSUME Opened, NEW m, m = sizes[Exported], NEW v, v = ValueOf(Exported)
  PROVE  StringAt(SlotProbed, 1) =
           IF writes # Nothing
           THEN SubSeq(writes, 1, IF Len(writes) < m THEN Len(writes) ELSE m - 1)
           ELSE IF v # Nothing /\ Len(v) < m THEN v ELSE <<>>
  <1>1. /\ m \in Nat \ {0}
        /\ SlotProbed \in Seq(Char) /\ Len(SlotProbed) = m
        /\ SlotInjected \in Seq(Char) /\ Len(SlotInjected) = m
    BY SlotsAre
  <1>2. CASE writes # Nothing
    <2> DEFINE n == Len(writes)
               e == IF n < m THEN n ELSE m - 1
               s == SubSeq(writes, 1, e)
    <2>1. writes \in Strings
      BY <1>2 DEF Opened, Given, Strings, Char, NUL
    <2>2. n \in Nat
      BY <2>1, StringsAre
    <2>3. e \in Nat /\ e <= n /\ 1 + e <= m /\ (1 + e = n + 1 \/ (1 + e = m /\ 1 + e <= n))
      BY <1>1, <2>2
    <2>4. s \in Seq(Char) /\ Len(s) = e /\ \A k \in 1..e : s[k] = writes[k] /\ writes[k] # NUL
      BY <2>1, <2>3, Beginning
    <2>5. SlotProbed = [k \in 1..m |->
            IF k <= n /\ k < m THEN writes[k] ELSE IF k <= n + 1 THEN NUL ELSE SlotInjected[k]]
      BY <1>2 DEF SlotProbed
    <2> HIDE DEF n, e, s
    <2>6. SlotProbed[1 + e] = NUL
      <3>1. 1 + e \in 1..m /\ ~(1 + e <= n /\ 1 + e < m) /\ 1 + e <= n + 1
        BY <1>1, <2>2, <2>3
      <3>2. QED
        BY <2>5, <3>1
    <2>7. \A k \in 1..e : SlotProbed[1 + k - 1] = s[k] /\ s[k] # NUL
      <3>1. \A k \in 1..e : k \in 1..m /\ k <= n /\ k < m /\ 1 + k - 1 = k
        BY <1>1, <2>2, <2>3
      <3>2. QED
        BY <2>4, <2>5, <3>1
    <2>8. StringAt(SlotProbed, 1) = s
      BY <1>1, <2>3, <2>4, <2>6, <2>7, Shown
    <2>9. QED
      BY <1>2, <2>8 DEF s, e, n
  <1>3. CASE writes = Nothing /\ v # Nothing /\ Len(v) < m
    <2>1. v \in Strings
      BY <1>3, ValueIsMeant DEF Property
    <2>2. v \in Seq(Char) /\ Len(v) \in Nat /\ \A k \in 1..Len(v) : v[k] # NUL
      BY <2>1, StringsAre
    <2>3. SlotProbed = [k \in 1..m |-> IF k <= Len(v) THEN v[k] ELSE NUL]
      BY <1>3 DEF SlotProbed, SlotInjected, Fits
    <2>4. 1 + Len(v) \in 1..m /\ ~(1 + Len(v) <= Len(v))
      BY <1>1, <1>3, <2>2
    <2>5. \A k \in 1..Len(v) : k \in 1..m /\ k <= Len(v) /\ 1 + k - 1 = k
      BY <1>1, <1>3, <2>2
    <2>6. SlotProbed[1 + Len(v)] = NUL /\ \A k \in 1..Len(v) : SlotProbed[1 + k - 1] = v[k]
      BY <2>3, <2>4, <2>5
    <2>7. StringAt(SlotProbed, 1) = v
      BY <1>1, <2>2, <2>4, <2>6, Shown
    <2>8. QED
      BY <1>3, <2>7
  <1>4. CASE writes = Nothing /\ ~(v # Nothing /\ Len(v) < m)
    <2>1. SlotProbed = EmptySlot
      BY <1>4 DEF SlotProbed, SlotInjected, Fits
    <2>2. SlotProbed[1] = NUL
      BY <1>1, <2>1 DEF EmptySlot, String
    <2>3. PICK s \in Seq(Char) : s = <<>> /\ Len(s) = 0
      BY EmptySeq
    <2>4. StringAt(SlotProbed, 1) = s
      <3>1. 1 + Len(s) = 1 /\ 1 <= m /\ 1..Len(s) = {}
        BY <1>1, <2>3
      <3>2. QED
        BY <1>1, <2>2, <3>1, Shown
    <2>5. QED
      BY <1>4, <2>3, <2>4, Zenon
  <1>5. QED
    BY <1>2, <1>3, <1>4

\* Whatever the sizes and the values, udev is told what probe() has written or what was
\* injected, cut to the map, and nothing of what was there before.
THEOREM ExportsAreTold == Spec => []ExportsShow
  <1>1. InjectionInv => ExportsShow
    <2>1. SUFFICES ASSUME InjectionInv, injection = "done" PROVE ExportsShow
      BY DEF ExportsShow
    <2>2. Opened /\ slot = SlotProbed /\ printed = StringAt(slot, 1)
      BY <2>1 DEF InjectionInv, SlotValue
    <2>3. ValueOf(Exported) = Meant(Exported)
      BY <2>2, ValueIsMeant DEF Property
    <2>4. printed =
            IF writes # Nothing
            THEN SubSeq(writes, 1, IF Len(writes) < sizes[Exported] THEN Len(writes)
                                   ELSE sizes[Exported] - 1)
            ELSE IF Meant(Exported) # Nothing /\ Len(Meant(Exported)) < sizes[Exported]
            THEN Meant(Exported) ELSE <<>>
      BY <2>2, <2>3, WhatIsTold
    <2>5. QED
      BY <2>4 DEF ExportsShow
  <1>2. QED
    BY <1>1, InjectionInvariance, PTL

-----------------------------------------------------------------------------
(* PropertyInjection: what a program sees                                  *)

LEMMA PlacesAre ==
  ASSUME Opened, NEW p \in Variables
  PROVE  /\ sizes[p] \in Nat /\ sizes[p] >= 1
         /\ offset[p] \in Nat /\ offset[p] + sizes[p] <= Room
         /\ \A q \in Variables \ {p} :
              offset[p] + sizes[p] <= offset[q] \/ offset[q] + sizes[q] <= offset[p]
  <1>1. sizes[p] \in Nat \ {0}
    BY InjectionAssumption DEF Opened, Property
  <1>2. /\ offset \in [Variables -> 0..Room]
        /\ \A r \in Variables :
             /\ offset[r] + sizes[r] <= Room
             /\ \A q \in Variables \ {r} :
                  offset[r] + sizes[r] <= offset[q] \/ offset[q] + sizes[q] <= offset[r]
    BY DEF Opened, Layouts
  <1>3. offset[p] \in Nat
    BY <1>2, InjectionAssumption
  <1>4. QED
    BY <1>1, <1>2, <1>3

LEMMA Apart ==
  ASSUME Opened, NEW p \in Variables, NEW q \in Variables, NEW k \in Int,
         Within(p, k), Within(q, k)
  PROVE  p = q
  <1>1. /\ offset[p] \in Nat /\ sizes[p] \in Nat /\ offset[q] \in Nat /\ sizes[q] \in Nat
        /\ p # q => offset[p] + sizes[p] <= offset[q] \/ offset[q] + sizes[q] <= offset[p]
    BY PlacesAre
  <1>2. /\ offset[p] < k /\ k <= offset[p] + sizes[p]
        /\ offset[q] < k /\ k <= offset[q] + sizes[q]
    BY DEF Within
  <1>3. QED
    BY <1>1, <1>2

LEMMA CopiedWithin ==
  ASSUME Opened, NEW p \in Variables, NEW k \in Int, CopiedTo(p, k)
  PROVE  Within(p, k)
  <1>1. ValueOf(p) \in Strings
    BY ValueIsMeant DEF CopiedTo, Fits, Property
  <1>2. Len(ValueOf(p)) \in Nat
    BY <1>1, StringsAre
  <1>3. QED
    BY <1>2, PlacesAre DEF CopiedTo, Fits, Within

\* The i-th byte of a variable.
LEMMA ByteOf ==
  ASSUME Opened, NEW p \in Variables, NEW i \in Nat, 1 <= i, i <= sizes[p]
  PROVE  /\ offset[p] + i \in 1..Room
         /\ Injected[offset[p] + i] =
              IF Fits(p) /\ i <= Len(ValueOf(p)) THEN ValueOf(p)[i]
              ELSE IF preset /\ i < sizes[p] THEN "preset" ELSE NUL
  <1> DEFINE k == offset[p] + i
  <1>1. k \in 1..Room /\ k \in Int /\ k - offset[p] = i
    BY PlacesAre, InjectionAssumption
  <1>2. Within(p, k)
    BY PlacesAre DEF Within
  <1>3. CopiedTo(p, k) <=> Fits(p) /\ i <= Len(ValueOf(p))
    <2>1. ASSUME Fits(p) PROVE Len(ValueOf(p)) \in Nat
      BY <2>1, ValueIsMeant, StringsAre DEF Fits, Property
    <2>2. QED
      BY <2>1, PlacesAre DEF CopiedTo
  <1>4. k = offset[p] + sizes[p] <=> ~(i < sizes[p])
    BY PlacesAre
  <1> HIDE DEF k
  <1>5. \A q \in Variables : CopiedTo(q, k) => q = p
    BY <1>1, <1>2, CopiedWithin, Apart
  <1>6. \A q \in Variables : k = offset[q] + sizes[q] => q = p
    <2>1. ASSUME NEW q \in Variables, k = offset[q] + sizes[q] PROVE Within(q, k)
      BY <2>1, PlacesAre DEF Within
    <2>2. QED
      BY <1>1, <1>2, <2>1, Apart
  <1>7. CASE CopiedTo(p, k)
    <2>1. Written(k) /\ Writer(k) = p
      BY <1>5, <1>7 DEF Written, Writer
    <2>2. QED
      BY <1>1, <1>3, <1>7, <2>1 DEF Injected, k
  <1>8. CASE ~CopiedTo(p, k)
    <2>1. ~Written(k)
      BY <1>5, <1>8 DEF Written
    <2>2. Section[k] = IF preset /\ i < sizes[p] THEN "preset" ELSE NUL
      BY <1>1, <1>2, <1>4, <1>6 DEF Section
    <2>3. QED
      BY <1>1, <1>3, <1>8, <2>1, <2>2 DEF Injected, k
  <1>9. QED
    BY <1>7, <1>8

LEMMA AroundThem ==
  ASSUME Opened, NEW k \in 1..Room, \A p \in Variables : ~Within(p, k)
  PROVE  Injected[k] = "other"
  <1>1. k \in Int
    BY InjectionAssumption
  <1>2. ~Written(k)
    BY <1>1, CopiedWithin DEF Written
  <1>3. QED
    BY <1>2 DEF Injected, Section

LEMMA InjectedIsSeq ==
  ASSUME Opened
  PROVE  Injected \in Seq(Char) /\ Len(Injected) = Room
  <1>1. ASSUME NEW k \in 1..Room PROVE Injected[k] \in Char
    <2>1. CASE \A p \in Variables : ~Within(p, k)
      BY <2>1, AroundThem DEF Char
    <2>2. ASSUME NEW p \in Variables, Within(p, k) PROVE Injected[k] \in Char
      <3>1. PICK i \in Nat : i = k - offset[p] /\ 1 <= i /\ i <= sizes[p]
        BY <2>2, PlacesAre, InjectionAssumption DEF Within
      <3>2. k = offset[p] + i
        BY <3>1, PlacesAre, InjectionAssumption
      <3>3. ASSUME Fits(p), i <= Len(ValueOf(p)) PROVE ValueOf(p)[i] \in Char
        <4>1. ValueOf(p) \in Strings
          BY <3>3, ValueIsMeant DEF Fits, Property
        <4>2. ValueOf(p) \in Seq(Char) /\ i \in 1..Len(ValueOf(p))
          BY <3>1, <3>3, <4>1, StringsAre
        <4>3. QED
          BY <4>2, ElementOfSeq
      <3>4. "preset" \in Char /\ NUL \in Char
        BY DEF Char
      <3>5. QED
        BY <3>1, <3>2, <3>3, <3>4, ByteOf
    <2>3. QED
      BY <2>1, <2>2
  <1>2. Injected \in [1..Room -> Char]
    BY <1>1 DEF Injected
  <1>3. QED
    BY <1>2, ArrayIsSeq, InjectionAssumption

\* A variable of l bytes shows a string that its bytes begin with.
LEMMA ShownOf ==
  ASSUME Opened, NEW p \in Variables, NEW s \in Seq(Char), Len(s) < sizes[p],
         Injected[offset[p] + (Len(s) + 1)] = NUL,
         \A k \in 1..Len(s) : Injected[offset[p] + k] = s[k] /\ s[k] # NUL
  PROVE  StringAt(Injected, offset[p] + 1) = s
  <1> DEFINE i == offset[p] + 1
  <1>1. Injected \in Seq(Char) /\ Len(Injected) = Room /\ Len(s) \in Nat
    BY InjectedIsSeq, LenProperties
  <1>2. i \in Nat /\ i >= 1 /\ i + Len(s) <= Room /\ i + Len(s) = offset[p] + (Len(s) + 1)
    <2>1. /\ sizes[p] \in Nat /\ offset[p] \in Nat /\ offset[p] + sizes[p] <= Room
          /\ Room \in Nat
      BY PlacesAre, InjectionAssumption
    <2>2. QED
      BY <1>1, <2>1
  <1>3. \A k \in 1..Len(s) : i + k - 1 = offset[p] + k
    BY <1>1, PlacesAre
  <1> HIDE DEF i
  <1>4. StringAt(Injected, i) = s
    BY <1>1, <1>2, <1>3, Shown
  <1>5. QED
    BY <1>4 DEF i

Own(p) == IF preset THEN String("preset", sizes[p] - 1) ELSE <<>>

LEMMA OwnIs ==
  ASSUME Opened, NEW p \in Variables
  PROVE  /\ Own(p) \in Seq(Char)
         /\ Len(Own(p)) = IF preset THEN sizes[p] - 1 ELSE 0
         /\ \A k \in 1..Len(Own(p)) : Own(p)[k] = "preset"
  <1>1. CASE preset
    <2>1. sizes[p] - 1 \in Nat /\ "preset" \in Char
      BY PlacesAre DEF Char
    <2>2. QED
      BY <1>1, <2>1, StringIs DEF Own
  <1>2. CASE ~preset
    <2>1. PICK s \in Seq(Char) : s = <<>> /\ Len(s) = 0
      BY EmptySeq
    <2>2. Own(p) = s
      BY <1>2, <2>1 DEF Own
    <2>3. QED
      BY <1>2, <2>1, <2>2
  <1>3. QED
    BY <1>1, <1>2

\* What is left of the value of its own behind the first n bytes.
LEMMA RestOfOwn ==
  ASSUME Opened, NEW p \in Variables, NEW n \in Nat, n < sizes[p]
  PROVE  LET rest == SubSeq(Own(p), n + 1, Len(Own(p))) IN
         /\ rest \in Seq(Char)
         /\ Len(rest) = IF preset THEN sizes[p] - 1 - n ELSE 0
         /\ \A k \in 1..Len(rest) : rest[k] = "preset"
  <1> DEFINE l == Len(Own(p))
             rest == SubSeq(Own(p), n + 1, l)
  <1>1. /\ Own(p) \in Seq(Char) /\ l = (IF preset THEN sizes[p] - 1 ELSE 0) /\ l \in Nat
        /\ \A k \in 1..l : Own(p)[k] = "preset" /\ Own(p)[k] \in Char
    BY OwnIs, LenProperties, ElementOfSeq
  <1> HIDE DEF l
  <1>2. /\ rest \in Seq(Char)
        /\ Len(rest) = IF n + 1 <= l THEN l - (n + 1) + 1 ELSE 0
        /\ \A k \in 1..(l - (n + 1) + 1) : rest[k] = Own(p)[n + 1 + k - 1]
    <2>1. \A k \in (n + 1)..l : Own(p)[k] \in Char
      BY <1>1
    <2>2. QED
      BY <1>1, <2>1, SubSeqProperties
  <1> HIDE DEF rest
  <1>3. Len(rest) = IF preset THEN sizes[p] - 1 - n ELSE 0
    BY <1>1, <1>2, PlacesAre
  <1>4. \A k \in 1..Len(rest) : k \in 1..(l - (n + 1) + 1) /\ n + 1 + k - 1 \in 1..l
    BY <1>1, <1>2
  <1>5. \A k \in 1..Len(rest) : rest[k] = "preset"
    BY <1>1, <1>2, <1>4
  <1>6. QED
    BY <1>2, <1>3, <1>5 DEF rest, l

LEMMA VariableIs ==
  ASSUME Opened, NEW p \in Variables, NEW v, v = ValueOf(p)
  PROVE  StringAt(Injected, offset[p] + 1) =
           IF v = Nothing \/ Len(v) >= sizes[p] THEN Own(p)
           ELSE v \o SubSeq(Own(p), Len(v) + 1, Len(Own(p)))
  <1>1. /\ sizes[p] \in Nat /\ sizes[p] >= 1 /\ "preset" # NUL /\ v \in Strings \cup {Nothing}
    BY PlacesAre, ValueIsMeant DEF NUL, Property
  <1>2. v # Nothing => Len(v) \in Nat
    BY <1>1, StringsAre
  <1>3. CASE v = Nothing \/ Len(v) >= sizes[p]
    <2>1. ~Fits(p)
      BY <1>1, <1>2, <1>3 DEF Fits
    <2>2. /\ Own(p) \in Seq(Char) /\ Len(Own(p)) \in Nat
          /\ Len(Own(p)) = IF preset THEN sizes[p] - 1 ELSE 0
          /\ \A k \in 1..Len(Own(p)) : Own(p)[k] = "preset"
      BY OwnIs, LenProperties
    <2>3. \A k \in Nat : 1 <= k /\ k <= sizes[p] =>
            Injected[offset[p] + k] = IF preset /\ k < sizes[p] THEN "preset" ELSE NUL
      BY <2>1, ByteOf
    <2>4. /\ Len(Own(p)) < sizes[p] /\ Len(Own(p)) + 1 \in Nat
          /\ ~(preset /\ Len(Own(p)) + 1 < sizes[p])
          /\ \A k \in 1..Len(Own(p)) : k \in Nat /\ 1 <= k /\ k < sizes[p] /\ preset
      BY <1>1, <2>2
    <2>5. Injected[offset[p] + (Len(Own(p)) + 1)] = NUL
      BY <1>1, <2>3, <2>4
    <2>6. \A k \in 1..Len(Own(p)) : Injected[offset[p] + k] = Own(p)[k] /\ Own(p)[k] # NUL
      BY <1>1, <2>2, <2>3, <2>4
    <2>7. QED
      BY <1>3, <2>2, <2>4, <2>5, <2>6, ShownOf
  <1>4. CASE ~(v = Nothing \/ Len(v) >= sizes[p])
    <2> DEFINE n == Len(v)
               rest == SubSeq(Own(p), n + 1, Len(Own(p)))
               s == v \o rest
    <2>1. /\ Fits(p) /\ v \in Seq(Char) /\ n \in Nat /\ n < sizes[p]
          /\ \A k \in 1..n : v[k] # NUL
      BY <1>1, <1>2, <1>4, StringsAre DEF Fits
    <2>2. /\ rest \in Seq(Char) /\ Len(rest) \in Nat
          /\ Len(rest) = IF preset THEN sizes[p] - 1 - n ELSE 0
          /\ \A k \in 1..Len(rest) : rest[k] = "preset"
      BY <2>1, RestOfOwn, LenProperties
    <2> HIDE DEF rest
    <2>3. /\ s \in Seq(Char) /\ Len(s) = n + Len(rest)
          /\ \A k \in 1..(n + Len(rest)) : s[k] = IF k <= n THEN v[k] ELSE rest[k - n]
      BY <2>1, <2>2, ConcatProperties
    <2>4. \A k \in Nat : 1 <= k /\ k <= sizes[p] =>
            Injected[offset[p] + k] = IF k <= n THEN v[k]
                                      ELSE IF preset /\ k < sizes[p] THEN "preset" ELSE NUL
      BY <2>1, ByteOf
    <2> HIDE DEF s, n
    <2>5. /\ Len(s) < sizes[p] /\ Len(s) + 1 \in Nat /\ 1 <= Len(s) + 1 /\ Len(s) + 1 <= sizes[p]
          /\ ~(Len(s) + 1 <= n) /\ ~(preset /\ Len(s) + 1 < sizes[p])
      BY <1>1, <2>1, <2>2, <2>3
    <2>6. Injected[offset[p] + (Len(s) + 1)] = NUL
      BY <2>4, <2>5
    <2>7. ASSUME NEW k \in 1..Len(s)
          PROVE  Injected[offset[p] + k] = s[k] /\ s[k] # NUL
      <3>1. k \in 1..(n + Len(rest))
        BY <2>3, <2>7
      <3>2. k \in Nat /\ 1 <= k /\ k <= Len(s)
        BY <2>1, <2>2, <2>3, <3>1
      <3>3. k <= sizes[p] /\ k < sizes[p]
        <4>1. Len(s) \in Nat /\ Len(s) < sizes[p] /\ sizes[p] \in Nat
          BY <1>1, <2>1, <2>2, <2>3, <2>5
        <4>2. \A l, z \in Nat : k <= l /\ l < z => k <= z /\ k < z
          BY <3>2
        <4>3. QED
          BY <3>2, <4>1, <4>2
      <3>4. CASE k <= n
        BY <2>1, <2>3, <2>4, <3>1, <3>2, <3>3, <3>4
      <3>5. CASE ~(k <= n)
        <4>1. preset /\ k - n \in 1..Len(rest)
          BY <2>1, <2>2, <2>3, <3>1, <3>2, <3>5
        <4>2. s[k] = "preset"
          BY <2>2, <2>3, <3>1, <3>5, <4>1
        <4>3. QED
          BY <1>1, <2>4, <3>2, <3>3, <3>5, <4>1, <4>2
      <3>6. QED
        BY <3>4, <3>5
    <2>8. StringAt(Injected, offset[p] + 1) = s
      BY <2>3, <2>5, <2>6, <2>7, ShownOf
    <2>9. QED
      BY <1>4, <2>8 DEF s, rest, n
  <1>5. QED
    BY <1>3, <1>4

\* Whatever the layout of the section, the sizes and the values: every variable shows
\* what it should, and nothing around the variables is written over
\* (inject_udev_properties_in_array).
THEOREM VariablesAreShown == Spec => []VariablesShow
  <1>1. InjectionInv => VariablesShow
    <2>1. SUFFICES ASSUME InjectionInv, injection \in {"probe", "read", "done"}
                   PROVE  VariablesShow
      BY DEF VariablesShow
    <2>2. Opened /\ memory = Injected
      BY <2>1 DEF InjectionInv
    <2>3. ASSUME NEW k \in 1..Room, \A p \in Variables : ~Within(p, k)
          PROVE  memory[k] = "other"
      BY <2>2, <2>3, AroundThem
    <2>4. ASSUME NEW p \in Variables
          PROVE  StringAt(memory, offset[p] + 1) =
                   IF Meant(p) = Nothing \/ Len(Meant(p)) >= sizes[p] THEN Own(p)
                   ELSE Meant(p) \o SubSeq(Own(p), Len(Meant(p)) + 1, Len(Own(p)))
      <3>1. ValueOf(p) = Meant(p)
        BY <2>2, ValueIsMeant DEF Property
      <3>2. QED
        BY <2>2, <3>1, VariableIs
    <2>5. QED
      BY <2>3, <2>4 DEF VariablesShow, Own
  <1>2. QED
    BY <1>1, InjectionInvariance, PTL

-----------------------------------------------------------------------------
(* DescriptorLayout: the fields                                            *)

Positions(s, w) == [i \in 1..w |-> s + i - 1]

LEMMA PositionsAre ==
  ASSUME NEW s \in Nat, NEW w \in Nat
  PROVE  /\ Positions(s, w) \in Seq(Nat) /\ Len(Positions(s, w)) = w
         /\ \A i \in 1..w : Positions(s, w)[i] = s + i - 1
         /\ w = 0 => Positions(s, w) = <<>>
  <1>1. Positions(s, w) \in [1..w -> Nat]
    BY DEF Positions
  <1>2. Positions(s, w) \in Seq(Nat) /\ Len(Positions(s, w)) = w
    BY <1>1, ArrayIsSeq
  <1>3. w = 0 => Positions(s, w) = <<>>
    BY <1>2, EmptySeq
  <1>4. QED
    BY <1>2, <1>3 DEF Positions

LEMMA BytesAre ==
  ASSUME NEW f \in Nat, NEW l \in Nat, f <= l
  PROVE  Bytes(f, l) = Positions(8 * f, 8 * (l - f + 1))
  BY DEF Bytes, Positions

\* A part of some bits: SubSeq under a name, which the facts below are about.
Part(p, d, n) == SubSeq(p, d + 1, d + n)

\* Of w bits from the s-th on, n bits follow after d of them.
IsPart(s, w, d, n) == s \in Nat /\ w \in Nat /\ d \in Nat /\ n \in Nat /\ d + n <= w /\ n >= 1

\* A part of consecutive positions.
LEMMA PartOf ==
  ASSUME NEW s, NEW w, NEW d, NEW n, IsPart(s, w, d, n)
  PROVE  Part(Positions(s, w), d, n) = Positions(s + d, n)
  <1> USE DEF IsPart
  <1> DEFINE P == Positions(s, w)
             Q == SubSeq(P, d + 1, d + n)
             R == Positions(s + d, n)
  <1>1. P \in Seq(Nat) /\ Len(P) = w /\ \A i \in 1..w : P[i] = s + i - 1
    BY PositionsAre
  <1>2. s + d \in Nat
    OBVIOUS
  <1>3. R \in Seq(Nat) /\ Len(R) = n /\ \A i \in 1..n : R[i] = (s + d) + i - 1
    BY <1>2, PositionsAre
  <1> HIDE DEF P, R
  <1>4. \A i \in (d + 1)..(d + n) : P[i] \in Nat
    BY <1>1
  <1>5. /\ Q \in Seq(Nat)
        /\ Len(Q) = IF d + 1 <= d + n THEN (d + n) - (d + 1) + 1 ELSE 0
        /\ \A i \in 1..((d + n) - (d + 1) + 1) : Q[i] = P[d + 1 + i - 1]
    BY <1>4, SubSeqProperties
  <1> HIDE DEF Q
  <1>6. Len(Q) = n
    BY <1>5
  <1>7. ASSUME NEW i \in 1..n PROVE Q[i] = R[i]
    <2>1. i \in 1..((d + n) - (d + 1) + 1) /\ d + 1 + i - 1 = d + i /\ d + i \in 1..w
      OBVIOUS
    <2>2. Q[i] = P[d + i]
      BY <1>5, <2>1
    <2>3. P[d + i] = s + (d + i) - 1
      BY <1>1, <2>1
    <2>4. QED
      BY <1>3, <2>2, <2>3
  <1>8. QED
    BY <1>3, <1>5, <1>6, <1>7, SeqEqual DEF Q, R, P, Part

\* The same, of the bits of some bytes.
LEMMA PartOfBytes ==
  ASSUME NEW f \in Nat, NEW l \in Nat, NEW d \in Nat, NEW n \in Nat,
         f <= l, n >= 1, d + n <= 8 * (l - f + 1)
  PROVE  Part(Bytes(f, l), d, n) = Positions(8 * f + d, n)
  <1>1. PICK b \in Nat, m \in Nat : b = 8 * f /\ m = 8 * (l - f + 1)
    OBVIOUS
  <1>2. Bytes(f, l) = Positions(b, m)
    BY <1>1, BytesAre
  <1>3. IsPart(b, m, d, n)
    BY <1>1 DEF IsPart
  <1>4. Part(Positions(b, m), d, n) = Positions(b + d, n)
    BY <1>3, PartOf
  <1>5. QED
    BY <1>1, <1>2, <1>4, Zenon

LEMMA ExtractIs ==
  ASSUME NEW s \in Nat, NEW w \in Nat, NEW size \in Nat,
         NEW c, c = [start |-> s, end |-> s + w]
  PROVE  Extract(c, size) = IF w > 32 \/ s + w > 8 * size THEN <<>> ELSE Positions(s, w)
  <1> DEFINE first == s \div 8
             shift == s % 8
             last == EndByte(c)
  <1>1. c.start = s /\ c.end = s + w /\ c.end - c.start = w
    OBVIOUS
  <1>2. first \in Nat /\ shift \in Nat /\ shift < 8 /\ s = 8 * first + shift
    OBVIOUS
  <1>3. Extract(c, size) =
          IF w <= 0 \/ w > 32 \/ first >= size \/ last >= size THEN <<>>
          ELSE IF shift = 0 /\ w \in {8, 16, 32} THEN Bytes(first, first + w \div 8 - 1)
          ELSE SubSeq(Bytes(first, last), shift + 1, shift + w)
    BY <1>1 DEF Extract
  <1>4. w >= 1 => last \in Nat /\ 8 * last <= s + w - 1 /\ s + w - 1 < 8 * last + 8
    BY <1>1 DEF EndByte
  <1> HIDE DEF first, shift, last
  <1>5. CASE w = 0
    BY <1>3, <1>5, PositionsAre
  <1>6. CASE w >= 1 /\ (w > 32 \/ first >= size \/ last >= size)
    BY <1>2, <1>3, <1>4, <1>6
  <1>7. CASE w >= 1 /\ ~(w > 32 \/ first >= size \/ last >= size)
    <2>1. ~(w > 32 \/ s + w > 8 * size)
      BY <1>4, <1>7
    <2>2. CASE shift = 0 /\ w \in {8, 16, 32}
      <3>1. PICK l \in Nat : l = first + w \div 8 - 1 /\ first <= l /\ 8 * (l - first + 1) = w
        <4>1. w \div 8 >= 1 /\ 8 * (w \div 8) = w /\ w \div 8 \in Nat
          BY <2>2
        <4>2. QED
          BY <1>2, <4>1
      <3>2. Extract(c, size) = Bytes(first, l)
        BY <1>3, <1>7, <2>2, <3>1
      <3>3. Bytes(first, l) = Positions(8 * first, 8 * (l - first + 1))
        BY <1>2, <3>1, BytesAre
      <3>4. 8 * first = s
        BY <1>2, <2>2
      <3>5. QED
        BY <2>1, <3>1, <3>2, <3>3, <3>4
    <2>3. CASE ~(shift = 0 /\ w \in {8, 16, 32})
      <3>1. Extract(c, size) = Part(Bytes(first, last), shift, w)
        BY <1>3, <1>7, <2>3 DEF Part
      <3>2. first <= last /\ last \in Nat /\ shift + w <= 8 * (last - first + 1)
        BY <1>2, <1>4, <1>7
      <3>3. first \in Nat /\ last \in Nat /\ shift \in Nat /\ w \in Nat /\ w >= 1
        BY <1>2, <1>7, <3>2
      <3>4. Part(Bytes(first, last), shift, w) = Positions(8 * first + shift, w)
        BY <3>2, <3>3, PartOfBytes
      <3>5. Extract(c, size) = Positions(s, w)
        BY <1>2, <3>1, <3>4, Zenon
      <3>6. QED
        BY <2>1, <3>5
    <2>4. QED
      BY <2>2, <2>3
  <1>8. QED
    BY <1>5, <1>6, <1>7

LEMMA Taken ==
  ASSUME NEW S, NEW x \in S, NEW e \in Seq(S), NEW b, b = <<x>> \o e
  PROVE  Head(b) = x /\ Tail(b) = e /\ b # <<>> /\ b \in Seq(S)
  <1>1. PICK y : y = <<x>> /\ y \in Seq(S) /\ Len(y) = 1 /\ y[1] = x
    <2>1. <<x>> \in Seq(S)
      OBVIOUS
    <2>2. Len(<<x>>) = 1 /\ <<x>>[1] = x
      OBVIOUS
    <2>3. QED
      BY <2>1, <2>2, Zenon
  <1>2. /\ b \in Seq(S) /\ Len(b) = 1 + Len(e) /\ Len(e) \in Nat
        /\ \A i \in 1..(1 + Len(e)) : b[i] = IF i <= 1 THEN y[i] ELSE e[i - 1]
    BY <1>1, ConcatProperties, LenProperties
  <1>3. b # <<>>
    BY <1>2, EmptySeq
  <1>4. b[1] = x
    BY <1>1, <1>2
  <1>5. /\ Tail(b) \in Seq(S) /\ Len(Tail(b)) = Len(b) - 1
        /\ \A i \in 1..Len(Tail(b)) : Tail(b)[i] = b[i + 1]
    BY <1>2, <1>3, HeadTailProperties
  <1>6. Len(Tail(b)) = Len(e)
    BY <1>2, <1>5
  <1>7. \A i \in 1..Len(e) : Tail(b)[i] = e[i]
    BY <1>2, <1>5, <1>6
  <1>8. Tail(b) = e
    BY <1>5, <1>6, <1>7, SeqEqual
  <1>9. Head(b) = b[1]
    BY <1>2, <1>3
  <1>10. QED
    BY <1>2, <1>3, <1>4, <1>8, <1>9

\* The program takes out of a report what C has of a field.
FieldInv ==
  /\ field # NoField =>
       /\ cField = ToC(field)
       /\ \E s \in Starts, w \in Widths : field = [start |-> s, end |-> s + w]
  /\ bits # <<>> =>
       field # NoField /\ \E size \in Buffers : bits = <<size>> \o Extract(cField, size)

LEMMA FieldInvariance == Spec => []FieldInv
  <1>1. Init => FieldInv
    BY DEF Init, DescriptorInit, FieldInv
  <1>2. ASSUME FieldInv, [Next]_vars
        PROVE  FieldInv'
    <2>1. CASE UNCHANGED <<field, cField, bits>>
      BY <1>2, <2>1 DEF FieldInv
    <2>2. CASE FindDescriptor \/ Compare \/ Accept
      BY <2>1, <2>2 DEF FindDescriptor, Compare, Accept, fieldVars
    <2>3. CASE Convert
      BY <1>2, <2>3 DEF FieldInv, Convert
    <2>4. CASE TakeField
      BY <1>2, <2>4 DEF FieldInv, TakeField
    <2>5. QED
      BY <1>2, <2>1, <2>2, <2>3, <2>4, PartsAreApart
      DEF DescriptorNext, descriptorVars, fieldVars
  <1>3. QED
    BY <1>1, <1>2, PTL DEF Spec

\* Whatever fields and buffers there are, a field is read as it is in the report
\* (extract_bits, HidRdescField).
THEOREM FieldsAreTaken == Spec => []FieldsAreRead
  <1>1. ASSUME FieldInv, bits # <<>>, field.end < 2^16
        PROVE  Tail(bits) = IF field.end - field.start > 32 \/ field.end > 8 * Head(bits) THEN <<>>
                            ELSE [i \in 1..(field.end - field.start) |-> field.start + i - 1]
    <2>1. PICK s \in Starts, w \in Widths : field = [start |-> s, end |-> s + w]
      BY <1>1 DEF FieldInv
    <2>2. s \in Nat /\ w \in Nat /\ field.start = s /\ field.end = s + w
      BY <2>1, FieldAssumption
    <2>3. s + w < 65536
      BY <1>1, <2>2
    <2>4. s % 65536 = s /\ (s + w) % 65536 = s + w
      BY <2>2, <2>3
    <2>5. cField = [start |-> s, end |-> s + w]
      BY <1>1, <2>2, <2>4 DEF FieldInv, ToC
    <2>6. PICK size \in Buffers : bits = <<size>> \o Extract(cField, size)
      BY <1>1 DEF FieldInv
    <2>7. size \in Nat
      BY FieldAssumption
    <2>8. Extract(cField, size) = IF w > 32 \/ s + w > 8 * size THEN <<>> ELSE Positions(s, w)
      BY <2>2, <2>5, <2>7, ExtractIs
    <2>9. Extract(cField, size) \in Seq(Nat)
      BY <2>2, <2>8, EmptySeq, PositionsAre
    <2>10. Head(bits) = size /\ Tail(bits) = Extract(cField, size)
      BY <2>6, <2>7, <2>9, Taken
    <2>11. field.end - field.start = w
      BY <2>2
    <2>12. QED
      BY <2>2, <2>8, <2>10, <2>11 DEF Positions
  <1>2. FieldInv => FieldsAreRead
    BY <1>1 DEF FieldsAreRead
  <1>3. QED
    BY <1>2, FieldInvariance, PTL

-----------------------------------------------------------------------------
(* Recursion over types: a type contains only types of a lower rank.       *)

LessThan == {ss \in Nat \X Nat : ss[1] < ss[2]}

\* A set of types has one of a least rank.
LEMMA Lowest ==
  ASSUME NEW S, NEW rank \in [S -> Nat], NEW X \in SUBSET S, X # {}
  PROVE  \E x \in X : \A y \in X : ~(rank[y] < rank[x])
  <1> DEFINE T == {rank[x] : x \in X}
  <1>1. IsWellFoundedOn(LessThan, Nat)
    BY NatLessThanWellFounded DEF OpToRel, LessThan
  <1>2. T \subseteq Nat /\ T # {}
    OBVIOUS
  <1> HIDE DEF T
  <1>3. PICK m \in T : \A n \in T : <<n, m>> \notin LessThan
    BY <1>1, <1>2, WFMin
  <1>4. PICK x \in X : m = rank[x]
    BY <1>3 DEF T
  <1>5. ASSUME NEW y \in X PROVE ~(rank[y] < rank[x])
    <2>1. rank[y] \in T /\ rank[y] \in Nat /\ rank[x] \in Nat
      BY DEF T
    <2>2. QED
      BY <1>3, <1>4, <2>1 DEF LessThan
  <1>6. QED
    BY <1>5

\* G takes the value of a type from those of lower ranks.
Recursive(S, V, rank, G) ==
  /\ rank \in [S -> Nat] /\ G \in [S -> [[S -> V] -> V]]
  /\ \A x \in S : \A f, g \in [S -> V] :
       (\A y \in S : rank[y] < rank[x] => f[y] = g[y]) => G[x][f] = G[x][g]
Solvable(S, V, G) == \E f \in [S -> V] : \A x \in S : f[x] = G[x][f]

\* An equation that takes the value of a type from those of lower ranks has a solution.
LEMMA Recursion ==
  ASSUME NEW S, NEW V, NEW v \in V, NEW rank, NEW G, Recursive(S, V, rank, G)
  PROVE  Solvable(S, V, G)
  <1> USE DEF Recursive
  <1> DEFINE Solves(f, x) ==
        f \in [S -> V] /\ \A y \in S : rank[y] <= rank[x] => f[y] = G[y][f]
             F(x) == CHOOSE f : Solves(f, x)
  <1>1. ASSUME NEW x \in S, NEW z \in S, NEW f, NEW g, Solves(f, x), Solves(g, z), rank[x] <= rank[z]
        PROVE  f[x] = g[x]
    <2> DEFINE X == {y \in S : rank[y] <= rank[x] /\ f[y] # g[y]}
    <2>1. SUFFICES ASSUME X # {} PROVE FALSE
      OBVIOUS
    <2>2. PICK y \in X : \A w \in X : ~(rank[w] < rank[y])
      <3>1. X \in SUBSET S
        OBVIOUS
      <3> HIDE DEF X
      <3>2. QED
        BY <2>1, <3>1, Lowest
    <2>3. \A w \in S : rank[w] < rank[y] => f[w] = g[w]
      BY <2>2
    <2>4. f[y] = G[y][f] /\ g[y] = G[y][g]
      BY <1>1, <2>2
    <2>5. G[y][f] = G[y][g]
      BY <1>1, <2>2, <2>3
    <2>6. QED
      BY <2>2, <2>4, <2>5
  <1>2. ASSUME NEW D \in SUBSET S, \A y \in D : \E f : Solves(f, y),
               \A y \in D : \A w \in S : rank[w] <= rank[y] => w \in D
        PROVE  \E h \in [S -> V] : \A y \in D : h[y] = G[y][h]
    <2> DEFINE h == [y \in S |-> IF y \in D THEN F(y)[y] ELSE v]
    <2>1. \A y \in D : Solves(F(y), y)
      BY <1>2
    <2> HIDE DEF F
    <2>2. h \in [S -> V]
      BY <2>1
    <2>3. ASSUME NEW y \in D PROVE h[y] = G[y][h]
      <3>1. ASSUME NEW w \in S, rank[w] < rank[y] PROVE h[w] = F(y)[w]
        <4>1. w \in D
          BY <1>2, <3>1
        <4>2. Solves(F(w), w) /\ Solves(F(y), y) /\ rank[w] <= rank[y]
          BY <2>1, <3>1, <4>1
        <4>3. F(w)[w] = F(y)[w]
          <5> HIDE DEF Solves
          <5>1. QED
            BY <1>1, <4>2
        <4>4. QED
          BY <4>1, <4>3
      <3>2. F(y) \in [S -> V] /\ F(y)[y] = G[y][F(y)]
        BY <2>1
      <3> HIDE DEF h
      <3>3. G[y][F(y)] = G[y][h]
        BY <2>2, <3>1, <3>2
      <3>4. h[y] = F(y)[y]
        BY DEF h
      <3>5. QED
        BY <3>2, <3>3, <3>4
    <2> HIDE DEF h
    <2>4. QED
      BY <2>2, <2>3
  <1> HIDE DEF F
  <1>3. \A x \in S : \E f : Solves(f, x)
    <2> DEFINE X == {x \in S : ~\E f : Solves(f, x)}
    <2>1. SUFFICES ASSUME X # {} PROVE FALSE
      OBVIOUS
    <2>2. PICK x \in X : \A w \in X : ~(rank[w] < rank[x])
      <3>1. X \in SUBSET S
        OBVIOUS
      <3> HIDE DEF X
      <3>2. QED
        BY <2>1, <3>1, Lowest
    <2> DEFINE D == {y \in S : rank[y] < rank[x]}
    <2>3. \A y \in D : \E f : Solves(f, y)
      BY <2>2
    <2>4. \A y \in D : \A w \in S : rank[w] <= rank[y] => w \in D
      OBVIOUS
    <2>5. PICK h \in [S -> V] : \A y \in D : h[y] = G[y][h]
      <3>1. D \in SUBSET S
        OBVIOUS
      <3> HIDE DEF D, Solves
      <3>2. QED
        BY <1>2, <2>3, <2>4, <3>1
    <2> DEFINE f == [y \in S |-> IF y \in D THEN h[y] ELSE G[y][h]]
    <2>6. f \in [S -> V] /\ \A y \in S : f[y] = G[y][h]
      BY <2>5
    <2> HIDE DEF f
    <2>7. \A w \in D : f[w] = h[w]
      BY <2>5, <2>6
    <2>8. ASSUME NEW y \in S, rank[y] <= rank[x] PROVE f[y] = G[y][f]
      <3>1. \A w \in S : rank[w] < rank[y] => f[w] = h[w]
        BY <2>2, <2>7, <2>8
      <3>2. QED
        BY <2>5, <2>6, <3>1
    <2>9. Solves(f, x)
      BY <2>6, <2>8
    <2>10. QED
      BY <2>2, <2>9
  <1>4. PICK f \in [S -> V] : \A y \in S : f[y] = G[y][f]
    <2>1. S \in SUBSET S /\ \A y \in S : \A w \in S : rank[w] <= rank[y] => w \in S
      OBVIOUS
    <2> HIDE DEF Solves
    <2>2. QED
      BY <1>2, <1>3, <2>1
  <1>5. QED
    BY <1>4 DEF Solvable

-----------------------------------------------------------------------------
(* DescriptorLayout: what is accepted                                      *)

\* The Rust structs: an array is one of ints, structs or unions, the fields of a union
\* are at its beginning, and no type contains itself.
RustTypes ==
  /\ Struct \in DOMAIN Rust /\ Rust[Struct].base = Struct /\ Rust[Struct].kind = "struct"
  /\ \A x \in DOMAIN Rust :
       /\ Rust[x].size \in Nat
       /\ Rust[x].base \in DOMAIN Rust /\ Rust[Rust[x].base].base = Rust[x].base
       /\ Base(x).kind \in {"int", "struct", "union"}
       /\ Rust[x].fields \in Seq([name : STRING, offset : Nat, type : DOMAIN Rust])
       /\ Rust[x].kind = "int" => Rust[x].fields = <<>>
       /\ Rust[x].kind = "union" => \A i \in DOMAIN Rust[x].fields : Rust[x].fields[i].offset = 0
  /\ \E rank \in [DOMAIN Rust -> Nat] : \A x \in DOMAIN Rust :
       \A i \in DOMAIN Base(x).fields : rank[Base(x).fields[i].type] < rank[x]

\* A type that others of b are made of has a lower rank.
Ranked(b, rank) ==
  /\ rank \in [DOMAIN b -> Nat]
  /\ \A t \in DOMAIN b :
       /\ b[t].kind \in {"typedef", "array"} => rank[b[t].elem] < rank[t]
       /\ \A i \in DOMAIN b[t].members : rank[b[t].members[i].type] < rank[t]

\* The kinds of types that have a size, and those that stand for another type.
Kinds == {"int", "enum", "struct", "union", "array", "typedef"}

\* Types of C: the members of a struct or union have different names, or different places
\* if they have none, those of a union are at its beginning, and no type contains itself.
BtfTypes(b) ==
  /\ Root \in DOMAIN b
  /\ \A t \in DOMAIN b :
       /\ b[t].kind \in Kinds /\ b[t].size \in Nat /\ b[t].count \in Nat
       /\ b[t].elem \in DOMAIN b
       /\ b[t].members \in Seq([name : STRING, offset : Nat, type : DOMAIN b])
       /\ \A i, j \in DOMAIN b[t].members :
            Key(b[t].kind, b[t].members[i]) = Key(b[t].kind, b[t].members[j]) => i = j
       /\ b[t].kind = "union" => \A i \in DOMAIN b[t].members : b[t].members[i].offset = 0
  /\ \E rank : Ranked(b, rank)

LEMMA ResolveIs ==
  ASSUME BtfTypes(btf), NEW rank, Ranked(btf, rank)
  PROVE  /\ Resolve \in [DOMAIN btf -> DOMAIN btf]
         /\ \A t \in DOMAIN btf :
              /\ Resolve[t] = IF btf[t].kind = "typedef" THEN Resolve[btf[t].elem] ELSE t
              /\ btf[Resolve[t]].kind # "typedef" /\ Resolve[Resolve[t]] = Resolve[t]
              /\ rank[Resolve[t]] <= rank[t]
  <1> DEFINE S == DOMAIN btf
             G == [t \in S |-> [f \in [S -> S] |-> IF btf[t].kind = "typedef" THEN f[btf[t].elem] ELSE t]]
  <1>1. /\ Root \in S /\ rank \in [S -> Nat]
        /\ \A t \in S : btf[t].elem \in S /\ (btf[t].kind = "typedef" => rank[btf[t].elem] < rank[t])
    BY DEF BtfTypes, Ranked
  <1>2. G \in [S -> [[S -> S] -> S]]
    BY <1>1
  <1>3. ASSUME NEW x \in S, NEW f \in [S -> S], NEW g \in [S -> S],
               \A y \in S : rank[y] < rank[x] => f[y] = g[y]
        PROVE  G[x][f] = G[x][g]
    BY <1>1, <1>3
  <1>4. PICK h \in [S -> S] : \A t \in S : h[t] = G[t][h]
    <2> HIDE DEF G, S
    <2>1. \A x \in S : \A f, g \in [S -> S] :
            (\A y \in S : rank[y] < rank[x] => f[y] = g[y]) => G[x][f] = G[x][g]
      BY <1>3
    <2>2. Root \in S /\ rank \in [S -> Nat]
      BY <1>1
    <2>3. Recursive(S, S, rank, G)
      BY <1>2, <2>1, <2>2 DEF Recursive
    <2>4. QED
      BY <2>2, <2>3, Recursion DEF Solvable
  <1>5. h = [t \in S |-> IF btf[t].kind = "typedef" THEN h[btf[t].elem] ELSE t]
    BY <1>4
  <1>6. Resolve = [t \in S |-> IF btf[t].kind = "typedef" THEN Resolve[btf[t].elem] ELSE t]
    BY <1>5 DEF Resolve
  <1> DEFINE Bad == {t \in S : ~(Resolve[t] \in S /\ btf[Resolve[t]].kind # "typedef"
                                 /\ rank[Resolve[t]] <= rank[t])}
  <1>7. Bad = {}
    <2>1. SUFFICES ASSUME Bad # {} PROVE FALSE
      OBVIOUS
    <2>2. PICK t \in Bad : \A y \in Bad : ~(rank[y] < rank[t])
      <3>1. Bad \in SUBSET S
        OBVIOUS
      <3> HIDE DEF Bad
      <3>2. QED
        BY <1>1, <2>1, <3>1, Lowest
    <2>3. CASE btf[t].kind = "typedef"
      <3>1. btf[t].elem \in S /\ rank[btf[t].elem] < rank[t] /\ btf[t].elem \notin Bad
        BY <1>1, <2>2, <2>3
      <3>2. Resolve[t] = Resolve[btf[t].elem]
        BY <1>6, <2>2, <2>3
      <3>3. /\ Resolve[t] \in S /\ btf[Resolve[t]].kind # "typedef"
            /\ rank[Resolve[t]] <= rank[btf[t].elem]
        BY <3>1, <3>2
      <3>4. rank[Resolve[t]] <= rank[t]
        BY <1>1, <2>2, <3>1, <3>3
      <3>5. QED
        BY <2>2, <3>3, <3>4
    <2>4. CASE btf[t].kind # "typedef"
      BY <1>1, <1>6, <2>2, <2>4
    <2>5. QED
      BY <2>3, <2>4
  <1>8. ASSUME NEW t \in S PROVE Resolve[t] \in S /\ btf[Resolve[t]].kind # "typedef" /\ rank[Resolve[t]] <= rank[t]
    BY <1>7
  <1>9. \A t \in S : Resolve[Resolve[t]] = Resolve[t]
    BY <1>6, <1>8
  <1>10. Resolve \in [S -> S]
    BY <1>6, <1>8
  <1>11. QED
    BY <1>6, <1>8, <1>9, <1>10

\* What an id stands for in a comparison.
LEMMA ElementIs ==
  ASSUME BtfTypes(btf), NEW rank, Ranked(btf, rank), NEW t \in DOMAIN btf
  PROVE  /\ Element(t) \in DOMAIN btf /\ rank[Element(t)] <= rank[t]
         /\ btf[t].kind = "array" => rank[Resolve[btf[t].elem]] < rank[t]
  <1>1. btf[t].elem \in DOMAIN btf /\ Resolve[btf[t].elem] \in DOMAIN btf
        /\ rank[Resolve[btf[t].elem]] <= rank[btf[t].elem]
    BY ResolveIs DEF BtfTypes
  <1>2. /\ rank[t] \in Nat /\ rank[btf[t].elem] \in Nat /\ rank[Resolve[btf[t].elem]] \in Nat
        /\ btf[t].kind = "array" => rank[btf[t].elem] < rank[t]
    BY <1>1 DEF Ranked
  <1>3. QED
    BY <1>1, <1>2 DEF Element

LEMMA Products == \A a, b \in Nat : a * b \in Nat
  OBVIOUS

LEMMA SizeOfIs ==
  ASSUME BtfTypes(btf)
  PROVE  /\ SizeOf \in [DOMAIN btf -> Nat]
         /\ \A t \in DOMAIN btf : btf[t].kind # "array" => SizeOf[t] = btf[t].size
  <1> DEFINE S == DOMAIN btf
             G == [t \in S |-> [f \in [S -> Nat] |->
                     IF btf[t].kind = "array" THEN btf[t].count * f[Resolve[btf[t].elem]] ELSE btf[t].size]]
  <1>1. PICK rank : Ranked(btf, rank)
    BY DEF BtfTypes
  <1>2. /\ rank \in [S -> Nat]
        /\ \A t \in S : btf[t].size \in Nat /\ btf[t].count \in Nat /\ btf[t].elem \in S
    BY <1>1 DEF BtfTypes, Ranked
  <1>3. \A t \in S : Resolve[btf[t].elem] \in S
    BY <1>1, <1>2, ResolveIs
  <1>4. G \in [S -> [[S -> Nat] -> Nat]]
    <2>1. ASSUME NEW t \in S, NEW f \in [S -> Nat]
          PROVE  btf[t].count * f[Resolve[btf[t].elem]] \in Nat
      <3>1. btf[t].count \in Nat /\ f[Resolve[btf[t].elem]] \in Nat
        BY <1>2, <1>3
      <3>2. QED
        BY <3>1, Products
    <2>2. QED
      BY <1>2, <2>1
  <1>5. ASSUME NEW x \in S, NEW f \in [S -> Nat], NEW g \in [S -> Nat],
               \A y \in S : rank[y] < rank[x] => f[y] = g[y]
        PROVE  G[x][f] = G[x][g]
    <2>1. CASE btf[x].kind = "array"
      <3>1. rank[Resolve[btf[x].elem]] < rank[x]
        BY <1>1, <2>1, ElementIs
      <3>2. QED
        BY <1>3, <1>5, <2>1, <3>1
    <2>2. CASE btf[x].kind # "array"
      BY <2>2
    <2>3. QED
      BY <2>1, <2>2
  <1>6. PICK h \in [S -> Nat] : \A t \in S : h[t] = G[t][h]
    <2> HIDE DEF G, S
    <2>1. \A x \in S : \A f, g \in [S -> Nat] :
            (\A y \in S : rank[y] < rank[x] => f[y] = g[y]) => G[x][f] = G[x][g]
      BY <1>5
    <2>2. 0 \in Nat /\ rank \in [S -> Nat]
      BY <1>2
    <2>3. Recursive(S, Nat, rank, G)
      BY <1>4, <2>1, <2>2 DEF Recursive
    <2>4. QED
      BY <2>2, <2>3, Recursion DEF Solvable
  <1>7. h = [t \in S |-> IF btf[t].kind = "array" THEN btf[t].count * h[Resolve[btf[t].elem]] ELSE btf[t].size]
    BY <1>6
  <1>8. SizeOf = [t \in S |-> IF btf[t].kind = "array" THEN btf[t].count * SizeOf[Resolve[btf[t].elem]]
                              ELSE btf[t].size]
    BY <1>7 DEF SizeOf
  <1> DEFINE Bad == {t \in S : SizeOf[t] \notin Nat}
  <1>9. Bad = {}
    <2>1. SUFFICES ASSUME Bad # {} PROVE FALSE
      OBVIOUS
    <2>2. PICK t \in Bad : \A y \in Bad : ~(rank[y] < rank[t])
      <3>1. Bad \in SUBSET S
        OBVIOUS
      <3> HIDE DEF Bad
      <3>2. QED
        BY <1>2, <2>1, <3>1, Lowest
    <2>3. CASE btf[t].kind = "array"
      <3>1. rank[Resolve[btf[t].elem]] < rank[t]
        BY <1>1, <2>2, <2>3, ElementIs
      <3>2. btf[t].count \in Nat /\ SizeOf[Resolve[btf[t].elem]] \in Nat
        BY <1>2, <1>3, <2>2, <3>1
      <3>3. SizeOf[t] = btf[t].count * SizeOf[Resolve[btf[t].elem]]
        BY <1>8, <2>2, <2>3
      <3>4. QED
        BY <2>2, <3>2, <3>3, Products
    <2>4. CASE btf[t].kind # "array"
      BY <1>2, <1>8, <2>2, <2>4
    <2>5. QED
      BY <2>3, <2>4
  <1>10. QED
    BY <1>8, <1>9

\* What a view is made of.
Nodes == [path : Seq([name : STRING, at : Nat]), offset : Nat, kind : Kinds \cup {"any"}, size : Nat]
Members(S) == Seq([name : STRING, offset : Nat, type : S])

LEMMA AtIndex ==
  ASSUME NEW S, NEW s \in Seq(S), NEW i \in DOMAIN s
  PROVE  s[i] \in S
  OBVIOUS

LEMMA MemberIs ==
  ASSUME NEW S, NEW members \in Members(S), NEW i \in DOMAIN members
  PROVE  /\ members[i] \in [name : STRING, offset : Nat, type : S]
         /\ members[i].offset \in Nat /\ members[i].type \in S
  <1>1. members[i] \in [name : STRING, offset : Nat, type : S]
    BY AtIndex DEF Members
  <1>2. QED
    BY <1>1

LEMMA NodeIs ==
  ASSUME NEW kind \in Kinds \cup {"any"}, NEW size \in Nat
  PROVE  Node(kind, size) \in Nodes
  BY DEF Node, Nodes

LEMMA KeyIs ==
  ASSUME NEW kind, NEW S, NEW m \in [name : STRING, offset : Nat, type : S]
  PROVE  Key(kind, m) \in [name : STRING, at : Nat]
  BY DEF Key

\* One step down a path.
LEMMA BelowIs ==
  ASSUME NEW key \in [name : STRING, at : Nat], NEW o \in Nat, NEW View \in SUBSET Nodes
  PROVE  /\ Below(key, o, View) \in SUBSET Nodes
         /\ \A n \in Below(key, o, View) : \E k \in View :
              /\ n.path = <<key>> \o k.path /\ n.offset = o + k.offset
              /\ n.kind = k.kind /\ n.size = k.size
         /\ \A k \in View :
              [path |-> <<key>> \o k.path, offset |-> o + k.offset, kind |-> k.kind, size |-> k.size]
                \in Below(key, o, View)
  <1>1. ASSUME NEW k \in View
        PROVE  [path |-> <<key>> \o k.path, offset |-> o + k.offset, kind |-> k.kind, size |-> k.size]
                 \in Nodes
    <2>1. k \in Nodes
      OBVIOUS
    <2>2. <<key>> \o k.path \in Seq([name : STRING, at : Nat])
      BY <2>1 DEF Nodes
    <2>3. o + k.offset \in Nat
      BY <2>1 DEF Nodes
    <2>4. QED
      BY <2>1, <2>2, <2>3 DEF Nodes
  <1>2. \A n \in Below(key, o, View) : \E k \in View :
          n = [path |-> <<key>> \o k.path, offset |-> o + k.offset, kind |-> k.kind, size |-> k.size]
    BY DEF Below
  <1>3. \A k \in View :
          [path |-> <<key>> \o k.path, offset |-> o + k.offset, kind |-> k.kind, size |-> k.size]
            \in Below(key, o, View)
    BY DEF Below
  <1>4. \A n \in Below(key, o, View) : \E k \in View :
          /\ n.path = <<key>> \o k.path /\ n.offset = o + k.offset
          /\ n.kind = k.kind /\ n.size = k.size
    <2> TAKE n \in Below(key, o, View)
    <2>1. PICK k \in View :
            n = [path |-> <<key>> \o k.path, offset |-> o + k.offset, kind |-> k.kind, size |-> k.size]
      BY <1>2
    <2>2. WITNESS k \in View
    <2>3. QED
      BY <2>1
  <1>5. Below(key, o, View) \subseteq Nodes
    BY <1>1, <1>2
  <1>6. QED
    BY <1>3, <1>4, <1>5

LEMMA InsideIs ==
  ASSUME NEW S, NEW kind, NEW members \in Members(S), NEW View,
         \A i \in DOMAIN members : View[members[i].type] \in SUBSET Nodes
  PROVE  Inside(kind, members, View) \in SUBSET Nodes
  <1>1. ASSUME NEW i \in DOMAIN members
        PROVE  Below(Key(kind, members[i]), members[i].offset, View[members[i].type]) \in SUBSET Nodes
    <2>1. members[i] \in [name : STRING, offset : Nat, type : S]
      BY MemberIs
    <2>2. Key(kind, members[i]) \in [name : STRING, at : Nat] /\ members[i].offset \in Nat
      BY <2>1, KeyIs
    <2>3. QED
      BY <2>2, BelowIs
  <1>2. QED
    BY <1>1 DEF Inside

LEMMA SameInside ==
  ASSUME NEW kind, NEW members, NEW V, NEW W,
         \A i \in DOMAIN members : V[members[i].type] = W[members[i].type]
  PROVE  Inside(kind, members, V) = Inside(kind, members, W)
  BY DEF Inside

LEMMA RustViewIs ==
  ASSUME RustTypes
  PROVE  /\ RustView \in [DOMAIN Rust -> SUBSET Nodes]
         /\ \A x \in DOMAIN Rust :
              RustView[x] = RustNodes(x) \cup Inside(Base(x).kind, Base(x).fields, RustView)
  <1> DEFINE S == DOMAIN Rust
             V == SUBSET Nodes
             G == [x \in S |-> [f \in [S -> V] |-> RustNodes(x) \cup Inside(Base(x).kind, Base(x).fields, f)]]
  <1>1. PICK rank \in [S -> Nat] : \A x \in S : \A i \in DOMAIN Base(x).fields : rank[Base(x).fields[i].type] < rank[x]
    BY DEF RustTypes, Base
  <1>2. ASSUME NEW x \in S
        PROVE  /\ RustNodes(x) \in V /\ Base(x).fields \in Members(S)
               /\ \A i \in DOMAIN Base(x).fields : Base(x).fields[i].type \in S
    <2>1. Rust[x].size \in Nat /\ Rust[x].base \in S
      BY DEF RustTypes
    <2>2. Base(x).size \in Nat /\ Base(x).kind \in Kinds /\ Base(x).fields \in Members(S)
      BY <2>1 DEF RustTypes, Members, Kinds, Base
    <2>3. RustNodes(x) \in V
      BY <2>1, <2>2, NodeIs DEF RustNodes
    <2>4. QED
      BY <2>2, <2>3, MemberIs
  <1>3. ASSUME NEW x \in S, NEW f, \A i \in DOMAIN Base(x).fields : f[Base(x).fields[i].type] \in V
        PROVE  RustNodes(x) \cup Inside(Base(x).kind, Base(x).fields, f) \in V
    <2> HIDE DEF S
    <2>1. Inside(Base(x).kind, Base(x).fields, f) \in SUBSET Nodes
      BY <1>2, <1>3, InsideIs
    <2>2. QED
      BY <1>2, <2>1
  <1>4. G \in [S -> [[S -> V] -> V]]
    <2> HIDE DEF S, V
    <2>1. QED
      BY <1>2, <1>3
  <1>5. ASSUME NEW x \in S, NEW f \in [S -> V], NEW g \in [S -> V],
               \A y \in S : rank[y] < rank[x] => f[y] = g[y]
        PROVE  G[x][f] = G[x][g]
    <2> HIDE DEF S, V
    <2>1. Inside(Base(x).kind, Base(x).fields, f) = Inside(Base(x).kind, Base(x).fields, g)
      BY <1>1, <1>2, <1>5, SameInside
    <2>2. QED
      BY <2>1
  <1>6. PICK h \in [S -> V] : \A x \in S : h[x] = G[x][h]
    <2>1. {} \in V
      OBVIOUS
    <2> HIDE DEF G, S, V
    <2>2. Recursive(S, V, rank, G)
      BY <1>1, <1>4, <1>5 DEF Recursive
    <2>3. QED
      BY <2>1, <2>2, Recursion DEF Solvable
  <1>7. h = [x \in S |-> RustNodes(x) \cup Inside(Base(x).kind, Base(x).fields, h)]
    <2> HIDE DEF S, V
    <2>1. QED
      BY <1>6
  <1>8. RustView = [x \in S |-> RustNodes(x) \cup Inside(Base(x).kind, Base(x).fields, RustView)]
    BY <1>7 DEF RustView
  <1> DEFINE Bad == {x \in S : RustView[x] \notin V}
  <1>9. Bad = {}
    <2>1. SUFFICES ASSUME Bad # {} PROVE FALSE
      OBVIOUS
    <2>2. PICK x \in Bad : \A y \in Bad : ~(rank[y] < rank[x])
      <3>1. Bad \in SUBSET S
        OBVIOUS
      <3> HIDE DEF Bad
      <3>2. QED
        BY <2>1, <3>1, Lowest
    <2> HIDE DEF S, V
    <2>3. \A i \in DOMAIN Base(x).fields : RustView[Base(x).fields[i].type] \in V
      BY <1>1, <1>2, <2>2
    <2>4. x \in S /\ RustView[x] \notin V
      BY <2>2
    <2>5. RustNodes(x) \cup Inside(Base(x).kind, Base(x).fields, RustView) \in V
      BY <1>3, <2>3, <2>4
    <2>6. RustView[x] = RustNodes(x) \cup Inside(Base(x).kind, Base(x).fields, RustView)
      BY <1>8, <2>4
    <2>7. QED
      BY <2>4, <2>5, <2>6
  <1>10. QED
    <2> HIDE DEF S, V
    <2>1. RustView \in [S -> V]
      BY <1>8, <1>9
    <2>2. QED
      BY <1>8, <2>1 DEF S, V

LEMMA InnerIs ==
  ASSUME BtfTypes(btf), NEW rank, Ranked(btf, rank), NEW t \in DOMAIN btf
  PROVE  /\ Resolve[t] \in DOMAIN btf /\ Resolve[Resolve[t]] = Resolve[t]
         /\ Element(Resolve[t]) \in DOMAIN btf
         /\ Inner(t) = btf[Element(Resolve[t])] /\ Inner(Resolve[t]) = Inner(t)
         /\ Inner(t).kind \in Kinds /\ Inner(t).size \in Nat
         /\ Inner(t).members \in Members(DOMAIN btf)
         /\ \A i \in DOMAIN Inner(t).members : rank[Inner(t).members[i].type] < rank[t]
  <1>1. /\ Resolve[t] \in DOMAIN btf /\ Resolve[Resolve[t]] = Resolve[t]
        /\ rank[Resolve[t]] <= rank[t]
    BY ResolveIs
  <1> DEFINE e == Element(Resolve[t])
  <1>2. e \in DOMAIN btf /\ rank[e] <= rank[Resolve[t]]
    BY <1>1, ElementIs
  <1> HIDE DEF e
  <1>3. btf[e].kind \in Kinds /\ btf[e].size \in Nat /\ btf[e].members \in Members(DOMAIN btf)
    BY <1>2 DEF BtfTypes, Members
  <1>4. ASSUME NEW i \in DOMAIN btf[e].members PROVE rank[btf[e].members[i].type] < rank[t]
    <2>1. rank[btf[e].members[i].type] < rank[e]
      BY <1>2 DEF Ranked
    <2>2. btf[e].members[i].type \in DOMAIN btf
      BY <1>3, MemberIs
    <2>3. /\ rank[btf[e].members[i].type] \in Nat /\ rank[e] \in Nat
          /\ rank[Resolve[t]] \in Nat /\ rank[t] \in Nat
      BY <1>1, <1>2, <2>2 DEF Ranked
    <2>4. QED
      BY <1>1, <1>2, <2>1, <2>3
  <1>5. Inner(t) = btf[e] /\ Inner(Resolve[t]) = btf[e]
    BY <1>1 DEF Inner, e
  <1>6. QED
    BY <1>1, <1>2, <1>3, <1>4, <1>5 DEF e

LEMMA BtfViewIs ==
  ASSUME BtfTypes(btf)
  PROVE  /\ BtfView \in [DOMAIN btf -> SUBSET Nodes]
         /\ \A t \in DOMAIN btf :
              /\ BtfView[t] = BtfNodes(t) \cup Inside(Inner(t).kind, Inner(t).members, BtfView)
              /\ BtfView[Resolve[t]] = BtfView[t]
  <1> DEFINE S == DOMAIN btf
             V == SUBSET Nodes
             G == [x \in S |-> [f \in [S -> V] |-> BtfNodes(x) \cup Inside(Inner(x).kind, Inner(x).members, f)]]
  <1>1. PICK rank : Ranked(btf, rank)
    BY DEF BtfTypes
  <1>2. ASSUME NEW x \in S
        PROVE  /\ BtfNodes(x) \in V /\ Inner(x).members \in Members(S)
               /\ \A i \in DOMAIN Inner(x).members :
                    Inner(x).members[i].type \in S /\ rank[Inner(x).members[i].type] < rank[x]
               /\ Resolve[x] \in S /\ Resolve[Resolve[x]] = Resolve[x] /\ Inner(Resolve[x]) = Inner(x)
    <2>1. Inner(x).kind \in Kinds /\ Inner(x).size \in Nat /\ Inner(x).members \in Members(S)
      BY <1>1, InnerIs
    <2>2. Resolve[x] \in S /\ Resolve[Resolve[x]] = Resolve[x] /\ Inner(Resolve[x]) = Inner(x)
      BY <1>1, InnerIs
    <2>3. \A i \in DOMAIN Inner(x).members : rank[Inner(x).members[i].type] < rank[x]
      BY <1>1, InnerIs
    <2>4. SizeOf[Resolve[x]] \in Nat
      BY <2>2, SizeOfIs
    <2>5. BtfNodes(x) \in V
      BY <2>1, <2>4, NodeIs DEF BtfNodes
    <2>6. \A i \in DOMAIN Inner(x).members : Inner(x).members[i].type \in S
      BY <2>1, MemberIs
    <2>7. QED
      BY <2>1, <2>2, <2>3, <2>5, <2>6
  <1>3. ASSUME NEW x \in S, NEW f, \A i \in DOMAIN Inner(x).members : f[Inner(x).members[i].type] \in V
        PROVE  BtfNodes(x) \cup Inside(Inner(x).kind, Inner(x).members, f) \in V
    <2> HIDE DEF S
    <2>1. Inside(Inner(x).kind, Inner(x).members, f) \in SUBSET Nodes
      BY <1>2, <1>3, InsideIs
    <2>2. QED
      BY <1>2, <2>1
  <1>4. G \in [S -> [[S -> V] -> V]]
    <2> HIDE DEF S, V
    <2>1. QED
      BY <1>2, <1>3
  <1>5. ASSUME NEW x \in S, NEW f \in [S -> V], NEW g \in [S -> V],
               \A y \in S : rank[y] < rank[x] => f[y] = g[y]
        PROVE  G[x][f] = G[x][g]
    <2> HIDE DEF S, V
    <2>1. Inside(Inner(x).kind, Inner(x).members, f) = Inside(Inner(x).kind, Inner(x).members, g)
      BY <1>2, <1>5, SameInside
    <2>2. QED
      BY <2>1
  <1>6. PICK h \in [S -> V] : \A x \in S : h[x] = G[x][h]
    <2>1. {} \in V /\ rank \in [S -> Nat]
      BY <1>1 DEF Ranked
    <2> HIDE DEF G, S, V
    <2>2. Recursive(S, V, rank, G)
      BY <1>4, <1>5, <2>1 DEF Recursive
    <2>3. QED
      BY <2>1, <2>2, Recursion DEF Solvable
  <1>7. h = [x \in S |-> BtfNodes(x) \cup Inside(Inner(x).kind, Inner(x).members, h)]
    <2> HIDE DEF S, V
    <2>1. QED
      BY <1>6
  <1>8. BtfView = [x \in S |-> BtfNodes(x) \cup Inside(Inner(x).kind, Inner(x).members, BtfView)]
    BY <1>7 DEF BtfView
  <1> DEFINE Bad == {x \in S : BtfView[x] \notin V}
  <1>9. Bad = {}
    <2>1. SUFFICES ASSUME Bad # {} PROVE FALSE
      OBVIOUS
    <2>2. PICK x \in Bad : \A y \in Bad : ~(rank[y] < rank[x])
      <3>1. Bad \in SUBSET S /\ rank \in [S -> Nat]
        BY <1>1 DEF Ranked
      <3> HIDE DEF Bad
      <3>2. QED
        BY <2>1, <3>1, Lowest
    <2> HIDE DEF S, V
    <2>3. \A i \in DOMAIN Inner(x).members : BtfView[Inner(x).members[i].type] \in V
      BY <1>2, <2>2
    <2>4. x \in S /\ BtfView[x] \notin V
      BY <2>2
    <2>5. BtfNodes(x) \cup Inside(Inner(x).kind, Inner(x).members, BtfView) \in V
      BY <1>3, <2>3, <2>4
    <2>6. BtfView[x] = BtfNodes(x) \cup Inside(Inner(x).kind, Inner(x).members, BtfView)
      BY <1>8, <2>4
    <2>7. QED
      BY <2>4, <2>5, <2>6
  <1>10. ASSUME NEW t \in S PROVE BtfView[Resolve[t]] = BtfView[t]
    <2>1. BtfNodes(Resolve[t]) = BtfNodes(t)
      BY <1>2 DEF BtfNodes
    <2>2. QED
      BY <1>2, <1>8, <2>1
  <1>11. BtfView \in [S -> V]
    <2> HIDE DEF S, V
    <2>1. QED
      BY <1>8, <1>9
  <1>12. QED
    <2> HIDE DEF S, V
    <2>1. QED
      BY <1>8, <1>10, <1>11 DEF S, V

\* A field stands for one member.
LEMMA OneMember ==
  ASSUME BtfTypes(btf), NEW t \in DOMAIN btf, NEW f, NEW i \in Found(t, f)
  PROVE  /\ i \in DOMAIN btf[t].members /\ MemberFor(t, f) = btf[t].members[i]
         /\ Key(btf[t].kind, btf[t].members[i]) = Key(btf[t].kind, f)
         /\ \A j \in Found(t, f) : j = i
  <1>1. i \in DOMAIN btf[t].members /\ Key(btf[t].kind, btf[t].members[i]) = Key(btf[t].kind, f)
    BY DEF Found
  <1>2. \A j \in Found(t, f) : j = i
    BY <1>1 DEF Found, BtfTypes
  <1>3. i \in Int
    <2>1. DOMAIN btf[t].members \subseteq Nat
      BY DEF BtfTypes
    <2>2. QED
      BY <1>1, <2>1
  <1>4. (CHOOSE k \in Found(t, f) : \A j \in Found(t, f) : k <= j) = i
    <2>1. i \in Found(t, f) /\ \A j \in Found(t, f) : i <= j
      BY <1>2, <1>3
    <2>2. (CHOOSE k \in Found(t, f) : \A j \in Found(t, f) : k <= j) \in Found(t, f)
      BY <2>1, Zenon
    <2>3. QED
      BY <1>2, <2>2
  <1>5. QED
    BY <1>1, <1>2, <1>4 DEF MemberFor

LEMMA FieldIs ==
  ASSUME RustTypes, NEW x \in DOMAIN Rust
  PROVE  /\ Base(x).kind \in {"int", "struct", "union"} /\ Base(x).size \in Nat /\ Rust[x].size \in Nat
         /\ Base(x).fields \in Members(DOMAIN Rust)
         /\ \A i \in DOMAIN Base(x).fields :
              /\ Base(x).fields[i] \in [name : STRING, offset : Nat, type : DOMAIN Rust]
              /\ Base(x).fields[i].offset \in Nat /\ Base(x).fields[i].type \in DOMAIN Rust
              /\ Base(x).kind = "union" => Base(x).fields[i].offset = 0
         /\ Base(x).kind = "int" => Base(x).fields = <<>>
  <1>1. Rust[x].base \in DOMAIN Rust /\ Base(x).kind \in {"int", "struct", "union"} /\ Rust[x].size \in Nat
    BY DEF RustTypes
  <1>2. /\ Base(x).size \in Nat
        /\ Base(x).fields \in Seq([name : STRING, offset : Nat, type : DOMAIN Rust])
        /\ Base(x).kind = "int" => Base(x).fields = <<>>
        /\ Base(x).kind = "union" => \A i \in DOMAIN Base(x).fields : Base(x).fields[i].offset = 0
    BY <1>1 DEF RustTypes, Base
  <1>3. Base(x).fields \in Members(DOMAIN Rust)
    BY <1>2 DEF Members
  <1>4. QED
    BY <1>1, <1>2, <1>3, MemberIs

\* What agrees on one level, and on those below, agrees.
LEMMA LevelAgrees ==
  ASSUME RustTypes, BtfTypes(btf), NEW x \in DOMAIN Rust, NEW id \in DOMAIN btf, Resolve[id] = id,
         SizeOf[id] = Rust[x].size,
         Base(x).kind # "int" =>
           /\ FieldsMatch(Element(id), Base(x))
           /\ \A i \in DOMAIN Base(x).fields :
                RustView[Base(x).fields[i].type] \subseteq BtfView[Nested(Element(id), Base(x))[i][1]]
  PROVE  RustView[x] \subseteq BtfView[id]
  <1> DEFINE t == Element(id)
             r == Base(x)
  <1>1. PICK rank : Ranked(btf, rank)
    BY DEF BtfTypes
  <1>2. t \in DOMAIN btf /\ Inner(id) = btf[t] /\ Inner(id).members \in Members(DOMAIN btf)
    BY <1>1, InnerIs
  <1>3. BtfView[id] = BtfNodes(id) \cup Inside(btf[t].kind, btf[t].members, BtfView)
    BY <1>2, BtfViewIs
  <1>4. RustView[x] = RustNodes(x) \cup Inside(r.kind, r.fields, RustView)
    BY RustViewIs
  <1>5. CASE r.kind = "int"
    <2>1. r.fields = <<>>
      BY <1>5, FieldIs
    <2>2. Inside(r.kind, r.fields, RustView) = {}
      BY <2>1 DEF Inside
    <2>3. RustNodes(x) \subseteq BtfNodes(id)
      BY <1>5 DEF RustNodes, BtfNodes
    <2>4. QED
      BY <1>3, <1>4, <2>2, <2>3
  <1>6. CASE r.kind # "int"
    <2>1. btf[t].kind = r.kind /\ btf[t].size = r.size
      BY <1>6 DEF FieldsMatch
    <2>2. RustNodes(x) \subseteq BtfNodes(id)
      BY <1>2, <1>6, <2>1 DEF RustNodes, BtfNodes
    <2>3. ASSUME NEW i \in DOMAIN r.fields
          PROVE  Below(Key(r.kind, r.fields[i]), r.fields[i].offset, RustView[r.fields[i].type])
                   \subseteq Inside(btf[t].kind, btf[t].members, BtfView)
      <3> DEFINE f == r.fields[i]
      <3>1. PICK j \in Found(t, f) : TRUE
        BY <1>6, <2>3 DEF FieldsMatch
      <3> DEFINE m == btf[t].members[j]
      <3>2. j \in DOMAIN btf[t].members /\ MemberFor(t, f) = m /\ Key(btf[t].kind, m) = Key(btf[t].kind, f)
        BY <1>2, <3>1, OneMember
      <3>3. m.offset = f.offset
        <4>1. CASE r.kind = "struct"
          BY <1>6, <2>1, <3>2, <4>1 DEF FieldsMatch
        <4>2. CASE r.kind = "union"
          BY <1>2, <2>1, <3>2, <4>2, FieldIs DEF BtfTypes
        <4>3. QED
          BY <1>6, <4>1, <4>2, FieldIs
      <3>4. m.type \in DOMAIN btf
        BY <1>2, <3>2, MemberIs
      <3>5. Nested(t, r)[i] = <<Resolve[m.type], f.type>>
        BY <3>2 DEF Nested
      <3>6. RustView[f.type] \subseteq BtfView[m.type]
        <4>1. RustView[f.type] \subseteq BtfView[Resolve[m.type]]
          BY <1>6, <3>5
        <4>2. QED
          BY <3>4, <4>1, BtfViewIs
      <3>7. Below(Key(r.kind, f), f.offset, RustView[f.type])
              \subseteq Below(Key(btf[t].kind, m), m.offset, BtfView[m.type])
        <4> HIDE DEF f, m, r, t
        <4>1. Key(r.kind, f) = Key(btf[t].kind, m)
          BY <2>1, <3>2
        <4>2. QED
          BY <3>3, <3>6, <4>1 DEF Below
      <3>8. QED
        BY <3>2, <3>7 DEF Inside
    <2>4. Inside(r.kind, r.fields, RustView) \subseteq Inside(btf[t].kind, btf[t].members, BtfView)
      <3> HIDE DEF r, t
      <3>1. QED
        BY <2>3 DEF Inside
    <2>5. QED
      BY <1>3, <1>4, <2>2, <2>4
  <1>7. QED
    BY <1>5, <1>6

\* A path is its first step and the rest.
LEMMA Steps ==
  ASSUME NEW S, NEW a \in S, NEW b \in S, NEW p \in Seq(S), NEW q \in Seq(S)
  PROVE  /\ <<a>> \o p # <<>>
         /\ <<a>> \o p = <<b>> \o q => a = b /\ p = q
  <1>1. \A c \in S : \A s \in Seq(S) : <<c>> \o s # <<>> /\ Head(<<c>> \o s) = c /\ Tail(<<c>> \o s) = s
    BY Taken
  <1>2. QED
    BY <1>1

\* What agrees, agrees on this level and on those below.
LEMMA AgreesOnLevel ==
  ASSUME RustTypes, BtfTypes(btf), NEW x \in DOMAIN Rust, NEW id \in DOMAIN btf, Resolve[id] = id,
         RustView[x] \subseteq BtfView[id], Base(x).kind # "int"
  PROVE  /\ FieldsMatch(Element(id), Base(x))
         /\ \A i \in DOMAIN Base(x).fields :
              RustView[Base(x).fields[i].type] \subseteq BtfView[Nested(Element(id), Base(x))[i][1]]
  <1> DEFINE t == Element(id)
             r == Base(x)
             Names == [name : STRING, at : Nat]
  <1>1. PICK rank : Ranked(btf, rank)
    BY DEF BtfTypes
  <1>2. /\ t \in DOMAIN btf /\ Inner(id) = btf[t] /\ btf[t].members \in Members(DOMAIN btf)
        /\ btf[t].kind \in Kinds
    BY <1>1, InnerIs
  <1>3. BtfView[id] = BtfNodes(id) \cup Inside(btf[t].kind, btf[t].members, BtfView)
    BY <1>2, BtfViewIs
  <1>4. RustView[x] = RustNodes(x) \cup Inside(r.kind, r.fields, RustView)
    BY RustViewIs
  <1> HIDE DEF t, r
  <1>5. ASSUME NEW n \in Inside(btf[t].kind, btf[t].members, BtfView)
        PROVE  \E j \in DOMAIN btf[t].members : \E k \in BtfView[btf[t].members[j].type] :
                 /\ k \in Nodes /\ Key(btf[t].kind, btf[t].members[j]) \in Names
                 /\ n.path = <<Key(btf[t].kind, btf[t].members[j])>> \o k.path
                 /\ n.offset = btf[t].members[j].offset + k.offset
                 /\ n.kind = k.kind /\ n.size = k.size
    <2>1. PICK j \in DOMAIN btf[t].members :
            n \in Below(Key(btf[t].kind, btf[t].members[j]), btf[t].members[j].offset,
                        BtfView[btf[t].members[j].type])
      BY <1>5 DEF Inside
    <2> DEFINE m == btf[t].members[j]
    <2>2. m \in [name : STRING, offset : Nat, type : DOMAIN btf] /\ m.offset \in Nat /\ m.type \in DOMAIN btf
      BY <1>2, MemberIs
    <2>3. BtfView[m.type] \in SUBSET Nodes
      BY <2>2, BtfViewIs
    <2>4. Key(btf[t].kind, m) \in Names
      BY <2>2, KeyIs
    <2> HIDE DEF m
    <2>5. PICK k \in BtfView[m.type] :
            /\ n.path = <<Key(btf[t].kind, m)>> \o k.path /\ n.offset = m.offset + k.offset
            /\ n.kind = k.kind /\ n.size = k.size
      <3> DEFINE key == Key(btf[t].kind, m)
                 o == m.offset
                 View == BtfView[m.type]
      <3>1. key \in Names /\ o \in Nat /\ View \in SUBSET Nodes /\ n \in Below(key, o, View)
        BY <2>1, <2>2, <2>3, <2>4 DEF m
      <3> HIDE DEF key, o, View
      <3>2. PICK k \in View : n.path = <<key>> \o k.path /\ n.offset = o + k.offset
                              /\ n.kind = k.kind /\ n.size = k.size
        BY <3>1, BelowIs
      <3>3. QED
        BY <3>2 DEF key, o, View
    <2>6. k \in Nodes
      BY <2>3
    <2>7. QED
      BY <2>4, <2>5, <2>6 DEF m
  <1>6. ASSUME NEW n \in Inside(btf[t].kind, btf[t].members, BtfView) PROVE n.path # <<>>
    <2>1. PICK j \in DOMAIN btf[t].members, k \in Nodes :
            /\ Key(btf[t].kind, btf[t].members[j]) \in Names
            /\ n.path = <<Key(btf[t].kind, btf[t].members[j])>> \o k.path
      BY <1>5
    <2>2. k.path \in Seq(Names)
      BY DEF Nodes
    <2>3. QED
      BY <2>1, <2>2, Steps
  <1>7. btf[t].kind = r.kind /\ btf[t].size = r.size
    <2>1. Node(r.kind, r.size) \in BtfView[id]
      BY <1>4 DEF RustNodes, r
    <2>2. Node(r.kind, r.size).path = <<>>
      BY DEF Node
    <2>3. Node(r.kind, r.size) \in BtfNodes(id)
      BY <1>3, <1>6, <2>1, <2>2
    <2>4. r.kind # "any"
      BY FieldIs DEF r
    <2>5. QED
      BY <1>2, <2>3, <2>4 DEF BtfNodes, Node
  <1>8. ASSUME NEW i \in DOMAIN r.fields, NEW n \in RustView[r.fields[i].type]
        PROVE  \E j \in Found(t, r.fields[i]) : \E k \in BtfView[btf[t].members[j].type] :
                 /\ j \in DOMAIN btf[t].members
                 /\ n \in Nodes /\ k \in Nodes /\ k.path = n.path
                 /\ r.fields[i].offset + n.offset = btf[t].members[j].offset + k.offset
                 /\ n.kind = k.kind /\ n.size = k.size
    <2> DEFINE f == r.fields[i]
               below == [path |-> <<Key(r.kind, f)>> \o n.path, offset |-> f.offset + n.offset,
                         kind |-> n.kind, size |-> n.size]
    <2>1. f \in [name : STRING, offset : Nat, type : DOMAIN Rust] /\ f.offset \in Nat /\ f.type \in DOMAIN Rust
      BY FieldIs DEF r
    <2>2. RustView[f.type] \in SUBSET Nodes /\ Key(r.kind, f) \in Names
      BY <2>1, RustViewIs, KeyIs
    <2>3. below \in Below(Key(r.kind, f), f.offset, RustView[f.type])
      <3> HIDE DEF f
      <3>1. QED
        BY <1>8, <2>1, <2>2, BelowIs DEF f
    <2>4. below \in BtfView[id]
      BY <1>4, <2>3 DEF Inside
    <2>5. n \in Nodes /\ n.path \in Seq(Names)
      BY <1>8, <2>2 DEF Nodes
    <2>6. below.path # <<>>
      BY <2>2, <2>5, Steps
    <2>7. below \notin BtfNodes(id)
      BY <2>6 DEF BtfNodes, Node
    <2>8. below \in Inside(btf[t].kind, btf[t].members, BtfView)
      BY <1>3, <2>4, <2>7
    <2> HIDE DEF f
    <2>9. PICK j \in DOMAIN btf[t].members : \E k \in BtfView[btf[t].members[j].type] :
            /\ k \in Nodes /\ Key(btf[t].kind, btf[t].members[j]) \in Names
            /\ below.path = <<Key(btf[t].kind, btf[t].members[j])>> \o k.path
            /\ below.offset = btf[t].members[j].offset + k.offset
            /\ below.kind = k.kind /\ below.size = k.size
      <3> HIDE DEF below
      <3>1. QED
        BY <1>5, <2>8
    <2>14. PICK k \in BtfView[btf[t].members[j].type] :
            /\ k \in Nodes /\ Key(btf[t].kind, btf[t].members[j]) \in Names
            /\ below.path = <<Key(btf[t].kind, btf[t].members[j])>> \o k.path
            /\ below.offset = btf[t].members[j].offset + k.offset
            /\ below.kind = k.kind /\ below.size = k.size
      BY <2>9
    <2>10. k.path \in Seq(Names)
      BY <2>14 DEF Nodes
    <2>11. Key(r.kind, f) = Key(btf[t].kind, btf[t].members[j]) /\ n.path = k.path
      <3> DEFINE a == Key(r.kind, f)
                 b == Key(btf[t].kind, btf[t].members[j])
                 p == n.path
                 q == k.path
      <3>1. <<a>> \o n.path = <<b>> \o k.path
        BY <2>14
      <3>2. a \in Names /\ b \in Names
        BY <2>2, <2>14
      <3>5. p \in Seq(Names) /\ q \in Seq(Names)
        BY <2>5, <2>10
      <3> HIDE DEF a, b, p, q, Names, below
      <3>6. <<a>> \o p = <<b>> \o q
        BY <3>1 DEF p, q
      <3>7. a = b /\ p = q
        BY <3>2, <3>5, <3>6, Steps
      <3>3. a = b /\ n.path = k.path
        BY <3>7 DEF p, q
      <3>4. QED
        BY <3>3 DEF a, b
    <2>12. j \in Found(t, f)
      BY <1>7, <2>11 DEF Found
    <2>13. QED
      BY <2>5, <2>9, <2>14, <2>11, <2>12 DEF f
  <1>9. ASSUME NEW i \in DOMAIN r.fields
        PROVE  /\ Found(t, r.fields[i]) # {}
               /\ MemberFor(t, r.fields[i]).offset = r.fields[i].offset
               /\ SizeOf[Resolve[MemberFor(t, r.fields[i]).type]] = Rust[r.fields[i].type].size
               /\ RustView[r.fields[i].type] \subseteq BtfView[Resolve[MemberFor(t, r.fields[i]).type]]
    <2> DEFINE f == r.fields[i]
    <2>1. f.offset \in Nat /\ f.type \in DOMAIN Rust
      BY FieldIs DEF r
    <2>2. Rust[f.type].size \in Nat
      BY <2>1 DEF RustTypes
    <2> DEFINE top == Node("any", Rust[f.type].size)
    <2>3. top \in RustView[f.type]
      BY <2>1, RustViewIs DEF RustNodes
    <2>14. PICK j \in Found(t, f) : \E k \in BtfView[btf[t].members[j].type] :
            /\ j \in DOMAIN btf[t].members /\ k \in Nodes /\ k.path = top.path
            /\ f.offset + top.offset = btf[t].members[j].offset + k.offset
            /\ top.kind = k.kind /\ top.size = k.size
      <3> HIDE DEF top
      <3>1. QED
        BY <1>8, <2>3
    <2>4. PICK k \in BtfView[btf[t].members[j].type] :
            /\ j \in DOMAIN btf[t].members /\ k \in Nodes /\ k.path = top.path
            /\ f.offset + top.offset = btf[t].members[j].offset + k.offset
            /\ top.kind = k.kind /\ top.size = k.size
      BY <2>14
    <2> DEFINE m == btf[t].members[j]
    <2>5. MemberFor(t, f) = m /\ \A l \in Found(t, f) : l = j
      BY <1>2, <2>4, OneMember
    <2>6. m.offset \in Nat /\ m.type \in DOMAIN btf
      BY <1>2, <2>4, MemberIs
    <2>7. PICK e : /\ Resolve[m.type] \in DOMAIN btf /\ e = Inner(m.type) /\ e.kind \in Kinds
                   /\ e.members \in Members(DOMAIN btf) /\ e.size \in Nat
      BY <1>1, <2>6, InnerIs
    <2>8. BtfView[m.type] = BtfNodes(m.type) \cup Inside(e.kind, e.members, BtfView)
          /\ BtfView[Resolve[m.type]] = BtfView[m.type]
      BY <2>6, <2>7, BtfViewIs
    <2>9. k \in BtfNodes(m.type)
      <3>1. ASSUME k \in Inside(e.kind, e.members, BtfView) PROVE FALSE
        <4>1. PICK l \in DOMAIN e.members :
                k \in Below(Key(e.kind, e.members[l]), e.members[l].offset, BtfView[e.members[l].type])
          BY <3>1 DEF Inside
        <4> DEFINE o == e.members[l]
        <4>2. o \in [name : STRING, offset : Nat, type : DOMAIN btf] /\ o.offset \in Nat /\ o.type \in DOMAIN btf
          BY <2>7, MemberIs
        <4>3. BtfView[o.type] \in SUBSET Nodes /\ Key(e.kind, o) \in Names
          BY <4>2, BtfViewIs, KeyIs
        <4> HIDE DEF o
        <4>4. PICK q \in BtfView[o.type] : k.path = <<Key(e.kind, o)>> \o q.path
          <5> DEFINE key == Key(e.kind, o)
                     off == o.offset
                     View == BtfView[o.type]
          <5>1. key \in Names /\ off \in Nat /\ View \in SUBSET Nodes /\ k \in Below(key, off, View)
            BY <4>1, <4>2, <4>3 DEF o
          <5> HIDE DEF key, off, View
          <5>2. PICK q \in View : k.path = <<key>> \o q.path
            BY <5>1, BelowIs
          <5>3. QED
            BY <5>2 DEF key, View
        <4>5. q.path \in Seq(Names)
          BY <4>3 DEF Nodes
        <4>6. k.path = <<>>
          BY <2>4 DEF Node
        <4>7. QED
          BY <4>3, <4>4, <4>5, <4>6, Steps
      <3>2. QED
        BY <2>4, <2>8, <3>1
    <2>10. k.offset = 0 /\ SizeOf[Resolve[m.type]] = Rust[f.type].size
      BY <2>4, <2>7, <2>9 DEF BtfNodes, Node, Kinds
    <2>11. m.offset = f.offset
      <3>1. top.offset = 0
        BY DEF Node
      <3>2. QED
        BY <2>1, <2>4, <2>6, <2>10, <3>1
    <2>12. ASSUME NEW n \in RustView[f.type] PROVE n \in BtfView[m.type]
      <3>7. PICK l \in Found(t, f) : \E q \in BtfView[btf[t].members[l].type] :
              /\ n \in Nodes /\ q \in Nodes /\ q.path = n.path
              /\ f.offset + n.offset = btf[t].members[l].offset + q.offset
              /\ n.kind = q.kind /\ n.size = q.size
        BY <1>8, <2>12
      <3>1. PICK q \in BtfView[btf[t].members[l].type] :
              /\ n \in Nodes /\ q \in Nodes /\ q.path = n.path
              /\ f.offset + n.offset = btf[t].members[l].offset + q.offset
              /\ n.kind = q.kind /\ n.size = q.size
        BY <3>7
      <3>2. l = j
        BY <2>5
      <3>3. n.offset \in Nat /\ q.offset \in Nat
        BY <3>1 DEF Nodes
      <3>4. n.offset = q.offset
        BY <2>1, <2>6, <2>11, <3>1, <3>2, <3>3
      <3>5. n = q
        BY <3>1, <3>4 DEF Nodes
      <3>6. QED
        BY <3>1, <3>2, <3>5
    <2>13. QED
      BY <2>4, <2>5, <2>8, <2>10, <2>11, <2>12
  <1>10. FieldsMatch(t, r)
    BY <1>7, <1>9 DEF FieldsMatch
  <1>11. \A i \in DOMAIN r.fields : Nested(t, r)[i] = <<Resolve[MemberFor(t, r.fields[i]).type], r.fields[i].type>>
    BY DEF Nested
  <1>12. \A i \in DOMAIN r.fields : RustView[r.fields[i].type] \subseteq BtfView[Nested(t, r)[i][1]]
    BY <1>9, <1>11
  <1>13. QED
    BY <1>10, <1>12 DEF t, r

\* What depends on the object alone.
LEMMA SameTypes ==
  ASSUME btf' = btf
  PROVE  /\ Resolve' = Resolve /\ SizeOf' = SizeOf /\ BtfView' = BtfView
         /\ \A id : Element(id)' = Element(id)
         /\ \A t, r : FieldsMatch(t, r)' = FieldsMatch(t, r) /\ Nested(t, r)' = Nested(t, r)
         /\ IsStruct' = IsStruct /\ Agrees' = Agrees
  <1>1. Resolve' = Resolve
    BY DEF Resolve
  <1>2. SizeOf' = SizeOf
    BY <1>1 DEF SizeOf
  <1>3. BtfView' = BtfView
    BY <1>1, <1>2 DEF BtfView, BtfNodes, Inner, Element
  <1>4. \A id : Element(id)' = Element(id)
    BY <1>1 DEF Element
  <1>5. ASSUME NEW t, NEW f PROVE Found(t, f)' = Found(t, f) /\ MemberFor(t, f)' = MemberFor(t, f)
    <2>1. Found(t, f)' = Found(t, f)
      BY DEF Found
    <2>2. QED
      BY <2>1 DEF MemberFor
  <1>6. ASSUME NEW t, NEW r
        PROVE  FieldsMatch(t, r)' = FieldsMatch(t, r) /\ Nested(t, r)' = Nested(t, r)
    <2>1. FieldsMatch(t, r)' = FieldsMatch(t, r)
      BY <1>1, <1>2, <1>5 DEF FieldsMatch
    <2>2. Nested(t, r)' = Nested(t, r)
      BY <1>1, <1>5 DEF Nested
    <2>3. QED
      BY <2>1, <2>2
  <1>7. IsStruct' = IsStruct /\ Agrees' = Agrees
    BY <1>1, <1>3 DEF IsStruct, Agrees
  <1>8. QED
    BY <1>1, <1>2, <1>3, <1>4, <1>6, <1>7

Types == RustTypes /\ \A b \in Objects : BtfTypes(b)

\* An id and a text have been met, or will be.
Met(id, x) == <<Element(id), Rust[x].base>> \in pairs
Owed(id, x) == Met(id, x) \/ \E i \in DOMAIN pending : pending[i] = <<id, x>>
Closed(t, b) ==
  Rust[b].kind # "int" =>
    /\ FieldsMatch(t, Rust[b])
    /\ \A i \in DOMAIN Rust[b].fields :
         Owed(Nested(t, Rust[b])[i][1], Rust[b].fields[i].type)

CompareTypes ==
  /\ verdict \in {"unknown", "none", "accepted", "rejected"}
  /\ verdict = "unknown" => btf = <<>> /\ pending = <<>> /\ cache = {} /\ pairs = {}
  /\ verdict # "unknown" => btf \in Objects
  /\ pending \in Seq((DOMAIN btf) \X (DOMAIN Rust))
  /\ \A i \in DOMAIN pending : Resolve[pending[i][1]] = pending[i][1]
  /\ cache \subseteq DOMAIN Rust
  /\ pairs \subseteq (DOMAIN btf) \X (DOMAIN Rust)
  /\ \A p \in pairs : Rust[p[2]].base = p[2]
  /\ verdict \in {"accepted", "rejected"} => pending = <<>>
  /\ verdict \in {"none", "accepted"} => IsStruct

\* As long as every Rust type has one C type, what was met has matched, and what it is
\* made of is met or pending.
Followed ==
  verdict \in {"none", "accepted"} /\ OneTypeEach =>
    /\ Owed(Resolve[Root], Struct)
    /\ \A x \in cache : \E t : <<t, Rust[x].base>> \in pairs
    /\ \A p \in pairs : Closed(p[1], p[2])

\* If the types agree, so does whatever is still to be compared.
Agreeing ==
  verdict # "unknown" /\ Agrees =>
    /\ verdict # "rejected"
    /\ \A i \in DOMAIN pending : RustView[pending[i][2]] \subseteq BtfView[pending[i][1]]

CompareInv == CompareTypes /\ Followed /\ Agreeing

\* When nothing is pending, everything that was met agrees.
LEMMA MetAgrees ==
  ASSUME RustTypes, BtfTypes(btf), pending = <<>>, pairs \subseteq (DOMAIN btf) \X (DOMAIN Rust),
         \A p \in pairs : Closed(p[1], p[2]),
         NEW y \in DOMAIN Rust, NEW id \in DOMAIN btf, Met(id, y), Resolve[id] = id,
         SizeOf[id] = Rust[y].size
  PROVE  RustView[y] \subseteq BtfView[id]
  <1> DEFINE Fine(x) == \A t \in DOMAIN btf : Met(t, x) /\ Resolve[t] = t /\ SizeOf[t] = Rust[x].size
                                              => RustView[x] \subseteq BtfView[t]
             Bad == {x \in DOMAIN Rust : ~Fine(x)}
  <1>1. PICK rank \in [DOMAIN Rust -> Nat] : \A x \in DOMAIN Rust :
               \A i \in DOMAIN Base(x).fields : rank[Base(x).fields[i].type] < rank[x]
    BY DEF RustTypes
  <1>2. PICK r : Ranked(btf, r)
    BY DEF BtfTypes
  <1>3. SUFFICES ASSUME Bad # {} PROVE FALSE
    OBVIOUS
  <1>4. PICK x \in Bad : \A w \in Bad : ~(rank[w] < rank[x])
    <2>1. Bad \in SUBSET DOMAIN Rust
      OBVIOUS
    <2> HIDE DEF Bad
    <2>2. QED
      BY <1>3, <2>1, Lowest
  <1>5. PICK t \in DOMAIN btf : /\ Met(t, x) /\ Resolve[t] = t /\ SizeOf[t] = Rust[x].size
                                /\ ~(RustView[x] \subseteq BtfView[t])
    BY <1>4
  <1> DEFINE e == Element(t)
  <1>6. x \in DOMAIN Rust /\ Rust[Rust[x].base] = Base(x) /\ e \in DOMAIN btf
    BY <1>2, <1>4, ElementIs DEF Base
  <1>7. ASSUME Base(x).kind # "int"
        PROVE  /\ FieldsMatch(e, Base(x))
               /\ \A i \in DOMAIN Base(x).fields :
                    RustView[Base(x).fields[i].type] \subseteq BtfView[Nested(e, Base(x))[i][1]]
    <2>1. Closed(e, Rust[x].base)
      BY <1>5 DEF Met
    <2>2. /\ FieldsMatch(e, Base(x))
          /\ \A i \in DOMAIN Base(x).fields :
               Owed(Nested(e, Base(x))[i][1], Base(x).fields[i].type)
      BY <1>6, <1>7, <2>1 DEF Closed
    <2>3. ASSUME NEW i \in DOMAIN Base(x).fields
          PROVE  RustView[Base(x).fields[i].type] \subseteq BtfView[Nested(e, Base(x))[i][1]]
      <3> DEFINE f == Base(x).fields[i]
      <3>1. f.type \in DOMAIN Rust /\ rank[f.type] < rank[x]
        BY <1>1, <1>6, FieldIs
      <3>2. Fine(f.type)
        BY <1>4, <3>1
      <3>3. PICK j \in Found(e, f) : TRUE
        BY <2>2 DEF FieldsMatch
      <3>4. MemberFor(e, f) = btf[e].members[j] /\ j \in DOMAIN btf[e].members
        BY <1>6, <3>3, OneMember
      <3>5. btf[e].members \in Members(DOMAIN btf)
        BY <1>6 DEF BtfTypes, Members
      <3>6. MemberFor(e, f).type \in DOMAIN btf
        BY <3>4, <3>5, MemberIs
      <3> DEFINE n == Resolve[MemberFor(e, f).type]
      <3>7. n \in DOMAIN btf /\ Resolve[n] = n
        BY <1>2, <3>6, ResolveIs
      <3>8. Nested(e, Base(x))[i] = <<n, f.type>>
        BY DEF Nested
      <3>9. SizeOf[n] = Rust[f.type].size
        BY <2>2 DEF FieldsMatch
      <3>10. Owed(n, f.type)
        BY <2>2, <3>8
      <3>11. Met(n, f.type)
        BY <3>10 DEF Owed
      <3> HIDE DEF n, f
      <3>12. RustView[f.type] \subseteq BtfView[n]
        BY <3>2, <3>7, <3>9, <3>11
      <3>13. QED
        BY <3>8, <3>12 DEF f
    <2>4. QED
      BY <2>2, <2>3
  <1>8. RustView[x] \subseteq BtfView[t]
    <2> HIDE DEF e
    <2>1. QED
      BY <1>5, <1>6, <1>7, LevelAgrees DEF e
  <1>9. QED
    BY <1>5, <1>8

\* What the search for the variable begins with.
LEMMA RootIs ==
  Types /\ btf \in Objects =>
    /\ Root \in DOMAIN btf /\ Resolve[Root] \in DOMAIN btf /\ Resolve[Resolve[Root]] = Resolve[Root]
    /\ BtfView[Resolve[Root]] = BtfView[Root]
    /\ ~IsStruct => ~Agrees
  <1> SUFFICES ASSUME Types, btf \in Objects
               PROVE  /\ Root \in DOMAIN btf /\ Resolve[Root] \in DOMAIN btf
                      /\ Resolve[Resolve[Root]] = Resolve[Root]
                      /\ BtfView[Resolve[Root]] = BtfView[Root]
                      /\ ~IsStruct => ~Agrees
    OBVIOUS
  <1>1. RustTypes /\ BtfTypes(btf)
    BY DEF Types
  <1>2. PICK rank : Ranked(btf, rank)
    BY <1>1 DEF BtfTypes
  <1>3. Root \in DOMAIN btf
    BY <1>1 DEF BtfTypes
  <1>4. Resolve[Root] \in DOMAIN btf /\ Resolve[Resolve[Root]] = Resolve[Root]
    BY <1>1, <1>2, <1>3, ResolveIs
  <1>5. BtfView[Resolve[Root]] = BtfView[Root]
    BY <1>1, <1>3, BtfViewIs
  <1>6. ASSUME Agrees PROVE IsStruct
    <2>1. Struct \in DOMAIN Rust /\ Base(Struct).kind = "struct"
      BY <1>1 DEF RustTypes, Base
    <2>2. RustView[Struct] \subseteq BtfView[Resolve[Root]]
      BY <1>5, <1>6 DEF Agrees
    <2>3. FieldsMatch(Element(Resolve[Root]), Base(Struct))
      BY <1>1, <1>4, <2>1, <2>2, AgreesOnLevel
    <2>4. Element(Resolve[Root]) = Resolve[Root]
      BY <1>6 DEF Agrees, Element
    <2>5. QED
      BY <2>1, <2>3, <2>4 DEF FieldsMatch, IsStruct
  <1>7. QED
    BY <1>3, <1>4, <1>5, <1>6

LEMMA VerdictIsRight ==
  ASSUME Types, CompareInv
  PROVE  AcceptedAgrees
  <1>1. ASSUME verdict = "accepted", OneTypeEach PROVE Agrees
    <2> DEFINE id == Resolve[Root]
    <2>1. btf \in Objects /\ RustTypes /\ BtfTypes(btf)
      BY <1>1 DEF CompareInv, CompareTypes, Types
    <2>2. id \in DOMAIN btf /\ Resolve[id] = id /\ BtfView[id] = BtfView[Root]
      BY <2>1, RootIs
    <2>3. btf[id].kind = "struct" /\ Element(id) = id /\ pending = <<>>
      BY <1>1 DEF CompareInv, CompareTypes, IsStruct, Element
    <2>4. Struct \in DOMAIN Rust /\ Rust[Struct].base = Struct /\ Rust[Struct].kind = "struct"
      BY <2>1 DEF RustTypes
    <2>5. Owed(id, Struct) /\ \A p \in pairs : Closed(p[1], p[2])
      BY <1>1 DEF CompareInv, Followed
    <2>6. Met(id, Struct)
      BY <2>3, <2>5 DEF Owed
    <2>7. <<id, Struct>> \in pairs
      BY <2>3, <2>4, <2>6 DEF Met
    <2>8. Closed(id, Struct)
      BY <2>5, <2>7
    <2>9. btf[id].size = Rust[Struct].size
      BY <2>4, <2>8 DEF Closed, FieldsMatch
    <2>10. SizeOf[id] = Rust[Struct].size
      BY <2>1, <2>2, <2>3, <2>9, SizeOfIs
    <2>11. pairs \subseteq (DOMAIN btf) \X (DOMAIN Rust)
      BY DEF CompareInv, CompareTypes
    <2> HIDE DEF id
    <2>12. RustView[Struct] \subseteq BtfView[id]
      BY <2>1, <2>2, <2>3, <2>4, <2>5, <2>6, <2>10, <2>11, MetAgrees
    <2>13. QED
      BY <2>2, <2>3, <2>12 DEF Agrees, id
  <1>2. ASSUME verdict = "rejected" PROVE ~Agrees
    BY <1>2 DEF CompareInv, Agreeing
  <1>3. QED
    BY <1>1, <1>2 DEF AcceptedAgrees

LEMMA FindKeeps ==
  ASSUME Types, CompareInv, FindDescriptor
  PROVE  CompareInv'
  <1> DEFINE id == Resolve[Root]
  <1>1. btf' \in Objects
    BY DEF FindDescriptor
  <1>2. /\ id' \in DOMAIN btf' /\ Resolve'[id'] = id' /\ BtfView'[id'] = BtfView'[Root]
        /\ IsStruct' \/ ~Agrees'
    <2>1. (Types /\ btf \in Objects =>
             /\ Root \in DOMAIN btf /\ Resolve[Root] \in DOMAIN btf /\ Resolve[Resolve[Root]] = Resolve[Root]
             /\ BtfView[Resolve[Root]] = BtfView[Root]
             /\ ~IsStruct => ~Agrees)'
      BY RootIs, PTL
    <2>2. QED
      BY <1>1, <2>1
  <1>3. Struct \in DOMAIN Rust
    BY DEF Types, RustTypes
  <1>4. cache' = {} /\ pairs' = {}
    BY DEF FindDescriptor, CompareInv, CompareTypes
  <1>5. CASE IsStruct'
    <2>1. verdict' = "none" /\ pending' = <<<<id', Struct>>>>
      BY <1>5 DEF FindDescriptor
    <2>2. /\ pending' \in Seq((DOMAIN btf') \X (DOMAIN Rust))
          /\ DOMAIN pending' = {1} /\ pending'[1] = <<id', Struct>>
      <3> HIDE DEF id
      <3>1. QED
        BY <1>2, <1>3, <2>1
    <2>3. CompareTypes'
      BY <1>1, <1>2, <1>4, <1>5, <2>1, <2>2 DEF CompareTypes
    <2>4. Followed'
      BY <1>4, <2>2 DEF Followed, Owed
    <2>5. Agreeing'
      BY <1>2, <2>1, <2>2 DEF Agreeing, Agrees
    <2>6. QED
      BY <2>3, <2>4, <2>5 DEF CompareInv
  <1>6. CASE ~IsStruct'
    <2>1. verdict' = "rejected" /\ pending' = <<>>
      BY <1>6 DEF FindDescriptor
    <2>2. CompareTypes'
      BY <1>1, <1>4, <2>1 DEF CompareTypes
    <2>3. QED
      BY <1>2, <1>6, <2>1, <2>2 DEF CompareInv, Followed, Agreeing
  <1>7. QED
    BY <1>5, <1>6

\* Joining what is nested to what was pending.
LEMMA Joined ==
  ASSUME NEW S, NEW s \in Seq(S), NEW u \in Seq(S)
  PROVE  /\ s \o u \in Seq(S)
         /\ \A i \in DOMAIN s : i \in DOMAIN (s \o u) /\ (s \o u)[i] = s[i]
         /\ \A i \in DOMAIN u : Len(s) + i \in DOMAIN (s \o u) /\ (s \o u)[Len(s) + i] = u[i]
         /\ \A i \in DOMAIN (s \o u) :
              (\E j \in DOMAIN s : (s \o u)[i] = s[j]) \/ (\E j \in DOMAIN u : (s \o u)[i] = u[j])
  <1>1. /\ s \o u \in Seq(S) /\ Len(s \o u) = Len(s) + Len(u)
        /\ \A i \in 1..(Len(s) + Len(u)) : (s \o u)[i] = IF i <= Len(s) THEN s[i] ELSE u[i - Len(s)]
    BY ConcatProperties
  <1>2. /\ Len(s) \in Nat /\ Len(u) \in Nat /\ DOMAIN s = 1..Len(s) /\ DOMAIN u = 1..Len(u)
        /\ DOMAIN (s \o u) = 1..(Len(s) + Len(u))
    BY <1>1, LenProperties
  <1>3. \A i \in DOMAIN s : i \in DOMAIN (s \o u) /\ (s \o u)[i] = s[i]
    BY <1>1, <1>2
  <1>4. \A i \in DOMAIN u : Len(s) + i \in DOMAIN (s \o u) /\ (s \o u)[Len(s) + i] = u[i]
    BY <1>1, <1>2
  <1>5. ASSUME NEW i \in DOMAIN (s \o u)
        PROVE  (\E j \in DOMAIN s : (s \o u)[i] = s[j]) \/ (\E j \in DOMAIN u : (s \o u)[i] = u[j])
    <2>1. CASE i <= Len(s)
      BY <1>1, <1>2, <2>1
    <2>2. CASE ~(i <= Len(s))
      <3>1. i - Len(s) \in DOMAIN u /\ (s \o u)[i] = u[i - Len(s)]
        BY <1>1, <1>2, <2>2
      <3>2. QED
        BY <3>1
    <2>3. QED
      BY <2>1, <2>2
  <1>6. QED
    BY <1>1, <1>3, <1>4, <1>5

LEMMA Rest ==
  ASSUME NEW S, NEW s \in Seq(S), s # <<>>
  PROVE  /\ Head(s) \in S /\ Head(s) = s[1] /\ 1 \in DOMAIN s /\ Tail(s) \in Seq(S)
         /\ \A i \in DOMAIN Tail(s) : i + 1 \in DOMAIN s /\ Tail(s)[i] = s[i + 1]
         /\ \A i \in DOMAIN s : i = 1 \/ \E j \in DOMAIN Tail(s) : Tail(s)[j] = s[i]
  <1>1. /\ Head(s) \in S /\ Tail(s) \in Seq(S) /\ Len(Tail(s)) = Len(s) - 1
        /\ \A i \in 1..Len(Tail(s)) : Tail(s)[i] = s[i + 1]
    BY HeadTailProperties
  <1>2. /\ Len(s) \in Nat \ {0} /\ DOMAIN s = 1..Len(s) /\ DOMAIN Tail(s) = 1..(Len(s) - 1)
        /\ Head(s) = s[1]
    BY <1>1, LenProperties, EmptySeq
  <1>3. \A i \in DOMAIN Tail(s) : i + 1 \in DOMAIN s /\ Tail(s)[i] = s[i + 1]
    BY <1>1, <1>2
  <1>4. ASSUME NEW i \in DOMAIN s, i # 1 PROVE \E j \in DOMAIN Tail(s) : Tail(s)[j] = s[i]
    <2>1. i - 1 \in DOMAIN Tail(s) /\ Tail(s)[i - 1] = s[i]
      BY <1>1, <1>2, <1>4
    <2>2. QED
      BY <2>1
  <1>5. QED
    BY <1>1, <1>2, <1>3, <1>4

\* What Compare does with the first that is pending.
LEMMA NestedIs ==
  ASSUME Types, btf \in Objects, NEW id \in DOMAIN btf, NEW x \in DOMAIN Rust, FieldsMatch(Element(id), Base(x))
  PROVE  /\ Nested(Element(id), Base(x)) \in Seq((DOMAIN btf) \X (DOMAIN Rust))
         /\ DOMAIN Nested(Element(id), Base(x)) = DOMAIN Base(x).fields
         /\ \A i \in DOMAIN Base(x).fields :
              /\ Nested(Element(id), Base(x))[i] =
                   <<Nested(Element(id), Base(x))[i][1], Base(x).fields[i].type>>
              /\ Resolve[Nested(Element(id), Base(x))[i][1]] = Nested(Element(id), Base(x))[i][1]
  <1> DEFINE e == Element(id)
             N == Nested(e, Base(x))
  <1>1. RustTypes /\ BtfTypes(btf)
    BY DEF Types
  <1>2. PICK rank : Ranked(btf, rank)
    BY <1>1 DEF BtfTypes
  <1>3. e \in DOMAIN btf
    BY <1>1, <1>2, ElementIs
  <1>4. ASSUME NEW i \in DOMAIN Base(x).fields
        PROVE  /\ N[i] \in (DOMAIN btf) \X (DOMAIN Rust) /\ N[i] = <<N[i][1], Base(x).fields[i].type>>
               /\ Resolve[N[i][1]] = N[i][1]
    <2> DEFINE f == Base(x).fields[i]
    <2>1. f.type \in DOMAIN Rust
      BY <1>1, FieldIs
    <2>2. PICK j \in Found(e, f) : TRUE
      BY DEF FieldsMatch
    <2>3. MemberFor(e, f) = btf[e].members[j] /\ j \in DOMAIN btf[e].members
      BY <1>1, <1>3, <2>2, OneMember
    <2>4. btf[e].members \in Members(DOMAIN btf)
      BY <1>1, <1>3 DEF BtfTypes, Members
    <2>5. MemberFor(e, f).type \in DOMAIN btf
      BY <2>3, <2>4, MemberIs
    <2> DEFINE n == Resolve[MemberFor(e, f).type]
    <2>6. n \in DOMAIN btf /\ Resolve[n] = n
      BY <1>1, <1>2, <2>5, ResolveIs
    <2>7. N[i] = <<n, f.type>>
      BY DEF Nested
    <2> HIDE DEF n, f, N
    <2>8. QED
      BY <2>1, <2>6, <2>7 DEF f
  <1>5. Base(x).fields \in Seq([name : STRING, offset : Nat, type : DOMAIN Rust])
    BY <1>1, FieldIs DEF Members
  <1>6. DOMAIN N = DOMAIN Base(x).fields
    BY DEF Nested
  <1>7. PICK k \in Nat : DOMAIN Base(x).fields = 1..k
    BY <1>5, LenProperties
  <1>8. N = [i \in 1..k |-> N[i]]
    BY <1>7 DEF Nested
  <1>9. N \in Seq((DOMAIN btf) \X (DOMAIN Rust))
    <2> HIDE DEF N
    <2>1. N \in [1..k -> (DOMAIN btf) \X (DOMAIN Rust)]
      BY <1>4, <1>7, <1>8
    <2>2. QED
      BY <1>7, <2>1
  <1>10. QED
    BY <1>4, <1>6, <1>9

LEMMA CompareKeeps ==
  ASSUME Types, CompareInv, Compare
  PROVE  CompareInv'
  <1>13. PICK id, x, e, b :
           id = Head(pending)[1] /\ x = Head(pending)[2] /\ e = Element(id) /\ b = Rust[x].base
    OBVIOUS
  <1> DEFINE Known == x \in cache \/ Base(x).kind = "int"
             T == (DOMAIN btf) \X (DOMAIN Rust)
  <1>1. /\ verdict = "none" /\ pending # <<>> /\ btf \in Objects /\ btf' = btf /\ IsStruct
        /\ RustTypes /\ BtfTypes(btf) /\ pending \in Seq(T)
    BY DEF Compare, CompareInv, CompareTypes, Types
  <1>2. /\ Head(pending) \in T /\ Head(pending) = pending[1] /\ 1 \in DOMAIN pending
        /\ Tail(pending) \in Seq(T)
        /\ \A i \in DOMAIN Tail(pending) : i + 1 \in DOMAIN pending /\ Tail(pending)[i] = pending[i + 1]
        /\ \A i \in DOMAIN pending : i = 1 \/ \E j \in DOMAIN Tail(pending) : Tail(pending)[j] = pending[i]
    <2> HIDE DEF T
    <2>1. QED
      BY <1>1, Rest
  <1>3. id \in DOMAIN btf /\ x \in DOMAIN Rust /\ pending[1] = <<id, x>> /\ Resolve[id] = id
    BY <1>2, <1>13 DEF CompareInv, CompareTypes
  <1>4. e \in DOMAIN btf /\ b \in DOMAIN Rust /\ Rust[b].base = b /\ Rust[b] = Base(x)
    <2>1. PICK rank : Ranked(btf, rank)
      BY <1>1 DEF BtfTypes
    <2>2. e \in DOMAIN btf
      BY <1>1, <1>3, <1>13, <2>1, ElementIs
    <2>3. QED
      BY <1>1, <1>3, <1>13, <2>2 DEF RustTypes, Base
  <1>5. /\ pairs' = pairs \cup {<<e, b>>} /\ cache' = cache \cup {x}
        /\ \/ Known /\ pending' = Tail(pending) /\ verdict' = verdict
           \/ /\ ~Known /\ FieldsMatch(e, Base(x)) /\ verdict' = verdict
              /\ pending' = Nested(e, Base(x)) \o Tail(pending)
           \/ ~Known /\ ~FieldsMatch(e, Base(x)) /\ pending' = <<>> /\ verdict' = "rejected"
    BY <1>13 DEF Compare
  <1>6. /\ Resolve' = Resolve /\ BtfView' = BtfView
        /\ \A i : Element(i)' = Element(i)
        /\ \A t, r : FieldsMatch(t, r)' = FieldsMatch(t, r) /\ Nested(t, r)' = Nested(t, r)
        /\ IsStruct' = IsStruct /\ Agrees' = Agrees
    BY <1>1, SameTypes
  <1>7. ASSUME FieldsMatch(e, Base(x))
        PROVE  /\ Nested(e, Base(x)) \in Seq(T)
               /\ DOMAIN Nested(e, Base(x)) = DOMAIN Base(x).fields
               /\ \A i \in DOMAIN Base(x).fields :
                    /\ Nested(e, Base(x))[i] = <<Nested(e, Base(x))[i][1], Base(x).fields[i].type>>
                    /\ Resolve[Nested(e, Base(x))[i][1]] = Nested(e, Base(x))[i][1]
    BY <1>1, <1>3, <1>7, <1>13, NestedIs
  <1> HIDE DEF T
  <1>8. ASSUME ~Known, FieldsMatch(e, Base(x))
        PROVE  /\ pending' \in Seq(T)
               /\ \A i \in DOMAIN Nested(e, Base(x)) :
                    i \in DOMAIN pending' /\ pending'[i] = Nested(e, Base(x))[i]
               /\ \A i \in DOMAIN pending : i = 1 \/ \E j \in DOMAIN pending' : pending'[j] = pending[i]
               /\ \A i \in DOMAIN pending' :
                    (\E j \in DOMAIN Nested(e, Base(x)) : pending'[i] = Nested(e, Base(x))[j])
                      \/ \E j \in DOMAIN pending : pending'[i] = pending[j]
    <2> DEFINE s == Nested(e, Base(x))
               u == Tail(pending)
    <2>1. pending' = s \o u
      BY <1>5, <1>8
    <2>7. s \in Seq(T) /\ u \in Seq(T)
      BY <1>2, <1>7, <1>8
    <2> HIDE DEF s, u
    <2>2. /\ s \o u \in Seq(T)
          /\ \A i \in DOMAIN s : i \in DOMAIN (s \o u) /\ (s \o u)[i] = s[i]
          /\ \A i \in DOMAIN u : Len(s) + i \in DOMAIN (s \o u) /\ (s \o u)[Len(s) + i] = u[i]
          /\ \A i \in DOMAIN (s \o u) :
               (\E j \in DOMAIN s : (s \o u)[i] = s[j]) \/ (\E j \in DOMAIN u : (s \o u)[i] = u[j])
      BY <2>7, Joined
    <2>3. \A i \in DOMAIN pending : i = 1 \/ \E j \in DOMAIN pending' : pending'[j] = pending[i]
      <3>1. ASSUME NEW i \in DOMAIN pending, i # 1 PROVE \E j \in DOMAIN pending' : pending'[j] = pending[i]
        <4>1. PICK j \in DOMAIN u : u[j] = pending[i]
          BY <1>2, <3>1 DEF u
        <4>2. Len(s) + j \in DOMAIN pending' /\ pending'[Len(s) + j] = pending[i]
          BY <2>1, <2>2, <4>1
        <4>3. QED
          BY <4>2
      <3>2. QED
        BY <3>1
    <2>4. ASSUME NEW j \in DOMAIN u PROVE \E i \in DOMAIN pending : u[j] = pending[i]
      BY <1>2 DEF u
    <2>5. ASSUME NEW i \in DOMAIN pending'
          PROVE  (\E j \in DOMAIN s : pending'[i] = s[j]) \/ \E j \in DOMAIN pending : pending'[i] = pending[j]
      BY <2>1, <2>2, <2>4
    <2>6. QED
      BY <2>1, <2>2, <2>3, <2>5 DEF s
  <1>9. CompareTypes'
    <2>1. /\ cache' \subseteq DOMAIN Rust /\ pairs' \subseteq T
          /\ \A p \in pairs' : Rust[p[2]].base = p[2]
      BY <1>3, <1>4, <1>5 DEF CompareInv, CompareTypes, T
    <2>2. CASE Known /\ pending' = Tail(pending) /\ verdict' = verdict
      <3>1. \A i \in DOMAIN pending' : Resolve[pending'[i][1]] = pending'[i][1]
        BY <1>2, <2>2 DEF CompareInv, CompareTypes
      <3>2. pending' \in Seq(T)
        BY <1>2, <2>2
      <3>3. QED
        BY <1>1, <1>6, <2>1, <2>2, <3>1, <3>2 DEF CompareTypes, T
    <2>3. CASE ~Known /\ FieldsMatch(e, Base(x)) /\ verdict' = verdict
      <3>1. ASSUME NEW i \in DOMAIN pending' PROVE Resolve[pending'[i][1]] = pending'[i][1]
        <4>1. CASE \E j \in DOMAIN Nested(e, Base(x)) : pending'[i] = Nested(e, Base(x))[j]
          BY <1>7, <2>3, <4>1
        <4>2. CASE \E j \in DOMAIN pending : pending'[i] = pending[j]
          BY <4>2 DEF CompareInv, CompareTypes
        <4>3. QED
          BY <1>8, <2>3, <4>1, <4>2
      <3>2. pending' \in Seq(T)
        BY <1>8, <2>3
      <3>3. QED
        BY <1>1, <1>6, <2>1, <2>3, <3>1, <3>2 DEF CompareTypes, T
    <2>4. CASE pending' = <<>> /\ verdict' = "rejected"
      BY <1>1, <1>6, <2>1, <2>4 DEF CompareTypes, T
    <2>5. QED
      BY <1>5, <2>2, <2>3, <2>4
  <1>10. Agreeing'
    <2>1. SUFFICES ASSUME Agrees
                   PROVE  /\ verdict' # "rejected"
                          /\ \A i \in DOMAIN pending' : RustView[pending'[i][2]] \subseteq BtfView[pending'[i][1]]
      BY <1>6 DEF Agreeing
    <2>2. \A i \in DOMAIN pending : RustView[pending[i][2]] \subseteq BtfView[pending[i][1]]
      BY <1>1, <2>1 DEF CompareInv, Agreeing
    <2>3. RustView[x] \subseteq BtfView[id]
      <3>1. RustView[pending[1][2]] \subseteq BtfView[pending[1][1]]
        BY <1>2, <2>2
      <3>2. pending[1][2] = x /\ pending[1][1] = id
        BY <1>2, <1>13
      <3>3. QED
        BY <3>1, <3>2
    <2>4. ASSUME ~Known
          PROVE  /\ FieldsMatch(e, Base(x))
                 /\ \A i \in DOMAIN Base(x).fields :
                      RustView[Base(x).fields[i].type] \subseteq BtfView[Nested(e, Base(x))[i][1]]
      BY <1>1, <1>3, <1>13, <2>3, <2>4, AgreesOnLevel
    <2>5. CASE Known /\ pending' = Tail(pending) /\ verdict' = verdict
      BY <1>1, <1>2, <2>2, <2>5
    <2>6. CASE ~Known /\ FieldsMatch(e, Base(x)) /\ verdict' = verdict
      <3>1. ASSUME NEW i \in DOMAIN pending'
            PROVE  RustView[pending'[i][2]] \subseteq BtfView[pending'[i][1]]
        <4>1. CASE \E j \in DOMAIN Nested(e, Base(x)) : pending'[i] = Nested(e, Base(x))[j]
          <5>1. PICK j \in DOMAIN Base(x).fields : pending'[i] = Nested(e, Base(x))[j]
            BY <1>7, <2>6, <4>1
          <5>2. pending'[i][2] = Base(x).fields[j].type
            BY <1>7, <2>6, <5>1
          <5>3. QED
            BY <2>4, <2>6, <5>1, <5>2
        <4>2. CASE \E j \in DOMAIN pending : pending'[i] = pending[j]
          BY <2>2, <4>2
        <4>3. QED
          BY <1>8, <2>6, <4>1, <4>2
      <3>2. QED
        BY <1>1, <2>6, <3>1
    <2>7. QED
      BY <1>5, <2>4, <2>5, <2>6
  <1>11. Followed'
    <2>1. SUFFICES ASSUME verdict' \in {"none", "accepted"}, OneTypeEach'
                   PROVE  /\ Owed(Resolve[Root], Struct)'
                          /\ \A y \in cache' : \E t : <<t, Rust[y].base>> \in pairs'
                          /\ \A p \in pairs' : Closed(p[1], p[2])'
      BY DEF Followed
    <2>2. OneTypeEach
      BY <1>5, <2>1 DEF OneTypeEach
    <2>3. /\ Owed(Resolve[Root], Struct)
          /\ \A y \in cache : \E t : <<t, Rust[y].base>> \in pairs
          /\ \A p \in pairs : Closed(p[1], p[2])
      BY <1>1, <2>2 DEF CompareInv, Followed
    <2>4. \A i \in DOMAIN pending : i = 1 \/ \E j \in DOMAIN pending' : pending'[j] = pending[i]
      BY <1>2, <1>5, <1>8, <2>1
    <2>5. ASSUME NEW i, NEW y, Owed(i, y) PROVE Owed(i, y)'
      <3>1. CASE Met(i, y)
        BY <1>5, <1>6, <3>1 DEF Owed, Met
      <3>2. CASE \E j \in DOMAIN pending : pending[j] = <<i, y>>
        <4>1. PICK j \in DOMAIN pending : pending[j] = <<i, y>>
          BY <3>2
        <4>2. CASE j = 1
          <5>1. i = id /\ y = x
            BY <1>3, <4>1, <4>2
          <5>2. <<Element(i), Rust[y].base>> \in pairs'
            BY <1>5, <1>13, <5>1
          <5>3. QED
            BY <1>6, <5>2 DEF Owed, Met
        <4>3. CASE j # 1
          BY <2>4, <4>1, <4>3 DEF Owed
        <4>4. QED
          BY <4>2, <4>3
      <3>3. QED
        BY <2>5, <3>1, <3>2 DEF Owed
    <2>6. ASSUME NEW t, NEW c, Closed(t, c) PROVE Closed(t, c)'
      BY <1>6, <2>5, <2>6 DEF Closed
    <2>7. Owed(Resolve[Root], Struct)'
      <3> DEFINE r == Resolve[Root]
      <3>1. \A i : Owed(i, Struct) => Owed(i, Struct)'
        BY <2>5
      <3>2. r' = r
        BY <1>6
      <3>3. QED
        BY <2>3, <3>1, <3>2 DEF Owed, Met, Element
    <2>8. \A y \in cache' : \E t : <<t, Rust[y].base>> \in pairs'
      BY <1>5, <1>13, <2>3
    <2>9. Closed(e, b)'
      <3>1. CASE Known /\ x \in cache
        <4>1. PICK t : <<t, b>> \in pairs
          BY <1>13, <2>3, <3>1
        <4>2. t = e
          <5> DEFINE p == <<t, b>>
                     q == <<e, b>>
          <5>1. p \in pairs' /\ q \in pairs'
            BY <1>5, <4>1
          <5>2. p[2] = q[2] => p[1] = q[1]
            BY <2>1, <5>1 DEF OneTypeEach
          <5>3. QED
            BY <5>2
        <4>3. Closed(e, b)
          BY <2>3, <4>1, <4>2
        <4>4. QED
          BY <1>6, <2>5, <4>3 DEF Closed
      <3>2. CASE Base(x).kind = "int"
        BY <1>4, <3>2 DEF Closed
      <3>3. CASE ~Known
        <4>1. FieldsMatch(e, Rust[b])
          BY <1>4, <1>5, <2>1, <3>3
        <4>2. ASSUME NEW i \in DOMAIN Rust[b].fields
              PROVE  Owed(Nested(e, Rust[b])[i][1], Rust[b].fields[i].type)'
          <5>1. i \in DOMAIN pending' /\ pending'[i] = <<Nested(e, Rust[b])[i][1], Rust[b].fields[i].type>>
            BY <1>4, <1>7, <1>8, <3>3, <4>1, <4>2
          <5>2. QED
            BY <1>6, <5>1 DEF Owed
        <4>3. QED
          BY <1>6, <4>1, <4>2 DEF Closed
      <3>4. QED
        BY <3>1, <3>2, <3>3
    <2>10. ASSUME NEW p \in pairs' PROVE Closed(p[1], p[2])'
      <3>1. CASE p \in pairs
        BY <2>3, <2>6, <3>1
      <3>2. CASE p = <<e, b>>
        BY <2>9, <3>2
      <3>3. QED
        BY <1>5, <3>1, <3>2
    <2>11. QED
      BY <2>7, <2>8, <2>10
  <1>12. QED
    BY <1>9, <1>10, <1>11 DEF CompareInv

LEMMA NothingCompared ==
  ASSUME CompareInv, UNCHANGED <<btf, pending, cache, pairs>>,
         verdict' = verdict \/ (verdict = "none" /\ pending = <<>> /\ verdict' = "accepted")
  PROVE  CompareInv'
  <1>1. /\ Resolve' = Resolve /\ BtfView' = BtfView
        /\ \A i : Element(i)' = Element(i)
        /\ \A t, r : FieldsMatch(t, r)' = FieldsMatch(t, r) /\ Nested(t, r)' = Nested(t, r)
        /\ IsStruct' = IsStruct /\ Agrees' = Agrees
    BY SameTypes
  <1>2. CompareTypes'
    BY <1>1 DEF CompareInv, CompareTypes
  <1>3. Agreeing'
    BY <1>1 DEF CompareInv, Agreeing
  <1>4. Followed'
    <2>1. \A i, y : Owed(i, y)' = Owed(i, y)
      BY <1>1 DEF Owed, Met
    <2>2. \A t, c : Closed(t, c)' = Closed(t, c)
      BY <1>1, <2>1 DEF Closed
    <2>3. Owed(Resolve[Root], Struct)' = Owed(Resolve[Root], Struct)
      BY <1>1 DEF Owed, Met, Element
    <2>4. OneTypeEach' = OneTypeEach
      BY DEF OneTypeEach
    <2>5. QED
      BY <2>2, <2>3, <2>4 DEF CompareInv, Followed
  <1>5. QED
    BY <1>2, <1>3, <1>4 DEF CompareInv

LEMMA CompareInvariance ==
  ASSUME Types
  PROVE  Spec => []CompareInv
  <1>1. Init => CompareInv
    <2> SUFFICES ASSUME Init PROVE CompareInv
      OBVIOUS
    <2>1. /\ btf = <<>> /\ pending = <<>> /\ cache = {} /\ verdict = "unknown" /\ pairs = {}
      BY DEF Init, DescriptorInit
    <2>2. CompareTypes
      BY <2>1 DEF CompareTypes
    <2>3. QED
      BY <2>1, <2>2 DEF CompareInv, Followed, Agreeing
  <1>2. ASSUME CompareInv, [Next]_vars
        PROVE  CompareInv'
    <2>1. CASE UNCHANGED <<btf, pending, cache, verdict, pairs>>
      BY <1>2, <2>1, NothingCompared
    <2>2. CASE FindDescriptor
      BY <1>2, <2>2, FindKeeps
    <2>3. CASE Compare
      BY <1>2, <2>3, CompareKeeps
    <2>4. CASE Accept
      BY <1>2, <2>4, NothingCompared DEF Accept
    <2>5. CASE Convert \/ TakeField
      BY <2>1, <2>5 DEF Convert, TakeField, layoutVars
    <2>6. QED
      BY <1>2, <2>1, <2>2, <2>3, <2>4, <2>5, PartsAreApart
      DEF DescriptorNext, descriptorVars, layoutVars
  <1>3. QED
    BY <1>1, <1>2, PTL DEF Spec

\* Whatever types the loader and a program have, a program is accepted only if its types
\* agree with the loader's, as long as each Rust type has one C type there, and rejected only
\* if they do not.
THEOREM VerdictAgrees ==
  ASSUME Types
  PROVE  Spec => []AcceptedAgrees
  <1>1. CompareInv => AcceptedAgrees
    BY VerdictIsRight
  <1>2. QED
    BY <1>1, CompareInvariance, PTL

-----------------------------------------------------------------------------
(* The types                                                               *)

SelectionTypes ==
  /\ dev \in Modalias /\ here \in {"new", "here", "gone"} /\ ignore \in BOOLEAN
  /\ tree \subseteq Path /\ hwdb \subseteq Name /\ rules \subseteq Name
  /\ db \in Properties /\ env \in Properties
  /\ event \in {"none", "add", "typed"} /\ jobs \subseteq Name \cup {Search}
  /\ todo \subseteq Path /\ loaded \subseteq Path
  /\ changes \in 0..MaxChanges
  /\ {quiet, bare, typed, stray} \subseteq BOOLEAN
  /\ \A p, q \in loaded : p.name = q.name => p = q

LEMMA LastIsOne == Last(Dirs) \in Range(Dirs)
  <1>1. Dirs \in Seq(Range(Dirs)) /\ Dirs # <<>>
    BY SelectionAssumption
  <1>2. Len(Dirs) \in 1..Len(Dirs) /\ DOMAIN Dirs = 1..Len(Dirs)
    BY <1>1, LenProperties, EmptySeq
  <1>3. QED
    BY <1>2 DEF Last, Range

LEMMA FilesAre ==
  ASSUME tree \subseteq Path
  PROVE  /\ Packaged \subseteq Name
         /\ \A n \in Name : FirstMatching(n) \subseteq Path
         /\ \A a : a.name \in Name => Named(a) \subseteq Path
  <1>1. Packaged \subseteq Name
    BY DEF Packaged, Path
  <1>2. \A n \in Name : FirstMatching(n) \subseteq Path
    <2>1. \A i \in DOMAIN Dirs : Dirs[i] \in Range(Dirs)
      BY DEF Range
    <2>2. QED
      BY <2>1 DEF FirstMatching, Path
  <1>3. QED
    BY <1>1, <1>2 DEF Named

\* The rules say of a device what they may.
LEMMA RulesSay ==
  ASSUME SelectionTypes
  PROVE  /\ [names |-> Covered, ignore |-> ignore, prop |-> TRUE] \in Properties
         /\ NoProperties \in Properties
         /\ Ruled \subseteq Name /\ Selecting \subseteq Name
  <1> USE DEF SelectionTypes, Properties
  <1>1. Covered \subseteq Name /\ Ruled \subseteq Name
    BY DEF Covered, Ruled
  <1>2. Selecting \subseteq Name
    BY DEF Selecting
  <1>3. NoProperties \in Properties
    BY DEF NoProperties
  <1>4. QED
    BY <1>1, <1>2, <1>3

LEMMA SelectionTypesStep ==
  ASSUME SelectionTypes, SelectionNext
  PROVE  SelectionTypes'
  <1> USE DEF SelectionTypes, systemVars, fileVars, udevVars, pastVars
  <1>1. CASE AddEvent
    <2>1. env' \in Properties /\ jobs' \subseteq Name \cup {Search}
      BY <1>1, RulesSay DEF AddEvent
    <2>2. bare' \in BOOLEAN /\ stray' \in BOOLEAN /\ quiet' \in BOOLEAN
      BY <1>1, Zenon DEF AddEvent
    <2>3. QED
      BY <1>1, <2>1, <2>2 DEF AddEvent
  <1>2. CASE StartSearch
    <2>1. UNION {FirstMatching(n) : n \in Selecting} \subseteq Path
      BY RulesSay, FilesAre
    <2>2. QED
      BY <1>2, <2>1 DEF StartSearch
  <1>3. CASE StartNamed
    <2>1. PICK n \in jobs : jobs' = jobs \ {n} /\ todo' = Named([dir |-> Etc, name |-> n])
      BY <1>3 DEF StartNamed
    <2>2. n \in Name
      BY <1>3 DEF StartNamed
    <2>3. todo' \subseteq Path
      BY <2>1, <2>2, FilesAre
    <2>4. QED
      BY <1>3, <2>1, <2>3 DEF StartNamed
  <1>4. CASE TryFile
    <2>1. PICK p \in todo :
            IF Loads(p)
            THEN /\ loaded' = loaded \cup {p}
                 /\ todo' = {q \in todo : q.name.stem # p.name.stem}
            ELSE loaded' = LeftBy(p) /\ todo' = todo \ {p}
      BY <1>4 DEF TryFile
    <2>2. LeftBy(p) \subseteq loaded
      BY DEF LeftBy
    <2>3. loaded' \subseteq Path /\ todo' \subseteq Path
      BY <2>1, <2>2
    <2>4. \A r, q \in loaded' : r.name = q.name => r = q
      BY <2>1, <2>2 DEF Loads
    <2>5. QED
      BY <1>4, <2>3, <2>4 DEF TryFile
  <1>5. CASE EventDone \/ RemoveEvent \/ CmdRemove
    BY <1>5, RulesSay DEF EventDone, RemoveEvent, CmdRemove
  <1>6. ASSUME NEW a \in Argument, Add(a) \/ AddMatching(a)
        PROVE  SelectionTypes'
    <2>1. Named(a) \subseteq Path
      BY FilesAre DEF Argument
    <2>2. QED
      BY <1>6, <2>1 DEF Add, AddMatching
  <1>7. CASE ChangeFile \/ UpdateHwdb \/ Install \/ RemoveRule
    <2>1. Change
      BY <1>7 DEF ChangeFile, UpdateHwdb, Install, RemoveRule
    <2>2. changes' \in 0..MaxChanges
      BY <2>1, SelectionAssumption DEF Change
    <2>3. tree' \subseteq Path /\ hwdb' \subseteq Name /\ rules' \subseteq Name
      BY <1>7, FilesAre DEF ChangeFile, UpdateHwdb, Install, RemoveRule, Path
    <2>4. QED
      BY <2>1, <2>2, <2>3 DEF Change
  <1>8. QED
    BY <1>1, <1>2, <1>3, <1>4, <1>5, <1>6, <1>7 DEF SelectionNext

LEMMA SelectionTyping == Spec => []SelectionTypes
  <1>1. Init => SelectionTypes
    <2> SUFFICES ASSUME SelectionInit PROVE SelectionTypes
      BY DEF Init
    <2>1. tree \subseteq Path
      BY LastIsOne DEF SelectionInit, Path
    <2>2. hwdb \subseteq Name
      BY <2>1, FilesAre DEF SelectionInit
    <2>3. NoProperties \in Properties
      BY DEF NoProperties, Properties
    <2>4. quiet \in BOOLEAN /\ bare \in BOOLEAN /\ typed \in BOOLEAN /\ stray \in BOOLEAN
      BY DEF SelectionInit
    <2>5. QED
      BY <2>1, <2>2, <2>3, <2>4, SelectionAssumption DEF SelectionInit, SelectionTypes
  <1>2. ASSUME SelectionTypes, [Next]_vars
        PROVE  SelectionTypes'
    <2>1. CASE UNCHANGED selectionVars
      BY <1>2, <2>1 DEF SelectionTypes, selectionVars
    <2>2. QED
      BY <1>2, <2>1, SelectionTypesStep, PartsAreApart
  <1>3. QED
    BY <1>1, <1>2, PTL DEF Spec

InjectionTypes ==
  /\ sizes \in [Property -> Sizes \cup {1}] /\ offset \in [Variables -> 0..Room]
  /\ device \in [Property -> Given("device")] /\ options \in Options
  /\ preset \in BOOLEAN /\ writes \in Given("probe")
  /\ {memory, slot, printed} \subseteq Seq(Char)
  /\ injection \in {"open", "inject", "probe", "read", "done"}

\* Before an object is opened there is none, and nothing is printed before the end.
NothingYet ==
  /\ injection = "open" =>
       /\ sizes = [p \in Property |-> 1] /\ offset = [p \in Variables |-> 0]
       /\ device = [p \in Property |-> Nothing] /\ options = <<>>
       /\ preset = FALSE /\ writes = Nothing
       /\ memory = <<>> /\ slot = <<>>
  /\ injection # "done" => printed = <<>>

LEMMA StringAtIs ==
  ASSUME NEW b \in Seq(Char)
  PROVE  StringAt(b, 1) \in Seq(Char)
  <1> DEFINE Ends == {j \in 1..Len(b) : b[j] = NUL} \cup {Len(b) + 1}
             rank == [j \in Nat |-> j]
             e == CHOOSE j \in Ends : \A k \in Ends : j <= k
  <1>1. Len(b) \in Nat /\ \A j \in 1..Len(b) : b[j] \in Char
    BY LenProperties, ElementOfSeq
  <1>2. Ends \subseteq 1..(Len(b) + 1) /\ Ends # {}
    BY <1>1
  <1>3. PICK j \in Ends : \A k \in Ends : ~(rank[k] < rank[j])
    <2>1. rank \in [Nat -> Nat] /\ Ends \in SUBSET Nat
      BY <1>1
    <2> HIDE DEF rank, Ends
    <2>2. QED
      BY <1>2, <2>1, Lowest
  <1>4. \A k \in Ends : k \in Nat /\ rank[k] = k
    BY <1>1
  <1> HIDE DEF Ends, rank
  <1>5. \A k \in Ends : j <= k
    BY <1>3, <1>4
  <1>6. e \in 1..(Len(b) + 1)
    BY <1>2, <1>5
  <1>7. StringAt(b, 1) = SubSeq(b, 1, e - 1)
    BY DEF StringAt, Ends
  <1> HIDE DEF e
  <1>8. e - 1 \in Int /\ \A k \in 1..(e - 1) : b[k] \in Char
    BY <1>1, <1>6
  <1>9. SubSeq(b, 1, e - 1) \in Seq(Char)
    BY <1>8, SubSeqProperties
  <1>10. QED
    BY <1>7, <1>9

LEMMA InjectionTypesAre ==
  ASSUME InjectionInv, NothingYet
  PROVE  InjectionTypes
  <1>1. CASE injection = "open"
    <2>1. /\ sizes \in [Property -> Sizes \cup {1}] /\ device \in [Property -> Given("device")]
          /\ options \in Options /\ preset \in BOOLEAN /\ writes \in Given("probe")
      BY <1>1 DEF NothingYet, Given, Options
    <2>2. offset \in [Variables -> 0..Room]
      BY <1>1, InjectionAssumption DEF NothingYet
    <2>3. memory \in Seq(Char) /\ slot \in Seq(Char) /\ printed \in Seq(Char)
      BY <1>1, EmptySeq DEF NothingYet
    <2>4. QED
      BY <1>1, <2>1, <2>2, <2>3 DEF InjectionTypes
  <1>2. CASE injection # "open"
    <2>1. Opened /\ injection \in {"inject", "probe", "read", "done"}
      BY <1>2 DEF InjectionInv
    <2>2. /\ sizes \in [Property -> Sizes \cup {1}] /\ offset \in [Variables -> 0..Room]
          /\ device \in [Property -> Given("device")] /\ options \in Options
          /\ preset \in BOOLEAN /\ writes \in Given("probe")
      BY <2>1 DEF Opened, Layouts
    <2>3. Section \in Seq(Char)
      <3>1. Section \in [1..Room -> Char]
        BY DEF Section, Char, NUL
      <3>2. QED
        BY <3>1, ArrayIsSeq, InjectionAssumption
    <2>4. memory \in Seq(Char)
      BY <2>1, <2>3, InjectedIsSeq DEF InjectionInv
    <2>5. slot \in Seq(Char)
      BY <2>1, SlotsAre DEF InjectionInv
    <2>6. printed \in Seq(Char)
      BY <2>5, StringAtIs, EmptySeq DEF InjectionInv, NothingYet, SlotValue
    <2>7. QED
      BY <2>1, <2>2, <2>4, <2>5, <2>6 DEF InjectionTypes
  <1>3. QED
    BY <1>1, <1>2

LEMMA InjectionTyping == Spec => []InjectionTypes
  <1>1. Init => NothingYet
    BY DEF Init, InjectionInit, NothingYet
  <1>2. ASSUME NothingYet, [Next]_vars
        PROVE  NothingYet'
    <2>1. CASE UNCHANGED injectionVars
      BY <1>2, <2>1 DEF NothingYet, injectionVars
    <2>2. CASE InjectionNext
      BY <1>2, <2>2 DEF NothingYet, InjectionNext, Open, Inject, Probe, Read
    <2>3. QED
      BY <1>2, <2>1, <2>2, PartsAreApart
  <1>3. QED
    BY <1>1, <1>2, InjectionTypesAre, InjectionInvariance, PTL DEF Spec

DescriptorTypes ==
  /\ (btf # <<>> => btf \in Objects) /\ cache \subseteq DOMAIN Rust
  /\ \A i \in DOMAIN pending : pending[i] \in (DOMAIN btf) \X (DOMAIN Rust)
  /\ pairs \subseteq (DOMAIN btf) \X (DOMAIN Rust)
  /\ verdict \in {"unknown", "none", "accepted", "rejected"}

FieldTypes ==
  /\ {field.start, field.end} \subseteq Int /\ {cField.start, cField.end} \subseteq -1..(2^16 - 1)
  /\ bits \in Seq(Nat)

\* The C struct has no field that the descriptor does not have.
NoFieldYet == field = NoField => cField = NoField

LEMMA DescriptorTypesAre ==
  ASSUME CompareInv
  PROVE  DescriptorTypes
  <1>1. \A i \in DOMAIN pending : pending[i] \in (DOMAIN btf) \X (DOMAIN Rust)
    BY ElementOfSeq, LenProperties DEF CompareInv, CompareTypes
  <1>2. QED
    BY <1>1 DEF CompareInv, CompareTypes, DescriptorTypes

\* Ends that do not fit 16 bits may come before the start: nothing is taken then.
LEMMA ExtractTypes ==
  ASSUME NEW s \in Nat, NEW e \in Nat, NEW size \in Nat, NEW c, c = [start |-> s, end |-> e]
  PROVE  Extract(c, size) \in Seq(Nat)
  <1>1. CASE s <= e
    <2>1. PICK w \in Nat : e = s + w
      BY <1>1
    <2>2. Extract(c, size) = IF w > 32 \/ s + w > 8 * size THEN <<>> ELSE Positions(s, w)
      BY <2>1, ExtractIs
    <2>3. QED
      BY <2>2, PositionsAre, EmptySeq
  <1>2. CASE ~(s <= e)
    <2>1. c.end - c.start <= 0
      BY <1>2
    <2>2. Extract(c, size) = <<>>
      BY <2>1 DEF Extract
    <2>3. QED
      BY <2>2, EmptySeq
  <1>3. QED
    BY <1>1, <1>2

LEMMA FieldTypesAre ==
  ASSUME FieldInv, NoFieldYet
  PROVE  FieldTypes
  <1>1. CASE field = NoField
    <2>1. cField = NoField /\ bits = <<>>
      BY <1>1 DEF FieldInv, NoFieldYet
    <2>2. field.start = -1 /\ field.end = -1 /\ cField.start = -1 /\ cField.end = -1
      BY <1>1, <2>1 DEF NoField
    <2>3. QED
      BY <2>1, <2>2, EmptySeq DEF FieldTypes
  <1>2. CASE field # NoField
    <2>1. PICK s \in Starts, w \in Widths : field = [start |-> s, end |-> s + w]
      BY <1>2 DEF FieldInv
    <2>2. s \in Nat /\ w \in Nat /\ field.start = s /\ field.end = s + w
      BY <2>1, FieldAssumption
    <2>3. PICK cs \in Nat, ce \in Nat : cs = s % 65536 /\ ce = (s + w) % 65536
      BY <2>2
    <2>4. cs < 65536 /\ ce < 65536
      BY <2>2, <2>3
    <2>5. cField = [start |-> cs, end |-> ce]
      BY <1>2, <2>2, <2>3 DEF FieldInv, ToC
    <2>6. bits \in Seq(Nat)
      <3>1. CASE bits = <<>>
        BY <3>1, EmptySeq
      <3>2. CASE bits # <<>>
        <4>1. PICK size \in Buffers : bits = <<size>> \o Extract(cField, size)
          BY <3>2 DEF FieldInv
        <4>2. size \in Nat
          BY FieldAssumption
        <4>3. Extract(cField, size) \in Seq(Nat)
          BY <2>5, <4>2, ExtractTypes
        <4>4. QED
          BY <4>1, <4>2, <4>3, Taken
      <3>3. QED
        BY <3>1, <3>2
    <2>7. field.start \in Int /\ field.end \in Int
      BY <2>2
    <2>8. cs \in -1..(2^16 - 1) /\ ce \in -1..(2^16 - 1)
      BY <2>4
    <2>9. cField.start = cs /\ cField.end = ce
      BY <2>5
    <2>10. QED
      BY <2>6, <2>7, <2>8, <2>9 DEF FieldTypes
  <1>3. QED
    BY <1>1, <1>2

LEMMA FieldTyping == Spec => []FieldTypes
  <1>1. Init => NoFieldYet
    BY DEF Init, DescriptorInit, NoFieldYet
  <1>2. ASSUME FieldInv, NoFieldYet, [Next]_vars
        PROVE  NoFieldYet'
    <2>1. CASE UNCHANGED <<field, cField, bits>>
      BY <1>2, <2>1 DEF NoFieldYet
    <2>2. CASE FindDescriptor \/ Compare \/ Accept
      BY <2>1, <2>2 DEF FindDescriptor, Compare, Accept, fieldVars
    <2>3. CASE Convert
      <3>1. PICK s \in Starts, w \in Widths : field' = [start |-> s, end |-> s + w]
        BY <2>3 DEF Convert
      <3>2. field'.start # -1
        BY <3>1, FieldAssumption
      <3>3. field' # NoField
        BY <3>2 DEF NoField
      <3>4. QED
        BY <3>3 DEF NoFieldYet
    <2>4. CASE TakeField
      BY <2>4 DEF NoFieldYet, TakeField
    <2>5. QED
      BY <1>2, <2>1, <2>2, <2>3, <2>4, PartsAreApart
      DEF DescriptorNext, descriptorVars, fieldVars
  <1>3. QED
    BY <1>1, <1>2, FieldTypesAre, FieldInvariance, PTL DEF Spec

\* Whatever there is to choose from, to inject and to compare, the variables keep their
\* types, and two files of one name are never both loaded (load_bpf_files).
THEOREM PreparationTypes ==
  ASSUME Types
  PROVE  Spec => []TypeOK
  <1>1. CompareInv => DescriptorTypes
    BY DescriptorTypesAre
  <1>2. SelectionTypes /\ InjectionTypes /\ DescriptorTypes /\ FieldTypes => TypeOK
    BY Zenon DEF SelectionTypes, InjectionTypes, DescriptorTypes, FieldTypes, TypeOK
  <1>3. QED
    BY <1>1, <1>2, SelectionTyping, InjectionTyping, CompareInvariance, FieldTyping, PTL

=============================================================================
