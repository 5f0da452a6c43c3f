---------------------------- MODULE MCBpfLoader ----------------------------
(***************************************************************************)
(* Instances of BpfLoader for TLC.                                         *)
(*                                                                         *)
(*   hi, lo   0020-a and 0010-a: one program and one map each, same group  *)
(*   tp       0010-b: no program, one map (0010-Generic__touchpad)         *)
(*   fix      0010-c: a report descriptor fixup                            *)
(*   tr       0010-d: a tracing object of two programs                     *)
(***************************************************************************)
EXTENDS BpfLoader, TLC

CONSTANTS hi, lo, tp, fix, tr, d1, d2, net, l1, l2, m1

MCLinks == [o \in Object |-> CASE o = tp -> {}
                               [] o = tr -> {l1, l2}
                               [] OTHER -> {l1}]
MCMaps == [o \in Object |-> IF o \in {hi, tp} THEN {m1} ELSE {}]
MCStem == [o \in Object |-> CASE o \in {hi, lo} -> 1 [] o = tp -> 2
                              [] o = fix -> 3 [] o = tr -> 4]
MCVersion == [o \in Object |-> IF o = hi THEN 20 ELSE 10]

\* Both devices offer everything, or tp is there because it was installed for the
\* first one; or the newest is.  The second device does not accept the newest.
AllFiles == [d \in Device |-> Object]
NotInstalled == [d \in Device |-> IF d = d1 THEN Object \ {tp} ELSE Object]
OlderFiles == [d \in Device |-> Object \ {hi}]
NotNewest == [d \in Device |-> IF d = d2 THEN Object \ {hi} ELSE Object]

NoneInstalled == [d \in Device |-> <<>>]
TouchpadInstalled == [d \in Device |-> IF d = d1 THEN <<tp>> ELSE <<>>]
NewestInstalled == [d \in Device |-> <<hi>>]
ForAll == [o \in Object |-> Device]

Add(replace, devs, objs) ==
  [op |-> "add", replace |-> replace, devs |-> devs,
   calls |-> <<[devs |-> devs, objs |-> objs]>>]
Remove(devs) == [op |-> "remove", replace |-> FALSE, devs |-> devs, calls |-> <<>>]

NoCommands == {}
SerialCommands ==
  {Remove(<<d1, net>>), Remove(<<net, d1>>), Add(FALSE, <<d1>>, {}),
   Add(FALSE, <<net, d1>>, {}), Add(TRUE, <<d1, net>>, {lo}), Add(TRUE, <<d1>>, {})}
SerialMatches ==
  {[replace |-> TRUE, objs |-> <<lo, hi>>], [replace |-> TRUE, objs |-> <<tr, hi>>],
   [replace |-> FALSE, objs |-> <<tp>>]}
RemoveOnly == {Remove(<<d1>>)}

Procs == Permutations(Udev) \cup Permutations(Proc \ Udev)
=============================================================================
