----------------------- MODULE PeonyIntegrationProofs -----------------------
(***************************************************************************)
(* What Setup, Teardown and the package's removal guarantee for every      *)
(* number of processes and every combination of faults: the wallpaper the  *)
(* user had is never lost, the desktop that comes up is the one that was   *)
(* asked for, and nothing goes on supervising it.                          *)
(***************************************************************************)
EXTENDS PeonyIntegration, WellFoundedInduction, SequenceTheorems, TLAPS

(* The sets the variables range over. *)
UnitStates == [state : {"unloaded", "active", "activating", "deactivating",
                        "failed"}, list : Lists,
               ended : {"no", "clean", "unclean"}]
Processes == [state : {"dead", "exec", "live"}, list : Lists,
              injected : BOOLEAN, dying : BOOLEAN]
Clis == [cmd : {"setup", "teardown", "uninstall", "upgrade"}, at : Steps,
         list : Lists, previous : Paths \cup {NoPath}, injected : BOOLEAN,
         absent : BOOLEAN,
         result : {"ok", "FileError", "BusError", "Unknown", "killed"}]

-----------------------------------------------------------------------------
(* The invariant, part by part.                                            *)

(* Each command keeps to its own steps; Teardown stops an injected peony.  *)
StepsOf(cmd) ==
  CASE cmd = "setup" ->
         {"idle", "marker", "read", "record", "point", "normalized", "stop",
          "inactive", "reset", "term", "wait", "kill", "locks", "launch",
          "verify", "done"}
    [] cmd = "teardown" ->
         {"previous", "inspect", "stop", "term", "wait", "kill", "locks",
          "restore", "remove", "relaunch", "verify", "done"}
    [] cmd = "uninstall" ->
         {"previous", "inspect", "stop", "term", "wait", "kill", "locks",
          "restore", "remove", "relaunch", "verify", "purge", "purging",
          "done"}
    [] cmd = "upgrade" -> {"purge", "purging", "done"}
Removing == cli.cmd \in {"teardown", "uninstall"}
Reached ==
  /\ cli.at \in StepsOf(cli.cmd)
  /\ Removing /\ cli.at \in {"stop", "term", "wait", "kill", "locks"} =>
       cli.injected

(* From where Teardown has looked at the record to where it drops it, it   *)
(* means to put the recorded wallpaper back, and then it has.              *)
HandInv ==
  /\ Removing /\ record \in Users
       /\ cli.at \in {"inspect", "stop", "term", "wait", "kill", "locks",
                      "restore"}
     => cli.previous = record
  /\ Removing /\ record \in Users /\ cli.at = "remove"
       /\ Without({"gsettings"})
     => gsetting = record

(* The injected peony is the process of the unit: there is at most one, it *)
(* has the unit's list, and while it is there the unit is up; only a unit  *)
(* that is up can have had its process end.                                *)
UnitInv ==
  /\ unit.state \notin {"active", "deactivating"} => unit.ended = "no"
  /\ \A p \in Pids : peony[p].state = "dead" => peony[p] = Dead
  /\ \A p \in Found : peony[p].state = "exec" => peony[p].injected
  /\ \A p \in Found : peony[p].injected =>
       /\ unit.state \in {"active", "deactivating"}
       /\ unit.ended = "no"
       /\ peony[p].list = unit.list
  /\ \A p, q \in Found : peony[p].injected /\ peony[q].injected => p = q

(* What a removal of the package or an upgrade leaves of the unit. *)
PurgedInv ==
  Without({"bus"}) /\ cli.cmd \in {"uninstall", "upgrade"} /\ cli.at = "done" =>
    unit.state \in {"unloaded", "failed"}

(* As long as nothing crashes and nobody interferes, there is one peony at *)
(* most, the lock tells whether it is there, and it was asked to end only  *)
(* where Setup or Teardown waits for that.                                 *)
Waiting == {"inactive", "reset", "term", "wait", "kill", "purging"}
Stopping == {"locks", "restore", "remove", "relaunch", "verify", "purge",
             "purging", "done"}
CalmUnit ==
  /\ unit.state # "activating"
  /\ unit.ended = "unclean" => unit.state # "active"
  /\ unit.state = "active" =>
       unit.ended = "no" /\ \E p \in Found : peony[p].injected
  /\ cli.at \in Waiting => unit.state # "active"
CalmPeony ==
  /\ \A p, q \in Found : p = q
  /\ \A p \in Found : peony[p].state = "exec" =>
       cli.cmd = "setup" /\ cli.at = "verify" /\ lock = "free"
  /\ lock = "held" <=> \E p \in Found : peony[p].state = "live"
  /\ lock = "stale" => cli.at = "locks"
CalmSteps ==
  /\ \A p \in Found : peony[p].dying =>
       cli.at \in Waiting /\ (cli.at = "purging" => peony[p].injected)
  /\ cli.at \in {"locks", "launch"} => Found = {}
  /\ Removing /\ cli.at \in Stopping => \A p \in Found : ~peony[p].injected
  /\ Removing /\ cli.at \in {"restore", "remove", "relaunch"}
       /\ (cli.injected \/ cli.absent) => Found = {}
Calm == CalmUnit /\ CalmPeony /\ CalmSteps
CalmInv == NoneOutlives => Calm

(* The way home: the pointer is the user's, or the record is. *)
NoInjected == \A p \in Found : ~peony[p].injected
HomeWorld ==
  /\ pointer \in Users \cup {"markerCopy"}
  /\ record \in Users \cup {"missing"}
  /\ pointer = "markerCopy" => record \in Users
HomeSetup ==
  cli.cmd = "setup" =>
    /\ cli.at = "record" => cli.previous = pointer
    /\ cli.at \in {"point", "normalized", "stop", "inactive", "reset", "term",
                   "wait", "kill", "locks", "launch"} => record \in Users
HomeTeardown ==
  Removing =>
    /\ cli.at \in {"inspect", "stop", "term", "wait", "kill", "locks",
                   "restore"} /\ record = "missing" => cli.previous = NoPath
    /\ cli.at \in {"remove", "relaunch", "verify", "purge", "purging", "done"}
         => pointer \in Users
    /\ cli.at \in {"relaunch", "verify", "purge", "purging", "done"}
         => record = "missing" /\ ~markerFile
Home == HomeWorld /\ HomeSetup /\ HomeTeardown /\ (record = "missing" => NoInjected)
HomeInv == AccountsWork /\ NoneOutlives => Home

(* A pointer that is still at an ordinary wallpaper has never been moved,  *)
(* so no other wallpaper can have been remembered or listed.               *)
Known == {"user", "marker", NoPath}
AllKnown(list) == \A i \in DOMAIN list : list[i] \in Known
KnownLists ==
  /\ AllKnown(cli.list)
  /\ AllKnown(unit.list)
  /\ \A p \in Found : AllKnown(peony[p].list)
KnownInv ==
  pointer = "user" =>
    cli.previous \in Known /\ record \in Known \cup {"missing"} /\ KnownLists

(* The list peony is launched with has the wallpaper Setup remembered, and *)
(* the unit has that list.                                                 *)
ListInv ==
  cli.cmd = "setup" =>
    /\ cli.previous # NoPath
         /\ \/ cli.at \in {"stop", "inactive", "reset", "term", "wait", "kill",
                           "locks", "launch", "verify"}
            \/ cli.at = "done" /\ cli.result = "ok"
         => Contains(cli.list, cli.previous)
    /\ cli.at = "verify" \/ (cli.at = "done" /\ cli.result = "ok")
         => unit.state = "unloaded" \/ unit.list = cli.list
CoverInv == pointer # "marker" /\ KnownInv /\ ListInv

(* With nothing in the way but missing files and a stubborn peony, every   *)
(* step finds what it needs.                                               *)
OrderlySetup ==
  cli.cmd = "setup" =>
    /\ cli.at \in {"reset", "term", "wait", "kill", "locks", "launch"}
         => unit.state \in {"unloaded", "failed"}
    /\ cli.at = "verify" => unit.state = "active"
    /\ cli.at = "done" /\ cli.result # "FileError" =>
         cli.result = "ok" /\ unit.state = "active" /\ lock = "held"
OrderlyTeardown ==
  /\ Removing =>
       /\ cli.at \in {"restore", "remove", "relaunch"}
            /\ ~cli.injected /\ ~cli.absent => lock = "held"
       /\ cli.at = "verify" => lock = "held"
  /\ cli.cmd = "teardown" /\ cli.at = "done" /\ cli.result # "FileError" =>
       cli.result = "ok" /\ lock = "held"
OrderlyInv == Orderly => OrderlySetup /\ OrderlyTeardown

(* From where Setup has waited for the unit to where it launches, the unit *)
(* is not there.                                                           *)
Away == {"reset", "term", "wait", "kill", "locks", "launch"}
AwayInv ==
  Without({"bus", "slowStop"}) /\ cli.cmd = "setup" =>
    /\ cli.at \in Away => unit.state \in {"unloaded", "failed"}
    /\ cli.at = "done" => cli.result # "BusError"

IInv == /\ TypeOK /\ Reached /\ HandInv /\ UnitInv /\ PurgedInv /\ CalmInv
        /\ HomeInv /\ CoverInv /\ OrderlyInv /\ AwayInv
-----------------------------------------------------------------------------
(* What the model's operators return.                                      *)

(* There is a first process whenever there is one. *)
LEMMA FirstFound ==
  ASSUME Found # {}
  PROVE  First \in Found
  <1>1. Found \subseteq Nat
    BY BoundsAssumption DEF Found, Pids
  <1> DEFINE Less == {ss \in Nat \X Nat : ss[1] < ss[2]}
  <1>2. IsWellFoundedOn(Less, Nat)
    BY NatLessThanWellFounded DEF OpToRel
  <1> HIDE DEF Less
  <1>3. PICK p \in Found : \A q \in Found : ~(<<q, p>> \in Less)
    BY <1>1, <1>2, WFMin
  <1>4. \A q \in Found : p <= q
    <2>1. SUFFICES ASSUME NEW q \in Found, q < p PROVE FALSE
      BY <1>1
    <2>2. <<q, p>> \in Nat \X Nat
      BY <1>1
    <2>3. <<q, p>> \in Less
      BY <2>1, <2>2 DEF Less
    <2> QED BY <1>3, <2>3
  <1> QED BY <1>4 DEF First

(* A list of n paths without repetitions; what it has become when p was    *)
(* added to it.                                                            *)
Distinct(l, n) ==
  l \in [1..n -> Paths] /\ \A i, j \in 1..n : l[i] = l[j] => i = j
Added(longer, m, l, n, p) ==
  /\ \A i \in 1..m : longer[i] = p \/ \E j \in 1..n : longer[i] = l[j]
  /\ \A j \in 1..n : longer[j] = l[j]
  /\ p # NoPath => \E i \in 1..m : longer[i] = p

(* A list to which a path is added stays without repetitions, contains the *)
(* path and what it contained, and nothing else.                           *)
LEMMA ListedAdds ==
  ASSUME NEW n \in 0..2, NEW l, Distinct(l, n), NEW p \in Paths \cup {NoPath}
  PROVE  \E m \in n..(n + 1) : Distinct(Listed(l, p), m) /\ Added(Listed(l, p), m, l, n, p)
  <1> USE DEF Distinct, Added
  <1>1. l \in Seq(Paths) /\ Len(l) = n
    OBVIOUS
  <1>2. CASE p = NoPath \/ Contains(l, p)
    <2>1. Listed(l, p) = l
      BY <1>2 DEF Listed
    <2>2. p # NoPath => \E i \in 1..n : l[i] = p
      BY <1>1, <1>2 DEF Contains
    <2> QED BY <2>1, <2>2
  <1>3. CASE ~(p = NoPath \/ Contains(l, p))
    <2>1. Listed(l, p) = Append(l, p) /\ p \in Paths
      BY <1>3 DEF Listed
    <2>2. \A j \in 1..n : l[j] # p
      BY <1>1, <1>3 DEF Contains
    <2>3. /\ Append(l, p) \in Seq(Paths)
          /\ Len(Append(l, p)) = n + 1
          /\ Append(l, p)[n + 1] = p
          /\ \A j \in 1..n : Append(l, p)[j] = l[j]
      BY <1>1, <2>1
    <2>4. Append(l, p) \in [1..(n + 1) -> Paths]
      BY <2>3, LenProperties
    <2>5. \A i \in 1..(n + 1) : i \in 1..n \/ i = n + 1
      OBVIOUS
    <2>6. \A i, j \in 1..(n + 1) : Append(l, p)[i] = Append(l, p)[j] => i = j
      BY <2>2, <2>3, <2>5
    <2>7. n + 1 \in n..(n + 1) /\ n + 1 \in 1..(n + 1)
      OBVIOUS
    <2> QED BY <2>1, <2>3, <2>4, <2>5, <2>6, <2>7
  <1> QED BY <1>2, <1>3

(* A member of Lists by its length, and back. *)
LEMMA ListsByLength ==
  /\ \A n \in 0..3 : \A l \in [1..n -> Paths] :
       (\A i, j \in 1..n : l[i] = l[j] => i = j) => l \in Lists
  /\ \A l \in Lists : \E n \in 0..3 : l \in [1..n -> Paths]
  /\ <<>> \in Lists
  <1>1. \A n \in 0..3 : \A l \in [1..n -> Paths] :
          (\A i, j \in 1..n : l[i] = l[j] => i = j) => l \in Lists
    BY DEF Lists
  <1>2. \A l \in Lists : \E n \in 0..3 : l \in [1..n -> Paths]
    BY DEF Lists
  <1>3. <<>> \in [1..0 -> Paths]
    OBVIOUS
  <1>4. \A i, j \in 1..0 : <<>>[i] = <<>>[j] => i = j
    OBVIOUS
  <1>5. <<>> \in Lists
    <2>1. 0 \in 0..3
      OBVIOUS
    <2> QED BY ONLY <1>1, <1>3, <1>4, <2>1
  <1> QED BY <1>1, <1>2, <1>5

(* The head of a list that is not empty is one of its members. *)
LEMMA ListHead ==
  ASSUME NEW l \in Lists, l # <<>>
  PROVE  /\ 1 \in DOMAIN l
         /\ Head(l) = l[1]
         /\ l[1] \in Paths
  <1>1. PICK n \in 0..3 : l \in [1..n -> Paths]
    BY ListsByLength
  <1>2. l \in Seq(Paths) /\ Len(l) = n /\ DOMAIN l = 1..n
    BY <1>1
  <1>3. n # 0
    BY <1>2
  <1> QED BY <1>1, <1>2, <1>3

(* The list Setup builds: of these paths only, and with the one it         *)
(* remembers.                                                              *)
LEMMA ListBuilt ==
  ASSUME NEW normalized \in Paths \cup {NoPath},
         NEW previous \in Paths \cup {NoPath}
  PROVE  LET list == BuildWallpaperList("marker", normalized, previous) IN
         /\ list \in Lists
         /\ \A i \in DOMAIN list : list[i] \in {"marker", normalized, previous}
         /\ previous # NoPath => Contains(list, previous)
  <1> DEFINE a == Listed(<<>>, previous)
             b == Listed(a, normalized)
             c == Listed(b, "marker")
  <1>1. Distinct(<<>>, 0)
    BY DEF Distinct
  <1>2. PICK k \in 0..1 : Distinct(a, k) /\ Added(a, k, <<>>, 0, previous)
    <2>1. \E k \in 0..(0 + 1) : Distinct(a, k) /\ Added(a, k, <<>>, 0, previous)
      BY <1>1, ListedAdds
    <2> QED BY <2>1
  <1> HIDE DEF a
  <1>3. PICK m \in k..(k + 1) : Distinct(b, m) /\ Added(b, m, a, k, normalized)
    <2>1. k \in 0..2
      OBVIOUS
    <2> QED BY <1>2, <2>1, ListedAdds
  <1> HIDE DEF b
  <1>4. PICK n \in m..(m + 1) : Distinct(c, n) /\ Added(c, n, b, m, "marker")
    <2>1. m \in 0..2
      OBVIOUS
    <2>2. "marker" \in Paths \cup {NoPath}
      BY DEF Paths
    <2> QED BY <1>3, <2>1, <2>2, ListedAdds
  <1> HIDE DEF c
  <1>5. BuildWallpaperList("marker", normalized, previous) = c
    BY DEF BuildWallpaperList, a, b, c
  <1>6. c \in Lists
    <2>1. n \in 0..3
      OBVIOUS
    <2> QED BY <1>4, <2>1, ListsByLength DEF Distinct
  <1>7. \A i \in DOMAIN c : c[i] \in {"marker", normalized, previous}
    <2>1. DOMAIN c = 1..n
      BY <1>4 DEF Distinct
    <2>2. \A i \in 1..k : a[i] = previous
      BY <1>2 DEF Added
    <2>3. \A j \in 1..m : b[j] \in {normalized, previous}
      BY <1>3, <2>2 DEF Added
    <2> QED BY <1>4, <2>1, <2>3 DEF Added
  <1>8. previous # NoPath => Contains(c, previous)
    <2>1. Len(c) = n
      BY <1>4 DEF Distinct
    <2>2. previous # NoPath => \E i \in 1..k : a[i] = previous
      BY <1>2 DEF Added
    <2>3. \A i \in 1..k : i \in 1..m /\ i \in 1..n
      OBVIOUS
    <2>4. previous # NoPath => \E i \in 1..k : c[i] = previous
      BY <1>3, <1>4, <2>2, <2>3 DEF Added
    <2> QED BY <2>1, <2>3, <2>4 DEF Contains
  <1> QED BY <1>5, <1>6, <1>7, <1>8

(* The model's own values. *)
LEMMA Values ==
  /\ Dead \in Processes /\ Dead.state = "dead" /\ ~Dead.injected /\ ~Dead.dying
  /\ Plain \in Processes
  /\ Plain.state = "live" /\ ~Plain.injected /\ ~Plain.dying /\ Plain.list = <<>>
  /\ \A l \in Lists :
       /\ Injected(l) \in Processes
       /\ Injected(l).state = "exec" /\ Injected(l).injected
       /\ Injected(l).list = l /\ ~Injected(l).dying
  /\ Unloaded \in UnitStates
  /\ Fresh \in Clis /\ Fresh.cmd = "setup" /\ Fresh.at = "idle" /\ Fresh.list = <<>>
  /\ Fresh.previous = NoPath
  <1>1. <<>> \in Lists
    BY ListsByLength
  <1>2. Dead \in Processes /\ Dead.state = "dead" /\ ~Dead.injected /\ ~Dead.dying /\ Dead.list = <<>>
    BY <1>1 DEF Dead, Processes
  <1>3. Plain \in Processes
    BY <1>2 DEF Plain, Processes
  <1>4. Plain.state = "live" /\ ~Plain.injected /\ ~Plain.dying /\ Plain.list = <<>>
    BY <1>2 DEF Plain, Processes
  <1>5. ASSUME NEW l \in Lists
        PROVE  /\ Injected(l) \in Processes
               /\ Injected(l).state = "exec" /\ Injected(l).injected
               /\ Injected(l).list = l /\ ~Injected(l).dying
    BY <1>2 DEF Injected, Processes
  <1>6. Unloaded \in UnitStates
    BY <1>1 DEF Unloaded, UnitStates
  <1>7. /\ Fresh \in Clis /\ Fresh.cmd = "setup" /\ Fresh.at = "idle"
        /\ Fresh.list = <<>> /\ Fresh.previous = NoPath
    BY <1>1 DEF Fresh, Clis, Steps
  <1> QED BY <1>2, <1>3, <1>4, <1>5, <1>6, <1>7

(* Going on to a step of the code, and ending the command. *)
LEMMA GotoFields ==
  ASSUME cli \in Clis, NEW to \in Steps, Goto(to)
  PROVE  /\ cli' \in Clis
         /\ cli'.at = to
         /\ cli'.cmd = cli.cmd /\ cli'.list = cli.list
         /\ cli'.previous = cli.previous /\ cli'.injected = cli.injected
         /\ cli'.absent = cli.absent /\ cli'.result = cli.result
  BY DEF Goto, Clis

LEMMA ExitFields ==
  ASSUME cli \in Clis,
         NEW result \in {"ok", "FileError", "BusError", "Unknown", "killed"},
         Exit(result)
  PROVE  /\ cli' \in Clis
         /\ cli'.at = IF cli.cmd = "uninstall" THEN "purge" ELSE "done"
         /\ cli'.result = result
         /\ cli'.cmd = cli.cmd /\ cli'.list = cli.list
         /\ cli'.previous = cli.previous /\ cli'.injected = cli.injected
         /\ cli'.absent = cli.absent
  BY DEF Exit, Clis, Steps

(* Between two commands. *)
LEMMA FreshFields ==
  ASSUME Begin \/ Return
  PROVE  /\ cli'.cmd \in {"setup", "teardown", "uninstall", "upgrade"}
         /\ cli'.cmd = "setup" => cli'.at \in {"idle", "marker"}
         /\ cli'.cmd \in {"teardown", "uninstall"} => cli'.at = "previous"
         /\ cli'.cmd = "upgrade" => cli'.at = "purge"
         /\ cli'.list = <<>> /\ cli'.previous = NoPath
  <1> DEFINE With(c, a) == [Fresh EXCEPT !.cmd = c, !.at = a]
  <1>1. \A c, a : /\ With(c, a).cmd = c /\ With(c, a).at = a
                  /\ With(c, a).list = <<>> /\ With(c, a).previous = NoPath
    BY Values DEF Clis
  <1>2. CASE Begin
    <2>1. \/ cli' = With("setup", "marker")
          \/ \E cmd \in {"teardown", "uninstall"} : cli' = With(cmd, "previous")
          \/ cli' = With("upgrade", "purge")
      BY <1>2 DEF Begin
    <2> HIDE DEF With
    <2> QED BY <1>1, <2>1
  <1>3. CASE Return
    BY <1>3, Values DEF Return
  <1> QED BY <1>2, <1>3

(* The variables that a step of the CLI or of the desktop leaves typed. *)
DesktopTyped ==
  /\ lock \in {"free", "held", "stale"}
  /\ unit \in UnitStates
  /\ peony \in [Pids -> Processes]
WorldTyped ==
  /\ faults \subseteq AllFaults
  /\ pointer \in Paths
  /\ gsetting \in Paths
  /\ record \in Paths \cup {NoPath, "missing"}
  /\ markerFile \in BOOLEAN

LEMMA TypeParts == TypeOK <=> WorldTyped /\ DesktopTyped /\ cli \in Clis
  BY DEF TypeOK, WorldTyped, DesktopTyped, UnitStates, Processes, Clis

LEMMA EndTyped ==
  ASSUME DesktopTyped, NEW gone \in SUBSET Pids, NEW clean \in BOOLEAN,
         End(gone, clean)
  PROVE  DesktopTyped'
  <1>1. lock' \in {"free", "held", "stale"}
    BY DEF End, DesktopTyped
  <1>2. unit' \in UnitStates
    BY DEF End, DesktopTyped, UnitStates
  <1>3. peony' \in [Pids -> Processes]
    BY Values DEF End, DesktopTyped
  <1> QED BY <1>1, <1>2, <1>3 DEF DesktopTyped

LEMMA StartTyped ==
  ASSUME DesktopTyped
  PROVE  /\ StartPlain => DesktopTyped'
         /\ \A l \in Lists : StartInjected(l) => DesktopTyped'
  <1>1. StartPlain => DesktopTyped'
    BY Values DEF StartPlain, DesktopTyped, desktop
  <1>2. ASSUME NEW l \in Lists, StartInjected(l)
        PROVE  DesktopTyped'
    <2>1. peony' \in [Pids -> Processes]
      BY <1>2, Values DEF StartInjected, DesktopTyped
    <2>2. unit' \in UnitStates
      BY <1>2 DEF StartInjected, Unloaded, UnitStates
    <2> QED BY <1>2, <2>1, <2>2 DEF StartInjected, DesktopTyped
  <1> QED BY <1>1, <1>2

LEMMA StopTyped ==
  ASSUME DesktopTyped
  PROVE  /\ Stopped(unit) \in UnitStates
         /\ \A u \in UnitStates : Cleared(u) \in UnitStates
         /\ Asked \in [Pids -> Processes]
  <1>1. Stopped(unit) \in UnitStates
    BY Values DEF DesktopTyped, Stopped, UnitStates
  <1>2. \A u \in UnitStates : Cleared(u) \in UnitStates
    BY Values DEF Cleared
  <1>3. Asked \in [Pids -> Processes]
    BY DEF DesktopTyped, Asked, Processes
  <1> QED BY <1>1, <1>2, <1>3

(* What a running peony was launched with. *)
LEMMA FirstWallpaperTyped ==
  ASSUME DesktopTyped
  PROVE  FirstWallpaper \in Paths \cup {NoPath}
  <1>1. \A l \in Lists : FirstWallpaperIn(l) \in Paths \cup {NoPath}
    BY ListHead DEF FirstWallpaperIn, Paths
  <1>2. Found # {} => peony[First].list \in Lists
    BY FirstFound DEF DesktopTyped, Found, Processes
  <1> QED BY <1>1, <1>2 DEF FirstWallpaper

-----------------------------------------------------------------------------
(* Types. *)

LEMMA TypeInit == Init => TypeOK
  <1> SUFFICES ASSUME Init PROVE TypeOK
    OBVIOUS
  <1>1. WorldTyped
    BY BoundsAssumption DEF Init, WorldTyped, Paths
  <1>2. DesktopTyped /\ cli \in Clis
    BY Values DEF Init, DesktopTyped
  <1> QED BY <1>1, <1>2, TypeParts

LEMMA TypeStep == TypeOK /\ [Next]_vars => TypeOK'
  <1> SUFFICES ASSUME WorldTyped, DesktopTyped, cli \in Clis, [Next]_vars
               PROVE  WorldTyped' /\ DesktopTyped' /\ cli' \in Clis
    BY TypeParts
    DEF TypeOK, WorldTyped, DesktopTyped, UnitStates, Processes, Clis
  <1> USE Values
  <1>1. UNCHANGED world => WorldTyped'
    BY DEF world, WorldTyped
  <1>2. UNCHANGED desktop => DesktopTyped'
    BY DEF desktop, DesktopTyped
  <1>3. \A to \in Steps : Goto(to) => cli' \in Clis
    BY GotoFields
  <1>4. \A r \in {"ok", "FileError", "BusError", "Unknown", "killed"} :
          Exit(r) => cli' \in Clis
    BY ExitFields
  <1>5. \A p \in Paths : Normalize(p) \in Paths
    BY DEF Normalize, Paths, Stored
  <1>a. CASE Begin \/ Return \/ Killed
    BY <1>a, <1>1, <1>2, <1>4
    DEF Begin, Return, Killed, Clis, Steps
  <1>b. CASE WriteMarker
    BY <1>b, <1>2, <1>3, <1>4 DEF WriteMarker, WorldTyped, Steps
  <1>c. CASE ReadPrevious \/ WhichPrevious \/ Inspect
    <2>1. FirstWallpaper \in Paths \cup {NoPath}
      BY FirstWallpaperTyped
    <2> QED BY <1>c, <1>1, <1>2, <2>1
        DEF ReadPrevious, WhichPrevious, Inspect, WorldTyped, Clis, Steps
  <1>d. CASE Record
    <2>1. FirstWallpaper \in Paths \cup {NoPath}
      BY FirstWallpaperTyped
    <2>2. cli.previous \in Paths \cup {NoPath}
      BY DEF Clis
    <2>3. cli' \in Clis
      <3>1. \A path \in Paths \cup {NoPath} :
              [cli EXCEPT !.previous = path, !.at = "point"] \in Clis
        BY DEF Clis, Steps
      <3>2. "point" \in Steps
        BY DEF Steps
      <3> QED BY <1>d, <1>3, <2>1, <2>2, <3>1, <3>2 DEF Record
    <2>4. record' \in Paths \cup {NoPath, "missing"}
      BY <1>d, <2>1, <2>2 DEF Record, WorldTyped
    <2> QED BY <1>d, <1>2, <2>3, <2>4 DEF Record, WorldTyped
  <1>e. CASE PointAtMarker \/ Restore
    <2>1. "marker" \in Paths /\ (cli.previous # NoPath => cli.previous \in Paths)
      BY DEF Clis, Paths
    <2>2. pointer' \in Paths /\ gsetting' \in Paths
      BY <1>e, <1>5, <2>1
      DEF PointAtMarker, Restore, SetAccountBackground, SetGsettings, WorldTyped
    <2> QED BY <1>e, <1>2, <1>3, <2>2
        DEF PointAtMarker, Restore, WorldTyped, Steps
  <1>f. CASE BuildList
    <2>1. \A r \in Paths \cup {NoPath} :
            BuildWallpaperList("marker", r, cli.previous) \in Lists
      BY ListBuilt DEF Clis
    <2>2. cli' \in Clis
      <3>1. \A l \in Lists : [cli EXCEPT !.list = l, !.at = "stop"] \in Clis
        BY DEF Clis, Steps
      <3>2. pointer \in Paths
        BY DEF WorldTyped
      <3>3. PICK ok \in BOOLEAN :
              cli' = [cli EXCEPT
                        !.list = BuildWallpaperList("marker",
                                   IF ok THEN pointer ELSE NoPath, cli.previous),
                        !.at = "stop"]
        BY <1>f DEF BuildList, May
      <3>4. (IF ok THEN pointer ELSE NoPath) \in Paths \cup {NoPath}
        BY <3>2
      <3> QED BY <2>1, <3>1, <3>3, <3>4
    <2>3. gsetting' \in Paths
      BY <1>f DEF BuildList, SetGsettings, WorldTyped, Paths
    <2> QED BY <1>f, <1>2, <2>2, <2>3 DEF BuildList, WorldTyped
  <1>g. CASE StopForSetup \/ StopForTeardown \/ Purge
    <2>1. DesktopTyped'
      <3>1. CASE StopForSetup \/ Purge
        BY <3>1, <1>2, StopTyped DEF StopForSetup, Purge, DesktopTyped
      <3>2. CASE StopForTeardown
        <4>1. unit' \in UnitStates
          <5>1. unit \in UnitStates
            BY DEF DesktopTyped
          <5> QED BY <3>2, <5>1, StopTyped DEF StopForTeardown
        <4> QED BY <3>2, <4>1, StopTyped DEF StopForTeardown, DesktopTyped
      <3> QED BY <1>g, <3>1, <3>2
    <2>2. cli' \in Clis
      BY <1>g, <1>3, <1>4 DEF StopForSetup, StopForTeardown, Purge, Clis, Steps
    <2>3. WorldTyped'
      BY <1>g, <1>1 DEF StopForSetup, StopForTeardown, Purge
    <2> QED BY <2>1, <2>2, <2>3
  <1>h. CASE WaitInactive \/ WaitForPeonyExit \/ VerifyInjected \/ VerifyPlain \/ Purged
    BY <1>h, <1>1, <1>2, <1>3, <1>4
    DEF WaitInactive, WaitForPeonyExit, VerifyInjected, VerifyPlain, Purged,
        Clis, Steps
  <1>i. CASE ResetFailed
    <2>1. DesktopTyped'
      BY <1>i, StopTyped DEF ResetFailed, DesktopTyped
    <2> QED BY <1>i, <1>1, <1>3, <2>1 DEF ResetFailed, Steps
  <1>j. CASE Launch \/ Relaunch
    <2>1. DesktopTyped'
      <3>1. cli.list \in Lists
        BY DEF Clis
      <3> QED BY <1>j, <1>2, <3>1, StartTyped DEF Launch, Relaunch
    <2>2. cli' \in Clis
      BY <1>j, <1>3, <1>4 DEF Launch, Relaunch, Steps
    <2> QED BY <1>j, <1>1, <2>1, <2>2 DEF Launch, Relaunch
  <1>k. CASE RemoveFiles
    BY <1>k, <1>2, <1>3 DEF RemoveFiles, WorldTyped, Steps
  <1>l. CASE Terminate \/ ClearLocks
    <2>1. DesktopTyped'
      <3>1. Terminate => peony' \in [Pids -> Processes]
        <4>1. \A w \in Processes : [w EXCEPT !.dying = TRUE] \in Processes
          BY DEF Processes
        <4> QED BY <4>1 DEF Terminate, DesktopTyped
      <3> QED BY <1>l, <3>1 DEF Terminate, ClearLocks, DesktopTyped
    <2> QED BY <1>l, <1>1, <1>3, <2>1 DEF Terminate, ClearLocks, Steps
  <1>m. CASE KillPeony
    <2>1. DesktopTyped'
      BY <1>m, EndTyped DEF KillPeony, Found
    <2> QED BY <1>m, <1>1, <1>3, <2>1 DEF KillPeony, Steps
  <1>n. ASSUME NEW p \in Pids, Exec(p) PROVE WorldTyped' /\ DesktopTyped' /\ cli' \in Clis
    <2>1. peony' \in [Pids -> Processes]
      BY <1>n DEF Exec, DesktopTyped, Processes
    <2>2. unit' \in UnitStates
      BY <1>n DEF Exec, DesktopTyped, UnitStates
    <2> QED BY <1>n, <1>1, <2>1, <2>2 DEF Exec, DesktopTyped
  <1>o. ASSUME NEW p \in Pids, Obey(p) \/ Crash(p)
        PROVE  WorldTyped' /\ DesktopTyped' /\ cli' \in Clis
    BY <1>o, <1>1, EndTyped DEF Obey, Crash
  <1>p. CASE Reap
    <2>1. unit' \in UnitStates
      BY <1>p DEF Reap, DesktopTyped, UnitStates
    <2> QED BY <1>p, <1>1, <2>1 DEF Reap, DesktopTyped
  <1>q. CASE AutoRestart \/ Respawn
    <2>1. unit.list \in Lists
      BY DEF DesktopTyped, UnitStates
    <2> QED BY <1>q, <1>1, <2>1, StartTyped DEF AutoRestart, Respawn
  <1>r. CASE UNCHANGED vars
    BY <1>r, <1>1, <1>2 DEF vars, world, desktop
  <1> QED
    BY <1>a, <1>b, <1>c, <1>d, <1>e, <1>f, <1>g, <1>h, <1>i, <1>j, <1>k, <1>l,
       <1>m, <1>n, <1>o, <1>p, <1>q, <1>r
    DEF Next, Setup, Teardown, StopPeonyProcesses, Environment

-----------------------------------------------------------------------------
(* The control flow, and what becomes of the record.                       *)

LEMMA EnvironmentFrame == Environment => UNCHANGED <<world, cli>>
  BY DEF Environment, Exec, Obey, Crash, Reap, AutoRestart, Respawn

(* What may go wrong is settled at the start. *)
LEMMA FaultsFrame == [Next]_vars => faults' = faults
  BY EnvironmentFrame
  DEF Next, Setup, Teardown, StopPeonyProcesses, Begin, Return, Killed,
      WriteMarker, ReadPrevious, Record, PointAtMarker, BuildList, StopForSetup,
      WaitInactive, ResetFailed, Launch, VerifyInjected, WhichPrevious, Inspect,
      StopForTeardown, Restore, RemoveFiles, Relaunch, VerifyPlain, Terminate,
      WaitForPeonyExit, KillPeony, ClearLocks, Purge, Purged, world, vars

LEMMA ReachedStep ==
  ASSUME TypeOK, Reached, [Next]_vars
  PROVE  Reached'
  <1> cli \in Clis
    BY TypeParts
  <1>1. \A to \in Steps : Goto(to) =>
          /\ cli'.at = to /\ cli'.cmd = cli.cmd /\ cli'.injected = cli.injected
    BY GotoFields
  <1>2. \A r \in {"ok", "FileError", "BusError", "Unknown", "killed"} :
          Exit(r) => /\ cli'.at = IF cli.cmd = "uninstall" THEN "purge" ELSE "done"
                     /\ cli'.cmd = cli.cmd
    BY ExitFields
  <1>3. cli.cmd \in {"setup", "teardown", "uninstall", "upgrade"}
    BY DEF Clis
  <1> USE DEF Reached, StepsOf, Removing
  <1>a. CASE Begin \/ Return
    BY <1>a, FreshFields
  <1>b. CASE Killed \/ WriteMarker \/ PointAtMarker \/ StopForSetup
    BY <1>b, <1>1, <1>2, <1>3
    DEF Killed, WriteMarker, PointAtMarker, StopForSetup, Steps
  <1>c. CASE ReadPrevious \/ Record \/ BuildList \/ WhichPrevious \/ Inspect
    <2>1. CASE ReadPrevious \/ BuildList \/ WhichPrevious
      BY <2>1, <1>3 DEF ReadPrevious, BuildList, WhichPrevious, Clis, Steps
    <2>2. CASE Record
      BY <2>2, <1>1, <1>3 DEF Record, Clis, Steps
    <2>3. CASE Inspect
      BY <2>3, <1>3 DEF Inspect, Clis, Steps
    <2> QED BY <1>c, <2>1, <2>2, <2>3
  <1>d. CASE WaitInactive \/ ResetFailed \/ Launch \/ VerifyInjected \/ VerifyPlain
    BY <1>d, <1>1, <1>2, <1>3
    DEF WaitInactive, ResetFailed, Launch, VerifyInjected, VerifyPlain, Steps
  <1>e. CASE StopForTeardown \/ Restore \/ RemoveFiles \/ Relaunch
    BY <1>e, <1>1, <1>2, <1>3
    DEF StopForTeardown, Restore, RemoveFiles, Relaunch, Steps
  <1>f. CASE StopPeonyProcesses
    BY <1>f, <1>1, <1>3
    DEF StopPeonyProcesses, Terminate, WaitForPeonyExit, KillPeony, ClearLocks,
        Steps
  <1>g. CASE Purge \/ Purged
    BY <1>g, <1>1, <1>3 DEF Purge, Purged, Clis, Steps
  <1>h. CASE Environment \/ UNCHANGED vars
    BY <1>h, EnvironmentFrame DEF vars
  <1> QED BY <1>a, <1>b, <1>c, <1>d, <1>e, <1>f, <1>g, <1>h
      DEF Next, Setup, Teardown

(* Only Record writes the record, if it is missing, and only RemoveFiles   *)
(* drops it.                                                               *)
LEMMA RecordWriters ==
  ASSUME [Next]_vars, record' # record
  PROVE  RemoveFiles \/ (Record /\ record = "missing")
  <1>1. \/ Begin \/ Return \/ Killed
        \/ WriteMarker \/ ReadPrevious \/ PointAtMarker \/ BuildList
        \/ StopForSetup \/ WaitInactive \/ ResetFailed \/ Launch \/ VerifyInjected
        => FALSE
    BY DEF Begin, Return, Killed, WriteMarker, ReadPrevious, PointAtMarker,
       BuildList, StopForSetup, WaitInactive, ResetFailed, Launch,
       VerifyInjected, world
  <1>2. WhichPrevious \/ Inspect \/ StopForTeardown \/ Restore \/ Relaunch \/ VerifyPlain
        => FALSE
    BY DEF WhichPrevious, Inspect, StopForTeardown, Restore, Relaunch,
       VerifyPlain, world
  <1>3. StopPeonyProcesses \/ Purge \/ Purged => FALSE
    BY DEF StopPeonyProcesses, Terminate, WaitForPeonyExit, KillPeony,
       ClearLocks, Purge, Purged, world
  <1>4. Environment \/ UNCHANGED vars => FALSE
    BY EnvironmentFrame DEF vars, world
  <1>5. Record => record = "missing"
    BY DEF Record
  <1> QED BY <1>1, <1>2, <1>3, <1>4, <1>5 DEF Next, Setup, Teardown

LEMMA HandStep ==
  ASSUME TypeOK, Reached, HandInv, [Next]_vars
  PROVE  HandInv'
  <1> cli \in Clis
    BY TypeParts
  <1>1. \A to \in Steps : Goto(to) =>
          cli'.at = to /\ cli'.cmd = cli.cmd /\ cli'.previous = cli.previous
    BY GotoFields
  <1>2. \A r \in {"ok", "FileError", "BusError", "Unknown", "killed"} :
          Exit(r) => cli'.at \in {"purge", "done"}
    BY ExitFields
  <1> USE DEF HandInv, Removing
  <1>a. CASE Begin \/ Return
    BY <1>a, FreshFields
  <1>b. CASE Killed \/ WriteMarker \/ PointAtMarker \/ StopForSetup \/ Launch
             \/ VerifyInjected \/ VerifyPlain \/ Relaunch \/ RemoveFiles
    <2>1. CASE Killed \/ VerifyInjected \/ VerifyPlain
      BY <2>1, <1>2 DEF Killed, VerifyInjected, VerifyPlain
    <2>2. CASE WriteMarker \/ PointAtMarker \/ StopForSetup
      BY <2>2, <1>1, <1>2
      DEF WriteMarker, PointAtMarker, StopForSetup, Steps, Reached, StepsOf
    <2>3. CASE Launch \/ Relaunch \/ RemoveFiles
      BY <2>3, <1>1, <1>2 DEF Launch, Relaunch, RemoveFiles, Steps
    <2> QED BY <1>b, <2>1, <2>2, <2>3
  <1>c. CASE ReadPrevious \/ Record \/ BuildList
    <2>1. CASE ReadPrevious \/ BuildList
      BY <2>1 DEF ReadPrevious, BuildList, Clis, Reached, StepsOf
    <2>2. CASE Record
      BY <2>2, <1>1 DEF Record, Clis, Steps, Reached, StepsOf
    <2> QED BY <1>c, <2>1, <2>2
  <1>d. CASE WhichPrevious \/ Inspect
    <2>1. CASE WhichPrevious
      BY <2>1 DEF WhichPrevious, world, Clis, Users, NoPath
    <2>2. CASE Inspect
      BY <2>2 DEF Inspect, world, Clis
    <2> QED BY <1>d, <2>1, <2>2
  <1>e. CASE WaitInactive \/ ResetFailed \/ StopForTeardown \/ StopPeonyProcesses
    BY <1>e, <1>1
    DEF WaitInactive, ResetFailed, StopForTeardown, StopPeonyProcesses,
        Terminate, WaitForPeonyExit, KillPeony, ClearLocks, world, Steps, Reached, StepsOf
  <1>f. CASE Restore
    BY <1>f, <1>1
    DEF Restore, SetGsettings, May, Without, Users, NoPath, Steps
  <1>g. CASE Purge \/ Purged
    BY <1>g, <1>1 DEF Purge, Purged, Clis, Steps
  <1>h. CASE Environment \/ UNCHANGED vars
    BY <1>h, EnvironmentFrame DEF vars, world, Without
  <1> QED BY <1>a, <1>b, <1>c, <1>d, <1>e, <1>f, <1>g, <1>h
      DEF Next, Setup, Teardown

-----------------------------------------------------------------------------
(* The unit and its process.                                               *)

(* Processes end. *)
LEMMA EndUnit ==
  ASSUME DesktopTyped, UnitInv, NEW gone \in SUBSET Pids,
         NEW clean \in BOOLEAN, End(gone, clean)
  PROVE  UnitInv'
  <1>1. \A p \in Pids : peony'[p] = IF p \in gone THEN Dead ELSE peony[p]
    BY DEF End
  <1>2. Found' = Found \ gone
    BY <1>1, Values DEF Found, UnitInv
  <1>3. \A p \in Found' : peony'[p] = peony[p] /\ p \in Found
    BY <1>1, <1>2 DEF Found
  <1>4. CASE \E p \in gone : peony[p].injected
    <2>1. \A p \in Found' : ~peony'[p].injected
      <3>1. PICK p \in gone : peony[p].injected
        BY <1>4
      <3>2. p \in Found
        BY <3>1, Values DEF Found, UnitInv
      <3> QED BY <1>2, <1>3, <3>1, <3>2 DEF UnitInv
    <2>2. unit'.state = unit.state /\ unit.state \in {"active", "deactivating"}
      <3>1. PICK p \in gone : peony[p].injected
        BY <1>4
      <3>2. p \in Found
        BY <3>1, Values DEF Found, UnitInv
      <3> QED BY <3>1, <3>2 DEF End, UnitInv, DesktopTyped, UnitStates
    <2> QED BY <1>1, <1>3, <2>1, <2>2 DEF UnitInv
  <1>5. CASE ~\E p \in gone : peony[p].injected
    <2>1. unit' = unit
      BY <1>5 DEF End
    <2> QED BY <1>1, <1>3, <2>1 DEF UnitInv
  <1> QED BY <1>4, <1>5

(* A plain peony starts, or hands over to the one that is there. *)
LEMMA StartPlainUnit ==
  ASSUME DesktopTyped, UnitInv, StartPlain
  PROVE  UnitInv'
  <1>1. CASE UNCHANGED desktop
    BY <1>1 DEF desktop, UnitInv, Found
  <1>2. CASE \E p \in Pids \ Found : peony' = [peony EXCEPT ![p] = Plain] /\ UNCHANGED unit
    <2>1. PICK p \in Pids \ Found : peony' = [peony EXCEPT ![p] = Plain] /\ UNCHANGED unit
      BY <1>2
    <2>2. /\ peony'[p] = Plain
          /\ \A q \in Pids : q # p => peony'[q] = peony[q]
      BY <2>1 DEF DesktopTyped
    <2>3. Found' = Found \cup {p}
      BY <2>1, <2>2, Values DEF Found
    <2> QED BY <2>1, <2>2, <2>3, Values DEF UnitInv
  <1> QED BY <1>1, <1>2 DEF StartPlain

(* The unit starts its process: there is none of its before. *)
LEMMA StartInjectedUnit ==
  ASSUME DesktopTyped, UnitInv, NEW list \in Lists, StartInjected(list),
         unit.state \in {"unloaded", "failed", "activating"}
  PROVE  /\ UnitInv'
         /\ \E p \in Pids \ Found :
              /\ Found' = Found \cup {p}
              /\ peony'[p] = Injected(list)
              /\ \A q \in Pids : q # p => peony'[q] = peony[q]
         /\ unit'.state = "active" /\ unit'.list = list /\ unit'.ended = "no"
  <1>1. PICK p \in Pids \ Found : peony' = [peony EXCEPT ![p] = Injected(list)]
    BY DEF StartInjected
  <1>2. /\ peony'[p] = Injected(list)
        /\ \A q \in Pids : q # p => peony'[q] = peony[q]
    BY <1>1 DEF DesktopTyped
  <1>3. Found' = Found \cup {p}
    BY <1>2, Values DEF Found
  <1>4. \A q \in Found : ~peony[q].injected
    BY DEF UnitInv
  <1>5. unit'.state = "active" /\ unit'.list = list /\ unit'.ended = "no"
    BY DEF StartInjected, Unloaded
  <1>6. \A q \in Found' : q # p => peony'[q] = peony[q] /\ q \in Found
    BY <1>2, <1>3 DEF Found
  <1>7. UnitInv'
    <2>1. \A q \in Pids : peony'[q].state = "dead" => peony'[q] = Dead
      BY <1>2, Values DEF UnitInv
    <2>2. \A q \in Found' : peony'[q].injected => q = p
      BY <1>4, <1>6
    <2>3. \A q \in Found' : peony'[q].state = "exec" => peony'[q].injected
      BY <1>2, <1>6, Values DEF UnitInv
    <2> QED BY <1>2, <1>5, <2>1, <2>2, <2>3, Values DEF UnitInv
  <1> QED BY <1>2, <1>3, <1>5, <1>7

(* Asking processes to end changes nothing else about them. *)
LEMMA DyingUnit ==
  ASSUME DesktopTyped, UnitInv, peony' \in [Pids -> Processes],
         \A p \in Pids : /\ peony'[p].state = peony[p].state
                         /\ peony'[p].injected = peony[p].injected
                         /\ peony'[p].list = peony[p].list
                         /\ p \notin Found => peony'[p] = Dead,
         unit'.state \notin {"active", "deactivating"} => unit'.ended = "no",
         \/ unit' = unit
         \/ /\ unit'.list = unit.list /\ unit'.ended = unit.ended
            /\ unit.state \in {"active", "deactivating"} => unit'.state = "deactivating"
         \/ unit.state \notin {"active", "deactivating"}
  PROVE  UnitInv' /\ Found' = Found
  <1>1. Found' = Found
    BY DEF Found
  <1>2. \A p \in Found : p \in Pids
    BY DEF Found
  <1>3. \A p \in Pids : peony'[p].state = "dead" => peony'[p] = Dead
    BY DEF Found
  <1>4. \A p \in Found : peony[p].injected =>
          unit'.state \in {"active", "deactivating"} /\ unit'.ended = "no" /\ unit'.list = unit.list
    BY DEF UnitInv
  <1> QED BY <1>1, <1>2, <1>3, <1>4 DEF UnitInv

(* Stopping the unit, and clearing it after a failure. *)
LEMMA StopFields ==
  ASSUME DesktopTyped, UnitInv
  PROVE  /\ unit.state \in {"active", "deactivating"} =>
              /\ Stopped(unit).state = "deactivating"
              /\ Stopped(unit).list = unit.list
              /\ Stopped(unit).ended = unit.ended
              /\ Cleared(Stopped(unit)) = Stopped(unit)
         /\ unit.state = "activating" =>
              Stopped(unit) = Unloaded /\ Cleared(Stopped(unit)) = Unloaded
         /\ unit.state \in {"unloaded", "failed"} =>
              Stopped(unit) = unit /\ Cleared(Stopped(unit)) = Cleared(unit)
         /\ unit.state # "failed" => Cleared(unit) = unit
         /\ unit.state = "failed" => Cleared(unit) = Unloaded
         /\ \A u \in {Stopped(unit), Cleared(Stopped(unit)), Cleared(unit)} :
              u.state \notin {"active", "deactivating"} => u.ended = "no"
         /\ \A p \in Pids :
              /\ Asked[p].state = peony[p].state
              /\ Asked[p].injected = peony[p].injected
              /\ Asked[p].list = peony[p].list
              /\ Asked[p].dying =>
                   peony[p].dying \/ (peony[p].injected /\ unit.state = "active")
              /\ p \notin Found => Asked[p] = Dead
  <1>1. Unloaded.state = "unloaded" /\ Unloaded.ended = "no"
    BY DEF Unloaded
  <1>2. /\ unit.state \in {"active", "deactivating"} =>
              /\ Stopped(unit).state = "deactivating"
              /\ Stopped(unit).list = unit.list
              /\ Stopped(unit).ended = unit.ended
    BY DEF DesktopTyped, UnitStates, Stopped
  <1>3. \A p \in Pids :
          /\ Asked[p].state = peony[p].state
          /\ Asked[p].injected = peony[p].injected
          /\ Asked[p].list = peony[p].list
          /\ Asked[p].dying =>
               peony[p].dying \/ (peony[p].injected /\ unit.state = "active")
    BY DEF Asked, DesktopTyped, Processes
  <1>4. ASSUME NEW p \in Pids, p \notin Found
        PROVE  Asked[p] = Dead
    <2>1. peony[p] = Dead
      BY <1>4 DEF Found, UnitInv
    <2>2. Asked[p] \in Processes
      BY StopTyped
    <2>3. Asked[p] = [Dead EXCEPT !.dying = Dead.dying \/ (Dead.injected /\ unit.state = "active")]
      BY <2>1 DEF Asked
    <2>4. Dead.dying = FALSE /\ (Dead.dying \/ (Dead.injected /\ unit.state = "active")) = FALSE
      BY Values DEF Processes
    <2>5. \A w \in Processes : [w EXCEPT !.dying = w.dying] = w
      BY DEF Processes
    <2> QED BY <2>3, <2>4, <2>5, Values
  <1>5. unit.state \notin {"active", "deactivating"} => unit.ended = "no"
    BY DEF UnitInv
  <1>6. unit.state \in {"unloaded", "active", "activating", "deactivating", "failed"}
    BY DEF DesktopTyped, UnitStates
  <1> QED BY <1>1, <1>2, <1>3, <1>4, <1>5, <1>6 DEF Stopped, Cleared

LEMMA UnitStep ==
  ASSUME TypeOK, UnitInv, [Next]_vars
  PROVE  UnitInv'
  <1> DesktopTyped /\ cli \in Clis
    BY TypeParts
  <1>1. UNCHANGED desktop => UnitInv'
    BY DEF desktop, UnitInv, Found
  <1>2. unit' = Stopped(unit) /\ peony' = Asked => UnitInv'
    BY StopFields, StopTyped, DyingUnit
  <1>3. unit' = Cleared(Stopped(unit)) /\ peony' = Asked => UnitInv'
    BY StopFields, StopTyped, DyingUnit
  <1>4. unit' = Cleared(unit) /\ peony' = peony => UnitInv'
    BY StopFields, DyingUnit DEF DesktopTyped, UnitInv, Found
  <1>a. CASE Begin \/ Return \/ Killed \/ WriteMarker \/ ReadPrevious \/ Record
             \/ PointAtMarker \/ BuildList \/ WaitInactive \/ VerifyInjected
    BY <1>a, <1>1 DEF Begin, Return, Killed, WriteMarker, ReadPrevious, Record,
       PointAtMarker, BuildList, WaitInactive, VerifyInjected
  <1>b. CASE WhichPrevious \/ Inspect \/ Restore \/ RemoveFiles \/ VerifyPlain \/ Purged
    BY <1>b, <1>1
    DEF WhichPrevious, Inspect, Restore, RemoveFiles, VerifyPlain, Purged
  <1>c. CASE StopForSetup \/ StopForTeardown \/ Purge
    BY <1>c, <1>1, <1>2, <1>3, <1>4
    DEF StopForSetup, StopForTeardown, Purge, desktop, DesktopTyped, UnitInv, Found
  <1>d. CASE ResetFailed
    BY <1>d, <1>4 DEF ResetFailed, UnitInv, Found
  <1>e. CASE Launch
    <2>1. cli.list \in Lists
      BY DEF Clis
    <2> QED BY <1>e, <1>1, <2>1, StartInjectedUnit DEF Launch
  <1>f. CASE Relaunch
    BY <1>f, <1>1, StartPlainUnit DEF Relaunch
  <1>g. CASE Terminate
    <2>1. \A w \in Processes :
            LET d == [w EXCEPT !.dying = TRUE] IN
            d \in Processes /\ d.state = w.state /\ d.injected = w.injected /\ d.list = w.list
      BY DEF Processes
    <2>2. \A p \in Pids :
            /\ p \in Found => peony'[p] = [peony[p] EXCEPT !.dying = TRUE]
            /\ p \notin Found => peony'[p] = Dead /\ peony[p] = Dead
      BY <1>g DEF Terminate, UnitInv, Found
    <2>3. \A p \in Pids : peony[p] \in Processes
      BY DEF DesktopTyped
    <2>4. peony' \in [Pids -> Processes]
      BY <1>g, <2>1, <2>2, <2>3, Values DEF Terminate
    <2>5. unit' = unit /\ (unit.state \notin {"active", "deactivating"} => unit.ended = "no")
      BY <1>g DEF Terminate, UnitInv
    <2>6. \A p \in Pids : /\ peony'[p].state = peony[p].state
                          /\ peony'[p].injected = peony[p].injected
                          /\ peony'[p].list = peony[p].list
                          /\ p \notin Found => peony'[p] = Dead
      BY <2>1, <2>2, <2>3
    <2> QED BY <2>4, <2>5, <2>6, DyingUnit
  <1>h. CASE WaitForPeonyExit
    BY <1>h, <1>1 DEF WaitForPeonyExit
  <1>i. CASE KillPeony
    BY <1>i, EndUnit DEF KillPeony, Found
  <1>j. CASE ClearLocks
    BY <1>j DEF ClearLocks, UnitInv, Found
  <1>k. ASSUME NEW p \in Pids, Exec(p) PROVE UnitInv'
    <2>1. p \in Found /\ peony[p].injected
      BY <1>k DEF Exec, Found, UnitInv
    <2>2. CASE peony' = [peony EXCEPT ![p].state = "live"] /\ UNCHANGED unit
      <3>1. /\ peony'[p] = [peony[p] EXCEPT !.state = "live"]
            /\ \A q \in Pids : q # p => peony'[q] = peony[q]
        BY <2>2 DEF DesktopTyped
      <3>2. \A w \in Processes :
              LET l == [w EXCEPT !.state = "live"] IN
              l.state = "live" /\ l.injected = w.injected /\ l.list = w.list
        BY DEF Processes
      <3>3. /\ peony'[p].state = "live" /\ peony'[p].injected = peony[p].injected
            /\ peony'[p].list = peony[p].list
        BY <3>1, <3>2 DEF DesktopTyped
      <3>4. Found' = Found
        BY <3>1, <3>3, <2>1 DEF Found
      <3>5. \A q \in Found : q \in Pids
        BY DEF Found
      <3> QED BY <2>2, <3>1, <3>3, <3>4, <3>5 DEF UnitInv
    <2>3. CASE peony' = [peony EXCEPT ![p] = Dead] /\ unit' = [unit EXCEPT !.ended = "clean"]
      <3>1. /\ peony'[p] = Dead
            /\ \A q \in Pids : q # p => peony'[q] = peony[q]
        BY <2>3 DEF DesktopTyped
      <3>2. \A q \in Found' : q # p /\ q \in Found /\ peony'[q] = peony[q]
        BY <3>1, Values DEF Found
      <3>3. \A q \in Found' : ~peony'[q].injected
        BY <3>2, <2>1 DEF UnitInv
      <3>4. unit'.state \in {"active", "deactivating"}
        BY <2>1, <2>3 DEF UnitInv, DesktopTyped, UnitStates
      <3> QED BY <3>1, <3>2, <3>3, <3>4 DEF UnitInv
    <2> QED BY <1>k, <2>2, <2>3 DEF Exec
  <1>l. ASSUME NEW p \in Pids, Obey(p) \/ Crash(p) PROVE UnitInv'
    BY <1>l, EndUnit DEF Obey, Crash
  <1>m. CASE Reap
    <2>1. \A p \in Found : ~peony[p].injected
      BY <1>m DEF Reap, UnitInv
    <2>2. unit'.ended = "no"
      BY <1>m DEF Reap, Unloaded, DesktopTyped, UnitStates
    <2> QED BY <1>m, <2>1, <2>2 DEF Reap, UnitInv, Found
  <1>n. CASE AutoRestart
    <2>1. unit.list \in Lists
      BY DEF DesktopTyped, UnitStates
    <2> QED BY <1>n, <2>1, StartInjectedUnit DEF AutoRestart
  <1>o. CASE Respawn
    BY <1>o, StartPlainUnit DEF Respawn
  <1>p. CASE UNCHANGED vars
    BY <1>p, <1>1 DEF vars, desktop
  <1> QED BY <1>a, <1>b, <1>c, <1>d, <1>e, <1>f, <1>g, <1>h, <1>i, <1>j, <1>k,
             <1>l, <1>m, <1>n, <1>o, <1>p
      DEF Next, Setup, Teardown, StopPeonyProcesses, Environment

(* Once the package's script has stopped the unit, nothing loads one. *)
LEMMA PurgedStep ==
  ASSUME TypeOK, Reached, UnitInv, PurgedInv, [Next]_vars
  PROVE  PurgedInv'
  <1> DesktopTyped /\ cli \in Clis
    BY TypeParts
  <1>1. faults' = faults
    BY FaultsFrame
  <1>2. \A to \in Steps : Goto(to) => cli'.at = to
    BY GotoFields
  <1>3. \A r \in {"ok", "FileError", "BusError", "Unknown", "killed"} :
          Exit(r) => /\ cli'.at = IF cli.cmd = "uninstall" THEN "purge" ELSE "done"
                     /\ cli'.cmd = cli.cmd
    BY ExitFields
  <1> SUFFICES ASSUME cli'.cmd \in {"uninstall", "upgrade"}, cli'.at = "done",
                      Without({"bus"})
               PROVE  unit'.state \in {"unloaded", "failed"}
    BY <1>1 DEF PurgedInv, Without
  <1>a. CASE Begin \/ Return
    BY <1>a, FreshFields
  <1>b. CASE Killed \/ WriteMarker \/ PointAtMarker \/ StopForSetup \/ Launch
             \/ VerifyInjected \/ VerifyPlain \/ Relaunch
    BY <1>b, <1>2, <1>3
    DEF Killed, WriteMarker, PointAtMarker, StopForSetup, Launch, VerifyInjected,
        VerifyPlain, Relaunch, Steps, Reached, StepsOf
  <1>c. CASE ReadPrevious \/ Record \/ BuildList \/ WhichPrevious \/ Inspect
    BY <1>c, <1>2
    DEF ReadPrevious, Record, BuildList, WhichPrevious, Inspect, Clis, Steps
  <1>d. CASE WaitInactive \/ ResetFailed \/ StopForTeardown \/ Restore
             \/ RemoveFiles \/ StopPeonyProcesses
    BY <1>d, <1>2
    DEF WaitInactive, ResetFailed, StopForTeardown, Restore, RemoveFiles,
        StopPeonyProcesses, Terminate, WaitForPeonyExit, KillPeony, ClearLocks,
        Steps
  <1>e. CASE Purge
    BY <1>e, <1>2 DEF Purge, Without, Steps
  <1>f. CASE Purged
    BY <1>f DEF Purged, desktop
  <1>g. CASE Environment \/ UNCHANGED vars
    <2>1. unit.state \in {"unloaded", "failed"} /\ UNCHANGED cli
      BY <1>g, EnvironmentFrame DEF vars, PurgedInv
    <2>2. CASE Reap
      BY <2>1, <2>2 DEF Reap, Unloaded, DesktopTyped, UnitStates
    <2>3. CASE AutoRestart
      BY <2>1, <2>3 DEF AutoRestart
    <2>4. CASE Respawn
      BY <2>1, <2>4 DEF Respawn, StartPlain, desktop
    <2>5. ASSUME NEW p \in Pids, Exec(p) \/ Obey(p) \/ Crash(p)
          PROVE  unit'.state \in {"unloaded", "failed"}
      BY <2>1, <2>5 DEF Exec, Obey, Crash, End, DesktopTyped, UnitStates
    <2>6. CASE UNCHANGED vars
      BY <2>1, <2>6 DEF vars
    <2> QED BY <1>g, <2>2, <2>3, <2>4, <2>5, <2>6 DEF Environment
  <1> QED BY <1>a, <1>b, <1>c, <1>d, <1>e, <1>f, <1>g DEF Next, Setup, Teardown

-----------------------------------------------------------------------------
(* Without crashes, respawns and kills.                                    *)

(* A step that leaves the desktop alone has to answer for where it goes.   *)
LEMMA CalmQuiet ==
  ASSUME Calm, UNCHANGED desktop,
         cli'.at \in Waiting => unit.state # "active",
         \A p \in Found : peony[p].state = "exec" =>
           cli'.cmd = "setup" /\ cli'.at = "verify",
         lock = "stale" => cli'.at = "locks",
         \A p \in Found : peony[p].dying =>
           cli'.at \in Waiting /\ (cli'.at = "purging" => peony[p].injected),
         cli'.at \in {"locks", "launch"} => Found = {},
         cli'.cmd \in {"teardown", "uninstall"} /\ cli'.at \in Stopping =>
           \A p \in Found : ~peony[p].injected,
         cli'.cmd \in {"teardown", "uninstall"}
           /\ cli'.at \in {"restore", "remove", "relaunch"}
           /\ (cli'.injected \/ cli'.absent) => Found = {}
  PROVE  Calm'
  <1>1. Found' = Found /\ peony' = peony /\ unit' = unit /\ lock' = lock
    BY DEF desktop, Found
  <1>2. CalmUnit'
    BY <1>1 DEF Calm, CalmUnit
  <1>3. CalmPeony'
    BY <1>1 DEF Calm, CalmPeony
  <1>4. CalmSteps'
    BY <1>1 DEF Calm, CalmSteps, Removing
  <1> QED BY <1>2, <1>3, <1>4 DEF Calm

(* Where nothing is waited for, nothing is about to change by itself. *)
LEMMA CalmHere ==
  ASSUME Calm
  PROVE  /\ cli.at \notin Waiting => \A p \in Found : ~peony[p].dying
         /\ cli.at # "verify" \/ cli.cmd # "setup" =>
              \A p \in Found : peony[p].state # "exec"
         /\ cli.at # "locks" => lock # "stale"
  BY DEF Calm, CalmPeony, CalmSteps

LEMMA CalmQuietSteps ==
  ASSUME TypeOK, Reached, UnitInv, Calm, NoneOutlives,
         \/ Begin \/ Return \/ Killed \/ WriteMarker \/ ReadPrevious \/ Record
         \/ PointAtMarker \/ BuildList \/ WaitInactive \/ VerifyInjected
         \/ WhichPrevious \/ Inspect \/ Restore \/ RemoveFiles \/ VerifyPlain
         \/ WaitForPeonyExit \/ Purged
  PROVE  Calm'
  <1> DesktopTyped /\ cli \in Clis
    BY TypeParts
  <1>1. \A to \in Steps : Goto(to) =>
          /\ cli'.at = to /\ cli'.cmd = cli.cmd
          /\ cli'.injected = cli.injected /\ cli'.absent = cli.absent
    BY GotoFields
  <1>2. \A r \in {"ok", "FileError", "BusError", "Unknown", "killed"} :
          Exit(r) => /\ cli'.at = IF cli.cmd = "uninstall" THEN "purge" ELSE "done"
                     /\ cli'.cmd = cli.cmd
    BY ExitFields
  <1>3. /\ cli.at \notin Waiting => \A p \in Found : ~peony[p].dying
        /\ cli.at # "verify" \/ cli.cmd # "setup" =>
             \A p \in Found : peony[p].state # "exec"
        /\ cli.at # "locks" => lock # "stale"
    BY CalmHere
  <1>4. cli.cmd \in {"setup", "teardown", "uninstall", "upgrade"}
    BY DEF Clis
  <1>a. CASE Begin \/ Return
    <2>1. cli.at \in {"idle", "done"} /\ UNCHANGED desktop
      BY <1>a DEF Begin, Return
    <2> QED BY <1>a, <1>3, <2>1, FreshFields, CalmQuiet DEF Waiting, Stopping
  <1>b. CASE Killed
    BY <1>b DEF Killed, NoneOutlives, Without
  <1>c. CASE WriteMarker
    <2>1. UNCHANGED desktop /\ cli'.cmd = "setup" /\ cli'.at \in {"read", "done"}
          /\ cli.at = "marker"
      BY <1>c, <1>1, <1>2, <1>4 DEF WriteMarker, Reached, StepsOf, Steps
    <2> QED BY <1>3, <2>1, CalmQuiet DEF Waiting, Stopping
  <1>d. CASE ReadPrevious \/ Record \/ PointAtMarker \/ BuildList
    <2>1. /\ UNCHANGED desktop /\ cli'.cmd = cli.cmd
          /\ cli'.at \in {"record", "point", "normalized", "stop"}
          /\ cli.at \in {"read", "record", "point", "normalized"}
      <3>1. CASE ReadPrevious \/ BuildList
        BY <3>1 DEF ReadPrevious, BuildList, Clis
      <3>2. CASE Record
        BY <3>2, <1>1 DEF Record, Clis, Steps
      <3>3. CASE PointAtMarker
        BY <3>3, <1>1 DEF PointAtMarker, Steps
      <3> QED BY <1>d, <3>1, <3>2, <3>3
    <2> QED BY <1>3, <2>1, CalmQuiet DEF Waiting, Stopping
  <1>e. CASE WaitInactive
    <2>1. UNCHANGED desktop /\ cli'.cmd = cli.cmd /\ cli'.at = "reset"
          /\ cli.at = "inactive"
      BY <1>e, <1>1 DEF WaitInactive, Steps
    <2> QED BY <1>3, <2>1, CalmQuiet DEF Waiting, Stopping, Calm, CalmUnit
  <1>f. CASE WaitForPeonyExit
    <2>1. UNCHANGED desktop /\ cli'.cmd = cli.cmd /\ cli.at = "wait"
          /\ (cli'.at = "kill" \/ (cli'.at = "locks" /\ Found = {}))
      BY <1>f, <1>1 DEF WaitForPeonyExit, Steps
    <2> QED BY <1>3, <2>1, CalmQuiet DEF Waiting, Stopping, Calm, CalmUnit
  <1>g. CASE VerifyInjected
    <2>1. UNCHANGED desktop /\ cli'.cmd = "setup" /\ cli.at = "verify"
          /\ cli'.at = "done"
      BY <1>g, <1>2 DEF VerifyInjected
    <2>2. \A p \in Found : peony[p].state # "exec"
      BY <1>g, FirstFound
      DEF VerifyInjected, Mapped, TimeIsUp, Calm, CalmPeony, NoneOutlives, Without
    <2> QED BY <1>3, <2>1, <2>2, CalmQuiet DEF Waiting, Stopping
  <1>h. CASE VerifyPlain
    <2>1. UNCHANGED desktop /\ cli'.cmd = cli.cmd /\ cli.cmd \in {"teardown", "uninstall"}
          /\ cli.at = "verify" /\ cli'.at \in {"done", "purge"}
      BY <1>h, <1>2, <1>4 DEF VerifyPlain, Reached, StepsOf
    <2>2. \A p \in Found : ~peony[p].injected
      BY <2>1 DEF Calm, CalmSteps, Removing, Stopping
    <2> QED BY <1>3, <2>1, <2>2, CalmQuiet DEF Waiting, Stopping
  <1>i. CASE WhichPrevious
    <2>1. UNCHANGED desktop /\ cli'.cmd = cli.cmd /\ cli.at = "previous"
          /\ cli'.at = "inspect"
      BY <1>i DEF WhichPrevious, Clis
    <2> QED BY <1>3, <2>1, CalmQuiet DEF Waiting, Stopping
  <1>j. CASE Inspect
    <2>1. /\ UNCHANGED desktop /\ cli'.cmd = cli.cmd /\ cli.at = "inspect"
          /\ cli'.injected <=> Found # {} /\ Mapped(First)
          /\ cli'.absent <=> Found = {}
          /\ cli'.at = IF Found # {} /\ Mapped(First) THEN "stop" ELSE "restore"
      BY <1>j DEF Inspect, Clis
    <2>2. cli'.at = "restore" => \A p \in Found : ~peony[p].injected
      <3>1. SUFFICES ASSUME cli'.at = "restore", NEW p \in Found, peony[p].injected
                     PROVE  FALSE
        OBVIOUS
      <3>2. First = p
        BY <3>1, FirstFound DEF Calm, CalmPeony
      <3>3. peony[p].state = "live"
        BY <1>3, <2>1, <3>1 DEF Found, DesktopTyped, Processes
      <3> QED BY <2>1, <3>1, <3>2, <3>3 DEF Mapped
    <2> QED BY <1>3, <2>1, <2>2, CalmQuiet DEF Waiting, Stopping
  <1>k. CASE Restore \/ RemoveFiles
    <2>1. UNCHANGED desktop /\ cli'.cmd = cli.cmd /\ cli.at \in {"restore", "remove"}
          /\ cli'.at \in {"remove", "relaunch"}
          /\ cli'.injected = cli.injected /\ cli'.absent = cli.absent
      BY <1>k, <1>1 DEF Restore, RemoveFiles, Steps
    <2>2. cli.cmd \in {"teardown", "uninstall"} =>
            /\ \A p \in Found : ~peony[p].injected
            /\ cli.injected \/ cli.absent => Found = {}
      BY <2>1 DEF Calm, CalmSteps, Removing, Stopping
    <2> QED BY <1>3, <2>1, <2>2, CalmQuiet DEF Waiting, Stopping
  <1>l. CASE Purged
    <2>1. UNCHANGED desktop /\ cli'.cmd = cli.cmd /\ cli.at = "purging"
          /\ cli'.at = "done" /\ unit.state \in {"unloaded", "failed"}
      BY <1>l DEF Purged, Clis
    <2>2. \A p \in Found : ~peony[p].injected
      BY <2>1 DEF UnitInv
    <2>3. \A p \in Found : ~peony[p].dying
      BY <2>1, <2>2 DEF Calm, CalmSteps
    <2> QED BY <1>3, <2>1, <2>2, <2>3, CalmQuiet DEF Waiting, Stopping
  <1> QED BY <1>a, <1>b, <1>c, <1>d, <1>e, <1>f, <1>g, <1>h, <1>i, <1>j, <1>k, <1>l

(* The steps of the CLI that act on the desktop. *)
LEMMA CalmStopSteps ==
  ASSUME TypeOK, Reached, UnitInv, Calm, NoneOutlives,
         StopForSetup \/ StopForTeardown \/ Purge \/ ResetFailed
  PROVE  Calm'
  <1> DesktopTyped /\ cli \in Clis
    BY TypeParts
  <1>1. \A to \in Steps : Goto(to) => cli'.at = to /\ cli'.cmd = cli.cmd
    BY GotoFields
  <1>2. "bus" \notin faults
    BY DEF NoneOutlives, Without
  <1>3. CASE StopForSetup \/ StopForTeardown \/ Purge
    <2>1. /\ unit' = Stopped(unit) \/ unit' = Cleared(Stopped(unit))
          /\ peony' = Asked /\ lock' = lock /\ cli'.cmd = cli.cmd
          /\ cli.at \in {"stop", "purge"}
          /\ cli'.at \in {"inactive", "term", "purging"}
          /\ cli.at = "purge" <=> cli'.at = "purging"
      <3>1. CASE StopForSetup
        BY <1>1, <1>2, <3>1 DEF StopForSetup, Steps
      <3>2. CASE StopForTeardown
        BY <1>1, <1>2, <3>2 DEF StopForTeardown, Steps
      <3>3. CASE Purge
        BY <1>1, <1>2, <3>3 DEF Purge, Steps
      <3> QED BY <1>3, <3>1, <3>2, <3>3
    <2>2. /\ Found' = Found
          /\ \A p \in Found : /\ peony'[p].state = peony[p].state
                              /\ peony'[p].injected = peony[p].injected
                              /\ peony'[p].dying => peony[p].injected
      <3>1. \A p \in Found : ~peony[p].dying
        BY <2>1, CalmHere DEF Waiting
      <3> QED BY <2>1, <3>1, StopFields DEF Found
    <2>3. unit'.state \in {"unloaded", "failed", "deactivating"}
      BY <2>1, StopFields
      DEF Calm, CalmUnit, Cleared, Unloaded, DesktopTyped, UnitStates
    <2>4. \A p \in Found : peony[p].state # "exec"
      BY <2>1, CalmHere
    <2>5. lock # "stale"
      BY <2>1, CalmHere
    <2>6. cli.cmd \in {"teardown", "uninstall"} /\ cli.at = "purge" =>
            \A p \in Found : ~peony[p].injected
      BY DEF Calm, CalmSteps, Removing, Stopping
    <2>7. CalmUnit'
      BY <2>3 DEF CalmUnit
    <2>8. CalmPeony'
      BY <2>1, <2>2, <2>4, <2>5 DEF Calm, CalmPeony
    <2>9. CalmSteps'
      BY <2>1, <2>2, <2>6 DEF CalmSteps, Removing, Waiting, Stopping
    <2> QED BY <2>7, <2>8, <2>9 DEF Calm
  <1>4. CASE ResetFailed
    <2>1. /\ unit' = unit \/ unit' = Cleared(unit)
          /\ peony' = peony /\ lock' = lock /\ cli'.cmd = cli.cmd
          /\ cli.at = "reset" /\ cli'.at = "term"
      BY <1>1, <1>4 DEF ResetFailed, Steps
    <2>2. Found' = Found
      BY <2>1 DEF Found
    <2>3. unit'.state \in {"unloaded", "failed", "deactivating"}
      BY <2>1 DEF Calm, CalmUnit, Cleared, Unloaded, DesktopTyped, UnitStates,
         Waiting
    <2>4. CalmUnit'
      BY <2>3 DEF CalmUnit
    <2>5. CalmPeony'
      BY <2>1, <2>2 DEF Calm, CalmPeony
    <2>6. CalmSteps'
      BY <2>1, <2>2 DEF Calm, CalmSteps, Removing, Waiting, Stopping
    <2> QED BY <2>4, <2>5, <2>6 DEF Calm
  <1> QED BY <1>3, <1>4

LEMMA CalmPeonySteps ==
  ASSUME TypeOK, Reached, UnitInv, Calm, NoneOutlives,
         Terminate \/ KillPeony \/ ClearLocks
  PROVE  Calm'
  <1> DesktopTyped /\ cli \in Clis
    BY TypeParts
  <1>1. \A to \in Steps : Goto(to) => cli'.at = to /\ cli'.cmd = cli.cmd
    BY GotoFields
  <1>2. CASE Terminate
    <2>1. /\ unit' = unit /\ lock' = lock /\ cli'.cmd = cli.cmd
          /\ cli.at = "term" /\ cli'.at = "wait"
      BY <1>1, <1>2 DEF Terminate, Steps
    <2>2. /\ Found' = Found
          /\ \A p \in Found : /\ peony'[p].state = peony[p].state
                              /\ peony'[p].injected = peony[p].injected
      <3>1. \A w \in Processes :
              LET d == [w EXCEPT !.dying = TRUE] IN
              d.state = w.state /\ d.injected = w.injected
        BY DEF Processes
      <3>2. \A p \in Pids : /\ p \in Found => peony'[p] = [peony[p] EXCEPT !.dying = TRUE]
                            /\ p \notin Found => peony'[p] = Dead
        BY <1>2 DEF Terminate
      <3>3. \A p \in Found : p \in Pids /\ peony[p] \in Processes /\ peony[p].state # "dead"
        BY DEF Found, DesktopTyped
      <3>4. \A p \in Found : /\ peony'[p].state = peony[p].state
                            /\ peony'[p].injected = peony[p].injected
        BY <3>1, <3>2, <3>3
      <3>5. \A p \in Pids : p \in Found <=> peony'[p].state # "dead"
        BY <3>2, <3>3, <3>4, Values
      <3>6. Found' = Found
        BY <3>5, <3>3 DEF Found
      <3> QED BY <3>4, <3>6
    <2>3. unit.state # "active"
      BY <2>1 DEF Calm, CalmUnit, Waiting
    <2>4. CalmUnit'
      BY <2>1, <2>3 DEF Calm, CalmUnit
    <2>5. CalmPeony'
      BY <2>1, <2>2 DEF Calm, CalmPeony
    <2>6. CalmSteps'
      BY <2>1, <2>2 DEF CalmSteps, Removing, Waiting, Stopping
    <2> QED BY <2>4, <2>5, <2>6 DEF Calm
  <1>3. CASE KillPeony
    <2>1. /\ End(Found, FALSE) /\ cli.at = "kill" /\ cli'.at = "locks"
      BY <1>1, <1>3 DEF KillPeony, Steps
    <2>2. Found' = {}
      BY <2>1, Values DEF End, Found
    <2>3. lock' \in {"free", "stale"}
      BY <2>1 DEF End, Calm, CalmPeony, DesktopTyped
    <2>4. unit'.state = unit.state
      BY <2>1 DEF End, DesktopTyped, UnitStates
    <2>5. CalmUnit'
      BY <2>1, <2>4 DEF Calm, CalmUnit, Waiting
    <2>6. CalmPeony'
      BY <2>1, <2>2, <2>3 DEF CalmPeony
    <2>7. CalmSteps'
      BY <2>2 DEF CalmSteps
    <2> QED BY <2>5, <2>6, <2>7 DEF Calm
  <1>4. CASE ClearLocks
    <2>1. /\ lock' = "free" /\ unit' = unit /\ peony' = peony
          /\ cli.at = "locks" /\ cli'.at \in {"launch", "restore"}
      BY <1>1, <1>4 DEF ClearLocks, Steps
    <2>2. Found = {} /\ Found' = {}
      BY <2>1 DEF Calm, CalmSteps, Found
    <2>3. CalmUnit'
      BY <2>1, <2>2 DEF Calm, CalmUnit, Waiting
    <2>4. CalmPeony'
      BY <2>1, <2>2 DEF CalmPeony
    <2>5. CalmSteps'
      BY <2>2 DEF CalmSteps
    <2> QED BY <2>3, <2>4, <2>5 DEF Calm
  <1> QED BY <1>2, <1>3, <1>4

LEMMA CalmLaunchSteps ==
  ASSUME TypeOK, Reached, UnitInv, Calm, NoneOutlives, Launch \/ Relaunch
  PROVE  Calm'
  <1> DesktopTyped /\ cli \in Clis
    BY TypeParts
  <1>1. \A to \in Steps : Goto(to) => /\ cli'.at = to /\ cli'.cmd = cli.cmd
                                      /\ cli'.injected = cli.injected
                                      /\ cli'.absent = cli.absent
    BY GotoFields
  <1>2. \A r \in {"ok", "FileError", "BusError", "Unknown", "killed"} :
          Exit(r) => /\ cli'.at = IF cli.cmd = "uninstall" THEN "purge" ELSE "done"
                     /\ cli'.cmd = cli.cmd
    BY ExitFields
  <1>3. cli.at \in {"launch", "relaunch"}
    BY DEF Launch, Relaunch
  <1>4. /\ \A p \in Found : ~peony[p].dying
        /\ \A p \in Found : peony[p].state # "exec"
        /\ lock # "stale"
    BY <1>3, CalmHere DEF Waiting
  <1>5. Found = {} => lock = "free"
    BY <1>4 DEF Calm, CalmPeony, DesktopTyped
  <1>6. CASE Launch
    <2>1. cli.cmd = "setup" /\ cli.at = "launch" /\ Found = {} /\ lock = "free"
      BY <1>5, <1>6 DEF Launch, Reached, StepsOf, Calm, CalmSteps, Clis
    <2>2. CASE UNCHANGED desktop
      <3>1. cli'.cmd = "setup" /\ cli'.at = "done"
        BY <1>2, <1>6, <2>1, <2>2 DEF Launch, StartInjected, desktop, DesktopTyped, Unloaded
      <3> QED BY <1>4, <2>1, <2>2, <3>1, CalmQuiet DEF Waiting, Stopping
    <2>3. CASE /\ unit.state \in {"unloaded", "failed"} /\ StartInjected(cli.list)
               /\ Goto("verify")
      <3>1. cli'.at = "verify" /\ cli'.cmd = "setup"
        BY <1>1, <2>1, <2>3 DEF Steps
      <3>2. cli.list \in Lists
        BY DEF Clis
      <3>3. PICK p \in Pids \ Found : /\ Found' = Found \cup {p}
                                      /\ peony'[p] = Injected(cli.list)
        BY <2>3, <3>2, StartInjectedUnit
      <3>4. unit'.state = "active" /\ unit'.ended = "no"
        BY <2>3, <3>2, StartInjectedUnit
      <3>5. lock' = "free"
        BY <2>1, <2>3 DEF StartInjected
      <3>6. Found' = {p} /\ peony'[p].state = "exec" /\ peony'[p].injected /\ ~peony'[p].dying
        BY <2>1, <3>2, <3>3, Values
      <3>7. CalmUnit'
        BY <3>1, <3>4, <3>6 DEF CalmUnit, Waiting
      <3>8. CalmPeony'
        BY <3>1, <3>5, <3>6 DEF CalmPeony
      <3>9. CalmSteps'
        BY <3>1, <3>6 DEF CalmSteps, Removing
      <3> QED BY <3>7, <3>8, <3>9 DEF Calm
    <2> QED BY <1>6, <2>2, <2>3 DEF Launch
  <1>7. CASE Relaunch
    <2>1. /\ cli.cmd \in {"teardown", "uninstall"} /\ cli.at = "relaunch"
          /\ \A p \in Found : ~peony[p].injected
          /\ cli.injected \/ cli.absent => Found = {}
      BY <1>7 DEF Relaunch, Reached, StepsOf, Calm, CalmSteps, Clis, Removing, Stopping
    <2>2. CASE UNCHANGED desktop
      <3>1. cli'.cmd = cli.cmd /\ cli'.at \in {"verify", "done", "purge"}
        BY <1>1, <1>2, <1>7 DEF Relaunch, Steps
      <3> QED BY <1>4, <2>1, <2>2, <3>1, CalmQuiet DEF Waiting, Stopping
    <2>3. CASE Found = {} /\ StartPlain /\ Goto("verify")
      <3>1. cli'.at = "verify" /\ cli'.cmd = cli.cmd
        BY <1>1, <2>3 DEF Steps
      <3>2. PICK p \in Pids \ Found : peony' = [peony EXCEPT ![p] = Plain]
        BY <1>5, <2>3 DEF StartPlain
      <3>3. lock' = "held" /\ unit' = unit
        BY <1>5, <2>3 DEF StartPlain
      <3>4. Found' = {p} /\ peony'[p] = Plain
        BY <2>3, <3>2, Values DEF Found, DesktopTyped
      <3>5. CalmUnit'
        BY <2>3, <3>1, <3>3 DEF Calm, CalmUnit, Waiting
      <3>6. CalmPeony'
        BY <3>1, <3>3, <3>4, Values DEF CalmPeony
      <3>7. CalmSteps'
        BY <3>1, <3>4, Values DEF CalmSteps, Removing
      <3> QED BY <3>5, <3>6, <3>7 DEF Calm
    <2> QED BY <1>7, <2>1, <2>2, <2>3 DEF Relaunch
  <1> QED BY <1>6, <1>7

(* What the processes and their supervisors do by themselves. *)
LEMMA CalmEnvironment ==
  ASSUME TypeOK, Reached, UnitInv, Calm, NoneOutlives, Environment
  PROVE  Calm'
  <1> DesktopTyped /\ cli \in Clis
    BY TypeParts
  <1>1. cli' = cli
    BY EnvironmentFrame
  <1>2. ASSUME NEW p \in Pids, Exec(p)
        PROVE  Calm'
    <2>1. p \in Found /\ peony[p].state = "exec"
      BY <1>2 DEF Exec, Found
    <2>2. /\ Found = {p} /\ lock = "free"
          /\ cli.cmd = "setup" /\ cli.at = "verify"
      BY <2>1 DEF Calm, CalmPeony
    <2>3. peony' = [peony EXCEPT ![p].state = "live"] /\ lock' = "held" /\ unit' = unit
      BY <1>2, <2>2 DEF Exec
    <2>4. /\ peony'[p].state = "live" /\ peony'[p].injected = peony[p].injected
          /\ \A q \in Pids : q # p => peony'[q] = peony[q]
      BY <2>3 DEF DesktopTyped, Processes
    <2>5. peony'[p].dying = peony[p].dying
      BY <2>3 DEF DesktopTyped, Processes
    <2>6. Found' = {p}
      BY <2>2, <2>4 DEF Found
    <2>7. CalmUnit'
      BY <1>1, <2>2, <2>3, <2>4, <2>6 DEF Calm, CalmUnit
    <2>8. CalmPeony'
      BY <2>3, <2>4, <2>6 DEF CalmPeony
    <2>9. CalmSteps'
      BY <1>1, <2>2, <2>4, <2>5, <2>6 DEF Calm, CalmSteps, Removing
    <2> QED BY <2>7, <2>8, <2>9 DEF Calm
  <1>3. ASSUME NEW p \in Pids, Obey(p)
        PROVE  Calm'
    <2>1. End({p}, TRUE) /\ peony[p].dying
      BY <1>3 DEF Obey
    <2>2. p \in Found
      BY <2>1, Values DEF Found, UnitInv
    <2>3. /\ Found = {p} /\ cli.at \in Waiting /\ unit.state # "active"
          /\ cli.at # "verify" /\ cli.at # "locks"
      BY <2>1, <2>2 DEF Calm, CalmPeony, CalmSteps, CalmUnit, Waiting
    <2>4. peony[p].state = "live"
      BY <2>2, <2>3 DEF Calm, CalmPeony, DesktopTyped, Processes, Found
    <2>5. lock = "held"
      BY <2>2, <2>4 DEF Calm, CalmPeony
    <2>6. lock' = "free" /\ Found' = {}
      BY <2>1, <2>3, <2>4, <2>5, Values DEF End, Found
    <2>7. unit'.state = unit.state
      BY <2>1 DEF End, DesktopTyped, UnitStates
    <2>8. CalmUnit'
      BY <1>1, <2>3, <2>7 DEF Calm, CalmUnit
    <2>9. CalmPeony' /\ CalmSteps'
      BY <2>6 DEF CalmPeony, CalmSteps
    <2> QED BY <2>8, <2>9 DEF Calm
  <1>4. CASE Reap
    <2>1. /\ unit.ended # "no" /\ unit.state # "active" /\ unit.state # "activating"
          /\ \A p \in Found : ~peony[p].injected
      BY <1>4 DEF Reap, Calm, CalmUnit, UnitInv
    <2>2. unit'.state \in {"unloaded", "failed"} /\ unit'.ended = "no"
      BY <1>4, <2>1 DEF Reap, Unloaded, DesktopTyped, UnitStates
    <2>3. peony' = peony /\ lock' = lock /\ Found' = Found
      BY <1>4 DEF Reap, Found
    <2>4. CalmUnit'
      BY <2>2 DEF CalmUnit
    <2>5. CalmPeony' /\ CalmSteps'
      BY <1>1, <2>3 DEF Calm, CalmPeony, CalmSteps, Removing
    <2> QED BY <2>4, <2>5 DEF Calm
  <1>5. ~AutoRestart /\ ~Respawn /\ \A p \in Pids : ~Crash(p)
    BY DEF AutoRestart, Respawn, Crash, NoneOutlives, Without, Calm, CalmUnit
  <1> QED BY <1>2, <1>3, <1>4, <1>5 DEF Environment

LEMMA CalmStep ==
  ASSUME TypeOK, Reached, UnitInv, CalmInv, [Next]_vars
  PROVE  CalmInv'
  <1>1. NoneOutlives' = NoneOutlives
    BY FaultsFrame DEF NoneOutlives, Without
  <1>2. SUFFICES ASSUME NoneOutlives PROVE Calm'
    BY <1>1 DEF CalmInv
  <1>3. Calm
    BY <1>2 DEF CalmInv
  <1>4. CASE UNCHANGED vars
    <2>1. UNCHANGED <<lock, unit, peony, cli>> /\ Found' = Found
      BY <1>4 DEF vars, Found
    <2> QED BY <1>3, <2>1 DEF Calm, CalmUnit, CalmPeony, CalmSteps, Removing
  <1> QED BY <1>2, <1>3, <1>4, CalmQuietSteps, CalmStopSteps, CalmPeonySteps,
             CalmLaunchSteps, CalmEnvironment
      DEF Next, Setup, Teardown, StopPeonyProcesses

-----------------------------------------------------------------------------
(* The way home.                                                           *)

(* An injected peony comes from Launch or from the manager. *)
LEMMA InjectedAppear ==
  ASSUME TypeOK, UnitInv, NoInjected, [Next]_vars, ~Launch, ~AutoRestart
  PROVE  NoInjected'
  <1> DesktopTyped
    BY TypeParts
  <1>1. peony' = peony => NoInjected'
    BY DEF NoInjected, Found
  <1>2. peony' = Asked => NoInjected'
    BY StopFields DEF NoInjected, Found
  <1>3. ASSUME NEW gone, NEW clean, End(gone, clean) PROVE NoInjected'
    BY <1>3, Values DEF End, NoInjected, Found
  <1>4. StartPlain => NoInjected'
    <2>1. SUFFICES ASSUME NEW p \in Pids \ Found, peony' = [peony EXCEPT ![p] = Plain]
                   PROVE  NoInjected'
      BY <1>1 DEF StartPlain, desktop
    <2>2. \A q \in Pids : peony'[q] = IF q = p THEN Plain ELSE peony[q]
      BY <2>1 DEF DesktopTyped
    <2> QED BY <2>2, Values DEF NoInjected, Found
  <1>a. CASE Begin \/ Return \/ Killed \/ WriteMarker \/ ReadPrevious \/ Record
             \/ PointAtMarker \/ BuildList \/ WaitInactive \/ VerifyInjected
             \/ ResetFailed
    BY <1>a, <1>1 DEF Begin, Return, Killed, WriteMarker, ReadPrevious, Record,
       PointAtMarker, BuildList, WaitInactive, VerifyInjected, ResetFailed, desktop
  <1>b. CASE WhichPrevious \/ Inspect \/ Restore \/ RemoveFiles \/ VerifyPlain
             \/ Purged \/ WaitForPeonyExit \/ ClearLocks
    BY <1>b, <1>1 DEF WhichPrevious, Inspect, Restore, RemoveFiles, VerifyPlain,
       Purged, WaitForPeonyExit, ClearLocks, desktop
  <1>c. CASE StopForSetup \/ StopForTeardown \/ Purge
    BY <1>c, <1>1, <1>2 DEF StopForSetup, StopForTeardown, Purge, desktop
  <1>d. CASE Relaunch \/ Respawn
    BY <1>d, <1>1, <1>4 DEF Relaunch, Respawn, desktop
  <1>e. CASE Terminate
    <2>1. \A w \in Processes :
            LET d == [w EXCEPT !.dying = TRUE] IN d.injected = w.injected
      BY DEF Processes
    <2>2. \A p \in Pids : /\ p \in Found => peony'[p] = [peony[p] EXCEPT !.dying = TRUE]
                          /\ p \notin Found => peony'[p] = Dead
      BY <1>e DEF Terminate
    <2>3. \A p \in Pids : peony[p] \in Processes
      BY DEF DesktopTyped
    <2>4. \A p \in Found : p \in Pids
      BY DEF Found
    <2>5. \A p \in Found : peony'[p].injected = peony[p].injected
      BY <2>1, <2>2, <2>3, <2>4
    <2>6. \A p \in Found' : p \in Found
      BY <2>2, Values DEF Found
    <2> QED BY <2>5, <2>6 DEF NoInjected
  <1>f. CASE KillPeony
    BY <1>f, <1>3 DEF KillPeony
  <1>g. ASSUME NEW p \in Pids, Exec(p) PROVE NoInjected'
    <2>1. p \in Found /\ peony[p].injected
      BY <1>g DEF Exec, Found, UnitInv
    <2> QED BY <2>1 DEF NoInjected
  <1>h. ASSUME NEW p \in Pids, Obey(p) \/ Crash(p) PROVE NoInjected'
    BY <1>h, <1>3 DEF Obey, Crash
  <1>i. CASE Reap \/ UNCHANGED vars
    BY <1>i, <1>1 DEF Reap, vars
  <1> QED BY <1>a, <1>b, <1>c, <1>d, <1>e, <1>f, <1>g, <1>h, <1>i
      DEF Next, Setup, Teardown, StopPeonyProcesses, Environment

LEMMA NoInjectedNoWallpaper == NoInjected => FirstWallpaper = NoPath
  BY FirstFound DEF NoInjected, FirstWallpaper, Mapped

(* The steps that touch what outlives a command. *)
LEMMA WorldFrame ==
  ASSUME [Next]_vars,
         ~WriteMarker, ~Record, ~PointAtMarker, ~Restore, ~RemoveFiles
  PROVE  UNCHANGED <<pointer, record, markerFile>>
  BY EnvironmentFrame
  DEF Next, Setup, Teardown, StopPeonyProcesses, Begin, Return, Killed,
      ReadPrevious, BuildList, StopForSetup, WaitInactive, ResetFailed, Launch,
      VerifyInjected, WhichPrevious, Inspect, StopForTeardown, Relaunch,
      VerifyPlain, Terminate, WaitForPeonyExit, KillPeony, ClearLocks, Purge,
      Purged, world, vars

(* The steps that leave pointer, record and marker alone. *)
LEMMA HomeQuiet ==
  ASSUME TypeOK, Reached, UnitInv, Calm, Home, AccountsWork, NoneOutlives,
         [Next]_vars,
         ~WriteMarker, ~Record, ~PointAtMarker, ~Restore, ~RemoveFiles
  PROVE  Home'
  <1> DesktopTyped /\ cli \in Clis
    BY TypeParts
  <1>1. UNCHANGED <<pointer, record, markerFile>>
    BY WorldFrame
  <1>2. HomeWorld'
    BY <1>1 DEF Home, HomeWorld
  <1>3. record = "missing" => NoInjected'
    <2>1. CASE Launch
      BY <2>1 DEF Home, HomeSetup, Launch, Reached, StepsOf, Clis, Users
    <2>2. ~AutoRestart
      BY DEF AutoRestart, Calm, CalmUnit
    <2> QED BY <2>1, <2>2, InjectedAppear DEF Home
  <1>4. HomeSetup' /\ HomeTeardown'
    <2>1. \A to \in Steps : Goto(to) => cli'.at = to /\ cli'.cmd = cli.cmd
                                        /\ cli'.previous = cli.previous
      BY GotoFields
    <2>2. \A r \in {"ok", "FileError", "BusError", "Unknown", "killed"} :
            Exit(r) => /\ cli'.at = IF cli.cmd = "uninstall" THEN "purge" ELSE "done"
                       /\ cli'.cmd = cli.cmd
      BY ExitFields
    <2>3. cli.cmd \in {"setup", "teardown", "uninstall", "upgrade"}
      BY DEF Clis
    <2>4. HomeSetup /\ HomeTeardown
      BY DEF Home
    <2> USE DEF HomeSetup, HomeTeardown, Removing
    <2>a. CASE Begin \/ Return
      BY <2>a, FreshFields
    <2>b. CASE ReadPrevious
      <3>1. /\ cli'.cmd = cli.cmd /\ cli'.at = "record" /\ cli'.previous = pointer
        BY <2>b DEF ReadPrevious, May, AccountsWork, Without, Clis
      <3> QED BY <1>1, <3>1
    <2>c. CASE BuildList
      <3>1. /\ cli'.cmd = cli.cmd /\ cli'.at = "stop" /\ cli.at = "normalized"
        BY <2>c DEF BuildList, Clis
      <3>2. cli.cmd = "setup"
        BY <3>1, <2>3 DEF Reached, StepsOf
      <3> QED BY <1>1, <2>4, <3>1, <3>2
    <2>d. CASE StopForSetup \/ WaitInactive \/ ResetFailed \/ Launch \/ VerifyInjected
      BY <1>1, <2>d, <2>1, <2>2, <2>3, <2>4
      DEF StopForSetup, WaitInactive, ResetFailed, Launch, VerifyInjected, Steps,
          Reached, StepsOf
    <2>e. CASE WhichPrevious
      <3>1. /\ cli'.cmd = cli.cmd /\ cli'.at = "inspect"
            /\ record = "missing" => cli'.previous = FirstWallpaper
        BY <2>e DEF WhichPrevious, Clis
      <3>2. record = "missing" => FirstWallpaper = NoPath
        BY NoInjectedNoWallpaper DEF Home
      <3> QED BY <1>1, <3>1, <3>2
    <2>f. CASE Inspect
      <3>1. /\ cli'.cmd = cli.cmd /\ cli'.at \in {"stop", "restore"}
            /\ cli.at = "inspect" /\ cli'.previous = cli.previous
        BY <2>f DEF Inspect, Clis
      <3>2. cli.cmd # "setup"
        BY <3>1 DEF Reached, StepsOf
      <3> QED BY <1>1, <2>4, <3>1, <3>2
    <2>g. CASE StopForTeardown \/ Relaunch \/ VerifyPlain
      BY <1>1, <2>g, <2>1, <2>2, <2>3, <2>4
      DEF StopForTeardown, Relaunch, VerifyPlain, Steps, Reached, StepsOf
    <2>h. CASE StopPeonyProcesses
      BY <1>1, <2>h, <2>1, <2>3, <2>4
      DEF StopPeonyProcesses, Terminate, WaitForPeonyExit, KillPeony, ClearLocks,
          Steps
    <2>i. CASE Purge \/ Purged
      BY <1>1, <2>i, <2>1, <2>3, <2>4 DEF Purge, Purged, Clis, Steps
    <2>j. CASE Environment \/ UNCHANGED vars
      BY <1>1, <2>j, <2>4, EnvironmentFrame DEF vars
    <2>k. ~Killed
      BY DEF Killed, NoneOutlives, Without
    <2> QED BY <2>a, <2>b, <2>c, <2>d, <2>e, <2>f, <2>g, <2>h, <2>i, <2>j, <2>k
        DEF Next, Setup, Teardown
  <1> QED BY <1>1, <1>2, <1>3, <1>4 DEF Home

LEMMA HomeStep ==
  ASSUME TypeOK, Reached, HandInv, UnitInv, CalmInv, HomeInv, [Next]_vars
  PROVE  HomeInv'
  <1> DesktopTyped /\ WorldTyped /\ cli \in Clis
    BY TypeParts
  <1>1. (AccountsWork /\ NoneOutlives)' <=> AccountsWork /\ NoneOutlives
    BY FaultsFrame DEF NoneOutlives, AccountsWork, Without
  <1>2. SUFFICES ASSUME AccountsWork, NoneOutlives PROVE Home'
    BY <1>1 DEF HomeInv
  <1>3. Home /\ Calm
    BY <1>2 DEF HomeInv, CalmInv
  <1>4. \A to \in Steps : Goto(to) =>
          cli'.at = to /\ cli'.cmd = cli.cmd /\ cli'.previous = cli.previous
    BY GotoFields
  <1>5. cli.cmd \in {"setup", "teardown", "uninstall", "upgrade"}
    BY DEF Clis
  <1>6. \A f \in {"accountRead", "accountWrite", "record"} : May(f) = {TRUE}
    BY <1>2 DEF May, AccountsWork, Without
  <1>a. CASE WriteMarker
    <2>1. /\ cli.cmd = "setup" /\ cli'.cmd = "setup" /\ cli'.at \in {"read", "done"}
          /\ UNCHANGED <<pointer, record, desktop>>
      BY <1>a, <1>4, <1>5, ExitFields DEF WriteMarker, Reached, StepsOf, Steps
    <2>2. NoInjected' <=> NoInjected
      BY <2>1 DEF desktop, NoInjected, Found
    <2> QED BY <1>3, <2>1, <2>2 DEF Home, HomeWorld, HomeSetup, HomeTeardown, Removing
  <1>b. CASE Record
    <2>1. cli.cmd = "setup" /\ cli.at = "record" /\ UNCHANGED <<pointer, markerFile, desktop>>
      BY <1>b, <1>5 DEF Record, Reached, StepsOf
    <2>2. cli'.cmd = "setup" /\ cli'.at = "point"
      <3>1. CASE record = "missing"
        BY <1>b, <2>1, <3>1 DEF Record, Clis
      <3>2. CASE record # "missing"
        BY <1>b, <1>4, <2>1, <3>2 DEF Record, Steps
      <3> QED BY <3>1, <3>2
    <2>3. record' \in Users
      <3>1. CASE record = "missing"
        <4>1. FirstWallpaper = NoPath
          BY <1>3, <3>1, NoInjectedNoWallpaper DEF Home
        <4>2. record' = cli.previous /\ cli.previous = pointer
          BY <1>b, <1>3, <1>6, <2>1, <3>1, <4>1 DEF Record, Home, HomeSetup
        <4>3. pointer \in Users
          BY <1>3, <3>1 DEF Home, HomeWorld, Users
        <4> QED BY <4>2, <4>3
      <3>2. CASE record # "missing"
        BY <1>b, <1>3, <3>2 DEF Record, Home, HomeWorld
      <3> QED BY <3>1, <3>2
    <2>4. record' # "missing"
      BY <2>3 DEF Users
    <2> QED BY <1>3, <2>1, <2>2, <2>3, <2>4
        DEF Home, HomeWorld, HomeSetup, HomeTeardown, Removing
  <1>c. CASE PointAtMarker
    <2>1. /\ cli.cmd = "setup" /\ cli.at = "point"
          /\ cli'.cmd = "setup" /\ cli'.at = "normalized"
          /\ UNCHANGED <<record, desktop>>
      BY <1>c, <1>4, <1>5 DEF PointAtMarker, Reached, StepsOf, Steps
    <2>2. pointer' = "markerCopy"
      <3>1. Normalize("marker") = "markerCopy"
        BY DEF Normalize
      <3>2. May("accountWrite") = {TRUE}
        BY <1>6
      <3> QED BY <1>c, <3>1, <3>2 DEF PointAtMarker, SetAccountBackground
    <2>3. record \in Users /\ record # "missing"
      BY <1>3, <2>1 DEF Home, HomeSetup, Users
    <2> QED BY <1>3, <2>1, <2>2, <2>3
        DEF Home, HomeWorld, HomeSetup, HomeTeardown, Removing
  <1>d. CASE Restore
    <2>1. /\ cli.cmd \in {"teardown", "uninstall"} /\ cli.at = "restore"
          /\ cli'.cmd = cli.cmd /\ cli'.at = "remove"
          /\ UNCHANGED <<record, desktop>>
      BY <1>d, <1>4, <1>5 DEF Restore, Reached, StepsOf, Steps
    <2>2. pointer' \in Users
      <3>1. CASE record \in Users
        <4>1. cli.previous = record /\ cli.previous # NoPath
          BY <2>1, <3>1 DEF HandInv, Removing, Users, NoPath
        <4>2. pointer' = Normalize(record)
          BY <1>d, <1>6, <4>1 DEF Restore, SetAccountBackground
        <4>3. \A p \in Users : Normalize(p) = "userCopy"
          BY DEF Users, Normalize
        <4> QED BY <3>1, <4>2, <4>3 DEF Users
      <3>2. CASE record = "missing"
        <4>1. cli.previous = NoPath
          BY <1>3, <2>1, <3>2 DEF Home, HomeTeardown, Removing
        <4>2. pointer' = pointer
          BY <1>d, <4>1 DEF Restore
        <4> QED BY <1>3, <3>2, <4>2 DEF Home, HomeWorld, Users
      <3> QED BY <1>3, <3>1, <3>2 DEF Home, HomeWorld
    <2>3. NoInjected' <=> NoInjected
      BY <2>1 DEF desktop, NoInjected, Found
    <2>4. pointer' # "markerCopy"
      BY <2>2 DEF Users
    <2> QED BY <1>3, <2>1, <2>2, <2>3, <2>4
        DEF Home, HomeWorld, HomeSetup, HomeTeardown
  <1>e. CASE RemoveFiles
    <2>1. /\ cli.cmd \in {"teardown", "uninstall"} /\ cli.at = "remove"
          /\ cli'.cmd = cli.cmd /\ cli'.at = "relaunch"
          /\ record' = "missing" /\ ~markerFile' /\ UNCHANGED <<pointer, desktop>>
      BY <1>e, <1>4, <1>5 DEF RemoveFiles, Reached, StepsOf, Steps
    <2>2. pointer \in Users
      BY <1>3, <2>1 DEF Home, HomeTeardown, Removing
    <2>3. NoInjected'
      BY <1>3, <2>1 DEF Calm, CalmSteps, Removing, Stopping, desktop, NoInjected, Found
    <2>4. pointer # "markerCopy"
      BY <2>2 DEF Users
    <2> QED BY <1>3, <2>1, <2>2, <2>3, <2>4
        DEF Home, HomeWorld, HomeSetup, HomeTeardown
  <1> QED BY <1>2, <1>3, <1>a, <1>b, <1>c, <1>d, <1>e, HomeQuiet

-----------------------------------------------------------------------------
(* What the list covers.                                                   *)

(* accountsservice names nothing but what is in its store, except for what *)
(* it was started with.                                                    *)
LEMMA PointerMoves ==
  ASSUME TypeOK, [Next]_vars
  PROVE  pointer' = pointer \/ pointer' \notin {"user", "marker"}
  <1>1. \A p \in Paths : Normalize(p) \notin {"user", "marker"}
    BY DEF Normalize, Paths, Stored
  <1>2. CASE PointAtMarker \/ Restore
    <2>1. "marker" \in Paths /\ (cli.previous # NoPath => cli.previous \in Paths)
      BY DEF TypeOK, Paths
    <2> QED BY <1>1, <1>2, <2>1 DEF PointAtMarker, Restore, SetAccountBackground
  <1>3. CASE WriteMarker \/ Record \/ RemoveFiles
    BY <1>3 DEF WriteMarker, Record, RemoveFiles
  <1> QED BY <1>2, <1>3, WorldFrame

LEMMA KnownFirst ==
  ASSUME TypeOK, KnownLists
  PROVE  FirstWallpaper \in Known
  <1>1. ASSUME NEW l \in Lists, AllKnown(l)
        PROVE  FirstWallpaperIn(l) \in Known
    <2>1. CASE l = <<>>
      BY <2>1 DEF FirstWallpaperIn, Known
    <2>2. CASE l # <<>>
      <3>1. Head(l) \in Known
        BY <1>1, <2>2, ListHead DEF AllKnown
      <3>2. Head(l) # "colon"
        BY <3>1 DEF Known, NoPath
      <3> QED BY <2>2, <3>1, <3>2 DEF FirstWallpaperIn
    <2> QED BY <2>1, <2>2
  <1>2. Found # {} => peony[First].list \in Lists /\ AllKnown(peony[First].list)
    BY FirstFound DEF TypeOK, Found, KnownLists
  <1> QED BY <1>1, <1>2 DEF FirstWallpaper, Known

(* The lists of the unit and of the processes are cli.list or older.       *)
LEMMA DesktopLists ==
  ASSUME TypeOK, UnitInv, KnownLists, [Next]_vars
  PROVE  AllKnown(unit'.list) /\ \A p \in Found' : AllKnown(peony'[p].list)
  <1> DesktopTyped /\ cli \in Clis
    BY TypeParts
  <1> DEFINE Q == AllKnown(unit'.list) /\ \A p \in Found' : AllKnown(peony'[p].list)
  <1>1. AllKnown(<<>>) /\ AllKnown(Unloaded.list) /\ AllKnown(Plain.list)
    <2>1. AllKnown(<<>>)
      BY DEF AllKnown
    <2>2. Unloaded.list = <<>>
      BY DEF Unloaded
    <2> QED BY <2>1, <2>2, Values
  <1> HIDE DEF AllKnown
  <1>2. /\ unit'.list = unit.list \/ unit' = Unloaded
        /\ \A p \in Found' : p \in Found /\ peony'[p].list = peony[p].list
        => Q
    BY <1>1 DEF KnownLists
  <1>3. UNCHANGED desktop => Q
    BY <1>2 DEF desktop, Found
  <1>4. ASSUME NEW gone, NEW clean, End(gone, clean) PROVE Q
    <2>1. \A p \in Found' : p \in Found /\ peony'[p] = peony[p]
      BY <1>4, Values DEF End, Found
    <2>2. unit'.list = unit.list
      BY <1>4 DEF End, DesktopTyped, UnitStates
    <2> QED BY <1>2, <2>1, <2>2
  <1>5. ASSUME StartPlain PROVE Q
    <2>1. CASE UNCHANGED desktop
      BY <1>3, <2>1
    <2>2. ASSUME NEW p \in Pids \ Found, peony' = [peony EXCEPT ![p] = Plain],
                 UNCHANGED unit
          PROVE  Q
      <3>1. \A q \in Pids : peony'[q] = IF q = p THEN Plain ELSE peony[q]
        BY <2>2 DEF DesktopTyped
      <3>2. \A q \in Found' : q = p \/ q \in Found
        BY <3>1 DEF Found
      <3>3. \A q \in Found' : q \in Pids
        BY DEF Found
      <3> QED BY <1>1, <2>2, <3>1, <3>2, <3>3 DEF KnownLists
    <2> QED BY <1>5, <2>1, <2>2 DEF StartPlain
  <1>6. ASSUME NEW list \in Lists, StartInjected(list), AllKnown(list) PROVE Q
    <2>1. PICK p \in Pids \ Found : peony' = [peony EXCEPT ![p] = Injected(list)]
      BY <1>6 DEF StartInjected
    <2>2. \A q \in Pids : peony'[q] = IF q = p THEN Injected(list) ELSE peony[q]
      BY <2>1 DEF DesktopTyped
    <2>3. \A q \in Found' : q \in Pids /\ (q = p \/ q \in Found)
      BY <2>2 DEF Found
    <2>4. unit'.list = list
      BY <1>6 DEF StartInjected, Unloaded
    <2> QED BY <1>6, <2>2, <2>3, <2>4, Values DEF KnownLists
  <1>7. peony' = Asked /\ (unit' = Stopped(unit) \/ unit' = Cleared(Stopped(unit))) => Q
    <2>1. peony' = Asked => \A p \in Found' : p \in Found /\ peony'[p].list = peony[p].list
      BY StopFields DEF Found
    <2>2. \/ Stopped(unit) = Unloaded
          \/ Stopped(unit).list = unit.list
      BY StopFields DEF DesktopTyped, UnitStates
    <2>3. \/ Cleared(Stopped(unit)) = Unloaded
          \/ Cleared(Stopped(unit)).list = unit.list
      BY <2>2 DEF Cleared
    <2> QED BY <1>2, <2>1, <2>2, <2>3
  <1>8. peony' = peony /\ (unit' = unit \/ unit' = Cleared(unit)) => Q
    BY <1>2 DEF Cleared, Found
  <1>a. CASE Begin \/ Return \/ Killed \/ WriteMarker \/ ReadPrevious \/ Record
             \/ PointAtMarker \/ BuildList \/ WaitInactive \/ VerifyInjected
    BY <1>a, <1>3 DEF Begin, Return, Killed, WriteMarker, ReadPrevious, Record,
       PointAtMarker, BuildList, WaitInactive, VerifyInjected
  <1>b. CASE WhichPrevious \/ Inspect \/ Restore \/ RemoveFiles \/ VerifyPlain
             \/ Purged \/ WaitForPeonyExit
    BY <1>b, <1>3 DEF WhichPrevious, Inspect, Restore, RemoveFiles, VerifyPlain,
       Purged, WaitForPeonyExit
  <1>c. CASE StopForSetup \/ StopForTeardown \/ Purge \/ ResetFailed
    BY <1>c, <1>3, <1>7, <1>8
    DEF StopForSetup, StopForTeardown, Purge, ResetFailed
  <1>d. CASE Launch
    <2>1. cli.list \in Lists /\ AllKnown(cli.list)
      BY DEF Clis, KnownLists
    <2> QED BY <1>d, <1>3, <1>6, <2>1 DEF Launch
  <1>e. CASE Relaunch \/ Respawn
    BY <1>e, <1>3, <1>5 DEF Relaunch, Respawn
  <1>f. CASE Terminate
    <2>1. \A w \in Processes : [w EXCEPT !.dying = TRUE].list = w.list
      BY DEF Processes
    <2>2. \A p \in Pids : /\ p \in Found => peony'[p] = [peony[p] EXCEPT !.dying = TRUE]
                          /\ p \notin Found => peony'[p] = Dead
      BY <1>f DEF Terminate
    <2>3. \A p \in Pids : peony[p] \in Processes
      BY DEF DesktopTyped
    <2>4. \A p \in Found' : p \in Found /\ p \in Pids
      BY <2>2, Values DEF Found
    <2>5. \A p \in Found' : peony'[p].list = peony[p].list
      BY <2>1, <2>2, <2>3, <2>4
    <2> QED BY <1>f, <1>2, <2>4, <2>5 DEF Terminate
  <1>g. CASE KillPeony
    BY <1>g, <1>4 DEF KillPeony
  <1>h. CASE ClearLocks
    BY <1>h, <1>8 DEF ClearLocks
  <1>i. ASSUME NEW p \in Pids, Exec(p) PROVE Q
    <2>1. unit'.list = unit.list
      BY <1>i DEF Exec, DesktopTyped, UnitStates
    <2>2. \A q \in Pids : q # p => peony'[q] = peony[q]
      BY <1>i DEF Exec, DesktopTyped
    <2>3. peony'[p] = Dead \/ peony'[p].list = peony[p].list
      BY <1>i DEF Exec, DesktopTyped, Processes
    <2>4. p \in Found
      BY <1>i DEF Exec, Found
    <2>5. \A q \in Found' : q \in Found /\ peony'[q].list = peony[q].list
      BY <2>2, <2>3, <2>4, Values DEF Found
    <2> QED BY <1>2, <2>1, <2>5
  <1>j. ASSUME NEW p \in Pids, Obey(p) \/ Crash(p) PROVE Q
    BY <1>j, <1>4 DEF Obey, Crash
  <1>k. CASE Reap
    <2>1. unit' = Unloaded \/ unit'.list = unit.list
      BY <1>k DEF Reap, DesktopTyped, UnitStates
    <2> QED BY <1>k, <1>2, <2>1 DEF Reap, Found
  <1>l. CASE AutoRestart
    <2>1. unit.list \in Lists /\ AllKnown(unit.list)
      BY DEF DesktopTyped, UnitStates, KnownLists
    <2> QED BY <1>l, <1>6, <2>1 DEF AutoRestart
  <1>m. CASE UNCHANGED vars
    BY <1>m, <1>3 DEF vars, desktop
  <1> QED BY <1>a, <1>b, <1>c, <1>d, <1>e, <1>f, <1>g, <1>h, <1>i, <1>j, <1>k,
             <1>l, <1>m
      DEF Next, Setup, Teardown, StopPeonyProcesses, Environment

LEMMA KnownStep ==
  ASSUME TypeOK, UnitInv, pointer # "marker", KnownInv, [Next]_vars
  PROVE  pointer' # "marker" /\ KnownInv'
  <1> WorldTyped /\ DesktopTyped /\ cli \in Clis
    BY TypeParts
  <1>1. pointer' # "marker" /\ (pointer' = "user" => pointer = "user")
    BY PointerMoves
  <1>2. SUFFICES ASSUME pointer = "user"
                 PROVE  /\ cli'.previous \in Known
                        /\ record' \in Known \cup {"missing"}
                        /\ AllKnown(cli'.list)
    BY <1>1, DesktopLists DEF KnownInv, KnownLists
  <1>3. cli.previous \in Known /\ record \in Known \cup {"missing"} /\ KnownLists
    BY <1>2 DEF KnownInv
  <1>4. FirstWallpaper \in Known
    BY <1>3, KnownFirst
  <1>5. record' \in Known \cup {"missing"}
    <2>1. CASE Record
      BY <1>3, <1>4, <2>1 DEF Record
    <2>2. CASE WriteMarker \/ PointAtMarker \/ Restore \/ RemoveFiles
      BY <1>3, <2>2 DEF WriteMarker, PointAtMarker, Restore, RemoveFiles
    <2> QED BY <1>3, <2>1, <2>2, WorldFrame
  <1> HIDE DEF AllKnown
  <1>6. \A to \in Steps : Goto(to) =>
          cli'.list = cli.list /\ cli'.previous = cli.previous
    BY GotoFields
  <1>7. \A r \in {"ok", "FileError", "BusError", "Unknown", "killed"} :
          Exit(r) => cli'.list = cli.list /\ cli'.previous = cli.previous
    BY ExitFields
  <1>8. AllKnown(cli.list)
    BY <1>3 DEF KnownLists
  <1>a. CASE Begin \/ Return
    <2>1. AllKnown(<<>>)
      BY DEF AllKnown
    <2> QED BY <1>a, <1>5, <2>1, FreshFields DEF Known
  <1>b. CASE Killed \/ WriteMarker \/ PointAtMarker \/ StopForSetup \/ WaitInactive
    BY <1>b, <1>3, <1>5, <1>6, <1>7, <1>8
    DEF Killed, WriteMarker, PointAtMarker, StopForSetup, WaitInactive, Steps
  <1>c. CASE ReadPrevious \/ WhichPrevious \/ Inspect
    BY <1>c, <1>2, <1>3, <1>4, <1>5, <1>8
    DEF ReadPrevious, WhichPrevious, Inspect, Clis, Known, NoPath
  <1>d. CASE Record
    <2>1. cli'.list = cli.list
          /\ cli'.previous \in {FirstWallpaper, cli.previous}
      <3>1. CASE record = "missing"
        BY <1>d, <3>1 DEF Record, Clis
      <3>2. CASE record # "missing"
        BY <1>d, <1>6, <3>2 DEF Record, Steps
      <3> QED BY <3>1, <3>2
    <2> QED BY <1>3, <1>4, <1>5, <1>8, <2>1
  <1>e. CASE BuildList
    <2>1. PICK ok \in BOOLEAN :
            cli' = [cli EXCEPT
                      !.list = BuildWallpaperList("marker",
                                 IF ok THEN pointer ELSE NoPath, cli.previous),
                      !.at = "stop"]
      BY <1>e DEF BuildList, May
    <2> DEFINE r == IF ok THEN pointer ELSE NoPath
    <2>2. r \in Paths \cup {NoPath} /\ cli.previous \in Paths \cup {NoPath}
      BY DEF WorldTyped, Clis
    <2>3. r \in Known /\ "marker" \in Known
      BY <1>2 DEF Known
    <2> HIDE DEF r
    <2>4. \A i \in DOMAIN BuildWallpaperList("marker", r, cli.previous) :
            BuildWallpaperList("marker", r, cli.previous)[i] \in {"marker", r, cli.previous}
      BY <2>2, ListBuilt
    <2>5. AllKnown(BuildWallpaperList("marker", r, cli.previous))
      BY <1>3, <2>3, <2>4 DEF AllKnown
    <2>6. /\ cli'.list = BuildWallpaperList("marker", r, cli.previous)
          /\ cli'.previous = cli.previous
      BY <2>1 DEF r, Clis
    <2> QED BY <1>3, <1>5, <2>5, <2>6
  <1>f. CASE ResetFailed \/ Launch \/ VerifyInjected \/ StopForTeardown \/ Restore
             \/ RemoveFiles \/ Relaunch \/ VerifyPlain
    BY <1>f, <1>3, <1>5, <1>6, <1>7, <1>8
    DEF ResetFailed, Launch, VerifyInjected, StopForTeardown, Restore,
        RemoveFiles, Relaunch, VerifyPlain, Steps
  <1>g. CASE StopPeonyProcesses \/ Purge \/ Purged
    BY <1>g, <1>3, <1>5, <1>6, <1>8
    DEF StopPeonyProcesses, Terminate, WaitForPeonyExit, KillPeony, ClearLocks,
        Purge, Purged, Clis, Steps
  <1>h. CASE Environment \/ UNCHANGED vars
    BY <1>h, <1>3, <1>5, <1>8, EnvironmentFrame DEF vars
  <1> QED BY <1>a, <1>b, <1>c, <1>d, <1>e, <1>f, <1>g, <1>h
      DEF Next, Setup, Teardown

(* The list Setup launches peony with has what it remembered, and the unit *)
(* has that list.                                                          *)
LEMMA ListStep ==
  ASSUME TypeOK, Reached, UnitInv, ListInv, [Next]_vars
  PROVE  ListInv'
  <1> WorldTyped /\ DesktopTyped /\ cli \in Clis
    BY TypeParts
  <1>1. \A to \in Steps : Goto(to) =>
          /\ cli'.at = to /\ cli'.cmd = cli.cmd
          /\ cli'.list = cli.list /\ cli'.previous = cli.previous
    BY GotoFields
  <1>2. \A r \in {"ok", "FileError", "BusError", "Unknown", "killed"} :
          Exit(r) => /\ cli'.at = IF cli.cmd = "uninstall" THEN "purge" ELSE "done"
                     /\ cli'.cmd = cli.cmd /\ cli'.result = r
                     /\ cli'.list = cli.list /\ cli'.previous = cli.previous
    BY ExitFields
  <1>3. cli.cmd \in {"setup", "teardown", "uninstall", "upgrade"}
    BY DEF Clis
  <1>a. CASE Begin \/ Return
    BY <1>a, FreshFields DEF ListInv
  <1>b. CASE Killed \/ WriteMarker \/ PointAtMarker
    BY <1>b, <1>1, <1>2 DEF Killed, WriteMarker, PointAtMarker, ListInv, Steps
  <1>c. CASE ReadPrevious
    BY <1>c DEF ReadPrevious, ListInv, Clis
  <1>d. CASE Record
    <2>1. cli'.at = "point"
      BY <1>d, <1>1 DEF Record, Clis, Steps
    <2> QED BY <2>1 DEF ListInv
  <1>e. CASE BuildList
    <2>1. PICK ok \in BOOLEAN :
            cli' = [cli EXCEPT
                      !.list = BuildWallpaperList("marker",
                                 IF ok THEN pointer ELSE NoPath, cli.previous),
                      !.at = "stop"]
      BY <1>e DEF BuildList, May
    <2> DEFINE r == IF ok THEN pointer ELSE NoPath
    <2>2. r \in Paths \cup {NoPath} /\ cli.previous \in Paths \cup {NoPath}
      BY DEF WorldTyped, Clis
    <2> HIDE DEF r
    <2>3. cli.previous # NoPath =>
            Contains(BuildWallpaperList("marker", r, cli.previous), cli.previous)
      BY <2>2, ListBuilt
    <2>4. /\ cli'.list = BuildWallpaperList("marker", r, cli.previous)
          /\ cli'.previous = cli.previous /\ cli'.at = "stop"
      BY <2>1 DEF r, Clis
    <2> QED BY <2>3, <2>4 DEF ListInv
  <1>f. CASE StopForSetup \/ WaitInactive \/ ResetFailed
    BY <1>f, <1>1, <1>2
    DEF StopForSetup, WaitInactive, ResetFailed, ListInv, Steps
  <1>g. CASE Launch
    <2>1. \/ Goto("verify") /\ StartInjected(cli.list)
          \/ Exit("BusError") \/ Exit("FileError")
      BY <1>g DEF Launch
    <2>2. cli.at = "launch"
      BY <1>g DEF Launch
    <2>3. StartInjected(cli.list) => unit'.list = cli.list
      BY DEF StartInjected, Unloaded
    <2> QED BY <1>1, <1>2, <2>1, <2>2, <2>3 DEF ListInv, Steps
  <1>h. CASE VerifyInjected
    BY <1>h, <1>2 DEF VerifyInjected, ListInv, desktop
  <1>i. CASE WhichPrevious \/ Inspect
    <2>1. cli'.cmd = cli.cmd /\ cli.at \in {"previous", "inspect"}
      BY <1>i DEF WhichPrevious, Inspect, Clis
    <2> QED BY <2>1 DEF ListInv, Reached, StepsOf
  <1>j. CASE StopForTeardown \/ Restore \/ RemoveFiles \/ Relaunch \/ VerifyPlain
    BY <1>j, <1>1, <1>2
    DEF StopForTeardown, Restore, RemoveFiles, Relaunch, VerifyPlain, ListInv,
        Reached, StepsOf, Steps
  <1>k. CASE StopPeonyProcesses
    BY <1>k, <1>1
    DEF StopPeonyProcesses, Terminate, WaitForPeonyExit, KillPeony, ClearLocks,
        ListInv, Steps
  <1>l. CASE Purge \/ Purged
    <2>1. cli'.cmd = cli.cmd /\ cli.at \in {"purge", "purging"}
      BY <1>l, <1>1 DEF Purge, Purged, Clis, Steps
    <2> QED BY <2>1 DEF ListInv, Reached, StepsOf
  <1>m. CASE Environment \/ UNCHANGED vars
    <2>1. cli' = cli
      BY <1>m, EnvironmentFrame DEF vars
    <2>2. unit'.list = unit.list \/ unit'.state = "unloaded"
      <3>1. CASE Reap
        BY <3>1 DEF Reap, Unloaded, DesktopTyped, UnitStates
      <3>2. CASE AutoRestart
        BY <3>2 DEF AutoRestart, StartInjected, Unloaded
      <3>3. CASE Respawn
        BY <3>3 DEF Respawn, StartPlain, desktop
      <3>4. ASSUME NEW p \in Pids, Exec(p) \/ Obey(p) \/ Crash(p)
            PROVE  unit'.list = unit.list
        BY <3>4 DEF Exec, Obey, Crash, End, DesktopTyped, UnitStates
      <3>5. CASE UNCHANGED vars
        BY <3>5 DEF vars
      <3> QED BY <1>m, <3>1, <3>2, <3>3, <3>4, <3>5 DEF Environment
    <2>3. unit.state = "unloaded" => unit'.state = "unloaded"
      <3>1. CASE Reap
        BY <3>1 DEF Reap, UnitInv
      <3>2. CASE AutoRestart
        BY <3>2 DEF AutoRestart
      <3>3. CASE Respawn
        BY <3>3 DEF Respawn, StartPlain, desktop
      <3>4. ASSUME NEW p \in Pids, Exec(p) \/ Obey(p) \/ Crash(p)
            PROVE  unit'.state = unit.state
        BY <3>4 DEF Exec, Obey, Crash, End, DesktopTyped, UnitStates
      <3>5. CASE UNCHANGED vars
        BY <3>5 DEF vars
      <3> QED BY <1>m, <3>1, <3>2, <3>3, <3>4, <3>5 DEF Environment
    <2> QED BY <2>1, <2>2, <2>3 DEF ListInv
  <1> QED BY <1>a, <1>b, <1>c, <1>d, <1>e, <1>f, <1>g, <1>h, <1>i, <1>j, <1>k,
             <1>l, <1>m
      DEF Next, Setup, Teardown

LEMMA CoverStep ==
  ASSUME TypeOK, Reached, UnitInv, CoverInv, [Next]_vars
  PROVE  CoverInv'
  BY KnownStep, ListStep DEF CoverInv

-----------------------------------------------------------------------------
(* An orderly world.                                                       *)

LEMMA OrderlyIsCalm == Orderly => NoneOutlives /\ AccountsWork
  BY DEF Orderly, OrderlyFaults, NoneOutlives, AccountsWork, Without

(* By themselves the processes change nothing that these depend on. *)
LEMMA OrderlyEnvironment ==
  ASSUME TypeOK, Reached, UnitInv, Calm, NoneOutlives, Environment
  PROVE  /\ UNCHANGED cli
         /\ unit.state \in {"unloaded", "failed"} => unit'.state = unit.state
         /\ unit.state = "active" => unit'.state = "active"
         /\ cli.at \notin Waiting /\ lock = "held" => lock' = "held"
  <1> DesktopTyped
    BY TypeParts
  <1>1. UNCHANGED cli
    BY EnvironmentFrame
  <1>2. ~AutoRestart /\ ~Respawn /\ \A p \in Pids : ~Crash(p)
    BY DEF AutoRestart, Respawn, Crash, NoneOutlives, Without, Calm, CalmUnit
  <1>3. CASE Reap
    BY <1>1, <1>3 DEF Reap, UnitInv, Calm, CalmUnit
  <1>4. ASSUME NEW p \in Pids, Exec(p)
        PROVE  unit'.state = unit.state /\ (lock = "held" => lock' = "held")
    BY <1>4 DEF Exec, DesktopTyped, UnitStates
  <1>5. ASSUME NEW p \in Pids, Obey(p)
        PROVE  unit'.state = unit.state /\ cli.at \in Waiting
    <2>1. p \in Found /\ peony[p].dying
      BY <1>5, Values DEF Obey, Found, UnitInv
    <2>2. cli.at \in Waiting
      BY <2>1 DEF Calm, CalmSteps
    <2> QED BY <1>5, <2>2 DEF Obey, End, DesktopTyped, UnitStates
  <1> QED BY <1>1, <1>2, <1>3, <1>4, <1>5 DEF Environment

LEMMA OrderlySetupStep ==
  ASSUME TypeOK, Reached, UnitInv, Calm, NoneOutlives, Orderly, OrderlySetup,
         [Next]_vars
  PROVE  OrderlySetup'
  <1> DesktopTyped /\ cli \in Clis
    BY TypeParts
  <1>1. \A to \in Steps : Goto(to) => cli'.at = to /\ cli'.cmd = cli.cmd
    BY GotoFields
  <1>2. \A r \in {"ok", "FileError", "BusError", "Unknown", "killed"} :
          Exit(r) => /\ cli'.at = IF cli.cmd = "uninstall" THEN "purge" ELSE "done"
                     /\ cli'.cmd = cli.cmd /\ cli'.result = r
    BY ExitFields
  <1>3. "bus" \notin faults /\ "slowStop" \notin faults /\ "kill" \notin faults
    BY DEF Orderly, OrderlyFaults
  <1> USE DEF OrderlySetup
  <1>a. CASE Begin \/ Return
    BY <1>a, FreshFields
  <1>b. CASE WriteMarker \/ PointAtMarker
    BY <1>b, <1>1, <1>2 DEF WriteMarker, PointAtMarker, Steps
  <1>c. CASE ReadPrevious \/ BuildList
    BY <1>c DEF ReadPrevious, BuildList, Clis
  <1>d. CASE Record
    <2>1. cli'.at = "point"
      BY <1>d, <1>1 DEF Record, Clis, Steps
    <2> QED BY <2>1
  <1>e. CASE StopForSetup
    BY <1>e, <1>1, <1>3 DEF StopForSetup, Steps
  <1>f. CASE WaitInactive
    BY <1>f, <1>1, <1>3 DEF WaitInactive, desktop, Steps
  <1>g. CASE ResetFailed
    <2>1. cli'.at = "term" /\ cli'.cmd = cli.cmd /\ cli.at = "reset"
          /\ unit' \in {unit, Cleared(unit)}
      BY <1>1, <1>g DEF ResetFailed, Steps
    <2>2. unit.state \in {"unloaded", "failed"} => unit'.state \in {"unloaded", "failed"}
      BY <2>1 DEF Cleared, Unloaded
    <2> QED BY <2>1, <2>2
  <1>h. CASE StopPeonyProcesses
    <2>1. /\ cli.at \in {"term", "wait", "kill", "locks"}
          /\ cli'.at \in {"wait", "kill", "locks", "launch", "restore"}
          /\ cli'.cmd = cli.cmd
      BY <1>h, <1>1
      DEF StopPeonyProcesses, Terminate, WaitForPeonyExit, KillPeony,
          ClearLocks, Steps
    <2>2. unit'.state = unit.state
      BY <1>h
      DEF StopPeonyProcesses, Terminate, WaitForPeonyExit, KillPeony,
          ClearLocks, End, desktop, DesktopTyped, UnitStates
    <2> QED BY <2>1, <2>2
  <1>i. CASE Launch
    <2>1. cli.cmd = "setup"
      BY <1>i DEF Launch, Reached, StepsOf, Clis
    <2>2. unit.state \in {"unloaded", "failed"}
      BY <1>i, <2>1 DEF Launch
    <2>3. \/ Goto("verify") /\ StartInjected(cli.list)
          \/ Exit("FileError")
      BY <1>i, <1>3, <2>2 DEF Launch
    <2>4. StartInjected(cli.list) => unit'.state = "active"
      BY DEF StartInjected, Unloaded
    <2> QED BY <1>1, <1>2, <2>3, <2>4 DEF Steps
  <1>j. CASE VerifyInjected
    <2>1. /\ cli.cmd = "setup" /\ cli.at = "verify" /\ UNCHANGED desktop
          /\ unit.state = "active"
      BY <1>j DEF VerifyInjected
    <2>2. PICK p \in Found : peony[p].injected
      BY <2>1 DEF Calm, CalmUnit
    <2>3. First = p
      BY FirstFound, <2>2 DEF Calm, CalmPeony
    <2>4. peony[p].state = "live"
      BY <1>j, <2>2, <2>3
      DEF VerifyInjected, Mapped, TimeIsUp, NoneOutlives, Without
    <2>5. Exit("ok") /\ lock = "held"
      BY <1>j, <2>2, <2>3, <2>4 DEF VerifyInjected, Mapped, Calm, CalmPeony
    <2> QED BY <1>2, <2>1, <2>5 DEF desktop
  <1>k. CASE WhichPrevious \/ Inspect
    BY <1>k DEF WhichPrevious, Inspect, Clis, Reached, StepsOf
  <1>l. CASE StopForTeardown \/ Restore \/ RemoveFiles \/ Relaunch \/ VerifyPlain
    BY <1>l, <1>1, <1>2
    DEF StopForTeardown, Restore, RemoveFiles, Relaunch, VerifyPlain, Reached,
        StepsOf, Steps
  <1>m. CASE Purge \/ Purged
    <2>1. cli'.cmd = cli.cmd /\ cli.at \in {"purge", "purging"}
      BY <1>m, <1>1 DEF Purge, Purged, Clis, Steps
    <2> QED BY <2>1 DEF Reached, StepsOf
  <1>n. CASE Environment
    BY <1>n, OrderlyEnvironment DEF Waiting
  <1>o. CASE UNCHANGED vars
    BY <1>o DEF vars
  <1>p. ~Killed
    BY <1>3 DEF Killed
  <1> QED BY <1>a, <1>b, <1>c, <1>d, <1>e, <1>f, <1>g, <1>h, <1>i, <1>j, <1>k,
             <1>l, <1>m, <1>n, <1>o, <1>p
      DEF Next, Setup, Teardown

LEMMA OrderlyTeardownStep ==
  ASSUME TypeOK, Reached, UnitInv, Calm, NoneOutlives, Orderly, OrderlyTeardown,
         [Next]_vars
  PROVE  OrderlyTeardown'
  <1> DesktopTyped /\ cli \in Clis
    BY TypeParts
  <1>1. \A to \in Steps : Goto(to) =>
          /\ cli'.at = to /\ cli'.cmd = cli.cmd
          /\ cli'.injected = cli.injected /\ cli'.absent = cli.absent
    BY GotoFields
  <1>2. \A r \in {"ok", "FileError", "BusError", "Unknown", "killed"} :
          Exit(r) => /\ cli'.at = IF cli.cmd = "uninstall" THEN "purge" ELSE "done"
                     /\ cli'.cmd = cli.cmd /\ cli'.result = r
    BY ExitFields
  <1>3. "bus" \notin faults /\ "slowStop" \notin faults /\ "kill" \notin faults
    BY DEF Orderly, OrderlyFaults
  <1>4. cli.at # "locks" => lock # "stale"
    BY CalmHere
  <1> USE DEF OrderlyTeardown, Removing
  <1>a. CASE Begin \/ Return
    BY <1>a, FreshFields
  <1>b. CASE Setup
    <2>1. /\ cli.cmd = "setup" /\ cli'.cmd = cli.cmd
      <3>1. cli'.cmd = cli.cmd
        <4>1. CASE WriteMarker \/ PointAtMarker \/ StopForSetup \/ WaitInactive
          BY <1>1, <1>2, <4>1
          DEF WriteMarker, PointAtMarker, StopForSetup, WaitInactive, Steps
        <4>2. CASE ResetFailed \/ Launch \/ VerifyInjected
          BY <1>1, <1>2, <4>2 DEF ResetFailed, Launch, VerifyInjected, Steps
        <4>3. CASE ReadPrevious \/ BuildList
          BY <4>3 DEF ReadPrevious, BuildList, Clis
        <4>4. CASE Record
          BY <1>1, <4>4 DEF Record, Clis, Steps
        <4> QED BY <1>b, <4>1, <4>2, <4>3, <4>4 DEF Setup
      <3>2. cli.cmd = "setup"
        BY <1>b
        DEF Setup, WriteMarker, ReadPrevious, Record, PointAtMarker, BuildList,
            StopForSetup, WaitInactive, ResetFailed, Launch, VerifyInjected,
            Reached, StepsOf, Clis
      <3> QED BY <3>1, <3>2
    <2> QED BY <2>1
  <1>c. CASE WhichPrevious
    BY <1>c DEF WhichPrevious, Clis
  <1>d. CASE Inspect
    <2>1. /\ UNCHANGED desktop /\ cli'.cmd = cli.cmd
          /\ cli'.at \in {"stop", "restore"}
          /\ cli'.absent <=> Found = {}
          /\ cli.at = "inspect"
      BY <1>d DEF Inspect, Clis
    <2>2. Found # {} => lock = "held"
      <3>1. \A p \in Found : peony[p].state = "live"
        BY <2>1, CalmHere DEF Found, DesktopTyped, Processes
      <3> QED BY <3>1 DEF Calm, CalmPeony
    <2> QED BY <2>1, <2>2 DEF desktop
  <1>e. CASE StopForTeardown
    BY <1>e, <1>1 DEF StopForTeardown, Steps
  <1>f. CASE Restore \/ RemoveFiles
    BY <1>f, <1>1 DEF Restore, RemoveFiles, desktop, Steps
  <1>g. CASE StopPeonyProcesses
    <2>1. CASE Terminate \/ WaitForPeonyExit \/ KillPeony
      BY <1>1, <2>1 DEF Terminate, WaitForPeonyExit, KillPeony, Steps
    <2>2. CASE ClearLocks
      BY <1>1, <2>2 DEF ClearLocks, Steps, Reached
    <2> QED BY <1>g, <2>1, <2>2 DEF StopPeonyProcesses
  <1>h. CASE Relaunch
    <2>1. /\ cli.cmd \in {"teardown", "uninstall"} /\ cli.at = "relaunch"
      BY <1>h DEF Relaunch, Reached, StepsOf, Clis
    <2>2. CASE cli.injected \/ cli.absent
      <3>1. Found = {}
        BY <2>1, <2>2 DEF Calm, CalmSteps
      <3>2. lock = "free"
        BY <1>4, <2>1, <3>1 DEF Calm, CalmPeony, DesktopTyped
      <3>3. (Goto("verify") /\ lock' = "held") \/ Exit("FileError")
        BY <1>h, <2>2, <3>2 DEF Relaunch, StartPlain
      <3> QED BY <1>1, <1>2, <3>3 DEF Steps
    <2>3. CASE ~cli.injected /\ ~cli.absent
      BY <1>1, <1>h, <2>1, <2>3 DEF Relaunch, desktop, Steps
    <2> QED BY <2>2, <2>3
  <1>i. CASE VerifyPlain
    <2>1. /\ cli.cmd \in {"teardown", "uninstall"} /\ cli.at = "verify"
          /\ UNCHANGED desktop
      BY <1>i DEF VerifyPlain, Reached, StepsOf, Clis
    <2>2. lock = "held" /\ \A p \in Found : ~peony[p].injected
      BY <2>1 DEF Calm, CalmSteps, Stopping
    <2>3. Found # {}
      BY <2>2 DEF Calm, CalmPeony
    <2>4. Exit("ok")
      BY <1>i, <2>2, <2>3, FirstFound DEF VerifyPlain, Mapped
    <2> QED BY <1>2, <2>1, <2>2, <2>4 DEF desktop
  <1>j. CASE Purge \/ Purged
    <2>1. cli'.cmd = cli.cmd /\ cli.at \in {"purge", "purging"}
          /\ cli'.at \in {"purging", "done"}
      BY <1>j, <1>1 DEF Purge, Purged, Clis, Steps
    <2> QED BY <2>1 DEF Reached, StepsOf
  <1>k. CASE Environment
    BY <1>k, OrderlyEnvironment DEF Waiting
  <1>l. CASE UNCHANGED vars
    BY <1>l DEF vars
  <1>m. ~Killed
    BY <1>3 DEF Killed
  <1> QED BY <1>a, <1>b, <1>c, <1>d, <1>e, <1>f, <1>g, <1>h, <1>i, <1>j, <1>k,
             <1>l, <1>m
      DEF Next, Teardown

LEMMA OrderlyStep ==
  ASSUME TypeOK, Reached, UnitInv, CalmInv, OrderlyInv, [Next]_vars
  PROVE  OrderlyInv'
  <1>1. Orderly' <=> Orderly
    BY FaultsFrame DEF Orderly
  <1>2. Orderly => NoneOutlives /\ Calm
    BY OrderlyIsCalm DEF CalmInv
  <1> QED BY <1>1, <1>2, OrderlySetupStep, OrderlyTeardownStep DEF OrderlyInv
-----------------------------------------------------------------------------
(* The unit is out of Setup's way, whoever interferes.                     *)

LEMMA AwayEnvironment ==
  ASSUME TypeOK, UnitInv, Environment, unit.state \in {"unloaded", "failed"}
  PROVE  unit'.state = unit.state
  <1> DesktopTyped
    BY TypeParts
  <1>1. CASE Reap
    BY <1>1 DEF Reap, UnitInv
  <1>2. CASE AutoRestart
    BY <1>2 DEF AutoRestart
  <1>3. CASE Respawn
    BY <1>3 DEF Respawn, StartPlain, desktop
  <1>4. ASSUME NEW p \in Pids, Exec(p) \/ Obey(p) \/ Crash(p)
        PROVE  unit'.state = unit.state
    BY <1>4 DEF Exec, Obey, Crash, End, DesktopTyped, UnitStates
  <1> QED BY <1>1, <1>2, <1>3, <1>4 DEF Environment

LEMMA AwayStep ==
  ASSUME TypeOK, Reached, UnitInv, AwayInv, [Next]_vars
  PROVE  AwayInv'
  <1> DesktopTyped /\ cli \in Clis
    BY TypeParts
  <1>1. \A to \in Steps : Goto(to) => cli'.at = to /\ cli'.cmd = cli.cmd
    BY GotoFields
  <1>2. \A r \in {"ok", "FileError", "BusError", "Unknown", "killed"} :
          Exit(r) => /\ cli'.at = IF cli.cmd = "uninstall" THEN "purge" ELSE "done"
                     /\ cli'.cmd = cli.cmd /\ cli'.result = r
    BY ExitFields
  <1>3. Without({"bus", "slowStop"})' <=> Without({"bus", "slowStop"})
    BY FaultsFrame DEF Without
  <1>4. SUFFICES ASSUME "bus" \notin faults, "slowStop" \notin faults
                 PROVE  AwayInv'
    BY <1>3 DEF AwayInv, Without
  <1>5. Without({"bus", "slowStop"})
    BY <1>4 DEF Without
  <1> USE <1>5 DEF AwayInv, Away
  <1>a. CASE Begin \/ Return
    BY <1>a, FreshFields
  <1>b. CASE Killed \/ WriteMarker \/ PointAtMarker
    BY <1>b, <1>1, <1>2 DEF Killed, WriteMarker, PointAtMarker, Steps
  <1>c. CASE ReadPrevious \/ BuildList
    BY <1>c DEF ReadPrevious, BuildList, Clis
  <1>d. CASE Record
    <2>1. cli'.at = "point"
      BY <1>d, <1>1 DEF Record, Clis, Steps
    <2> QED BY <2>1
  <1>e. CASE StopForSetup
    BY <1>e, <1>1, <1>4 DEF StopForSetup, Steps
  <1>f. CASE WaitInactive
    BY <1>f, <1>1, <1>4 DEF WaitInactive, desktop, Steps
  <1>g. CASE ResetFailed
    <2>1. cli'.at = "term" /\ cli'.cmd = cli.cmd /\ cli.at = "reset"
          /\ unit' \in {unit, Cleared(unit)}
      BY <1>1, <1>g DEF ResetFailed, Steps
    <2>2. unit.state \in {"unloaded", "failed"} => unit'.state \in {"unloaded", "failed"}
      BY <2>1 DEF Cleared, Unloaded
    <2> QED BY <2>1, <2>2
  <1>h. CASE StopPeonyProcesses
    <2>1. /\ cli.at \in {"term", "wait", "kill", "locks"}
          /\ cli'.at \in {"wait", "kill", "locks", "launch", "restore"}
          /\ cli'.cmd = cli.cmd
      BY <1>h, <1>1
      DEF StopPeonyProcesses, Terminate, WaitForPeonyExit, KillPeony,
          ClearLocks, Steps
    <2>2. unit'.state = unit.state
      BY <1>h
      DEF StopPeonyProcesses, Terminate, WaitForPeonyExit, KillPeony,
          ClearLocks, End, desktop, DesktopTyped, UnitStates
    <2> QED BY <2>1, <2>2
  <1>i. CASE Launch
    <2>1. cli.cmd = "setup"
      BY <1>i DEF Launch, Reached, StepsOf, Clis
    <2>2. unit.state \in {"unloaded", "failed"}
      BY <1>i, <2>1 DEF Launch
    <2>3. Goto("verify") \/ Exit("FileError")
      BY <1>i, <1>4, <2>2 DEF Launch
    <2> QED BY <1>1, <1>2, <2>3 DEF Steps
  <1>j. CASE VerifyInjected
    BY <1>j, <1>2 DEF VerifyInjected
  <1>k. CASE WhichPrevious \/ Inspect
    BY <1>k DEF WhichPrevious, Inspect, Clis, Reached, StepsOf
  <1>l. CASE StopForTeardown \/ Restore \/ RemoveFiles \/ Relaunch \/ VerifyPlain
    BY <1>l, <1>1, <1>2
    DEF StopForTeardown, Restore, RemoveFiles, Relaunch, VerifyPlain, Reached,
        StepsOf, Steps
  <1>m. CASE Purge \/ Purged
    <2>1. cli'.cmd = cli.cmd /\ cli.at \in {"purge", "purging"}
      BY <1>m, <1>1 DEF Purge, Purged, Clis, Steps
    <2> QED BY <2>1 DEF Reached, StepsOf
  <1>n. CASE Environment
    <2>1. UNCHANGED cli
      BY <1>n, EnvironmentFrame
    <2>2. cli.at \in Away /\ cli.cmd = "setup" => unit'.state = unit.state
      BY <1>n, AwayEnvironment
    <2> QED BY <2>1, <2>2
  <1>o. CASE UNCHANGED vars
    BY <1>o DEF vars
  <1> QED BY <1>a, <1>b, <1>c, <1>d, <1>e, <1>f, <1>g, <1>h, <1>i, <1>j, <1>k,
             <1>l, <1>m, <1>n, <1>o
      DEF Next, Setup, Teardown

-----------------------------------------------------------------------------
(* The invariant.                                                          *)

LEMMA InitInv == Init => IInv
  <1> SUFFICES ASSUME Init PROVE IInv
    OBVIOUS
  <1>1. TypeOK
    BY TypeInit
  <1>2. /\ cli = Fresh /\ record = "missing" /\ lock = "held" /\ unit = Unloaded
        /\ pointer \in {"user", "colon"}
    BY BoundsAssumption DEF Init
  <1>3. 1 \in Pids /\ peony[1] = Plain /\ \A p \in Pids : p # 1 => peony[p] = Dead
    BY BoundsAssumption DEF Init, Pids
  <1>4. Found = {1}
    BY <1>3, Values DEF Found
  <1>5. /\ unit.state = "unloaded" /\ unit.list = <<>> /\ unit.ended = "no"
        /\ cli.cmd = "setup" /\ cli.at = "idle"
        /\ cli.list = <<>> /\ cli.previous = NoPath
    BY <1>2, Values DEF Unloaded
  <1>6. Reached /\ HandInv /\ PurgedInv
    BY <1>5 DEF Reached, StepsOf, HandInv, PurgedInv, Removing
  <1>7. UnitInv
    BY <1>3, <1>4, <1>5, Values DEF UnitInv
  <1>8. CalmInv
    <2>1. CalmUnit
      BY <1>5 DEF CalmUnit, Waiting
    <2>2. CalmPeony
      BY <1>2, <1>3, <1>4, Values DEF CalmPeony
    <2>3. CalmSteps
      BY <1>3, <1>4, <1>5, Values DEF CalmSteps, Removing
    <2> QED BY <2>1, <2>2, <2>3 DEF CalmInv, Calm
  <1>9. HomeInv
    BY <1>2, <1>3, <1>4, <1>5, Values
    DEF HomeInv, Home, HomeWorld, HomeSetup, HomeTeardown, NoInjected, Removing,
        Users
  <1>10. CoverInv
    <2>1. AllKnown(<<>>)
      BY DEF AllKnown
    <2>2. KnownInv
      BY <1>2, <1>3, <1>4, <1>5, <2>1, Values DEF KnownInv, KnownLists, Known
    <2> QED BY <1>2, <1>5, <2>2 DEF CoverInv, ListInv
  <1>11. OrderlyInv
    BY <1>5 DEF OrderlyInv, OrderlySetup, OrderlyTeardown, Removing
  <1>12. AwayInv
    BY <1>5 DEF AwayInv, Away
  <1> QED BY <1>1, <1>6, <1>7, <1>8, <1>9, <1>10, <1>11, <1>12 DEF IInv

LEMMA StepInv == IInv /\ [Next]_vars => IInv'
  BY TypeStep, ReachedStep, HandStep, UnitStep, PurgedStep, CalmStep, HomeStep,
     CoverStep, OrderlyStep, AwayStep
  DEF IInv

LEMMA Invariance == Spec => []IInv
  BY InitInv, StepInv, PTL DEF Spec

(* Every variable keeps its type, for every bound on the processes. *)
THEOREM TypeCorrect == Spec => []TypeOK
  <1>1. IInv => TypeOK
    BY DEF IInv
  <1> QED BY <1>1, Invariance, PTL

(* A recorded wallpaper of the user's is never overwritten, and dropped    *)
(* only once the settings command, if it does not fail, has put it back,   *)
(* whatever else fails and wherever the CLI is killed: Record writes only  *)
(* a record that is missing, and RemoveFiles comes after Restore.          *)
THEOREM RecordIsHandedOver == Spec => RecordHandedOver
  <1>1. IInv /\ [Next]_vars =>
          [Without({"gsettings"}) /\ record \in Users /\ record' # record
             => gsetting = record]_vars
    <2>1. SUFFICES ASSUME IInv, [Next]_vars, Without({"gsettings"}),
                          record \in Users, record' # record
                   PROVE  gsetting = record
      OBVIOUS
    <2>2. record # "missing"
      BY <2>1 DEF Users
    <2>3. RemoveFiles
      BY <2>1, <2>2, RecordWriters
    <2>4. cli.at = "remove" /\ Removing
      BY <2>1, <2>3 DEF RemoveFiles, IInv, Reached, StepsOf, TypeOK, Removing
    <2> QED BY <2>1, <2>4 DEF IInv, HandInv
  <1> QED BY <1>1, Invariance, PTL DEF Spec, RecordHandedOver

(* While accountsservice points at the marker, the record holds a          *)
(* wallpaper of the user's to go back to, if accountsservice answers and   *)
(* no injected peony is hidden from Teardown.                              *)
THEOREM TheWayHomeIsKept == Spec => []WayHomeKept
  <1>1. IInv => WayHomeKept
    BY DEF IInv, HomeInv, Home, HomeWorld, CoverInv, WayHomeKept
  <1> QED BY <1>1, Invariance, PTL

(* Once any Teardown is over, the wallpaper is back and nothing that Setup *)
(* wrote is left, under the same two conditions.                           *)
THEOREM TeardownDoesRestore == Spec => []TeardownRestores
  <1>1. IInv => TeardownRestores
    BY DEF IInv, HomeInv, Home, HomeTeardown, TeardownRestores, Ended, Removing
  <1> QED BY <1>1, Invariance, PTL

(* After a Setup that says it is done, an injected desktop matches what it *)
(* is given to load, in every combination of faults.                       *)
THEOREM SetupDoesCover == Spec => []SetupCovers
  <1>1. IInv => SetupCovers
    <2>1. SUFFICES ASSUME IInv, Ended("setup"), cli.result = "ok",
                          cli.previous \in Users,
                          pointer \notin {"colon", "colonHead"},
                          NEW p \in Found, peony[p].injected
                   PROVE  ShimMatches(peony[p].list, pointer)
      BY DEF SetupCovers
    <2>2. peony[p].list = cli.list
      <3>1. unit.state # "unloaded" /\ peony[p].list = unit.list
        BY <2>1 DEF IInv, UnitInv
      <3> QED BY <2>1, <3>1 DEF IInv, CoverInv, ListInv, Ended
    <2>3. Contains(cli.list, cli.previous)
      BY <2>1 DEF IInv, CoverInv, ListInv, Ended, Users, NoPath
    <2>4. pointer \in {"user"} \cup Stored
      BY <2>1 DEF IInv, TypeOK, CoverInv, Paths
    <2>5. pointer = "user" => cli.previous = "user"
      BY <2>1 DEF IInv, CoverInv, KnownInv, Known, Users, NoPath
    <2> QED BY <2>2, <2>3, <2>4, <2>5 DEF ShimMatches
  <1> QED BY <1>1, Invariance, PTL

(* Nothing supervises an injected peony after a Teardown that says it is   *)
(* done, if none was hidden from it, nor after the package was removed or  *)
(* upgraded, if the manager could be told.                                 *)
THEOREM NothingSupervises == Spec => []Unsupervised
  <1>1. IInv => Unsupervised
    <2>1. SUFFICES ASSUME IInv PROVE Unsupervised
      OBVIOUS
    <2>2. NoneOutlives /\ Ended("teardown") =>
            unit.state \notin {"active", "activating"}
      BY <2>1
      DEF IInv, CalmInv, Calm, CalmUnit, CalmSteps, Ended, Removing, Stopping
    <2>3. Without({"bus"}) /\ (Ended("uninstall") \/ Ended("upgrade")) =>
            unit.state \in {"unloaded", "failed"}
      BY <2>1 DEF IInv, PurgedInv, Ended
    <2> QED BY <2>2, <2>3 DEF Unsupervised
  <1> QED BY <1>1, Invariance, PTL

(* Setup finds no unit of its own in its way, whatever crashes, restarts,  *)
(* gives up or is killed, as long as the manager answers and stops in time:*)
(* WaitInactive is what makes the launch safe.                             *)
THEOREM UnitIsAway == Spec => []UnitIsOutOfTheWay
  <1>1. IInv => UnitIsOutOfTheWay
    BY DEF IInv, AwayInv, UnitIsOutOfTheWay, Ended
  <1> QED BY <1>1, Invariance, PTL

(* With only files missing and a stubborn peony, the commands succeed or   *)
(* say that a file is missing, and the desktop is the one asked for.       *)
THEOREM CommandsDoSucceed == Spec => []CommandsSucceed
  <1>1. IInv => CommandsSucceed
    <2>1. SUFFICES ASSUME IInv, Orderly, Ended("setup") \/ Ended("teardown"),
                          cli.result # "FileError"
                   PROVE  /\ cli.result = "ok" /\ lock = "held"
                          /\ cli.cmd = "setup" => unit.state = "active"
                          /\ cli.cmd = "teardown" => Found # {}
                          /\ \A q \in Found : peony[q].injected = (cli.cmd = "setup")
      BY DEF CommandsSucceed
    <2>2. Calm /\ OrderlySetup /\ OrderlyTeardown
      BY <2>1, OrderlyIsCalm DEF IInv, CalmInv, OrderlyInv
    <2>3. \A q \in Found : peony[q].injected \in BOOLEAN
      BY <2>1 DEF IInv, TypeOK, Found
    <2>4. CASE Ended("setup")
      <3>1. cli.cmd = "setup" /\ cli.result = "ok" /\ lock = "held" /\ unit.state = "active"
        BY <2>1, <2>2, <2>4 DEF OrderlySetup, Ended
      <3>2. PICK p \in Found : peony[p].injected
        BY <2>2, <3>1 DEF Calm, CalmUnit
      <3>3. \A q \in Found : peony[q].injected
        BY <2>2, <3>2 DEF Calm, CalmPeony
      <3> QED BY <2>3, <3>1, <3>3
    <2>5. CASE Ended("teardown")
      <3>1. cli.cmd = "teardown" /\ cli.result = "ok" /\ lock = "held"
        BY <2>1, <2>2, <2>5 DEF OrderlyTeardown, Ended
      <3>2. \A q \in Found : ~peony[q].injected
        BY <2>2, <2>5 DEF Calm, CalmSteps, Ended, Removing, Stopping
      <3>3. Found # {}
        BY <2>2, <3>1 DEF Calm, CalmPeony
      <3> QED BY <2>3, <3>1, <3>2, <3>3
    <2> QED BY <2>1, <2>4, <2>5
  <1> QED BY <1>1, Invariance, PTL
=============================================================================
