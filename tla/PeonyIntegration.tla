-------------------------- MODULE PeonyIntegration --------------------------
(***************************************************************************)
(* integration::Setup and integration::Teardown (integration/peony.cpp):   *)
(* one CLI process that takes the desktop shell (peony) down and brings it *)
(* up again with or without the shim, among actors it does not control:    *)
(* the user's systemd manager, which supervises the injected peony and     *)
(* restarts it after a failure; the session, which respawns a plain one;   *)
(* accountsservice, which keeps the wallpaper pointer; and peony itself,   *)
(* with its single-instance lock.                                          *)
(*                                                                         *)
(* The package's removal script (deb/prerm) runs the same Teardown and then *)
(* stops the unit; an upgrade only stops it.                               *)
(*                                                                         *)
(* faults names what may go wrong in a behaviour, chosen once for all; with *)
(* none of them every call succeeds, nothing crashes and nobody is killed.  *)
(***************************************************************************)
EXTENDS Integers, Sequences, SequencesExt

CONSTANTS
  MaxPid,    \* bound: processes matching peony-qt-desktop at one time
  Scenarios  \* what may go wrong, and the user's wallpaper

(* "accountRead", "accountWrite": a call to accountsservice fails.         *)
(* "record": the previous-wallpaper record cannot be written.              *)
(* "marker", "shim", "spawn": no marker, no libpeony-alpha.so, no fork.    *)
(* "gsettings": the settings command fails.                                *)
(* "bus": the user bus or a manager call fails.                            *)
(* "slowStop": the unit has not left after the five seconds it is given.   *)
(* "stubborn": peony outlives the grace period of its SIGTERM.             *)
(* "slowStart": peony has not come up ten seconds after a launch.          *)
(* "crash": peony crashes.  "respawn": the session respawns it.            *)
(* "kill": the CLI process is killed.                                      *)
AllFaults == {"accountRead", "accountWrite", "gsettings", "record", "marker",
              "shim", "spawn", "bus", "slowStop", "stubborn", "slowStart",
              "crash", "respawn", "kill"}

(* Files may be missing and peony slow to end; nothing outside misbehaves. *)
OrderlyFaults == {"marker", "gsettings", "shim", "spawn", "stubborn"}

(* The paths that matter: the user's wallpaper, whose path is an ordinary   *)
(* one or has a ':' in it ("colon", "colonHead" up to the ':'), the marker, *)
(* and the copies accountsservice makes of them in its own store.           *)
NoPath == ""
Stored == {"userCopy", "markerCopy"}
Paths == {"user", "colon", "colonHead", "marker"} \cup Stored
Users == {"user", "colon", "userCopy"}
Normalize(p) == CASE p \in {"user", "colon"} -> "userCopy"
                  [] p = "marker" -> "markerCopy"
                  [] OTHER -> p

ASSUME BoundsAssumption ==
  /\ MaxPid \in Nat \ {0}
  /\ Scenarios \subseteq [faults : SUBSET AllFaults, wallpaper : {"user", "colon"}]

(* PEONY_ALPHA_WALLPAPER: at most three distinct paths. *)
Lists == {l \in UNION {[1..n -> Paths] : n \in 0..3} :
            \A i, j \in DOMAIN l : l[i] = l[j] => i = j}

Pids == 1..MaxPid

VARIABLES
  faults,      \* what may go wrong in this behaviour
  pointer,     \* accountsservice's BackgroundFile
  gsetting,    \* org.mate.background picture-filename
  record,      \* the previous-wallpaper record: a path, NoPath, or "missing"
  markerFile,  \* whether the marker is on disk
  lock,        \* peony's lock in /tmp: "free", "held" or "stale"
  unit,        \* the transient unit: its state, the list it launches with,
               \* and how its process ended while the manager has not seen it
  peony,       \* the processes whose command line says peony-qt-desktop
  cli          \* the CLI process: control state and locals

world == <<faults, pointer, gsetting, record, markerFile>>
desktop == <<lock, unit, peony>>
vars == <<faults, pointer, gsetting, record, markerFile, lock, unit, peony, cli>>

(* "exec": the /usr/bin/env that is about to become the injected peony. *)
Dead == [state |-> "dead", injected |-> FALSE, list |-> <<>>, dying |-> FALSE]
Plain == [Dead EXCEPT !.state = "live"]
Injected(list) == [Dead EXCEPT !.state = "exec", !.injected = TRUE,
                               !.list = list]
Unloaded == [state |-> "unloaded", list |-> <<>>, ended |-> "no"]

Steps == {"idle", "marker", "read", "record", "point", "normalized", "stop",
          "inactive", "reset", "term", "wait", "kill", "locks", "launch",
          "verify", "previous", "inspect", "restore", "remove", "relaunch",
          "purge", "purging", "done"}
Fresh == [cmd |-> "setup", at |-> "idle", previous |-> NoPath, list |-> <<>>,
          injected |-> FALSE, absent |-> FALSE, result |-> "ok"]

(* The outcomes of something that goes wrong only under fault f. *)
May(f) == IF f \in faults THEN BOOLEAN ELSE {TRUE}

TypeOK ==
  /\ faults \subseteq AllFaults
  /\ pointer \in Paths
  /\ gsetting \in Paths
  /\ record \in Paths \cup {NoPath, "missing"}
  /\ markerFile \in BOOLEAN
  /\ lock \in {"free", "held", "stale"}
  /\ unit \in [state : {"unloaded", "active", "activating", "deactivating",
                        "failed"}, list : Lists,
               ended : {"no", "clean", "unclean"}]
  /\ peony \in [Pids -> [state : {"dead", "exec", "live"}, list : Lists,
                         injected : BOOLEAN, dying : BOOLEAN]]
  /\ cli \in [cmd : {"setup", "teardown", "uninstall", "upgrade"}, at : Steps, list : Lists,
              previous : Paths \cup {NoPath},
              injected : BOOLEAN, absent : BOOLEAN,
              result : {"ok", "FileError", "BusError", "Unknown", "killed"}]

(* A session with its own wallpaper and a plain desktop. *)
Init ==
  /\ \E s \in Scenarios :
       /\ faults = s.faults
       /\ pointer = s.wallpaper
       /\ gsetting = s.wallpaper
  /\ record = "missing"
  /\ markerFile = FALSE
  /\ lock = "held"
  /\ unit = Unloaded
  /\ peony = [p \in Pids |-> IF p = 1 THEN Plain ELSE Dead]
  /\ cli = Fresh

-----------------------------------------------------------------------------
(* What the code sees of the processes. *)

Found == {p \in Pids : peony[p].state # "dead"}       \* findPeonyPids
First == CHOOSE p \in Found : \A q \in Found : p <= q \* findPeonyPid
Mapped(p) == peony[p].injected /\ peony[p].state = "live"   \* shimMapped

(* peony::FirstWallpaperIn: what precedes the first ':'. *)
FirstWallpaperIn(list) ==
  IF list = <<>> THEN NoPath
  ELSE IF Head(list) = "colon" THEN "colonHead" ELSE Head(list)

(* The same, of the running peony's launch environment. *)
FirstWallpaper ==
  IF Found # {} /\ Mapped(First) THEN FirstWallpaperIn(peony[First].list)
                                 ELSE NoPath

(* Faulty variant: what is in the list already is listed again. *)
ListWithRepetitions(marker, normalized, previous) ==
  SelectSeq(<<previous, normalized, marker>>, LAMBDA p : p # NoPath)

(* Faulty variant: the old wallpaper is left out of the list. *)
ListWithoutPrevious(marker, normalized, previous) ==
  IF normalized \in {NoPath, marker} THEN <<marker>> ELSE <<normalized, marker>>

(* peony::BuildWallpaperList: previous, normalized and marker, without the *)
(* empty ones and the repetitions.                                         *)
Listed(paths, p) ==
  IF p = NoPath \/ Contains(paths, p) THEN paths ELSE Append(paths, p)
BuildWallpaperList(marker, normalized, previous) ==
  Listed(Listed(Listed(<<>>, previous), normalized), marker)

(* is_wallpaper_path in the shim: a listed path, or anything in the store;  *)
(* a path with a ':' is two entries to it.                                 *)
ShimMatches(list, path) ==
  (path # "colon" /\ Contains(list, path)) \/ path \in Stored

-----------------------------------------------------------------------------
(* peony, its unit and the session: external, as the code reckons with them.*)

(* The processes in gone end: on request and cleanly, or not.  The lock of *)
(* one that is killed or crashes stays behind.                             *)
End(gone, clean) ==
  /\ peony' = [p \in Pids |-> IF p \in gone THEN Dead ELSE peony[p]]
  /\ lock' = IF lock = "held" /\ \E p \in gone : peony[p].state = "live"
               THEN IF clean THEN "free" ELSE "stale"
               ELSE lock
  /\ unit' = IF \E p \in gone : peony[p].injected
               THEN [unit EXCEPT !.ended = IF clean THEN "clean" ELSE "unclean"]
               ELSE unit

(* The manager learns that the unit's process has ended: Restart=on-failure.*)
Reap ==
  /\ unit.ended # "no"
  /\ unit' = CASE unit.ended = "clean" -> Unloaded
               [] unit.state = "active" ->
                    [unit EXCEPT !.state = "activating", !.ended = "no"]
               [] OTHER -> [unit EXCEPT !.state = "failed", !.ended = "no"]
  /\ UNCHANGED <<world, lock, peony, cli>>

(* A plain peony starts; if the lock says there is one already, it hands   *)
(* over and exits.  A stale lock may fool it.                              *)
StartPlain ==
  \/ /\ lock # "held"
     /\ \E p \in Pids \ Found : peony' = [peony EXCEPT ![p] = Plain]
     /\ lock' = "held"
     /\ UNCHANGED unit
  \/ lock # "free" /\ UNCHANGED desktop

(* The manager starts the injected peony of the unit it has. *)
StartInjected(list) ==
  /\ \E p \in Pids \ Found : peony' = [peony EXCEPT ![p] = Injected(list)]
  /\ unit' = [Unloaded EXCEPT !.state = "active", !.list = list]
  /\ UNCHANGED lock

(* env execs peony, which looks at the lock. *)
Exec(p) ==
  /\ peony[p].state = "exec"
  /\ \/ /\ lock # "held"
        /\ peony' = [peony EXCEPT ![p].state = "live"]
        /\ lock' = "held"
        /\ UNCHANGED unit
     \/ /\ lock # "free"
        /\ peony' = [peony EXCEPT ![p] = Dead]
        /\ unit' = [unit EXCEPT !.ended = "clean"]
        /\ UNCHANGED lock
  /\ UNCHANGED <<world, cli>>

(* A process that was asked to end does. *)
Obey(p) ==
  /\ peony[p].dying
  /\ End({p}, TRUE)
  /\ UNCHANGED <<world, cli>>

Crash(p) ==
  /\ "crash" \in faults
  /\ peony[p].state = "live"
  /\ End({p}, FALSE)
  /\ UNCHANGED <<world, cli>>

(* RestartSec has passed since the failure. *)
AutoRestart ==
  /\ unit.state = "activating"
  /\ StartInjected(unit.list)
  /\ UNCHANGED <<world, cli>>

(* ukui-session respawns a desktop that is gone, without injection. *)
Respawn ==
  /\ "respawn" \in faults
  /\ Found = {}
  /\ StartPlain
  /\ UNCHANGED <<world, cli>>

(* StopUnit: the job is queued and the supervised process asked to end; a  *)
(* unit between two starts has none.  ResetFailedUnit: a failed unit goes. *)
Stopped(u) == CASE u.state = "active"     -> [u EXCEPT !.state = "deactivating"]
                [] u.state = "activating" -> Unloaded
                [] OTHER                  -> u
Cleared(u) == IF u.state = "failed" THEN Unloaded ELSE u
Asked == [p \in Pids |-> [peony[p] EXCEPT !.dying = @ \/
                            (peony[p].injected /\ unit.state = "active")]]

(* The ten seconds of a verification are over: whatever was about to come  *)
(* or go has, unless it is slow.                                           *)
TimeIsUp ==
  \/ "slowStart" \in faults
  \/ /\ unit.state \in {"unloaded", "failed", "active"} /\ unit.ended = "no"
     /\ \A p \in Found : peony[p].state = "live" /\ ~peony[p].dying

-----------------------------------------------------------------------------
(* The CLI process. *)

Goto(to) == cli' = [cli EXCEPT !.at = to]
Exit(result) ==
  cli' = [cli EXCEPT !.at = IF cli.cmd = "uninstall" THEN "purge" ELSE "done",
                     !.result = result]

Begin ==
  /\ cli.at = "idle"
  /\ \/ cli' = [Fresh EXCEPT !.cmd = "setup", !.at = "marker"]
     \/ \E cmd \in {"teardown", "uninstall"} :
          cli' = [Fresh EXCEPT !.cmd = cmd, !.at = "previous"]
     \/ cli' = [Fresh EXCEPT !.cmd = "upgrade", !.at = "purge"]
  /\ UNCHANGED <<world, desktop>>

Return ==
  /\ cli.at = "done"
  /\ cli' = Fresh
  /\ UNCHANGED <<world, desktop>>

(* The CLI is killed; prerm goes on whatever becomes of it. *)
Killed ==
  /\ "kill" \in faults
  /\ cli.at \notin {"idle", "purge", "purging", "done"}
  /\ Exit("killed")
  /\ UNCHANGED <<world, desktop>>

(* Setup, 1: the marker on disk. *)
WriteMarker ==
  /\ cli.at = "marker"
  /\ \E ok \in May("marker") :
       IF ok THEN markerFile' = TRUE /\ Goto("read")
             ELSE UNCHANGED markerFile /\ Exit("FileError")
  /\ UNCHANGED <<faults, pointer, gsetting, record, desktop>>

(* The wallpaper to remember: accountsservice's answer, or nothing. *)
ReadPrevious ==
  /\ cli.at = "read"
  /\ \E ok \in May("accountRead") :
       cli' = [cli EXCEPT !.previous = IF ok THEN pointer ELSE NoPath,
                          !.at = "record"]
  /\ UNCHANGED <<world, desktop>>

(* Faulty variant: every setup records what it finds. *)
RecordAgain ==
  /\ cli.at = "record"
  /\ record' = cli.previous
  /\ Goto("point")
  /\ UNCHANGED <<faults, pointer, gsetting, markerFile, desktop>>

(* The record is written once, preferring what an injected peony was       *)
(* launched with over a pointer that may be our own marker.  Whether the   *)
(* write succeeded is not looked at.                                       *)
Record ==
  LET previous == IF FirstWallpaper # NoPath THEN FirstWallpaper
                                             ELSE cli.previous
  IN
  /\ cli.at = "record"
  /\ IF record = "missing"
       THEN /\ \E ok \in May("record") :
                 record' = IF ok THEN previous ELSE record
            /\ cli' = [cli EXCEPT !.previous = previous, !.at = "point"]
       ELSE Goto("point") /\ UNCHANGED record
  /\ UNCHANGED <<faults, pointer, gsetting, markerFile, desktop>>

(* setAccountBackground reports nothing, either way; what the settings     *)
(* command reports is not looked at.                                       *)
SetAccountBackground(path) ==
  \E ok \in May("accountWrite") :
    pointer' = IF ok THEN Normalize(path) ELSE pointer
SetGsettings(path) ==
  \E ok \in May("gsettings") : gsetting' = IF ok THEN path ELSE gsetting

PointAtMarker ==
  /\ cli.at = "point"
  /\ SetAccountBackground("marker")
  /\ Goto("normalized")
  /\ UNCHANGED <<faults, gsetting, record, markerFile, desktop>>

(* Read the pointer back, set the gsettings key, build the list. *)
BuildList ==
  /\ cli.at = "normalized"
  /\ \E ok \in May("accountRead") :
       cli' = [cli EXCEPT
                 !.list = BuildWallpaperList("marker",
                            IF ok THEN pointer ELSE NoPath, cli.previous),
                 !.at = "stop"]
  /\ SetGsettings("marker")
  /\ UNCHANGED <<faults, pointer, record, markerFile, desktop>>

(* Setup, 2: no bus ends it here; a failed Stop is not looked at. *)
StopForSetup ==
  /\ cli.at = "stop"
  /\ cli.cmd = "setup"
  /\ \/ unit' = Stopped(unit) /\ peony' = Asked /\ UNCHANGED lock
        /\ Goto("inactive")
     \/ "bus" \in faults /\ UNCHANGED desktop /\ Goto("inactive")
     \/ "bus" \in faults /\ UNCHANGED desktop /\ Exit("BusError")
  /\ UNCHANGED world

(* Faulty variant: the asynchronous stop is not waited for. *)
NotWaited ==
  /\ cli.at = "inactive"
  /\ Goto("reset")
  /\ UNCHANGED <<world, desktop>>

(* WaitInactive: the unit has left, or its state cannot be read, or five   *)
(* seconds have passed; the code goes on in every case.                    *)
WaitInactive ==
  /\ cli.at = "inactive"
  /\ unit.state \in {"unloaded", "failed"} \/ faults \cap {"bus", "slowStop"} # {}
  /\ Goto("reset")
  /\ UNCHANGED <<world, desktop>>

ResetFailed ==
  /\ cli.at = "reset"
  /\ \E ok \in May("bus") : unit' = IF ok THEN Cleared(unit) ELSE unit
  /\ Goto("term")
  /\ UNCHANGED <<world, lock, peony>>

(* stopPeonyProcesses: SIGTERM to all, wait for none to be left, SIGKILL   *)
(* to whatever is there when the grace period ends.                        *)
Terminate ==
  /\ cli.at = "term"
  /\ peony' = [p \in Pids |-> IF p \in Found
                                THEN [peony[p] EXCEPT !.dying = TRUE] ELSE Dead]
  /\ Goto("wait")
  /\ UNCHANGED <<world, lock, unit>>

WaitForPeonyExit ==
  /\ cli.at = "wait"
  /\ \/ Found = {} /\ Goto("locks")
     \/ Found # {} /\ (\A p \in Found : ~peony[p].dying) /\ Goto("kill")
     \/ Found # {} /\ "stubborn" \in faults /\ Goto("kill")
  /\ UNCHANGED <<world, desktop>>

KillPeony ==
  /\ cli.at = "kill"
  /\ End(Found, FALSE)
  /\ Goto("locks")
  /\ UNCHANGED world

(* clearSingleInstanceLocks, whoever holds them. *)
ClearLocks ==
  /\ cli.at = "locks"
  /\ lock' = "free"
  /\ Goto(IF cli.cmd = "setup" THEN "launch" ELSE "restore")
  /\ UNCHANGED <<world, unit, peony>>

(* Setup, 3: LocateShim, then StartTransient, which resets a failed unit   *)
(* and cannot create one that is still loaded.                             *)
Launch ==
  /\ cli.at = "launch"
  /\ \/ /\ unit.state \in {"unloaded", "failed"}
        /\ StartInjected(cli.list)
        /\ Goto("verify")
     \/ /\ unit.state \notin {"unloaded", "failed"} \/ "bus" \in faults
        /\ UNCHANGED desktop
        /\ Exit("BusError")
     \/ "shim" \in faults /\ UNCHANGED desktop /\ Exit("FileError")
  /\ UNCHANGED world

(* Setup, 4: the first peony found has the shim, within ten seconds. *)
VerifyInjected ==
  /\ cli.at = "verify"
  /\ cli.cmd = "setup"
  /\ IF Found # {} /\ Mapped(First)
       THEN Exit("ok")
       ELSE TimeIsUp /\ Exit("Unknown")
  /\ UNCHANGED <<world, desktop>>

(* Faulty variant: the running peony's list is asked first. *)
RunningFirst ==
  /\ cli.at = "previous"
  /\ cli' = [cli EXCEPT
               !.previous = IF FirstWallpaper # NoPath THEN FirstWallpaper
                            ELSE IF record = "missing" THEN NoPath ELSE record,
               !.at = "inspect"]
  /\ UNCHANGED <<world, desktop>>

(* Teardown, 1: the record; failing that, the running peony's list. *)
WhichPrevious ==
  /\ cli.at = "previous"
  /\ cli' = [cli EXCEPT
               !.previous = IF record \in {"missing", NoPath}
                              THEN FirstWallpaper ELSE record,
               !.at = "inspect"]
  /\ UNCHANGED <<world, desktop>>

(* Teardown, 2: is the first peony found injected? *)
Inspect ==
  LET injected == Found # {} /\ Mapped(First) IN
  /\ cli.at = "inspect"
  /\ cli' = [cli EXCEPT !.injected = injected, !.absent = (Found = {}),
                        !.at = IF injected THEN "stop" ELSE "restore"]
  /\ UNCHANGED <<world, desktop>>

(* Faulty variant: the supervisor is left in place. *)
StopSkipped ==
  /\ cli.at = "stop"
  /\ cli.cmd # "setup"
  /\ Goto("term")
  /\ UNCHANGED <<world, desktop>>

(* Stop and ResetFailed, best effort, without waiting for the unit. *)
StopForTeardown ==
  /\ cli.at = "stop"
  /\ cli.cmd # "setup"
  /\ \/ unit' = Cleared(Stopped(unit)) /\ peony' = Asked
     \/ "bus" \in faults /\ unit' \in {unit, Cleared(unit)} /\ UNCHANGED peony
  /\ Goto("term")
  /\ UNCHANGED <<world, lock>>

(* Teardown, 3: the pointers, if there is anything to put back. *)
Restore ==
  /\ cli.at = "restore"
  /\ IF cli.previous # NoPath
       THEN SetAccountBackground(cli.previous) /\ SetGsettings(cli.previous)
       ELSE UNCHANGED <<pointer, gsetting>>
  /\ Goto("remove")
  /\ UNCHANGED <<faults, record, markerFile, desktop>>

(* The record and the marker go, whatever became of the pointers. *)
RemoveFiles ==
  /\ cli.at = "remove"
  /\ record' = "missing"
  /\ markerFile' = FALSE
  /\ Goto("relaunch")
  /\ UNCHANGED <<faults, pointer, gsetting, desktop>>

(* Teardown, 4: a plain peony, if there was none or ours was stopped. *)
Relaunch ==
  /\ cli.at = "relaunch"
  /\ IF cli.injected \/ cli.absent
       THEN \/ StartPlain /\ Goto("verify")
            \/ "spawn" \in faults /\ UNCHANGED desktop /\ Exit("FileError")
       ELSE UNCHANGED desktop /\ Goto("verify")
  /\ UNCHANGED world

(* Teardown, 5: the first peony found does not have the shim. *)
VerifyPlain ==
  /\ cli.at = "verify"
  /\ cli.cmd # "setup"
  /\ IF Found # {} /\ ~Mapped(First)
       THEN Exit("ok")
       ELSE TimeIsUp /\ Exit("Unknown")
  /\ UNCHANGED <<world, desktop>>

(* prerm: systemctl --user stop, its failure ignored. *)
Purge ==
  /\ cli.at = "purge"
  /\ \/ unit' = Stopped(unit) /\ peony' = Asked /\ UNCHANGED lock
        /\ Goto("purging")
     \/ "bus" \in faults /\ UNCHANGED desktop
        /\ cli' = [cli EXCEPT !.at = "done"]
  /\ UNCHANGED world

(* It returns once its job is done. *)
Purged ==
  /\ cli.at = "purging"
  /\ unit.state \in {"unloaded", "failed"}
  /\ cli' = [cli EXCEPT !.at = "done"]
  /\ UNCHANGED <<world, desktop>>

Setup ==
  \/ WriteMarker \/ ReadPrevious \/ Record \/ PointAtMarker \/ BuildList
  \/ StopForSetup \/ WaitInactive \/ ResetFailed \/ Launch \/ VerifyInjected

Teardown ==
  \/ WhichPrevious \/ Inspect \/ StopForTeardown \/ Restore \/ RemoveFiles
  \/ Relaunch \/ VerifyPlain

StopPeonyProcesses ==
  Terminate \/ WaitForPeonyExit \/ KillPeony \/ ClearLocks

Environment ==
  \/ \E p \in Pids : Exec(p) \/ Obey(p) \/ Crash(p)
  \/ Reap
  \/ AutoRestart
  \/ Respawn

Next ==
  \/ Begin \/ Return \/ Killed
  \/ Setup \/ Teardown \/ StopPeonyProcesses \/ Purge \/ Purged
  \/ Environment

Spec == Init /\ [][Next]_vars

-----------------------------------------------------------------------------
(* Properties.  Each says which faults it does not survive.                *)

Ended(cmd) == cli.at = "done" /\ cli.cmd = cmd
Without(fs) == faults \cap fs = {}
Orderly == faults \subseteq OrderlyFaults

(* accountsservice answers and the record can be written. *)
AccountsWork == Without({"accountRead", "accountWrite", "record"})

(* No injected peony outlives a Teardown: none is hidden from the one look  *)
(* that Teardown takes, by a crash, by a plain one the session respawned or *)
(* by a Setup that was killed or gave up while env has not become peony     *)
(* yet, and the manager can be told to stop.                                *)
NoneOutlives == Without({"crash", "respawn", "kill", "slowStart", "bus"})

(* A recorded wallpaper of the user's is never overwritten, and dropped    *)
(* only once the settings command has put it back, whichever other calls   *)
(* fail and wherever the CLI is killed.                                    *)
RecordHandedOver ==
  [][Without({"gsettings"}) /\ record \in Users /\ record' # record
       => gsetting = record]_vars

(* While accountsservice points at the marker, the record holds a          *)
(* wallpaper of the user's to go back to, also between repeated Setups.    *)
WayHomeKept ==
  AccountsWork /\ NoneOutlives /\ pointer \in {"marker", "markerCopy"} => record \in Users

(* When Setup says it is done, the shim in an injected desktop matches     *)
(* what accountsservice gives peony to load, whichever calls failed, if    *)
(* Setup remembers a wallpaper of the user's, and what peony loads neither *)
(* has a ':' in its path nor is what was left of such a path when it was   *)
(* read back from a list.                                                  *)
SetupCovers ==
  Ended("setup") /\ cli.result = "ok" /\ cli.previous \in Users
    /\ pointer \notin {"colon", "colonHead"} =>
      \A p \in Found : peony[p].injected => ShimMatches(peony[p].list, pointer)

(* cli.cpp:250: the previous wallpaper is back, and nothing that Setup     *)
(* wrote is left.                                                          *)
PreviousIsBack ==
  Ended("teardown") /\ cli.result = "ok" =>
    pointer \in Users /\ record = "missing" /\ ~markerFile

(* The wallpaper is back after any Teardown, removing the package included,*)
(* even one that reports another failure, that meets a stubborn peony or a *)
(* slow manager, or that follows a Setup that failed for want of a file or *)
(* because its unit was still there.                                       *)
TeardownRestores ==
  AccountsWork /\ NoneOutlives /\ (Ended("teardown") \/ Ended("uninstall")) =>
    pointer \in Users /\ record = "missing" /\ ~markerFile

(* peony.cpp:490-492: when Teardown says it is done, no unit supervises an *)
(* injected peony or is about to start one.  And deb/prerm: nor is there   *)
(* one after the package is removed or upgraded, whatever Teardown made of *)
(* a crash, a kill or a slow start.                                        *)
Unsupervised ==
  /\ NoneOutlives /\ Ended("teardown") /\ cli.result = "ok" =>
       unit.state \notin {"active", "activating"}
  /\ Without({"bus"}) /\ (Ended("uninstall") \/ Ended("upgrade")) =>
       unit.state \in {"unloaded", "failed"}

(* peony.cpp:386-390: Setup has the unit out of its way when it launches,  *)
(* whatever crashes, restarts, gives up or is killed before and meanwhile, *)
(* as long as the manager answers and is not too slow to stop.             *)
UnitIsOutOfTheWay ==
  Without({"bus", "slowStop"}) /\ Ended("setup") => cli.result # "BusError"

(* The commands go wrong only for want of a file, however stubborn the     *)
(* peony before was, as long as the next one comes up within ten seconds:  *)
(* it gets the single-instance lock, and it is injected after a Setup and  *)
(* not after a Teardown.                                                   *)
CommandsSucceed ==
  Orderly /\ (Ended("setup") \/ Ended("teardown")) =>
    \/ cli.result = "FileError"
    \/ /\ cli.result = "ok" /\ lock = "held"
       /\ cli.cmd = "setup" => unit.state = "active"
       /\ cli.cmd = "teardown" => Found # {}
       /\ \A q \in Found : peony[q].injected = (cli.cmd = "setup")
=============================================================================
