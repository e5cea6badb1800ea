---------------------------- MODULE EngineControl ----------------------------
(***************************************************************************)
(* The CLI's engine commands (cli.cpp, engine_unit.cpp) against what they  *)
(* share: config.json, the unit file, and the user's systemd manager,      *)
(* which runs the engine from its own in-memory copy of the unit.          *)
(*                                                                         *)
(* Each CLI process runs one command, one step per file or bus operation;  *)
(* between any two steps the manager, the engine and other CLI processes   *)
(* may move, and the process may be killed.  Each file write is one step:  *)
(* AtomicFile is about what WriteFileAtomic makes of it.                   *)
(***************************************************************************)
EXTENDS Integers, FiniteSets

CONSTANTS
  Procs,     \* CLI processes that may run at the same time
  Screens,   \* X output names
  Primary,   \* engine_unit::FallbackScreenName(): the X primary output
  Ids,       \* wallpaper ids a caller may name
  Library,   \* those ScanLibrary finds on disk
  None,      \* no wallpaper, no screen named, no file, not loaded, no engine
  Corrupt,   \* a config.json that is not a JSON object
  MaxEdits   \* bound: hand edits of the two files

(* config.screens and, for the settings Validate has rules on, whether it  *)
(* accepts them (fps, volume, scaling, clamp, property keys).              *)
Layouts == [Screens -> Ids \cup {None}]
Configs == [screens : Layouts, accepted : BOOLEAN]
NoScreens == [s \in Screens |-> None]
Defaults == [screens |-> NoScreens, accepted |-> TRUE]

ASSUME ConstantsAssumption ==
  /\ Primary \in Screens
  /\ Ids # {} /\ Library \subseteq Ids
  /\ {None, Corrupt} \cap (Ids \cup Screens \cup Configs) = {}
  /\ None # Corrupt
  /\ MaxEdits \in Nat

VARIABLES
  config,    \* config.json: a Config, None (no file) or Corrupt
  unitFile,  \* the .service file: the Config its ExecStart spells, or None
  loaded,    \* the manager's copy of the unit, or None
  active,    \* ActiveState of the unit
  job,       \* the manager's queued job for the unit
  running,   \* the Config the live engine was started with, or None
  proc,      \* per CLI process: command, control state, locals, result
  edits,     \* hand edits so far
  blame      \* why config.json and the unit file may disagree (auxiliary)

files == <<config, unitFile>>
manager == <<loaded, active, job, running>>
vars == <<config, unitFile, loaded, active, job, running, proc, edits, blame>>

Commands == {"start", "stop", "restart", "switch", "selftest", "status"}
Steps == {"idle", "load", "save", "install", "reload", "call", "state",
          "unitfile", "done"}
Results == {"ok", "fail", "FileError", "InvalidInput", "BusError", "killed"}

Process == [cmd : Commands, at : Steps, cfg : Configs,
            screen : Screens \cup {None}, id : Ids, result : Results,
            state : {"active", "inactive", "activating", "failed", "unknown"}]

TypeOK ==
  /\ config \in Configs \cup {None, Corrupt}
  /\ unitFile \in Configs \cup {None}
  /\ loaded \in Configs \cup {None}
  /\ active \in {"inactive", "active", "activating", "failed"}
  /\ job \in {"none", "start", "stop", "restart"}
  /\ running \in Configs \cup {None}
  /\ proc \in [Procs -> Process]
  /\ edits \in 0..MaxEdits
  /\ blame \in BOOLEAN

Idle(p) == proc[p].at \in {"idle", "done"}

Fresh == [cmd |-> "status", at |-> "idle", cfg |-> Defaults, screen |-> None,
          id |-> CHOOSE i \in Ids : TRUE, result |-> "ok", state |-> "unknown"]

Init ==
  /\ config = None
  /\ unitFile = None
  /\ loaded = None
  /\ active = "inactive"
  /\ job = "none"
  /\ running = None
  /\ proc = [p \in Procs |-> Fresh]
  /\ edits = 0
  /\ blame = FALSE

-----------------------------------------------------------------------------
(* The pure parts. *)

(* Config::Load: a missing or a corrupt file is answered with the defaults. *)
Load == IF config \in Configs THEN config ELSE Defaults

(* unit_file::Backgrounds: what the unit file's ExecStart spells. *)
Backgrounds == IF unitFile \in Configs THEN unitFile.screens ELSE NoScreens

(* lwe::Validate on the projection: one background at least, and no setting *)
(* the engine or the product refuses.                                       *)
Valid(cfg) == cfg.screens # NoScreens /\ cfg.accepted

(* config::DefaultScreenFor *)
DefaultScreenFor(cfg) ==
  LET driven == {s \in Screens : cfg.screens[s] # None} IN
  IF Primary \notin driven /\ Cardinality(driven) = 1
    THEN CHOOSE s \in driven : TRUE
    ELSE Primary

(* Faulty variant: the arguments change places. *)
AssignSwapped(cfg, s, id) == [cfg EXCEPT !.screens[s] = s]

(* config::AssignScreen *)
AssignScreen(cfg, s, id) == [cfg EXCEPT !.screens[s] = id]

-----------------------------------------------------------------------------
(* The CLI processes. *)

(* p leaves step `from` for step `to`. *)
Goto(p, from, to) == proc[p].at = from /\ proc' = [proc EXCEPT ![p].at = to]

(* p ends at step `from`, with the exit status `result`. *)
Exit(p, from, result) ==
  /\ proc[p].at = from
  /\ proc' = [proc EXCEPT ![p] =
                [@ EXCEPT !.at = "done", !.result = result]]

(* RunCli: the user runs a command. *)
RunCli(p) ==
  /\ proc[p].at = "idle"
  /\ \E c \in Commands :
       \E s \in (IF c = "switch" THEN Screens \cup {None} ELSE {None}),
          i \in (IF c = "switch" THEN Ids ELSE {Fresh.id}) :
         proc' = [proc EXCEPT ![p] =
                    [Fresh EXCEPT !.cmd = c, !.screen = s, !.id = i,
                       !.at = IF c \in {"stop", "restart"} THEN "call"
                                                           ELSE "load"]]
  /\ UNCHANGED <<files, manager, edits, blame>>

(* The exit status was seen; the process is gone. *)
Return(p) ==
  /\ proc[p].at = "done"
  /\ proc' = [proc EXCEPT ![p] = Fresh]
  /\ UNCHANGED <<files, manager, edits, blame>>

(* Every command that needs the config starts by reading it. *)
LoadConfig(p) ==
  /\ proc[p].at = "load"
  /\ proc[p].cmd # "switch"
  /\ proc' = [proc EXCEPT ![p] =
                [@ EXCEPT !.cfg = Load,
                          !.at = CASE proc[p].cmd = "start"    -> "install"
                                   [] proc[p].cmd = "selftest" -> "save"
                                   [] OTHER                      -> "state"]]
  /\ UNCHANGED <<files, manager, edits, blame>>

(* CmdSwitch up to its ApplyConfig: read the config, look the id up in the *)
(* library, choose the screen, edit the copy.                              *)
CmdSwitch(p) ==
  LET me == proc[p]
      target == IF me.screen = None THEN DefaultScreenFor(Load) ELSE me.screen
  IN
  /\ me.at = "load"
  /\ me.cmd = "switch"
  /\ IF me.id \in Library
       THEN proc' = [proc EXCEPT ![p] =
                       [@ EXCEPT !.cfg = AssignScreen(Load, target, me.id),
                                 !.screen = target,
                                 !.at = "save"]]
       ELSE Exit(p, "load", "fail")
  /\ UNCHANGED <<files, manager, edits, blame>>

(* Config::Save *)
Save(p) ==
  /\ \/ proc[p].cmd = "switch" /\ Goto(p, "save", "install")
     \/ proc[p].cmd = "selftest" /\ Exit(p, "save", "ok")
  /\ config' = proc[p].cfg
  /\ UNCHANGED <<unitFile, manager, edits, blame>>

SaveFails(p) ==
  /\ Exit(p, "save", "FileError")
  /\ UNCHANGED <<files, manager, edits, blame>>

(* Faulty variant: the engine's rules are not looked at before the write. *)
InstallUnchecked(p) ==
  /\ Goto(p, "install", "reload")
  /\ unitFile' = proc[p].cfg
  /\ blame' = FALSE
  /\ UNCHANGED <<config, manager, edits>>

(* unit_file::Install writes the unit only if the engine would take it. *)
Install(p) ==
  /\ Goto(p, "install", "reload")
  /\ Valid(proc[p].cfg)
  /\ unitFile' = proc[p].cfg
  /\ blame' = FALSE
  /\ UNCHANGED <<config, manager, edits>>

(* Faulty variant: the refusal is not passed on to the caller. *)
InstallSwallowed(p) ==
  /\ ~Valid(proc[p].cfg)
  /\ Goto(p, "install", "reload")
  /\ UNCHANGED <<files, manager, edits, blame>>

(* It refuses the config, or the write fails.  A switch has saved its      *)
(* config by now: from here on the two files disagree, and the exit status *)
(* says that something went wrong.                                         *)
InstallFails(p) ==
  /\ \/ ~Valid(proc[p].cfg) /\ Exit(p, "install", "InvalidInput")
     \/ Valid(proc[p].cfg) /\ Exit(p, "install", "FileError")
  /\ blame' = (blame \/ proc[p].cmd = "switch")
  /\ UNCHANGED <<files, manager, edits>>

(* Faulty variant: the apply chain goes straight to the restart. *)
ReloadForgotten(p) ==
  /\ Goto(p, "reload", "call")
  /\ UNCHANGED <<files, manager, edits, blame>>

(* systemd::DaemonReload: the manager rereads the files of the units it has *)
(* loaded.  The reply may be an error although the reload was done.         *)
DaemonReload(p) ==
  /\ Goto(p, "reload", "call") \/ Exit(p, "reload", "BusError")
  /\ loaded' = IF loaded = None THEN None ELSE unitFile
  /\ UNCHANGED <<files, active, job, running, edits, blame>>

(* The manager's job queue holds one job per unit; "replace" lets the new  *)
(* one win, except that starting adds nothing to a queued restart.         *)
Enqueue(new) == job' = IF new = "start" /\ job = "restart" THEN job ELSE new

(* Faulty variant: an engine that runs is left to itself. *)
AlwaysStart(cmd) == "start"

(* engine_unit::StartUnit for start, RestartUnit for restart and switch. *)
Method(cmd) == IF cmd = "start" THEN "start" ELSE "restart"

(* systemd::Start and Restart: the manager loads the unit if it is not, and *)
(* queues the job.  That is all the reply says.                             *)
StartOrRestart(p) ==
  LET unit == IF loaded = None THEN unitFile ELSE loaded IN
  /\ proc[p].cmd \in {"start", "restart", "switch"}
  /\ unit # None
  /\ Exit(p, "call", "ok") \/ Exit(p, "call", "BusError")
  /\ loaded' = unit
  /\ Enqueue(Method(proc[p].cmd))
  /\ UNCHANGED <<files, active, running, edits, blame>>

(* systemd::Stop of a loaded unit. *)
StopUnit(p) ==
  /\ proc[p].cmd = "stop"
  /\ loaded # None
  /\ Exit(p, "call", "ok") \/ Exit(p, "call", "BusError")
  /\ Enqueue("stop")
  /\ UNCHANGED <<files, loaded, active, running, edits, blame>>

(* Faulty variant: every error of a stop counts as "was not loaded". *)
TolerateAll(p) == proc[p].cmd = "stop"

(* systemd::Tolerated: only a stop of a unit that is not loaded is what the *)
(* caller wanted all along.                                                 *)
Tolerated(p) == proc[p].cmd = "stop" /\ loaded = None

(* The bus cannot be reached, or the manager answers with an error and has *)
(* done nothing (NoSuchUnit among others).                                 *)
BusFails(p) ==
  /\ \/ Exit(p, "reload", "BusError")
     \/ Exit(p, "call", IF Tolerated(p) THEN "ok" ELSE "BusError")
     \/ Exit(p, "call", "BusError")
  /\ UNCHANGED <<files, manager, edits, blame>>

(* CmdStatus: the manager's state first, then the unit file; a unit file   *)
(* without wallpapers is answered with config.json's.                      *)
StatusState(p) ==
  /\ proc[p].at = "state"
  /\ \E s \in {active, "unknown"} :
       proc' = [proc EXCEPT ![p] = [@ EXCEPT !.state = s, !.at = "unitfile"]]
  /\ UNCHANGED <<files, manager, edits, blame>>

StatusScreens(p) ==
  /\ proc[p].at = "unitfile"
  /\ LET shown == IF Backgrounds = NoScreens THEN proc[p].cfg.screens
                                              ELSE Backgrounds
     IN proc' = [proc EXCEPT ![p] =
                   [@ EXCEPT !.cfg = [proc[p].cfg EXCEPT !.screens = shown],
                             !.at = "done"]]
  /\ UNCHANGED <<files, manager, edits, blame>>

(* The process is killed between two steps. *)
Killed(p) ==
  /\ ~Idle(p)
  /\ Exit(p, proc[p].at, "killed")
  /\ blame' = (blame \/ (proc[p].cmd = "switch" /\ proc[p].at = "install"))
  /\ UNCHANGED <<files, manager, edits>>

Cli(p) ==
  \/ RunCli(p) \/ Return(p) \/ LoadConfig(p) \/ CmdSwitch(p)
  \/ Save(p) \/ SaveFails(p) \/ Install(p) \/ InstallFails(p)
  \/ DaemonReload(p) \/ StartOrRestart(p) \/ StopUnit(p) \/ BusFails(p)
  \/ StatusState(p) \/ StatusScreens(p) \/ Killed(p)

-----------------------------------------------------------------------------
(* The user's editor. *)
HandEdit ==
  /\ \A p \in Procs : Idle(p) /\ proc[p].at = "idle"
  /\ edits < MaxEdits
  /\ \/ config' \in Configs \cup {Corrupt} /\ UNCHANGED unitFile
     \/ unitFile' \in {c \in Configs : Valid(c)} /\ UNCHANGED config
  /\ edits' = edits + 1
  /\ blame' = (Load.screens # Backgrounds)'
  /\ UNCHANGED <<manager, proc>>

-----------------------------------------------------------------------------
(* The systemd user manager and the engine: external, as the code uses them. *)

(* A start of a running unit is done already; one of a unit waiting for its *)
(* automatic restart waits with it; otherwise the engine is started from    *)
(* the loaded unit, unless the start limit was hit.                         *)
RunStart ==
  /\ job = "start"
  /\ active # "activating"
  /\ \/ active = "active" /\ UNCHANGED <<active, running>>
     \/ active # "active" /\ active' = "active" /\ running' = loaded
     \/ active # "active" /\ active' = "failed" /\ UNCHANGED running
  /\ job' = "none"
  /\ UNCHANGED <<files, loaded, proc, edits, blame>>

(* The stopping half of a restart; the starting half stays queued. *)
RunRestart ==
  /\ job = "restart"
  /\ active' = "inactive"
  /\ running' = None
  /\ job' = "start"
  /\ UNCHANGED <<files, loaded, proc, edits, blame>>

RunStop ==
  /\ job = "stop"
  /\ active' = IF active = "failed" THEN "failed" ELSE "inactive"
  /\ running' = None
  /\ job' = "none"
  /\ UNCHANGED <<files, loaded, proc, edits, blame>>

(* The engine fails (Restart=on-failure, RestartSec=3) or exits cleanly. *)
EngineEnds ==
  /\ running # None
  /\ running' = None
  /\ active' \in {"activating", "inactive"}
  /\ UNCHANGED <<files, loaded, job, proc, edits, blame>>

(* The restart timer: from the unit as it is loaded now. *)
AutoRestart ==
  /\ active = "activating"
  /\ job # "stop"
  /\ \/ active' = "active" /\ running' = loaded
     \/ active' = "failed" /\ UNCHANGED running
  /\ job' = IF job = "start" THEN "none" ELSE job
  /\ UNCHANGED <<files, loaded, proc, edits, blame>>

(* An inactive unit nobody refers to is unloaded. *)
Unload ==
  /\ active = "inactive"
  /\ job = "none"
  /\ loaded # None
  /\ loaded' = None
  /\ UNCHANGED <<files, active, job, running, proc, edits, blame>>

Manager ==
  RunStart \/ RunRestart \/ RunStop \/ EngineEnds \/ AutoRestart \/ Unload

Next == (\E p \in Procs : Cli(p)) \/ HandEdit \/ Manager

(* The manager works its queue off and its timers fire.  Nothing obliges a *)
(* user to run a command or an engine to end.                              *)
Fairness ==
  WF_vars(RunStart) /\ WF_vars(RunRestart) /\ WF_vars(RunStop)
  /\ WF_vars(AutoRestart)

Spec == Init /\ [][Next]_vars
FairSpec == Spec /\ Fairness

-----------------------------------------------------------------------------
(* Properties. *)

Succeeded(p, c) ==
  proc[p].at = "done" /\ proc[p].cmd = c /\ proc[p].result = "ok"

(* unit_file::Install: "an invocation the engine would refuse must fail     *)
(* here instead of installing a unit that dies on start".  No sequence of   *)
(* commands, hand-edited config or failure puts such a unit on disk or into *)
(* the manager.                                                             *)
InstalledIsStartable ==
  \A unit \in {unitFile, loaded, running} : unit \in Configs => Valid(unit)

(* ApplyConfig, "the one apply chain": when a switch that has the machine   *)
(* to itself exits 0, config, unit file and the manager's copy are the one  *)
(* it computed, and an engine of an older layout only lives while the       *)
(* restart is still queued.                                                 *)
SwitchApplied ==
  \A p \in Procs : Succeeded(p, "switch") =>
    /\ config = proc[p].cfg
    /\ unitFile = proc[p].cfg
    /\ loaded \in {proc[p].cfg, None}
    /\ running \in {proc[p].cfg, None} \/ job = "restart"

(* What doctor calls drift never comes about silently: between commands,    *)
(* config.json and the unit file differ only because a hand edit made them, *)
(* or after a switch whose exit status was not 0.                           *)
NoUnexplainedDrift ==
  (\A p \in Procs : Idle(p)) /\ Load.screens # Backgrounds => blame

(* StopUnit, tolerances included: when stop exits 0 either the stop is      *)
(* still queued or there is no engine and no automatic restart on its way.  *)
StopMeansStopped ==
  \A p \in Procs : Succeeded(p, "stop") =>
    job = "stop" \/ (running = None /\ active \in {"inactive", "failed"})

(* Two processes switching at once: whichever way their steps interleave,   *)
(* once both have succeeded and the queue is empty, the manager and the     *)
(* engine have what the unit file says.                                     *)
SwitchesConverge ==
  (\A p \in Procs : Succeeded(p, "switch")) /\ job = "none" =>
    /\ loaded \in {unitFile, None}
    /\ running \in {unitFile, None}

(* A switch that exits 0 comes into effect: the job it left queued ends in  *)
(* an engine with the new layout, unless the manager gives up on the unit   *)
(* or the user goes on to something else.                                   *)
SwitchTakesEffect ==
  \A p \in Procs :
    Succeeded(p, "switch") /\ job # "none" ~>
      running = proc[p].cfg \/ active = "failed" \/ ~Succeeded(p, "switch")

(* CmdStatus (cli.cpp:107-110): "the unit file is what systemd actually     *)
(* runs ... status tells the truth".                                        *)
StatusTellsTheTruth ==
  \A p \in Procs :
    Succeeded(p, "status") /\ proc[p].state = "active" /\ active = "active"
      => proc[p].cfg.screens = running.screens
=============================================================================
