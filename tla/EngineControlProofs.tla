------------------------- MODULE EngineControlProofs -------------------------
(***************************************************************************)
(* What the CLI's engine commands guarantee for every set of screens, ids  *)
(* and wallpapers, and any number of hand edits: with any number of        *)
(* processes at once, no unit the engine would refuse is ever installed;   *)
(* with one command at a time, the exit status of switch and of stop means *)
(* what it says, and drift has a cause.                                    *)
(***************************************************************************)
EXTENDS EngineControl, FiniteSetTheorems, TLAPS

(* The model's own values have the types its variables need. *)
LEMMA Typing ==
  /\ Fresh \in Process
  /\ Defaults \in Configs
  /\ NoScreens \in Layouts
  /\ None \notin Configs /\ Corrupt \notin Configs /\ None \notin Ids
  BY ConstantsAssumption
  DEF Fresh, Process, Commands, Steps, Results, Defaults, Configs, Layouts,
      NoScreens

(* What the pure parts return. *)
LEMMA PureTyping ==
  ASSUME TypeOK
  PROVE  /\ Load \in Configs
         /\ Backgrounds \in Layouts
         /\ DefaultScreenFor(Load) \in Screens
         /\ \A cfg \in Configs, s \in Screens, i \in Ids :
              AssignScreen(cfg, s, i) \in Configs
  <1>1. Load \in Configs
    BY Typing DEF Load
  <1>2. Backgrounds \in Layouts
    BY Typing DEF TypeOK, Backgrounds, Configs
  <1>3. DefaultScreenFor(Load) \in Screens
    BY ConstantsAssumption, FS_EmptySet DEF DefaultScreenFor
  <1>4. \A cfg \in Configs, s \in Screens, i \in Ids :
          AssignScreen(cfg, s, i) \in Configs
    BY DEF AssignScreen, Configs, Layouts
  <1> QED BY <1>1, <1>2, <1>3, <1>4

(* Replacing the record of one process by another leaves a family of them. *)
LEMMA Replaced ==
  ASSUME TypeOK, NEW p \in Procs, NEW r \in Process
  PROVE  [proc EXCEPT ![p] = r] \in [Procs -> Process]
  BY DEF TypeOK

(* So does moving one on, or ending it. *)
LEMMA ProcTyping ==
  ASSUME TypeOK, NEW p \in Procs, NEW from, NEW to \in Steps,
         NEW result \in Results
  PROVE  /\ Goto(p, from, to) => proc' \in [Procs -> Process]
         /\ Exit(p, from, result) => proc' \in [Procs -> Process]
  <1>1. [proc[p] EXCEPT !.at = to] \in Process
    BY DEF TypeOK, Process
  <1>2. [proc[p] EXCEPT !.at = "done", !.result = result] \in Process
    BY DEF TypeOK, Process, Steps
  <1>3. Goto(p, from, to) =>
          proc' = [proc EXCEPT ![p] = [proc[p] EXCEPT !.at = to]]
    BY DEF Goto, TypeOK
  <1>4. Exit(p, from, result) =>
          proc' = [proc EXCEPT ![p] =
                     [proc[p] EXCEPT !.at = "done", !.result = result]]
    BY DEF Exit
  <1> QED BY <1>1, <1>2, <1>3, <1>4, Replaced

(* TypeOK is inductive on its own, with any number of processes. *)
LEMMA TypeStep == ASSUME TypeOK, [Next]_vars PROVE TypeOK'
  <1> USE DEF TypeOK, files, manager
  <1>1. ASSUME NEW p \in Procs, RunCli(p) PROVE TypeOK'
    <2>1. PICK c \in Commands :
            \E s \in (IF c = "switch" THEN Screens \cup {None} ELSE {None}),
               i \in (IF c = "switch" THEN Ids ELSE {Fresh.id}) :
              proc' = [proc EXCEPT ![p] =
                         [Fresh EXCEPT !.cmd = c, !.screen = s, !.id = i,
                            !.at = IF c \in {"stop", "restart"} THEN "call"
                                                                ELSE "load"]]
      BY <1>1 DEF RunCli
    <2>2. PICK s \in Screens \cup {None}, i \in Ids :
            proc' = [proc EXCEPT ![p] =
                       [Fresh EXCEPT !.cmd = c, !.screen = s, !.id = i,
                          !.at = IF c \in {"stop", "restart"} THEN "call"
                                                              ELSE "load"]]
      BY <2>1, Typing DEF Process
    <2>3. [Fresh EXCEPT !.cmd = c, !.screen = s, !.id = i,
             !.at = IF c \in {"stop", "restart"} THEN "call" ELSE "load"]
            \in Process
      BY Typing DEF Process, Steps
    <2>4. proc' \in [Procs -> Process]
      BY <2>2, <2>3
    <2> QED BY <1>1, <2>4 DEF RunCli
  <1>2. ASSUME NEW p \in Procs, Return(p) PROVE TypeOK'
    BY <1>2, Typing DEF Return
  <1>3. ASSUME NEW p \in Procs, LoadConfig(p) PROVE TypeOK'
    <2> DEFINE to == CASE proc[p].cmd = "start"    -> "install"
                       [] proc[p].cmd = "selftest" -> "save"
                       [] OTHER                      -> "state"
    <2>1. to \in Steps
      BY DEF Steps
    <2>2. [proc[p] EXCEPT !.cfg = Load, !.at = to] \in Process
      BY <2>1, PureTyping DEF Process
    <2>3. proc' = [proc EXCEPT ![p] = [proc[p] EXCEPT !.cfg = Load, !.at = to]]
      BY <1>3 DEF LoadConfig
    <2>4. proc' \in [Procs -> Process]
      BY <2>2, <2>3, Replaced
    <2> QED BY <1>3, <2>4 DEF LoadConfig
  <1>4. ASSUME NEW p \in Procs, CmdSwitch(p) PROVE TypeOK'
    <2> DEFINE me == proc[p]
               target == IF me.screen = None THEN DefaultScreenFor(Load)
                                             ELSE me.screen
    <2>1. AssignScreen(Load, target, me.id) \in Configs /\ target \in Screens
      BY PureTyping DEF Process
    <2>2. [me EXCEPT !.cfg = AssignScreen(Load, target, me.id),
                     !.screen = target, !.at = "save"] \in Process
      BY <2>1 DEF Process, Steps
    <2>3. proc' \in [Procs -> Process]
      BY <1>4, <2>2, Replaced, ProcTyping DEF CmdSwitch, Steps, Results
    <2> QED BY <1>4, <2>3 DEF CmdSwitch
  <1>5. ASSUME NEW p \in Procs, Save(p) PROVE TypeOK'
    <2>1. proc' \in [Procs -> Process]
      BY <1>5, ProcTyping DEF Save, Steps, Results
    <2> QED BY <1>5, <2>1 DEF Save, Process
  <1>6. ASSUME NEW p \in Procs, SaveFails(p) PROVE TypeOK'
    <2>1. proc' \in [Procs -> Process]
      BY <1>6, ProcTyping DEF SaveFails, Steps, Results
    <2> QED BY <1>6, <2>1 DEF SaveFails
  <1>7. ASSUME NEW p \in Procs, Install(p) PROVE TypeOK'
    <2>1. proc' \in [Procs -> Process]
      BY <1>7, ProcTyping DEF Install, Steps, Results
    <2> QED BY <1>7, <2>1 DEF Install, Process
  <1>8. ASSUME NEW p \in Procs, InstallFails(p) PROVE TypeOK'
    <2>1. proc' \in [Procs -> Process]
      BY <1>8, ProcTyping DEF InstallFails, Steps, Results
    <2> QED BY <1>8, <2>1 DEF InstallFails
  <1>9. ASSUME NEW p \in Procs, DaemonReload(p) PROVE TypeOK'
    <2>1. proc' \in [Procs -> Process]
      BY <1>9, ProcTyping DEF DaemonReload, Steps, Results
    <2> QED BY <1>9, <2>1 DEF DaemonReload
  <1>10. ASSUME NEW p \in Procs, StartOrRestart(p) PROVE TypeOK'
    <2>1. proc' \in [Procs -> Process]
      BY <1>10, ProcTyping DEF StartOrRestart, Steps, Results
    <2> QED BY <1>10, <2>1 DEF StartOrRestart, Enqueue, Method
  <1>11. ASSUME NEW p \in Procs, StopUnit(p) PROVE TypeOK'
    <2>1. proc' \in [Procs -> Process]
      BY <1>11, ProcTyping DEF StopUnit, Steps, Results
    <2> QED BY <1>11, <2>1 DEF StopUnit, Enqueue
  <1>12. ASSUME NEW p \in Procs, BusFails(p) PROVE TypeOK'
    <2>1. proc' \in [Procs -> Process]
      BY <1>12, ProcTyping DEF BusFails, Steps, Results
    <2> QED BY <1>12, <2>1 DEF BusFails
  <1>13. ASSUME NEW p \in Procs, StatusState(p) PROVE TypeOK'
    <2>1. PICK s \in {active, "unknown"} :
            proc' = [proc EXCEPT ![p] = [@ EXCEPT !.state = s, !.at = "unitfile"]]
      BY <1>13 DEF StatusState
    <2>2. [proc[p] EXCEPT !.state = s, !.at = "unitfile"] \in Process
      BY DEF Process, Steps
    <2>3. proc' \in [Procs -> Process]
      BY <2>1, <2>2, Replaced
    <2> QED BY <1>13, <2>3 DEF StatusState
  <1>14. ASSUME NEW p \in Procs, StatusScreens(p) PROVE TypeOK'
    <2>1. PICK shown \in Layouts :
            proc' = [proc EXCEPT ![p] =
                       [proc[p] EXCEPT
                          !.cfg = [proc[p].cfg EXCEPT !.screens = shown],
                          !.at = "done"]]
      BY <1>14, PureTyping DEF StatusScreens, Process, Configs
    <2>2. [proc[p].cfg EXCEPT !.screens = shown] \in Configs
      BY DEF Process, Configs
    <2>3. [proc[p] EXCEPT !.cfg = [proc[p].cfg EXCEPT !.screens = shown],
                          !.at = "done"] \in Process
      BY <2>2 DEF Process, Steps
    <2>4. proc' \in [Procs -> Process]
      BY <2>1, <2>3, Replaced
    <2> QED BY <1>14, <2>4 DEF StatusScreens
  <1>15. ASSUME NEW p \in Procs, Killed(p) PROVE TypeOK'
    <2>1. proc' \in [Procs -> Process]
      BY <1>15, ProcTyping DEF Killed, Steps, Results
    <2> QED BY <1>15, <2>1 DEF Killed
  <1>16. CASE HandEdit
    BY <1>16, ConstantsAssumption DEF HandEdit
  <1>17. CASE Manager
    BY <1>17 DEF Manager, RunStart, RunRestart, RunStop, EngineEnds,
                 AutoRestart, Unload
  <1>18. CASE UNCHANGED vars
    BY <1>18 DEF vars
  <1> QED
    BY <1>1, <1>2, <1>3, <1>4, <1>5, <1>6, <1>7, <1>8, <1>9, <1>10, <1>11,
       <1>12, <1>13, <1>14, <1>15, <1>16, <1>17, <1>18 DEF Next, Cli

(* Every variable keeps its type, whatever the processes, the user and the *)
(* manager do.                                                             *)
THEOREM TypeCorrect == Spec => []TypeOK
  <1>1. Init => TypeOK
    <2> SUFFICES ASSUME Init PROVE TypeOK
      OBVIOUS
    <2>1. proc \in [Procs -> Process]
      BY Typing DEF Init
    <2>2. edits \in 0..MaxEdits
      BY ConstantsAssumption DEF Init
    <2> QED BY <2>1, <2>2 DEF Init, TypeOK
  <1>2. TypeOK /\ [Next]_vars => TypeOK'
    BY TypeStep
  <1> QED BY <1>1, <1>2, PTL DEF Spec

-----------------------------------------------------------------------------
(* With any number of processes. *)

(* A unit that is not loaded has nothing queued and nothing running, and a *)
(* loaded one has its file: so that a start, a reload and a timer of the   *)
(* manager always have a unit to take.                                     *)
ManagerInv ==
  /\ loaded = None => job = "none" /\ running = None /\ active = "inactive"
  /\ loaded # None => unitFile # None
  /\ running # None => active = "active"

(* Units travel from the file to the manager to the engine, and the file   *)
(* only gets what Validate accepts.                                        *)
LEMMA StartableStep ==
  ASSUME TypeOK, InstalledIsStartable, [Next]_vars
  PROVE  InstalledIsStartable'
  <1> USE Typing DEF TypeOK, InstalledIsStartable, files, manager
  <1>1. ASSUME NEW p \in Procs, Cli(p) PROVE InstalledIsStartable'
    BY <1>1 DEF Cli, RunCli, Return, LoadConfig, CmdSwitch, Save, SaveFails,
                Install, InstallFails, DaemonReload, StartOrRestart, StopUnit,
                BusFails, StatusState, StatusScreens, Killed
  <1>2. CASE HandEdit
    BY <1>2 DEF HandEdit
  <1>3. CASE Manager
    BY <1>3 DEF Manager, RunStart, RunRestart, RunStop, EngineEnds,
                AutoRestart, Unload
  <1>4. CASE UNCHANGED vars
    BY <1>4 DEF vars
  <1> QED BY <1>1, <1>2, <1>3, <1>4 DEF Next

(* What the manager has loaded and what runs stay in step with its state. *)
LEMMA ManagerStep ==
  ASSUME TypeOK, ManagerInv, [Next]_vars
  PROVE  ManagerInv'
  <1> USE Typing DEF TypeOK, ManagerInv, files, manager
  <1>1. ASSUME NEW p \in Procs, Cli(p) PROVE ManagerInv'
    <2>1. CASE Install(p)
      BY <1>1, <2>1 DEF Install, Process
    <2>2. CASE StartOrRestart(p)
      BY <1>1, <2>2 DEF StartOrRestart, Enqueue
    <2> QED
      BY <1>1, <2>1, <2>2
      DEF Cli, RunCli, Return, LoadConfig, CmdSwitch, Save, SaveFails,
          InstallFails, DaemonReload, StopUnit, Enqueue, BusFails,
          StatusState, StatusScreens, Killed
  <1>2. CASE HandEdit
    BY <1>2 DEF HandEdit
  <1>3. CASE Manager
    BY <1>3 DEF Manager, RunStart, RunRestart, RunStop, EngineEnds,
                AutoRestart, Unload
  <1>4. CASE UNCHANGED vars
    BY <1>4 DEF vars
  <1> QED BY <1>1, <1>2, <1>3, <1>4 DEF Next

(* What holds in every state, with any number of processes. *)
SharedInv == TypeOK /\ InstalledIsStartable /\ ManagerInv

(* What holds of the files and of the manager in every state. *)
LEMMA SharedInvariant == Spec => []SharedInv
  <1>1. Init => InstalledIsStartable /\ ManagerInv
    BY Typing DEF Init, InstalledIsStartable, ManagerInv
  <1>2. SharedInv /\ [Next]_vars => SharedInv'
    BY TypeStep, StartableStep, ManagerStep DEF SharedInv
  <1> QED BY <1>1, <1>2, TypeCorrect, PTL DEF Spec, SharedInv

(* unit_file::Install: whatever the commands, the editor and the failures  *)
(* do, and however many processes there are, no unit the engine would      *)
(* refuse is on disk, in the manager or running.                           *)
THEOREM NothingRefusedIsInstalled == Spec => []InstalledIsStartable
  BY SharedInvariant, PTL DEF SharedInv

-----------------------------------------------------------------------------
(* What a step makes of a process. *)

(* Where each step of a command is reached from. *)
Reached(me) ==
  /\ me.at = "save" => me.cmd \in {"switch", "selftest"}
  /\ me.at \in {"install", "reload"} => me.cmd \in {"start", "switch"}
  /\ me.at \in {"state", "unitfile"} => me.cmd = "status"
  /\ me.at = "load" => me.cmd \in {"start", "selftest", "status", "switch"}

ReachedInv == \A p \in Procs : Reached(proc[p])

(* What a step to another control point leaves of a process. *)
LEMMA Moved ==
  ASSUME TypeOK, NEW p \in Procs, NEW from, NEW to, Goto(p, from, to)
  PROVE  /\ proc[p].at = from /\ proc'[p].at = to
         /\ proc'[p].cmd = proc[p].cmd /\ proc'[p].cfg = proc[p].cfg
         /\ proc'[p].result = proc[p].result
  <1>1. proc \in [Procs -> Process] /\ proc[p] \in Process
    BY DEF TypeOK
  <1>2. proc'[p] = [proc[p] EXCEPT !.at = to]
    BY <1>1 DEF Goto
  <1> QED BY <1>1, <1>2 DEF Process, Goto

(* What an exit leaves of it. *)
LEMMA Exited ==
  ASSUME TypeOK, NEW p \in Procs, NEW from, NEW result, Exit(p, from, result)
  PROVE  /\ proc[p].at = from /\ proc'[p].at = "done"
         /\ proc'[p].cmd = proc[p].cmd /\ proc'[p].cfg = proc[p].cfg
         /\ proc'[p].result = result
  <1>1. proc \in [Procs -> Process] /\ proc[p] \in Process
    BY DEF TypeOK
  <1>2. proc'[p] = [proc[p] EXCEPT !.at = "done", !.result = result]
    BY <1>1 DEF Exit
  <1> QED BY <1>1, <1>2 DEF Process, Exit

(* What becomes of the process that moves, of any command. *)
LEMMA ReachedStep ==
  ASSUME TypeOK, ReachedInv, [Next]_vars
  PROVE  ReachedInv'
  <1> USE DEF Reached
  <1>a. ASSUME NEW p \in Procs
        PROVE  Reached(proc[p]) /\ proc[p] \in Process
    BY DEF ReachedInv, TypeOK
  <1>b. ASSUME NEW p \in Procs, NEW r, proc' = [proc EXCEPT ![p] = r],
               Reached(r)
        PROVE  ReachedInv'
    BY <1>b DEF ReachedInv, TypeOK
  <1>c. ASSUME NEW p \in Procs, NEW from, NEW to, Goto(p, from, to),
               Reached([proc[p] EXCEPT !.at = to])
        PROVE  ReachedInv'
    BY <1>b, <1>c DEF Goto
  <1>d. ASSUME NEW p \in Procs, NEW from, NEW result, Exit(p, from, result)
        PROVE  ReachedInv'
    <2>1. Reached([proc[p] EXCEPT !.at = "done", !.result = result])
      BY <1>a DEF Process
    <2> QED BY <1>b, <1>d, <2>1 DEF Exit
  <1>1. ASSUME NEW p \in Procs, RunCli(p) PROVE ReachedInv'
    <2>1. PICK c \in Commands :
            \E s, i :
              proc' = [proc EXCEPT ![p] =
                         [Fresh EXCEPT !.cmd = c, !.screen = s, !.id = i,
                            !.at = IF c \in {"stop", "restart"} THEN "call"
                                                                ELSE "load"]]
      BY <1>1 DEF RunCli
    <2>2. PICK s, i :
            proc' = [proc EXCEPT ![p] =
                       [Fresh EXCEPT !.cmd = c, !.screen = s, !.id = i,
                          !.at = IF c \in {"stop", "restart"} THEN "call"
                                                              ELSE "load"]]
      BY <2>1
    <2>3. Reached([Fresh EXCEPT !.cmd = c, !.screen = s, !.id = i,
                     !.at = IF c \in {"stop", "restart"} THEN "call"
                                                         ELSE "load"])
      BY DEF Fresh, Commands
    <2> QED BY <1>b, <2>2, <2>3
  <1>2. ASSUME NEW p \in Procs, Return(p) PROVE ReachedInv'
    BY <1>2, <1>b DEF Return, Fresh
  <1>3. ASSUME NEW p \in Procs, LoadConfig(p) PROVE ReachedInv'
    <2> DEFINE to == CASE proc[p].cmd = "start"    -> "install"
                       [] proc[p].cmd = "selftest" -> "save"
                       [] OTHER                      -> "state"
    <2>1. proc' = [proc EXCEPT ![p] = [proc[p] EXCEPT !.cfg = Load, !.at = to]]
      BY <1>3 DEF LoadConfig
    <2>2. proc[p].cmd \in {"start", "selftest", "status"}
      BY <1>3, <1>a DEF LoadConfig
    <2>3. Reached([proc[p] EXCEPT !.cfg = Load, !.at = to])
      BY <1>a, <2>2 DEF Process
    <2> QED BY <1>b, <2>1, <2>3
  <1>4. ASSUME NEW p \in Procs, CmdSwitch(p) PROVE ReachedInv'
    <2>1. CASE Exit(p, "load", "fail")
      BY <1>d, <2>1
    <2>2. CASE ~Exit(p, "load", "fail")
      <3>1. PICK target :
              proc' = [proc EXCEPT ![p] =
                [proc[p] EXCEPT !.cfg = AssignScreen(Load, target, proc[p].id),
                                !.screen = target, !.at = "save"]]
        BY <1>4, <2>2 DEF CmdSwitch
      <3>2. Reached([proc[p] EXCEPT
                       !.cfg = AssignScreen(Load, target, proc[p].id),
                       !.screen = target, !.at = "save"])
        BY <1>a, <1>4 DEF Process, CmdSwitch
      <3> QED BY <1>b, <3>1, <3>2
    <2> QED BY <2>1, <2>2
  <1>5. ASSUME NEW p \in Procs, Save(p) PROVE ReachedInv'
    BY <1>5, <1>a, <1>c, <1>d DEF Save, Process
  <1>6. ASSUME NEW p \in Procs, Install(p) PROVE ReachedInv'
    BY <1>6, <1>a, <1>c DEF Install, Goto, Process
  <1>7. ASSUME NEW p \in Procs, DaemonReload(p) PROVE ReachedInv'
    <2>1. Reached([proc[p] EXCEPT !.at = "call"])
      BY <1>a DEF Process
    <2> QED BY <1>7, <2>1, <1>c, <1>d DEF DaemonReload
  <1>8. ASSUME NEW p \in Procs, StatusState(p) PROVE ReachedInv'
    <2>1. PICK s :
            proc' = [proc EXCEPT ![p] =
                       [proc[p] EXCEPT !.state = s, !.at = "unitfile"]]
      BY <1>8 DEF StatusState
    <2>2. Reached([proc[p] EXCEPT !.state = s, !.at = "unitfile"])
      BY <1>a, <1>8 DEF Process, StatusState
    <2> QED BY <1>b, <2>1, <2>2
  <1>9. ASSUME NEW p \in Procs, StatusScreens(p) PROVE ReachedInv'
    <2>1. PICK cfg :
            proc' = [proc EXCEPT ![p] =
                       [proc[p] EXCEPT !.cfg = cfg, !.at = "done"]]
      BY <1>9 DEF StatusScreens
    <2>2. Reached([proc[p] EXCEPT !.cfg = cfg, !.at = "done"])
      BY <1>a DEF Process
    <2> QED BY <1>b, <2>1, <2>2
  <1>10. ASSUME NEW p \in Procs,
                \/ SaveFails(p) \/ InstallFails(p) \/ StartOrRestart(p)
                \/ StopUnit(p) \/ BusFails(p) \/ Killed(p)
         PROVE  ReachedInv'
    <2>1. \E from, result : Exit(p, from, result)
      BY <1>10 DEF SaveFails, InstallFails, StartOrRestart, StopUnit, BusFails,
                   Killed
    <2> QED BY <1>d, <2>1
  <1>11. CASE HandEdit \/ Manager \/ UNCHANGED vars
    BY <1>11 DEF ReachedInv, HandEdit, Manager, RunStart, RunRestart, RunStop,
                 EngineEnds, AutoRestart, Unload, vars
  <1> QED BY <1>1, <1>2, <1>3, <1>4, <1>5, <1>6, <1>7, <1>8, <1>9, <1>10,
             <1>11 DEF Next, Cli

-----------------------------------------------------------------------------
(* With any number of switches at once. *)

(* The switch of p has had the manager reread the unit file since it wrote *)
(* it, and nothing went wrong so far.                                      *)
Reloaded(p) ==
  /\ proc[p].cmd = "switch"
  /\ proc[p].at = "call" \/ (proc[p].at = "done" /\ proc[p].result = "ok")

(* Once all have, the last writer of the unit file has: the manager has    *)
(* what is in it, and an engine that does not is about to be restarted, if *)
(* need be by the call that one of them still has to make.                 *)
ConvergeInv ==
  /\ Procs = {} => loaded = None
  /\ (\A p \in Procs : Reloaded(p)) =>
       /\ loaded \in {unitFile, None}
       /\ \/ running \in {unitFile, None}
          \/ job = "restart"
          \/ \E p \in Procs : proc[p].at = "call"

(* An action that does not end with p having reloaded keeps ConvergeInv.   *)
LEMMA StillReloading ==
  ASSUME ConvergeInv, NEW p \in Procs, ~Reloaded(p)'
  PROVE  ConvergeInv'
  BY DEF ConvergeInv

(* A reload, a queued restart and whatever the manager makes of it bring   *)
(* manager and engine closer to the unit file; nothing takes them away.    *)
LEMMA ConvergeStep ==
  ASSUME SharedInv, ReachedInv, ConvergeInv, [Next]_vars
  PROVE  ConvergeInv'
  <1> USE DEF files, manager
  <1>0. TypeOK /\ ManagerInv
    BY DEF SharedInv
  <1>a. ASSUME NEW p \in Procs PROVE Reached(proc[p]) /\ proc[p] \in Process
    BY <1>0 DEF ReachedInv, TypeOK
  <1>1. ASSUME NEW p \in Procs, RunCli(p) PROVE ConvergeInv'
    <2>1. PICK c \in Commands :
            \E s, i :
              proc' = [proc EXCEPT ![p] =
                         [Fresh EXCEPT !.cmd = c, !.screen = s, !.id = i,
                            !.at = IF c \in {"stop", "restart"} THEN "call"
                                                                ELSE "load"]]
      BY <1>1 DEF RunCli
    <2>2. /\ proc'[p].cmd = c
          /\ proc'[p].at = IF c \in {"stop", "restart"} THEN "call" ELSE "load"
      BY <1>0, <2>1 DEF TypeOK, Fresh
    <2> QED BY <2>2, StillReloading DEF Reloaded
  <1>2. ASSUME NEW p \in Procs, Return(p) PROVE ConvergeInv'
    BY <1>0, <1>2, StillReloading DEF Return, TypeOK, Fresh, Reloaded
  <1>3. ASSUME NEW p \in Procs, LoadConfig(p) \/ StatusState(p)
        PROVE  ConvergeInv'
    <2>1. proc'[p].at \notin {"call", "done"}
      BY <1>0, <1>3, <1>a DEF LoadConfig, StatusState, TypeOK, Process
    <2> QED BY <2>1, StillReloading DEF Reloaded
  <1>4. ASSUME NEW p \in Procs, StatusScreens(p) PROVE ConvergeInv'
    <2>1. proc[p].cmd = "status"
      BY <1>4, <1>a DEF StatusScreens, Reached
    <2>2. proc'[p].cmd = "status"
      BY <1>0, <1>4, <1>a, <2>1 DEF StatusScreens, TypeOK, Process
    <2> QED BY <2>2, StillReloading DEF Reloaded
  <1>5. ASSUME NEW p \in Procs, CmdSwitch(p) PROVE ConvergeInv'
    <2>1. CASE Exit(p, "load", "fail")
      BY <1>0, <2>1, Exited, StillReloading DEF Reloaded
    <2>2. CASE ~Exit(p, "load", "fail")
      <3>1. proc'[p].at = "save"
        BY <1>0, <1>5, <2>2, <1>a DEF CmdSwitch, TypeOK, Process
      <3> QED BY <3>1, StillReloading DEF Reloaded
    <2> QED BY <2>1, <2>2
  <1>6. ASSUME NEW p \in Procs, Save(p) PROVE ConvergeInv'
    BY <1>0, <1>6, Moved, Exited, StillReloading DEF Save, Reloaded
  <1>7. ASSUME NEW p \in Procs, Install(p) PROVE ConvergeInv'
    BY <1>0, <1>7, Moved, StillReloading DEF Install, Reloaded
  <1>8. ASSUME NEW p \in Procs,
               \/ SaveFails(p) \/ InstallFails(p) \/ Killed(p)
        PROVE  ConvergeInv'
    <2>1. \E from : \E result \in {"FileError", "InvalidInput", "killed"} :
            Exit(p, from, result)
      BY <1>8 DEF SaveFails, InstallFails, Killed
    <2> QED BY <1>0, <2>1, Exited, StillReloading DEF Reloaded
  <1>9. ASSUME NEW p \in Procs, StopUnit(p) PROVE ConvergeInv'
    BY <1>0, <1>9, Exited, StillReloading DEF StopUnit, Reloaded
  <1>10. ASSUME NEW p \in Procs, BusFails(p) PROVE ConvergeInv'
    BY <1>0, <1>10, Exited, StillReloading DEF BusFails, Tolerated, Reloaded
  <1>11. ASSUME NEW p \in Procs, DaemonReload(p) PROVE ConvergeInv'
    <2>1. CASE Exit(p, "reload", "BusError")
      BY <1>0, <2>1, Exited, StillReloading DEF Reloaded
    <2>2. CASE Goto(p, "reload", "call")
      <3>1. proc'[p].at = "call"
        BY <1>0, <2>2, Moved
      <3>2. loaded' \in {unitFile, None} /\ unitFile' = unitFile
        BY <1>11 DEF DaemonReload
      <3> QED BY <3>1, <3>2 DEF ConvergeInv
    <2> QED BY <1>11, <2>1, <2>2 DEF DaemonReload
  <1>12. ASSUME NEW p \in Procs, StartOrRestart(p) PROVE ConvergeInv'
    <2>1. CASE ~Reloaded(p)'
      BY <2>1, StillReloading
    <2>2. CASE Reloaded(p)'
      <3>0. PICK result : Exit(p, "call", result)
        BY <1>12 DEF StartOrRestart
      <3>1. /\ proc[p].at = "call" /\ proc[p].cmd = "switch"
            /\ \A q \in Procs : q # p => proc'[q] = proc[q]
        <4>1. proc[p].at = "call" /\ proc[p].cmd = "switch"
          BY <1>0, <2>2, <3>0, Exited DEF Reloaded
        <4>2. \A q \in Procs : q # p => proc'[q] = proc[q]
          BY <1>0, <3>0 DEF Exit, TypeOK
        <4> QED BY <4>1, <4>2
      <3>2. job' = "restart"
        BY <1>12, <3>1 DEF StartOrRestart, Enqueue, Method
      <3>3. (\A q \in Procs : Reloaded(q)') => \A q \in Procs : Reloaded(q)
        BY <3>1 DEF Reloaded
      <3> QED BY <1>12, <3>2, <3>3 DEF ConvergeInv, StartOrRestart
    <2> QED BY <2>1, <2>2
  <1>13. CASE HandEdit
    <2>1. CASE Procs = {}
      BY <1>0, <1>13, <2>1 DEF HandEdit, ConvergeInv, ManagerInv
    <2>2. CASE Procs # {}
      <3>1. PICK p \in Procs : proc[p].at = "idle" /\ proc' = proc
        BY <1>13, <2>2 DEF HandEdit
      <3> QED BY <3>1, StillReloading DEF Reloaded
    <2> QED BY <2>1, <2>2
  <1>14. CASE Manager
    <2>1. proc' = proc /\ unitFile' = unitFile
      BY <1>14 DEF Manager, RunStart, RunRestart, RunStop, EngineEnds,
                   AutoRestart, Unload
    <2>2. (\A p \in Procs : Reloaded(p)') => \A p \in Procs : Reloaded(p)
      BY <2>1 DEF Reloaded
    <2> QED BY <1>0, <1>14, <2>1, <2>2
            DEF Manager, RunStart, RunRestart, RunStop, EngineEnds,
                AutoRestart, Unload, ConvergeInv, ManagerInv
  <1>15. CASE UNCHANGED vars
    BY <1>15 DEF vars, ConvergeInv, Reloaded
  <1> QED BY <1>1, <1>2, <1>3, <1>4, <1>5, <1>6, <1>7, <1>8, <1>9, <1>10,
             <1>11, <1>12, <1>13, <1>14, <1>15 DEF Next, Cli

(* What two or more commands at once cannot spoil. *)
LEMMA ConvergeInvariant == Spec => [](ReachedInv /\ ConvergeInv)
  <1>1. Init => ReachedInv /\ ConvergeInv
    BY DEF Init, ReachedInv, Reached, ConvergeInv, Fresh
  <1>2. SharedInv /\ ReachedInv /\ ConvergeInv /\ [Next]_vars
          => ReachedInv' /\ ConvergeInv'
    BY ReachedStep, ConvergeStep DEF SharedInv
  <1> QED BY <1>1, <1>2, SharedInvariant, PTL DEF Spec

(* engine_unit::ApplyConfig, run by any number of processes at once: when  *)
(* all have exited 0 and the manager's queue is empty, the manager and the *)
(* engine have what the unit file says, whoever wrote it last.             *)
THEOREM AllSwitchesConverge == Spec => []SwitchesConverge
  <1>1. SharedInv /\ ConvergeInv => SwitchesConverge
    <2> SUFFICES ASSUME SharedInv, ConvergeInv, job = "none",
                        \A p \in Procs : Succeeded(p, "switch")
                 PROVE  loaded \in {unitFile, None} /\ running \in {unitFile, None}
      BY DEF SwitchesConverge
    <2>1. \A p \in Procs : Reloaded(p) /\ proc[p].at # "call"
      BY DEF Succeeded, Reloaded
    <2> QED BY <2>1 DEF ConvergeInv
  <1> QED BY <1>1, SharedInvariant, ConvergeInvariant, PTL

-----------------------------------------------------------------------------
(* With one command at a time. *)

Alone == \A p, q \in Procs : p = q

(* How far the apply chain of ApplyConfig has got: what the steps behind   *)
(* p have made of the two files and the manager's copy.                    *)
Chain(me) ==
  /\ me.at = "install" \/ (me.at = "save" /\ me.cmd = "selftest") =>
       me.cfg = Load
  /\ me.cmd = "switch" /\ me.at \in {"install", "reload", "call"} =>
       config = me.cfg
  /\ me.cmd = "switch" /\ me.at \in {"reload", "call"} => unitFile = me.cfg
  /\ me.cmd = "switch" /\ me.at = "call" => loaded \in {me.cfg, None}

(* What an exit status of 0 says (SwitchApplied and StopMeansStopped).     *)
Promise(me) ==
  me.at = "done" /\ me.result = "ok" =>
    /\ me.cmd = "switch" =>
         /\ config = me.cfg
         /\ unitFile = me.cfg
         /\ loaded \in {me.cfg, None}
         /\ running \in {me.cfg, None} \/ job = "restart"
    /\ me.cmd = "stop" =>
         \/ job = "stop"
         \/ /\ job = "none" /\ running = None
            /\ active \in {"inactive", "failed"}

(* The two files differ for a reason, or a switch is between its writes. *)
Drift(me) ==
  Load.screens # Backgrounds =>
    blame \/ (me.at = "install" /\ me.cmd = "switch")

CommandInv ==
  \A p \in Procs : /\ Reached(proc[p])
                   /\ Chain(proc[p])
                   /\ Promise(proc[p])
                   /\ Drift(proc[p])

(* With one process, what holds of the one that moved holds of all. *)
LEMMA OneForAll ==
  ASSUME Alone, NEW p \in Procs,
         (Reached(proc[p]) /\ Chain(proc[p]) /\ Promise(proc[p])
            /\ Drift(proc[p]))'
  PROVE  CommandInv'
  BY DEF Alone, CommandInv

(* A step that leaves a file alone leaves alone what is read from it. *)
LEMMA Read ==
  /\ UNCHANGED config => UNCHANGED Load
  /\ UNCHANGED unitFile => UNCHANGED Backgrounds
  /\ config' \in Configs => Load' = config'
  /\ unitFile' \in Configs => Backgrounds' = unitFile'.screens
  BY DEF Load, Backgrounds

(* Every step of a command keeps what the steps before it achieved. *)
LEMMA CommandStep ==
  ASSUME Alone, SharedInv, CommandInv, [Next]_vars
  PROVE  CommandInv'
  <1> USE Typing, Read DEF Reached, Chain, Promise, Drift, files, manager
  <1>0. TypeOK /\ ManagerInv
    BY DEF SharedInv
  <1>a. ASSUME NEW p \in Procs
        PROVE  /\ Reached(proc[p]) /\ Chain(proc[p])
               /\ Promise(proc[p]) /\ Drift(proc[p])
               /\ proc[p] \in Process /\ proc[p].cfg \in Configs
    BY <1>0 DEF CommandInv, TypeOK, Process
  <1>1. ASSUME NEW p \in Procs, RunCli(p) PROVE CommandInv'
    <2>1. PICK c \in Commands :
            \E s, i :
              proc' = [proc EXCEPT ![p] =
                         [Fresh EXCEPT !.cmd = c, !.screen = s, !.id = i,
                            !.at = IF c \in {"stop", "restart"} THEN "call"
                                                                ELSE "load"]]
      BY <1>1 DEF RunCli
    <2>2. /\ proc'[p].cmd = c
          /\ proc'[p].at = IF c \in {"stop", "restart"} THEN "call" ELSE "load"
      BY <1>0, <2>1 DEF TypeOK, Fresh
    <2>3. (Reached(proc[p]) /\ Chain(proc[p]) /\ Promise(proc[p])
             /\ Drift(proc[p]))'
      BY <1>a, <1>1, <2>2 DEF RunCli, Commands
    <2> QED BY <2>3, OneForAll
  <1>2. ASSUME NEW p \in Procs, Return(p) PROVE CommandInv'
    <2>1. (Reached(proc[p]) /\ Chain(proc[p]) /\ Promise(proc[p])
             /\ Drift(proc[p]))'
      BY <1>0, <1>a, <1>2 DEF Return, TypeOK, Fresh
    <2> QED BY <2>1, OneForAll
  <1>3. ASSUME NEW p \in Procs, LoadConfig(p) PROVE CommandInv'
    <2>1. (Reached(proc[p]) /\ Chain(proc[p]) /\ Promise(proc[p])
             /\ Drift(proc[p]))'
      BY <1>0, <1>a, <1>3, PureTyping DEF LoadConfig, TypeOK, Process
    <2> QED BY <2>1, OneForAll
  <1>4. ASSUME NEW p \in Procs, CmdSwitch(p) PROVE CommandInv'
    <2> DEFINE target == IF proc[p].screen = None THEN DefaultScreenFor(Load)
                                                  ELSE proc[p].screen
    <2>1. CASE Exit(p, "load", "fail")
      BY <1>0, <1>a, <1>4, <2>1, Exited, OneForAll DEF CmdSwitch
    <2>2. ASSUME proc' = [proc EXCEPT ![p] =
                   [proc[p] EXCEPT
                      !.cfg = AssignScreen(Load, target, proc[p].id),
                      !.screen = target,
                      !.at = "save"]]
          PROVE  CommandInv'
      <3>1. proc'[p].at = "save" /\ proc'[p].cmd = proc[p].cmd
        BY <1>0, <1>a, <2>2 DEF TypeOK, Process
      <3>2. (Reached(proc[p]) /\ Chain(proc[p]) /\ Promise(proc[p])
               /\ Drift(proc[p]))'
        BY <1>a, <1>4, <3>1 DEF CmdSwitch
      <3> QED BY <3>2, OneForAll
    <2> QED BY <1>4, <2>1, <2>2 DEF CmdSwitch
  <1>5. ASSUME NEW p \in Procs, Save(p) PROVE CommandInv'
    <2>1. (Reached(proc[p]) /\ Chain(proc[p]) /\ Promise(proc[p])
             /\ Drift(proc[p]))'
      BY <1>0, <1>a, <1>5, Moved, Exited DEF Save
    <2> QED BY <2>1, OneForAll
  <1>6. ASSUME NEW p \in Procs, SaveFails(p) PROVE CommandInv'
    <2>1. (Reached(proc[p]) /\ Chain(proc[p]) /\ Promise(proc[p])
             /\ Drift(proc[p]))'
      BY <1>0, <1>a, <1>6, Exited DEF SaveFails
    <2> QED BY <2>1, OneForAll
  <1>7. ASSUME NEW p \in Procs, Install(p) PROVE CommandInv'
    <2>1. (Reached(proc[p]) /\ Chain(proc[p]) /\ Promise(proc[p])
             /\ Drift(proc[p]))'
      BY <1>0, <1>a, <1>7, Moved DEF Install
    <2> QED BY <2>1, OneForAll
  <1>8. ASSUME NEW p \in Procs, InstallFails(p) PROVE CommandInv'
    <2>1. /\ proc[p].at = "install"
          /\ proc'[p].at = "done" /\ proc'[p].result # "ok"
          /\ UNCHANGED <<config, unitFile>>
      BY <1>0, <1>8, Exited DEF InstallFails
    <2>2. blame \/ proc[p].cmd = "switch" => blame'
      BY <1>8 DEF InstallFails
    <2>3. (Reached(proc[p]) /\ Chain(proc[p]) /\ Promise(proc[p])
             /\ Drift(proc[p]))'
      BY <1>a, <2>1, <2>2
    <2> QED BY <2>3, OneForAll
  <1>9. ASSUME NEW p \in Procs, DaemonReload(p) PROVE CommandInv'
    <2>1. (Reached(proc[p]) /\ Chain(proc[p]) /\ Promise(proc[p])
             /\ Drift(proc[p]))'
      BY <1>0, <1>a, <1>9, Moved, Exited DEF DaemonReload
    <2> QED BY <2>1, OneForAll
  <1>10. ASSUME NEW p \in Procs, StartOrRestart(p) PROVE CommandInv'
    <2>1. (Reached(proc[p]) /\ Chain(proc[p]) /\ Promise(proc[p])
             /\ Drift(proc[p]))'
      BY <1>0, <1>a, <1>10, Exited DEF StartOrRestart, Enqueue, Method
    <2> QED BY <2>1, OneForAll
  <1>11. ASSUME NEW p \in Procs, StopUnit(p) PROVE CommandInv'
    <2>1. (Reached(proc[p]) /\ Chain(proc[p]) /\ Promise(proc[p])
             /\ Drift(proc[p]))'
      BY <1>0, <1>a, <1>11, Exited DEF StopUnit, Enqueue
    <2> QED BY <2>1, OneForAll
  <1>12. ASSUME NEW p \in Procs, BusFails(p) PROVE CommandInv'
    <2>1. (Reached(proc[p]) /\ Chain(proc[p]) /\ Promise(proc[p])
             /\ Drift(proc[p]))'
      BY <1>0, <1>a, <1>12, Exited DEF BusFails, Tolerated, ManagerInv
    <2> QED BY <2>1, OneForAll
  <1>13. ASSUME NEW p \in Procs, StatusState(p) PROVE CommandInv'
    <2>1. (Reached(proc[p]) /\ Chain(proc[p]) /\ Promise(proc[p])
             /\ Drift(proc[p]))'
      BY <1>0, <1>a, <1>13 DEF StatusState, TypeOK, Process
    <2> QED BY <2>1, OneForAll
  <1>14. ASSUME NEW p \in Procs, StatusScreens(p) PROVE CommandInv'
    <2>1. PICK cfg :
            proc' = [proc EXCEPT ![p] = [proc[p] EXCEPT !.cfg = cfg, !.at = "done"]]
      BY <1>14 DEF StatusScreens
    <2>2. proc'[p].at = "done" /\ proc'[p].cmd = proc[p].cmd
      BY <1>0, <1>a, <2>1 DEF TypeOK, Process
    <2>3. proc[p].cmd = "status" /\ proc[p].at = "unitfile"
      BY <1>a, <1>14 DEF StatusScreens
    <2>4. (Reached(proc[p]) /\ Chain(proc[p]) /\ Promise(proc[p])
             /\ Drift(proc[p]))'
      BY <1>a, <2>2, <2>3, <1>14 DEF StatusScreens
    <2> QED BY <2>4, OneForAll
  <1>15. ASSUME NEW p \in Procs, Killed(p) PROVE CommandInv'
    <2>1. /\ proc'[p].at = "done" /\ proc'[p].result = "killed"
          /\ UNCHANGED <<config, unitFile>>
      BY <1>0, <1>15, Exited DEF Killed
    <2>2. blame \/ (proc[p].cmd = "switch" /\ proc[p].at = "install") => blame'
      BY <1>15 DEF Killed
    <2>3. (Reached(proc[p]) /\ Chain(proc[p]) /\ Promise(proc[p])
             /\ Drift(proc[p]))'
      BY <1>a, <2>1, <2>2
    <2> QED BY <2>3, OneForAll
  <1>16. ASSUME NEW p \in Procs, HandEdit \/ Manager \/ UNCHANGED vars
         PROVE  (Reached(proc[p]) /\ Chain(proc[p]) /\ Promise(proc[p])
                   /\ Drift(proc[p]))'
    <2>1. CASE HandEdit
      BY <1>0, <1>a, <2>1 DEF HandEdit, Idle
    <2>2. CASE RunStart
      BY <1>0, <1>a, <2>2 DEF RunStart
    <2>3. CASE RunRestart \/ RunStop
      BY <1>0, <1>a, <2>3 DEF RunRestart, RunStop
    <2>4. CASE EngineEnds
      BY <1>0, <1>a, <2>4 DEF EngineEnds, ManagerInv
    <2>5. CASE AutoRestart
      BY <1>0, <1>a, <2>5 DEF AutoRestart
    <2>6. CASE Unload
      BY <1>0, <1>a, <2>6 DEF Unload
    <2>7. CASE UNCHANGED vars
      BY <1>a, <2>7 DEF vars
    <2> QED BY <1>16, <2>1, <2>2, <2>3, <2>4, <2>5, <2>6, <2>7 DEF Manager
  <1>17. CASE HandEdit \/ Manager \/ UNCHANGED vars
    BY <1>16, <1>17 DEF CommandInv
  <1> QED
    BY <1>1, <1>2, <1>3, <1>4, <1>5, <1>6, <1>7, <1>8, <1>9, <1>10, <1>11,
       <1>12, <1>13, <1>14, <1>15, <1>17 DEF Next, Cli

(* With one command at a time, in every state. *)
LEMMA CommandInvariant == ASSUME Alone PROVE Spec => []CommandInv
  <1>1. Init => CommandInv
    BY Typing
    DEF Init, CommandInv, Reached, Chain, Promise, Drift, Load, Backgrounds,
        Fresh, Defaults
  <1>2. CommandInv /\ SharedInv /\ [Next]_vars => CommandInv'
    BY CommandStep
  <1> QED BY <1>1, <1>2, SharedInvariant, PTL DEF Spec

(* engine_unit::ApplyConfig: when a switch exits 0, the files and the      *)
(* manager have what it computed and the engine has it or is about to.     *)
THEOREM SwitchIsApplied == ASSUME Alone PROVE Spec => []SwitchApplied
  <1>1. CommandInv => SwitchApplied
    BY DEF CommandInv, Promise, SwitchApplied, Succeeded
  <1> QED BY <1>1, CommandInvariant, PTL

(* engine_unit::StopUnit: when a stop exits 0, the engine is gone or the   *)
(* manager has the job that ends it.                                       *)
THEOREM StoppedIsStopped == ASSUME Alone PROVE Spec => []StopMeansStopped
  <1>1. CommandInv => StopMeansStopped
    BY DEF CommandInv, Promise, StopMeansStopped, Succeeded
  <1> QED BY <1>1, CommandInvariant, PTL

(* The commands themselves never make config.json and the unit file        *)
(* differ without an exit status that says so (ApplyConfig, unit_file.cpp).*)
THEOREM DriftIsExplained ==
  ASSUME Alone, Procs # {} PROVE Spec => []NoUnexplainedDrift
  <1>1. CommandInv => NoUnexplainedDrift
    BY Alone DEF CommandInv, Drift, NoUnexplainedDrift, Idle
  <1> QED BY <1>1, CommandInvariant, PTL
=============================================================================
