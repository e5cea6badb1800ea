# A verification of wallpaperengine-kylin in TLA+

`wallpaper-engine` is a command-line program that runs a dynamic wallpaper on
the Kylin (UKUI) desktop. It does not draw: it edits a config, spells it as a
systemd user unit that runs `linux-wallpaperengine`, and asks the user's systemd
manager to start, stop or restart it. To make the engine visible it relaunches
the desktop shell (peony) with a preloaded library, the *shim*, that makes the
desktop's own wallpaper transparent. Every command is a short process; what
lasts is in files, in the manager, in accountsservice, and in two supervised
processes.

Contents: [components](#1-components) · [modules](#2-modules-and-the-code) ·
[runs](#3-runs-bounds-fairness) · [disagreements](#4-where-the-code-and-its-own-words-disagree) ·
[proofs](#5-proofs) · [left out](#6-what-is-left-out-and-why) · [plan](#7-plan)

Paths are relative to the repository's `src/` directory.

## 1. Components

| Component | State | Operations | Talks to |
|---|---|---|---|
| Atomic file replacement (`posix.h`) | target, `.tmp` sibling, what of both is on disk | `WriteFileAtomic` | file system |
| Config (`config.*`) | `config.json` | `Load`, `Save`, `AssignScreen`, `DefaultScreenFor` | atomic file |
| Projection (`projection.*`) | none | `ToArguments` | config, grammar |
| Grammar (`lwe/`) | none | `Validate`, `ToArgv`, `FromArgv` over one option table | |
| ExecStart quoting (`exec_args.*`) | none | `EscapeExecArg`, `ParseExecArgs` | |
| Unit file (`unit_file.*`) | the `.service` file | `Install`, `Backgrounds` | grammar, quoting, atomic file |
| systemd client (`systemd_unit.*`) | none of its own; the manager's: loaded unit, state, one queued job | start, stop, restart, reload, reset-failed, transient start, wait | manager over D-Bus |
| Engine lifecycle (`engine_unit.*`) | none | `ApplyConfig` (save, install, reload, restart), start, stop, state | all above |
| Command line (`cli.cpp`) | locals of one process | the commands | all |
| Peony integration (`integration/peony.cpp`, `peonybuilder.*`) | previous-wallpaper record, marker picture | `Setup`, `Teardown`, `Detect` | manager, accountsservice, gsettings, `/proc`, peony's lock in `/tmp` |
| Shim (`shim/peony-alpha.cpp`) | its wallpaper list, the atoms interned once per hook, the end of the shared log | matches pixmaps, rewrites two window properties, logs | inside peony, X server |
| Package scripts (`deb/prerm`) | none | Teardown and two stops on removal, the stops on upgrade | command line, manager |
| Process runners (`process.*`) | none | `RunCaptured`, `RunAndWait`, `SpawnDetached` | child processes |
| X questions (`display.*`, `utils/xcbutils.*`, `markerSize`) | the connection; per wrapper a cookie, then a reply | primary output, size of the marker | X server |
| Library (`library.*`), reports, marker picture, build | | see section 6 | |

What makes each correct, and what is hard about it:

- **Atomic file.** A reader, or the state after a power loss, is one whole text;
  a success is in place; a failure leaves nothing behind. Hard: the page cache
  and the disk differ, write-back has no order, a reader reads in pieces, and
  nothing locks the temp name against a second process.
- **Engine lifecycle.** Four stores describe one wallpaper: the config, the unit
  file, the manager's loaded copy and the running engine. Steps fail singly, the
  process can be killed between any two, the manager's jobs are asynchronous,
  the engine may crash and be restarted by the manager three seconds later, and
  two commands may run at once.
- **Peony integration.** The user's wallpaper must survive: it is overwritten in
  accountsservice and kept in a record, in the list the injected peony was
  started with, and nowhere else. Hard: asynchronous stops, automatic restarts,
  the session respawning peony, the single-instance lock, calls whose failure
  is dropped on purpose, repeated Setups, kills half way.
- **Grammar and quoting.** `status` and `doctor` believe what is read back from
  the unit file, so writing and reading must be inverses for every character
  that a line can hold and every setting, and hand-edited lines must be read sensibly.
- **Process runners.** A finished program's output is complete, a timeout is told
  from a program that could not be run, nothing is left behind, the call ends.
  Hard: the streams outlive the child when it leaves another process behind, and
  the child outlives its streams when it closes them.
- **Shim.** The desktop never asks to be of type DESKTOP and stays below, in
  whatever order its threads come first. Hard: the initialisation the threads
  share includes calls that may fail, and a log that other processes write to.
- **X questions.** Each reply is fetched or discarded once and freed once however
  the wrappers are copied, and one that did not arrive is never looked into. Hard:
  the connection may break, or the outputs change, between two replies of one question.

`PROJECT.json` lists the hazards line by line with the properties aimed at each.

## 2. Modules and the code

| Module | Models | State and actions |
|---|---|---|
| `AtomicRegister` | what `posix.h` and `config.h` promise of a file | the value, the value a crash leaves, reads in progress |
| `AtomicFile` | `WriteFileAtomic` and its readers | directory and data, each in cache and on disk; one action per system call and per way it fails; write-back, directory commit, kill and power loss are the environment's |
| `EngineControl` | `cli.cpp` start/stop/restart/switch/status/selftest over `config.*`, `unit_file.*`, `engine_unit.*`, `systemd_unit.*` | the two files, the manager (`loaded`, `active`, `job`, `running`), each process at a step with its locals; one action per step and per failure |
| `PeonyIntegration` | `Setup`, `Teardown`, the calls they make, and `deb/prerm` around them | pointer, gsettings, record, marker, lock, transient unit, processes, the CLI; one action per step of the two functions; the variable `faults` says what may go wrong in a behaviour |
| `ProcessRunner` | `process.cpp` | the call, the child, a process the child leaves behind, the pipes; one action per step of the caller, and per thing a program may do |
| `Shim` | the two property hooks and the log of `peony-alpha.cpp` | the static atoms and their guard, each thread's step, the window's properties as they are and as they would be without the library, the end of the log |
| `XReply` | `AbstractWrapper`, `PrimaryOutput`, `markerSize` | the wrapper in each variable, what became of each reply, the connection |
| `EngineArguments` | the option table, `Validate`, `ToArgv` | pure; the rows are data, as in `grammar.h` |
| `ExecArgs` | `EscapeExecArg`, the halving of `ParseExecArgs`, the ExecStart line | pure |
| `UnitText` | `Config::Load`, then `Install` to `Backgrounds`: the line as a channel | the loop of `ParseExecArgs` over characters and of `FromArgv` over tokens, one action per case |
| `MC*` | instances for TLC | bounds, symmetry, inputs |
| `AtomicFileProofs`, `EngineControlProofs`, `PeonyIntegrationProofs`, `ProcessRunnerProofs`, `ShimProofs`, `XReplyProofs`, `EngineArgumentsProofs`, `UnitTextProofs` | theorems | section 5 |

`AtomicFile` and `EngineControl` meet at an assumption: `EngineControl` writes a
file in one step. For one process at a time that is what `AtomicFileProofs`
proves (`Refinement`); for two it is the finding of section 4, so
`EngineControlTwoProcs` is about the orders of whole file writes only.
`EngineControl` treats the unit file as the config it spells; that this loses
nothing the status command shows is what `UnitText` checks. `PeonyIntegration`
takes the record's write as one step for the same reason.

Abstractions worth knowing:

- `EngineControl`: a config is its screen-to-wallpaper map and whether
  `Validate` accepts the rest. The manager is external and is modelled as the
  code uses it: one queued job in "replace" mode, a loaded copy that only a
  reload refreshes, an automatic restart after a failure, unloading of a unit
  that is inactive. A call may fail at the bus having done nothing, or do its
  work and lose the reply. The variable `blame` is auxiliary: it records
  whether a hand edit or a switch that reported failure explains a drift.
- `PeonyIntegration`: paths are the user's wallpaper (an ordinary path, or one with
  a `:`, which `FirstWallpaperIn` cuts and the shim takes for two), the marker, and
  the copy accountsservice keeps of each. `Exec` separates `/usr/bin/env` (whose command
  line already says peony) from the peony it becomes: in between a process is
  found but the shim is not mapped. Two poll loops (`WaitInactive`, the two
  verifications) are one step each, taken when the loop ends. A verification ends early
  with what it looks for; it gives up (`TimeIsUp`) when nothing more is about to come or
  go, or, with the fault `slowStart`, at any moment, since ten seconds may pass before
  env, the manager or peony has done its part. `slowStop` and `stubborn` are the same for
  the unit's stop and for a peony that was asked to end.
  `faults` is chosen by Init and never changes, so that one run covers several
  scenarios and each property names the faults it allows.
- `UnitText`: `Load` keeps what is of the type it expects and takes the default for
  the rest; `Narrow` is `get<int>` of a JSON integer, modulo `2 * IntLimit`.
- `ProcessRunner`: reproc is external: its drain ends at the end of both streams, at
  the deadline or with an error. The exit status of a killed child is 128 plus the
  signal.
- `Shim`: an atom is its name, or 0 while it is not interned. `wanted` is auxiliary.
- `XReply`: a cookie and a reply are the sequence number of the request. What a reply
  says is the set of facts the code can test, each on its own: an output may have crtcs
  to choose from and none of its own. A pointer to a reply is followed by `Look`, which
  crashes when it is null; each place of the code that follows one does so through it,
  after the test that the code makes there and only that. (`AskCrtc` follows again, with no
  call between, the pointer that `TestOutput` has just followed.)
  `Client` stands for the contract of `xcbutils.h:68-71` as the class offers it: it may
  create, copy, assign, query, take and destroy wrappers in any order. The functions of
  this program create, query and destroy them only.
- `EngineArguments`, `ExecArgs`, `UnitText`: a text is a sequence of characters;
  option names and words whose spelling does not matter are single symbols, and so is a
  whole run of digits. `Numeral` is the run a number is written as, and `Number` what
  a run spells, leading zeros or not. `strtol` takes white space and a sign before it
  (`IsInt`). An option nobody knows begins with a symbol of its own or with one that is
  an option alone (`--fps` followed by `=60`), or with a `-`; all are `Dashed`.
  `Rewrite` is a step of the test suite (`tests/lwe_test.cpp`,
  `byteFormIsIdempotent`), not of the program.
- Each operator marked *Faulty variant*, or *As ..., but*, is a plausible bug
  of the operation after it and is used by no specification: replacing the
  operation by it makes the property listed in `PROJECT.json` fail.

## 3. Runs, bounds, fairness

| Run | Question | Bounds |
|---|---|---|
| `AtomicFile` | is `WriteFileAtomic` an atomic register for one writer at a time? | 2 texts, files of 2 blocks, 3 inodes, 1 reader |
| `EngineControl` | do the commands mean their exit status, alone? | 2 screens, 2 wallpapers, 1 process, 1 hand edit |
| `EngineControlTwoProcs` | do two switches at once leave the engine on what the unit file says? | 2 processes, 1 screen, 2 wallpapers |
| `PeonyIntegration` | what do Setup, Teardown, removal and upgrade guarantee, and under which faults? | 2 peony processes at once; the sets of faults of `MCScenarios`, from none but missing files to all but `gsettings`; both kinds of path |
| `UnitText` | is reading the inverse of writing, on any line? | every text of up to 3 of 7 characters as a property value or a wallpaper; 2 screens; every combination of flags; texts with a newline; assets directories that `strtol` takes in several ways, and one beyond an int; configs that lack keys; numbers at and beyond the limits of an int; hand-edited lines of up to 5 words out of 16 |
| `ProcessRunner` | are results honest and complete, and do calls end, for any program? | 3 pieces of output over both streams, one process left behind |
| `Shim` | do the rewritten properties hold for racing threads? | 2 threads, 2 changes, lists of 0 to 3 atoms where the hooks look at 2, one fault |
| `XReply` | are replies owned by one wrapper, and looked into only when they are there? | 4 requests in a call, 3 variables; calls repeat |
| `AtomicFileTwoWriters`, `EngineControlStatus`, `PeonyIntegrationOutage`, `XReplyHeadless` | section 4 | the smallest that show the disagreement |

Why the bounds are enough. Two blocks are the fewest for a torn file, two texts
for a mix, and three inodes let the target, the temp file and one held by a
reader all differ; a crash may come at any step and the run goes on after it.
In `EngineControl` two screens tell a switch of one from the loss of the other,
and `DefaultScreenFor` has all its cases with 0, 1 and 2 configured; commands
repeat without bound, only hand edits are counted. A Setup or Teardown meets at
most the old peony and one that replaced it: two processes. There, too, commands
repeat without bound. Three pieces of output allow two in one stream around one
in the other, which is what order and completeness can go wrong on. The hooks
differ on an empty list, a short one, one of the full length and a longer one:
with a length of 2 instead of 32 all of them occur, and two changes are the least
for a thread that comes first and one that must wait, or for a change that is
appended to another. `markerSize` sends three requests; four let a `Client` assign
to a wrapper that already holds a reply while two others are outstanding.
`IntLimit` is 512 so that numbers just below and above the limit stay small. A character is special to the quoting alone or with its
neighbour, so three in a row contain every boundary. The theorems of section 5
do without these bounds; the conditions that the properties themselves state, such as a
line without a newline, they keep.

`AtomicFile` uses a VIEW that ignores the content of inodes nothing refers to;
no action reads it before `open` resets it. Symmetry is used in
`AtomicFileTwoWriters` only, where the property is a state invariant. Deadlock
is checked in every run except those of `UnitText`, where the end of the reading
is the end, and of `XReply`, where a crash is.

Properties, in the words of the code:

- `AtomicFile`: `ReadsAreWhole`, `CrashLeavesWhole`, `SuccessIsInPlace`,
  `FailureLeavesNoTemp` and the refinement `ImplementsRegister`.
- `EngineControl`: `InstalledIsStartable` (no unit the engine refuses is on
  disk, loaded or running), `SwitchApplied` (an exit status of 0 means all four
  stores agree or the restart is queued), `NoUnexplainedDrift`,
  `StopMeansStopped`, `SwitchesConverge`, and the liveness `SwitchTakesEffect`.
- `PeonyIntegration`: `RecordHandedOver` (an action property: the recorded
  wallpaper is given up only once it has been put back) and `SetupCovers` (what
  the shim matches is what peony loads) hold under every fault, the second when
  Setup knows a wallpaper of the user's and peony loads neither a path with a `:`
  nor what was cut from one. `WayHomeKept` and `TeardownRestores` need
  accountsservice to work and no injected peony to be hidden from Teardown by a crash,
  a respawn, a kill, a slow start or a bus that fails (`NoneOutlives`; section 4
  says how each of them hides one). `Unsupervised` needs that for Teardown alone, but only a
  working bus for the package scripts. `UnitIsOutOfTheWay` (Setup never meets a unit that
  already exists) holds under every fault but a bus that fails or a manager that takes
  more than five seconds to stop the unit. `CommandsSucceed` is about an orderly
  session: files may be missing and the old peony slow or unwilling to end, but the next one
  is up within ten seconds. When it is not the commands say so (`Unknown`).
- `UnitText`: `ArgvSurvives`, `StatusReadsTheConfig`, `ReadBackIsWritten`, `NormalForm`.
  The first three are about what is spelt on one line (`OneLine`), and the third says that an
  assets directory named by a number is read back as none; without these two conditions they do
  not hold (section 4). A line cut by a newline, too, reads to a fixed point (`NormalForm`).
- `ProcessRunner`: `OutputInOrder` (within a stream: the two pipes do not keep the
  order between them), `FinishedIsComplete`, `ResultsAreHonest`, `NothingLeft`, and
  the liveness `CallEnds`, whose one exception is the unbounded wait of
  `process.cpp:70` for a child that has closed both streams and runs on.
- `Shim`: `NeverDesktop` and `StaysBelow` compare the window with what it would be
  without the library, the second saying also that no state is lost or moved
  (`WithMoreBelow`); `LinesWhole`; the liveness `CallsReturn`. Their conditions
  are limits of the code: an atom that was not interned is never asked for again,
  a list that is empty or longer than 32 is passed on as it is, and the xcb hook,
  unlike the Xlib one, does not add BELOW to a list of exactly 32.
- `XReply`: `OneOwner`, and `NoNullReply`, that every pointer which is followed has a reply
  behind it, with a connection to begin with.

**Fairness.** Three runs need it. `SwitchTakesEffect` asks it of the manager
alone: weak fairness of running a queued start, restart or stop and of its restart
timer. systemd works its queue off and its timers fire. Nothing is asked of a
user, who need not run a command, of the CLI, which may be killed at any step,
or of an engine, which need not end. `CallEnds` asks that the caller runs, that time
passes, that the kernel carries out a SIGKILL and that the first child of
`SpawnDetached` forks and exits; a program that is run owes nothing, and a drain
need not fail. `CallsReturn` asks that each thread of the desktop is scheduled while
it is in a hook, and that the X server answers.

## 4. Where the code and its own words disagree

Each is a run TLC must find violated, with the trace to read.

1. `posix.h:27-29` promises whole files to concurrent readers. The temp name is
   fixed, so two processes saving the same path fill one file
   (`AtomicFileTwoWriters`).
2. `cli.cpp:107-110`: the unit file is what systemd runs, so status tells the
   truth. A start of an active unit, or a switch interrupted after its install,
   changes the file and not the engine (`EngineControlStatus`).
3. `cli.cpp:250` reports the previous wallpaper back. Errors of accountsservice
   are dropped and the record is deleted all the same
   (`PeonyIntegrationOutage`).
4. `display.h:14-15` has no answer when there is no X server, and `peony.cpp:100-101`
   a fallback size. `rootWindow` looks for the first screen in the setup of a
   connection that never came about, which is null (`XReplyHeadless`).

Others, which no run is spent on, since the conditions of the properties state them:

- `peony.cpp:490-492`: once Teardown returns no unit of ours supervises anything. A Setup
  gives up after ten seconds (`peony.cpp:431`) and leaves its unit as it is. If env has not
  become peony by then, the next Teardown finds a peony without the shim, leaves the unit,
  verifies at once and succeeds; then the injected peony comes up. A peony that crashed just
  before, a plain one the session respawned, a Setup killed between launch and exec or a bus
  that fails has the same effect. All are in `NoneOutlives`.
- `unit_file.cpp:39-41`: `Backgrounds` inverts exactly the escaping of `Text`. It cuts the
  file into lines first, and no newline is escaped or refused: one in a property value, an
  id, a screen name or a path ends the line it reads. This is the condition `OneLine`.
- `grammar.h:191`: all but the fields of an exclusive group are restored. An assets
  directory that `ParseInt` takes for a number is lost at `fromargv.cpp:96`, without a
  report. `ReadBackIsWritten` says so; `status` and `doctor` do not show that setting.
- `display.h:13-14`: the primary output is named when it is connected and has a crtc.
  `OutputInfo::name` (`xcbutils.h:532`) asks whether there are crtcs it could have, so an
  output that is off is named too. No property says otherwise.

Smaller ones:
`peony.cpp:448-449` says that the running list names the user's wallpaper first,
which it does not after a Setup that found its own marker and no record, nor when
the path has a colon; an upgrade stops the unit and hands no desktop back.
`process.h:14` speaks of both streams as one output; a poll that fails is reported
as a program that could not be run; 127 is both the program's and the shell's.
`peony-alpha.cpp:124-125` has one write for each line; a short write is
continued in a second one, and a line of another process may fall in between.

## 5. Proofs

`tlapm` checks every leaf of the eight proof modules. Each but `EngineArgumentsProofs` proves an
inductive invariant of a component, which TLC had checked before on that component's
runs, and draws from it the properties the runs check. The table says for what
values of the constants and under which hypothesis; section 3 says what each property
means.

| Component | Properties proved, as `Spec => []...` | For every | Hypothesis |
|---|---|---|---|
| `AtomicFile` | `TypeOK` | set of writers, readers, texts, inodes; file size | |
| | `ReadsAreWhole`, `CrashLeavesWhole`, `SuccessIsInPlace`, `FailureLeavesNoTemp`, `ImplementsRegister` | the same | `OneWriter` |
| `EngineControl` | `TypeOK`, `InstalledIsStartable`, `SwitchesConverge` | set of processes, screens, wallpapers; number of edits | |
| | `SwitchApplied`, `StopMeansStopped`, `NoUnexplainedDrift` | the same | `Alone` |
| `PeonyIntegration` | `TypeOK`, `RecordHandedOver`, `WayHomeKept`, `TeardownRestores`, `SetupCovers`, `Unsupervised`, `UnitIsOutOfTheWay`, `CommandsSucceed` | number of peony processes, set of scenarios | |
| `ProcessRunner` | `TypeOK`, `OutputInOrder`, `FinishedIsComplete`, `ResultsAreHonest`, `NothingLeft` | amount of output | |
| `Shim` | `TypeOK`, `NeverDesktop`, `StaysBelow`, `LinesWhole` | set of threads and of changes, buffer length, number of faults | |
| `XReply` | `TypeOK`, `OneOwner`, `NoNullReply` | number of requests in a call | |
| `UnitText` | `TypeOK`, `ArgvSurvives`, `StatusReadsTheConfig`, `ReadBackIsWritten`, `NormalForm` | set of configs and of hand edits, texts of any characters and any length, range of an int, spelling of numbers | for the second to fourth, `OneLine` |

**`AtomicFileProofs`**, for every number of readers, texts, inodes and blocks.
`ReadsAreWhole` is not inductive: that a read stays whole depends on nobody
writing to the inode read. `IInv` says why nobody does: the inode the writer fills
is reachable only under the temp name, in the cache (`TempApart`) and on disk
(`TempApartOnDisk`); what the target leads to in either has been written and
synced in full (`TargetsSettled`); a reader holds such an inode and has read it
faithfully (`ReaderInv`); and a writer has filled what it counts
(`WriterInv`). Theorems: `TypeCorrect`; and under the hypothesis `OneWriter` —
any two writers are the same — `ReadsWhole`, `CrashSafe`, `ResultsAreHonest`,
`FailureCleansUp` and `Refinement`, that each step is a step of `AtomicRegister` or a
stutter. The
hypothesis is needed: run `AtomicFileTwoWriters` refutes `ReadsAreWhole` without it.

**`EngineControlProofs`**, for all screens, wallpapers and numbers of edits.
`SharedInv` (types, `InstalledIsStartable`, and that the manager's fields fit
together: a unit that is not loaded has no job and no engine, a loaded one has a
file, an engine runs only in an active unit) is inductive with any number of processes, and gives `TypeCorrect` and
`NothingRefusedIsInstalled`. The other theorems are about what one command may
rely on and assume `Alone`, at most one process: `CommandInv` says how each control
point was reached (`Reached`), what the steps behind it have made of the files
and the manager (`Chain`), what the exit status promises (`Promise`), and when
drift has a cause (`Drift`). Theorems: `SwitchIsApplied`, `StoppedIsStopped`,
`DriftIsExplained` (the last with at least one process). `AllSwitchesConverge` is again
for any number of processes. `SwitchesConverge` speaks of a moment when all
have switched successfully and the queue is empty; `ConvergeInv` says how it
comes about. Once every process is a switch that has made the manager reread the
unit file since it wrote it, so has the one that wrote last: what is loaded is what the
file says. And an engine that is not on it has a restart queued, or one of the processes
has still to ask for one. An action that leaves its process short of that
point keeps `ConvergeInv` for free (`StillReloading`); the reload and the calls are
the steps that need an argument.

**`PeonyIntegrationProofs`**, for any number of peony processes and any scenarios.
The faults are a variable, so one invariant holds under all of them and each part
names the faults it needs. Under any: `Reached` (which steps each command takes),
`HandInv` (from where Teardown has looked at the record to where it drops it, what it
means to put back is what the record says), `UnitInv` (there is one injected peony at
most, it is the unit's process and has the unit's list) and `CoverInv` (a pointer that
was never moved has left nothing but itself and the marker to remember, and what Setup
launches peony with contains what it remembered). With a working bus: `PurgedInv`, and,
if the manager is not slow to stop, `AwayInv`: from the wait on the unit is gone, and
nothing but the launch brings it back.
With nothing that crashes or interferes: `CalmInv`, that there is one peony, that
the lock tells whether it is there, and that it was asked to end only where a command
waits for that. On top of it, with a working accountsservice, `HomeInv`: the
user's wallpaper is in the pointer or in the record at every step; and in an orderly
session `OrderlyInv`: each step finds what it needs. One lemma for each step of
the two functions, and one for each thing the session does, shows that each part is
kept. Theorems: `TypeCorrect`, `RecordIsHandedOver` (an action
property), `TheWayHomeIsKept`, `TeardownDoesRestore`, `SetupDoesCover`,
`NothingSupervises`, `UnitIsAway`, `CommandsDoSucceed`. Two conditions of `SetupCovers` were
made exact by the proof: see section 3.

**`ProcessRunnerProofs`**, for any amount of output. A pipe holds the last pieces
written, numbered without a gap (`PipeInv`), and the capture holds all those before
(`CaptureInv`): together they make the order within a stream inductive. The rest
is about the call: nothing exists before it starts (`FreshInv`), a drain is
followed by a wait only when both streams have ended and are empty (`RunInv`), the first
child of `SpawnDetached` exits 0 exactly when it has left the program running
(`SpawnInv`), and what is known when the call has returned (`DoneInv`). Theorems:
`TypeCorrect`, `OutputIsInOrder`, `FinishedMeansComplete`, `ResultsAreTrue`,
`NothingIsLeft`.

**`ShimProofs`**, for any threads, any changes of the window and any length of the
hooks' buffer. `NeverDesktop` and `StaysBelow` need that a thread which is past the
initialisation sees the atoms for good: `ThreadsInv` is the protocol of the guard of
a static variable (one thread at most is inside, the others wait or are past it, an
atom is written only by the one inside). The lemmas about lists say what a
rewritten and an appended list are to one which was not. Theorems: `TypeCorrect`,
`NoDesktopPasses`, `WindowStaysBelow`, and, from `OpenInv`, `LinesAreWhole`.

**`XReplyProofs`**, for any number of requests in a call. `OneOwner` counts the
wrappers that wait for a reply and those that hold it; it is not inductive,
because nothing in it keeps a request from being sent through a variable that still
waits for another, a number from being given out twice, or a fetched reply
from pushing out one already held. `MemoryInv` adds these: a wrapper
that waits holds nothing and one that is not there neither (`WrapperInv`), numbers
not given out are unused (`NumberInv`); and `CallInv` says which variables each
function has not filled yet. One lemma for each operation of `AbstractWrapper`
(request, default, getReply, destructor, take, copy and assignment) shows that it
keeps `MemoryInv`; each step of the functions is then one of these. A second
invariant, `LookInv`, says where a function follows a pointer: the wrapper has fetched its
reply, still owns it, and the reply in memory is not null; a wrapper that has fetched
gives the same reply again, whatever became of the connection (`GetReplyFinds`).
Theorems: `TypeCorrect`, `RepliesHaveOneOwner` and `NoReplyNoLook`.

**`EngineArgumentsProofs`** is about the option table alone. `lwe::Find` returns the
first row with a spelling, the model's `Find` any; `SpellingsAreUnique` shows that
there is but one. `WrittenIsFound`: the spelling that `ToArgv` writes leads
`FromArgv` back to the row it wrote. `UnusedHaveNoRow`: the options that are read over
are no row's.

**`UnitTextProofs`**, for texts of any characters and any length. What comes after a newline
is not on the line (`FirstLine`); an install of one line leaves the whole of it
(`FirstLineIs`), and the theorems about what is read back are about such an install. The prover cannot
instantiate the induction theorems, so a lemma that needs induction looks at the
smallest counterexample (`Smallest`, from the well-foundedness of `<`): that a
concatenation of sequences can be built up and is unique (`FlattensExists`,
`FlattensUnique`), that mapping the characters of a text to texts respects
concatenation (`MappedThen`), and `HalvingUndoesDoubling`, which counts the run of
equal characters before each one (`EvenRuns`). `ScanInv` is about an installed line:
at each character, the rest of the line is the quoted rest of the argument in hand
and then the other arguments (`Scanning`); `WhatIsAhead` reads off it the five
things a scanner can meet (the end, a blank between arguments, a quotation mark, an
escaped character, any other), and each is what exactly one action of `ParseExecArgs`
is for. At the end of the line the doubled arguments are the argv, so the halved
ones are what was written: `ArgvAlwaysSurvives`. That no argument is empty, which a line cannot
show, comes from `Validate` and the types of the settings (`ToArgvTyped`).
`ScanInv` holds in both rounds of a run: for the line written from the config, and for
the line written from what was read back.

The second loop, `FromArgv` over the tokens of a line this program wrote, has an
invariant of the same kind, `LoopInv`: nothing is reported, and the reader stands at a
screen, at a member of one, at a row of the option table, at a property, or has read
everything (`Progress`). What it has kept is what can be read back of the settings behind
it (`UpTo`, `PartOf`); the tokens ahead are the rest of what was written (`From`). A
setting at its default is not written, so several of these places may be the same token:
`Settles` moves the reader over all that was not written (`Unwritten`) to a place where a
turn of the loop is due, or everything is read (`Due`). `RowTurn`, `IdTurn` and `LastTurn`
say that such a turn of `FromArgv` takes exactly the tokens of one setting, keeps what
they say and reports nothing. At the end what was kept is `ReadBack`: every visible
setting, but for an assets directory whose whole name is a number.

This rests on four facts about the grammar. `WrittenIsFound`: a written spelling leads back to
its row. `NumeralsReadBack`: `ParseInt` takes a number that was written as that number,
negative ones included. `PropertiesReadBack`: a key and a value joined by `=` come
apart at the same place, whatever the value holds. `AcceptedIsReadable`: a config that `Validate`
accepts has no screen without a name, no `=` in a key and no number that is not
an int's. They give `StatusAlwaysReadsTheConfig` and `ReadBackIsAlwaysWritten`.
`NormalFormAlways` is about a second round, whose settings come from the reader
and not from `Validate`: `WellRead` says that they are of the same kind, and that an assets
directory which is a number is never among them. Its one exception, as in the
property, is a background id that could pass for an option (`Ordinary`); an installed
config has none.

`TypeInv` follows the reader on any line, hand-edited ones included; `IsArguments` is
what `FromArgv` keeps, and needs of the option table which kind of field each kind of
row binds to (`RowKinds`). Theorems: `HalvingUndoesDoubling`, `TypeCorrect`,
`AcceptedIsReadable`, `NumeralsReadBack`, `PropertiesReadBack`, `ArgvAlwaysSurvives`,
`StatusAlwaysReadsTheConfig`, `ReadBackIsAlwaysWritten`, `NormalFormAlways`.

All rest on the ASSUMEs of the modules they extend, which only say that special
values (`NoData`, `NoInode`, `None`, `Corrupt`, the guard's states in `Shim`) are none of
the ordinary ones, that there is a block, a primary screen, a wallpaper, a
process of peony, a thread, an atom's room in the buffer and a change to make, that
bounds are natural numbers, and, in `UnitText`, that a setting in `config.json` has the type
under which `Load` takes it (`ConfigTypes`), that no screen has two entries, that
a hand-edited line is a text without a newline, and that each non-negative int has a run
of digits, which spells that number and is neither a sign nor white space.

Only model-checked: the liveness properties `SwitchTakesEffect`, `CallEnds` and
`CallsReturn`, since liveness under fairness needs ENABLED, which the prover
cannot reason about.
No module uses a RECURSIVE operator.

## 6. What is left out, and why

- `list`, `doctor` and `Detect`: they read and print. Of `properties`, only what it
  makes of `RunCaptured`'s result.
- `library.*`: a directory scan; only membership of an id matters to `switch`.
- `report.*`, `Describe`, usage texts: formatting.
- `utils/xcbutils.h`: the `Atom` class and the wrappers that nothing in the program
  instantiates. `EngineControl` has the primary output as a constant.
- `integration/marker.cpp`: draws a picture; only its failure matters.
- The shim's constructor and its QPixmap hook but for the paths it matches
  (`ShimMatches`): calls through Qt's binary interface without a state of their own.
  That BELOW goes to every window of the process, and that the constructor unsets
  `LD_PRELOAD` also without the variable, is what the code does; one window is modelled.
- `deb/postinst`, and sessions other than one in `deb/prerm`.
- The JSON syntax, D-Bus marshalling, escaping of object paths.
- Everything that builds: CMake, Docker, patches to the engine, CI.

Bounds by which a behaviour cannot occur in a run: an empty engine path in
`ArgvSurvives` and its successors, and a third peony process.

## 7. Plan

Done, in this order: `AtomicRegister`, `AtomicFile` with its proofs;
`EngineControl` with its proofs; `PeonyIntegration`; `EngineArguments`,
`ExecArgs`, `UnitText`; `ProcessRunner`, `Shim`, `XReply`, and the package scripts in
`PeonyIntegration`; the proofs of every component with state, and those about the option
table; the proofs about both loops of `UnitText`.

Next:

1. An abstract specification of what Setup and Teardown promise (the wallpaper is the
   user's or is covered, and there is a way back), and the refinement to it.
