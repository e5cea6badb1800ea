------------------------------- MODULE UnitText -------------------------------
(***************************************************************************)
(* The unit file as a channel: `Config::Load` reads the config's JSON,     *)
(* `unit_file::Install` spells it as an ExecStart line, and                *)
(* `unit_file::Backgrounds` reads the line back, as `status` and `doctor`  *)
(* do after an install or a hand edit.  The two loops of the reader, over  *)
(* the characters of the line (ParseExecArgs) and over the tokens          *)
(* (FromArgv), take one action per case.                                   *)
(*                                                                         *)
(* Rewrite is the test suite's own step (lwe_test.cpp): what was read is   *)
(* written again and read again, to compare the two.                       *)
(***************************************************************************)
EXTENDS EngineArguments, ExecArgs

CONSTANTS
  Configs,  \* the objects in config.json that an install may start from
  Edits     \* ExecStart lines someone may leave in the file by hand

(* config.h: a Config without a file, with the engine found on this host.  *)
(* Its screens and properties are maps, as sequences in key order.         *)
ConfigDefaults ==
  [enginePath |-> <<"engine">>, assetsDir |-> Empty, screens |-> <<>>,
   scaling |-> <<"fill">>, clamp |-> <<"border">>, fps |-> 30,
   fullscreenPause |-> TRUE, automute |-> TRUE, audioProcessing |-> TRUE,
   volume |-> 15, silent |-> TRUE, disableParticles |-> FALSE,
   disableMouse |-> FALSE, disableParallax |-> FALSE, properties |-> <<>>]

(* A JSON string may have any characters, and a JSON integer any size.     *)
AnyString == Seq(STRING)

ConfigTypes ==
  [enginePath |-> AnyString, assetsDir |-> AnyString, scaling |-> AnyString, clamp |-> AnyString,
   screens |-> Seq([screen : AnyString, wallpaper : AnyString]), fps |-> Int, volume |-> Int,
   fullscreenPause |-> BOOLEAN, automute |-> BOOLEAN, audioProcessing |-> BOOLEAN,
   silent |-> BOOLEAN, disableParticles |-> BOOLEAN, disableMouse |-> BOOLEAN,
   disableParallax |-> BOOLEAN,
   properties |-> Seq([wallpaper : AnyString, values : Seq([key : AnyString, value : AnyString])])]

(* An object has no field for a key it lacks or has of another type.       *)
ASSUME ConstantsAssumption ==
  /\ IntLimit > 30
  /\ \A c \in Configs : DOMAIN c \subseteq DOMAIN ConfigDefaults
  /\ \A c \in Configs : \A f \in DOMAIN c : c[f] \in ConfigTypes[f]
  /\ \A c \in Configs : "screens" \in DOMAIN c =>
       \A k, m \in DOMAIN c.screens : c.screens[k].screen = c.screens[m].screen => k = m
  /\ Edits \subseteq AnyString \ {Empty}
  /\ \A e \in Edits : ~Contains(e, "newline")

VARIABLES
  at,         \* "write", "scan", "read", "done" or "refused"
  config,     \* the object in config.json, or <<>> after a hand edit
  line,       \* the ExecStart line in the unit file
  pos,        \* the next character of line, then the next of argv
  inQuotes,   \* ParseExecArgs' locals
  current,
  argv,       \* its result; without argv[0] once read
  arguments,  \* FromArgv's result so far
  problems,   \* what it reported
  round,      \* 2 when what round 1 read is read again
  first       \* the arguments of round 1, in round 2

scanning == <<line, inQuotes, current, argv>>
written == <<config, round, first>>
vars == <<at, config, line, pos, inQuotes, current, argv, arguments, problems,
          round, first>>

Complaints == {"unknown option", "not written", "second positional", "missing value",
               "no screen", "not a number"}

TypeOK ==
  /\ at \in {"write", "scan", "read", "done", "refused"}
  /\ config # Empty => DOMAIN config \subseteq DOMAIN ConfigDefaults
  /\ pos \in 1..Len(IF at = "scan" THEN line ELSE argv) + 1
  /\ inQuotes \in BOOLEAN
  /\ Empty \notin ToSet(argv)
  /\ DOMAIN arguments = DOMAIN Defaults
  /\ arguments.fps \in Int /\ arguments.volume \in Int
  /\ \A f \in {"silent", "automute", "listProperties"} : arguments[f] \in BOOLEAN
  /\ \A s \in ToSet(arguments.screens) : DOMAIN s = DOMAIN NoScreen
  /\ problems \subseteq Complaints
  /\ round \in 1..2

Init ==
  /\ at = "write" /\ config = Empty /\ line = Empty /\ pos = 1
  /\ inQuotes = FALSE /\ current = Empty /\ argv = <<>>
  /\ arguments = Defaults /\ problems = {} /\ round = 1 /\ first = Defaults

----------------------------------------------------------------------------
(* Writing                                                                 *)

(* get<int>() on a JSON integer keeps the low bits.                        *)
Narrow(n) == ((n + IntLimit) % (2 * IntLimit)) - IntLimit

(* Config::Load: a missing or wrongly typed key keeps its fallback.        *)
Load(c) ==
  [f \in DOMAIN ConfigDefaults |->
     IF f \notin DOMAIN c THEN ConfigDefaults[f]
     ELSE IF f \in {"fps", "volume"} THEN Narrow(c[f]) ELSE c[f]]

(* projection::ToArguments: the screens, and the properties of the         *)
(* wallpapers that are on one.                                             *)
ToArguments(c) ==
  LET active == {s.wallpaper : s \in ToSet(c.screens)} IN
  [Defaults EXCEPT
     !.screens = [k \in DOMAIN c.screens |->
        [screen |-> c.screens[k].screen, background |-> c.screens[k].wallpaper,
         scaling |-> c.scaling, clamp |-> c.clamp]],
     !.assetsDir = c.assetsDir, !.fps = c.fps,
     !.pauseOnFullscreen = c.fullscreenPause, !.automute = c.automute,
     !.audioProcessing = c.audioProcessing, !.volume = c.volume, !.silent = c.silent,
     !.disableParticles = c.disableParticles, !.disableMouse = c.disableMouse,
     !.disableParallax = c.disableParallax,
     !.properties = FlattenSeq([k \in DOMAIN c.properties |->
        IF c.properties[k].wallpaper \in active THEN c.properties[k].values ELSE <<>>])]

Text(c) == ExecLine(<<c.enginePath>> \o ToArgv(ToArguments(c)))

(* The reader takes the file line by line, and nothing has kept a newline  *)
(* out of an argument: a text's first line is all that it sees of it.      *)
FirstLine(text) ==
  LET cut == SelectInSeq(text, LAMBDA ch : ch = "newline") IN
  IF cut = 0 THEN text ELSE SubSeq(text, 1, cut - 1)

(* Config::Load and unit_file::Install, then the reader opens the file.    *)
Install ==
  /\ at = "write"
  /\ \E c \in Configs :
       /\ config' = c
       /\ IF Validate(ToArguments(Load(c)), "Persistable") = {}
          THEN at' = "scan" /\ line' = FirstLine(Text(Load(c)))
          ELSE at' = "refused" /\ UNCHANGED line
  /\ UNCHANGED <<pos, inQuotes, current, argv, arguments, problems, round, first>>

HandEdit ==
  /\ at = "write"
  /\ at' = "scan" /\ line' \in Edits
  /\ UNCHANGED <<config, pos, inQuotes, current, argv, arguments, problems, round, first>>

Rewrite ==
  /\ at = "done" /\ round = 1
  /\ at' = "scan" /\ round' = 2 /\ first' = arguments
  /\ line' = ExecLine(<< <<"engine">> >> \o ToArgv(arguments))
  /\ pos' = 1 /\ argv' = <<>> /\ arguments' = Defaults /\ problems' = {}
  /\ UNCHANGED <<config, inQuotes, current>>

----------------------------------------------------------------------------
(* ParseExecArgs: one action per case of the loop over the characters      *)

Scan(case, width) ==
  /\ at = "scan" /\ pos <= Len(line) /\ case
  /\ pos' = pos + width
  /\ UNCHANGED <<at, line, arguments, problems, written>>

char == line[pos]

EscapeFollows == char = "\\" /\ pos < Len(line) /\ line[pos + 1] \in {"\"", "\\"}

ScanEscape ==
  /\ Scan(inQuotes /\ EscapeFollows, 2)
  /\ current' = Append(current, line[pos + 1])
  /\ UNCHANGED <<inQuotes, argv>>

ScanQuote ==
  /\ Scan(char = "\"", 1)
  /\ inQuotes' = ~inQuotes
  /\ UNCHANGED <<current, argv>>

(* As Flushed, an empty argument for every extra space.                    *)
FlushedAlways == Append(argv, current)

Flushed == IF current = Empty THEN argv ELSE Append(argv, current)

ScanSpace ==
  /\ Scan(~inQuotes /\ char = " ", 1)
  /\ argv' = Flushed /\ current' = Empty
  /\ UNCHANGED inQuotes

ScanCharacter ==
  /\ Scan(IF inQuotes THEN char # "\"" /\ ~EscapeFollows ELSE char \notin {"\"", " "}, 1)
  /\ current' = Append(current, char)
  /\ UNCHANGED <<inQuotes, argv>>

(* The last flush, the doubled characters halved, and argv[0] erased.      *)
EndOfLine ==
  /\ at = "scan" /\ pos > Len(line)
  /\ argv' = LET args == [k \in DOMAIN Flushed |-> Halve(Flushed[k])]
             IN  IF args = <<>> THEN <<>> ELSE Tail(args)
  /\ at' = "read" /\ pos' = 1 /\ inQuotes' = FALSE /\ current' = Empty
  /\ UNCHANGED <<line, arguments, problems, written>>

----------------------------------------------------------------------------
(* FromArgv: one action per case of the loop over the tokens               *)

token == argv[pos]
spec == Find(token)
HasValue == pos < Len(argv)
value == argv[pos + 1]

(* One turn of the loop.                                                   *)
Turn(case, width) ==
  /\ at = "read" /\ pos <= Len(argv) /\ case
  /\ pos' = pos + width
  /\ UNCHANGED <<at, scanning, written>>

Report(problem) == problems' = problems \cup {problem} /\ UNCHANGED arguments
Write(new) == arguments' = new /\ UNCHANGED problems

Option == Found(token)

UnknownOption ==
  /\ Turn(~Option /\ Dashed(token),
          IF token \in UnusedValue /\ HasValue THEN 2 ELSE 1)
  /\ Report(IF token \in UnusedValue \cup UnusedFlag
            THEN "not written" ELSE "unknown option")

BareToken ==
  /\ Turn(~Option /\ ~Dashed(token), 1)
  /\ IF arguments.backgroundId # Empty
     THEN Report("second positional")
     ELSE Write([arguments EXCEPT !.backgroundId = token])

MissingValue ==
  /\ at = "read" /\ pos <= Len(argv)
  /\ Option /\ spec.arity # "Flag" /\ ~HasValue
  /\ at' = "done" /\ Report("missing value")
  /\ UNCHANGED <<pos, scanning, written>>

(* An option whose value, if it takes one, is there.                       *)
Bound(binding) == Option /\ spec.binding = binding /\ (spec.arity # "Flag" => HasValue)
Takes == IF spec.arity = "Flag" THEN 1 ELSE 2

ReadScreenSwitch ==
  /\ Turn(Bound("ScreenSwitch"), Takes)
  /\ Write([arguments EXCEPT !.screens = Append(@, [NoScreen EXCEPT !.screen = value])])

(* As ReadScreenMember, the group bound to once and for all.               *)
ReadMemberOfFirst ==
  /\ Turn(Bound("ScreenMember"), Takes)
  /\ IF arguments.screens = <<>>
     THEN Report("no screen")
     ELSE Write([arguments EXCEPT !.screens[1][spec.field] = value])

(* FromArgv's `current` is the last group.                                 *)
ReadScreenMember ==
  /\ Turn(Bound("ScreenMember"), Takes)
  /\ IF arguments.screens = <<>>
     THEN Report("no screen")
     ELSE Write([arguments EXCEPT !.screens[Len(arguments.screens)][spec.field] = value])

(* As ReadFlag, --no-* read as the option it negates.                      *)
ReadFlagAsOn ==
  /\ Turn(Bound("Global") /\ spec.arity = "Flag", Takes)
  /\ Write([arguments EXCEPT ![spec.field] = TRUE])

ReadFlag ==
  /\ Turn(Bound("Global") /\ spec.arity = "Flag", Takes)
  /\ Write([arguments EXCEPT ![spec.field] = spec.polarity = "Positive"])

(* Split at the first '='; a bare key means 1.                             *)
PropertyOf(text) ==
  LET equals == SelectInSeq(text, LAMBDA ch : ch = "=") IN
  IF equals = 0 THEN [key |-> text, value |-> <<"1">>]
  ELSE [key |-> SubSeq(text, 1, equals - 1),
        value |-> SubSeq(text, equals + 1, Len(text))]

ReadProperty ==
  /\ Turn(Bound("Global") /\ spec.arity = "Repeated", Takes)
  /\ Write([arguments EXCEPT !.properties = Append(@, PropertyOf(value))])

(* A value that reads as a number is only ever written to a number: to a   *)
(* text field it is lost, and nothing is reported.                         *)
ReadGlobal ==
  /\ Turn(Bound("Global") /\ spec.arity = "Value", Takes)
  /\ LET number == spec.field \in IntFields IN
     CASE IsInt(value) /\ number   -> Write([arguments EXCEPT ![spec.field] = IntOf(value)])
       [] IsInt(value) /\ ~number  -> Write(arguments)
       [] ~IsInt(value) /\ number  -> Report("not a number")
       [] ~IsInt(value) /\ ~number -> Write([arguments EXCEPT ![spec.field] = value])

ReadPositional ==
  /\ Turn(Bound("Positional"), Takes)
  /\ Write([arguments EXCEPT !.backgroundId = value])

EndOfTokens ==
  /\ at = "read" /\ pos > Len(argv)
  /\ at' = "done"
  /\ UNCHANGED <<pos, arguments, problems, scanning, written>>

----------------------------------------------------------------------------
ParseExecArgs == ScanEscape \/ ScanQuote \/ ScanSpace \/ ScanCharacter \/ EndOfLine

FromArgv ==
  \/ UnknownOption \/ BareToken \/ MissingValue \/ ReadScreenSwitch
  \/ ReadScreenMember \/ ReadFlag \/ ReadProperty \/ ReadGlobal
  \/ ReadPositional \/ EndOfTokens

Next == Install \/ HandEdit \/ Rewrite \/ ParseExecArgs \/ FromArgv

Spec == Init /\ [][Next]_vars

----------------------------------------------------------------------------
(* Properties                                                              *)

(* unit_file::Backgrounds: what `status` prints per screen.                *)
Backgrounds ==
  {[screen |-> s.screen, wallpaper |-> s.background] : s \in ToSet(arguments.screens)}

loaded == Load(config)
Installed(step) == at = step /\ round = 1 /\ config # Empty /\ loaded.enginePath # Empty
OneLine == ~Contains(Text(loaded), "newline")

(* What a reader can know of an argument set: of two rows in one group,    *)
(* only the first is written.                                              *)
Visible(a) == IF a.silent THEN [a EXCEPT !.volume = Defaults.volume] ELSE a

(* exec_args.h:36-40: the line of an installed unit splits into the argv   *)
(* that went into it, whatever characters but a newline the arguments      *)
(* have; the engine path must not be empty, an empty argument being        *)
(* dropped.                                                                *)
ArgvSurvives ==
  Installed("read") /\ pos = 1 /\ OneLine => argv = ToArgv(ToArguments(loaded))

(* unit_file.cpp:79-104: the screens and wallpapers read from an installed *)
(* unit are the config's, all of them and no other, unless a newline cuts  *)
(* the line.                                                               *)
StatusReadsTheConfig ==
  Installed("done") /\ OneLine => Backgrounds = ToSet(loaded.screens)

(* grammar.h:186-192: every setting of an installed config is read back,   *)
(* but for a volume under --silent, and but for an assets directory whose  *)
(* whole name is a number, as long as no newline cuts the line; and a      *)
(* number is the one in config.json, if it is one that an int can hold.    *)
ReadBackIsWritten ==
  Installed("done") /\ OneLine =>
    /\ problems = {}
    /\ arguments = [Visible(ToArguments(loaded)) EXCEPT
         !.assetsDir = IF IsInt(@) THEN Empty ELSE @]
    /\ \A f \in {"fps", "volume"} \cap DOMAIN config :
         config[f] \in Ints /\ ~(f = "volume" /\ arguments.silent) =>
           arguments[f] = config[f]

(* grammar.h:186-192, on any line, hand edits and malformed ones included: *)
(* what is read, written again, reads the same and without complaint,      *)
(* unless its background id is one that could pass for an option.          *)
NormalForm ==
  at = "done" /\ round = 2 =>
    \/ arguments = Visible(first) /\ problems = {}
    \/ Dashed(first.backgroundId) \/ Found(first.backgroundId)
=============================================================================
