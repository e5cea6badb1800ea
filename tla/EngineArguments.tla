--------------------------- MODULE EngineArguments ---------------------------
(***************************************************************************)
(* The engine's command line as this program knows it: the argument set    *)
(* (lwe/arguments.h), the option table (lwe/grammar.h), and the pure parts *)
(* of its interpreters: which rows are written and how (ToArgv), and which *)
(* argument sets the engine would refuse (Validate).  Reading an argv back *)
(* (FromArgv) is a loop with state: UnitText models it step by step.       *)
(*                                                                         *)
(* A text is a sequence of symbols.  A symbol is one character, or what    *)
(* the code never takes apart: an option's spelling, a name, and always a  *)
(* whole run of digits.                                                    *)
(***************************************************************************)
EXTENDS Integers, Sequences, SequencesExt

CONSTANTS
  IntLimit,  \* the least number too great for an int (2^31 in the code)
  Numeral,   \* the run of digits that a number is written as
  Number     \* the number that a run of digits spells, leading zeros or not

Ints == -IntLimit..IntLimit - 1
Digits == DOMAIN Number
White == {" ", "tab", "newline", "vertical tab", "form feed", "carriage return"}

ASSUME NumeralAssumption ==
  /\ IntLimit \in Nat
  /\ 0..IntLimit \subseteq DOMAIN Numeral /\ DOMAIN Numeral \subseteq Nat
  /\ \A n \in DOMAIN Numeral : Numeral[n] \in Digits /\ Number[Numeral[n]] = n
  /\ Digits \subseteq STRING \ (White \cup {"-", "+"})
  /\ \A d \in Digits : Number[d] \in Nat

Empty == <<>>
Words(w) == [k \in DOMAIN w |-> <<w[k]>>]   \* each symbol a text of its own

ToText(n) == IF n < 0 THEN <<"-", Numeral[-n]>> ELSE <<Numeral[n]>>

IntOf(text) == IF Contains(text, "-") THEN -Number[Last(text)] ELSE Number[Last(text)]

(* strtol over the whole text: white space first and a sign are taken too, *)
(* and an int must hold the number.                                        *)
IsInt(text) ==
  /\ text # Empty
  /\ Last(text) \in Digits
  /\ \A k \in 1..Len(text) - 1 :
       text[k] \in White \/ (text[k] \in {"-", "+"} /\ k = Len(text) - 1)
  /\ IntOf(text) \in Ints

----------------------------------------------------------------------------
(* The option table.  A row's flags are its spellings, the canonical first.*)

Row(binding, arity, flags, field) ==
  [binding |-> binding, arity |-> arity, flags |-> Words(flags), field |-> field,
   polarity |-> "Positive", scope |-> "Persistable", choices |-> {}, group |-> "none"]

ScreenSwitch == Row("ScreenSwitch", "Value", <<"--screen-root", "-r">>, "screen")

ScreenMembers ==
  << Row("ScreenMember", "Value", <<"--bg", "-b">>, "background"),
     [Row("ScreenMember", "Value", <<"--scaling">>, "scaling")
        EXCEPT !.choices = ToSet(Words(<<"stretch", "fit", "fill", "default">>))],
     [Row("ScreenMember", "Value", <<"--clamp">>, "clamp")
        EXCEPT !.choices = ToSet(Words(<<"clamp", "border", "repeat">>))] >>

Global(arity, flags, field) == Row("Global", arity, flags, field)
Negative(flags, field) == [Global("Flag", flags, field) EXCEPT !.polarity = "Negative"]
AudioOut(arity, flags, field) == [Global(arity, flags, field) EXCEPT !.group = "audio-out"]

Globals ==   \* in the order they are written
  << Global("Value", <<"--assets-dir">>, "assetsDir"),
     Global("Value", <<"--fps", "-f">>, "fps"),
     Negative(<<"--no-fullscreen-pause">>, "pauseOnFullscreen"),
     Negative(<<"--noautomute">>, "automute"),
     Negative(<<"--no-audio-processing">>, "audioProcessing"),
     AudioOut("Flag", <<"--silent", "-s">>, "silent"),
     AudioOut("Value", <<"--volume", "-v">>, "volume"),
     Global("Flag", <<"--disable-particles">>, "disableParticles"),
     Global("Flag", <<"--disable-mouse">>, "disableMouse"),
     Global("Flag", <<"--disable-parallax">>, "disableParallax"),
     Global("Repeated", <<"--set-property", "--property">>, "properties"),
     [Global("Flag", <<"--list-properties", "-l">>, "listProperties")
        EXCEPT !.scope = "DirectOnly"] >>

Positional ==
  [Row("Positional", "Value", <<>>, "backgroundId")
     EXCEPT !.flags = << <<"background", " ", "id">> >>]

Rows == {ScreenSwitch, Positional} \cup ToSet(ScreenMembers) \cup ToSet(Globals)

IntFields == {"fps", "volume"}

(* Options of the engine that are never written, by what they take.        *)
UnusedValue == ToSet(Words(<<"-w", "--window", "--screen-span", "--playlist",
  "--layer", "--fullscreen-pause-ignore-appid", "--screenshot",
  "--screenshot-delay", "--render-debug">>))
UnusedFlag == ToSet(Words(<<"--fullscreen-pause-only-active", "-z", "--dump-structure">>))

Found(token) == \E row \in Rows : Contains(row.flags, token)
Find(token) == CHOOSE row \in Rows : Contains(row.flags, token)

Canonical(row) == row.flags[1]

(* The first symbols that begin with a dash, of which one may be a text;   *)
(* "--other" is the start of any other option.                             *)
Dashes ==
  {f[1] : f \in UnusedValue \cup UnusedFlag
                 \cup UNION {ToSet(row.flags) : row \in Rows \ {Positional}}}
    \cup {"--other"}
Dashed(text) ==
  text # Empty /\ (text[1] \in Dashes \/ (text[1] = "-" /\ Len(text) > 1))

----------------------------------------------------------------------------
(* The argument set, with the engine's defaults.                           *)

NoScreen == [screen |-> Empty, background |-> Empty, scaling |-> Empty, clamp |-> Empty]

Defaults ==
  [backgroundId |-> Empty, screens |-> <<>>, assetsDir |-> Empty, fps |-> 30,
   pauseOnFullscreen |-> TRUE, automute |-> TRUE, audioProcessing |-> TRUE,
   volume |-> 15, silent |-> FALSE, disableParticles |-> FALSE,
   disableMouse |-> FALSE, disableParallax |-> FALSE, listProperties |-> FALSE,
   properties |-> <<>>]

Active(row, a) ==
  CASE row.arity = "Flag"     -> a[row.field] = (row.polarity = "Positive")
    [] row.arity = "Value"    -> row.field \in IntFields \/ a[row.field] # Empty
    [] row.arity = "Repeated" -> a[row.field] # <<>>

(* One active row of a group is written, the first in the table.           *)
Suppressed(i, a) ==
  /\ Globals[i].group # "none"
  /\ \E j \in 1..i - 1 : Globals[j].group = Globals[i].group /\ Active(Globals[j], a)

(* As Push, a property without a value written as a bare key.              *)
PushBareKeys(row, a) ==
  CASE row.arity = "Flag"     -> <<Canonical(row)>>
    [] row.arity = "Repeated" ->
         FlattenSeq([k \in DOMAIN a[row.field] |->
           LET p == a[row.field][k]
           IN  <<Canonical(row), IF p.value = Empty THEN p.key ELSE p.key \o <<"=">> \o p.value>>])
    [] row.arity = "Value"    ->
         <<Canonical(row),
           IF row.field \in IntFields THEN ToText(a[row.field]) ELSE a[row.field]>>

Push(row, a) ==
  CASE row.arity = "Flag"     -> <<Canonical(row)>>
    [] row.arity = "Repeated" ->
         FlattenSeq([k \in DOMAIN a[row.field] |->
           <<Canonical(row), a[row.field][k].key \o <<"=">> \o a[row.field][k].value>>])
    [] row.arity = "Value"    ->
         <<Canonical(row),
           IF row.field \in IntFields THEN ToText(a[row.field]) ELSE a[row.field]>>

(* A screen's switch, then its members: they bind to the last switch.      *)
PushScreen(screen) ==
  <<Canonical(ScreenSwitch), screen.screen>> \o
  FlattenSeq([m \in DOMAIN ScreenMembers |->
    LET value == screen[ScreenMembers[m].field]
    IN  IF value = Empty THEN <<>> ELSE <<Canonical(ScreenMembers[m]), value>>])

ToArgv(a) ==
  FlattenSeq([k \in DOMAIN a.screens |-> PushScreen(a.screens[k])]) \o
  FlattenSeq([i \in DOMAIN Globals |->
    IF Active(Globals[i], a) /\ ~Suppressed(i, a) THEN Push(Globals[i], a) ELSE <<>>]) \o
  (IF a.backgroundId = Empty THEN <<>> ELSE <<a.backgroundId>>)

----------------------------------------------------------------------------
(* The rules an argument set breaks, for a unit file (scope Persistable)   *)
(* or for a direct call (DirectOnly).                                      *)
Problem(rule, broken) == IF broken THEN {rule} ELSE {}

Validate(a, scope) ==
  LET screens == ToSet(a.screens) IN
  UNION {
    Problem("screen name", \E s \in screens : s.screen = Empty),
    Problem("screen twice", \E k, m \in DOMAIN a.screens :
      k # m /\ a.screens[k].screen = a.screens[m].screen /\ a.screens[k].screen # Empty),
    Problem("screen without background", \E s \in screens : s.background = Empty),
    Problem("member choices", \E s \in screens, m \in ToSet(ScreenMembers) :
      m.choices # {} /\ s[m.field] \notin m.choices \cup {Empty}),
    Problem("no background",
      a.backgroundId = Empty /\ \A s \in screens : s.background = Empty),
    Problem("direct only", scope = "Persistable" /\ \E row \in ToSet(Globals) :
      row.scope = "DirectOnly" /\ Active(row, a)),
    Problem("property key", \E p \in ToSet(a.properties) :
      p.key = Empty \/ Contains(p.key, "=")),
    Problem("fps", a.fps < 1),
    Problem("volume", a.volume \notin 0..128) }

=============================================================================
