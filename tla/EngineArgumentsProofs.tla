------------------------ MODULE EngineArgumentsProofs ------------------------
(***************************************************************************)
(* The option table is unambiguous: no spelling belongs to two rows, or to *)
(* a row and to an option that is never written.  lwe::Find returns the    *)
(* first row that has a spelling, the model's Find any: there is but one.  *)
(***************************************************************************)
EXTENDS EngineArguments, SequenceTheorems, TLAPS

(* The spellings of a row with one or two of them. *)
LEMMA OneWord ==
  ASSUME NEW a
  PROVE  /\ \A text : Contains(Words(<<a>>), text) => text[1] \in {a}
         /\ Contains(Words(<<a>>), Words(<<a>>)[1])
         /\ Words(<<a>>) # <<>>
  <1>1. Words(<<a>>) = << <<a>> >>
    BY DEF Words
  <1> QED BY <1>1 DEF Contains

LEMMA TwoWords ==
  ASSUME NEW a, NEW b
  PROVE  /\ \A text : Contains(Words(<<a, b>>), text) => text[1] \in {a, b}
         /\ Contains(Words(<<a, b>>), Words(<<a, b>>)[1])
         /\ Words(<<a, b>>) # <<>>
  <1>1. Words(<<a, b>>) = << <<a>>, <<b>> >>
    BY DEF Words
  <1>2. \A text : Contains(Words(<<a, b>>), text) => text \in {<<a>>, <<b>>}
    BY <1>1 DEF Contains
  <1>3. Contains(Words(<<a, b>>), Words(<<a, b>>)[1])
    BY <1>1 DEF Contains
  <1> QED BY <1>1, <1>2, <1>3

(* The row that a field of the argument set is written by and read by. *)
RowOf(field) ==
  CASE field = "screen"             -> ScreenSwitch
    [] field = "background"         -> ScreenMembers[1]
    [] field = "scaling"            -> ScreenMembers[2]
    [] field = "clamp"              -> ScreenMembers[3]
    [] field = "assetsDir"          -> Globals[1]
    [] field = "fps"                -> Globals[2]
    [] field = "pauseOnFullscreen"  -> Globals[3]
    [] field = "automute"           -> Globals[4]
    [] field = "audioProcessing"    -> Globals[5]
    [] field = "silent"             -> Globals[6]
    [] field = "volume"             -> Globals[7]
    [] field = "disableParticles"   -> Globals[8]
    [] field = "disableMouse"       -> Globals[9]
    [] field = "disableParallax"    -> Globals[10]
    [] field = "properties"         -> Globals[11]
    [] field = "listProperties"     -> Globals[12]
    [] field = "backgroundId"       -> Positional

(* The field of the row that has the spelling. *)
FieldOf(text) ==
  CASE text[1] \in {"--screen-root", "-r"} -> "screen"
    [] text[1] \in {"--bg", "-b"} -> "background"
    [] text[1] \in {"--scaling"} -> "scaling"
    [] text[1] \in {"--clamp"} -> "clamp"
    [] text[1] \in {"--assets-dir"} -> "assetsDir"
    [] text[1] \in {"--fps", "-f"} -> "fps"
    [] text[1] \in {"--no-fullscreen-pause"} -> "pauseOnFullscreen"
    [] text[1] \in {"--noautomute"} -> "automute"
    [] text[1] \in {"--no-audio-processing"} -> "audioProcessing"
    [] text[1] \in {"--silent", "-s"} -> "silent"
    [] text[1] \in {"--volume", "-v"} -> "volume"
    [] text[1] \in {"--disable-particles"} -> "disableParticles"
    [] text[1] \in {"--disable-mouse"} -> "disableMouse"
    [] text[1] \in {"--disable-parallax"} -> "disableParallax"
    [] text[1] \in {"--set-property", "--property"} -> "properties"
    [] text[1] \in {"--list-properties", "-l"} -> "listProperties"
    [] text[1] \in {"background"} -> "backgroundId"
    [] OTHER -> "none"

(* Each row is the one of its field, and has the spellings of that field.  *)
Placed(row) ==
  /\ row = RowOf(row.field) /\ row.field # "none"
  /\ row.flags # <<>>
  /\ \A text : Contains(row.flags, text) => row.field = FieldOf(text)
  /\ Contains(row.flags, Canonical(row))

(* Every row of the table is. *)
LEMMA EachRow ==
  ASSUME NEW row \in Rows
  PROVE  Placed(row)
  <1> USE DEF Placed, Canonical
  <1>1. CASE row = ScreenSwitch
    <2>1. row.field = "screen" /\ row.flags = Words(<<"--screen-root", "-r">>)
      BY <1>1 DEF ScreenSwitch, Row
    <2> QED BY <1>1, <2>1, TwoWords DEF RowOf, FieldOf
  <1>2. CASE row = ScreenMembers[1]
    <2>1. row.field = "background" /\ row.flags = Words(<<"--bg", "-b">>)
      BY <1>2 DEF ScreenMembers, Row
    <2> QED BY <1>2, <2>1, TwoWords DEF RowOf, FieldOf
  <1>3. CASE row = ScreenMembers[2]
    <2>1. row.field = "scaling" /\ row.flags = Words(<<"--scaling">>)
      BY <1>3 DEF ScreenMembers, Row
    <2> QED BY <1>3, <2>1, OneWord DEF RowOf, FieldOf
  <1>4. CASE row = ScreenMembers[3]
    <2>1. row.field = "clamp" /\ row.flags = Words(<<"--clamp">>)
      BY <1>4 DEF ScreenMembers, Row
    <2> QED BY <1>4, <2>1, OneWord DEF RowOf, FieldOf
  <1>5. CASE row = Globals[1]
    <2>1. row.field = "assetsDir" /\ row.flags = Words(<<"--assets-dir">>)
      BY <1>5 DEF Globals, Global, Negative, AudioOut, Row
    <2> QED BY <1>5, <2>1, OneWord DEF RowOf, FieldOf
  <1>6. CASE row = Globals[2]
    <2>1. row.field = "fps" /\ row.flags = Words(<<"--fps", "-f">>)
      BY <1>6 DEF Globals, Global, Negative, AudioOut, Row
    <2> QED BY <1>6, <2>1, TwoWords DEF RowOf, FieldOf
  <1>7. CASE row = Globals[3]
    <2>1. row.field = "pauseOnFullscreen" /\ row.flags = Words(<<"--no-fullscreen-pause">>)
      BY <1>7 DEF Globals, Global, Negative, AudioOut, Row
    <2> QED BY <1>7, <2>1, OneWord DEF RowOf, FieldOf
  <1>8. CASE row = Globals[4]
    <2>1. row.field = "automute" /\ row.flags = Words(<<"--noautomute">>)
      BY <1>8 DEF Globals, Global, Negative, AudioOut, Row
    <2> QED BY <1>8, <2>1, OneWord DEF RowOf, FieldOf
  <1>9. CASE row = Globals[5]
    <2>1. row.field = "audioProcessing" /\ row.flags = Words(<<"--no-audio-processing">>)
      BY <1>9 DEF Globals, Global, Negative, AudioOut, Row
    <2> QED BY <1>9, <2>1, OneWord DEF RowOf, FieldOf
  <1>10. CASE row = Globals[6]
    <2>1. row.field = "silent" /\ row.flags = Words(<<"--silent", "-s">>)
      BY <1>10 DEF Globals, Global, Negative, AudioOut, Row
    <2> QED BY <1>10, <2>1, TwoWords DEF RowOf, FieldOf
  <1>11. CASE row = Globals[7]
    <2>1. row.field = "volume" /\ row.flags = Words(<<"--volume", "-v">>)
      BY <1>11 DEF Globals, Global, Negative, AudioOut, Row
    <2> QED BY <1>11, <2>1, TwoWords DEF RowOf, FieldOf
  <1>12. CASE row = Globals[8]
    <2>1. row.field = "disableParticles" /\ row.flags = Words(<<"--disable-particles">>)
      BY <1>12 DEF Globals, Global, Negative, AudioOut, Row
    <2> QED BY <1>12, <2>1, OneWord DEF RowOf, FieldOf
  <1>13. CASE row = Globals[9]
    <2>1. row.field = "disableMouse" /\ row.flags = Words(<<"--disable-mouse">>)
      BY <1>13 DEF Globals, Global, Negative, AudioOut, Row
    <2> QED BY <1>13, <2>1, OneWord DEF RowOf, FieldOf
  <1>14. CASE row = Globals[10]
    <2>1. row.field = "disableParallax" /\ row.flags = Words(<<"--disable-parallax">>)
      BY <1>14 DEF Globals, Global, Negative, AudioOut, Row
    <2> QED BY <1>14, <2>1, OneWord DEF RowOf, FieldOf
  <1>15. CASE row = Globals[11]
    <2>1. row.field = "properties" /\ row.flags = Words(<<"--set-property", "--property">>)
      BY <1>15 DEF Globals, Global, Negative, AudioOut, Row
    <2> QED BY <1>15, <2>1, TwoWords DEF RowOf, FieldOf
  <1>16. CASE row = Globals[12]
    <2>1. row.field = "listProperties" /\ row.flags = Words(<<"--list-properties", "-l">>)
      BY <1>16 DEF Globals, Global, Negative, AudioOut, Row
    <2> QED BY <1>16, <2>1, TwoWords DEF RowOf, FieldOf
  <1>17. CASE row = Positional
    <2>1. row.field = "backgroundId" /\ row.flags = << <<"background", " ", "id">> >>
      BY <1>17 DEF Positional, Row
    <2>2. ASSUME NEW x, row.flags = <<x>>
          PROVE  /\ \A text : Contains(row.flags, text) => text = x
                 /\ Contains(row.flags, row.flags[1]) /\ row.flags # <<>>
      BY <2>2 DEF Contains
    <2>3. <<"background", " ", "id">>[1] = "background"
      OBVIOUS
    <2>4. \A text : Contains(row.flags, text) => text[1] \in {"background"}
      <3>1. \A text : Contains(row.flags, text) =>
                         text = <<"background", " ", "id">>
        BY <2>1, <2>2
      <3>2. ASSUME NEW text, text = <<"background", " ", "id">>
            PROVE  text[1] \in {"background"}
        BY <2>3, <3>2
      <3> QED BY <3>1, <3>2
    <2>5. Contains(row.flags, row.flags[1]) /\ row.flags # <<>>
      BY <2>1, <2>2
    <2> QED BY <1>17, <2>1, <2>4, <2>5 DEF RowOf, FieldOf
  <1>18. \/ row = ScreenSwitch \/ row = Positional
       \/ row = ScreenMembers[1]
       \/ row = ScreenMembers[2]
       \/ row = ScreenMembers[3]
       \/ row = Globals[1]
       \/ row = Globals[2]
       \/ row = Globals[3]
       \/ row = Globals[4]
       \/ row = Globals[5]
       \/ row = Globals[6]
       \/ row = Globals[7]
       \/ row = Globals[8]
       \/ row = Globals[9]
       \/ row = Globals[10]
       \/ row = Globals[11]
       \/ row = Globals[12]
    <2>1. DOMAIN ScreenMembers = 1..3 /\ DOMAIN Globals = 1..12
      BY DEF ScreenMembers, Globals
    <2>2. row \in {ScreenSwitch, Positional}
            \cup {ScreenMembers[i] : i \in 1..3} \cup {Globals[i] : i \in 1..12}
      BY <2>1 DEF Rows, ToSet
    <2> HIDE DEF Placed
    <2> QED BY <2>2
  <1> HIDE DEF Placed
  <1> QED BY <1>1, <1>2, <1>3, <1>4, <1>5, <1>6, <1>7, <1>8, <1>9, <1>10, <1>11, <1>12, <1>13, <1>14, <1>15, <1>16, <1>17, <1>18

(* lwe/grammar.h:170-184: no two rows of the table share a spelling, so    *)
(* that the row found for a token is the only one there is.                *)
THEOREM SpellingsAreUnique ==
  ASSUME NEW row \in Rows, NEW other \in Rows, NEW text,
         Contains(row.flags, text), Contains(other.flags, text)
  PROVE  row = other
  BY EachRow DEF Placed

(* lwe/grammar.h:223-235: an option that is known and never written has no *)
(* row, so that no setting of a config can be taken for one.               *)
THEOREM UnusedHaveNoRow ==
  ASSUME NEW text \in UnusedValue \cup UnusedFlag
  PROVE  ~Found(text)
  <1>1. text[1] \in {"-w", "--window", "--screen-span", "--playlist", "--layer",
                     "--fullscreen-pause-ignore-appid", "--screenshot",
                     "--screenshot-delay", "--render-debug",
                     "--fullscreen-pause-only-active", "-z",
                     "--dump-structure"}
    BY DEF UnusedValue, UnusedFlag, Words, ToSet
  <1>2. SUFFICES ASSUME NEW row \in Rows, Contains(row.flags, text)
                 PROVE  FALSE
    BY DEF Found
  <1>3. row.field = FieldOf(text) /\ row.field # "none"
    BY <1>2, EachRow DEF Placed
  <1>4. FieldOf(text) = "none"
    BY <1>1 DEF FieldOf
  <1> QED BY <1>3, <1>4

(* What ToArgv writes for a row, FromArgv binds to that row: the first     *)
(* spelling of a row leads back to it.                                     *)
THEOREM WrittenIsFound ==
  ASSUME NEW row \in Rows
  PROVE  Found(Canonical(row)) /\ Find(Canonical(row)) = row
  <1>1. Contains(row.flags, Canonical(row))
    BY EachRow DEF Placed
  <1>2. /\ Find(Canonical(row)) \in Rows
        /\ Contains(Find(Canonical(row)).flags, Canonical(row))
    BY <1>1 DEF Find
  <1> QED BY <1>1, <1>2, SpellingsAreUnique DEF Found
=============================================================================
