----------------------------- MODULE MCUnitText -----------------------------
EXTENDS UnitText

MCNumeral == [n \in 0..IntLimit |-> ToString(n)]
MCNumber ==
  [d \in Range(MCNumeral) \cup {"007", "1054"} |->
     CASE d = "007"  -> 7
       [] d = "1054" -> 1054
       [] OTHER      -> CHOOSE n \in 0..IntLimit : MCNumeral[n] = d]

Plain == [ConfigDefaults EXCEPT !.screens = << [screen |-> <<"s1">>, wallpaper |-> <<"w">>] >>]

(* Every text of up to three of the characters that mean something.        *)
Characters == {"a", " ", "\"", "\\", "$", "%", "="}
Texts == UNION {[1..n -> Characters] : n \in 1..3}
Odd == { <<"w", " ">>, <<"-", "x">>, <<"--bg">>, <<"$", "7">>, <<"7">>, <<"'", ";">>, <<"tab">> }

(* Texts with a newline, which cuts the line of the unit file.             *)
Broken == { <<"newline">>, <<"w", "newline">>, <<"a", "newline", "\"", " ">>, <<" ", "newline", "--bg">> }

One(s, w) == << [screen |-> s, wallpaper |-> w] >>
Two(w1, w2) == One(<<"s1">>, w1) \o One(<<"s2">>, w2)
Props(w, k, v) == << [wallpaper |-> w, values |-> << [key |-> k, value |-> v] >>] >>

Characterwise ==
  {[Plain EXCEPT !.properties = Props(<<"w">>, <<"k">>, t)] : t \in Texts \cup {Empty}}
    \cup {[Plain EXCEPT !.screens = One(<<"s1">>, t)] : t \in Texts}
    \cup {[Plain EXCEPT !.enginePath = t] : t \in Odd \cup Broken}
    \cup {[Plain EXCEPT !.screens = Two(t, <<"w">>), !.properties = Props(<<"w">>, <<"k">>, v)] :
            t, v \in Broken}

Screenwise ==
  {[Plain EXCEPT !.screens = s, !.scaling = sc, !.clamp = cl, !.properties = p] :
     s \in {Two(w1, w2) : w1, w2 \in Odd \cup {<<"w">>}}
           \cup {<<>>, One(Empty, <<"w">>), One(<<"s", " ">>, Empty)},
     sc \in {Empty, <<"fit">>, <<"odd">>}, cl \in {Empty, <<"repeat">>},
     p \in {<<>>, Props(<<"other">>, <<"k">>, <<"v">>),
            Props(<<"w">>, Empty, <<"v">>), Props(<<"w">>, <<"k", "=">>, <<"v">>),
            Props(<<"7">>, <<"--bg">>, <<"=">>) \o Props(<<"w">>, <<"k">>, <<"v">>)}}

Settingwise ==
  {[Plain EXCEPT !.silent = s, !.volume = v, !.fps = f, !.assetsDir = a,
      !.fullscreenPause = b1, !.automute = b2, !.audioProcessing = b3,
      !.disableParticles = b1, !.disableMouse = b2, !.disableParallax = b3] :
     s, b1, b2, b3 \in BOOLEAN, v \in {0, 7, 129}, f \in {0, 1, 30},
     a \in {Empty, <<"/", " ">>, <<"7">>, <<"+", "7">>, <<"tab", "-", "007">>, <<"1054">>, <<"--bg">>}}

(* Objects that lack a key, or have it of another type, and numbers at and *)
(* beyond the limits of an int.                                            *)
Objects ==
  {[f \in DOMAIN Plain \ lacking |-> IF f = "silent" THEN FALSE ELSE Plain[f]] :
     lacking \in SUBSET {"enginePath", "screens", "properties", "silent", "fps", "clamp"}}
    \cup {[Plain EXCEPT !.silent = FALSE, !.fps = f, !.volume = v] :
            f \in {-1, 0, 511, 512, 1054}, v \in {-1, 128, 1023, 1024 + 15}}

(* A property whose value has two lines.                                   *)
TwoLines == {[Plain EXCEPT !.properties = Props(<<"w">>, <<"k">>, <<"a", "newline", "b">>)]}

MCConfigs == TwoLines \cup Characterwise \cup Screenwise \cup Settingwise \cup Objects

(* Hand-edited lines: up to four words after the engine, spelt as typed.   *)
TypedWords == { <<"-r">>, <<"--bg">>, <<"s1">>, <<"\"", "\"">>, <<"\"", "w", " ", "\"">>, <<"-", "x">>,
                <<"$", "$", "$">>, <<"--property">>, <<"k", "=", "=">>, <<"k", "=">>, <<"-v">>,
                <<"+", "007">>, <<"--silent">>, <<"-w">>, <<"--other">>, <<"--fps", "=", "60">> }
Line(words) == <<"engine">> \o FlattenSeq([k \in DOMAIN words |-> <<" ">> \o words[k]])
MCEdits ==
  {Line(w) : w \in UNION {[1..n -> TypedWords] : n \in 0..3}}
    \cup {Line(<< <<"--silent">>, <<"\"", "background", " ", "id", "\"">>, w >>) : w \in TypedWords}
    \cup {Line(<< <<"-r">>, <<"s1">>, w1, w2, w3 >>) :
            w1 \in { <<"--bg">>, <<"--scaling">>, <<"-r">> }, w2, w3 \in TypedWords}
    \cup {<<"engine", " ", "\"", "w">>, <<"\\", "a">>, <<" ">>}
=============================================================================
