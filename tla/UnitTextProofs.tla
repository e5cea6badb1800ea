---------------------------- MODULE UnitTextProofs ----------------------------
(***************************************************************************)
(* The unit file as a channel, for texts of every length: the argv that    *)
(* Install spells is the argv that systemd and Backgrounds split the line  *)
(* into, and FromArgv reads the settings back from it, on any line that    *)
(* this program wrote.  The prover's backends cannot instantiate an        *)
(* induction theorem; where a lemma needs induction it looks at the        *)
(* smallest counterexample.                                                *)
(***************************************************************************)
EXTENDS UnitText, EngineArgumentsProofs, WellFoundedInduction, TLAPS

-----------------------------------------------------------------------------
(* Concatenation of a sequence of sequences.                               *)

LEMMA Smallest ==
  ASSUME NEW T, T \subseteq Nat, T # {}
  PROVE  \E n \in T : \A m \in T : n <= m
  <1> DEFINE Less == {ss \in Nat \X Nat : ss[1] < ss[2]}
  <1>1. IsWellFoundedOn(Less, Nat)
    BY NatLessThanWellFounded DEF OpToRel
  <1> HIDE DEF Less
  <1>2. PICK n \in T : \A m \in T : ~(<<m, n>> \in Less)
    BY <1>1, WFMin
  <1>3. ASSUME NEW m \in T, m < n PROVE FALSE
    <2>1. <<m, n>> \in Nat \X Nat
      OBVIOUS
    <2>2. <<m, n>> \in Less
      BY <1>3, <2>1 DEF Less
    <2> QED BY <1>2, <2>2
  <1> QED BY <1>3

(* The prover's encoding of \o is cumbersome: it is kept folded.           *)
Then(s, t) == s \o t

LEMMA ThenProperties ==
  ASSUME NEW S, NEW s \in Seq(S), NEW t \in Seq(S)
  PROVE  /\ Then(s, t) \in Seq(S)
         /\ Len(Then(s, t)) = Len(s) + Len(t)
         /\ \A i \in 1..Len(s) : Then(s, t)[i] = s[i]
  BY ConcatProperties DEF Then

LEMMA ThenAfter ==
  ASSUME NEW S, NEW s \in Seq(S), NEW t \in Seq(S),
         NEW i \in 1..Len(t), NEW j, j = Len(s) + i
  PROVE  Then(s, t)[j] = t[i]
  BY DEF Then

LEMMA ThenEmpty ==
  ASSUME NEW S, NEW s \in Seq(S), NEW t, t = <<>>
  PROVE  Then(s, t) = s /\ Then(t, s) = s
  BY ConcatEmptySeq DEF Then

LEMMA ThenAssociative ==
  ASSUME NEW S, NEW s \in Seq(S), NEW t \in Seq(S), NEW u \in Seq(S)
  PROVE  Then(Then(s, t), u) = Then(s, Then(t, u))
  BY ConcatAssociative DEF Then

(* g[i] is the concatenation of the first i members of seqs.               *)
Flattens(g, seqs, n) ==
  \A i \in 1..n : g[i] = IF i = 1 THEN seqs[i] ELSE Then(g[i - 1], seqs[i])

LEMMA FlattensUnique ==
  ASSUME NEW S, NEW seqs \in Seq(Seq(S)), NEW n \in 0..Len(seqs),
         NEW g, NEW h, Flattens(g, seqs, n), Flattens(h, seqs, n)
  PROVE  \A i \in 1..n : g[i] = h[i]
  <1> DEFINE T == {i \in 1..n : g[i] # h[i]}
  <1>1. SUFFICES ASSUME T # {} PROVE FALSE
    OBVIOUS
  <1>2. n \in Nat /\ T \subseteq Nat
    BY LenProperties
  <1>3. PICK i \in T : \A j \in T : i <= j
    <2> HIDE DEF T
    <2> QED BY <1>1, <1>2, Smallest
  <1>4. i \in 1..n /\ g[i] # h[i] /\ (i # 1 => i - 1 \in 1..n /\ g[i - 1] = h[i - 1])
    BY <1>2, <1>3
  <1> QED BY <1>4 DEF Flattens

LEMMA FlattensExists ==
  ASSUME NEW S, NEW seqs \in Seq(Seq(S)), NEW n \in 0..Len(seqs)
  PROVE  \E g \in [1..n -> Seq(S)] : Flattens(g, seqs, n)
  <1>1. Len(seqs) \in Nat /\ \A i \in 1..Len(seqs) : seqs[i] \in Seq(S)
    BY LenProperties, ElementOfSeq
  <1> DEFINE T == {m \in 0..Len(seqs) :
                     ~ \E g \in [1..m -> Seq(S)] : Flattens(g, seqs, m)}
  <1>2. SUFFICES ASSUME T # {} PROVE FALSE
    BY <1>1
  <1>3. T \subseteq Nat
    BY <1>1
  <1>4. PICK m \in T : \A j \in T : m <= j
    <2> HIDE DEF T
    <2> QED BY <1>2, <1>3, Smallest
  <1>5. m \in 0..Len(seqs) /\ ~ \E g \in [1..m -> Seq(S)] : Flattens(g, seqs, m)
    BY <1>4
  <1>6. m # 0
    <2>1. [i \in 1..0 |-> <<>>] \in [1..0 -> Seq(S)]
      BY EmptySeq
    <2>2. Flattens([i \in 1..0 |-> <<>>], seqs, 0)
      BY DEF Flattens
    <2> QED BY <1>5, <2>1, <2>2
  <1>7. m - 1 \in 0..Len(seqs) /\ m - 1 \notin T
    <2>1. m - 1 \in 0..Len(seqs)
      BY <1>1, <1>5, <1>6
    <2> HIDE DEF T
    <2> QED BY <1>4, <1>5, <2>1
  <1>8. PICK g \in [1..m - 1 -> Seq(S)] : Flattens(g, seqs, m - 1)
    BY <1>7
  <1> DEFINE h == [i \in 1..m |-> IF i = m
                     THEN IF m = 1 THEN seqs[1] ELSE Then(g[m - 1], seqs[m])
                     ELSE g[i]]
  <1>9. h \in [1..m -> Seq(S)]
    <2>1. ASSUME m # 1 PROVE Then(g[m - 1], seqs[m]) \in Seq(S)
      <3>1. g[m - 1] \in Seq(S) /\ seqs[m] \in Seq(S)
        BY <1>1, <1>5, <1>6, <1>8, <2>1
      <3> QED BY <3>1, ThenProperties
    <2> QED BY <1>1, <1>5, <1>6, <1>8, <2>1
  <1>10. Flattens(h, seqs, m)
    <2>1. SUFFICES ASSUME NEW i \in 1..m
                   PROVE  h[i] = IF i = 1 THEN seqs[i] ELSE Then(h[i - 1], seqs[i])
      BY DEF Flattens
    <2>2. CASE i = m
      BY <1>1, <1>5, <1>6, <2>2
    <2>3. CASE i # m
      <3>1. i \in 1..m - 1 /\ h[i] = g[i] /\ (i # 1 => h[i - 1] = g[i - 1])
        BY <1>5, <2>3
      <3> QED BY <1>8, <3>1 DEF Flattens
    <2> QED BY <2>2, <2>3
  <1> QED BY <1>5, <1>9, <1>10

LEMMA FlattenIs ==
  ASSUME NEW S, NEW seqs \in Seq(Seq(S)), NEW n \in Nat, n = Len(seqs), n > 0,
         NEW g, Flattens(g, seqs, n)
  PROVE  FlattenSeq(seqs) = g[n]
  <1> DEFINE Step(h) == [i \in 1..n |->
               IF i = 1 THEN seqs[i] ELSE h[i - 1] \o seqs[i]]
             flatten[i \in 1..n] ==
               IF i = 1 THEN seqs[i] ELSE flatten[i - 1] \o seqs[i]
  <1>1. FlattenSeq(seqs) = flatten[n]
    BY DEF FlattenSeq
  <1>2. PICK k \in [1..n -> Seq(S)] : Flattens(k, seqs, n)
    BY FlattensExists
  <1>3. k = Step(k)
    BY <1>2 DEF Flattens, Then
  <1>4. flatten = Step(flatten)
    BY <1>3
  <1> HIDE DEF flatten
  <1>5. Flattens(flatten, seqs, n)
    BY <1>4 DEF Flattens, Then
  <1>6. PICK f : FlattenSeq(seqs) = f[n] /\ Flattens(f, seqs, n)
    BY <1>1, <1>5
  <1>7. n \in 0..Len(seqs) /\ n \in 1..n
    OBVIOUS
  <1> HIDE DEF Step
  <1>8. \A i \in 1..n : f[i] = g[i]
    BY <1>6, <1>7, FlattensUnique
  <1> QED BY <1>6, <1>7, <1>8

LEMMA FlattenNone ==
  ASSUME NEW s, s = <<>>
  PROVE  FlattenSeq(s) = <<>>
  BY DEF FlattenSeq

LEMMA FlattenOne ==
  ASSUME NEW S, NEW s \in Seq(S)
  PROVE  FlattenSeq(<<s>>) = s
  <1>1. PICK seqs : seqs = <<s>>
    OBVIOUS
  <1>2. seqs \in Seq(Seq(S)) /\ Len(seqs) = 1 /\ seqs[1] = s
    BY <1>1
  <1>3. PICK n \in Nat : n = 1 /\ n = Len(seqs) /\ n > 0
    BY <1>2
  <1>4. Flattens(seqs, seqs, n)
    BY <1>3 DEF Flattens
  <1>5. FlattenSeq(seqs) = seqs[n]
    BY <1>2, <1>3, <1>4, FlattenIs
  <1> QED BY <1>2, <1>3, <1>5

LEMMA FlattenTyped ==
  ASSUME NEW S, NEW seqs \in Seq(Seq(S))
  PROVE  FlattenSeq(seqs) \in Seq(S)
  <1>1. CASE seqs = <<>>
    BY <1>1, FlattenNone, EmptySeq
  <1>2. CASE seqs # <<>>
    <2>1. PICK n \in Nat : n = Len(seqs) /\ n > 0 /\ n \in 0..Len(seqs) /\ n \in 1..n
      BY <1>2, EmptySeq
    <2>2. PICK g \in [1..n -> Seq(S)] : Flattens(g, seqs, n)
      BY <2>1, FlattensExists
    <2>3. FlattenSeq(seqs) = g[n]
      BY <2>1, <2>2, FlattenIs
    <2> QED BY <2>1, <2>2, <2>3
  <1> QED BY <1>1, <1>2

LEMMA FlattenThen ==
  ASSUME NEW S, NEW s \in Seq(Seq(S)), NEW t \in Seq(Seq(S))
  PROVE  FlattenSeq(Then(s, t)) = Then(FlattenSeq(s), FlattenSeq(t))
  <1>1. FlattenSeq(s) \in Seq(S) /\ FlattenSeq(t) \in Seq(S)
    BY FlattenTyped
  <1>2. CASE s = <<>>
    BY <1>1, <1>2, FlattenNone, ThenEmpty
  <1>3. CASE t = <<>>
    BY <1>1, <1>3, FlattenNone, ThenEmpty
  <1>4. CASE s # <<>> /\ t # <<>>
    <2>1. PICK n \in Nat, m \in Nat : n = Len(s) /\ m = Len(t) /\ n > 0 /\ m > 0
      BY <1>4, EmptySeq
    <2>2. n \in 0..Len(s) /\ m \in 0..Len(t)
      BY <2>1
    <2>3. PICK f \in [1..n -> Seq(S)] : Flattens(f, s, n)
      BY <2>2, FlattensExists
    <2>4. PICK g \in [1..m -> Seq(S)] : Flattens(g, t, m)
      BY <2>2, FlattensExists
    <2>5. FlattenSeq(s) = f[n]
      BY <2>1, <2>3, FlattenIs
    <2>6. FlattenSeq(t) = g[m]
      BY <2>1, <2>4, FlattenIs
    <2>7. PICK both \in Seq(Seq(S)) : both = Then(s, t)
      BY ThenProperties
    <2>8. /\ Len(both) = n + m
          /\ \A i \in 1..n : both[i] = s[i]
          /\ \A i \in 1..m : both[n + i] = t[i] /\ t[i] \in Seq(S)
      <3>1. Len(both) = n + m /\ \A i \in 1..n : both[i] = s[i]
        BY <2>1, <2>7, ThenProperties
      <3>2. ASSUME NEW i \in 1..m PROVE both[n + i] = t[i]
        BY <2>1, <2>7, ThenAfter
      <3>3. \A i \in 1..m : t[i] \in Seq(S)
        BY <2>1, ElementOfSeq
      <3> QED BY <3>1, <3>2, <3>3
    <2> DEFINE h == [i \in 1..n + m |-> IF i <= n THEN f[i] ELSE Then(f[n], g[i - n])]
    <2>9. ASSUME NEW i \in 1..n + m
          PROVE  h[i] = IF i = 1 THEN both[i] ELSE Then(h[i - 1], both[i])
      <3>1. CASE i <= n
        <4>1. h[i] = f[i] /\ (i # 1 => h[i - 1] = f[i - 1]) /\ both[i] = s[i]
          BY <2>1, <2>8, <3>1
        <4>2. f[i] = IF i = 1 THEN s[i] ELSE Then(f[i - 1], s[i])
          BY <2>3, <3>1 DEF Flattens
        <4> QED BY <4>1, <4>2
      <3>2. CASE i > n
        <4>1. PICK j : j = i - n
          OBVIOUS
        <4>2. j \in 1..m /\ i = n + j /\ i # 1
          BY <2>1, <3>2, <4>1
        <4>a. h[i] = Then(f[n], g[j])
          BY <3>2, <4>1
        <4>b. both[i] = t[j]
          BY <2>8, <4>2
        <4>3. g[j] = IF j = 1 THEN t[j] ELSE Then(g[j - 1], t[j])
          BY <2>4, <4>2 DEF Flattens
        <4>4. CASE j = 1
          <5>1. h[i - 1] = f[n]
            BY <2>1, <4>2, <4>4
          <5> QED BY <4>2, <4>a, <4>b, <4>3, <4>4, <5>1
        <4>5. CASE j # 1
          <5>1. j - 1 \in 1..m /\ (i - 1) - n = j - 1 /\ ~(i - 1 <= n) /\ i - 1 \in 1..n + m
            BY <2>1, <4>2, <4>5
          <5>2. h[i - 1] = Then(f[n], g[j - 1])
            BY <5>1
          <5>3. f[n] \in Seq(S) /\ g[j - 1] \in Seq(S) /\ t[j] \in Seq(S)
            <6>1. f[n] \in Seq(S)
              <7>1. n \in 1..n
                BY <2>1
              <7> QED BY <2>3, <7>1
            <6>2. g[j - 1] \in Seq(S)
              BY <2>4, <5>1
            <6>3. t[j] \in Seq(S)
              BY <2>8, <4>2
            <6> QED BY <6>1, <6>2, <6>3
          <5>4. Then(Then(f[n], g[j - 1]), t[j]) = Then(f[n], Then(g[j - 1], t[j]))
            BY <5>3, ThenAssociative
          <5> QED BY <4>2, <4>a, <4>b, <4>3, <4>5, <5>2, <5>4
        <4> QED BY <4>4, <4>5
      <3> QED BY <2>1, <3>1, <3>2
    <2>10. Flattens(h, both, n + m)
      <3> HIDE DEF h
      <3> QED BY <2>9 DEF Flattens
    <2>11. h[n + m] = Then(f[n], g[m])
      <3>1. n + m \in 1..n + m /\ ~(n + m <= n) /\ (n + m) - n = m
        BY <2>1
      <3> QED BY <3>1
    <2> HIDE DEF h
    <2>12. FlattenSeq(both) = h[n + m]
      BY <2>1, <2>7, <2>8, <2>10, FlattenIs
    <2> QED BY <2>5, <2>6, <2>7, <2>11, <2>12
  <1> QED BY <1>2, <1>3, <1>4

-----------------------------------------------------------------------------
(* The same, as an algebra: the lemmas below need no more of sequences.    *)

Str(S) == Seq(S)
Char(c) == <<c>>

LEMMA StrTyped ==
  ASSUME NEW S
  PROVE  /\ <<>> \in Str(S)
         /\ \A c \in S : Char(c) \in Str(S)
         /\ \A s, t \in Str(S) : Then(s, t) \in Str(S)
  BY EmptySeq, ThenProperties DEF Str, Char

LEMMA StrThen ==
  ASSUME NEW S, NEW s \in Str(S)
  PROVE  /\ Then(s, <<>>) = s /\ Then(<<>>, s) = s
         /\ \A t, u \in Str(S) : Then(Then(s, t), u) = Then(s, Then(t, u))
  <1>1. Then(s, <<>>) = s /\ Then(<<>>, s) = s
    BY ThenEmpty DEF Str
  <1>2. ASSUME NEW t \in Str(S), NEW u \in Str(S)
        PROVE  Then(Then(s, t), u) = Then(s, Then(t, u))
    BY ThenAssociative DEF Str
  <1> QED BY <1>1, <1>2

LEMMA StrFirst ==
  ASSUME NEW S, NEW s \in Str(S), s # <<>>
  PROVE  \E c \in S, t \in Str(S) : s = Then(Char(c), t)
  <1>1. s \in Seq(S) /\ Len(s) \in Nat /\ Len(s) > 0
    BY EmptySeq DEF Str
  <1>2. Head(s) \in S /\ Tail(s) \in Seq(S)
    BY <1>1
  <1>3. s = <<Head(s)>> \o Tail(s)
    BY <1>1
  <1> QED BY <1>2, <1>3 DEF Str, Char, Then

LEMMA StrLast ==
  ASSUME NEW S, NEW s \in Str(S), s # <<>>
  PROVE  \E t \in Str(S), c \in S : s = Then(t, Char(c)) /\ Len(s) = Len(t) + 1
  <1>1. s \in Seq(S)
    BY DEF Str
  <1>2. PICK t \in Seq(S), c \in S : s = Append(t, c)
    BY <1>1, SequenceEmptyOrAppend
  <1>3. s = t \o <<c>> /\ Len(s) = Len(t) + 1
    BY <1>2, AppendIsConcat, AppendProperties
  <1> QED BY <1>3 DEF Str, Char, Then

(* The rest of s from p on, and a step further. *)
LEMMA Peel ==
  ASSUME NEW S, NEW s \in Str(S), NEW p \in 1..Len(s) + 1,
         NEW c \in S, NEW t \in Str(S),
         SubSeq(s, p, Len(s)) = Then(Char(c), t)
  PROVE  p <= Len(s) /\ p + 1 \in 1..Len(s) + 1 /\ s[p] = c /\ SubSeq(s, p + 1, Len(s)) = t
  <1> DEFINE n == Len(s)
             r == SubSeq(s, p, n)
             q == SubSeq(s, p + 1, n)
  <1>1. n \in Nat /\ s \in Seq(S) /\ t \in Seq(S) /\ <<c>> \in Seq(S)
    BY DEF Str
  <1>2. Len(r) = 1 + Len(t) /\ r[1] = c /\ \A i \in 1..Len(t) : r[1 + i] = t[i]
    BY <1>1 DEF Then, Char
  <1>3. p <= n
    BY <1>1, <1>2
  <1>4. r[1] = s[p]
    BY <1>1, <1>3
  <1>5. Len(t) = n - p
    BY <1>1, <1>2, <1>3
  <1>6. q \in Seq(S) /\ Len(q) = n - p
    BY <1>1, <1>3
  <1>7. ASSUME NEW i \in 1..n - p PROVE q[i] = t[i]
    <2>1. q[i] = s[p + i]
      BY <1>1, <1>3
    <2>2. r[1 + i] = s[p + i]
      BY <1>1, <1>3
    <2>3. r[1 + i] = t[i]
      BY <1>2, <1>5
    <2> QED BY <2>1, <2>2, <2>3
  <1>8. q = t
    BY <1>1, <1>5, <1>6, <1>7, SeqEqual
  <1> QED BY <1>1, <1>2, <1>3, <1>4, <1>8

LEMMA Peeled ==
  ASSUME NEW S, NEW s \in Str(S), NEW p \in 1..Len(s) + 1,
         SubSeq(s, p, Len(s)) = <<>>
  PROVE  p > Len(s)
  <1>1. Len(s) \in Nat /\ s \in Seq(S)
    BY DEF Str
  <1>2. p <= Len(s) => Len(SubSeq(s, p, Len(s))) = Len(s) - p + 1
    BY <1>1
  <1> QED BY <1>1, <1>2

LEMMA WholeRest ==
  ASSUME NEW S, NEW s \in Str(S)
  PROVE  SubSeq(s, 1, Len(s)) = s /\ 1 \in 1..Len(s) + 1
  BY SubSeqFull, LenProperties DEF Str

(* f applied to each character of s.                                       *)
Mapped(f, s) == FlattenSeq([i \in DOMAIN s |-> f[s[i]]])

LEMMA MappedTyped ==
  ASSUME NEW S, NEW R, NEW f \in [S -> Str(R)], NEW s \in Str(S)
  PROVE  [i \in DOMAIN s |-> f[s[i]]] \in Seq(Seq(R)) /\ Mapped(f, s) \in Str(R)
  <1>1. Len(s) \in Nat /\ DOMAIN s = 1..Len(s) /\ \A i \in DOMAIN s : s[i] \in S
    BY DEF Str
  <1>2. \A i \in DOMAIN s : f[s[i]] \in Seq(R)
    BY <1>1 DEF Str
  <1>3. [i \in DOMAIN s |-> f[s[i]]] \in Seq(Seq(R))
    BY <1>1, <1>2
  <1> QED BY <1>3, FlattenTyped DEF Mapped, Str

LEMMA MappedThen ==
  ASSUME NEW S, NEW R, NEW f \in [S -> Str(R)]
  PROVE  /\ Mapped(f, <<>>) = <<>>
         /\ \A c \in S : Mapped(f, Char(c)) = f[c]
         /\ \A s, t \in Str(S) : Mapped(f, Then(s, t)) = Then(Mapped(f, s), Mapped(f, t))
  <1>1. Mapped(f, <<>>) = <<>>
    <2>1. [i \in DOMAIN <<>> |-> f[<<>>[i]]] = <<>>
      OBVIOUS
    <2> QED BY <2>1, FlattenNone DEF Mapped
  <1>2. ASSUME NEW c \in S PROVE Mapped(f, Char(c)) = f[c]
    <2>1. [i \in DOMAIN <<c>> |-> f[<<c>>[i]]] = <<f[c]>>
      OBVIOUS
    <2>2. f[c] \in Seq(R)
      BY DEF Str
    <2> QED BY <2>1, <2>2, FlattenOne DEF Mapped, Char
  <1>3. ASSUME NEW s \in Str(S), NEW t \in Str(S)
        PROVE  Mapped(f, Then(s, t)) = Then(Mapped(f, s), Mapped(f, t))
    <2> DEFINE Image(x) == [i \in DOMAIN x |-> f[x[i]]]
    <2>1. Image(s) \in Seq(Seq(R)) /\ Image(t) \in Seq(Seq(R))
      BY MappedTyped
    <2>2. Image(Then(s, t)) = Then(Image(s), Image(t))
      <3>1. PICK u \in Str(S) : u = Then(s, t)
        BY StrTyped
      <3>2. PICK n \in Nat, m \in Nat : n = Len(s) /\ m = Len(t)
        BY DEF Str
      <3>3. /\ Len(u) = n + m /\ DOMAIN u = 1..n + m
            /\ \A i \in 1..n : u[i] = s[i]
            /\ \A i \in 1..m : u[n + i] = t[i]
        <4>1. s \in Seq(S) /\ t \in Seq(S) /\ u \in Seq(S)
          BY DEF Str
        <4>2. Len(u) = n + m /\ \A i \in 1..n : u[i] = s[i]
          BY <3>1, <3>2, <4>1, ThenProperties
        <4>3. ASSUME NEW i \in 1..m PROVE u[n + i] = t[i]
          BY <3>1, <3>2, <4>1, ThenAfter
        <4>4. DOMAIN u = 1..n + m
          BY <4>1, <4>2
        <4> QED BY <4>2, <4>3, <4>4
      <3>5. /\ Image(u) \in Seq(Seq(R)) /\ Len(Image(u)) = n + m
            /\ Len(Image(s)) = n /\ Len(Image(t)) = m
        <4>1. Image(u) \in Seq(Seq(R))
          BY MappedTyped
        <4>2. DOMAIN s = 1..n /\ DOMAIN t = 1..m
          BY <3>2 DEF Str
        <4> QED BY <3>2, <3>3, <4>1, <4>2
      <3>6. PICK v \in Seq(Seq(R)) : v = Then(Image(s), Image(t))
        BY <2>1, ThenProperties
      <3>7. /\ Len(v) = n + m /\ \A i \in 1..n : v[i] = Image(s)[i]
            /\ \A i \in 1..m : v[n + i] = Image(t)[i]
        <4> HIDE DEF Image
        <4>1. Len(v) = n + m /\ \A i \in 1..n : v[i] = Image(s)[i]
          BY <2>1, <3>5, <3>6, ThenProperties
        <4>2. ASSUME NEW i \in 1..m PROVE v[n + i] = Image(t)[i]
          <5>1. i \in 1..Len(Image(t)) /\ n + i = Len(Image(s)) + i
            BY <3>5
          <5>2. Then(Image(s), Image(t))[n + i] = Image(t)[i]
            BY ONLY <2>1, <5>1, ThenAfter
          <5> QED BY <3>6, <5>2
        <4> QED BY <4>1, <4>2
      <3>9. ASSUME NEW i \in 1..n + m PROVE Image(u)[i] = v[i]
        <4>1. Image(u)[i] = f[u[i]]
          BY <3>3
        <4>2. CASE i <= n
          <5>1. i \in 1..n /\ i \in DOMAIN s
            BY <3>2, <4>2 DEF Str
          <5>2. Image(s)[i] = f[s[i]]
            BY <5>1
          <5> QED BY <3>3, <3>7, <4>1, <5>1, <5>2
        <4>3. CASE i > n
          <5>1. PICK j : j = i - n
            OBVIOUS
          <5>2. j \in 1..m /\ i = n + j /\ j \in DOMAIN t
            BY <3>2, <4>3, <5>1 DEF Str
          <5>3. Image(t)[j] = f[t[j]]
            BY <5>2
          <5> QED BY <3>3, <3>7, <4>1, <5>2, <5>3
        <4> QED BY <4>2, <4>3
      <3> HIDE DEF Image
      <3>10. Image(u) = v
        BY <3>2, <3>5, <3>7, <3>9, SeqEqual
      <3> QED BY <3>1, <3>6, <3>10
    <2> HIDE DEF Image
    <2>3. FlattenSeq(Image(Then(s, t))) = Then(FlattenSeq(Image(s)), FlattenSeq(Image(t)))
      BY <2>1, <2>2, FlattenThen
    <2> QED BY <2>3 DEF Mapped, Image
  <1> QED BY <1>1, <1>2, <1>3

-----------------------------------------------------------------------------
(* Halve undoes Double.                                                    *)

(* The c's at the end of y, if any, start at s.                            *)
Run(y, c, s) ==
  /\ s \in 1..Len(y) + 1
  /\ \A k \in s..Len(y) : y[k] = c
  /\ s = 1 \/ y[s - 1] # c

LEMMA ThenChar ==
  ASSUME NEW S, NEW y \in Str(S), NEW c \in S
  PROVE  /\ Then(y, Char(c)) \in Str(S)
         /\ Len(y) \in Nat /\ Len(Then(y, Char(c))) = Len(y) + 1
         /\ \A i \in 1..Len(y) : Then(y, Char(c))[i] = y[i]
         /\ Then(y, Char(c))[Len(y) + 1] = c
  <1>1. y \in Seq(S)
    BY DEF Str
  <1>2. Then(y, Char(c)) = Append(y, c)
    BY <1>1, AppendIsConcat DEF Then, Char
  <1>3. PICK u : u = Append(y, c)
    OBVIOUS
  <1>4. /\ u \in Seq(S) /\ Len(y) \in Nat /\ Len(u) = Len(y) + 1
        /\ (\A i \in 1..Len(y) : u[i] = y[i]) /\ u[Len(y) + 1] = c
    BY <1>1, <1>3
  <1> QED BY <1>2, <1>3, <1>4 DEF Str

LEMMA ThenPair ==
  ASSUME NEW S, NEW b \in S, NEW c \in S
  PROVE  Then(Char(b), Char(c)) = <<b, c>>
  <1>1. Char(b) \in Str(S) /\ Len(Char(b)) = 1 /\ Char(b)[1] = b
    BY StrTyped DEF Char
  <1>2. PICK y \in Str(S) : y = Char(b) /\ Len(y) = 1 /\ y[1] = b
    BY <1>1
  <1>3. PICK u \in Str(S) :
          /\ u = Then(y, Char(c)) /\ Len(u) = Len(y) + 1
          /\ \A i \in 1..Len(y) : u[i] = y[i]
          /\ u[Len(y) + 1] = c
    BY ThenChar
  <1>4. Len(u) = 2 /\ u[1] = b /\ u[2] = c
    BY <1>2, <1>3
  <1>5. u = <<b, c>>
    BY <1>4 DEF Str
  <1> QED BY <1>2, <1>3, <1>5

LEMMA RunGrows ==
  ASSUME NEW S, NEW y \in Str(S), NEW c \in S, NEW s, Run(y, c, s)
  PROVE  Run(Then(y, Char(c)), c, s)
  <1>1. PICK u \in Str(S), n \in Nat :
          /\ n = Len(y) /\ u = Then(y, Char(c)) /\ Len(u) = n + 1
          /\ \A i \in 1..n : u[i] = y[i]
          /\ u[n + 1] = c
    BY ThenChar
  <1>2. s \in 1..n + 1 /\ (\A k \in s..n : y[k] = c) /\ (s = 1 \/ y[s - 1] # c)
    BY <1>1 DEF Run
  <1>3. ASSUME NEW k \in s..n + 1 PROVE u[k] = c
    <2>1. CASE k = n + 1
      BY <1>1, <2>1
    <2>2. CASE k # n + 1
      BY <1>1, <1>2, <2>2
    <2> QED BY <2>1, <2>2
  <1>4. s # 1 => u[s - 1] # c
    BY <1>1, <1>2
  <1>5. Run(u, c, s)
    BY <1>1, <1>2, <1>3, <1>4 DEF Run
  <1> QED BY <1>1, <1>5

LEMMA RunBroken ==
  ASSUME NEW S, NEW y \in Str(S), NEW c \in S, NEW d \in S, c # d
  PROVE  Run(Then(y, Char(d)), c, Len(y) + 2)
  <1>1. PICK u \in Str(S), n \in Nat :
          /\ n = Len(y) /\ u = Then(y, Char(d)) /\ Len(u) = n + 1
          /\ u[n + 1] = d
    BY ThenChar
  <1>2. Run(u, c, n + 2)
    BY <1>1 DEF Run
  <1> QED BY <1>1, <1>2

(* Whether a character goes depends on nothing that follows it.            *)
LEMMA HalvesPrefix ==
  ASSUME NEW n \in Nat, NEW y, NEW u, \A i \in 1..n : u[i] = y[i],
         NEW i \in 1..n
  PROVE  HalvesSecond(u, i) <=> HalvesSecond(y, i)
  <1> DEFINE Start(x, s) == (\A k \in s..i : x[k] = x[i]) /\ (s = 1 \/ x[s - 1] # x[i])
  <1>1. ASSUME NEW s \in 1..i PROVE Start(u, s) <=> Start(y, s)
    <2>1. (\A k \in s..i : u[k] = u[i]) <=> (\A k \in s..i : y[k] = y[i])
      OBVIOUS
    <2>2. s # 1 => u[s - 1] = y[s - 1]
      OBVIOUS
    <2> QED BY <2>1, <2>2
  <1>2. (CHOOSE s \in 1..i : Start(u, s)) = (CHOOSE s \in 1..i : Start(y, s))
    <2> HIDE DEF Start
    <2> QED BY <1>1
  <1> QED BY <1>2 DEF HalvesSecond

LEMMA HalvesLast ==
  ASSUME NEW S, NEW y \in Str(S), NEW c \in S, c \in Doubling, NEW s, Run(y, c, s)
  PROVE  HalvesSecond(Then(y, Char(c)), Len(y) + 1) <=> (Len(y) + 1 - s) % 2 = 1
  <1>1. PICK u \in Str(S), m \in Nat :
          m = Len(y) + 1 /\ u = Then(y, Char(c)) /\ Len(u) = m /\ u[m] = c
    BY ThenChar
  <1>2. Run(u, c, s) /\ s \in 1..m
    <2>1. Run(u, c, s)
      BY <1>1, RunGrows
    <2> QED BY <1>1, <2>1 DEF Run
  <1>3. (\A k \in s..m : u[k] = c) /\ (s = 1 \/ u[s - 1] # c)
    BY <1>1, <1>2 DEF Run
  <1> DEFINE Start(t) == (\A k \in t..m : u[k] = u[m]) /\ (t = 1 \/ u[t - 1] # u[m])
  <1>4. Start(s)
    BY <1>1, <1>3
  <1>5. ASSUME NEW t \in 1..m, Start(t) PROVE t = s
    <2>1. CASE t < s
      <3>1. s - 1 \in t..m /\ s # 1
        BY <1>2, <2>1
      <3> QED BY <1>1, <1>3, <1>5, <3>1
    <2>2. CASE s < t
      <3>1. t - 1 \in s..m /\ t # 1
        BY <1>2, <2>2
      <3> QED BY <1>1, <1>3, <1>5, <3>1
    <2> QED BY <1>2, <2>1, <2>2
  <1>6. (CHOOSE t \in 1..m : Start(t)) = s
    <2> HIDE DEF Start
    <2> QED BY <1>2, <1>4, <1>5
  <1>7. HalvesSecond(u, m) <=> (m - s) % 2 = 1
    BY <1>1, <1>6 DEF HalvesSecond
  <1> HIDE DEF Start
  <1>8. (m - s) % 2 = (Len(y) + 1 - s) % 2 /\ u = Then(y, Char(c)) /\ m = Len(y) + 1
    BY <1>1, <1>2
  <1> QED BY <1>7, <1>8

Kept(y) == [i \in DOMAIN y |-> IF HalvesSecond(y, i) THEN <<>> ELSE <<y[i]>>]

LEMMA KeptTyped ==
  ASSUME NEW S, NEW y \in Str(S)
  PROVE  Kept(y) \in Seq(Str(S)) /\ Len(Kept(y)) = Len(y) /\ Halve(y) \in Str(S)
  <1>1. y \in Seq(S) /\ Len(y) \in Nat /\ DOMAIN y = 1..Len(y) /\ \A i \in DOMAIN y : y[i] \in S
    BY DEF Str
  <1>2. ASSUME NEW i \in 1..Len(y) PROVE Kept(y)[i] \in Str(S)
    <2>1. <<>> \in Str(S) /\ <<y[i]>> \in Str(S)
      BY <1>1, StrTyped DEF Char
    <2> QED BY <1>1, <2>1 DEF Kept
  <1>3. Kept(y) \in Seq(Str(S)) /\ Len(Kept(y)) = Len(y)
    BY <1>1, <1>2 DEF Kept
  <1> QED BY <1>3, FlattenTyped DEF Halve, Kept, Str

LEMMA HalveThenChar ==
  ASSUME NEW S, NEW y \in Str(S), NEW c \in S
  PROVE  Halve(Then(y, Char(c))) =
           IF HalvesSecond(Then(y, Char(c)), Len(y) + 1) THEN Halve(y)
           ELSE Then(Halve(y), Char(c))
  <1>1. PICK u \in Str(S), n \in Nat :
          /\ n = Len(y) /\ u = Then(y, Char(c)) /\ Len(u) = n + 1
          /\ \A i \in 1..n : u[i] = y[i]
          /\ u[n + 1] = c
    BY ThenChar
  <1> DEFINE last == IF HalvesSecond(u, n + 1) THEN <<>> ELSE Char(c)
  <1>2. last \in Str(S)
    BY StrTyped
  <1>3. Kept(y) \in Str(Str(S)) /\ Len(Kept(y)) = n /\ Kept(u) \in Str(Str(S)) /\ Len(Kept(u)) = n + 1
    BY <1>1, KeptTyped DEF Str
  <1>4. PICK v \in Str(Str(S)) :
          /\ v = Then(Kept(y), Char(last)) /\ Len(v) = n + 1
          /\ \A i \in 1..n : v[i] = Kept(y)[i]
          /\ v[n + 1] = last
    <2> HIDE DEF last
    <2> QED BY <1>2, <1>3, ThenChar
  <1>8. ASSUME NEW i \in 1..n + 1 PROVE Kept(u)[i] = v[i]
    <2>1. i \in DOMAIN u
      BY <1>1 DEF Str
    <2>2. CASE i \in 1..n
      <3>1. i \in DOMAIN y
        BY <1>1, <2>2 DEF Str
      <3>2. HalvesSecond(u, i) <=> HalvesSecond(y, i)
        BY <1>1, <2>2, HalvesPrefix
      <3> QED BY <1>1, <1>4, <2>1, <2>2, <3>1, <3>2 DEF Kept
    <2>3. CASE i = n + 1
      BY <1>1, <1>4, <2>1, <2>3 DEF Kept, Char
    <2> QED BY <2>2, <2>3
  <1> HIDE DEF last
  <1>9. Kept(u) = v
    BY <1>3, <1>4, <1>8, SeqEqual DEF Str
  <1>10. FlattenSeq(v) = Then(FlattenSeq(Kept(y)), FlattenSeq(Char(last)))
    <2>1. Char(last) \in Seq(Seq(S)) /\ Kept(y) \in Seq(Seq(S))
      BY <1>2, <1>3, StrTyped DEF Str
    <2> QED BY <1>4, <2>1, FlattenThen
  <1>11. FlattenSeq(Char(last)) = last
    BY <1>2, FlattenOne DEF Str, Char
  <1>12. Halve(u) = Then(Halve(y), last)
    BY <1>9, <1>10, <1>11 DEF Halve, Kept
  <1>13. Halve(y) \in Str(S) /\ Then(Halve(y), <<>>) = Halve(y)
    BY KeptTyped, StrThen
  <1> QED BY <1>1, <1>12, <1>13 DEF last

(* Every run of a doubled character at the end of y is of even length.     *)
EvenRuns(y) ==
  \A c \in Doubling : \E s : Run(y, c, s) /\ (Len(y) + 1 - s) % 2 = 0

Doubled(c) == IF c \in Doubling THEN Then(Char(c), Char(c)) ELSE Char(c)

LEMMA DoubleThenOther ==
  ASSUME NEW S, Doubling \subseteq S, NEW y \in Str(S), EvenRuns(y),
         NEW d \in S, d \notin Doubling
  PROVE  EvenRuns(Then(y, Char(d))) /\ Halve(Then(y, Char(d))) = Then(Halve(y), Char(d))
  <1>1. PICK u \in Str(S), n \in Nat :
          n = Len(y) /\ u = Then(y, Char(d)) /\ Len(u) = n + 1 /\ u[n + 1] = d
    BY ThenChar
  <1>2. ASSUME NEW c \in Doubling
        PROVE  Run(u, c, n + 2) /\ (Len(u) + 1 - (n + 2)) % 2 = 0
    <2>1. Run(u, c, n + 2)
      BY <1>1, RunBroken
    <2>2. Len(u) + 1 - (n + 2) = 0 /\ 0 % 2 = 0
      BY <1>1
    <2> QED BY <2>1, <2>2
  <1>3. EvenRuns(u)
    BY <1>2 DEF EvenRuns
  <1>4. ~HalvesSecond(u, n + 1)
    BY <1>1 DEF HalvesSecond
  <1> QED BY <1>1, <1>3, <1>4, HalveThenChar

LEMMA DoubleThenPair ==
  ASSUME NEW S, Doubling \subseteq S, NEW y \in Str(S), EvenRuns(y), NEW d \in Doubling
  PROVE  /\ EvenRuns(Then(Then(y, Char(d)), Char(d)))
         /\ Halve(Then(Then(y, Char(d)), Char(d))) = Then(Halve(y), Char(d))
  <1>1. PICK u \in Str(S), n \in Nat :
          n = Len(y) /\ u = Then(y, Char(d)) /\ Len(u) = n + 1
    BY ThenChar
  <1>2. PICK v \in Str(S) :
          v = Then(u, Char(d)) /\ Len(v) = n + 2 /\ v[n + 2] = d
    <2>1. n + 2 = (n + 1) + 1
      OBVIOUS
    <2> QED BY <1>1, <2>1, ThenChar
  <1>3. PICK s : Run(y, d, s) /\ (n + 1 - s) % 2 = 0
    BY <1>1 DEF EvenRuns
  <1>4. s \in 1..n + 1 /\ Run(u, d, s) /\ Run(v, d, s)
    <2>1. s \in 1..n + 1
      BY <1>1, <1>3 DEF Run
    <2>2. Run(u, d, s)
      BY <1>1, <1>3, RunGrows
    <2>3. Run(v, d, s)
      BY <1>2, <2>2, RunGrows
    <2> QED BY <2>1, <2>2, <2>3
  <1>5. (n + 2 - s) % 2 = 1 /\ (n + 3 - s) % 2 = 0
    BY <1>3, <1>4
  <1>6. ASSUME NEW c \in Doubling
        PROVE  \E t : Run(v, c, t) /\ (Len(v) + 1 - t) % 2 = 0
    <2>1. CASE c = d
      <3>1. Len(v) + 1 - s = n + 3 - s
        BY <1>2, <1>4
      <3> QED BY <1>4, <1>5, <2>1, <3>1
    <2>2. CASE c # d
      <3>1. Run(v, c, n + 3)
        <4>1. Len(u) + 2 = n + 3
          BY <1>1
        <4> QED BY <1>1, <1>2, <2>2, <4>1, RunBroken
      <3>2. Len(v) + 1 - (n + 3) = 0 /\ 0 % 2 = 0
        BY <1>2
      <3> QED BY <3>1, <3>2
    <2> QED BY <2>1, <2>2
  <1>7. EvenRuns(v)
    BY <1>6 DEF EvenRuns
  <1>8. ~HalvesSecond(u, Len(y) + 1)
    BY <1>1, <1>3, HalvesLast
  <1>9. HalvesSecond(v, Len(u) + 1)
    <2>1. Len(u) + 1 - s = n + 2 - s
      BY <1>1, <1>4
    <2> QED BY <1>1, <1>2, <1>4, <1>5, <2>1, HalvesLast
  <1>10. Halve(u) = Then(Halve(y), Char(d))
    BY <1>1, <1>8, HalveThenChar
  <1>11. Halve(v) = Halve(u)
    BY <1>1, <1>2, <1>9, HalveThenChar
  <1> QED BY <1>1, <1>2, <1>7, <1>10, <1>11

Doubler(S) == [c \in S |-> Doubled(c)]

LEMMA DoubleIsMapped ==
  ASSUME NEW S, NEW x \in Str(S)
  PROVE  /\ Doubler(S) \in [S -> Str(S)]
         /\ Double(x) = Mapped(Doubler(S), x) /\ Double(x) \in Str(S)
  <1>1. Doubler(S) \in [S -> Str(S)]
    BY StrTyped DEF Doubler, Doubled
  <1>2. \A c \in S : Doubler(S)[c] = IF c \in Doubling THEN <<c, c>> ELSE <<c>>
    <2>1. \A c \in S : Then(Char(c), Char(c)) = <<c, c>>
      BY ThenPair
    <2> QED BY <2>1 DEF Doubler, Doubled, Char
  <1>3. \A i \in DOMAIN x : x[i] \in S
    BY DEF Str
  <1>4. [i \in DOMAIN x |-> Doubler(S)[x[i]]]
          = [i \in DOMAIN x |-> IF x[i] \in Doubling THEN <<x[i], x[i]>> ELSE <<x[i]>>]
    BY <1>2, <1>3
  <1>5. Double(x) = Mapped(Doubler(S), x)
    BY <1>4 DEF Double, Mapped
  <1>6. Mapped(Doubler(S), x) \in Str(S)
    BY <1>1, MappedTyped
  <1> QED BY <1>1, <1>5, <1>6

(* exec_args.cpp:79-91 after 14-25: whatever the characters of an argument *)
(* and however many of them, the reader's pass over the doubled "$" and   *)
(* "%" gives back the argument whose "$" and "%" were doubled.           *)
THEOREM HalvingUndoesDoubling ==
  ASSUME NEW S, Doubling \subseteq S, NEW x \in Str(S)
  PROVE  Halve(Double(x)) = x
  <1> DEFINE Good(w) == Halve(Double(w)) = w /\ EvenRuns(Double(w))
             T == {n \in Nat : \E w \in Str(S) : Len(w) = n /\ ~Good(w)}
  <1>1. SUFFICES ASSUME T # {} PROVE FALSE
    <2>1. Len(x) \in Nat
      BY DEF Str
    <2> QED BY <2>1
  <1>2. PICK n \in T : \A m \in T : n <= m
    <2>1. T \subseteq Nat
      OBVIOUS
    <2> HIDE DEF T
    <2> QED BY <1>1, <2>1, Smallest
  <1>3. PICK w \in Str(S) : n \in Nat /\ Len(w) = n /\ ~Good(w)
    BY <1>2
  <1>4. ASSUME w = <<>> PROVE Good(w)
    <2>1. Double(w) = <<>>
      BY <1>4, DoubleIsMapped, MappedThen
    <2>2. Halve(<<>>) = <<>>
      <3>1. [i \in DOMAIN <<>> |-> IF HalvesSecond(<<>>, i) THEN <<>> ELSE << <<>>[i] >>] = <<>>
        OBVIOUS
      <3> QED BY <3>1, FlattenNone DEF Halve
    <2>3. EvenRuns(<<>>)
      <3>1. \A c : Run(<<>>, c, 1)
        BY DEF Run
      <3>2. (Len(<<>>) + 1 - 1) % 2 = 0
        OBVIOUS
      <3> QED BY <3>1, <3>2 DEF EvenRuns
    <2> QED BY <1>4, <2>1, <2>2, <2>3
  <1>5. PICK t \in Str(S), c \in S : w = Then(t, Char(c)) /\ n = Len(t) + 1
    BY <1>3, <1>4, StrLast
  <1>6. Good(t)
    <2>1. Len(t) \in Nat /\ Len(t) < n
      BY <1>5 DEF Str
    <2>2. Len(t) \notin T
      <3> HIDE DEF T
      <3> QED BY <1>2, <1>3, <2>1
    <2> QED BY <2>1, <2>2
  <1>7. Double(w) = Then(Double(t), Doubled(c))
    <2>1. Char(c) \in Str(S)
      BY StrTyped
    <2>2. Double(w) = Then(Double(t), Double(Char(c)))
      BY <1>5, <2>1, DoubleIsMapped, MappedThen
    <2>3. Double(Char(c)) = Doubler(S)[c]
      BY <2>1, DoubleIsMapped, MappedThen
    <2> QED BY <2>2, <2>3 DEF Doubler
  <1>8. Double(t) \in Str(S)
    BY DoubleIsMapped
  <1>9. CASE c \notin Doubling
    BY <1>3, <1>5, <1>6, <1>7, <1>8, <1>9, DoubleThenOther DEF Doubled
  <1>10. CASE c \in Doubling
    <2>1. Then(Double(t), Then(Char(c), Char(c))) = Then(Then(Double(t), Char(c)), Char(c))
      BY <1>8, StrTyped, StrThen
    <2> QED BY <1>3, <1>5, <1>6, <1>7, <1>8, <1>10, <2>1, DoubleThenPair DEF Doubled
  <1> QED BY <1>9, <1>10

-----------------------------------------------------------------------------
(* The text of a line: an argument's escape, and what follows it.          *)

QuoteMark == "\""
Backslash == "\\"
Blank == " "
Specials == Quoting \cup Doubling

Escaped(c) == IF c \in {"\"", "\\"} THEN Then(Char(Backslash), Char(c)) ELSE Char(c)
Escaper(S) == [c \in S |-> Escaped(c)]
Body(S, x) == Mapped(Escaper(S), x)

LEMMA BodyProperties ==
  ASSUME NEW S, Specials \subseteq S
  PROVE  /\ Body(S, <<>>) = <<>>
         /\ \A x \in Str(S) : Body(S, x) \in Str(S)
         /\ \A c \in S, x \in Str(S) :
              Body(S, Then(Char(c), x)) = Then(Escaped(c), Body(S, x))
  <1>1. Escaper(S) \in [S -> Str(S)]
    BY StrTyped DEF Escaper, Escaped, Specials, Quoting, Backslash
  <1>2. \A x \in Str(S) : Body(S, x) \in Str(S)
    BY <1>1, MappedTyped DEF Body
  <1>3. Body(S, <<>>) = <<>>
    BY <1>1, MappedThen DEF Body
  <1>4. ASSUME NEW c \in S, NEW x \in Str(S)
        PROVE  Body(S, Then(Char(c), x)) = Then(Escaped(c), Body(S, x))
    <2>1. Char(c) \in Str(S)
      BY StrTyped
    <2>2. Mapped(Escaper(S), Then(Char(c), x))
            = Then(Mapped(Escaper(S), Char(c)), Mapped(Escaper(S), x))
      BY <1>1, <2>1, MappedThen
    <2>3. Mapped(Escaper(S), Char(c)) = Escaped(c)
      BY <1>1, MappedThen DEF Escaper
    <2> QED BY <2>2, <2>3 DEF Body
  <1> QED BY <1>2, <1>3, <1>4

LEMMA QuoteIs ==
  ASSUME NEW S, Specials \subseteq S, NEW x \in Str(S)
  PROVE  Quote(x) = Then(Char(QuoteMark), Then(Body(S, x), Char(QuoteMark)))
  <1>1. QuoteMark \in S /\ Backslash \in S
    BY DEF Specials, Quoting, QuoteMark, Backslash
  <1>2. \A c \in S : Escaper(S)[c] = IF c \in {"\"", "\\"} THEN <<"\\", c>> ELSE <<c>>
    <2>1. \A c \in S : Then(Char(Backslash), Char(c)) = <<Backslash, c>>
      BY <1>1, ThenPair
    <2> QED BY <2>1 DEF Escaper, Escaped, Char, Backslash
  <1>3. \A i \in DOMAIN x : x[i] \in S
    BY DEF Str
  <1>4. [i \in DOMAIN x |-> Escaper(S)[x[i]]]
          = [i \in DOMAIN x |-> IF x[i] \in {"\"", "\\"} THEN <<"\\", x[i]>> ELSE <<x[i]>>]
    BY <1>2, <1>3
  <1>5. Quote(x) = Then(Then(Char(QuoteMark), Body(S, x)), Char(QuoteMark))
    BY <1>4 DEF Quote, Mapped, Body, Then, Char, QuoteMark
  <1>6. Char(QuoteMark) \in Str(S) /\ Body(S, x) \in Str(S)
    BY <1>1, StrTyped, BodyProperties
  <1> QED BY <1>5, <1>6, StrThen

LEMMA WithoutQuoting ==
  ASSUME NEW S, NEW x \in Str(S)
  PROVE  ToSet(x) \cap Quoting = {} => x \in Str(S \ Quoting)
  BY DEF Str, ToSet

LEMMA StrMonotone ==
  ASSUME NEW S, NEW R, R \subseteq S
  PROVE  Str(R) \subseteq Str(S)
  BY DEF Str

(* An argument without a character that asks for quotes is written as it   *)
(* is, but for the doubling.                                               *)
LEMMA EscapeIs ==
  ASSUME NEW S, Specials \subseteq S, NEW x \in Str(S)
  PROVE  /\ EscapeExecArg(x) \in Str(S)
         /\ \/ EscapeExecArg(x) = Double(x) /\ Double(x) \in Str(S \ Quoting)
            \/ EscapeExecArg(x) = Then(Char(QuoteMark), Then(Body(S, Double(x)), Char(QuoteMark)))
  <1>1. Double(x) \in Str(S)
    BY DoubleIsMapped
  <1>2. CASE ToSet(x) \cap Quoting = {}
    <2>1. x \in Str(S \ Quoting)
      BY <1>2, WithoutQuoting
    <2>2. Double(x) \in Str(S \ Quoting)
      BY <2>1, DoubleIsMapped
    <2> QED BY <1>1, <1>2, <2>2 DEF EscapeExecArg
  <1>3. CASE ToSet(x) \cap Quoting # {}
    <2>1. EscapeExecArg(x) = Then(Char(QuoteMark), Then(Body(S, Double(x)), Char(QuoteMark)))
      BY <1>1, <1>3, QuoteIs DEF EscapeExecArg
    <2>2. QuoteMark \in S
      BY DEF Specials, Quoting, QuoteMark
    <2>3. Char(QuoteMark) \in Str(S) /\ Body(S, Double(x)) \in Str(S)
      BY <1>1, <2>2, BodyProperties, StrTyped
    <2>4. EscapeExecArg(x) \in Str(S)
      BY <2>1, <2>3, StrTyped
    <2> QED BY <2>1, <2>4
  <1> QED BY <1>2, <1>3

LEMMA FlattenFirst ==
  ASSUME NEW S, NEW seqs \in Seq(Seq(S)), NEW rest \in Seq(Seq(S)),
         Len(seqs) = Len(rest) + 1,
         \A i \in 1..Len(rest) : seqs[i + 1] = rest[i]
  PROVE  FlattenSeq(seqs) = Then(seqs[1], FlattenSeq(rest))
  <1>1. PICK head \in Str(S), n \in Nat :
          head = seqs[1] /\ n = Len(rest) /\ Len(seqs) = n + 1
    BY DEF Str
  <1>2. Char(head) \in Str(Str(S)) /\ Len(Char(head)) = 1 /\ Char(head)[1] = head
    BY StrTyped DEF Char
  <1>3. PICK one \in Seq(Seq(S)) : one = Char(head) /\ Len(one) = 1 /\ one[1] = head
    BY <1>2 DEF Str
  <1>4. PICK both \in Seq(Seq(S)) :
          /\ both = Then(one, rest) /\ Len(both) = n + 1 /\ both[1] = head
    <2>1. Then(one, rest) \in Seq(Seq(S)) /\ Len(Then(one, rest)) = Len(one) + Len(rest)
          /\ \A i \in 1..Len(one) : Then(one, rest)[i] = one[i]
      BY ThenProperties
    <2> QED BY <1>1, <1>3, <2>1
  <1>5. ASSUME NEW i \in 1..n PROVE both[i + 1] = rest[i]
    <2>1. PICK j : j = Len(one) + i
      OBVIOUS
    <2>2. i \in 1..Len(rest)
      BY <1>1
    <2>3. Then(one, rest)[j] = rest[i]
      BY ONLY <2>1, <2>2, one \in Seq(Seq(S)), rest \in Seq(Seq(S)), ThenAfter
    <2> QED BY <1>3, <1>4, <2>1, <2>3
  <1>6. ASSUME NEW j \in 1..n + 1 PROVE both[j] = seqs[j]
    <2>1. CASE j = 1
      BY <1>1, <1>4, <2>1
    <2>2. CASE j # 1
      <3>1. PICK i \in 1..n : j = i + 1
        <4>1. j - 1 \in 1..n /\ j = (j - 1) + 1
          BY <2>2
        <4> QED BY <4>1
      <3>2. seqs[i + 1] = rest[i]
        BY <1>1
      <3> QED BY <1>5, <3>1, <3>2
    <2> QED BY <2>1, <2>2
  <1>7. both = seqs
    <2>1. Len(both) = Len(seqs) /\ \A j \in 1..Len(both) : both[j] = seqs[j]
      BY <1>1, <1>4, <1>6
    <2> QED BY <2>1, SeqEqual
  <1>8. FlattenSeq(both) = Then(FlattenSeq(one), FlattenSeq(rest))
    BY <1>4, FlattenThen
  <1>9. FlattenSeq(one) = seqs[1]
    BY <1>1, <1>3, FlattenOne DEF Str, Char
  <1> QED BY <1>7, <1>8, <1>9

(* What follows the k-th argument in the line.                             *)
Following(args, k) ==
  FlattenSeq([i \in 1..Len(args) - k |-> Then(Char(Blank), EscapeExecArg(args[k + i]))])

LEMMA LineIs ==
  ASSUME NEW S, Specials \subseteq S, NEW args \in Seq(Str(S)), NEW n \in Nat, n = Len(args), n > 0
  PROVE  /\ ExecLine(args) = Then(EscapeExecArg(args[1]), Following(args, 1))
         /\ Following(args, n) = <<>>
         /\ \A k \in 1..n : Following(args, k) \in Str(S)
         /\ \A k \in 1..n - 1 :
              Following(args, k)
                = Then(Char(Blank), Then(EscapeExecArg(args[k + 1]), Following(args, k + 1)))
  <1> DEFINE E(k) == EscapeExecArg(args[k])
             Piece(k) == Then(Char(Blank), E(k))
             Pieces(k) == [i \in 1..Len(args) - k |-> Piece(k + i)]
  <1>1. \A k \in 1..n : args[k] \in Str(S)
    OBVIOUS
  <1>2. \A k \in 1..n : E(k) \in Str(S)
    BY <1>1, EscapeIs
  <1>3. Char(Blank) \in Str(S)
    BY StrTyped DEF Specials, Quoting, Blank
  <1>4. \A k \in 1..n : Piece(k) \in Str(S)
    BY <1>2, <1>3, StrTyped
  <1> HIDE DEF E, Piece
  <1>5. ASSUME NEW k \in 1..n
        PROVE  /\ Pieces(k) \in Seq(Seq(S)) /\ Len(Pieces(k)) = n - k
               /\ \A i \in 1..n - k : Pieces(k)[i] = Piece(k + i)
    <2>1. n - k \in Nat /\ \A i \in 1..n - k : Piece(k + i) \in Seq(S)
      BY <1>4 DEF Str
    <2> QED BY <2>1
  <1>6. \A k \in 1..n : Following(args, k) = FlattenSeq(Pieces(k))
    BY DEF Following, Piece, E
  <1> HIDE DEF Pieces
  <1>7. \A k \in 1..n : Following(args, k) \in Str(S)
    BY <1>5, <1>6, FlattenTyped DEF Str
  <1>8. Following(args, n) = <<>>
    <2>1. n \in 1..n /\ Len(Pieces(n)) = 0 /\ Pieces(n) \in Seq(Seq(S))
      BY <1>5
    <2> QED BY <1>6, <2>1, EmptySeq, FlattenNone
  <1>9. ASSUME NEW k \in 1..n - 1
        PROVE  Following(args, k) = Then(Char(Blank), Then(E(k + 1), Following(args, k + 1)))
    <2>1. k \in 1..n /\ k + 1 \in 1..n
      OBVIOUS
    <2>2. ASSUME NEW i \in 1..Len(Pieces(k + 1)) PROVE Pieces(k)[i + 1] = Pieces(k + 1)[i]
      <3>1. i \in 1..n - (k + 1) /\ i + 1 \in 1..n - k /\ k + (i + 1) = (k + 1) + i
        BY <1>5, <2>1
      <3> QED BY <1>5, <2>1, <3>1
    <2>3. FlattenSeq(Pieces(k)) = Then(Pieces(k)[1], FlattenSeq(Pieces(k + 1)))
      <3>1. Len(Pieces(k)) = Len(Pieces(k + 1)) + 1
        BY <1>5, <2>1
      <3>2. Pieces(k) \in Seq(Seq(S)) /\ Pieces(k + 1) \in Seq(Seq(S))
        BY <1>5, <2>1
      <3> QED BY <2>2, <3>1, <3>2, FlattenFirst
    <2>4. Pieces(k)[1] = Piece(k + 1)
      <3>1. 1 \in 1..n - k
        OBVIOUS
      <3> QED BY <1>5, <2>1, <3>1
    <2>5. Following(args, k) = Then(Piece(k + 1), Following(args, k + 1))
      BY <1>6, <2>1, <2>3, <2>4
    <2> QED BY <1>2, <1>3, <1>7, <2>1, <2>5, StrThen DEF Piece
  <1>10. ExecLine(args) = Then(E(1), Following(args, 1))
    <2> DEFINE Whole(k) == (IF k = 1 THEN <<>> ELSE <<" ">>) \o EscapeExecArg(args[k])
               All == [k \in DOMAIN args |-> Whole(k)]
    <2>0. ExecLine(args) = FlattenSeq(All)
      BY DEF ExecLine
    <2>a. ASSUME NEW k \in 1..n PROVE Whole(k) = IF k = 1 THEN E(1) ELSE Piece(k)
      <3>1. CASE k = 1
        <4>1. Whole(k) = Then(<<>>, E(1))
          BY <3>1 DEF Then, E
        <4>2. Then(<<>>, E(1)) = E(1)
          BY <1>2, StrThen
        <4> QED BY <3>1, <4>1, <4>2
      <3>2. CASE k # 1
        BY <3>2 DEF Then, Char, Blank, Piece, E
      <3> QED BY <3>1, <3>2
    <2> HIDE DEF Whole
    <2>1. \A k \in 1..n : All[k] = IF k = 1 THEN E(1) ELSE Piece(k)
      BY <2>a
    <2>2. All \in Seq(Seq(S)) /\ Len(All) = n
      <3>1. \A k \in 1..n : Whole(k) \in Seq(S)
        BY <1>2, <1>4, <2>a DEF Str
      <3> QED BY <3>1
    <2> HIDE DEF All
    <2>4. 1 \in 1..n /\ Pieces(1) \in Seq(Seq(S)) /\ Len(Pieces(1)) = n - 1
      BY <1>5
    <2>5. ASSUME NEW i \in 1..Len(Pieces(1)) PROVE All[i + 1] = Pieces(1)[i]
      <3>1. i \in 1..n - 1 /\ i + 1 \in 1..n /\ i + 1 # 1 /\ 1 + i = i + 1
        BY <2>4
      <3> QED BY <1>5, <2>1, <2>4, <3>1
    <2>6. Len(All) = Len(Pieces(1)) + 1
      BY <2>2, <2>4
    <2>7. FlattenSeq(All) = Then(All[1], FlattenSeq(Pieces(1)))
      BY <2>2, <2>4, <2>5, <2>6, FlattenFirst
    <2> QED BY <1>6, <2>0, <2>1, <2>4, <2>7
  <1> QED BY <1>7, <1>8, <1>9, <1>10 DEF E

-----------------------------------------------------------------------------
(* The reader, between two characters of the line ln that spells args: the *)
(* first k - 1 arguments are read, still doubled; of the k-th, d is read   *)
(* and r is ahead, outside quotes, at the opening quote, or inside.        *)

Ahead(ln, p) == SubSeq(ln, p, Len(ln))
Close(args, k) == Then(Char(QuoteMark), Following(args, k))

Plain(S, args, ln, p, q, k, d, r) ==
  q = FALSE /\ r \in Str(S \ Quoting) /\ Ahead(ln, p) = Then(r, Following(args, k))

Opening(S, args, ln, p, q, k, d, r) ==
  /\ q = FALSE /\ d = <<>>
  /\ Ahead(ln, p) = Then(Char(QuoteMark), Then(Body(S, r), Close(args, k)))

Quoted(S, args, ln, p, q, k, d, r) ==
  q = TRUE /\ Ahead(ln, p) = Then(Body(S, r), Close(args, k))

AllDoubled(args, k) == [j \in 1..k |-> Double(args[j])]

Scanning(S, args, ln, p, q, cur, av) ==
  \E k \in 1..Len(args), d \in Str(S), r \in Str(S) :
    /\ Double(args[k]) = Then(d, r) /\ cur = d
    /\ av = AllDoubled(args, k - 1)
    /\ \/ Plain(S, args, ln, p, q, k, d, r)
       \/ Opening(S, args, ln, p, q, k, d, r)
       \/ Quoted(S, args, ln, p, q, k, d, r)

(* The five things that can be ahead.                                      *)
EndAhead(args, ln, p, q, cur, av) ==
  /\ p > Len(ln) /\ cur # <<>> /\ Append(av, cur) = AllDoubled(args, Len(args))

BlankAhead(S, args, ln, p, q, cur, av) ==
  /\ p <= Len(ln) /\ q = FALSE /\ ln[p] = Blank /\ cur # <<>>
  /\ Scanning(S, args, ln, p + 1, FALSE, <<>>, Append(av, cur))

MarkAhead(S, args, ln, p, q, cur, av) ==
  /\ p <= Len(ln) /\ ln[p] = QuoteMark
  /\ Scanning(S, args, ln, p + 1, ~q, cur, av)

EscapeAhead(S, args, ln, p, q, cur, av) ==
  /\ p + 1 <= Len(ln) /\ q = TRUE /\ ln[p] = Backslash /\ ln[p + 1] \in {QuoteMark, Backslash}
  /\ Scanning(S, args, ln, p + 2, q, Append(cur, ln[p + 1]), av)

OtherAhead(S, args, ln, p, q, cur, av) ==
  /\ p <= Len(ln) /\ ln[p] # QuoteMark
  /\ IF q THEN ln[p] # Backslash ELSE ln[p] # Blank
  /\ Scanning(S, args, ln, p + 1, q, Append(cur, ln[p]), av)

LEMMA AppendIsThen ==
  ASSUME NEW S, NEW s \in Str(S), NEW c \in S
  PROVE  Append(s, c) = Then(s, Char(c)) /\ Append(s, c) \in Str(S)
  <1>1. Append(s, c) = Then(s, Char(c))
    BY AppendIsConcat DEF Str, Then, Char
  <1> QED BY <1>1, ThenChar

LEMMA AllDoubledGrows ==
  ASSUME NEW S, NEW args \in Seq(Str(S)), NEW k \in 1..Len(args)
  PROVE  Append(AllDoubled(args, k - 1), Double(args[k])) = AllDoubled(args, k)
  <1>1. \A j \in 1..Len(args) : Double(args[j]) \in Str(S)
    BY DoubleIsMapped
  <1>2. k \in Nat /\ k - 1 \in Nat /\ Len(args) \in Nat
    OBVIOUS
  <1>3. AllDoubled(args, k - 1) \in Seq(Str(S)) /\ Len(AllDoubled(args, k - 1)) = k - 1
    BY <1>1, <1>2 DEF AllDoubled
  <1>4. AllDoubled(args, k) \in Seq(Str(S)) /\ Len(AllDoubled(args, k)) = k
    BY <1>1, <1>2 DEF AllDoubled
  <1>5. PICK u \in Seq(Str(S)) :
          /\ u = Append(AllDoubled(args, k - 1), Double(args[k])) /\ Len(u) = k
          /\ \A j \in 1..k - 1 : u[j] = AllDoubled(args, k - 1)[j]
          /\ u[k] = Double(args[k])
    <2>1. PICK e \in Str(S), s \in Seq(Str(S)), m \in Nat :
            e = Double(args[k]) /\ s = AllDoubled(args, k - 1) /\ m = Len(s) /\ k = m + 1 /\ m = k - 1
      BY <1>1, <1>2, <1>3
    <2>2. PICK u \in Seq(Str(S)) :
            /\ u = Append(s, e) /\ Len(u) = m + 1 /\ u[m + 1] = e
            /\ \A j \in 1..m : u[j] = s[j]
      <3>1. Append(s, e) \in Seq(Str(S)) /\ Len(Append(s, e)) = m + 1
            /\ Append(s, e)[m + 1] = e /\ \A j \in 1..m : Append(s, e)[j] = s[j]
        BY ONLY <2>1, e \in Str(S), s \in Seq(Str(S)), m \in Nat
      <3> QED BY <3>1
    <2>3. /\ u = Append(AllDoubled(args, k - 1), Double(args[k])) /\ Len(u) = k
          /\ \A j \in 1..k - 1 : u[j] = AllDoubled(args, k - 1)[j]
      BY <2>1, <2>2
    <2>4. u[k] = Double(args[k])
      BY <2>1, <2>2
    <2> QED BY <2>3, <2>4
  <1>6. ASSUME NEW j \in 1..k PROVE u[j] = AllDoubled(args, k)[j]
    BY <1>5, <1>2 DEF AllDoubled
  <1>7. u = AllDoubled(args, k)
    BY <1>4, <1>5, <1>6, SeqEqual
  <1> QED BY <1>5, <1>7

LEMMA DoubleNotEmpty ==
  ASSUME NEW S, Specials \subseteq S, NEW x \in Str(S), x # <<>>
  PROVE  Double(x) # <<>>
  <1>1. Halve(Double(x)) = x /\ Halve(Double(<<>>)) = <<>> /\ <<>> \in Str(S)
    BY HalvingUndoesDoubling, StrTyped DEF Specials
  <1>2. Double(<<>>) = <<>>
    BY <1>1, DoubleIsMapped, MappedThen
  <1> QED BY <1>1, <1>2

(* At the escape of the k-th argument, its first character is ahead.       *)
LEMMA ArgumentStarts ==
  ASSUME NEW S, Specials \subseteq S, NEW args \in Seq(Str(S)), NEW k \in 1..Len(args),
         NEW ln \in Str(S), NEW p,
         Ahead(ln, p) = Then(EscapeExecArg(args[k]), Following(args, k))
  PROVE  Scanning(S, args, ln, p, FALSE, <<>>, AllDoubled(args, k - 1))
  <1> DEFINE E == EscapeExecArg(args[k])
             G == Following(args, k)
             D == Double(args[k])
  <1>1. args[k] \in Str(S) /\ Len(args) \in Nat /\ Len(args) > 0
    OBVIOUS
  <1>2. D \in Str(S) /\ D = Then(<<>>, D) /\ <<>> \in Str(S)
    BY <1>1, DoubleIsMapped, StrTyped, StrThen
  <1>3. G \in Str(S) /\ QuoteMark \in S
    BY <1>1, LineIs DEF Specials, Quoting, QuoteMark
  <1>4. \/ Plain(S, args, ln, p, FALSE, k, <<>>, D)
        \/ Opening(S, args, ln, p, FALSE, k, <<>>, D)
    <2>1. CASE E = D /\ D \in Str(S \ Quoting)
      BY <2>1 DEF Plain
    <2>2. CASE E = Then(Char(QuoteMark), Then(Body(S, D), Char(QuoteMark)))
      <3>1. Char(QuoteMark) \in Str(S) /\ Body(S, D) \in Str(S)
        BY <1>2, <1>3, StrTyped, BodyProperties
      <3>2. Then(Body(S, D), Char(QuoteMark)) \in Str(S)
        BY <3>1, StrTyped
      <3>3. Then(E, G) = Then(Char(QuoteMark), Then(Then(Body(S, D), Char(QuoteMark)), G))
        BY <1>3, <2>2, <3>1, <3>2, StrThen
      <3>4. Then(Then(Body(S, D), Char(QuoteMark)), G)
              = Then(Body(S, D), Then(Char(QuoteMark), G))
        BY <1>3, <3>1, StrThen
      <3> QED BY <3>3, <3>4 DEF Opening, Close
    <2> QED BY <1>1, <2>1, <2>2, EscapeIs
  <1> QED BY <1>2, <1>4 DEF Scanning

LEMMA WhatIsAhead ==
  ASSUME NEW S, Specials \subseteq S,
         NEW args \in Seq(Str(S)), \A k \in 1..Len(args) : args[k] # <<>>,
         NEW ln \in Str(S), NEW p \in 1..Len(ln) + 1, NEW q \in BOOLEAN,
         NEW cur, NEW av, Scanning(S, args, ln, p, q, cur, av)
  PROVE  \/ EndAhead(args, ln, p, q, cur, av)
         \/ BlankAhead(S, args, ln, p, q, cur, av)
         \/ MarkAhead(S, args, ln, p, q, cur, av)
         \/ EscapeAhead(S, args, ln, p, q, cur, av)
         \/ OtherAhead(S, args, ln, p, q, cur, av)
  <1>1. PICK k \in 1..Len(args), d \in Str(S), r \in Str(S) :
          /\ Double(args[k]) = Then(d, r) /\ cur = d
          /\ av = AllDoubled(args, k - 1)
          /\ \/ Plain(S, args, ln, p, q, k, d, r)
             \/ Opening(S, args, ln, p, q, k, d, r)
             \/ Quoted(S, args, ln, p, q, k, d, r)
    BY DEF Scanning
  <1>2. PICK n \in Nat : n = Len(args) /\ n > 0 /\ k \in 1..n
    OBVIOUS
  <1> DEFINE F == Following(args, k)
             C == Close(args, k)
  <1>3. /\ QuoteMark \in S /\ Backslash \in S /\ Blank \in S
        /\ QuoteMark # Backslash /\ QuoteMark # Blank
        /\ QuoteMark \in Quoting /\ Blank \in Quoting
    BY DEF Specials, Quoting, QuoteMark, Backslash, Blank
  <1>4. F \in Str(S) /\ C \in Str(S) /\ <<>> \in Str(S)
    BY <1>2, <1>3, LineIs, StrTyped DEF Close
  <1>5. args[k] \in Str(S) /\ args[k] # <<>>
    OBVIOUS
  <1>6. Str(S \ Quoting) \subseteq Str(S)
    BY StrMonotone
  (* One more character of the k-th argument.                              *)
  <1>7. ASSUME NEW c \in S, NEW t \in Str(S), r = Then(Char(c), t)
        PROVE  /\ Append(cur, c) \in Str(S)
               /\ Double(args[k]) = Then(Append(cur, c), t)
    <2>1. Append(cur, c) = Then(d, Char(c)) /\ Append(cur, c) \in Str(S)
      BY <1>1, AppendIsThen
    <2>2. Then(Then(d, Char(c)), t) = Then(d, Then(Char(c), t))
      BY StrTyped, StrThen
    <2> QED BY <1>1, <1>7, <2>1, <2>2
  <1>8. CASE Plain(S, args, ln, p, q, k, d, r) /\ r = <<>>
    <2>1. cur = Double(args[k]) /\ cur # <<>>
      BY <1>1, <1>5, <1>8, StrThen, DoubleNotEmpty
    <2>2. Append(av, cur) = AllDoubled(args, k)
      BY <1>1, <2>1, AllDoubledGrows
    <2>3. Ahead(ln, p) = F
      BY <1>4, <1>8, StrThen DEF Plain
    <2>4. CASE k = n
      <3>1. p > Len(ln)
        BY <1>2, <2>3, <2>4, LineIs, Peeled DEF Ahead
      <3> QED BY <1>2, <2>1, <2>2, <2>4, <3>1 DEF EndAhead
    <2>5. CASE k # n
      <3> DEFINE E == EscapeExecArg(args[k + 1])
                 G == Following(args, k + 1)
      <3>1. k \in 1..n - 1 /\ k + 1 \in 1..n /\ (k + 1) - 1 = k
        BY <1>2, <2>5
      <3>2. F = Then(Char(Blank), Then(E, G)) /\ G \in Str(S)
        BY <1>2, <3>1, LineIs
      <3>3. args[k + 1] \in Str(S)
        BY <1>2, <3>1
      <3>4. E \in Str(S) /\ Then(E, G) \in Str(S)
        BY <3>2, <3>3, EscapeIs, StrTyped
      <3>5. p <= Len(ln) /\ ln[p] = Blank /\ Ahead(ln, p + 1) = Then(E, G)
        BY <1>3, <2>3, <3>2, <3>4, Peel DEF Ahead
      <3>8. Scanning(S, args, ln, p + 1, FALSE, <<>>, AllDoubled(args, k))
        <4>1. PICK m \in 1..Len(args) : m = k + 1 /\ k = m - 1
          BY <1>2, <3>1
        <4>2. Ahead(ln, p + 1) = Then(EscapeExecArg(args[m]), Following(args, m))
          BY <3>5, <4>1
        <4> HIDE DEF E, G, F, C
        <4>3. Scanning(S, args, ln, p + 1, FALSE, <<>>, AllDoubled(args, m - 1))
          BY <4>2, ArgumentStarts
        <4> QED BY <4>1, <4>3
      <3> QED BY <1>8, <2>1, <2>2, <3>5, <3>8 DEF BlankAhead, Plain
    <2> QED BY <2>4, <2>5
  <1>9. CASE Plain(S, args, ln, p, q, k, d, r) /\ r # <<>>
    <2>1. PICK c \in S \ Quoting, t \in Str(S \ Quoting) : r = Then(Char(c), t)
      BY <1>9, StrFirst DEF Plain
    <2>2. c \in S /\ t \in Str(S) /\ c # QuoteMark /\ c # Blank
      BY <1>3, <1>6
    <2>3. Ahead(ln, p) = Then(Char(c), Then(t, F)) /\ Then(t, F) \in Str(S)
      <3>1. Then(Then(Char(c), t), F) = Then(Char(c), Then(t, F))
        BY <1>4, <2>2, StrTyped, StrThen
      <3> QED BY <1>4, <1>9, <2>1, <2>2, <3>1, StrTyped DEF Plain
    <2>4. p <= Len(ln) /\ ln[p] = c /\ Ahead(ln, p + 1) = Then(t, F)
      BY <2>2, <2>3, Peel DEF Ahead
    <2>5. Plain(S, args, ln, p + 1, q, k, Append(cur, c), t)
      BY <1>9, <2>1, <2>4 DEF Plain
    <2>6. Scanning(S, args, ln, p + 1, q, Append(cur, c), av)
      BY <1>1, <1>7, <2>1, <2>2, <2>5 DEF Scanning
    <2> QED BY <1>9, <2>2, <2>4, <2>6 DEF OtherAhead, Plain
  <1>10. CASE Opening(S, args, ln, p, q, k, d, r)
    <2>1. Then(Body(S, r), C) \in Str(S)
      BY <1>4, BodyProperties, StrTyped
    <2>2. p <= Len(ln) /\ ln[p] = QuoteMark /\ Ahead(ln, p + 1) = Then(Body(S, r), C)
      BY <1>3, <1>10, <2>1, Peel DEF Ahead, Opening
    <2>3. Quoted(S, args, ln, p + 1, ~q, k, d, r)
      BY <1>10, <2>2 DEF Quoted, Opening
    <2>4. Scanning(S, args, ln, p + 1, ~q, cur, av)
      BY <1>1, <2>3 DEF Scanning
    <2> QED BY <2>2, <2>4 DEF MarkAhead
  <1>11. CASE Quoted(S, args, ln, p, q, k, d, r) /\ r = <<>>
    <2>1. Ahead(ln, p) = Then(Char(QuoteMark), F)
      <3>1. Then(Body(S, r), C) = C
        BY <1>4, <1>11, BodyProperties, StrThen
      <3> QED BY <1>11, <3>1 DEF Quoted, Close
    <2>2. p <= Len(ln) /\ ln[p] = QuoteMark /\ Ahead(ln, p + 1) = F
      BY <1>3, <1>4, <2>1, Peel DEF Ahead
    <2>3. Plain(S, args, ln, p + 1, ~q, k, d, r)
      <3>1. r \in Str(S \ Quoting) /\ Then(r, F) = F
        BY <1>4, <1>11, StrTyped, StrThen
      <3> QED BY <1>11, <2>2, <3>1 DEF Plain, Quoted
    <2>4. Scanning(S, args, ln, p + 1, ~q, cur, av)
      BY <1>1, <2>3 DEF Scanning
    <2> QED BY <2>2, <2>4 DEF MarkAhead
  <1>12. CASE Quoted(S, args, ln, p, q, k, d, r) /\ r # <<>>
    <2>1. PICK c \in S, t \in Str(S) : r = Then(Char(c), t)
      BY <1>12, StrFirst
    <2> DEFINE X == Then(Body(S, t), C)
    <2>2. X \in Str(S) /\ Body(S, t) \in Str(S) /\ Char(c) \in Str(S) /\ Char(Backslash) \in Str(S)
      BY <1>3, <1>4, BodyProperties, StrTyped
    <2>3. Ahead(ln, p) = Then(Then(Escaped(c), Body(S, t)), C)
      BY <1>12, <2>1, BodyProperties DEF Quoted
    <2>4. CASE c \in {QuoteMark, Backslash}
      <3>1. Escaped(c) = Then(Char(Backslash), Char(c))
        BY <2>4 DEF Escaped, QuoteMark, Backslash
      <3>2. Then(Then(Char(Backslash), Char(c)), Body(S, t))
              = Then(Char(Backslash), Then(Char(c), Body(S, t)))
        BY <2>2, StrThen
      <3>3. Then(Char(c), Body(S, t)) \in Str(S)
        BY <2>2, StrTyped
      <3>4. Then(Then(Char(Backslash), Then(Char(c), Body(S, t))), C)
              = Then(Char(Backslash), Then(Then(Char(c), Body(S, t)), C))
        BY <1>4, <2>2, <3>3, StrThen
      <3>5. Then(Then(Char(c), Body(S, t)), C) = Then(Char(c), X)
        BY <1>4, <2>2, StrThen
      <3>6. Ahead(ln, p) = Then(Char(Backslash), Then(Char(c), X))
        BY <2>3, <3>1, <3>2, <3>4, <3>5
      <3>7. Then(Char(c), X) \in Str(S)
        BY <2>2, StrTyped
      <3>8. /\ p <= Len(ln) /\ p + 1 \in 1..Len(ln) + 1 /\ ln[p] = Backslash
            /\ Ahead(ln, p + 1) = Then(Char(c), X)
        BY <1>3, <3>6, <3>7, Peel DEF Ahead
      <3>9. p + 1 <= Len(ln) /\ ln[p + 1] = c /\ Ahead(ln, (p + 1) + 1) = X
        <4>1. PICK o \in 1..Len(ln) + 1 : o = p + 1
          BY <3>8
        <4>2. Ahead(ln, o) = Then(Char(c), X)
          BY <3>8, <4>1
        <4> HIDE DEF X, F, C
        <4>3. o <= Len(ln) /\ ln[o] = c /\ Ahead(ln, o + 1) = X
          BY <2>2, <4>2, Peel DEF Ahead
        <4> QED BY <4>1, <4>3
      <3>10. (p + 1) + 1 = p + 2
        OBVIOUS
      <3>11. Quoted(S, args, ln, p + 2, q, k, Append(cur, c), t)
        BY <1>12, <3>9, <3>10 DEF Quoted
      <3>12. Scanning(S, args, ln, p + 2, q, Append(cur, c), av)
        BY <1>1, <1>7, <2>1, <3>11 DEF Scanning
      <3> QED BY <1>12, <2>4, <3>8, <3>9, <3>12 DEF EscapeAhead, Quoted
    <2>5. CASE c \notin {QuoteMark, Backslash}
      <3>1. Escaped(c) = Char(c)
        BY <2>5 DEF Escaped, QuoteMark, Backslash
      <3>2. Ahead(ln, p) = Then(Char(c), X)
        BY <1>4, <2>2, <2>3, <3>1, StrThen
      <3>3. p <= Len(ln) /\ ln[p] = c /\ Ahead(ln, p + 1) = X
        BY <2>2, <3>2, Peel DEF Ahead
      <3>4. Quoted(S, args, ln, p + 1, q, k, Append(cur, c), t)
        BY <1>12, <3>3 DEF Quoted
      <3>5. Scanning(S, args, ln, p + 1, q, Append(cur, c), av)
        BY <1>1, <1>7, <2>1, <3>4 DEF Scanning
      <3> QED BY <1>12, <2>5, <3>3, <3>5 DEF OtherAhead, Quoted
    <2> QED BY <2>4, <2>5
  <1> QED BY <1>1, <1>8, <1>9, <1>10, <1>11, <1>12

-----------------------------------------------------------------------------
(* The argv of a config that passes Validate has no empty argument.        *)

(* What a text is made of: strings, those that the model writes among them *)
(* (the prover does not know a literal for a member of STRING), and what   *)
(* ToText writes for a number.                                             *)
Symbols ==
  STRING \cup Specials \cup {"-", "=", "1", "engine", "fill", "border"}
    \cup {Canonical(row)[1] : row \in Rows}
    \cup {Numeral[m] : m \in Int}

AnyText == Str(Symbols)
Arg == AnyText \ {<<>>}

LEMMA SymbolsHave ==
  /\ Specials \subseteq Symbols
  /\ {"-", "=", "1", "engine", "fill", "border"} \subseteq Symbols
  /\ AnyString \subseteq AnyText
  <1>1. STRING \subseteq Symbols
    BY Zenon DEF Symbols
  <1>2. /\ Specials \subseteq Symbols
        /\ {"-", "=", "1", "engine", "fill", "border"} \subseteq Symbols
    BY Zenon DEF Symbols
  <1>3. AnyString \subseteq AnyText
    BY <1>1, StrMonotone DEF AnyString, AnyText, Str
  <1> QED BY <1>2, <1>3

LEMMA PairTyped ==
  ASSUME NEW S, NEW b \in S, NEW c \in S
  PROVE  <<b, c>> \in Seq(S)
  <1>1. Char(b) \in Str(S) /\ Char(c) \in Str(S)
    BY StrTyped
  <1>2. Then(Char(b), Char(c)) \in Str(S)
    BY <1>1, StrTyped
  <1> QED BY <1>2, ThenPair DEF Str

LEMMA OneTyped ==
  ASSUME NEW S, NEW b \in S
  PROVE  <<b>> \in Seq(S) /\ <<b>> # <<>> /\ <<b>>[1] = b
  <1>1. <<b>> # <<>> /\ <<b>>[1] = b
    OBVIOUS
  <1> QED BY <1>1, StrTyped DEF Str, Char

LEMMA PairNotEmpty ==
  ASSUME NEW b, NEW c
  PROVE  <<b, c>> # <<>> /\ <<b, c>>[1] = b
  OBVIOUS

LEMMA ToTextTyped ==
  ASSUME NEW n \in Int
  PROVE  ToText(n) \in Arg
  <1> DEFINE numeral(m) == Numeral[m]
  <1>1. \A m \in Int : numeral(m) \in Symbols
    BY Zenon DEF Symbols
  <1>2. ToText(n) = IF n < 0 THEN <<"-", numeral(-n)>> ELSE <<numeral(n)>>
    BY DEF ToText
  <1> HIDE DEF numeral
  <1>3. "-" \in Symbols /\ numeral(n) \in Symbols /\ numeral(-n) \in Symbols
    <2>1. -n \in Int
      OBVIOUS
    <2> QED BY <1>1, <2>1, SymbolsHave
  <1>4. <<"-", numeral(-n)>> \in Arg
    BY <1>3, PairTyped, PairNotEmpty DEF Arg, AnyText, Str
  <1>5. <<numeral(n)>> \in Arg
    BY <1>3, OneTyped DEF Arg, AnyText, Str
  <1> QED BY <1>2, <1>4, <1>5

(* A row's first spelling, of one or of two.                               *)
LEMMA FirstWord ==
  ASSUME NEW row \in Rows, NEW a,
         row.flags = Words(<<a>>) \/ \E b : row.flags = Words(<<a, b>>)
  PROVE  Canonical(row) \in Arg
  <1>1. Words(<<a>>)[1] = <<a>> /\ \A b : Words(<<a, b>>)[1] = <<a>>
    <2>1. \A b : Words(<<a, b>>) = << <<a>>, <<b>> >>
      BY DEF Words
    <2>2. Words(<<a>>) = << <<a>> >>
      BY DEF Words
    <2> QED BY <2>1, <2>2
  <1>2. Canonical(row) = <<a>>
    BY <1>1 DEF Canonical
  <1>3. Canonical(row)[1] \in Symbols
    BY Zenon DEF Symbols
  <1>4. Canonical(row)[1] = a
    BY <1>2
  <1> QED BY <1>2, <1>3, <1>4, OneTyped DEF Arg, AnyText, Str

LEMMA MembersWritten ==
  /\ Canonical(ScreenSwitch) \in Arg
  /\ DOMAIN ScreenMembers = 1..3
  /\ \A m \in 1..3 : /\ Canonical(ScreenMembers[m]) \in Arg
                     /\ ScreenMembers[m].field \in {"background", "scaling", "clamp"}
  <1>1. Canonical(ScreenSwitch) \in Arg
    <2>1. ScreenSwitch.flags = Words(<<"--screen-root", "-r">>) /\ ScreenSwitch \in Rows
      BY DEF ScreenSwitch, Row, Rows
    <2> QED BY <2>1, FirstWord
  <1>2. DOMAIN ScreenMembers = 1..3
    BY DEF ScreenMembers
  <1>3. /\ ScreenMembers[1].flags = Words(<<"--bg", "-b">>)
        /\ ScreenMembers[2].flags = Words(<<"--scaling">>)
        /\ ScreenMembers[3].flags = Words(<<"--clamp">>)
    BY DEF ScreenMembers, Row
  <1>4. /\ ScreenMembers[1].field = "background"
        /\ ScreenMembers[2].field = "scaling"
        /\ ScreenMembers[3].field = "clamp"
    BY DEF ScreenMembers, Row
  <1>5. ASSUME NEW m \in 1..3
        PROVE  /\ Canonical(ScreenMembers[m]) \in Arg
               /\ ScreenMembers[m].field \in {"background", "scaling", "clamp"}
    <2>1. ScreenMembers[m] \in Rows
      BY <1>2 DEF Rows, ToSet
    <2>2. m = 1 \/ m = 2 \/ m = 3
      OBVIOUS
    <2>3. CASE m = 1
      BY <1>3, <1>4, <2>1, <2>3, FirstWord
    <2>4. CASE m = 2
      BY <1>3, <1>4, <2>1, <2>4, FirstWord
    <2>5. CASE m = 3
      BY <1>3, <1>4, <2>1, <2>5, FirstWord
    <2> QED BY <2>2, <2>3, <2>4, <2>5
  <1> QED BY <1>1, <1>2, <1>5

(* How a row of the global table is written. *)
Written(row) ==
  /\ Canonical(row) \in Arg
  /\ \/ row.arity = "Flag"
     \/ row.arity = "Repeated" /\ row.field = "properties"
     \/ row.arity = "Value" /\ row.field \in {"assetsDir", "fps", "volume"}

LEMMA GlobalsWritten ==
  /\ DOMAIN Globals = 1..12
  /\ \A i \in 1..12 : Written(Globals[i])
  <1> USE DEF Globals, Global, Negative, AudioOut, Row
  <1>1. DOMAIN Globals = 1..12
    OBVIOUS
  <1>2. /\ Globals[1].flags = Words(<<"--assets-dir">>)
        /\ Globals[2].flags = Words(<<"--fps", "-f">>)
        /\ Globals[3].flags = Words(<<"--no-fullscreen-pause">>)
        /\ Globals[4].flags = Words(<<"--noautomute">>)
    OBVIOUS
  <1>3. /\ Globals[5].flags = Words(<<"--no-audio-processing">>)
        /\ Globals[6].flags = Words(<<"--silent", "-s">>)
        /\ Globals[7].flags = Words(<<"--volume", "-v">>)
        /\ Globals[8].flags = Words(<<"--disable-particles">>)
    OBVIOUS
  <1>4. /\ Globals[9].flags = Words(<<"--disable-mouse">>)
        /\ Globals[10].flags = Words(<<"--disable-parallax">>)
        /\ Globals[11].flags = Words(<<"--set-property", "--property">>)
        /\ Globals[12].flags = Words(<<"--list-properties", "-l">>)
    OBVIOUS
  <1>5. /\ \A i \in {3, 4, 5, 6, 8, 9, 10, 12} : Globals[i].arity = "Flag"
        /\ \A i \in {1, 2, 7} : Globals[i].arity = "Value"
        /\ Globals[11].arity = "Repeated" /\ Globals[11].field = "properties"
    OBVIOUS
  <1>6. Globals[1].field = "assetsDir" /\ Globals[2].field = "fps" /\ Globals[7].field = "volume"
    OBVIOUS
  <1> HIDE DEF Globals, Global, Negative, AudioOut, Row
  <1>7. ASSUME NEW i \in 1..12 PROVE Written(Globals[i])
    <2>1. Canonical(Globals[i]) \in Arg
      <3>1. Globals[i] \in Rows
        BY <1>1 DEF Rows, ToSet
      <3>2. CASE i = 1
        BY <1>2, <3>1, <3>2, FirstWord
      <3>3. CASE i = 2
        BY <1>2, <3>1, <3>3, FirstWord
      <3>4. CASE i = 3
        BY <1>2, <3>1, <3>4, FirstWord
      <3>5. CASE i = 4
        BY <1>2, <3>1, <3>5, FirstWord
      <3>6. CASE i = 5
        BY <1>3, <3>1, <3>6, FirstWord
      <3>7. CASE i = 6
        BY <1>3, <3>1, <3>7, FirstWord
      <3>8. CASE i = 7
        BY <1>3, <3>1, <3>8, FirstWord
      <3>9. CASE i = 8
        BY <1>3, <3>1, <3>9, FirstWord
      <3>10. CASE i = 9
        BY <1>4, <3>1, <3>10, FirstWord
      <3>11. CASE i = 10
        BY <1>4, <3>1, <3>11, FirstWord
      <3>12. CASE i = 11
        BY <1>4, <3>1, <3>12, FirstWord
      <3>13. CASE i = 12
        BY <1>4, <3>1, <3>13, FirstWord
      <3>14. i \in {1, 2, 3, 4, 5, 6, 7, 8, 9, 10, 11, 12}
        OBVIOUS
      <3> QED BY <3>2, <3>3, <3>4, <3>5, <3>6, <3>7, <3>8, <3>9, <3>10, <3>11, <3>12, <3>13, <3>14
    <2>2. i \in {3, 4, 5, 6, 8, 9, 10, 12} \/ i \in {1, 2, 7} \/ i = 11
      OBVIOUS
    <2> QED BY <1>5, <1>6, <2>1, <2>2 DEF Written
  <1> QED BY <1>1, <1>7

LEMMA SeqMembers ==
  ASSUME NEW S, NEW s \in Seq(S)
  PROVE  ToSet(s) \subseteq S
  <1>1. \A i \in DOMAIN s : s[i] \in S
    OBVIOUS
  <1> QED BY <1>1 DEF ToSet

(* What Load gives, and what ToArguments makes of it. *)
Screens == [screen : AnyText, background : AnyText, scaling : AnyText, clamp : AnyText]
Properties == [key : AnyText, value : AnyText]

(* What a reader makes of them: a screen has a name, and a key no "=".     *)
NamedScreens == [screen : Arg, background : AnyText, scaling : AnyText, clamp : AnyText]
PlainProperties == {p \in Properties : ~Contains(p.key, "=")}

(* An int, which is a number that can be written or whose opposite can.    *)
LEMMA IntsWritten ==
  /\ IntLimit \in Nat /\ IntLimit > 30 /\ 0..30 \subseteq Ints /\ Ints \subseteq Int
  /\ \A n \in Ints : n \in DOMAIN Numeral \/ -n \in DOMAIN Numeral
  <1>1. IntLimit \in Nat /\ IntLimit > 30
    BY NumeralAssumption, ConstantsAssumption
  <1>2. ASSUME NEW n \in Ints PROVE n \in 0..IntLimit \/ -n \in 0..IntLimit
    BY <1>1, <1>2 DEF Ints
  <1>3. 0..30 \subseteq Ints /\ Ints \subseteq Int
    BY <1>1 DEF Ints
  <1> QED BY <1>1, <1>2, <1>3, NumeralAssumption

LoadedTyped(c) ==
  /\ {c.enginePath, c.assetsDir, c.scaling, c.clamp} \subseteq AnyText
  /\ c.screens \in Seq([screen : AnyText, wallpaper : AnyText])
  /\ c.fps \in Int /\ c.volume \in Int
  /\ c.properties \in Seq([wallpaper : AnyText, values : Seq(Properties)])

ArgumentsTyped(a) ==
  /\ a.screens \in Seq(Screens)
  /\ a.assetsDir \in AnyText /\ a.fps \in Int /\ a.volume \in Int
  /\ a.properties \in Seq(Properties)
  /\ a.backgroundId \in AnyText

(* A number that an int can hold is kept, any other made one that it can.  *)
LEMMA NarrowTyped ==
  ASSUME NEW n \in Int
  PROVE  Narrow(n) \in Ints /\ (n \in Ints => Narrow(n) = n)
  <1>1. IntLimit \in Nat /\ IntLimit > 0
    BY IntsWritten
  <1>2. PICK width \in Nat : width = 2 * IntLimit /\ width > 0
    BY <1>1
  <1>3. (n + IntLimit) % width \in 0..width - 1
    BY <1>1, <1>2
  <1>4. ASSUME n \in Ints PROVE (n + IntLimit) % width = n + IntLimit
    <2>1. n + IntLimit \in 0..width - 1
      BY <1>1, <1>2, <1>4 DEF Ints
    <2> QED BY <1>2, <2>1
  <1> QED BY <1>1, <1>2, <1>3, <1>4 DEF Narrow, Ints

LEMMA LoadIsTyped ==
  ASSUME NEW c \in Configs
  PROVE  LoadedTyped(Load(c))
  <1>1. \A f \in DOMAIN c : c[f] \in ConfigTypes[f]
    BY ConstantsAssumption
  <1>2. DOMAIN ConfigDefaults =
          {"enginePath", "assetsDir", "screens", "scaling", "clamp", "fps",
           "fullscreenPause", "automute", "audioProcessing", "volume", "silent",
           "disableParticles", "disableMouse", "disableParallax", "properties"}
    BY DEF ConfigDefaults
  <1> DEFINE l == Load(c)
  <1>3. \A f \in DOMAIN ConfigDefaults \ {"fps", "volume"} :
          l[f] = IF f \in DOMAIN c THEN c[f] ELSE ConfigDefaults[f]
    BY DEF Load
  <1>4. \A f \in {"fps", "volume"} :
          l[f] = IF f \in DOMAIN c THEN Narrow(c[f]) ELSE ConfigDefaults[f]
    BY <1>2 DEF Load
  <1> HIDE DEF l
  <1>5. {<<"engine">>, Empty, <<"fill">>, <<"border">>} \subseteq AnyText
    <2>1. Empty \in AnyText
      BY StrTyped DEF AnyText, Empty
    <2>2. <<"engine">> \in AnyText
      BY SymbolsHave, OneTyped DEF AnyText, Str
    <2>3. <<"fill">> \in AnyText
      BY SymbolsHave, OneTyped DEF AnyText, Str
    <2>4. <<"border">> \in AnyText
      BY SymbolsHave, OneTyped DEF AnyText, Str
    <2> QED BY <2>1, <2>2, <2>3, <2>4
  <1>6. l.enginePath \in AnyText
    BY <1>1, <1>2, <1>3, <1>5, SymbolsHave DEF ConfigTypes, ConfigDefaults
  <1>7. l.assetsDir \in AnyText
    BY <1>1, <1>2, <1>3, <1>5, SymbolsHave DEF ConfigTypes, ConfigDefaults
  <1>8. l.scaling \in AnyText
    BY <1>1, <1>2, <1>3, <1>5, SymbolsHave DEF ConfigTypes, ConfigDefaults
  <1>9. l.clamp \in AnyText
    BY <1>1, <1>2, <1>3, <1>5, SymbolsHave DEF ConfigTypes, ConfigDefaults
  <1>10. l.fps \in Int /\ l.volume \in Int
    <2>1. ConfigDefaults.fps \in Int /\ ConfigDefaults.volume \in Int
      BY DEF ConfigDefaults
    <2>2. ConfigTypes.fps = Int /\ ConfigTypes.volume = Int
      BY DEF ConfigTypes
    <2>3. Ints \subseteq Int
      BY IntsWritten
    <2> QED BY <1>1, <1>4, <2>1, <2>2, <2>3, NarrowTyped
  <1>11. l.screens \in Seq([screen : AnyText, wallpaper : AnyText])
    <2>1. Seq([screen : AnyString, wallpaper : AnyString])
            \subseteq Seq([screen : AnyText, wallpaper : AnyText])
      <3>1. [screen : AnyString, wallpaper : AnyString]
              \subseteq [screen : AnyText, wallpaper : AnyText]
        BY SymbolsHave
      <3> QED BY <3>1, StrMonotone DEF Str
    <2>2. l.screens = <<>> \/ l.screens \in Seq([screen : AnyString, wallpaper : AnyString])
      BY <1>1, <1>2, <1>3 DEF ConfigTypes, ConfigDefaults
    <2> QED BY <2>1, <2>2, EmptySeq
  <1>12. l.properties \in Seq([wallpaper : AnyText, values : Seq(Properties)])
    <2> DEFINE JsonProperties == [key : AnyString, value : AnyString]
    <2>1. Seq([wallpaper : AnyString, values : Seq(JsonProperties)])
            \subseteq Seq([wallpaper : AnyText, values : Seq(Properties)])
      <3>1. JsonProperties \subseteq Properties
        BY SymbolsHave DEF Properties
      <3>2. Seq(JsonProperties) \subseteq Seq(Properties)
        BY <3>1, StrMonotone DEF Str
      <3> HIDE DEF JsonProperties
      <3>3. [wallpaper : AnyString, values : Seq(JsonProperties)]
              \subseteq [wallpaper : AnyText, values : Seq(Properties)]
        BY <3>2, SymbolsHave
      <3> QED BY <3>3, StrMonotone DEF Str
    <2>2. l.properties = <<>>
          \/ l.properties \in Seq([wallpaper : AnyString, values : Seq(JsonProperties)])
      BY <1>1, <1>2, <1>3 DEF ConfigTypes, ConfigDefaults
    <2> QED BY <2>1, <2>2, EmptySeq
  <1> QED BY <1>6, <1>7, <1>8, <1>9, <1>10, <1>11, <1>12 DEF LoadedTyped, l

LEMMA ToArgumentsTyped ==
  ASSUME NEW c, LoadedTyped(c)
  PROVE  ArgumentsTyped(ToArguments(c))
  <1> DEFINE a == ToArguments(c)
             active == {s.wallpaper : s \in ToSet(c.screens)}
             screens == [k \in DOMAIN c.screens |->
                [screen |-> c.screens[k].screen, background |-> c.screens[k].wallpaper,
                 scaling |-> c.scaling, clamp |-> c.clamp]]
             values == [k \in DOMAIN c.properties |->
                IF c.properties[k].wallpaper \in active THEN c.properties[k].values ELSE <<>>]
  <1>1. /\ a.screens = screens /\ a.assetsDir = c.assetsDir /\ a.fps = c.fps
        /\ a.volume = c.volume /\ a.backgroundId = Empty
        /\ a.properties = FlattenSeq(values)
    BY DEF ToArguments, Defaults
  <1> HIDE DEF a, active
  <1>2. screens \in Seq(Screens)
    <2>0. c.screens \in Seq([screen : AnyText, wallpaper : AnyText])
      BY DEF LoadedTyped
    <2>1. PICK m \in Nat : m = Len(c.screens) /\ DOMAIN c.screens = 1..m
      BY <2>0
    <2>2. \A k \in 1..m : c.screens[k] \in [screen : AnyText, wallpaper : AnyText]
      BY ONLY <2>0, <2>1, ElementOfSeq
    <2>3. \A k \in 1..m :
            [screen |-> c.screens[k].screen, background |-> c.screens[k].wallpaper,
             scaling |-> c.scaling, clamp |-> c.clamp] \in Screens
      BY <2>2 DEF LoadedTyped, Screens
    <2> QED BY <2>1, <2>3
  <1>3. values \in Seq(Seq(Properties))
    <2>0. c.properties \in Seq([wallpaper : AnyText, values : Seq(Properties)])
      BY DEF LoadedTyped
    <2>1. PICK m \in Nat : m = Len(c.properties) /\ DOMAIN c.properties = 1..m
      BY <2>0
    <2>2. \A k \in 1..m : c.properties[k] \in [wallpaper : AnyText, values : Seq(Properties)]
      BY ONLY <2>0, <2>1, ElementOfSeq
    <2>3. \A k \in 1..m :
            (IF c.properties[k].wallpaper \in active THEN c.properties[k].values ELSE <<>>)
              \in Seq(Properties)
      BY <2>2, EmptySeq
    <2> QED BY <2>1, <2>3
  <1> HIDE DEF values, screens
  <1>4. a.properties \in Seq(Properties)
    BY <1>1, <1>3, FlattenTyped
  <1>5. Empty \in AnyText
    BY StrTyped DEF AnyText, Empty
  <1> QED BY <1>1, <1>2, <1>4, <1>5 DEF ArgumentsTyped, LoadedTyped, a

(* The pieces of an argument set's argv.                                   *)
Members(s) ==
  [m \in DOMAIN ScreenMembers |->
     LET given == s[ScreenMembers[m].field]
     IN  IF given = Empty THEN <<>> ELSE <<Canonical(ScreenMembers[m]), given>>]

ScreensOf(a) == [k \in DOMAIN a.screens |-> PushScreen(a.screens[k])]

WrittenRow(a, i) == Active(Globals[i], a) /\ ~Suppressed(i, a)
RowsOf(a) == [i \in DOMAIN Globals |-> IF WrittenRow(a, i) THEN Push(Globals[i], a) ELSE <<>>]

Assignment(p) == p.key \o <<"=">> \o p.value
PairsOf(a) ==
  [j \in DOMAIN a.properties |-> <<Canonical(Globals[11]), Assignment(a.properties[j])>>]

IdOf(a) == IF a.backgroundId = Empty THEN <<>> ELSE <<a.backgroundId>>

LEMMA MembersTyped ==
  ASSUME NEW s \in Screens, NEW T, Arg \subseteq T
  PROVE  /\ Members(s) \in Seq(Seq(T)) /\ Len(Members(s)) = 3
         /\ \A m \in 1..3 :
              LET given == s[ScreenMembers[m].field]
              IN  /\ given \in AnyText
                  /\ Members(s)[m] = IF given = Empty THEN <<>>
                                     ELSE <<Canonical(ScreenMembers[m]), given>>
  <1>1. ASSUME NEW m \in 1..3
        PROVE  LET given == s[ScreenMembers[m].field]
               IN  /\ given \in AnyText
                   /\ Members(s)[m] = IF given = Empty THEN <<>>
                                      ELSE <<Canonical(ScreenMembers[m]), given>>
                   /\ Members(s)[m] \in Seq(T)
    <2>1. PICK given \in AnyText : given = s[ScreenMembers[m].field]
      BY MembersWritten DEF Screens
    <2>2. Members(s)[m] = IF given = Empty THEN <<>> ELSE <<Canonical(ScreenMembers[m]), given>>
      BY <2>1, MembersWritten DEF Members
    <2>3. given # Empty => <<Canonical(ScreenMembers[m]), given>> \in Seq(T)
      BY MembersWritten, PairTyped DEF Arg, Empty
    <2> QED BY <2>1, <2>2, <2>3, EmptySeq
  <1>2. Members(s) = [m \in 1..3 |-> Members(s)[m]]
    BY MembersWritten DEF Members
  <1>3. Members(s) \in Seq(Seq(T)) /\ Len(Members(s)) = 3
    <2>1. \A m \in 1..3 : Members(s)[m] \in Seq(T)
      BY <1>1
    <2> QED BY <1>2, <2>1
  <1> QED BY <1>1, <1>3

LEMMA ScreenTyped ==
  ASSUME NEW s \in Screens, NEW T, Arg \subseteq T, s.screen \in T
  PROVE  /\ PushScreen(s) \in Seq(T)
         /\ <<Canonical(ScreenSwitch), s.screen>> \in Seq(T)
         /\ PushScreen(s)
              = Then(<<Canonical(ScreenSwitch), s.screen>>, FlattenSeq(Members(s)))
  <1>1. <<Canonical(ScreenSwitch), s.screen>> \in Seq(T)
    BY MembersWritten, PairTyped
  <1>2. PushScreen(s) = Then(<<Canonical(ScreenSwitch), s.screen>>, FlattenSeq(Members(s)))
    BY DEF PushScreen, Then, Members
  <1>3. FlattenSeq(Members(s)) \in Seq(T)
    BY MembersTyped, FlattenTyped
  <1> QED BY <1>1, <1>2, <1>3, ThenProperties

LEMMA ScreensTyped ==
  ASSUME NEW a, a.screens \in Seq(Screens), NEW T, Arg \subseteq T,
         \A s \in ToSet(a.screens) : s.screen \in T
  PROVE  /\ ScreensOf(a) \in Seq(Seq(T)) /\ Len(ScreensOf(a)) = Len(a.screens)
         /\ \A k \in 1..Len(a.screens) :
              /\ a.screens[k] \in Screens /\ a.screens[k].screen \in T
              /\ ScreensOf(a)[k] = PushScreen(a.screens[k])
  <1>1. PICK n \in Nat : n = Len(a.screens) /\ DOMAIN a.screens = 1..n
    OBVIOUS
  <1>2. \A k \in 1..n : a.screens[k] \in Screens /\ a.screens[k].screen \in T
    BY <1>1, ElementOfSeq DEF ToSet
  <1>3. \A k \in 1..n : PushScreen(a.screens[k]) \in Seq(T)
    BY <1>2, ScreenTyped
  <1>4. ScreensOf(a) = [k \in 1..n |-> PushScreen(a.screens[k])]
    BY <1>1 DEF ScreensOf
  <1> QED BY <1>1, <1>2, <1>3, <1>4

LEMMA AssignmentTyped ==
  ASSUME NEW p \in Properties
  PROVE  /\ Assignment(p) \in Arg
         /\ \E e \in Symbols : e = "=" /\ Assignment(p) = Then(Then(p.key, Char(e)), p.value)
         /\ Len(Assignment(p)) = Len(p.key) + 1 + Len(p.value)
  <1>1. PICK key \in AnyText, val \in AnyText : key = p.key /\ val = p.value
    BY DEF Properties
  <1>2. PICK text : text = key \o <<"=">> \o val
    OBVIOUS
  <1>3. text = Then(Then(key, Char("=")), val)
    BY <1>2 DEF Then, Char
  <1>4. PICK e \in Symbols : e = "="
    BY SymbolsHave
  <1>5. PICK left \in AnyText : left = Then(key, Char(e)) /\ Len(left) = Len(key) + 1
    <2>1. Then(key, Char(e)) \in Str(Symbols) /\ Len(Then(key, Char(e))) = Len(key) + 1
      BY ThenChar DEF AnyText
    <2> QED BY <2>1 DEF AnyText
  <1>6. text \in Seq(Symbols) /\ Len(text) = Len(left) + Len(val)
    <2>1. text = Then(left, val)
      BY <1>3, <1>4, <1>5
    <2> QED BY <2>1, ThenProperties DEF AnyText, Str
  <1>7. text # <<>>
    <2>1. Len(key) \in Nat /\ Len(val) \in Nat /\ Len(text) = Len(key) + 1 + Len(val)
      BY <1>5, <1>6 DEF AnyText, Str
    <2> QED BY <2>1
  <1>8. Assignment(p) = text
    BY <1>1, <1>2 DEF Assignment
  <1> QED BY <1>1, <1>3, <1>4, <1>5, <1>6, <1>7, <1>8 DEF Arg, AnyText, Str

LEMMA PairsTyped ==
  ASSUME NEW a, a.properties \in Seq(Properties), NEW T, Arg \subseteq T
  PROVE  /\ PairsOf(a) \in Seq(Seq(T)) /\ Len(PairsOf(a)) = Len(a.properties)
         /\ \A j \in 1..Len(a.properties) :
              /\ a.properties[j] \in Properties
              /\ PairsOf(a)[j] = <<Canonical(Globals[11]), Assignment(a.properties[j])>>
  <1>1. PICK n \in Nat : n = Len(a.properties) /\ DOMAIN a.properties = 1..n
    OBVIOUS
  <1>2. \A j \in 1..n : a.properties[j] \in Properties
    BY <1>1, ElementOfSeq
  <1>3. Canonical(Globals[11]) \in T
    BY GlobalsWritten DEF Written
  <1>4. \A j \in 1..n : <<Canonical(Globals[11]), Assignment(a.properties[j])>> \in Seq(T)
    BY <1>2, <1>3, AssignmentTyped, PairTyped
  <1>5. PairsOf(a) = [j \in 1..n |-> <<Canonical(Globals[11]), Assignment(a.properties[j])>>]
    BY <1>1 DEF PairsOf
  <1> QED BY <1>1, <1>2, <1>4, <1>5

(* The one row that is written once for each of its values.                *)
LEMMA RepeatedRow ==
  /\ Globals[11].arity = "Repeated" /\ Globals[11].field = "properties"
  /\ \A i \in 1..12 : Globals[i].arity = "Repeated" => i = 11
  /\ \A a : Push(Globals[11], a) = FlattenSeq(PairsOf(a))
  <1>1. Globals[11].arity = "Repeated" /\ Globals[11].field = "properties"
    BY DEF Globals, Global, Row
  <1>2. \A i \in 1..12 : Globals[i].arity = "Repeated" => i = 11
    <2>1. /\ \A i \in {3, 4, 5, 6, 8, 9, 10, 12} : Globals[i].arity = "Flag"
          /\ \A i \in {1, 2, 7} : Globals[i].arity = "Value"
      BY DEF Globals, Global, Negative, AudioOut, Row
    <2>2. \A i \in 1..12 : i \in {3, 4, 5, 6, 8, 9, 10, 12} \/ i \in {1, 2, 7} \/ i = 11
      OBVIOUS
    <2> QED BY <2>1, <2>2
  <1>3. ASSUME NEW a PROVE Push(Globals[11], a) = FlattenSeq(PairsOf(a))
    BY <1>1 DEF Push, PairsOf, Assignment
  <1> QED BY <1>1, <1>2, <1>3

LEMMA RowsTyped ==
  ASSUME NEW a, ArgumentsTyped(a), NEW T, Arg \subseteq T
  PROVE  /\ RowsOf(a) \in Seq(Seq(T)) /\ Len(RowsOf(a)) = 12
         /\ \A i \in 1..12 :
              RowsOf(a)[i] = IF WrittenRow(a, i) THEN Push(Globals[i], a) ELSE <<>>
  <1>1. ASSUME NEW i \in 1..12, Active(Globals[i], a)
        PROVE  Push(Globals[i], a) \in Seq(T)
    <2>1. PICK row : row = Globals[i] /\ Written(row) /\ Active(row, a)
      BY <1>1, GlobalsWritten
    <2>2. CASE row.arity = "Flag"
      <3>1. Push(row, a) = <<Canonical(row)>>
        BY <2>2 DEF Push
      <3> QED BY <2>1, <3>1, OneTyped DEF Written
    <2>3. CASE row.arity = "Repeated"
      <3>1. Push(row, a) = FlattenSeq(PairsOf(a))
        BY <2>1, <2>3, RepeatedRow
      <3>2. PairsOf(a) \in Seq(Seq(T))
        BY PairsTyped DEF ArgumentsTyped
      <3> QED BY <2>1, <3>1, <3>2, FlattenTyped
    <2>4. CASE row.arity = "Value" /\ row.field \in {"assetsDir", "fps", "volume"}
      <3>1. Push(row, a)
              = <<Canonical(row), IF row.field \in IntFields THEN ToText(a[row.field])
                                  ELSE a[row.field]>>
        BY <2>4 DEF Push
      <3>2. CASE row.field \in IntFields
        <4>1. a[row.field] \in Int
          BY <3>2 DEF IntFields, ArgumentsTyped
        <4>2. ToText(a[row.field]) \in Arg
          BY <4>1, ToTextTyped
        <4> QED BY <2>1, <3>1, <3>2, <4>2, PairTyped DEF Written
      <3>3. CASE row.field \notin IntFields
        <4>1. row.field = "assetsDir" /\ a[row.field] # Empty
          BY <2>1, <2>4, <3>3 DEF IntFields, Active
        <4>2. a[row.field] \in Arg
          BY <4>1 DEF Arg, Empty, ArgumentsTyped
        <4> QED BY <2>1, <3>1, <3>3, <4>2, PairTyped DEF Written
      <3> QED BY <3>2, <3>3
    <2> QED BY <2>1, <2>2, <2>3, <2>4 DEF Written
  <1>2. \A i \in 1..12 : RowsOf(a)[i] = IF WrittenRow(a, i) THEN Push(Globals[i], a) ELSE <<>>
    BY GlobalsWritten DEF RowsOf
  <1>3. \A i \in 1..12 : RowsOf(a)[i] \in Seq(T)
    BY <1>1, <1>2, EmptySeq DEF WrittenRow
  <1>4. RowsOf(a) = [i \in 1..12 |-> RowsOf(a)[i]]
    BY GlobalsWritten DEF RowsOf
  <1>5. RowsOf(a) \in Seq(Seq(T)) /\ Len(RowsOf(a)) = 12
    BY <1>3, <1>4
  <1> QED BY <1>2, <1>5

LEMMA IdTyped ==
  ASSUME NEW a, a.backgroundId \in AnyText, NEW T, Arg \subseteq T
  PROVE  IdOf(a) \in Seq(T)
  <1>1. a.backgroundId # Empty => a.backgroundId \in T
    BY DEF Arg, Empty
  <1> QED BY <1>1, OneTyped, EmptySeq DEF IdOf

(* If no screen is without a name, no argument is empty; and those of any   *)
(* argument set are texts.                                                 *)
LEMMA ToArgvTyped ==
  ASSUME NEW a, ArgumentsTyped(a), NEW T, Arg \subseteq T,
         \A s \in ToSet(a.screens) : s.screen \in T
  PROVE  /\ ToArgv(a) \in Seq(T)
         /\ ToArgv(a) = Then(FlattenSeq(ScreensOf(a)), Then(FlattenSeq(RowsOf(a)), IdOf(a)))
  <1>1. PICK left \in Str(T) : left = FlattenSeq(ScreensOf(a))
    BY ScreensTyped, FlattenTyped DEF ArgumentsTyped, Str
  <1>2. PICK middle \in Str(T) : middle = FlattenSeq(RowsOf(a))
    BY RowsTyped, FlattenTyped DEF Str
  <1>3. PICK right \in Str(T) : right = IdOf(a)
    BY IdTyped DEF ArgumentsTyped, Str
  <1>4. ToArgv(a) = Then(Then(left, middle), right)
    BY <1>1, <1>2, <1>3 DEF ToArgv, Then, ScreensOf, RowsOf, WrittenRow, IdOf
  <1>5. Then(Then(left, middle), right) = Then(left, Then(middle, right))
    BY StrThen
  <1>6. Then(left, Then(middle, right)) \in Str(T)
    BY StrTyped
  <1> QED BY <1>1, <1>2, <1>3, <1>4, <1>5, <1>6 DEF Str

LEMMA TailThen ==
  ASSUME NEW S, NEW e \in S, NEW t \in Seq(S)
  PROVE  /\ Then(Char(e), t) \in Seq(S) /\ Len(Then(Char(e), t)) > 0
         /\ Tail(Then(Char(e), t)) = t
         /\ \A i \in 1..Len(Then(Char(e), t)) : Then(Char(e), t)[i] \in S
  <1>1. PICK one \in Seq(S) : one = Char(e) /\ Len(one) = 1
    <2>1. Char(e) \in Seq(S) /\ Len(Char(e)) = 1
      BY StrTyped DEF Str, Char
    <2> QED BY <2>1
  <1>2. PICK u \in Seq(S) : u = Then(one, t) /\ Len(u) = Len(one) + Len(t)
    BY ThenProperties
  <1>3. ASSUME NEW i \in 1..Len(t) PROVE Tail(u)[i] = t[i]
    <2>1. PICK j : j = Len(one) + i
      OBVIOUS
    <2>2. u[j] = t[i]
      BY <1>2, <2>1, ThenAfter
    <2>3. Tail(u)[i] = u[i + 1] /\ j = i + 1
      BY <1>1, <1>2, <2>1
    <2> QED BY <2>2, <2>3
  <1>4. Tail(u) = t
    <2>1. Tail(u) \in Seq(S) /\ Len(Tail(u)) = Len(t)
      BY <1>1, <1>2
    <2> QED BY <1>3, <2>1, SeqEqual
  <1>5. Len(u) > 0
    BY <1>1, <1>2
  <1> QED BY <1>1, <1>2, <1>4, <1>5, ElementOfSeq

-----------------------------------------------------------------------------
(* Types: what is read, from whatever line, is an argument set.            *)

Fields == DOMAIN Defaults

FieldType(f) ==
  CASE f = "screens" -> Seq(NamedScreens)
    [] f = "properties" -> Seq(PlainProperties)
    [] f \in {"backgroundId", "assetsDir"} -> AnyText
    [] f \in IntFields -> Ints
    [] OTHER -> BOOLEAN

IsArguments(a) == a = [f \in Fields |-> a[f]] /\ \A f \in Fields : a[f] \in FieldType(f)

FlagFields ==
  {"pauseOnFullscreen", "automute", "audioProcessing", "silent", "disableParticles",
   "disableMouse", "disableParallax", "listProperties"}

LEMMA FieldsAre ==
  /\ Fields = FlagFields \cup IntFields
                \cup {"backgroundId", "assetsDir", "screens", "properties"}
  /\ \A f \in FlagFields : FieldType(f) = BOOLEAN
  /\ \A f \in IntFields : FieldType(f) = Ints
  /\ \A f \in {"backgroundId", "assetsDir"} : FieldType(f) = AnyText
  /\ FieldType("screens") = Seq(NamedScreens) /\ FieldType("properties") = Seq(PlainProperties)
  <1>1. Fields = FlagFields \cup IntFields
                   \cup {"backgroundId", "assetsDir", "screens", "properties"}
    BY DEF Fields, Defaults, FlagFields, IntFields
  <1>2. /\ \A f \in FlagFields : FieldType(f) = BOOLEAN
        /\ \A f \in IntFields : FieldType(f) = Ints
        /\ \A f \in {"backgroundId", "assetsDir"} : FieldType(f) = AnyText
        /\ FieldType("screens") = Seq(NamedScreens) /\ FieldType("properties") = Seq(PlainProperties)
    BY DEF FieldType, FlagFields, IntFields
  <1> QED BY <1>1, <1>2

LEMMA FieldWritten ==
  ASSUME NEW a, IsArguments(a), NEW f \in Fields, NEW v \in FieldType(f)
  PROVE  IsArguments([a EXCEPT ![f] = v])
  <1> DEFINE new == [a EXCEPT ![f] = v]
  <1>1. DOMAIN a = Fields
    BY DEF IsArguments
  <1>2. new = [g \in Fields |-> IF g = f THEN v ELSE a[g]]
    BY <1>1
  <1> HIDE DEF new
  <1>3. new = [g \in Fields |-> new[g]]
    BY <1>2
  <1>4. ASSUME NEW g \in Fields PROVE new[g] \in FieldType(g)
    <2>1. CASE g = f
      BY <1>2, <2>1
    <2>2. CASE g # f
      BY <1>2, <2>2 DEF IsArguments
    <2> QED BY <2>1, <2>2
  <1>5. IsArguments(new)
    BY <1>3, <1>4 DEF IsArguments
  <1> QED BY <1>5 DEF new

(* An assets directory that reads as a number is never read.               *)
WellRead(a) == IsArguments(a) /\ ~IsInt(a.assetsDir)

LEMMA ReadWritten ==
  ASSUME NEW a, WellRead(a), NEW f \in Fields, NEW v \in FieldType(f),
         f = "assetsDir" => ~IsInt(v)
  PROVE  WellRead([a EXCEPT ![f] = v])
  <1>1. IsArguments([a EXCEPT ![f] = v])
    BY FieldWritten DEF WellRead
  <1>2. [a EXCEPT ![f] = v].assetsDir = IF f = "assetsDir" THEN v ELSE a.assetsDir
    BY DEF WellRead, IsArguments
  <1> QED BY <1>1, <1>2 DEF WellRead

LEMMA DefaultsTyped == IsArguments(Defaults)
  <1>1. Defaults = [f \in Fields |-> Defaults[f]]
    BY DEF Defaults, Fields
  <1>2. /\ Defaults.backgroundId = <<>> /\ Defaults.assetsDir = <<>>
        /\ Defaults.screens = <<>> /\ Defaults.properties = <<>>
        /\ Defaults.fps \in Ints /\ Defaults.volume \in Ints
    <2>1. 15 \in Ints /\ 30 \in Ints
      BY IntsWritten
    <2> QED BY <2>1 DEF Defaults, Empty
  <1>3. \A f \in FlagFields : Defaults[f] \in BOOLEAN
    <2>1. /\ Defaults.pauseOnFullscreen \in BOOLEAN /\ Defaults.automute \in BOOLEAN
          /\ Defaults.audioProcessing \in BOOLEAN /\ Defaults.silent \in BOOLEAN
          /\ Defaults.disableParticles \in BOOLEAN /\ Defaults.disableMouse \in BOOLEAN
          /\ Defaults.disableParallax \in BOOLEAN /\ Defaults.listProperties \in BOOLEAN
      BY DEF Defaults
    <2> QED BY <2>1 DEF FlagFields
  <1>4. <<>> \in AnyText /\ <<>> \in Seq(NamedScreens) /\ <<>> \in Seq(PlainProperties)
    BY StrTyped, EmptySeq DEF AnyText
  <1>5. \A f \in Fields : Defaults[f] \in FieldType(f)
    <2>1. \A f \in FlagFields : Defaults[f] \in FieldType(f)
      BY <1>3, FieldsAre
    <2>2. \A f \in IntFields : Defaults[f] \in FieldType(f)
      <3>1. \A f \in IntFields : Defaults[f] \in Ints
        BY <1>2 DEF IntFields
      <3> QED BY <3>1, FieldsAre
    <2>3. \A f \in {"backgroundId", "assetsDir", "screens", "properties"} :
            Defaults[f] \in FieldType(f)
      <3>1. Defaults.backgroundId \in AnyText /\ Defaults.assetsDir \in AnyText
        BY <1>2, <1>4
      <3>2. Defaults.screens \in Seq(NamedScreens) /\ Defaults.properties \in Seq(PlainProperties)
        BY <1>2, <1>4
      <3> QED BY <3>1, <3>2, FieldsAre
    <2> QED BY <2>1, <2>2, <2>3, FieldsAre
  <1> QED BY <1>1, <1>5 DEF IsArguments

LEMMA DefaultsWellRead == WellRead(Defaults)
  BY DefaultsTyped DEF WellRead, Defaults, IsInt

LEMMA ReadIsWritable ==
  ASSUME NEW a, IsArguments(a)
  PROVE  ArgumentsTyped(a) /\ ToArgv(a) \in Seq(Arg)
  <1>1. a.screens \in Seq(NamedScreens) /\ a.properties \in Seq(PlainProperties)
    BY FieldsAre DEF IsArguments
  <1>2. a.screens \in Seq(Screens)
    <2>1. NamedScreens \subseteq Screens
      BY DEF NamedScreens, Screens, Arg
    <2> QED BY <1>1, <2>1, StrMonotone DEF Str
  <1>3. a.properties \in Seq(Properties)
    <2>1. PlainProperties \subseteq Properties
      BY DEF PlainProperties
    <2> QED BY <1>1, <2>1, StrMonotone DEF Str
  <1>4. /\ a.assetsDir \in AnyText /\ a.backgroundId \in AnyText
        /\ a.fps \in Int /\ a.volume \in Int
    BY FieldsAre, IntsWritten DEF IsArguments, IntFields
  <1>5. ArgumentsTyped(a)
    BY <1>2, <1>3, <1>4 DEF ArgumentsTyped
  <1>6. \A s \in ToSet(a.screens) : s.screen \in Arg
    BY <1>1, SeqMembers DEF NamedScreens
  <1> QED BY <1>5, <1>6, ToArgvTyped

(* What the rows of the table bind to.                                     *)
RowKind(row) ==
  /\ row.arity \in {"Flag", "Value", "Repeated"}
  /\ row.binding # "Global" => row.arity = "Value"
  /\ row.binding = "ScreenMember" => row.field \in {"background", "scaling", "clamp"}
  /\ row.binding = "Global" =>
       /\ row.arity = "Flag" => row.field \in FlagFields
       /\ row.arity = "Repeated" => row.field = "properties"
       /\ row.arity = "Value" => row.field \in IntFields \cup {"assetsDir"}

LEMMA RowKinds ==
  ASSUME NEW row \in Rows
  PROVE  RowKind(row)
  <1>1. RowKind(ScreenSwitch) /\ RowKind(Positional)
    BY DEF ScreenSwitch, Positional, Row, RowKind
  <1>2. DOMAIN ScreenMembers = 1..3 /\ DOMAIN Globals = 1..12
    BY MembersWritten, GlobalsWritten
  <1>3. ASSUME NEW i \in 1..3 PROVE RowKind(ScreenMembers[i])
    <2>1. i = 1 \/ i = 2 \/ i = 3
      OBVIOUS
    <2>2. CASE i = 1
      BY <2>2 DEF ScreenMembers, Row, RowKind
    <2>3. CASE i = 2
      BY <2>3 DEF ScreenMembers, Row, RowKind
    <2>4. CASE i = 3
      BY <2>4 DEF ScreenMembers, Row, RowKind
    <2> QED BY <2>1, <2>2, <2>3, <2>4
  <1>4. ASSUME NEW i \in 1..12 PROVE RowKind(Globals[i])
    <2> USE DEF Globals, Global, Negative, AudioOut, Row
    <2>1. i \in {1, 2, 7} => Globals[i].arity = "Value"
                             /\ Globals[i].field \in {"assetsDir", "fps", "volume"}
      OBVIOUS
    <2>2. i \in {3, 4, 5, 6} => Globals[i].arity = "Flag"
            /\ Globals[i].field \in {"pauseOnFullscreen", "automute", "audioProcessing", "silent"}
      OBVIOUS
    <2>3. i \in {8, 9, 10, 12} => Globals[i].arity = "Flag"
            /\ Globals[i].field \in {"disableParticles", "disableMouse", "disableParallax", "listProperties"}
      OBVIOUS
    <2>4. Globals[11].arity = "Repeated" /\ Globals[11].field = "properties"
      OBVIOUS
    <2>5. i \in {1, 2, 7} \/ i \in {3, 4, 5, 6} \/ i \in {8, 9, 10, 12} \/ i = 11
      OBVIOUS
    <2>6. Globals[i].binding = "Global"
      BY <2>5
    <2> HIDE DEF Globals, Global, Negative, AudioOut, Row
    <2> QED BY <2>1, <2>2, <2>3, <2>4, <2>5, <2>6 DEF RowKind, FlagFields, IntFields
  <1> QED BY <1>1, <1>2, <1>3, <1>4 DEF Rows, ToSet

(* The first "=" of a text, if it has one.                                 *)
LEMMA FirstEquals ==
  ASSUME NEW text \in AnyText, NEW equals,
         equals = SelectInSeq(text, LAMBDA ch : ch = "=")
  PROVE  /\ equals \in 0..Len(text)
         /\ equals # 0 => text[equals] = "="
         /\ \A i \in 1..Len(text) : (equals = 0 \/ i < equals) => text[i] # "="
  <1>1. PICK n \in Nat : n = Len(text)
    BY DEF AnyText, Str
  <1> DEFINE I == {i \in 1..Len(text) : text[i] = "="}
  <1>2. equals = IF I # {} THEN Min(I) ELSE 0
    BY DEF SelectInSeq
  <1>3. I \subseteq Nat
    BY <1>1
  <1>4. I # {} => Min(I) \in I /\ \A i \in I : Min(I) <= i
    <2> HIDE DEF I
    <2> QED BY <1>3, Smallest DEF Min
  <1>5. CASE I = {}
    BY <1>1, <1>2, <1>5
  <1>6. CASE I # {}
    <2>1. equals \in I /\ \A i \in I : equals <= i
      BY <1>2, <1>4, <1>6
    <2>2. equals \in 1..n /\ text[equals] = "="
      BY <1>1, <2>1
    <2>3. ASSUME NEW i \in 1..n, i < equals PROVE text[i] # "="
      BY <1>1, <2>1, <2>2, <2>3
    <2> QED BY <1>1, <2>2, <2>3
  <1> QED BY <1>5, <1>6

LEMMA PropertyTyped ==
  ASSUME NEW text \in AnyText
  PROVE  PropertyOf(text) \in PlainProperties
  <1>1. PICK equals : equals = SelectInSeq(text, LAMBDA ch : ch = "=")
    OBVIOUS
  <1>2. PICK n \in Nat : n = Len(text) /\ text \in Seq(Symbols) /\ DOMAIN text = 1..n
    BY DEF AnyText, Str
  <1>3. /\ equals \in 0..n
        /\ \A i \in 1..n : (equals = 0 \/ i < equals) => text[i] # "="
    BY <1>1, <1>2, FirstEquals
  <1>4. <<"1">> \in AnyText
    BY SymbolsHave, OneTyped DEF AnyText, Str
  <1>5. PropertyOf(text) =
          IF equals = 0 THEN [key |-> text, value |-> <<"1">>]
          ELSE [key |-> SubSeq(text, 1, equals - 1), value |-> SubSeq(text, equals + 1, Len(text))]
    BY <1>1 DEF PropertyOf
  <1>6. CASE equals = 0
    <2>1. ~Contains(text, "=")
      BY <1>2, <1>3, <1>6 DEF Contains
    <2> QED BY <1>4, <1>5, <1>6, <2>1 DEF PlainProperties, Properties
  <1>7. CASE equals # 0
    <2> DEFINE key == SubSeq(text, 1, equals - 1)
               rest == SubSeq(text, equals + 1, n)
    <2>1. key \in Seq(Symbols) /\ Len(key) = equals - 1 /\ rest \in Seq(Symbols)
      BY <1>2, <1>3, <1>7
    <2>2. \A i \in 1..equals - 1 : key[i] = text[i] /\ i \in 1..n /\ i < equals
      BY <1>2, <1>3, <1>7
    <2> HIDE DEF key
    <2>3. ~Contains(key, "=")
      BY <1>3, <2>1, <2>2 DEF Contains
    <2>4. PropertyOf(text) = [key |-> key, value |-> rest]
      BY <1>2, <1>5, <1>7 DEF key
    <2> HIDE DEF rest
    <2> QED BY <2>1, <2>3, <2>4 DEF PlainProperties, Properties, AnyText, Str
  <1> QED BY <1>6, <1>7

LEMMA SplitFirst ==
  ASSUME NEW T, NEW s \in Seq(T), Len(s) > 0
  PROVE  /\ s[1] \in T /\ Tail(s) \in Seq(T) /\ Len(s) = Len(Tail(s)) + 1
         /\ \A i \in 1..Len(Tail(s)) : s[i + 1] = Tail(s)[i]
  OBVIOUS

LEMMA FlattenNotEmpty ==
  ASSUME NEW S, NEW seqs \in Seq(Seq(S)), Len(seqs) > 0, Len(seqs[1]) = 1
  PROVE  FlattenSeq(seqs) # <<>>
  <1>1. /\ seqs[1] \in Seq(S) /\ Tail(seqs) \in Seq(Seq(S)) /\ Len(seqs) = Len(Tail(seqs)) + 1
        /\ \A i \in 1..Len(Tail(seqs)) : seqs[i + 1] = Tail(seqs)[i]
    BY SplitFirst
  <1>2. FlattenSeq(seqs) = Then(seqs[1], FlattenSeq(Tail(seqs)))
    BY <1>1, FlattenFirst
  <1>3. PICK left \in Seq(S), right \in Seq(S) :
          left = seqs[1] /\ right = FlattenSeq(Tail(seqs)) /\ Len(left) = 1
    BY <1>1, FlattenTyped
  <1>4. PICK both \in Seq(S) : both = Then(left, right) /\ Len(both) = Len(left) + Len(right)
    BY ThenProperties
  <1>5. Len(both) # 0
    <2>1. Len(right) \in Nat /\ Len(left) = 1
      BY <1>3
    <2> QED BY ONLY <1>4, <2>1
  <1>6. both # <<>>
    BY <1>5
  <1> QED BY <1>2, <1>3, <1>4, <1>6

LEMMA HalveNotEmpty ==
  ASSUME NEW y \in Arg
  PROVE  Halve(y) \in Arg
  <1>1. PICK n \in Nat : n = Len(y) /\ n > 0 /\ DOMAIN y = 1..n
    BY EmptySeq DEF Arg, AnyText, Str
  <1>2. ~HalvesSecond(y, 1)
    <2>1. (CHOOSE s \in 1..1 : (\A k \in s..1 : y[k] = y[1]) /\ (s = 1 \/ y[s - 1] # y[1])) = 1
      OBVIOUS
    <2> QED BY <2>1 DEF HalvesSecond
  <1>3. PICK seqs \in Seq(Seq(Symbols)) :
          seqs = Kept(y) /\ Len(seqs) = n /\ seqs[1] = <<y[1]>> /\ Halve(y) = FlattenSeq(seqs)
    <2>1. Kept(y) \in Seq(Seq(Symbols)) /\ Len(Kept(y)) = n
      BY <1>1, KeptTyped DEF Arg, AnyText, Str
    <2>2. Kept(y)[1] = <<y[1]>>
      BY <1>1, <1>2 DEF Kept
    <2>3. Halve(y) = FlattenSeq(Kept(y))
      BY DEF Kept, Halve
    <2> QED BY <2>1, <2>2, <2>3
  <1>4. Halve(y) # <<>>
    <2>1. Len(seqs) > 0 /\ Len(seqs[1]) = 1
      BY <1>1, <1>3
    <2> QED BY <1>3, <2>1, FlattenNotEmpty
  <1>5. Halve(y) \in AnyText
    BY KeptTyped DEF Arg, AnyText
  <1> QED BY <1>4, <1>5 DEF Arg

LEMMA LineTyped ==
  ASSUME NEW path \in AnyText, NEW a, ArgumentsTyped(a)
  PROVE  ExecLine(<<path>> \o ToArgv(a)) \in AnyText
  <1>1. ToArgv(a) \in Seq(AnyText)
    <2>1. \A s \in ToSet(a.screens) : s.screen \in AnyText
      BY SeqMembers DEF ArgumentsTyped, Screens
    <2> QED BY <2>1, ToArgvTyped DEF Arg
  <1>2. PICK args \in Seq(AnyText) : args = Then(Char(path), ToArgv(a)) /\ Len(args) > 0
    BY <1>1, TailThen
  <1>3. ExecLine(args) = Then(EscapeExecArg(args[1]), Following(args, 1))
        /\ Following(args, 1) \in AnyText
    <2>1. 1 \in 1..Len(args) /\ Len(args) \in Nat
      BY <1>2
    <2> QED BY <1>2, <2>1, SymbolsHave, LineIs DEF AnyText
  <1>4. EscapeExecArg(args[1]) \in AnyText
    <2>1. args[1] \in AnyText
      BY <1>2
    <2> QED BY <2>1, SymbolsHave, EscapeIs DEF AnyText
  <1>5. ExecLine(args) \in AnyText
    BY <1>3, <1>4, StrTyped DEF AnyText
  <1> QED BY <1>2, <1>5 DEF Then, Char

TypeInv ==
  /\ at \in {"write", "scan", "read", "done", "refused"}
  /\ config # Empty => config \in Configs
  /\ line \in AnyText /\ inQuotes \in BOOLEAN /\ current \in AnyText /\ argv \in Seq(Arg)
  /\ pos \in 1..Len(IF at = "scan" THEN line ELSE argv) + 1
  /\ at = "write" => pos = 1
  /\ WellRead(arguments)
  /\ problems \subseteq Complaints /\ round \in 1..2
  /\ round = 2 => WellRead(first)

LEMMA InitTyped ==
  ASSUME Init
  PROVE  TypeInv
  <1>1. <<>> \in AnyText /\ <<>> \in Seq(Arg)
    BY StrTyped, EmptySeq DEF AnyText
  <1>2. pos \in 1..Len(argv) + 1
    BY DEF Init
  <1>3. WellRead(arguments)
    BY DefaultsWellRead DEF Init
  <1>4. /\ at = "write" /\ config = <<>> /\ line = <<>> /\ pos = 1 /\ inQuotes = FALSE
        /\ current = <<>> /\ argv = <<>> /\ problems = {} /\ round = 1
    BY DEF Init, Empty
  <1>5. line \in AnyText /\ current \in AnyText /\ argv \in Seq(Arg)
    BY <1>1, <1>4
  <1>6. inQuotes \in BOOLEAN /\ round \in 1..2 /\ problems \subseteq Complaints
    <2>1. inQuotes \in BOOLEAN
      BY Zenon DEF Init
    <2> QED BY <1>4, <2>1
  <1> QED BY <1>2, <1>3, <1>4, <1>5, <1>6 DEF TypeInv, Empty

(* A text's first line is a text, and is all of a text of one line.        *)
LEMMA FirstLineIs ==
  ASSUME NEW text \in AnyText
  PROVE  /\ FirstLine(text) \in AnyText
         /\ ~Contains(text, "newline") => FirstLine(text) = text
  <1>1. PICK n \in Nat : n = Len(text)
    BY DEF AnyText, Str
  <1> DEFINE I == {i \in 1..Len(text) : text[i] = "newline"}
  <1>2. PICK cut : cut = SelectInSeq(text, LAMBDA ch : ch = "newline")
    OBVIOUS
  <1>3. cut = IF I # {} THEN Min(I) ELSE 0
    BY <1>2 DEF SelectInSeq
  <1>4. FirstLine(text) = IF cut = 0 THEN text ELSE SubSeq(text, 1, cut - 1)
    BY <1>2 DEF FirstLine
  <1>5. CASE I = {}
    BY <1>3, <1>4, <1>5
  <1>6. CASE I # {}
    <2>1. cut \in I
      <3>1. I \subseteq Nat
        BY <1>1
      <3> HIDE DEF I
      <3> QED BY <1>3, <1>6, <3>1, Smallest DEF Min
    <2>2. cut \in 1..n /\ text[cut] = "newline"
      BY <1>1, <2>1
    <2>3. Contains(text, "newline")
      BY <1>1, <2>2 DEF Contains
    <2>4. SubSeq(text, 1, cut - 1) \in AnyText
      BY <1>1, <2>2 DEF AnyText, Str
    <2> QED BY <1>4, <2>2, <2>3, <2>4
  <1> QED BY <1>5, <1>6

LEMMA WriteTyped ==
  ASSUME TypeInv, Install \/ HandEdit \/ Rewrite
  PROVE  TypeInv'
  <1>1. \A s \in AnyText : 1 \in 1..Len(s) + 1
    BY DEF AnyText, Str
  <1>2. CASE Install
    <2>1. PICK c \in Configs :
            /\ config' = c
            /\ IF Validate(ToArguments(Load(c)), "Persistable") = {}
               THEN at' = "scan" /\ line' = FirstLine(Text(Load(c)))
               ELSE at' = "refused" /\ UNCHANGED line
      BY <1>2 DEF Install
    <2>2. FirstLine(Text(Load(c))) \in AnyText
      <3>1. LoadedTyped(Load(c)) /\ ArgumentsTyped(ToArguments(Load(c)))
        BY LoadIsTyped, ToArgumentsTyped
      <3>2. Text(Load(c)) \in AnyText
        BY <3>1, LineTyped DEF Text, LoadedTyped
      <3> QED BY <3>2, FirstLineIs
    <2>3. at = "write" /\ pos' = pos /\ argv' = argv
      BY <1>2 DEF Install
    <2>4. CASE at' = "scan" /\ line' = FirstLine(Text(Load(c)))
      BY <1>1, <1>2, <2>1, <2>2, <2>3, <2>4 DEF Install, TypeInv
    <2>5. CASE at' = "refused" /\ line' = line
      BY <1>2, <2>1, <2>3, <2>5 DEF Install, TypeInv
    <2> QED BY <2>1, <2>4, <2>5
  <1>3. CASE HandEdit
    <2>1. line' \in AnyText
      BY <1>3, SymbolsHave, ConstantsAssumption DEF HandEdit
    <2> QED BY <1>1, <1>3, <2>1 DEF HandEdit, TypeInv
  <1>4. CASE Rewrite
    <2>1. line' \in AnyText
      <3>1. ArgumentsTyped(arguments)
        BY ReadIsWritable DEF TypeInv, WellRead
      <3>2. <<"engine">> \in AnyText
        BY SymbolsHave, OneTyped DEF AnyText, Str
      <3> QED BY <1>4, <3>1, <3>2, LineTyped DEF Rewrite
    <2>2. <<>> \in Seq(Arg)
      OBVIOUS
    <2> QED BY <1>1, <1>4, <2>1, <2>2, DefaultsWellRead DEF Rewrite, TypeInv
  <1> QED BY <1>2, <1>3, <1>4

LEMMA FlushedTyped ==
  ASSUME TypeInv
  PROVE  Flushed \in Seq(Arg)
  <1>1. CASE current = Empty
    BY <1>1 DEF Flushed, TypeInv
  <1>2. CASE current # Empty
    <2>1. current \in Arg
      BY <1>2 DEF TypeInv, Arg, Empty
    <2> QED BY <1>2, <2>1 DEF Flushed, TypeInv
  <1> QED BY <1>1, <1>2

LEMMA ScanTyped ==
  ASSUME TypeInv, ParseExecArgs
  PROVE  TypeInv'
  <1>1. /\ at = "scan" /\ line' = line /\ config' = config /\ round' = round
        /\ arguments' = arguments /\ problems' = problems /\ first' = first
    BY DEF ParseExecArgs, ScanEscape, ScanQuote, ScanSpace, ScanCharacter, EndOfLine, Scan, written
  <1>2. /\ line \in Seq(Symbols) /\ Len(line) \in Nat /\ pos \in 1..Len(line) + 1
        /\ \A i \in 1..Len(line) : line[i] \in Symbols
        /\ current \in Seq(Symbols)
    BY <1>1 DEF TypeInv, AnyText, Str
  <1>3. ASSUME NEW width \in {1, 2}, at' = "scan", pos <= Len(line), pos' = pos + width,
               width = 2 => pos < Len(line), inQuotes' \in BOOLEAN, current' \in AnyText,
               argv' \in Seq(Arg)
        PROVE  TypeInv'
    <2>1. pos' \in 1..Len(line') + 1
      BY <1>1, <1>2, <1>3
    <2> QED BY <1>1, <1>3, <2>1 DEF TypeInv
  <1>4. \A i \in 1..Len(line) : Append(current, line[i]) \in AnyText
    BY <1>2 DEF AnyText, Str
  <1>5. <<>> \in AnyText /\ <<>> \in Seq(Arg)
    BY StrTyped, EmptySeq DEF AnyText
  <1>6. CASE ScanEscape
    <2>1. /\ at' = "scan" /\ pos <= Len(line) /\ pos' = pos + 2 /\ pos < Len(line)
          /\ current' = Append(current, line[pos + 1]) /\ inQuotes' = inQuotes /\ argv' = argv
      BY <1>1, <1>6 DEF ScanEscape, Scan, EscapeFollows
    <2>2. pos + 1 \in 1..Len(line)
      BY <1>2, <2>1
    <2> QED BY <1>3, <1>4, <2>1, <2>2 DEF TypeInv
  <1>7. CASE ScanQuote
    <2>1. /\ at' = "scan" /\ pos <= Len(line) /\ pos' = pos + 1
          /\ current' = current /\ inQuotes' = ~inQuotes /\ argv' = argv
      BY <1>1, <1>7 DEF ScanQuote, Scan
    <2> QED BY <1>3, <2>1 DEF TypeInv
  <1>8. CASE ScanSpace
    <2>1. /\ at' = "scan" /\ pos <= Len(line) /\ pos' = pos + 1
          /\ current' = <<>> /\ inQuotes' = inQuotes /\ argv' = Flushed
      BY <1>1, <1>8 DEF ScanSpace, Scan, Empty
    <2> QED BY <1>3, <1>5, <2>1, FlushedTyped DEF TypeInv
  <1>9. CASE ScanCharacter
    <2>1. /\ at' = "scan" /\ pos <= Len(line) /\ pos' = pos + 1
          /\ current' = Append(current, line[pos]) /\ inQuotes' = inQuotes /\ argv' = argv
      BY <1>1, <1>9 DEF ScanCharacter, Scan, char
    <2>2. pos \in 1..Len(line)
      BY <1>2, <2>1
    <2> QED BY <1>3, <1>4, <2>1, <2>2 DEF TypeInv
  <1>10. CASE EndOfLine
    <2>1. /\ at' = "read" /\ pos' = 1 /\ inQuotes' = FALSE /\ current' = <<>>
      BY <1>10 DEF EndOfLine, Empty
    <2>2. argv' \in Seq(Arg)
      <3> DEFINE args == [k \in DOMAIN Flushed |-> Halve(Flushed[k])]
      <3>1. PICK n \in Nat : DOMAIN Flushed = 1..n
        BY FlushedTyped
      <3>2. \A k \in 1..n : Flushed[k] \in Arg
        BY <3>1, FlushedTyped
      <3>3. \A k \in 1..n : Halve(Flushed[k]) \in Arg
        BY <3>2, HalveNotEmpty
      <3>4. args \in Seq(Arg)
        BY <3>1, <3>3
      <3>5. argv' = IF args = <<>> THEN <<>> ELSE Tail(args)
        BY <1>10 DEF EndOfLine
      <3> HIDE DEF args
      <3> QED BY <3>4, <3>5
    <2>3. pos' \in 1..Len(argv') + 1
      BY <2>1, <2>2
    <2> QED BY <1>1, <1>5, <2>1, <2>2, <2>3 DEF TypeInv
  <1> QED BY <1>6, <1>7, <1>8, <1>9, <1>10 DEF ParseExecArgs

(* A turn of the reader's loop. *)
LEMMA TurnTyped ==
  ASSUME TypeInv, NEW case, NEW width \in {1, 2}, Turn(case, width),
         width = 2 => HasValue,
         WellRead(arguments'), problems' \subseteq Complaints
  PROVE  TypeInv'
  <1>1. /\ at = "read" /\ at' = "read" /\ pos <= Len(argv) /\ pos' = pos + width
        /\ line' = line /\ inQuotes' = inQuotes /\ current' = current /\ argv' = argv
        /\ config' = config /\ round' = round /\ first' = first
    BY DEF Turn, scanning, written
  <1>2. pos' \in 1..Len(argv') + 1
    <2>1. Len(argv) \in Nat /\ pos \in 1..Len(argv) + 1
      BY <1>1 DEF TypeInv
    <2>2. width = 2 => pos < Len(argv)
      BY DEF HasValue
    <2> QED BY <1>1, <2>1, <2>2
  <1> QED BY <1>1, <1>2 DEF TypeInv

LEMMA TokenTyped ==
  ASSUME TypeInv, at = "read", pos <= Len(argv)
  PROVE  token \in Arg /\ (HasValue => value \in Arg) /\ (Option => spec \in Rows)
  <1>1. argv \in Seq(Arg) /\ Len(argv) \in Nat /\ pos \in 1..Len(argv) + 1
    BY DEF TypeInv
  <1>2. pos \in 1..Len(argv) /\ (HasValue => pos + 1 \in 1..Len(argv))
    BY <1>1 DEF HasValue
  <1>3. token \in Arg /\ (HasValue => value \in Arg)
    BY <1>1, <1>2 DEF token, value
  <1>4. Option => spec \in Rows
    BY DEF Option, Found, spec, Find
  <1> QED BY <1>3, <1>4

LEMMA FromArgvTyped ==
  ASSUME TypeInv, FromArgv
  PROVE  TypeInv'
  <1>1. at = "read" /\ WellRead(arguments) /\ problems \subseteq Complaints
    BY DEF TypeInv, FromArgv, UnknownOption, BareToken, MissingValue, ReadScreenSwitch,
           ReadScreenMember, ReadFlag, ReadProperty, ReadGlobal, ReadPositional, EndOfTokens, Turn
  <1>2. ASSUME NEW p \in Complaints, Report(p)
        PROVE  WellRead(arguments') /\ problems' \subseteq Complaints
    BY <1>1, <1>2 DEF Report
  <1>3. ASSUME NEW new, WellRead(new), Write(new)
        PROVE  WellRead(arguments') /\ problems' \subseteq Complaints
    BY <1>1, <1>3 DEF Write
  <1>4. ASSUME NEW binding, Turn(Bound(binding), Takes),
               WellRead(arguments'), problems' \subseteq Complaints
        PROVE  TypeInv'
    <2>1. Takes \in {1, 2} /\ (Takes = 2 => HasValue)
      BY <1>4 DEF Takes, Turn, Bound
    <2> QED BY <1>4, <2>1, TurnTyped
  <1>5. ASSUME NEW binding, NEW case, Turn(Bound(binding) /\ case, Takes),
               WellRead(arguments'), problems' \subseteq Complaints
        PROVE  TypeInv'
    <2>1. Takes \in {1, 2} /\ (Takes = 2 => HasValue)
      BY <1>5 DEF Takes, Turn, Bound
    <2> QED BY <1>5, <2>1, TurnTyped
  <1>6. ASSUME pos <= Len(argv)
        PROVE  /\ token \in Arg /\ (HasValue => value \in Arg)
               /\ Option => spec \in Rows /\ RowKind(spec)
    BY <1>1, <1>6, TokenTyped, RowKinds
  <1>a. /\ arguments.screens \in Seq(NamedScreens) /\ arguments.properties \in Seq(PlainProperties)
         /\ {"backgroundId", "assetsDir", "screens", "properties"} \subseteq Fields
         /\ FlagFields \subseteq Fields /\ IntFields \subseteq Fields
         /\ "assetsDir" \notin FlagFields \cup IntFields
    BY <1>1, FieldsAre DEF WellRead, IsArguments, FlagFields, IntFields
  <1>7. CASE UnknownOption
    <2> DEFINE width == IF token \in UnusedValue /\ HasValue THEN 2 ELSE 1
    <2>1. Turn(~Option /\ Dashed(token), width)
      BY <1>7 DEF UnknownOption
    <2>2. width \in {1, 2} /\ (width = 2 => HasValue)
      OBVIOUS
    <2>3. WellRead(arguments') /\ problems' \subseteq Complaints
      BY <1>2, <1>7 DEF UnknownOption, Complaints
    <2> QED BY <2>1, <2>2, <2>3, TurnTyped
  <1>8. CASE BareToken
    <2>1. Turn(~Option /\ ~Dashed(token), 1) /\ pos <= Len(argv)
      BY <1>8 DEF BareToken, Turn
    <2>2. WellRead([arguments EXCEPT !.backgroundId = token])
      BY <1>1, <1>6, <1>a, <2>1, FieldsAre, ReadWritten DEF Arg
    <2>3. WellRead(arguments') /\ problems' \subseteq Complaints
      BY <1>2, <1>3, <1>8, <2>2 DEF BareToken, Complaints
    <2> QED BY <2>1, <2>3, TurnTyped
  <1>9. CASE MissingValue
    BY <1>1, <1>9 DEF MissingValue, Report, Complaints, TypeInv, scanning, written
  <1>10. CASE EndOfTokens
    BY <1>1, <1>10 DEF EndOfTokens, TypeInv, scanning, written
  <1>11. ASSUME NEW binding, Turn(Bound(binding), Takes)
         PROVE  /\ pos <= Len(argv) /\ spec \in Rows /\ RowKind(spec) /\ spec.binding = binding
                /\ spec.arity # "Flag" => value \in Arg /\ value \in AnyText
    BY <1>6, <1>11 DEF Turn, Bound, Arg
  <1>13. CASE ReadScreenSwitch
    <2>1. Turn(Bound("ScreenSwitch"), Takes)
          /\ Write([arguments EXCEPT !.screens = Append(@, [NoScreen EXCEPT !.screen = value])])
      BY <1>13 DEF ReadScreenSwitch
    <2>2. spec.arity # "Flag"
      BY <1>11, <2>1 DEF RowKind
    <2>3. [NoScreen EXCEPT !.screen = value] \in NamedScreens
      <3>1. value \in Arg /\ Empty \in AnyText
        BY <1>11, <2>1, <2>2, StrTyped DEF AnyText, Empty
      <3> QED BY <3>1 DEF NoScreen, NamedScreens
    <2>4. Append(arguments.screens, [NoScreen EXCEPT !.screen = value]) \in Seq(NamedScreens)
      BY <1>a, <2>3
    <2>5. WellRead([arguments EXCEPT !.screens
                         = Append(@, [NoScreen EXCEPT !.screen = value])])
      BY <1>1, <1>a, <2>4, FieldsAre, ReadWritten
    <2> QED BY <1>3, <1>4, <2>1, <2>5
  <1>14. CASE ReadScreenMember
    <2>1. Turn(Bound("ScreenMember"), Takes)
      BY <1>14 DEF ReadScreenMember
    <2>2. spec.field \in {"background", "scaling", "clamp"} /\ value \in AnyText
      BY <1>11, <2>1 DEF RowKind
    <2>3. CASE arguments.screens = <<>>
      BY <1>2, <1>4, <1>14, <2>1, <2>3 DEF ReadScreenMember, Complaints
    <2>4. CASE arguments.screens # <<>>
      <3> DEFINE n == Len(arguments.screens)
                 group == [arguments.screens[n] EXCEPT ![spec.field] = value]
                 groups == [arguments.screens EXCEPT ![n][spec.field] = value]
      <3>1. n \in 1..n /\ n \in Nat
        BY <1>a, <2>4
      <3>2. arguments.screens[n] \in NamedScreens
        BY <1>a, <3>1, ElementOfSeq
      <3>3. group \in NamedScreens
        BY <2>2, <3>2 DEF NamedScreens
      <3>4. groups = [arguments.screens EXCEPT ![n] = group]
        OBVIOUS
      <3>5. groups \in Seq(NamedScreens)
        BY <1>a, <3>1, <3>3, <3>4
      <3>6. WellRead([arguments EXCEPT !.screens = groups])
        BY <1>1, <1>a, <3>5, FieldsAre, ReadWritten
      <3>7. Write([arguments EXCEPT !.screens[n][spec.field] = value])
        BY <1>14, <2>4 DEF ReadScreenMember
      <3>8. [arguments EXCEPT !.screens[n][spec.field] = value]
              = [arguments EXCEPT !.screens = groups]
        OBVIOUS
      <3> QED BY <1>3, <1>4, <2>1, <3>6, <3>7, <3>8
    <2> QED BY <2>3, <2>4
  <1>15. CASE ReadFlag
    <2>1. /\ Turn(Bound("Global") /\ spec.arity = "Flag", Takes)
          /\ Write([arguments EXCEPT ![spec.field] = spec.polarity = "Positive"])
          /\ Turn(Bound("Global"), Takes) /\ spec.arity = "Flag"
      BY <1>15 DEF ReadFlag, Turn
    <2>2. spec.field \in FlagFields
      BY <1>11, <2>1 DEF RowKind
    <2>3. PICK on \in BOOLEAN : on = (spec.polarity = "Positive")
      OBVIOUS
    <2>4. WellRead([arguments EXCEPT ![spec.field] = on])
      BY <1>1, <1>a, <2>2, FieldsAre, ReadWritten
    <2> QED BY <1>3, <1>4, <2>1, <2>3, <2>4
  <1>16. CASE ReadProperty
    <2>1. /\ Turn(Bound("Global"), Takes) /\ spec.arity = "Repeated"
          /\ Write([arguments EXCEPT !.properties = Append(@, PropertyOf(value))])
      BY <1>16 DEF ReadProperty, Turn
    <2>2. PropertyOf(value) \in PlainProperties
      BY <1>11, <2>1, PropertyTyped
    <2>3. Append(arguments.properties, PropertyOf(value)) \in Seq(PlainProperties)
      BY <1>a, <2>2
    <2>4. WellRead([arguments EXCEPT !.properties = Append(@, PropertyOf(value))])
      BY <1>1, <1>a, <2>3, FieldsAre, ReadWritten
    <2> QED BY <1>3, <1>4, <2>1, <2>4
  <1>17. CASE ReadGlobal
    <2> DEFINE number == spec.field \in IntFields
    <2>1. /\ Turn(Bound("Global"), Takes) /\ spec.arity = "Value"
          /\ \/ IsInt(value) /\ number /\ Write([arguments EXCEPT ![spec.field] = IntOf(value)])
             \/ IsInt(value) /\ ~number /\ Write(arguments)
             \/ ~IsInt(value) /\ number /\ Report("not a number")
             \/ ~IsInt(value) /\ ~number /\ Write([arguments EXCEPT ![spec.field] = value])
      BY <1>17 DEF ReadGlobal, Turn
    <2>2. value \in AnyText /\ spec.field \in IntFields \cup {"assetsDir"}
      BY <1>11, <2>1 DEF RowKind
    <2>3. ASSUME IsInt(value), number
          PROVE  WellRead([arguments EXCEPT ![spec.field] = IntOf(value)])
      <3>1. PICK v \in Ints : v = IntOf(value)
        BY <2>3 DEF IsInt
      <3>2. spec.field \in Fields /\ v \in FieldType(spec.field) /\ spec.field # "assetsDir"
        BY <1>a, <2>3, <3>1, FieldsAre
      <3> QED BY <1>1, <3>1, <3>2, ReadWritten
    <2>4. ASSUME ~number, ~IsInt(value)
          PROVE  WellRead([arguments EXCEPT ![spec.field] = value])
      BY <1>1, <1>a, <2>2, <2>4, FieldsAre, ReadWritten
    <2>5. WellRead(arguments') /\ problems' \subseteq Complaints
      BY <1>1, <1>2, <1>3, <2>1, <2>3, <2>4 DEF Complaints
    <2> QED BY <1>4, <2>1, <2>5
  <1>18. CASE ReadPositional
    <2>1. Turn(Bound("Positional"), Takes) /\ Write([arguments EXCEPT !.backgroundId = value])
      BY <1>18 DEF ReadPositional
    <2>2. value \in AnyText
      BY <1>11, <2>1 DEF RowKind
    <2>3. WellRead([arguments EXCEPT !.backgroundId = value])
      BY <1>1, <1>a, <2>2, FieldsAre, ReadWritten
    <2> QED BY <1>3, <1>4, <2>1, <2>3
  <1> QED BY <1>7, <1>8, <1>9, <1>10, <1>13, <1>14, <1>15, <1>16, <1>17, <1>18 DEF FromArgv

LEMMA NextTyped ==
  ASSUME TypeInv, [Next]_vars
  PROVE  TypeInv'
  <1>1. CASE UNCHANGED vars
    BY <1>1 DEF vars, TypeInv
  <1> QED BY <1>1, WriteTyped, ScanTyped, FromArgvTyped DEF Next

(* config.h and lwe/arguments.h: for every set of configs and of edits,    *)
(* what is scanned, split and read stays well formed: no argument is       *)
(* empty, no index runs past its end, and what FromArgv builds is an       *)
(* argument set, whatever the line was.                                    *)
THEOREM TypeCorrect == Spec => []TypeOK
  <1>1. ASSUME TypeInv PROVE TypeOK
    <2>1. config # Empty => DOMAIN config \subseteq DOMAIN ConfigDefaults
      BY <1>1, ConstantsAssumption DEF TypeInv
    <2>2. Empty \notin ToSet(argv)
      <3>1. ToSet(argv) \subseteq Arg
        BY <1>1, SeqMembers DEF TypeInv
      <3> QED BY <3>1 DEF Arg, Empty
    <2>3. /\ DOMAIN arguments = DOMAIN Defaults
          /\ arguments.fps \in Int /\ arguments.volume \in Int
          /\ \A f \in {"silent", "automute", "listProperties"} : arguments[f] \in BOOLEAN
      <3>1. DOMAIN arguments = Fields /\ \A f \in Fields : arguments[f] \in FieldType(f)
        BY <1>1 DEF TypeInv, WellRead, IsArguments
      <3>2. {"silent", "automute", "listProperties"} \subseteq FlagFields
            /\ {"fps", "volume"} \subseteq IntFields
        BY DEF FlagFields, IntFields
      <3>3. \A f \in {"silent", "automute", "listProperties"} : arguments[f] \in BOOLEAN
        BY <3>1, <3>2, FieldsAre
      <3>4. {arguments.fps, arguments.volume} \subseteq Ints
        BY <3>1, <3>2, FieldsAre
      <3> QED BY <3>1, <3>3, <3>4, IntsWritten DEF Fields
    <2>4. \A s \in ToSet(arguments.screens) : DOMAIN s = DOMAIN NoScreen
      <3>1. arguments.screens \in Seq(NamedScreens)
        BY <1>1, FieldsAre DEF TypeInv, WellRead, IsArguments
      <3>2. \A s \in NamedScreens : DOMAIN s = DOMAIN NoScreen
        BY DEF NamedScreens, NoScreen
      <3> QED BY <3>1, <3>2, SeqMembers
    <2> QED BY <1>1, <2>1, <2>2, <2>3, <2>4 DEF TypeInv, TypeOK
  <1> QED BY <1>1, InitTyped, NextTyped, PTL DEF Spec

-----------------------------------------------------------------------------
(* What an install accepts is an argument set that can be read back.       *)

LEMMA LoadedFlags ==
  ASSUME NEW c \in Configs
  PROVE  /\ \A f \in {"fullscreenPause", "automute", "audioProcessing", "silent",
                      "disableParticles", "disableMouse", "disableParallax"} :
              Load(c)[f] \in BOOLEAN
         /\ \A f \in {"fps", "volume"} : Load(c)[f] \in Ints
  <1> DEFINE flags == {"fullscreenPause", "automute", "audioProcessing", "silent",
                       "disableParticles", "disableMouse", "disableParallax"}
  <1>1. \A f \in DOMAIN c : c[f] \in ConfigTypes[f]
    BY ConstantsAssumption
  <1>2. flags \cup {"fps", "volume"} \subseteq DOMAIN ConfigDefaults
    BY DEF ConfigDefaults
  <1>3. ASSUME NEW f \in flags PROVE Load(c)[f] \in BOOLEAN
    <2>1. ConfigDefaults[f] \in BOOLEAN /\ ConfigTypes[f] = BOOLEAN
      <3>1. /\ ConfigDefaults.fullscreenPause = TRUE /\ ConfigDefaults.automute = TRUE
            /\ ConfigDefaults.audioProcessing = TRUE /\ ConfigDefaults.silent = TRUE
            /\ ConfigDefaults.disableParticles = FALSE
            /\ ConfigDefaults.disableMouse = FALSE /\ ConfigDefaults.disableParallax = FALSE
        BY DEF ConfigDefaults
      <3>2. \A g \in flags : ConfigTypes[g] = BOOLEAN
        BY DEF ConfigTypes
      <3> QED BY <3>1, <3>2
    <2>2. Load(c)[f] = IF f \in DOMAIN c THEN c[f] ELSE ConfigDefaults[f]
      BY <1>2 DEF Load
    <2> QED BY <1>1, <2>1, <2>2
  <1>4. ASSUME NEW f \in {"fps", "volume"} PROVE Load(c)[f] \in Ints
    <2>1. ConfigDefaults[f] \in 0..30 /\ ConfigTypes[f] = Int
      BY DEF ConfigDefaults, ConfigTypes
    <2>2. ConfigDefaults[f] \in Ints
      BY <2>1, IntsWritten
    <2>3. Load(c)[f] = IF f \in DOMAIN c THEN Narrow(c[f]) ELSE ConfigDefaults[f]
      BY <1>2 DEF Load
    <2> QED BY <1>1, <2>1, <2>2, <2>3, NarrowTyped
  <1> QED BY <1>3, <1>4

(* validate.cpp:23-113: a config that Validate accepts is one whose        *)
(* arguments FromArgv could have read: every screen has a name, no         *)
(* property's key has a "=", and its numbers are an int's.                 *)
THEOREM AcceptedIsReadable ==
  ASSUME NEW c \in Configs, Validate(ToArguments(Load(c)), "Persistable") = {}
  PROVE  IsArguments(ToArguments(Load(c)))
  <1> DEFINE l == Load(c)
  <1>1. PICK a : a = ToArguments(l)
    OBVIOUS
  <1>2. ArgumentsTyped(a)
    BY <1>1, LoadIsTyped, ToArgumentsTyped
  <1>3. /\ \A s \in ToSet(a.screens) : s.screen # Empty
        /\ \A p \in ToSet(a.properties) : ~Contains(p.key, "=")
        /\ ~(a.fps < 1) /\ a.volume \in 0..128
    BY <1>1 DEF Validate, Problem
  <1>4. a = [f \in Fields |-> a[f]]
    BY <1>1 DEF ToArguments, Defaults, Fields
  <1>5. /\ a.fps = l.fps /\ a.volume = l.volume /\ a.backgroundId = Empty
        /\ a.assetsDir = l.assetsDir /\ a.silent = l.silent
        /\ a.pauseOnFullscreen = l.fullscreenPause /\ a.automute = l.automute
        /\ a.audioProcessing = l.audioProcessing
        /\ a.disableParticles = l.disableParticles /\ a.disableMouse = l.disableMouse
        /\ a.disableParallax = l.disableParallax /\ a.listProperties = FALSE
    BY <1>1 DEF ToArguments, Defaults
  <1> HIDE DEF l
  <1>6. \A f \in FlagFields : a[f] \in BOOLEAN
    <2>1. /\ a.silent \in BOOLEAN /\ a.pauseOnFullscreen \in BOOLEAN /\ a.automute \in BOOLEAN
          /\ a.audioProcessing \in BOOLEAN /\ a.disableParticles \in BOOLEAN
          /\ a.disableMouse \in BOOLEAN /\ a.disableParallax \in BOOLEAN
      BY <1>5, LoadedFlags DEF l
    <2>2. a.listProperties \in BOOLEAN
      BY <1>5
    <2> QED BY <2>1, <2>2 DEF FlagFields
  <1>7. \A f \in IntFields : a[f] \in Ints
    <2>1. l.fps \in Ints /\ l.volume \in Ints
      BY LoadedFlags DEF l
    <2> QED BY <1>5, <2>1 DEF IntFields
  <1>8. a.screens \in Seq(NamedScreens)
    <2>1. \A i \in 1..Len(a.screens) : a.screens[i] \in Screens /\ a.screens[i].screen # Empty
      BY <1>2, <1>3, ElementOfSeq DEF ArgumentsTyped, ToSet
    <2>2. \A s \in Screens : s.screen # Empty => s \in NamedScreens
      BY DEF Screens, NamedScreens, Arg, Empty
    <2> QED BY <1>2, <2>1, <2>2 DEF ArgumentsTyped
  <1>9. a.properties \in Seq(PlainProperties)
    <2>1. \A i \in 1..Len(a.properties) :
            a.properties[i] \in Properties /\ ~Contains(a.properties[i].key, "=")
      BY <1>2, <1>3, ElementOfSeq DEF ArgumentsTyped, ToSet
    <2> QED BY <1>2, <2>1 DEF ArgumentsTyped, PlainProperties
  <1>10. a.assetsDir \in AnyText /\ a.backgroundId \in AnyText
    BY <1>2 DEF ArgumentsTyped
  <1>11. \A f \in Fields : a[f] \in FieldType(f)
    <2>1. \A f \in {"backgroundId", "assetsDir", "screens", "properties"} : a[f] \in FieldType(f)
      BY <1>8, <1>9, <1>10, FieldsAre
    <2> QED BY <1>6, <1>7, <2>1, FieldsAre
  <1> QED BY <1>1, <1>4, <1>11 DEF IsArguments, l

-----------------------------------------------------------------------------
(* The first loop's invariant: while a line that this program spelt is     *)
(* scanned, what is ahead is the rest of the argv that went into it; and   *)
(* then argv is it.                                                        *)

Source == IF round = 2 THEN first ELSE ToArguments(loaded)

Spelt ==
  Then(Char(IF round = 2 THEN <<"engine">> ELSE loaded.enginePath), ToArgv(Source))

Reading == round = 2 \/ (config # Empty /\ loaded.enginePath # Empty /\ OneLine)

WriteInv ==
  /\ at = "write" => config = Empty /\ pos = 1 /\ argv = <<>> /\ round = 1
  /\ at # "scan" => inQuotes = FALSE /\ current = <<>>

SourceInv == at \in {"scan", "read", "done"} /\ Reading => IsArguments(Source)

ScanInv ==
  at = "scan" /\ Reading =>
    /\ Spelt \in Seq(Arg) /\ Len(Spelt) > 0 /\ Tail(Spelt) = ToArgv(Source)
    /\ Scanning(Symbols, Spelt, line, pos, inQuotes, current, argv)

SplitInv == at \in {"read", "done"} /\ Reading => argv = ToArgv(Source)

ArgvInv == WriteInv /\ SourceInv /\ ScanInv /\ SplitInv

LEMMA LineScans ==
  ASSUME NEW path \in Arg, NEW a, ToArgv(a) \in Seq(Arg),
         NEW args, args = Then(Char(path), ToArgv(a)),
         NEW ln, ln = ExecLine(<<path>> \o ToArgv(a))
  PROVE  /\ args \in Seq(Arg) /\ Len(args) > 0 /\ Tail(args) = ToArgv(a)
         /\ Scanning(Symbols, args, ln, 1, FALSE, <<>>, <<>>)
  <1>1. args \in Seq(Arg) /\ Len(args) > 0 /\ Tail(args) = ToArgv(a)
    BY TailThen
  <1>2. args \in Seq(AnyText)
    BY <1>1, StrMonotone DEF Arg, Str
  <1>3. ln = ExecLine(args)
    BY DEF Then, Char
  <1>4. 1 \in 1..Len(args) /\ args[1] \in AnyText /\ Len(args) \in Nat /\ 1 - 1 = 0
    BY <1>1, <1>2
  <1>5. /\ ExecLine(args) = Then(EscapeExecArg(args[1]), Following(args, 1))
        /\ Following(args, 1) \in AnyText
    BY <1>1, <1>2, <1>4, SymbolsHave, LineIs DEF AnyText
  <1>6. ln \in AnyText
    <2>1. EscapeExecArg(args[1]) \in AnyText
      BY <1>4, SymbolsHave, EscapeIs DEF AnyText
    <2> QED BY <1>3, <1>5, <2>1, StrTyped DEF AnyText
  <1>7. Ahead(ln, 1) = ln
    BY <1>6, WholeRest DEF Ahead, AnyText
  <1>8. Scanning(Symbols, args, ln, 1, FALSE, <<>>, AllDoubled(args, 1 - 1))
    BY <1>2, <1>3, <1>4, <1>5, <1>6, <1>7, SymbolsHave, ArgumentStarts DEF AnyText
  <1>9. AllDoubled(args, 1 - 1) = <<>>
    BY <1>4 DEF AllDoubled
  <1> QED BY <1>1, <1>8, <1>9

LEMMA SourceKept ==
  ASSUME UNCHANGED written
  PROVE  Source' = Source /\ Spelt' = Spelt /\ Reading' = Reading
  BY DEF written, Source, Spelt, Reading, OneLine, loaded

LEMMA InitArgv ==
  ASSUME Init
  PROVE  ArgvInv
  BY DEF Init, ArgvInv, WriteInv, SourceInv, ScanInv, SplitInv, Empty

LEMMA InstallArgv ==
  ASSUME ArgvInv, Install
  PROVE  ArgvInv'
  <1>1. PICK c \in Configs :
          /\ config' = c
          /\ IF Validate(ToArguments(Load(c)), "Persistable") = {}
             THEN at' = "scan" /\ line' = FirstLine(Text(Load(c)))
             ELSE at' = "refused" /\ UNCHANGED line
    BY DEF Install
  <1>2. /\ pos' = 1 /\ inQuotes' = FALSE /\ current' = <<>> /\ argv' = <<>> /\ round' = 1
        /\ at' \in {"scan", "refused"}
    BY <1>1 DEF Install, ArgvInv, WriteInv
  <1>3. ASSUME at' = "scan", Reading'
        PROVE  /\ IsArguments(Source')
               /\ Spelt' \in Seq(Arg) /\ Len(Spelt') > 0 /\ Tail(Spelt') = ToArgv(Source')
               /\ Scanning(Symbols, Spelt', line', pos', inQuotes', current', argv')
    <2>0. PICK path, a : path = Load(c).enginePath /\ a = ToArguments(Load(c))
      OBVIOUS
    <2>1. /\ path # <<>> /\ line' = ExecLine(<<path>> \o ToArgv(a))
          /\ Validate(a, "Persistable") = {}
      <3>1. path # <<>>
        BY <1>1, <1>2, <1>3, <2>0 DEF Reading, loaded, Empty
      <3>2. /\ Validate(ToArguments(Load(c)), "Persistable") = {}
            /\ line' = FirstLine(Text(Load(c)))
        BY <1>1, <1>3
      <3>3. ~Contains(Text(Load(c)), "newline")
        BY <1>1, <1>2, <1>3 DEF Reading, OneLine, loaded
      <3>4. Text(Load(c)) \in AnyText
        <4>1. LoadedTyped(Load(c)) /\ ArgumentsTyped(ToArguments(Load(c)))
          BY LoadIsTyped, ToArgumentsTyped
        <4> QED BY <4>1, LineTyped DEF Text, LoadedTyped
      <3>5. line' = Text(Load(c))
        BY <3>2, <3>3, <3>4, FirstLineIs
      <3> QED BY <2>0, <3>1, <3>2, <3>5 DEF Text
    <2>2. path \in Arg
      BY <2>0, <2>1, LoadIsTyped DEF LoadedTyped, Arg
    <2>3. IsArguments(a) /\ ToArgv(a) \in Seq(Arg)
      BY <2>0, <2>1, AcceptedIsReadable, ReadIsWritable
    <2>4. Source' = a /\ Spelt' = Then(Char(path), ToArgv(a))
      BY <1>1, <1>2, <2>0 DEF Source, Spelt, loaded
    <2>5. PICK args : args = Then(Char(path), ToArgv(a))
      OBVIOUS
    <2>6. /\ args \in Seq(Arg) /\ Len(args) > 0 /\ Tail(args) = ToArgv(a)
          /\ Scanning(Symbols, args, line', 1, FALSE, <<>>, <<>>)
      BY <2>1, <2>2, <2>3, <2>5, LineScans
    <2> QED BY <1>2, <2>3, <2>4, <2>5, <2>6
  <1> QED BY <1>2, <1>3 DEF ArgvInv, WriteInv, SourceInv, ScanInv, SplitInv

LEMMA RewriteArgv ==
  ASSUME TypeInv, ArgvInv, Rewrite
  PROVE  ArgvInv'
  <1>1. /\ at' = "scan" /\ round' = 2 /\ first' = arguments
        /\ pos' = 1 /\ inQuotes' = FALSE /\ current' = <<>> /\ argv' = <<>>
        /\ line' = ExecLine(<< <<"engine">> >> \o ToArgv(arguments))
    BY DEF Rewrite, ArgvInv, WriteInv
  <1>2. IsArguments(arguments) /\ ToArgv(arguments) \in Seq(Arg)
    BY ReadIsWritable DEF TypeInv, WellRead
  <1>3. PICK path \in Arg : path = <<"engine">>
    BY SymbolsHave, OneTyped DEF Arg, AnyText, Str
  <1>4. Source' = arguments /\ Spelt' = Then(Char(path), ToArgv(arguments))
    BY <1>1, <1>3 DEF Source, Spelt
  <1>5. PICK args : args = Then(Char(path), ToArgv(arguments))
    OBVIOUS
  <1>6. /\ args \in Seq(Arg) /\ Len(args) > 0 /\ Tail(args) = ToArgv(arguments)
        /\ Scanning(Symbols, args, line', 1, FALSE, <<>>, <<>>)
    BY <1>1, <1>2, <1>3, <1>5, LineScans
  <1> QED BY <1>1, <1>2, <1>4, <1>5, <1>6 DEF ArgvInv, WriteInv, SourceInv, ScanInv, SplitInv

(* A step of the scanner, with the five things that can be ahead.          *)
LEMMA ScanArgv ==
  ASSUME TypeInv, ArgvInv, ScanEscape \/ ScanQuote \/ ScanSpace \/ ScanCharacter
  PROVE  ArgvInv'
  <1>1. /\ at = "scan" /\ at' = "scan" /\ pos <= Len(line) /\ line' = line
        /\ UNCHANGED written
    BY DEF ScanEscape, ScanQuote, ScanSpace, ScanCharacter, Scan
  <1>2. SUFFICES ASSUME Reading
                 PROVE  Scanning(Symbols, Spelt, line, pos', inQuotes', current', argv')
    BY <1>1, SourceKept DEF ArgvInv, WriteInv, SourceInv, ScanInv, SplitInv
  <1> DEFINE args == Spelt
             Goes(p, q, cur, av) == Scanning(Symbols, args, line, p, q, cur, av)
  <1>3. /\ args \in Seq(Arg) /\ line \in AnyText /\ pos \in 1..Len(line) + 1
        /\ inQuotes \in BOOLEAN /\ Goes(pos, inQuotes, current, argv)
    BY <1>1, <1>2 DEF ArgvInv, ScanInv, TypeInv
  <1> HIDE DEF args
  <1>4. args \in Seq(AnyText) /\ \A k \in 1..Len(args) : args[k] # <<>>
    <2>1. args \in Seq(AnyText)
      BY <1>3, StrMonotone DEF Arg, Str
    <2>2. \A k \in 1..Len(args) : args[k] \in Arg
      BY <1>3, ElementOfSeq
    <2> QED BY <2>1, <2>2 DEF Arg
  <1>5. \/ EndAhead(args, line, pos, inQuotes, current, argv)
        \/ BlankAhead(Symbols, args, line, pos, inQuotes, current, argv)
        \/ MarkAhead(Symbols, args, line, pos, inQuotes, current, argv)
        \/ EscapeAhead(Symbols, args, line, pos, inQuotes, current, argv)
        \/ OtherAhead(Symbols, args, line, pos, inQuotes, current, argv)
    BY <1>3, <1>4, SymbolsHave, WhatIsAhead DEF AnyText
  <1>6. Len(line) \in Nat /\ pos \in Nat /\ pos > 0
    BY <1>3 DEF AnyText, Str
  <1>8. ~EndAhead(args, line, pos, inQuotes, current, argv)
    BY <1>1, <1>6 DEF EndAhead
  <1>9. BlankAhead(Symbols, args, line, pos, inQuotes, current, argv) =>
          /\ inQuotes = FALSE /\ line[pos] = " " /\ current # <<>>
          /\ Goes(pos + 1, FALSE, <<>>, Append(argv, current))
    BY DEF BlankAhead, Blank
  <1>10. MarkAhead(Symbols, args, line, pos, inQuotes, current, argv) =>
          line[pos] = "\"" /\ Goes(pos + 1, ~inQuotes, current, argv)
    BY DEF MarkAhead, QuoteMark
  <1>11. EscapeAhead(Symbols, args, line, pos, inQuotes, current, argv) =>
          /\ inQuotes = TRUE /\ line[pos] = "\\" /\ EscapeFollows /\ pos + 1 <= Len(line)
          /\ Goes(pos + 2, inQuotes, Append(current, line[pos + 1]), argv)
    <2>1. pos + 1 <= Len(line) => pos < Len(line)
      BY <1>6
    <2> QED BY <2>1 DEF EscapeAhead, QuoteMark, Backslash, EscapeFollows, char
  <1>12. OtherAhead(Symbols, args, line, pos, inQuotes, current, argv) =>
          /\ line[pos] # "\"" /\ (IF inQuotes THEN line[pos] # "\\" ELSE line[pos] # " ")
          /\ Goes(pos + 1, inQuotes, Append(current, line[pos]), argv)
    BY DEF OtherAhead, QuoteMark, Backslash, Blank
  <1> HIDE DEF Goes
  <1>13. CASE ScanEscape
    <2>1. /\ inQuotes = TRUE /\ line[pos] = "\\" /\ EscapeFollows
          /\ pos' = pos + 2 /\ current' = Append(current, line[pos + 1])
          /\ inQuotes' = inQuotes /\ argv' = argv
      BY <1>3, <1>13 DEF ScanEscape, Scan, EscapeFollows, char
    <2>2. EscapeAhead(Symbols, args, line, pos, inQuotes, current, argv)
      BY <1>5, <1>8, <1>9, <1>10, <1>12, <2>1
    <2>3. Goes(pos', inQuotes', current', argv')
      BY <1>11, <2>1, <2>2
    <2> QED BY <2>3 DEF Goes, args
  <1>14. CASE ScanQuote
    <2>1. /\ line[pos] = "\"" /\ pos' = pos + 1 /\ current' = current
          /\ inQuotes' = ~inQuotes /\ argv' = argv
      BY <1>14 DEF ScanQuote, Scan, char
    <2>2. MarkAhead(Symbols, args, line, pos, inQuotes, current, argv)
      BY <1>5, <1>8, <1>9, <1>11, <1>12, <2>1
    <2>3. Goes(pos', inQuotes', current', argv')
      BY <1>10, <2>1, <2>2
    <2> QED BY <2>3 DEF Goes, args
  <1>15. CASE ScanSpace
    <2>1. /\ inQuotes = FALSE /\ line[pos] = " " /\ pos' = pos + 1 /\ current' = <<>>
          /\ inQuotes' = FALSE /\ argv' = Flushed
      BY <1>3, <1>15 DEF ScanSpace, Scan, char, Empty
    <2>2. BlankAhead(Symbols, args, line, pos, inQuotes, current, argv)
      BY <1>5, <1>8, <1>10, <1>11, <1>12, <2>1
    <2>3. argv' = Append(argv, current)
      BY <1>9, <2>1, <2>2 DEF Flushed, Empty
    <2>4. Goes(pos', inQuotes', current', argv')
      BY <1>9, <2>1, <2>2, <2>3
    <2> QED BY <2>4 DEF Goes, args
  <1>16. CASE ScanCharacter
    <2>1. /\ IF inQuotes THEN line[pos] # "\"" /\ ~EscapeFollows
             ELSE line[pos] # "\"" /\ line[pos] # " "
          /\ pos' = pos + 1 /\ current' = Append(current, line[pos])
          /\ inQuotes' = inQuotes /\ argv' = argv
      BY <1>16 DEF ScanCharacter, Scan, char
    <2>2. OtherAhead(Symbols, args, line, pos, inQuotes, current, argv)
      BY <1>5, <1>8, <1>9, <1>10, <1>11, <2>1
    <2>3. Goes(pos', inQuotes', current', argv')
      BY <1>12, <2>1, <2>2
    <2> QED BY <2>3 DEF Goes, args
  <1> QED BY <1>13, <1>14, <1>15, <1>16

LEMMA EndOfLineArgv ==
  ASSUME TypeInv, ArgvInv, EndOfLine
  PROVE  ArgvInv'
  <1>1. /\ at = "scan" /\ at' = "read" /\ pos > Len(line) /\ pos' = 1
        /\ inQuotes' = FALSE /\ current' = <<>> /\ UNCHANGED written
    BY DEF EndOfLine, Empty
  <1>2. SUFFICES ASSUME Reading
                 PROVE  argv' = ToArgv(Source)
    BY <1>1, SourceKept DEF ArgvInv, WriteInv, SourceInv, ScanInv, SplitInv
  <1> DEFINE args == Spelt
  <1>3. /\ args \in Seq(Arg) /\ line \in AnyText /\ pos \in 1..Len(line) + 1
        /\ inQuotes \in BOOLEAN
        /\ Scanning(Symbols, args, line, pos, inQuotes, current, argv)
        /\ Len(args) > 0 /\ Tail(args) = ToArgv(Source)
    BY <1>1, <1>2 DEF ArgvInv, ScanInv, TypeInv
  <1> HIDE DEF args
  <1>4. args \in Seq(AnyText) /\ \A k \in 1..Len(args) : args[k] # <<>>
    <2>1. args \in Seq(AnyText)
      BY <1>3, StrMonotone DEF Arg, Str
    <2>2. \A k \in 1..Len(args) : args[k] \in Arg
      BY <1>3, ElementOfSeq
    <2> QED BY <2>1, <2>2 DEF Arg
  <1>5. \/ EndAhead(args, line, pos, inQuotes, current, argv)
        \/ BlankAhead(Symbols, args, line, pos, inQuotes, current, argv)
        \/ MarkAhead(Symbols, args, line, pos, inQuotes, current, argv)
        \/ EscapeAhead(Symbols, args, line, pos, inQuotes, current, argv)
        \/ OtherAhead(Symbols, args, line, pos, inQuotes, current, argv)
    BY <1>3, <1>4, SymbolsHave, WhatIsAhead DEF AnyText
  <1>6. EndAhead(args, line, pos, inQuotes, current, argv)
    <2>1. Len(line) \in Nat /\ pos \in Nat
      BY <1>3 DEF AnyText, Str
    <2>2. ~(pos <= Len(line)) /\ ~(pos + 1 <= Len(line))
      BY <1>1, <2>1
    <2> QED BY <1>5, <2>2 DEF BlankAhead, MarkAhead, EscapeAhead, OtherAhead
  <1>7. Flushed = AllDoubled(args, Len(args))
    BY <1>6 DEF EndAhead, Flushed, Empty
  <1>8. PICK n \in Nat : n = Len(args) /\ DOMAIN args = 1..n /\ n > 0
    BY <1>3
  <1>9. \A k \in 1..n : Halve(Double(args[k])) = args[k]
    <2>1. \A k \in 1..n : args[k] \in AnyText
      BY <1>4, <1>8, ElementOfSeq
    <2> QED BY <2>1, SymbolsHave, HalvingUndoesDoubling DEF AnyText, Specials
  <1>10. [k \in DOMAIN Flushed |-> Halve(Flushed[k])] = args
    <2>1. DOMAIN Flushed = 1..n /\ \A k \in 1..n : Flushed[k] = Double(args[k])
      BY <1>7, <1>8 DEF AllDoubled
    <2>2. [k \in DOMAIN Flushed |-> Halve(Flushed[k])] = [k \in 1..n |-> args[k]]
      BY <1>9, <2>1
    <2> QED BY <1>3, <1>8, <2>2
  <1>11. args # <<>>
    BY <1>3
  <1>12. argv' = Tail(args)
    BY <1>10, <1>11 DEF EndOfLine
  <1> QED BY <1>3, <1>12

(* The reader's loop leaves argv alone.                                    *)
LEMMA ReadArgv ==
  ASSUME ArgvInv, FromArgv
  PROVE  ArgvInv'
  <1>1. at = "read" /\ at' \in {"read", "done"} /\ UNCHANGED <<scanning, written>>
    BY DEF FromArgv, UnknownOption, BareToken, MissingValue, ReadScreenSwitch,
           ReadScreenMember, ReadFlag, ReadProperty, ReadGlobal, ReadPositional, EndOfTokens, Turn
  <1> QED BY <1>1, SourceKept DEF ArgvInv, WriteInv, SourceInv, ScanInv, SplitInv, scanning

LEMMA NextArgv ==
  ASSUME TypeInv, ArgvInv, [Next]_vars
  PROVE  ArgvInv'
  <1>1. CASE Install
    BY <1>1, InstallArgv
  <1>2. CASE HandEdit
    <2>1. config = Empty /\ config' = config /\ round' = round /\ round = 1 /\ at' = "scan"
      BY <1>2 DEF HandEdit, ArgvInv, WriteInv
    <2> QED BY <2>1 DEF ArgvInv, WriteInv, SourceInv, ScanInv, SplitInv, Reading
  <1>3. CASE Rewrite
    BY <1>3, RewriteArgv
  <1>4. CASE ParseExecArgs
    BY <1>4, ScanArgv, EndOfLineArgv DEF ParseExecArgs
  <1>5. CASE FromArgv
    BY <1>5, ReadArgv
  <1>6. CASE UNCHANGED vars
    <2>1. UNCHANGED written /\ at' = at /\ line' = line /\ pos' = pos /\ inQuotes' = inQuotes
          /\ current' = current /\ argv' = argv /\ config' = config /\ round' = round
      BY <1>6 DEF vars, written
    <2> QED BY <2>1, SourceKept DEF ArgvInv, WriteInv, SourceInv, ScanInv, SplitInv
  <1> QED BY <1>1, <1>2, <1>3, <1>4, <1>5, <1>6 DEF Next

(* exec_args.h:36-40: whatever characters but a newline the settings have, *)
(* of whatever length, and whatever follows on a line, the argv that an    *)
(* install spelt is the argv its reader splits the line into.              *)
THEOREM ArgvAlwaysSurvives == Spec => []ArgvSurvives
  <1>1. TypeInv /\ ArgvInv => ArgvSurvives
    BY DEF TypeInv, ArgvInv, SplitInv, ArgvSurvives, Installed, OneLine, Reading, Source
  <1> QED BY <1>1, InitTyped, NextTyped, InitArgv, NextArgv, PTL DEF Spec
-----------------------------------------------------------------------------
(* What is written reads back: numbers, properties, flags.                 *)

LEMMA PairIs ==
  ASSUME NEW b, NEW c, NEW text, text = <<b, c>>
  PROVE  Len(text) = 2 /\ text[1] = b /\ text[2] = c /\ text # <<>> /\ Last(text) = c
  BY DEF Last

LEMMA OneIs ==
  ASSUME NEW b, NEW text, text = <<b>>
  PROVE  Len(text) = 1 /\ text[1] = b /\ text # <<>> /\ Last(text) = b
  BY DEF Last

LEMMA NumeralIs ==
  ASSUME NEW m \in DOMAIN Numeral
  PROVE  /\ m \in Nat /\ Numeral[m] \in Digits /\ Numeral[m] # "-"
         /\ Number[Numeral[m]] = m
  BY NumeralAssumption

(* row.h:118-132: the numeral that Push writes for a number is one that    *)
(* ParseInt takes, for that number, negative ones included.                *)
THEOREM NumeralsReadBack ==
  ASSUME NEW n \in Ints
  PROVE  IsInt(ToText(n)) /\ IntOf(ToText(n)) = n
  <1>1. n \in Ints /\ n \in Int /\ (n \in DOMAIN Numeral \/ -n \in DOMAIN Numeral)
    BY IntsWritten
  <1>2. CASE n < 0
    <2>1. PICK m \in DOMAIN Numeral : m = -n
      BY <1>1, <1>2, NumeralAssumption
    <2>2. PICK e : e = Numeral[m]
      OBVIOUS
    <2>3. PICK text : text = <<"-", e>>
      OBVIOUS
    <2>4. ToText(n) = text
      BY <1>2, <2>1, <2>2, <2>3 DEF ToText
    <2>5. /\ Len(text) = 2 /\ text[1] = "-" /\ text[2] = e
          /\ text # <<>> /\ Last(text) = e
      BY <2>3, PairIs
    <2>6. Contains(text, "-")
      <3>1. 1 \in 1..Len(text)
        BY <2>5
      <3> QED BY <2>5, <3>1 DEF Contains
    <2>7. IntOf(text) = n
      <3>1. Number[e] = m /\ -m = n
        BY <1>1, <2>1, <2>2, NumeralIs
      <3> QED BY <2>5, <2>6, <3>1 DEF IntOf
    <2>8. IsInt(text)
      <3>1. e \in Digits
        BY <2>2, NumeralIs
      <3>2. \A k \in 1..Len(text) - 1 : text[k] = "-" /\ k = Len(text) - 1
        BY <2>5
      <3> QED BY <1>1, <2>5, <2>7, <3>1, <3>2 DEF IsInt, Empty
    <2> QED BY <2>4, <2>7, <2>8
  <1>3. CASE ~(n < 0)
    <2>1. PICK m \in DOMAIN Numeral : m = n
      BY <1>1, <1>3, NumeralAssumption
    <2>2. PICK e : e = Numeral[m]
      OBVIOUS
    <2>3. PICK text : text = <<e>>
      OBVIOUS
    <2>4. ToText(n) = text
      BY <1>3, <2>1, <2>2, <2>3 DEF ToText
    <2>5. Len(text) = 1 /\ text[1] = e /\ text # <<>> /\ Last(text) = e
      BY <2>3, OneIs
    <2>6. ~Contains(text, "-")
      <3>1. e # "-"
        BY <2>2, NumeralIs
      <3>2. \A k \in 1..Len(text) : k = 1
        BY <2>5
      <3> QED BY <2>5, <3>1, <3>2 DEF Contains
    <2>7. IntOf(text) = n
      <3>1. Number[e] = n
        BY <2>1, <2>2, NumeralIs
      <3> QED BY <2>5, <2>6, <3>1 DEF IntOf
    <2>8. IsInt(text)
      <3>1. e \in Digits
        BY <2>2, NumeralIs
      <3>2. \A k \in 1..Len(text) - 1 : FALSE
        BY <2>5
      <3> QED BY <1>1, <2>5, <2>7, <3>1, <3>2 DEF IsInt, Empty
    <2> QED BY <2>4, <2>7, <2>8
  <1> QED BY <1>2, <1>3

(* toargv.cpp:29-54: a property that is joined by a "=" splits there into  *)
(* the same key and value, whatever the value has, "=" and nothing         *)
(* included, so long as the key has none.                                  *)
THEOREM PropertiesReadBack ==
  ASSUME NEW p \in PlainProperties
  PROVE  PropertyOf(Assignment(p)) = p
  <1>1. PICK key \in AnyText, val \in AnyText :
          key = p.key /\ val = p.value /\ ~Contains(key, "=") /\ p = [key |-> key, value |-> val]
    BY DEF PlainProperties, Properties
  <1>2. PICK e \in Symbols, text \in AnyText :
          e = "=" /\ text = Assignment(p) /\ text = Then(Then(key, Char(e)), val)
    BY <1>1, AssignmentTyped DEF PlainProperties, Arg
  <1>3. PICK n \in Nat, m \in Nat : n = Len(key) /\ m = Len(val)
    BY DEF AnyText, Str
  <1>4. PICK left \in AnyText :
          /\ left = Then(key, Char(e)) /\ Len(left) = n + 1 /\ left[n + 1] = e
          /\ \A i \in 1..n : left[i] = key[i]
    BY <1>3, ThenChar DEF AnyText
  <1>5. Len(text) = n + 1 + m /\ \A i \in 1..n + 1 : text[i] = left[i]
    <2>1. text = Then(left, val) /\ left \in Seq(Symbols) /\ val \in Seq(Symbols)
      BY <1>2, <1>4 DEF AnyText, Str
    <2>2. Len(text) = Len(left) + Len(val) /\ \A i \in 1..Len(left) : text[i] = left[i]
      BY <2>1, ThenProperties
    <2> QED BY <1>3, <1>4, <2>2
  <1>6. ASSUME NEW i \in 1..m PROVE text[(n + 1) + i] = val[i]
    <2>1. left \in Seq(Symbols) /\ val \in Seq(Symbols) /\ i \in 1..Len(val)
      BY <1>3 DEF AnyText, Str
    <2>2. PICK j : j = Len(left) + i /\ j = (n + 1) + i
      BY <1>4
    <2>3. Then(left, val)[j] = val[i]
      BY <2>1, <2>2, ThenAfter
    <2> QED BY <1>2, <1>4, <2>2, <2>3
  <1>7. \A i \in 1..n : text[i] = key[i] /\ key[i] # "="
    <2>1. \A i \in 1..n : key[i] # "="
      BY <1>1, <1>3 DEF Contains
    <2> QED BY <1>4, <1>5, <2>1
  <1>8. text[n + 1] = "="
    BY <1>2, <1>4, <1>5
  <1>9. PICK equals : equals = SelectInSeq(text, LAMBDA ch : ch = "=")
    OBVIOUS
  <1>10. equals = n + 1
    <2>1. /\ equals \in 0..n + 1 + m
          /\ equals # 0 => text[equals] = "="
          /\ \A i \in 1..n + 1 + m : (equals = 0 \/ i < equals) => text[i] # "="
      BY <1>5, <1>9, FirstEquals
    <2>2. equals # 0 /\ ~(n + 1 < equals)
      BY <1>8, <2>1
    <2>3. equals \notin 1..n
      BY <1>7, <2>1
    <2> QED BY <2>1, <2>2, <2>3
  <1>11. PropertyOf(text)
           = [key |-> SubSeq(text, 1, n), value |-> SubSeq(text, n + 2, n + 1 + m)]
    <2>1. n + 1 # 0 /\ (n + 1) - 1 = n /\ (n + 1) + 1 = n + 2
      OBVIOUS
    <2> QED BY <1>5, <1>9, <1>10, <2>1 DEF PropertyOf
  <1>12. text \in Seq(Symbols) /\ key \in Seq(Symbols) /\ val \in Seq(Symbols)
    BY DEF AnyText, Str
  <1>13. SubSeq(text, 1, n) = key
    <2>1. SubSeq(text, 1, n) \in Seq(Symbols) /\ Len(SubSeq(text, 1, n)) = n
      BY <1>5, <1>12
    <2>2. \A i \in 1..n : SubSeq(text, 1, n)[i] = key[i]
      BY <1>5, <1>7, <1>12
    <2> QED BY <1>3, <1>12, <2>1, <2>2, SeqEqual
  <1>14. SubSeq(text, n + 2, n + 1 + m) = val
    <2>1. SubSeq(text, n + 2, n + 1 + m) \in Seq(Symbols)
          /\ Len(SubSeq(text, n + 2, n + 1 + m)) = m
      BY <1>5, <1>12
    <2>2. ASSUME NEW i \in 1..m PROVE SubSeq(text, n + 2, n + 1 + m)[i] = val[i]
      <3>1. SubSeq(text, n + 2, n + 1 + m)[i] = text[(n + 1) + i]
        BY <1>5, <1>12
      <3> QED BY <1>6, <3>1
    <2> QED BY <1>3, <1>12, <2>1, <2>2, SeqEqual
  <1> QED BY <1>1, <1>2, <1>11, <1>13, <1>14

-----------------------------------------------------------------------------
(* A turn of the reader's loop.                                            *)

(* The pieces from the k-th on, as one sequence.                           *)
From(seqs, k) == FlattenSeq([i \in 1..Len(seqs) - k + 1 |-> seqs[k + i - 1]])

LEMMA FromIs ==
  ASSUME NEW S, NEW seqs \in Seq(Seq(S)), NEW n \in Nat, n = Len(seqs)
  PROVE  /\ From(seqs, 1) = FlattenSeq(seqs) /\ From(seqs, n + 1) = <<>>
         /\ \A k \in 1..n + 1 : From(seqs, k) \in Str(S)
         /\ \A k \in 1..n : seqs[k] \in Str(S) /\ From(seqs, k) = Then(seqs[k], From(seqs, k + 1))
  <1> DEFINE Left(k) == [i \in 1..Len(seqs) - k + 1 |-> seqs[k + i - 1]]
  <1>1. ASSUME NEW k \in 1..n + 1
        PROVE  /\ Left(k) \in Seq(Seq(S)) /\ Len(Left(k)) = n - k + 1
               /\ \A i \in 1..n - k + 1 : Left(k)[i] = seqs[k + i - 1]
    <2>1. \A i \in 1..n - k + 1 : k + i - 1 \in 1..n
      OBVIOUS
    <2>2. \A i \in 1..n - k + 1 : seqs[k + i - 1] \in Seq(S)
      BY <2>1, ElementOfSeq
    <2>3. n - k + 1 \in Nat
      OBVIOUS
    <2> QED BY <2>2, <2>3
  <1>2. \A k \in 1..n + 1 : From(seqs, k) = FlattenSeq(Left(k))
    BY DEF From
  <1> HIDE DEF Left
  <1>3. From(seqs, 1) = FlattenSeq(seqs)
    <2>1. Left(1) \in Seq(Seq(S)) /\ Len(Left(1)) = n /\ \A i \in 1..n : Left(1)[i] = seqs[i]
      <3>1. 1 \in 1..n + 1 /\ n - 1 + 1 = n /\ \A i \in 1..n : 1 + i - 1 = i
        OBVIOUS
      <3>2. /\ Left(1) \in Seq(Seq(S)) /\ Len(Left(1)) = n - 1 + 1
            /\ \A i \in 1..n - 1 + 1 : Left(1)[i] = seqs[1 + i - 1]
        BY <1>1, <3>1
      <3> QED BY <3>1, <3>2
    <2>2. Left(1) = seqs
      BY <2>1, SeqEqual
    <2> QED BY <1>2, <2>2
  <1>4. From(seqs, n + 1) = <<>>
    <2>1. Left(n + 1) \in Seq(Seq(S)) /\ Len(Left(n + 1)) = 0
      <3>1. n + 1 \in 1..n + 1 /\ n - (n + 1) + 1 = 0
        OBVIOUS
      <3> QED BY <1>1, <3>1
    <2>2. Left(n + 1) = <<>>
      BY <2>1, EmptySeq
    <2> QED BY <1>2, <2>2, FlattenNone
  <1>5. \A k \in 1..n + 1 : From(seqs, k) \in Str(S)
    BY <1>1, <1>2, FlattenTyped DEF Str
  <1>6. ASSUME NEW k \in 1..n
        PROVE  seqs[k] \in Str(S) /\ From(seqs, k) = Then(seqs[k], From(seqs, k + 1))
    <2>1. k \in 1..n + 1 /\ k + 1 \in 1..n + 1 /\ n - k + 1 = (n - (k + 1) + 1) + 1
      OBVIOUS
    <2>2. Len(Left(k)) = Len(Left(k + 1)) + 1
      BY <1>1, <2>1
    <2>3. ASSUME NEW i \in 1..Len(Left(k + 1)) PROVE Left(k)[i + 1] = Left(k + 1)[i]
      <3>1. i \in 1..n - (k + 1) + 1
        BY <1>1, <2>1
      <3>2. PICK j : j = i + 1
        OBVIOUS
      <3>3. j \in 1..n - k + 1 /\ k + j - 1 = (k + 1) + i - 1
        BY <3>1, <3>2
      <3>4. Left(k)[j] = seqs[k + j - 1]
        BY <1>1, <2>1, <3>3
      <3>5. Left(k + 1)[i] = seqs[(k + 1) + i - 1]
        BY <1>1, <2>1, <3>1
      <3> QED BY <3>2, <3>3, <3>4, <3>5
    <2>4. Left(k)[1] = seqs[k]
      <3>1. 1 \in 1..n - k + 1 /\ k + 1 - 1 = k
        OBVIOUS
      <3> QED BY <1>1, <2>1, <3>1
    <2>5. FlattenSeq(Left(k)) = Then(Left(k)[1], FlattenSeq(Left(k + 1)))
      BY <1>1, <2>1, <2>2, <2>3, FlattenFirst
    <2> QED BY <1>2, <2>1, <2>4, <2>5, ElementOfSeq DEF Str
  <1> QED BY <1>3, <1>4, <1>5, <1>6

LEMMA OneAhead ==
  ASSUME TypeInv, at = "read", NEW b \in Arg, NEW t \in Str(Arg),
         Ahead(argv, pos) = Then(<<b>>, t)
  PROVE  pos <= Len(argv) /\ token = b /\ Ahead(argv, pos + 1) = t
  <1>1. argv \in Str(Arg) /\ pos \in 1..Len(argv) + 1
    BY DEF TypeInv, Str
  <1>2. SubSeq(argv, pos, Len(argv)) = Then(Char(b), t)
    BY DEF Ahead, Char
  <1> QED BY <1>1, <1>2, Peel DEF token, Ahead

LEMMA TwoAhead ==
  ASSUME TypeInv, at = "read", NEW b \in Arg, NEW c \in Arg, NEW t \in Str(Arg),
         Ahead(argv, pos) = Then(<<b, c>>, t)
  PROVE  /\ pos <= Len(argv) /\ HasValue /\ token = b /\ value = c
         /\ Ahead(argv, pos + 2) = t
  <1>1. PICK s \in Str(Arg), n \in Nat : s = argv /\ n = Len(s) /\ pos \in 1..n + 1
    BY DEF TypeInv, Str
  <1>2. Char(b) \in Str(Arg) /\ Then(Char(c), t) \in Str(Arg)
    BY StrTyped
  <1>3. SubSeq(s, pos, Len(s)) = Then(Char(b), Then(Char(c), t))
    <2>1. Then(Then(Char(b), Char(c)), t) = Then(Char(b), Then(Char(c), t))
      BY <1>2, StrTyped, StrThen
    <2> QED BY <1>1, <2>1, ThenPair DEF Ahead
  <1>4. /\ pos <= n /\ pos + 1 \in 1..n + 1 /\ s[pos] = b
        /\ SubSeq(s, pos + 1, Len(s)) = Then(Char(c), t)
    <2>1. PICK u \in Str(Arg) : u = Then(Char(c), t)
      BY <1>2
    <2>2. pos \in 1..Len(s) + 1 /\ SubSeq(s, pos, Len(s)) = Then(Char(b), u)
      BY <1>1, <1>3, <2>1
    <2>3. pos <= Len(s) /\ pos + 1 \in 1..Len(s) + 1 /\ s[pos] = b
          /\ SubSeq(s, pos + 1, Len(s)) = u
      BY <2>2, Peel
    <2> QED BY <1>1, <2>1, <2>3
  <1>5. PICK o \in 1..n + 1 : o = pos + 1
    BY <1>4
  <1>6. o <= n /\ s[o] = c /\ SubSeq(s, o + 1, Len(s)) = t
    <2>1. o \in 1..Len(s) + 1 /\ SubSeq(s, o, Len(s)) = Then(Char(c), t)
      BY <1>1, <1>4, <1>5
    <2>2. o <= Len(s) /\ s[o] = c /\ SubSeq(s, o + 1, Len(s)) = t
      BY <2>1, Peel
    <2> QED BY <1>1, <2>2
  <1>7. o + 1 = pos + 2 /\ pos < n
    BY <1>1, <1>5, <1>6
  <1> QED BY <1>1, <1>4, <1>5, <1>6, <1>7 DEF token, value, HasValue, Ahead

LEMMA NoneAhead ==
  ASSUME TypeInv, at = "read", Ahead(argv, pos) = <<>>
  PROVE  pos > Len(argv)
  BY Peeled DEF TypeInv, Str, Ahead

(* What a turn does when a row's first spelling is ahead.                  *)
LEMMA RowIsRead ==
  ASSUME FromArgv, NEW row \in Rows, pos <= Len(argv), Len(argv) \in Nat, pos \in Nat,
         token = Canonical(row), row.binding # "Positional",
         row.arity # "Flag" => HasValue
  PROVE  /\ at' = "read" /\ UNCHANGED <<scanning, written>>
         /\ pos' = pos + (IF row.arity = "Flag" THEN 1 ELSE 2)
         /\ row.binding = "ScreenSwitch" =>
              Write([arguments EXCEPT
                !.screens = Append(@, [NoScreen EXCEPT !.screen = value])])
         /\ row.binding = "ScreenMember" /\ arguments.screens # <<>> =>
              Write([arguments EXCEPT !.screens[Len(arguments.screens)][row.field] = value])
         /\ row.binding = "Global" =>
              /\ row.arity = "Flag" =>
                   Write([arguments EXCEPT ![row.field] = row.polarity = "Positive"])
              /\ row.arity = "Repeated" =>
                   Write([arguments EXCEPT !.properties = Append(@, PropertyOf(value))])
              /\ row.arity = "Value" =>
                   /\ IsInt(value) /\ row.field \in IntFields =>
                        Write([arguments EXCEPT ![row.field] = IntOf(value)])
                   /\ IsInt(value) /\ row.field \notin IntFields => Write(arguments)
                   /\ ~IsInt(value) /\ row.field \notin IntFields =>
                        Write([arguments EXCEPT ![row.field] = value])
  <1>1. Option /\ spec = row
    BY WrittenIsFound DEF Option, spec
  <1>2. ~UnknownOption /\ ~BareToken /\ ~MissingValue /\ ~EndOfTokens /\ ~ReadPositional
    <2>1. ~UnknownOption /\ ~BareToken
      BY <1>1 DEF UnknownOption, BareToken, Turn
    <2>2. ~MissingValue
      BY <1>1 DEF MissingValue
    <2>3. ~EndOfTokens
      BY DEF EndOfTokens
    <2>4. ~ReadPositional
      BY <1>1 DEF ReadPositional, Turn, Bound
    <2> QED BY <2>1, <2>2, <2>3, <2>4
  <1>3. /\ row.binding # "Global" => row.arity = "Value"
        /\ row.arity \in {"Flag", "Value", "Repeated"}
    BY RowKinds DEF RowKind
  <1>4. Takes = IF row.arity = "Flag" THEN 1 ELSE 2
    BY <1>1 DEF Takes
  <1>5. CASE ReadScreenSwitch
    BY <1>1, <1>3, <1>4, <1>5 DEF ReadScreenSwitch, Turn, Bound
  <1>6. CASE ReadScreenMember
    BY <1>1, <1>3, <1>4, <1>6 DEF ReadScreenMember, Turn, Bound
  <1>7. CASE ReadFlag
    BY <1>1, <1>4, <1>7 DEF ReadFlag, Turn, Bound
  <1>8. CASE ReadProperty
    BY <1>1, <1>4, <1>8 DEF ReadProperty, Turn, Bound
  <1>9. CASE ReadGlobal
    <2>1. /\ Turn(Bound("Global") /\ spec.arity = "Value", Takes)
          /\ \/ IsInt(value) /\ spec.field \in IntFields
                /\ Write([arguments EXCEPT ![spec.field] = IntOf(value)])
             \/ IsInt(value) /\ spec.field \notin IntFields /\ Write(arguments)
             \/ ~IsInt(value) /\ spec.field \in IntFields /\ Report("not a number")
             \/ ~IsInt(value) /\ spec.field \notin IntFields
                /\ Write([arguments EXCEPT ![spec.field] = value])
      BY <1>9 DEF ReadGlobal
    <2> QED BY <1>1, <1>4, <2>1 DEF Turn, Bound
  <1> QED BY <1>2, <1>5, <1>6, <1>7, <1>8, <1>9 DEF FromArgv
-----------------------------------------------------------------------------
(* What a reader can know of an argument set, field by field.              *)

ReadBack(a) ==
  [Visible(a) EXCEPT !.assetsDir = IF IsInt(a.assetsDir) THEN Empty ELSE a.assetsDir]

(* The order in which the fields are written.                              *)
IndexOf(f) ==
  CASE f = "screens"            -> 0
    [] f = "assetsDir"          -> 1
    [] f = "fps"                -> 2
    [] f = "pauseOnFullscreen"  -> 3
    [] f = "automute"           -> 4
    [] f = "audioProcessing"    -> 5
    [] f = "silent"             -> 6
    [] f = "volume"             -> 7
    [] f = "disableParticles"   -> 8
    [] f = "disableMouse"       -> 9
    [] f = "disableParallax"    -> 10
    [] f = "properties"         -> 11
    [] f = "listProperties"     -> 12
    [] f = "backgroundId"       -> 13

(* What is read of a before its i-th row.                                  *)
UpTo(a, i) == [f \in Fields |-> IF IndexOf(f) < i THEN ReadBack(a)[f] ELSE Defaults[f]]

LEMMA GlobalFields ==
  /\ Globals[1].field = "assetsDir" /\ Globals[2].field = "fps"
  /\ Globals[3].field = "pauseOnFullscreen" /\ Globals[4].field = "automute"
  /\ Globals[5].field = "audioProcessing" /\ Globals[6].field = "silent"
  /\ Globals[7].field = "volume" /\ Globals[8].field = "disableParticles"
  /\ Globals[9].field = "disableMouse" /\ Globals[10].field = "disableParallax"
  /\ Globals[11].field = "properties" /\ Globals[12].field = "listProperties"
  <1> USE DEF Globals, Global, Negative, AudioOut, Row
  <1>1. Globals[1].field = "assetsDir" /\ Globals[2].field = "fps"
        /\ Globals[3].field = "pauseOnFullscreen" /\ Globals[4].field = "automute"
    OBVIOUS
  <1>2. Globals[5].field = "audioProcessing" /\ Globals[6].field = "silent"
        /\ Globals[7].field = "volume" /\ Globals[8].field = "disableParticles"
    OBVIOUS
  <1>3. Globals[9].field = "disableMouse" /\ Globals[10].field = "disableParallax"
        /\ Globals[11].field = "properties" /\ Globals[12].field = "listProperties"
    OBVIOUS
  <1> HIDE DEF Globals, Global, Negative, AudioOut, Row
  <1> QED BY <1>1, <1>2, <1>3

LEMMA EachIndex ==
  /\ IndexOf("screens") = 0 /\ IndexOf("assetsDir") = 1 /\ IndexOf("fps") = 2
  /\ IndexOf("pauseOnFullscreen") = 3 /\ IndexOf("automute") = 4
  /\ IndexOf("audioProcessing") = 5 /\ IndexOf("silent") = 6 /\ IndexOf("volume") = 7
  /\ IndexOf("disableParticles") = 8 /\ IndexOf("disableMouse") = 9
  /\ IndexOf("disableParallax") = 10 /\ IndexOf("properties") = 11
  /\ IndexOf("listProperties") = 12 /\ IndexOf("backgroundId") = 13
  BY DEF IndexOf

LEMMA RowNumbers ==
  ASSUME NEW i \in 1..12
  PROVE  i \in {1, 2, 3, 4, 5, 6, 7, 8, 9, 10, 11, 12}
  OBVIOUS

LEMMA Indices ==
  /\ \A f \in Fields : IndexOf(f) \in 0..13
  /\ \A f, g \in Fields : IndexOf(f) = IndexOf(g) => f = g
  /\ \A i \in 1..12 : Globals[i].field \in Fields /\ IndexOf(Globals[i].field) = i
  /\ IndexOf("screens") = 0 /\ IndexOf("backgroundId") = 13
  /\ {"screens", "backgroundId", "properties"} \subseteq Fields
  <1>1. \A f \in Fields :
          f \in {"screens", "assetsDir", "fps", "pauseOnFullscreen", "automute",
                 "audioProcessing", "silent", "volume", "disableParticles", "disableMouse",
                 "disableParallax", "properties", "listProperties", "backgroundId"}
    BY FieldsAre DEF FlagFields, IntFields
  <1>2. \A f \in Fields : IndexOf(f) \in 0..13
    BY <1>1, EachIndex
  <1>3. ASSUME NEW f \in Fields, NEW g \in Fields, IndexOf(f) = IndexOf(g) PROVE f = g
    BY <1>1, <1>3, EachIndex
  <1>4. ASSUME NEW i \in 1..12
        PROVE  Globals[i].field \in Fields /\ IndexOf(Globals[i].field) = i
    <2>1. IndexOf(Globals[i].field) = i
      BY RowNumbers, GlobalFields, EachIndex
    <2>2. Globals[i].field \in Fields
      BY RowNumbers, GlobalFields, FieldsAre DEF FlagFields, IntFields
    <2> QED BY <2>1, <2>2
  <1>5. {"screens", "backgroundId", "properties"} \subseteq Fields
    BY FieldsAre
  <1> QED BY <1>2, <1>3, <1>4, <1>5, EachIndex

(* A flag is written when it is not the engine's default.                  *)
LEMMA FlagRow ==
  ASSUME NEW i \in 1..12, Globals[i].arity = "Flag"
  PROVE  /\ Globals[i].field \in FlagFields
         /\ \/ Globals[i].polarity = "Positive" /\ Defaults[Globals[i].field] = FALSE
            \/ Globals[i].polarity # "Positive" /\ Defaults[Globals[i].field] = TRUE
  <1>1. /\ Globals[1].arity # "Flag" /\ Globals[2].arity # "Flag"
        /\ Globals[7].arity # "Flag" /\ Globals[11].arity # "Flag"
    BY DEF Globals, Global, AudioOut, Row
  <1>2. /\ Globals[3].polarity # "Positive" /\ Globals[4].polarity # "Positive"
        /\ Globals[5].polarity # "Positive"
    BY DEF Globals, Global, Negative, Row
  <1>3. /\ Globals[6].polarity = "Positive" /\ Globals[8].polarity = "Positive"
        /\ Globals[9].polarity = "Positive" /\ Globals[10].polarity = "Positive"
        /\ Globals[12].polarity = "Positive"
    BY DEF Globals, Global, AudioOut, Row
  <1>4. /\ Defaults.pauseOnFullscreen = TRUE /\ Defaults.automute = TRUE
        /\ Defaults.audioProcessing = TRUE /\ Defaults.silent = FALSE
        /\ Defaults.disableParticles = FALSE /\ Defaults.disableMouse = FALSE
        /\ Defaults.disableParallax = FALSE /\ Defaults.listProperties = FALSE
    BY DEF Defaults
  <1>5. i \in {3, 4, 5} \/ i \in {6, 8, 9, 10, 12}
    BY <1>1, RowNumbers
  <1>6. CASE i \in {3, 4, 5}
    BY <1>2, <1>4, <1>6, GlobalFields DEF FlagFields
  <1>7. CASE i \in {6, 8, 9, 10, 12}
    BY <1>3, <1>4, <1>7, GlobalFields DEF FlagFields
  <1> QED BY <1>5, <1>6, <1>7

(* Of the rows, only the volume may give way to another, --silent.         *)
LEMMA Suppression ==
  ASSUME NEW a, NEW i \in 1..12
  PROVE  /\ Suppressed(i, a) => i = 7 /\ a.silent = TRUE
         /\ i = 7 /\ a.silent = TRUE => Suppressed(i, a)
  <1>1. /\ Globals[1].group = "none" /\ Globals[2].group = "none" /\ Globals[3].group = "none"
        /\ Globals[4].group = "none" /\ Globals[5].group = "none"
    BY DEF Globals, Global, Negative, Row
  <1>2. /\ Globals[8].group = "none" /\ Globals[9].group = "none" /\ Globals[10].group = "none"
        /\ Globals[11].group = "none" /\ Globals[12].group = "none"
    BY DEF Globals, Global, Row
  <1>3. /\ Globals[6].group = "audio-out" /\ Globals[7].group = "audio-out"
        /\ Globals[6].arity = "Flag" /\ Globals[6].polarity = "Positive"
        /\ Globals[6].field = "silent"
    BY DEF Globals, Global, AudioOut, Row
  <1>4. \A j \in 1..5 : Globals[j].group = "none"
    BY <1>1
  <1>5. Active(Globals[6], a) <=> a.silent = TRUE
    BY <1>3 DEF Active
  <1>6. CASE i = 7
    <2>1. 6 \in 1..i - 1 /\ \A j \in 1..i - 1 : j = 6 \/ j \in 1..5
      BY <1>6
    <2> QED BY <1>3, <1>4, <1>5, <1>6, <2>1 DEF Suppressed
  <1>7. CASE i = 6
    <2>1. \A j \in 1..i - 1 : j \in 1..5
      BY <1>7
    <2> QED BY <1>3, <1>4, <1>7, <2>1 DEF Suppressed
  <1>8. CASE i \notin {6, 7}
    BY <1>1, <1>2, <1>8, RowNumbers DEF Suppressed
  <1> QED BY <1>6, <1>7, <1>8

LEMMA ReadBackIs ==
  ASSUME NEW a, IsArguments(a)
  PROVE  /\ ReadBack(a) = [f \in Fields |-> ReadBack(a)[f]]
         /\ \A f \in Fields \ {"volume", "assetsDir"} : ReadBack(a)[f] = a[f]
         /\ ReadBack(a).volume = IF a.silent THEN Defaults.volume ELSE a.volume
         /\ ReadBack(a).assetsDir = IF IsInt(a.assetsDir) THEN Empty ELSE a.assetsDir
  <1>1. a = [f \in Fields |-> a[f]] /\ {"volume", "assetsDir"} \subseteq Fields
    BY FieldsAre DEF IsArguments, IntFields
  <1>2. /\ Visible(a) = [f \in Fields |-> Visible(a)[f]]
        /\ \A f \in Fields \ {"volume"} : Visible(a)[f] = a[f]
        /\ Visible(a).volume = IF a.silent THEN Defaults.volume ELSE a.volume
    BY <1>1 DEF Visible
  <1> QED BY <1>1, <1>2 DEF ReadBack

(* What an unwritten row leaves to the default.                            *)
LEMMA Unwritten ==
  ASSUME NEW a, IsArguments(a), NEW i \in 1..12, ~WrittenRow(a, i)
  PROVE  ReadBack(a)[Globals[i].field] = Defaults[Globals[i].field]
  <1>1. PICK row : row = Globals[i]
    OBVIOUS
  <1>2. /\ a.silent \in BOOLEAN /\ \A f \in FlagFields : a[f] \in BOOLEAN
        /\ FlagFields \subseteq Fields \ {"volume", "assetsDir"}
        /\ "properties" \in Fields \ {"volume", "assetsDir"}
    BY FieldsAre DEF IsArguments, FlagFields
  <1>3. ~Active(row, a) \/ (i = 7 /\ a.silent = TRUE)
    <2>1. Suppressed(i, a) => i = 7 /\ a.silent = TRUE
      BY Suppression
    <2> QED BY <1>1, <2>1 DEF WrittenRow
  <1>4. CASE i = 7 /\ a.silent = TRUE
    BY <1>4, GlobalFields, ReadBackIs
  <1>5. CASE ~Active(row, a) /\ row.arity = "Flag"
    <2>1. /\ row.field \in FlagFields
          /\ \/ row.polarity = "Positive" /\ Defaults[row.field] = FALSE
             \/ row.polarity # "Positive" /\ Defaults[row.field] = TRUE
      BY <1>1, <1>5, FlagRow
    <2>2. ~(a[row.field] = (row.polarity = "Positive"))
      BY <1>5 DEF Active
    <2>3. a[row.field] = Defaults[row.field]
      BY <1>2, <2>1, <2>2
    <2>4. ReadBack(a)[row.field] = a[row.field]
      BY <1>2, <2>1, ReadBackIs
    <2> QED BY <1>1, <2>3, <2>4
  <1>6. CASE ~Active(row, a) /\ row.arity = "Repeated"
    <2>1. row.field = "properties" /\ a.properties = <<>>
      BY <1>1, <1>6, RepeatedRow DEF Active
    <2>2. ReadBack(a).properties = a.properties
      BY <1>2, ReadBackIs
    <2> QED BY <1>1, <2>1, <2>2 DEF Defaults
  <1>7. CASE ~Active(row, a) /\ row.arity = "Value"
    <2>1. row.field \notin IntFields /\ a[row.field] = Empty
      BY <1>7 DEF Active
    <2>2. row.field = "assetsDir"
      BY <1>1, <1>7, <2>1, GlobalsWritten DEF Written, IntFields
    <2>3. ReadBack(a).assetsDir = Empty
      BY <2>1, <2>2, ReadBackIs
    <2> QED BY <1>1, <2>2, <2>3 DEF Defaults
  <1>8. row.arity \in {"Flag", "Value", "Repeated"}
    BY <1>1, GlobalsWritten DEF Written
  <1> QED BY <1>3, <1>4, <1>5, <1>6, <1>7, <1>8

LEMMA NextUpTo ==
  ASSUME NEW a, NEW i \in 1..12
  PROVE  /\ [UpTo(a, i) EXCEPT ![Globals[i].field] = ReadBack(a)[Globals[i].field]] = UpTo(a, i + 1)
         /\ ReadBack(a)[Globals[i].field] = Defaults[Globals[i].field] => UpTo(a, i) = UpTo(a, i + 1)
  <1>1. PICK g \in Fields : g = Globals[i].field /\ IndexOf(g) = i
    BY Indices
  <1>2. \A f \in Fields : f # g => (IndexOf(f) < i <=> IndexOf(f) < i + 1)
    BY <1>1, Indices
  <1>3. ~(IndexOf(g) < i) /\ IndexOf(g) < i + 1
    BY <1>1
  <1>4. [UpTo(a, i) EXCEPT ![g] = ReadBack(a)[g]] = UpTo(a, i + 1)
    BY <1>1, <1>2, <1>3 DEF UpTo
  <1>5. ReadBack(a)[g] = Defaults[g] => UpTo(a, i) = UpTo(a, i + 1)
    BY <1>2, <1>3 DEF UpTo
  <1> QED BY <1>1, <1>4, <1>5

Gathered(screens) == [Defaults EXCEPT !.screens = screens]

LEMMA UpToEnds ==
  ASSUME NEW a, IsArguments(a)
  PROVE  /\ UpTo(a, 1) = Gathered(a.screens)
         /\ UpTo(a, 11).properties = <<>>
         /\ UpTo(a, 13).backgroundId = Empty
         /\ [UpTo(a, 13) EXCEPT !.backgroundId = a.backgroundId] = ReadBack(a)
         /\ a.backgroundId = Empty => UpTo(a, 13) = ReadBack(a)
  <1>1. /\ ReadBack(a) = [f \in Fields |-> ReadBack(a)[f]]
        /\ ReadBack(a).screens = a.screens /\ ReadBack(a).backgroundId = a.backgroundId
    BY Indices, ReadBackIs
  <1>2. \A f \in Fields : /\ f # "screens" <=> ~(IndexOf(f) < 1)
                          /\ f # "backgroundId" <=> IndexOf(f) < 13
    BY Indices
  <1>3. Defaults = [f \in Fields |-> Defaults[f]]
    BY DefaultsTyped DEF IsArguments
  <1>4. UpTo(a, 1) = Gathered(a.screens)
    BY <1>1, <1>2, <1>3, Indices DEF UpTo, Gathered
  <1>5. UpTo(a, 11).properties = <<>>
    BY EachIndex, Indices DEF UpTo, Defaults
  <1>6. UpTo(a, 13).backgroundId = Empty
    BY EachIndex, Indices DEF UpTo, Defaults
  <1>7. [UpTo(a, 13) EXCEPT !.backgroundId = a.backgroundId] = ReadBack(a)
    BY <1>1, <1>2, Indices DEF UpTo
  <1>8. a.backgroundId = Empty => UpTo(a, 13) = ReadBack(a)
    <2>1. Defaults.backgroundId = Empty
      BY DEF Defaults
    <2> QED BY <1>1, <1>2, <2>1, Indices DEF UpTo
  <1> QED BY <1>4, <1>5, <1>6, <1>7, <1>8
-----------------------------------------------------------------------------
(* The reader between two turns: args is read of a, and rest is ahead.     *)

RestOf(a) == Then(From(RowsOf(a), 1), IdOf(a))

(* What is read of a screen before its m-th member.                        *)
PartOf(s, m) ==
  [screen |-> s.screen, background |-> IF m > 1 THEN s.background ELSE Empty,
   scaling |-> IF m > 2 THEN s.scaling ELSE Empty,
   clamp |-> IF m > 3 THEN s.clamp ELSE Empty]

AtScreen(a, k, args, rest) ==
  /\ args = Gathered(SubSeq(a.screens, 1, k - 1))
  /\ rest = Then(From(ScreensOf(a), k), RestOf(a))

AtMember(a, k, m, args, rest) ==
  /\ args = Gathered(Append(SubSeq(a.screens, 1, k - 1), PartOf(a.screens[k], m)))
  /\ rest = Then(From(Members(a.screens[k]), m), Then(From(ScreensOf(a), k + 1), RestOf(a)))

AtRow(a, i, args, rest) ==
  args = UpTo(a, i) /\ rest = Then(From(RowsOf(a), i), IdOf(a))

AtProperty(a, j, args, rest) ==
  /\ args = [UpTo(a, 11) EXCEPT !.properties = SubSeq(a.properties, 1, j - 1)]
  /\ rest = Then(From(PairsOf(a), j), Then(From(RowsOf(a), 12), IdOf(a)))

AtEnd(a, args, rest) == args = ReadBack(a) /\ rest = <<>>

Progress(a, args, rest) ==
  \/ \E k \in 1..Len(a.screens) + 1 : AtScreen(a, k, args, rest)
  \/ \E k \in 1..Len(a.screens), m \in 1..4 : AtMember(a, k, m, args, rest)
  \/ \E i \in 1..13 : AtRow(a, i, args, rest)
  \/ \E j \in 1..Len(a.properties) + 1 : AtProperty(a, j, args, rest)
  \/ AtEnd(a, args, rest)

(* What a turn makes of args when a row's first spelling is ahead, and     *)
(* then v if the row takes a value.                                        *)
Effect(row, v, args) ==
  CASE row.binding = "ScreenSwitch" ->
         [args EXCEPT !.screens = Append(@, [NoScreen EXCEPT !.screen = v])]
    [] row.binding = "ScreenMember" ->
         [args EXCEPT !.screens[Len(args.screens)][row.field] = v]
    [] row.binding = "Global" /\ row.arity = "Flag" ->
         [args EXCEPT ![row.field] = row.polarity = "Positive"]
    [] row.binding = "Global" /\ row.arity = "Repeated" ->
         [args EXCEPT !.properties = Append(@, PropertyOf(v))]
    [] row.binding = "Global" /\ row.arity = "Value" ->
         IF row.field \in IntFields THEN [args EXCEPT ![row.field] = IntOf(v)]
         ELSE IF IsInt(v) THEN args ELSE [args EXCEPT ![row.field] = v]

Tokens(row, v) == IF row.arity = "Flag" THEN <<Canonical(row)>> ELSE <<Canonical(row), v>>

(* A turn that is due: it reads the tokens that are first ahead, and       *)
(* reports nothing.                                                        *)
RowIsDue(a, args, rest, row, v, t) ==
  /\ row.binding # "Positional" /\ rest = Then(Tokens(row, v), t)
  /\ row.binding = "ScreenMember" => args.screens # <<>>
  /\ row.field \in IntFields => IsInt(v)
  /\ Progress(a, Effect(row, v, args), t)

IdIsDue(a, args, rest) ==
  /\ a.backgroundId # Empty /\ rest = <<a.backgroundId>> /\ args.backgroundId = Empty
  /\ [args EXCEPT !.backgroundId = a.backgroundId] = ReadBack(a)

Due(a, args, rest) ==
  \/ \E row \in Rows, v \in Arg, t \in Str(Arg) : RowIsDue(a, args, rest, row, v, t)
  \/ IdIsDue(a, args, rest)
  \/ AtEnd(a, args, rest)

LEMMA PiecesTyped ==
  ASSUME NEW a, IsArguments(a)
  PROVE  /\ a.screens \in Seq(NamedScreens) /\ ScreensOf(a) \in Seq(Seq(Arg))
         /\ Len(ScreensOf(a)) = Len(a.screens) /\ Len(a.screens) \in Nat
         /\ RowsOf(a) \in Seq(Seq(Arg)) /\ Len(RowsOf(a)) = 12
         /\ a.properties \in Seq(PlainProperties) /\ PairsOf(a) \in Seq(Seq(Arg))
         /\ Len(PairsOf(a)) = Len(a.properties) /\ Len(a.properties) \in Nat
         /\ IdOf(a) \in Str(Arg) /\ RestOf(a) \in Str(Arg)
  <1>1. ArgumentsTyped(a)
    BY ReadIsWritable
  <1>2. /\ a.screens \in Seq(NamedScreens) /\ a.properties \in Seq(PlainProperties)
        /\ Len(a.screens) \in Nat /\ Len(a.properties) \in Nat
    <2>1. a.screens \in Seq(NamedScreens) /\ a.properties \in Seq(PlainProperties)
      BY FieldsAre DEF IsArguments
    <2> QED BY <2>1
  <1>3. \A s \in ToSet(a.screens) : s.screen \in Arg
    BY <1>2, SeqMembers DEF NamedScreens
  <1>4. ScreensOf(a) \in Seq(Seq(Arg)) /\ Len(ScreensOf(a)) = Len(a.screens)
    BY <1>1, <1>3, ScreensTyped DEF ArgumentsTyped
  <1>5. RowsOf(a) \in Seq(Seq(Arg)) /\ Len(RowsOf(a)) = 12
    BY <1>1, RowsTyped
  <1>6. PairsOf(a) \in Seq(Seq(Arg)) /\ Len(PairsOf(a)) = Len(a.properties)
    BY <1>1, PairsTyped DEF ArgumentsTyped
  <1>7. IdOf(a) \in Str(Arg)
    BY <1>1, IdTyped DEF ArgumentsTyped, Str
  <1>8. From(RowsOf(a), 1) \in Str(Arg)
    <2>1. 1 \in 1..12 + 1
      OBVIOUS
    <2> QED BY <1>5, <2>1, FromIs
  <1>9. RestOf(a) \in Str(Arg)
    BY <1>7, <1>8, StrTyped DEF RestOf
  <1> QED BY <1>2, <1>4, <1>5, <1>6, <1>7, <1>9

(* A screen and what is left of its members.                               *)
LEMMA OneScreen ==
  ASSUME NEW a, IsArguments(a), NEW k \in 1..Len(a.screens), NEW s, s = a.screens[k]
  PROVE  /\ s \in NamedScreens /\ Members(s) \in Seq(Seq(Arg)) /\ Len(Members(s)) = 3
         /\ ScreensOf(a)[k] = PushScreen(s)
         /\ PushScreen(s) = Then(<<Canonical(ScreenSwitch), s.screen>>, From(Members(s), 1))
         /\ <<Canonical(ScreenSwitch), s.screen>> \in Str(Arg)
  <1>1. s \in NamedScreens /\ s \in Screens
    <2>1. s \in NamedScreens
      BY PiecesTyped, ElementOfSeq
    <2> QED BY <2>1 DEF NamedScreens, Screens, Arg
  <1>2. s.screen \in Arg
    BY <1>1 DEF NamedScreens
  <1>3. Members(s) \in Seq(Seq(Arg)) /\ Len(Members(s)) = 3
    BY <1>1, MembersTyped
  <1>4. ScreensOf(a)[k] = PushScreen(s)
    <2>1. k \in DOMAIN a.screens
      BY PiecesTyped
    <2> QED BY <2>1 DEF ScreensOf
  <1>5. /\ <<Canonical(ScreenSwitch), s.screen>> \in Seq(Arg)
        /\ PushScreen(s) = Then(<<Canonical(ScreenSwitch), s.screen>>, FlattenSeq(Members(s)))
    BY <1>1, <1>2, ScreenTyped
  <1>6. From(Members(s), 1) = FlattenSeq(Members(s))
    BY <1>3, FromIs
  <1> QED BY <1>1, <1>3, <1>4, <1>5, <1>6 DEF Str

LEMMA GatheredAgain ==
  ASSUME NEW x, NEW y
  PROVE  /\ Gathered(x).screens = x
         /\ [Gathered(x) EXCEPT !.screens = y] = Gathered(y)
  <1>1. Defaults = [f \in Fields |-> Defaults[f]] /\ "screens" \in Fields
    BY DefaultsTyped, Indices DEF IsArguments
  <1> QED BY <1>1 DEF Gathered

LEMMA SwitchRow ==
  /\ ScreenSwitch \in Rows /\ ScreenSwitch.binding = "ScreenSwitch"
  /\ ScreenSwitch.arity = "Value" /\ ScreenSwitch.field \notin IntFields
  BY DEF ScreenSwitch, Row, Rows, IntFields

LEMMA ScreenDue ==
  ASSUME NEW a, IsArguments(a), NEW k \in 1..Len(a.screens), NEW args, NEW rest,
         AtScreen(a, k, args, rest)
  PROVE  Due(a, args, rest)
  <1>1. PICK s \in NamedScreens : s = a.screens[k]
    BY OneScreen
  <1>2. PICK head \in Str(Arg), part \in Str(Arg), more \in Str(Arg), last \in Str(Arg) :
          /\ head = <<Canonical(ScreenSwitch), s.screen>> /\ part = From(Members(s), 1)
          /\ more = From(ScreensOf(a), k + 1) /\ last = RestOf(a)
          /\ From(ScreensOf(a), k) = Then(Then(head, part), more)
    <2>1. From(Members(s), 1) \in Str(Arg)
      <3>1. Members(s) \in Seq(Seq(Arg)) /\ 3 = Len(Members(s))
        BY <1>1, OneScreen
      <3>2. 1 \in 1..3 + 1 /\ 3 \in Nat
        OBVIOUS
      <3> QED BY <3>1, <3>2, FromIs
    <2>2. PICK n \in Nat : n = Len(ScreensOf(a)) /\ k \in 1..n /\ k + 1 \in 1..n + 1
      BY PiecesTyped
    <2>3. /\ From(ScreensOf(a), k + 1) \in Str(Arg)
          /\ From(ScreensOf(a), k) = Then(ScreensOf(a)[k], From(ScreensOf(a), k + 1))
      BY <2>2, PiecesTyped, FromIs
    <2>4. /\ <<Canonical(ScreenSwitch), s.screen>> \in Str(Arg)
          /\ ScreensOf(a)[k] = Then(<<Canonical(ScreenSwitch), s.screen>>, From(Members(s), 1))
      BY <1>1, OneScreen
    <2> QED BY <2>1, <2>3, <2>4, PiecesTyped
  <1> DEFINE t == Then(part, Then(more, last))
  <1>3. t \in Str(Arg)
    BY StrTyped
  <1>4. rest = Then(head, t)
    <2>1. rest = Then(Then(Then(head, part), more), last)
      BY <1>2 DEF AtScreen
    <2>2. Then(head, part) \in Str(Arg) /\ Then(more, last) \in Str(Arg)
      BY StrTyped
    <2>3. rest = Then(Then(head, part), Then(more, last))
      BY <2>1, <2>2, StrThen
    <2> QED BY <2>2, <2>3, StrThen
  <1>5. Tokens(ScreenSwitch, s.screen) = head
    BY <1>2, SwitchRow DEF Tokens
  <1>6. AtMember(a, k, 1, Effect(ScreenSwitch, s.screen, args), t)
    <2> DEFINE before == SubSeq(a.screens, 1, k - 1)
    <2>1. args = Gathered(before)
      BY DEF AtScreen
    <2>2. [NoScreen EXCEPT !.screen = s.screen] = PartOf(s, 1)
      BY DEF NoScreen, PartOf
    <2> HIDE DEF before
    <2>3. Effect(ScreenSwitch, s.screen, args) = Gathered(Append(before, PartOf(s, 1)))
      <3>1. Effect(ScreenSwitch, s.screen, args)
              = [args EXCEPT !.screens = Append(args.screens, PartOf(s, 1))]
        BY <2>2, SwitchRow DEF Effect
      <3>2. args.screens = before
        BY <2>1, GatheredAgain
      <3> QED BY <2>1, <3>1, <3>2, GatheredAgain
    <2> QED BY <1>1, <1>2, <2>3 DEF AtMember, before
  <1>7. Progress(a, Effect(ScreenSwitch, s.screen, args), t)
    BY <1>6 DEF Progress
  <1> HIDE DEF t
  <1>8. RowIsDue(a, args, rest, ScreenSwitch, s.screen, t)
    BY <1>4, <1>5, <1>7, SwitchRow DEF RowIsDue
  <1>9. s.screen \in Arg
    BY DEF NamedScreens
  <1> QED BY <1>3, <1>8, <1>9, SwitchRow DEF Due
(* Sequences that grow, or whose last member is changed.                   *)
LEMMA AppendIs ==
  ASSUME NEW S, NEW s \in Seq(S), NEW c \in S, NEW n \in Nat, n = Len(s),
         NEW grown, grown = Append(s, c)
  PROVE  /\ grown \in Seq(S) /\ Len(grown) = n + 1 /\ DOMAIN grown = 1..n + 1
         /\ grown[n + 1] = c /\ \A i \in 1..n : grown[i] = s[i]
  <1>1. grown \in Seq(S) /\ Len(grown) = n + 1 /\ DOMAIN grown = 1..n + 1
    OBVIOUS
  <1>2. grown[n + 1] = c
    OBVIOUS
  <1>3. \A i \in 1..n : grown[i] = s[i]
    OBVIOUS
  <1> QED BY <1>1, <1>2, <1>3

LEMMA FrontGrows ==
  ASSUME NEW S, NEW s \in Seq(S), NEW k \in 1..Len(s)
  PROVE  /\ SubSeq(s, 1, k - 1) \in Seq(S)
         /\ Append(SubSeq(s, 1, k - 1), s[k]) = SubSeq(s, 1, k)
  <1>1. PICK n \in Nat : n = Len(s) /\ k \in 1..n
    OBVIOUS
  <1>2. PICK front \in Seq(S) : /\ front = SubSeq(s, 1, k - 1) /\ Len(front) = k - 1
                                /\ \A i \in 1..k - 1 : front[i] = s[i]
    <2>1. SubSeq(s, 1, k - 1) \in Seq(S) /\ Len(SubSeq(s, 1, k - 1)) = k - 1
      BY <1>1
    <2>2. \A i \in 1..k - 1 : SubSeq(s, 1, k - 1)[i] = s[i]
      BY <1>1
    <2> QED BY <2>1, <2>2
  <1>3. PICK upto \in Seq(S) : /\ upto = SubSeq(s, 1, k) /\ Len(upto) = k
                               /\ \A i \in 1..k : upto[i] = s[i]
    <2>1. SubSeq(s, 1, k) \in Seq(S) /\ Len(SubSeq(s, 1, k)) = k
      BY <1>1
    <2>2. \A i \in 1..k : SubSeq(s, 1, k)[i] = s[i]
      BY <1>1
    <2> QED BY <2>1, <2>2
  <1>4. PICK grown \in Seq(S) : /\ grown = Append(front, s[k]) /\ Len(grown) = k
                                /\ \A i \in 1..k - 1 : grown[i] = front[i]
                                /\ grown[k] = s[k]
    <2>1. PICK c \in S : c = s[k]
      BY <1>1, ElementOfSeq
    <2>2. PICK grown : grown = Append(front, c)
      OBVIOUS
    <2>3. k - 1 \in Nat /\ (k - 1) + 1 = k
      BY <1>1
    <2>4. grown \in Seq(S) /\ Len(grown) = k /\ grown[k] = c
          /\ \A i \in 1..k - 1 : grown[i] = front[i]
      BY <1>2, <2>2, <2>3, AppendIs
    <2> QED BY <2>1, <2>2, <2>4
  <1>5. \A i \in 1..k : grown[i] = upto[i]
    <2>1. \A i \in 1..k : i \in 1..k - 1 \/ i = k
      BY <1>1
    <2> QED BY <1>2, <1>3, <1>4, <2>1
  <1>6. grown = upto
    BY <1>3, <1>4, <1>5, SeqEqual
  <1> QED BY <1>2, <1>3, <1>4, <1>6

LEMMA LastChanged ==
  ASSUME NEW S, NEW s \in Seq(S), NEW c \in S, NEW d \in S
  PROVE  /\ Append(s, c) # <<>> /\ Append(s, c)[Len(Append(s, c))] = c
         /\ [Append(s, c) EXCEPT ![Len(Append(s, c))] = d] = Append(s, d)
  <1>1. PICK n \in Nat : n = Len(s)
    OBVIOUS
  <1>2. PICK one, two : one = Append(s, c) /\ two = Append(s, d)
    OBVIOUS
  <1>3. /\ one \in Seq(S) /\ Len(one) = n + 1 /\ DOMAIN one = 1..n + 1
        /\ one[n + 1] = c /\ \A i \in 1..n : one[i] = s[i]
    BY <1>1, <1>2, AppendIs
  <1>4. /\ two \in Seq(S) /\ Len(two) = n + 1 /\ DOMAIN two = 1..n + 1
        /\ two[n + 1] = d /\ \A i \in 1..n : two[i] = s[i]
    BY <1>1, <1>2, AppendIs
  <1>5. one # <<>>
    BY <1>3
  <1>6. [one EXCEPT ![n + 1] = d] = two
    <2>1. two = [i \in 1..n + 1 |-> two[i]] /\ one = [i \in 1..n + 1 |-> one[i]]
      BY <1>3, <1>4
    <2>2. \A i \in 1..n + 1 : i = n + 1 \/ i \in 1..n
      OBVIOUS
    <2>3. \A i \in 1..n + 1 : [one EXCEPT ![n + 1] = d][i] = two[i]
      BY <1>3, <1>4, <2>2
    <2>4. [one EXCEPT ![n + 1] = d] = [i \in 1..n + 1 |-> [one EXCEPT ![n + 1] = d][i]]
      BY <1>3
    <2> QED BY <2>1, <2>3, <2>4
  <1> QED BY <1>2, <1>3, <1>5, <1>6

LEMMA ScreensAhead ==
  ASSUME NEW a, IsArguments(a), NEW k \in 1..Len(a.screens) + 1
  PROVE  /\ From(ScreensOf(a), k) \in Str(Arg)
         /\ Then(From(ScreensOf(a), k), RestOf(a)) \in Str(Arg)
  <1>1. From(ScreensOf(a), k) \in Str(Arg)
    BY PiecesTyped, FromIs
  <1> QED BY <1>1, PiecesTyped, StrTyped

LEMMA MemberRow ==
  ASSUME NEW m \in 1..3, NEW row, row = ScreenMembers[m]
  PROVE  /\ row \in Rows /\ row.binding = "ScreenMember" /\ row.arity = "Value"
         /\ row.field \notin IntFields
         /\ \A s \in NamedScreens :
              /\ [PartOf(s, m) EXCEPT ![row.field] = s[row.field]] = PartOf(s, m + 1)
              /\ s[row.field] = Empty => PartOf(s, m) = PartOf(s, m + 1)
  <1>1. DOMAIN ScreenMembers = 1..3 /\ row \in Rows
    BY MembersWritten DEF Rows, ToSet
  <1>2. m = 1 \/ m = 2 \/ m = 3
    OBVIOUS
  <1>3. row.binding = "ScreenMember" /\ row.arity = "Value"
    BY <1>2 DEF ScreenMembers, Row
  <1>4. /\ ScreenMembers[1].field = "background" /\ ScreenMembers[2].field = "scaling"
        /\ ScreenMembers[3].field = "clamp"
    BY DEF ScreenMembers, Row
  <1>5. row.field \notin IntFields
    BY <1>2, <1>4 DEF IntFields
  <1>6. ASSUME NEW s \in NamedScreens
        PROVE  /\ [PartOf(s, m) EXCEPT ![row.field] = s[row.field]] = PartOf(s, m + 1)
               /\ s[row.field] = Empty => PartOf(s, m) = PartOf(s, m + 1)
    <2>1. CASE m = 1
      BY <1>4, <2>1 DEF PartOf
    <2>2. CASE m = 2
      BY <1>4, <2>2 DEF PartOf
    <2>3. CASE m = 3
      BY <1>4, <2>3 DEF PartOf
    <2> QED BY <1>2, <2>1, <2>2, <2>3
  <1> QED BY <1>1, <1>3, <1>5, <1>6

LEMMA PartTyped ==
  ASSUME NEW s \in NamedScreens
  PROVE  (\A m \in 1..4 : PartOf(s, m) \in NamedScreens) /\ PartOf(s, 4) = s
  <1>1. Empty \in AnyText
    BY StrTyped DEF AnyText, Empty
  <1>2. \A m \in 1..4 : PartOf(s, m) \in NamedScreens
    BY <1>1 DEF PartOf, NamedScreens
  <1>3. PartOf(s, 4) = s
    BY DEF PartOf, NamedScreens
  <1> QED BY <1>2, <1>3

LEMMA OneMember ==
  ASSUME NEW a, IsArguments(a), NEW k \in 1..Len(a.screens), NEW s, s = a.screens[k],
         NEW m \in 1..3, NEW row, row = ScreenMembers[m]
  PROVE  /\ s[row.field] \in AnyText
         /\ From(Members(s), m) \in Str(Arg) /\ From(Members(s), m + 1) \in Str(Arg)
         /\ From(Members(s), m) =
              IF s[row.field] = Empty THEN From(Members(s), m + 1)
              ELSE Then(<<Canonical(row), s[row.field]>>, From(Members(s), m + 1))
  <1>1. s \in NamedScreens /\ s \in Screens
    <2>1. s \in NamedScreens
      BY OneScreen
    <2> QED BY <2>1 DEF NamedScreens, Screens, Arg
  <1>2. Members(s) \in Seq(Seq(Arg)) /\ 3 = Len(Members(s))
    BY OneScreen
  <1>3. m \in 1..3 + 1 /\ m + 1 \in 1..3 + 1 /\ 3 \in Nat
    OBVIOUS
  <1>4. /\ From(Members(s), m) \in Str(Arg) /\ From(Members(s), m + 1) \in Str(Arg)
        /\ From(Members(s), m) = Then(Members(s)[m], From(Members(s), m + 1))
    BY <1>2, <1>3, FromIs
  <1>5. /\ s[row.field] \in AnyText
        /\ Members(s)[m] = IF s[row.field] = Empty THEN <<>>
                           ELSE <<Canonical(row), s[row.field]>>
    BY <1>1, MembersTyped
  <1>6. Then(<<>>, From(Members(s), m + 1)) = From(Members(s), m + 1)
    BY <1>4, StrThen
  <1> QED BY <1>4, <1>5, <1>6

LEMMA MemberSkipped ==
  ASSUME NEW a, IsArguments(a), NEW k \in 1..Len(a.screens), NEW m \in 1..3,
         a.screens[k][ScreenMembers[m].field] = Empty,
         NEW args, NEW rest, AtMember(a, k, m, args, rest)
  PROVE  AtMember(a, k, m + 1, args, rest)
  <1>1. PICK s \in NamedScreens : s = a.screens[k]
    BY OneScreen
  <1>2. From(Members(s), m) = From(Members(s), m + 1)
    BY <1>1, OneMember
  <1>3. PartOf(s, m) = PartOf(s, m + 1)
    BY <1>1, MemberRow
  <1> QED BY <1>1, <1>2, <1>3 DEF AtMember

LEMMA MembersDone ==
  ASSUME NEW a, IsArguments(a), NEW k \in 1..Len(a.screens),
         NEW args, NEW rest, AtMember(a, k, 4, args, rest)
  PROVE  AtScreen(a, k + 1, args, rest)
  <1>1. PICK s \in NamedScreens : s = a.screens[k]
    BY OneScreen
  <1>2. args = Gathered(SubSeq(a.screens, 1, k))
    <2>1. args = Gathered(Append(SubSeq(a.screens, 1, k - 1), s))
      BY <1>1, PartTyped DEF AtMember
    <2>2. Append(SubSeq(a.screens, 1, k - 1), a.screens[k]) = SubSeq(a.screens, 1, k)
      BY PiecesTyped, FrontGrows
    <2> QED BY <1>1, <2>1, <2>2
  <1>3. From(Members(s), 4) = <<>>
    <2>1. Members(s) \in Seq(Seq(Arg)) /\ 3 = Len(Members(s))
      BY <1>1, OneScreen
    <2>2. 3 \in Nat /\ 3 + 1 = 4
      OBVIOUS
    <2> QED BY <2>1, <2>2, FromIs
  <1>4. rest = Then(From(ScreensOf(a), k + 1), RestOf(a))
    <2>1. PICK more \in Str(Arg) : more = Then(From(ScreensOf(a), k + 1), RestOf(a))
      <3>1. k + 1 \in 1..Len(a.screens) + 1
        BY PiecesTyped
      <3> QED BY <3>1, ScreensAhead
    <2>2. Then(<<>>, more) = more
      BY StrThen
    <2> QED BY <1>1, <1>3, <2>1, <2>2 DEF AtMember
  <1>5. (k + 1) - 1 = k
    OBVIOUS
  <1> QED BY <1>2, <1>4, <1>5 DEF AtScreen

LEMMA MemberDue ==
  ASSUME NEW a, IsArguments(a), NEW k \in 1..Len(a.screens), NEW m \in 1..3,
         a.screens[k][ScreenMembers[m].field] # Empty,
         NEW args, NEW rest, AtMember(a, k, m, args, rest)
  PROVE  Due(a, args, rest)
  <1>1. PICK s \in NamedScreens : s = a.screens[k]
    BY OneScreen
  <1>2. PICK row : row = ScreenMembers[m]
    OBVIOUS
  <1>3. /\ row \in Rows /\ row.binding = "ScreenMember" /\ row.arity = "Value"
        /\ row.field \notin IntFields
        /\ [PartOf(s, m) EXCEPT ![row.field] = s[row.field]] = PartOf(s, m + 1)
    BY <1>2, MemberRow
  <1>4. PICK v \in Arg : v = s[row.field]
    BY <1>1, <1>2, OneMember DEF Arg, Empty
  <1>4a. PICK last \in Str(Arg) : last = Then(From(ScreensOf(a), k + 1), RestOf(a))
    <2>1. k + 1 \in 1..Len(a.screens) + 1
      BY PiecesTyped
    <2> QED BY <2>1, ScreensAhead
  <1>4b. PICK part \in Str(Arg) : part = From(Members(s), m + 1)
    BY <1>1, <1>2, OneMember
  <1>4c. PICK head : head = <<Canonical(row), v>>
    OBVIOUS
  <1>5. From(Members(s), m) = Then(head, part)
    <2>1. s[row.field] # Empty
      BY <1>1, <1>2
    <2> QED BY <1>1, <1>2, <1>4, <1>4b, <1>4c, <2>1, OneMember
  <1>6. head \in Str(Arg)
    BY <1>2, <1>4c, MembersWritten, PairTyped DEF Str
  <1> DEFINE t == Then(part, last)
  <1>7. t \in Str(Arg)
    BY StrTyped
  <1>8. rest = Then(Tokens(row, v), t)
    <2>1. rest = Then(Then(head, part), last)
      BY <1>1, <1>4a, <1>4b, <1>5 DEF AtMember
    <2>2. rest = Then(head, t)
      BY <1>6, <2>1, StrThen
    <2> QED BY <1>3, <1>4c, <2>2 DEF Tokens
  <1>9. args.screens # <<>> /\ AtMember(a, k, m + 1, Effect(row, v, args), t)
    <2>1. PICK before \in Seq(NamedScreens) : before = SubSeq(a.screens, 1, k - 1)
      BY PiecesTyped, FrontGrows
    <2>2. PICK was \in NamedScreens, now \in NamedScreens :
            was = PartOf(s, m) /\ now = PartOf(s, m + 1) /\ now = [was EXCEPT ![row.field] = v]
      <3>1. m \in 1..4 /\ m + 1 \in 1..4
        OBVIOUS
      <3>2. PartOf(s, m) \in NamedScreens /\ PartOf(s, m + 1) \in NamedScreens
        BY <3>1, PartTyped
      <3> QED BY <1>3, <1>4, <3>2
    <2>3. PICK groups : groups = Append(before, was)
      OBVIOUS
    <2>4. /\ groups # <<>> /\ groups[Len(groups)] = was
          /\ [groups EXCEPT ![Len(groups)] = now] = Append(before, now)
      BY <2>3, LastChanged
    <2>5. args = Gathered(groups) /\ args.screens = groups
      BY <1>1, <2>1, <2>2, <2>3, GatheredAgain DEF AtMember
    <2>6. Effect(row, v, args)
            = [args EXCEPT !.screens = [groups EXCEPT ![Len(groups)] = now]]
      <3>1. Effect(row, v, args) = [args EXCEPT !.screens[Len(args.screens)][row.field] = v]
        BY <1>3 DEF Effect
      <3> QED BY <2>2, <2>4, <2>5, <3>1
    <2>7. Effect(row, v, args) = Gathered(Append(before, now))
      BY <2>4, <2>5, <2>6, GatheredAgain
    <2>8. t = Then(From(Members(s), m + 1), Then(From(ScreensOf(a), k + 1), RestOf(a)))
      BY <1>4a, <1>4b
    <2> HIDE DEF t
    <2> QED BY <1>1, <2>1, <2>2, <2>4, <2>5, <2>7, <2>8 DEF AtMember
  <1> HIDE DEF t
  <1>10. Progress(a, Effect(row, v, args), t)
    <2>1. m + 1 \in 1..4
      OBVIOUS
    <2> QED BY <1>9, <2>1 DEF Progress
  <1>11. RowIsDue(a, args, rest, row, v, t)
    BY <1>3, <1>8, <1>9, <1>10 DEF RowIsDue
  <1> QED BY <1>3, <1>7, <1>11 DEF Due

(* Wherever among the screens the reader is, a turn is due or it is at the *)
(* first row.                                                              *)
LEMMA ScreensDone ==
  ASSUME NEW a, IsArguments(a), NEW args, NEW rest,
         AtScreen(a, Len(a.screens) + 1, args, rest)
  PROVE  AtRow(a, 1, args, rest)
  <1>1. PICK n \in Nat : n = Len(a.screens)
    BY PiecesTyped
  <1>2. SubSeq(a.screens, 1, (n + 1) - 1) = a.screens
    <2>1. SubSeq(a.screens, 1, Len(a.screens)) = a.screens
      BY PiecesTyped, WholeRest DEF Str
    <2>2. (n + 1) - 1 = n
      OBVIOUS
    <2> QED BY <1>1, <2>1, <2>2
  <1>3. args = UpTo(a, 1)
    BY <1>1, <1>2, UpToEnds DEF AtScreen
  <1>4. From(ScreensOf(a), n + 1) = <<>>
    BY <1>1, PiecesTyped, FromIs
  <1>5. rest = RestOf(a)
    <2>1. Then(<<>>, RestOf(a)) = RestOf(a)
      BY PiecesTyped, StrThen
    <2> QED BY <1>1, <1>4, <2>1 DEF AtScreen
  <1> QED BY <1>3, <1>5 DEF AtRow, RestOf

LEMMA ScreensSettle ==
  ASSUME NEW a, IsArguments(a), NEW k \in 1..Len(a.screens) + 1, NEW args, NEW rest,
         AtScreen(a, k, args, rest)
  PROVE  Due(a, args, rest) \/ AtRow(a, 1, args, rest)
  <1>1. Len(a.screens) \in Nat
    BY PiecesTyped
  <1>2. CASE k \in 1..Len(a.screens)
    BY <1>2, ScreenDue
  <1>3. CASE k = Len(a.screens) + 1
    BY <1>3, ScreensDone
  <1> QED BY <1>1, <1>2, <1>3

LEMMA MembersSettle ==
  ASSUME NEW a, IsArguments(a), NEW k \in 1..Len(a.screens), NEW m \in 1..4,
         NEW args, NEW rest, AtMember(a, k, m, args, rest)
  PROVE  Due(a, args, rest) \/ AtRow(a, 1, args, rest)
  <1> DEFINE Settled == Due(a, args, rest) \/ AtRow(a, 1, args, rest)
  <1>1. AtMember(a, k, 4, args, rest) => Settled
    <2>1. k + 1 \in 1..Len(a.screens) + 1
      BY PiecesTyped
    <2> QED BY <2>1, MembersDone, ScreensSettle
  <1>2. \A j \in 1..3 : AtMember(a, k, j, args, rest) => Settled \/ AtMember(a, k, j + 1, args, rest)
    BY MemberDue, MemberSkipped
  <1> HIDE DEF Settled
  <1>3. AtMember(a, k, 3, args, rest) => Settled
    <2>1. 3 \in 1..3 /\ 3 + 1 = 4
      OBVIOUS
    <2> QED BY <1>1, <1>2, <2>1
  <1>4. AtMember(a, k, 2, args, rest) => Settled
    <2>1. 2 \in 1..3 /\ 2 + 1 = 3
      OBVIOUS
    <2> QED BY <1>2, <1>3, <2>1
  <1>5. AtMember(a, k, 1, args, rest) => Settled
    <2>1. 1 \in 1..3 /\ 1 + 1 = 2
      OBVIOUS
    <2> QED BY <1>2, <1>4, <2>1
  <1>6. m = 1 \/ m = 2 \/ m = 3 \/ m = 4
    OBVIOUS
  <1>7. Settled
    BY <1>1, <1>3, <1>4, <1>5, <1>6
  <1> QED BY <1>7 DEF Settled
(* The rows of the global table.                                           *)
LEMMA GlobalRow ==
  ASSUME NEW i \in 1..12, NEW row, row = Globals[i]
  PROVE  /\ row \in Rows /\ row.binding = "Global" /\ Canonical(row) \in Arg
         /\ row.arity = "Flag" => row.field \in FlagFields
         /\ i # 11 => row.arity # "Repeated"
         /\ row.arity = "Value" => row.field \in {"assetsDir", "fps", "volume"}
         /\ row.arity \in {"Flag", "Value", "Repeated"}
         /\ row.field = "volume" => i = 7
  <1>1. row \in Rows
    BY GlobalsWritten DEF Rows, ToSet
  <1>2. row.binding = "Global"
    <2>1. /\ Globals[1].binding = "Global" /\ Globals[2].binding = "Global"
          /\ Globals[3].binding = "Global" /\ Globals[4].binding = "Global"
          /\ Globals[5].binding = "Global" /\ Globals[6].binding = "Global"
      BY DEF Globals, Global, Negative, AudioOut, Row
    <2>2. /\ Globals[7].binding = "Global" /\ Globals[8].binding = "Global"
          /\ Globals[9].binding = "Global" /\ Globals[10].binding = "Global"
          /\ Globals[11].binding = "Global" /\ Globals[12].binding = "Global"
      BY DEF Globals, Global, Negative, AudioOut, Row
    <2> QED BY <2>1, <2>2, RowNumbers
  <1>3. /\ Canonical(row) \in Arg /\ row.arity \in {"Flag", "Value", "Repeated"}
        /\ row.arity = "Value" => row.field \in {"assetsDir", "fps", "volume"}
    BY GlobalsWritten DEF Written
  <1>4. row.arity = "Flag" => row.field \in FlagFields
    BY FlagRow
  <1>5. i # 11 => row.arity # "Repeated"
    BY RepeatedRow
  <1>6. row.field = "volume" => i = 7
    <2>1. IndexOf(row.field) = i
      BY Indices
    <2> QED BY <2>1, EachIndex
  <1> QED BY <1>1, <1>2, <1>3, <1>4, <1>5, <1>6

LEMMA RowsAhead ==
  ASSUME NEW a, IsArguments(a), NEW i \in 1..13
  PROVE  From(RowsOf(a), i) \in Str(Arg) /\ Then(From(RowsOf(a), i), IdOf(a)) \in Str(Arg)
  <1>1. From(RowsOf(a), i) \in Str(Arg)
    <2>1. 12 \in Nat /\ i \in 1..12 + 1
      OBVIOUS
    <2>2. RowsOf(a) \in Seq(Seq(Arg)) /\ 12 = Len(RowsOf(a))
      BY PiecesTyped
    <2> QED BY <2>1, <2>2, FromIs
  <1> QED BY <1>1, PiecesTyped, StrTyped

LEMMA OneRow ==
  ASSUME NEW a, IsArguments(a), NEW i \in 1..12
  PROVE  From(RowsOf(a), i) =
           IF WrittenRow(a, i) THEN Then(Push(Globals[i], a), From(RowsOf(a), i + 1))
           ELSE From(RowsOf(a), i + 1)
  <1>1. From(RowsOf(a), i) = Then(RowsOf(a)[i], From(RowsOf(a), i + 1))
    <2>1. 12 \in Nat /\ i \in 1..12
      OBVIOUS
    <2>2. RowsOf(a) \in Seq(Seq(Arg)) /\ 12 = Len(RowsOf(a))
      BY PiecesTyped
    <2> QED BY <2>1, <2>2, FromIs
  <1>2. RowsOf(a)[i] = IF WrittenRow(a, i) THEN Push(Globals[i], a) ELSE <<>>
    BY ReadIsWritable, RowsTyped
  <1>3. Then(<<>>, From(RowsOf(a), i + 1)) = From(RowsOf(a), i + 1)
    <2>1. i + 1 \in 1..13
      OBVIOUS
    <2> QED BY <2>1, RowsAhead, StrThen
  <1> QED BY <1>1, <1>2, <1>3

LEMMA RowSkipped ==
  ASSUME NEW a, IsArguments(a), NEW i \in 1..12, ~WrittenRow(a, i),
         NEW args, NEW rest, AtRow(a, i, args, rest)
  PROVE  AtRow(a, i + 1, args, rest)
  <1>1. UpTo(a, i) = UpTo(a, i + 1)
    BY Unwritten, NextUpTo
  <1>2. From(RowsOf(a), i) = From(RowsOf(a), i + 1)
    BY OneRow
  <1> QED BY <1>1, <1>2 DEF AtRow

(* A written row but for the properties: its value is read for its field.  *)
LEMMA RowReads ==
  ASSUME NEW a, IsArguments(a), NEW i \in 1..12, i # 11, WrittenRow(a, i),
         NEW row, row = Globals[i], NEW args, args = UpTo(a, i)
  PROVE  \E v \in Arg :
           /\ Push(row, a) = Tokens(row, v)
           /\ row.field \in IntFields => IsInt(v)
           /\ Effect(row, v, args) = UpTo(a, i + 1)
  <1>1. /\ row.binding = "Global" /\ Canonical(row) \in Arg
        /\ row.arity = "Flag" \/ (row.arity = "Value" /\ row.field \in {"assetsDir", "fps", "volume"})
    BY GlobalRow
  <1>2. Active(row, a) /\ ~Suppressed(i, a)
    BY DEF WrittenRow
  <1>3. /\ [args EXCEPT ![row.field] = ReadBack(a)[row.field]] = UpTo(a, i + 1)
        /\ ReadBack(a)[row.field] = Defaults[row.field] => args = UpTo(a, i + 1)
    BY NextUpTo
  <1>4. CASE row.arity = "Flag"
    <2>1. row.field \in FlagFields /\ row.field \notin IntFields
          /\ row.field \in Fields \ {"volume", "assetsDir"}
      BY <1>4, GlobalRow, FieldsAre DEF FlagFields, IntFields
    <2>2. ReadBack(a)[row.field] = a[row.field]
      BY <2>1, ReadBackIs
    <2>3. a[row.field] = (row.polarity = "Positive")
      BY <1>2, <1>4 DEF Active
    <2>4. Effect(row, Canonical(row), args)
            = [args EXCEPT ![row.field] = row.polarity = "Positive"]
      BY <1>1, <1>4 DEF Effect
    <2>5. Effect(row, Canonical(row), args) = UpTo(a, i + 1)
      BY <1>3, <2>2, <2>3, <2>4
    <2>6. Push(row, a) = Tokens(row, Canonical(row))
      BY <1>4 DEF Push, Tokens
    <2> QED BY <1>1, <2>1, <2>5, <2>6
  <1>5. CASE row.arity = "Value" /\ row.field \in IntFields
    <2>1. PICK n \in Ints : n = a[row.field]
      BY <1>5, FieldsAre DEF IsArguments
    <2>2. ToText(n) \in Arg /\ IsInt(ToText(n)) /\ IntOf(ToText(n)) = n
      BY NumeralsReadBack, ToTextTyped, IntsWritten
    <2>3. ReadBack(a)[row.field] = n
      <3>1. CASE row.field = "volume"
        <4>1. a.silent \in BOOLEAN /\ i = 7
          BY <3>1, GlobalRow, FieldsAre DEF IsArguments, FlagFields
        <4>2. ~(i = 7 /\ a.silent = TRUE)
          BY <1>2, Suppression
        <4>3. a.silent = FALSE
          BY <4>1, <4>2
        <4> QED BY <2>1, <3>1, <4>3, ReadBackIs
      <3>2. CASE row.field # "volume"
        <4>1. row.field \in Fields \ {"volume", "assetsDir"}
          BY <1>5, <3>2, FieldsAre DEF IntFields
        <4> QED BY <2>1, <4>1, ReadBackIs
      <3> QED BY <3>1, <3>2
    <2>4. Effect(row, ToText(n), args) = [args EXCEPT ![row.field] = IntOf(ToText(n))]
      BY <1>1, <1>5 DEF Effect
    <2>5. Effect(row, ToText(n), args) = UpTo(a, i + 1)
      BY <1>3, <2>2, <2>3, <2>4
    <2>6. Push(row, a) = Tokens(row, ToText(n))
      BY <1>5, <2>1 DEF Push, Tokens
    <2> QED BY <2>2, <2>5, <2>6
  <1>6. CASE row.arity = "Value" /\ row.field \notin IntFields
    <2>1. row.field = "assetsDir" /\ a.assetsDir # Empty
      BY <1>1, <1>2, <1>6 DEF IntFields, Active
    <2>2. PICK v \in Arg : v = a.assetsDir
      BY <2>1, FieldsAre DEF IsArguments, Arg, Empty
    <2>3. ReadBack(a).assetsDir = IF IsInt(v) THEN Empty ELSE v
      BY <2>2, ReadBackIs
    <2>4. Effect(row, v, args) = IF IsInt(v) THEN args ELSE [args EXCEPT ![row.field] = v]
      BY <1>1, <1>6 DEF Effect
    <2>5. Effect(row, v, args) = UpTo(a, i + 1)
      <3>1. Defaults.assetsDir = Empty
        BY DEF Defaults
      <3> QED BY <1>3, <2>1, <2>3, <2>4, <3>1
    <2>6. Push(row, a) = Tokens(row, v)
      BY <1>6, <2>1, <2>2 DEF Push, Tokens
    <2> QED BY <1>6, <2>2, <2>5, <2>6
  <1> QED BY <1>1, <1>4, <1>5, <1>6

LEMMA TokensTyped ==
  ASSUME NEW row, Canonical(row) \in Arg, NEW v \in Arg
  PROVE  Tokens(row, v) \in Str(Arg)
  BY OneTyped, PairTyped DEF Tokens, Str

LEMMA RowDue ==
  ASSUME NEW a, IsArguments(a), NEW i \in 1..12, i # 11, WrittenRow(a, i),
         NEW args, NEW rest, AtRow(a, i, args, rest)
  PROVE  Due(a, args, rest)
  <1>1. PICK row \in Rows : row = Globals[i] /\ row.binding = "Global" /\ Canonical(row) \in Arg
    BY GlobalRow
  <1>2. PICK v \in Arg : /\ Push(row, a) = Tokens(row, v)
                         /\ row.field \in IntFields => IsInt(v)
                         /\ Effect(row, v, args) = UpTo(a, i + 1)
    BY <1>1, RowReads DEF AtRow
  <1>3. i + 1 \in 1..13
    OBVIOUS
  <1>4. PICK more \in Str(Arg), t \in Str(Arg) :
          more = From(RowsOf(a), i + 1) /\ t = Then(more, IdOf(a))
    BY <1>3, RowsAhead
  <1>5. rest = Then(Tokens(row, v), t)
    <2>1. rest = Then(Then(Tokens(row, v), more), IdOf(a))
      BY <1>1, <1>2, <1>4, OneRow DEF AtRow
    <2> QED BY <1>1, <1>4, <2>1, PiecesTyped, TokensTyped, StrThen
  <1>6. Progress(a, Effect(row, v, args), t)
    BY <1>2, <1>3, <1>4 DEF Progress, AtRow
  <1>7. RowIsDue(a, args, rest, row, v, t)
    BY <1>1, <1>2, <1>5, <1>6 DEF RowIsDue
  <1> QED BY <1>7 DEF Due

(* The properties: a row that is written once for each.                    *)
LEMMA PairsAhead ==
  ASSUME NEW a, IsArguments(a), NEW j \in 1..Len(a.properties) + 1
  PROVE  /\ From(PairsOf(a), j) \in Str(Arg)
         /\ Then(From(PairsOf(a), j), Then(From(RowsOf(a), 12), IdOf(a))) \in Str(Arg)
         /\ Then(From(RowsOf(a), 12), IdOf(a)) \in Str(Arg)
  <1>1. From(PairsOf(a), j) \in Str(Arg)
    BY PiecesTyped, FromIs
  <1>2. Then(From(RowsOf(a), 12), IdOf(a)) \in Str(Arg)
    <2>1. 12 \in 1..13
      OBVIOUS
    <2> QED BY <2>1, RowsAhead
  <1> QED BY <1>1, <1>2, StrTyped

LEMMA PropertiesAgain ==
  ASSUME NEW a, NEW s, NEW t, NEW args, args = [UpTo(a, 11) EXCEPT !.properties = s]
  PROVE  args.properties = s /\ [args EXCEPT !.properties = t] = [UpTo(a, 11) EXCEPT !.properties = t]
  BY Indices DEF UpTo

LEMMA RepeatedDue ==
  ASSUME NEW a, IsArguments(a), WrittenRow(a, 11),
         NEW args, NEW rest, AtRow(a, 11, args, rest)
  PROVE  AtProperty(a, 1, args, rest) /\ 1 \in 1..Len(a.properties)
  <1>1. a.properties \in Seq(PlainProperties) /\ a.properties # <<>>
    BY PiecesTyped, RepeatedRow DEF WrittenRow, Active
  <1>2. 1 \in 1..Len(a.properties)
    BY <1>1, EmptySeq
  <1>3. args = [UpTo(a, 11) EXCEPT !.properties = SubSeq(a.properties, 1, 1 - 1)]
    <2>1. SubSeq(a.properties, 1, 1 - 1) = <<>>
      BY <1>1
    <2>2. UpTo(a, 11).properties = <<>>
      BY UpToEnds
    <2>3. UpTo(a, 11) = [UpTo(a, 11) EXCEPT !.properties = UpTo(a, 11).properties]
      BY DEF UpTo
    <2> QED BY <2>1, <2>2, <2>3 DEF AtRow
  <1>4. rest = Then(From(PairsOf(a), 1), Then(From(RowsOf(a), 12), IdOf(a)))
    <2>1. 11 \in 1..12 /\ 11 + 1 = 12 /\ 12 \in 1..13
      OBVIOUS
    <2>2. From(RowsOf(a), 11) = Then(Push(Globals[11], a), From(RowsOf(a), 12))
      BY <2>1, OneRow
    <2>3. Push(Globals[11], a) = From(PairsOf(a), 1)
      BY PiecesTyped, RepeatedRow, FromIs
    <2>4. From(PairsOf(a), 1) \in Str(Arg) /\ From(RowsOf(a), 12) \in Str(Arg)
      BY <1>2, <2>1, PairsAhead, RowsAhead
    <2>5. rest = Then(Then(From(PairsOf(a), 1), From(RowsOf(a), 12)), IdOf(a))
      BY <2>2, <2>3 DEF AtRow
    <2> QED BY <2>4, <2>5, PiecesTyped, StrThen
  <1> QED BY <1>2, <1>3, <1>4 DEF AtProperty

LEMMA PropertyDue ==
  ASSUME NEW a, IsArguments(a), NEW j \in 1..Len(a.properties),
         NEW args, NEW rest, AtProperty(a, j, args, rest)
  PROVE  Due(a, args, rest)
  <1>1. PICK p \in PlainProperties : p = a.properties[j]
    BY PiecesTyped, ElementOfSeq
  <1>2. PICK v \in Arg : v = Assignment(p) /\ PropertyOf(v) = p
    BY PropertiesReadBack, AssignmentTyped DEF PlainProperties
  <1>3. PICK row \in Rows : /\ row = Globals[11] /\ row.binding = "Global"
                            /\ row.arity = "Repeated" /\ row.field \notin IntFields
                            /\ Canonical(row) \in Arg
    <2>1. 11 \in 1..12
      OBVIOUS
    <2> QED BY <2>1, GlobalRow, RepeatedRow DEF IntFields
  <1>4. j \in 1..Len(a.properties) + 1 /\ j + 1 \in 1..Len(a.properties) + 1 /\ (j + 1) - 1 = j
    BY PiecesTyped
  <1>5. PICK more \in Str(Arg), last \in Str(Arg) :
          more = From(PairsOf(a), j + 1) /\ last = Then(From(RowsOf(a), 12), IdOf(a))
    BY <1>4, PairsAhead
  <1>6. PICK t \in Str(Arg) : t = Then(more, last)
    BY StrTyped
  <1>7. rest = Then(Tokens(row, v), t)
    <2>1. From(PairsOf(a), j) = Then(PairsOf(a)[j], more)
      BY <1>5, PiecesTyped, FromIs
    <2>2. PairsOf(a)[j] = Tokens(row, v)
      BY <1>1, <1>2, <1>3, PiecesTyped DEF PairsOf, Tokens
    <2>3. rest = Then(Then(Tokens(row, v), more), last)
      BY <1>5, <2>1, <2>2 DEF AtProperty
    <2> QED BY <1>3, <1>6, <2>3, TokensTyped, StrThen
  <1>8. AtProperty(a, j + 1, Effect(row, v, args), t)
    <2>1. args = [UpTo(a, 11) EXCEPT !.properties = SubSeq(a.properties, 1, j - 1)]
      BY DEF AtProperty
    <2>2. args.properties = SubSeq(a.properties, 1, j - 1)
      BY <2>1, PropertiesAgain
    <2>3. Append(args.properties, p) = SubSeq(a.properties, 1, j)
      BY <1>1, <2>2, PiecesTyped, FrontGrows
    <2>4. Effect(row, v, args) = [args EXCEPT !.properties = Append(args.properties, p)]
      BY <1>2, <1>3 DEF Effect
    <2>5. Effect(row, v, args) = [UpTo(a, 11) EXCEPT !.properties = SubSeq(a.properties, 1, j)]
      BY <2>1, <2>3, <2>4, PropertiesAgain
    <2> QED BY <1>4, <1>5, <1>6, <2>5 DEF AtProperty
  <1>9. Progress(a, Effect(row, v, args), t)
    BY <1>4, <1>8 DEF Progress
  <1>10. RowIsDue(a, args, rest, row, v, t)
    BY <1>3, <1>7, <1>9 DEF RowIsDue
  <1> QED BY <1>10 DEF Due

LEMMA PropertiesDone ==
  ASSUME NEW a, IsArguments(a), NEW args, NEW rest,
         AtProperty(a, Len(a.properties) + 1, args, rest)
  PROVE  AtRow(a, 12, args, rest)
  <1>1. PICK n \in Nat : n = Len(a.properties)
    BY PiecesTyped
  <1>2. SubSeq(a.properties, 1, (n + 1) - 1) = a.properties
    <2>1. SubSeq(a.properties, 1, Len(a.properties)) = a.properties
      BY PiecesTyped, WholeRest DEF Str
    <2>2. (n + 1) - 1 = n
      OBVIOUS
    <2> QED BY <1>1, <2>1, <2>2
  <1>3. args = UpTo(a, 12)
    <2>1. ReadBack(a).properties = a.properties
      BY ReadBackIs, Indices
    <2>2. 11 \in 1..12 /\ 11 + 1 = 12
      OBVIOUS
    <2>3. [UpTo(a, 11) EXCEPT !.properties = ReadBack(a).properties] = UpTo(a, 12)
      BY <2>2, NextUpTo, RepeatedRow
    <2> QED BY <1>1, <1>2, <2>1, <2>3 DEF AtProperty
  <1>4. From(PairsOf(a), n + 1) = <<>>
    BY <1>1, PiecesTyped, FromIs
  <1>5. rest = Then(From(RowsOf(a), 12), IdOf(a))
    <2>1. Then(From(RowsOf(a), 12), IdOf(a)) \in Str(Arg)
      <3>1. 12 \in 1..13
        OBVIOUS
      <3> QED BY <3>1, RowsAhead
    <2> QED BY <1>1, <1>4, <2>1, StrThen DEF AtProperty
  <1> QED BY <1>3, <1>5 DEF AtRow

(* After the rows, the background id.                                      *)
LEMMA RowsDone ==
  ASSUME NEW a, IsArguments(a), NEW args, NEW rest, AtRow(a, 13, args, rest)
  PROVE  Due(a, args, rest)
  <1>1. From(RowsOf(a), 13) = <<>>
    <2>1. RowsOf(a) \in Seq(Seq(Arg)) /\ 12 = Len(RowsOf(a))
      BY PiecesTyped
    <2>2. 12 \in Nat /\ 12 + 1 = 13
      OBVIOUS
    <2> QED BY <2>1, <2>2, FromIs
  <1>2. rest = IdOf(a)
    BY <1>1, PiecesTyped, StrThen DEF AtRow
  <1>3. /\ args = UpTo(a, 13) /\ args.backgroundId = Empty
        /\ [args EXCEPT !.backgroundId = a.backgroundId] = ReadBack(a)
        /\ a.backgroundId = Empty => args = ReadBack(a)
    BY UpToEnds DEF AtRow
  <1> QED BY <1>2, <1>3 DEF IdOf, Due, IdIsDue, AtEnd

(* The rows settle: look at the last one that the reader can be said to be at. *)
LEMMA Largest ==
  ASSUME NEW n \in Nat, NEW T, T \subseteq 0..n, T # {}
  PROVE  \E m \in T : \A i \in T : i <= m
  <1> DEFINE U == {n - i : i \in T}
  <1>1. U \subseteq Nat /\ U # {}
    <2>1. \A i \in T : n - i \in Nat
      OBVIOUS
    <2>2. PICK i \in T : n - i \in U
      OBVIOUS
    <2> QED BY <2>1, <2>2
  <1>2. PICK u \in U : \A w \in U : u <= w
    <2> HIDE DEF U
    <2> QED BY <1>1, Smallest
  <1>3. PICK m \in T : u = n - m
    OBVIOUS
  <1>4. \A i \in T : i <= m
    <2>1. \A i \in T : n - i \in U
      OBVIOUS
    <2> QED BY <1>2, <1>3, <2>1
  <1> QED BY <1>4

LEMMA LastRowsSettle ==
  ASSUME NEW a, IsArguments(a), NEW i \in 12..13, NEW args, NEW rest, AtRow(a, i, args, rest)
  PROVE  Due(a, args, rest)
  <1>1. CASE i = 13
    BY <1>1, RowsDone
  <1>2. CASE i = 12
    <2>1. 12 \in 1..12 /\ 12 + 1 = 13 /\ 12 # 11
      OBVIOUS
    <2>2. CASE WrittenRow(a, 12)
      BY <1>2, <2>1, <2>2, RowDue
    <2>3. CASE ~WrittenRow(a, 12)
      BY <1>2, <2>1, <2>3, RowSkipped, RowsDone
    <2> QED BY <2>2, <2>3
  <1> QED BY <1>1, <1>2

LEMMA PropertySettles ==
  ASSUME NEW a, IsArguments(a), NEW j \in 1..Len(a.properties) + 1, NEW args, NEW rest,
         AtProperty(a, j, args, rest)
  PROVE  Due(a, args, rest)
  <1>1. j \in 1..Len(a.properties) \/ j = Len(a.properties) + 1
    BY PiecesTyped
  <1>2. CASE j \in 1..Len(a.properties)
    BY <1>2, PropertyDue
  <1>3. CASE j = Len(a.properties) + 1
    <2>1. 12 \in 12..13
      OBVIOUS
    <2> QED BY <1>3, <2>1, PropertiesDone, LastRowsSettle
  <1> QED BY <1>1, <1>2, <1>3

LEMMA RowsSettle ==
  ASSUME NEW a, IsArguments(a), NEW i \in 1..13, NEW args, NEW rest, AtRow(a, i, args, rest)
  PROVE  Due(a, args, rest)
  <1> DEFINE T == {n \in 1..13 : AtRow(a, n, args, rest)}
  <1>1. PICK m \in T : \A n \in T : n <= m
    <2>1. 13 \in Nat /\ T \subseteq 0..13 /\ T # {}
      OBVIOUS
    <2> HIDE DEF T
    <2> QED BY <2>1, Largest
  <1>2. m \in 1..13 /\ AtRow(a, m, args, rest)
    OBVIOUS
  <1>3. m \in 1..12 => WrittenRow(a, m)
    <2> SUFFICES ASSUME m \in 1..12, ~WrittenRow(a, m) PROVE FALSE
      OBVIOUS
    <2>1. AtRow(a, m + 1, args, rest)
      BY <1>2, RowSkipped
    <2>2. m + 1 \in T
      BY <2>1
    <2> QED BY <1>1, <1>2, <2>2
  <1> HIDE DEF T
  <1>4. CASE m = 13
    BY <1>2, <1>4, RowsDone
  <1>5. CASE m \in 1..12 /\ m # 11
    BY <1>2, <1>3, <1>5, RowDue
  <1>6. CASE m = 11
    <2>1. WrittenRow(a, 11) /\ AtRow(a, 11, args, rest)
      BY <1>2, <1>3, <1>6
    <2>2. AtProperty(a, 1, args, rest) /\ 1 \in 1..Len(a.properties)
      BY <2>1, RepeatedDue
    <2> QED BY <2>2, PropertyDue
  <1> QED BY <1>2, <1>4, <1>5, <1>6

(* Wherever the reader is, a turn is due that reports nothing, or it is at *)
(* the end with all that can be read.                                      *)
LEMMA Settles ==
  ASSUME NEW a, IsArguments(a), NEW args, NEW rest, Progress(a, args, rest)
  PROVE  Due(a, args, rest)
  <1>1. 1 \in 1..13
    OBVIOUS
  <1>2. CASE \E k \in 1..Len(a.screens) + 1 : AtScreen(a, k, args, rest)
    BY <1>1, <1>2, ScreensSettle, RowsSettle
  <1>3. CASE \E k \in 1..Len(a.screens), m \in 1..4 : AtMember(a, k, m, args, rest)
    BY <1>1, <1>3, MembersSettle, RowsSettle
  <1>4. CASE \E i \in 1..13 : AtRow(a, i, args, rest)
    BY <1>4, RowsSettle
  <1>5. CASE \E j \in 1..Len(a.properties) + 1 : AtProperty(a, j, args, rest)
    BY <1>5, PropertySettles
  <1>6. CASE AtEnd(a, args, rest)
    BY <1>6 DEF Due
  <1> QED BY <1>2, <1>3, <1>4, <1>5, <1>6 DEF Progress
-----------------------------------------------------------------------------
(* The second loop's invariant: while what this program wrote is read,     *)
(* nothing is reported, and what is ahead is the rest of what was written; *)
(* and then all is read that can be.                                       *)

Ordinary(id) == id = Empty \/ ~(Dashed(id) \/ Found(id))

FreshInv == at \in {"write", "scan"} => arguments = Defaults /\ problems = {}

ReadInv ==
  at = "read" /\ Reading /\ Ordinary(Source.backgroundId) =>
    problems = {} /\ Progress(Source, arguments, Ahead(argv, pos))

DoneInv ==
  at = "done" /\ Reading /\ Ordinary(Source.backgroundId) =>
    problems = {} /\ arguments = ReadBack(Source)

LoopInv == FreshInv /\ ReadInv /\ DoneInv

LEMMA CanonicalTyped ==
  ASSUME NEW row \in Rows, row.binding # "Positional"
  PROVE  Canonical(row) \in Arg
  <1>1. Positional.binding = "Positional"
    BY DEF Positional, Row
  <1>2. ASSUME NEW m \in DOMAIN ScreenMembers PROVE Canonical(ScreenMembers[m]) \in Arg
    BY MembersWritten
  <1>3. ASSUME NEW i \in DOMAIN Globals PROVE Canonical(Globals[i]) \in Arg
    BY GlobalsWritten DEF Written
  <1> QED BY <1>1, <1>2, <1>3, MembersWritten DEF Rows, ToSet

LEMMA RowsAreBound ==
  ASSUME NEW row \in Rows
  PROVE  row.binding \in {"ScreenSwitch", "ScreenMember", "Global", "Positional"}
  <1>1. ScreenSwitch.binding = "ScreenSwitch" /\ Positional.binding = "Positional"
    BY DEF ScreenSwitch, Positional, Row
  <1>2. \A m \in DOMAIN ScreenMembers : ScreenMembers[m].binding = "ScreenMember"
    BY MembersWritten, MemberRow
  <1>3. \A i \in DOMAIN Globals : Globals[i].binding = "Global"
    BY GlobalsWritten, GlobalRow
  <1> QED BY <1>1, <1>2, <1>3 DEF Rows, ToSet

(* The turn that a row's tokens bring about.                               *)
LEMMA RowTurn ==
  ASSUME TypeInv, FromArgv, at = "read", NEW row \in Rows, NEW v \in Arg, NEW t \in Str(Arg),
         row.binding # "Positional", Ahead(argv, pos) = Then(Tokens(row, v), t),
         row.binding = "ScreenMember" => arguments.screens # <<>>,
         row.field \in IntFields => IsInt(v)
  PROVE  /\ at' = "read" /\ argv' = argv /\ UNCHANGED <<written, problems>>
         /\ arguments' = Effect(row, v, arguments) /\ Ahead(argv', pos') = t
  <1>1. Len(argv) \in Nat /\ pos \in Nat
    BY DEF TypeInv
  <1>2. Canonical(row) \in Arg
    BY CanonicalTyped
  <1>3. /\ row.arity \in {"Flag", "Value", "Repeated"}
        /\ row.binding # "Global" => row.arity = "Value"
    BY RowKinds DEF RowKind
  <1>4. CASE row.arity = "Flag"
    <2>1. Ahead(argv, pos) = Then(<<Canonical(row)>>, t)
      BY <1>4 DEF Tokens
    <2>2. pos <= Len(argv) /\ token = Canonical(row) /\ Ahead(argv, pos + 1) = t
      BY <1>2, <2>1, OneAhead
    <2>3. row.binding = "Global"
      BY <1>3, <1>4, RowsAreBound
    <2>4. /\ at' = "read" /\ UNCHANGED <<scanning, written>> /\ pos' = pos + 1
          /\ Write([arguments EXCEPT ![row.field] = row.polarity = "Positive"])
      BY <1>1, <1>4, <2>2, <2>3, RowIsRead
    <2>5. Effect(row, v, arguments) = [arguments EXCEPT ![row.field] = row.polarity = "Positive"]
      BY <1>4, <2>3 DEF Effect
    <2> QED BY <2>2, <2>4, <2>5 DEF Write, scanning
  <1>5. CASE row.arity # "Flag"
    <2>1. Ahead(argv, pos) = Then(<<Canonical(row), v>>, t)
      BY <1>5 DEF Tokens
    <2>2. /\ pos <= Len(argv) /\ HasValue /\ token = Canonical(row) /\ value = v
          /\ Ahead(argv, pos + 2) = t
      BY <1>2, <2>1, TwoAhead
    <2>3. at' = "read" /\ UNCHANGED <<scanning, written>> /\ pos' = pos + 2
      BY <1>1, <1>5, <2>2, RowIsRead
    <2>4. Write(Effect(row, v, arguments))
      <3>1. CASE row.binding = "ScreenSwitch"
        <4>1. Write([arguments EXCEPT !.screens = Append(@, [NoScreen EXCEPT !.screen = v])])
          BY <1>1, <2>2, <3>1, RowIsRead
        <4> QED BY <3>1, <4>1 DEF Effect
      <3>2. CASE row.binding = "ScreenMember"
        <4>1. Write([arguments EXCEPT !.screens[Len(arguments.screens)][row.field] = v])
          BY <1>1, <2>2, <3>2, RowIsRead
        <4> QED BY <3>2, <4>1 DEF Effect
      <3>3. CASE row.binding = "Global" /\ row.arity = "Repeated"
        <4>1. Write([arguments EXCEPT !.properties = Append(@, PropertyOf(v))])
          BY <1>1, <2>2, <3>3, RowIsRead
        <4> QED BY <3>3, <4>1 DEF Effect
      <3>4. CASE row.binding = "Global" /\ row.arity = "Value"
        <4>1. /\ IsInt(v) /\ row.field \in IntFields =>
                   Write([arguments EXCEPT ![row.field] = IntOf(v)])
              /\ IsInt(v) /\ row.field \notin IntFields => Write(arguments)
              /\ ~IsInt(v) /\ row.field \notin IntFields =>
                   Write([arguments EXCEPT ![row.field] = v])
          BY <1>1, <2>2, <3>4, RowIsRead
        <4>2. Effect(row, v, arguments)
                = IF row.field \in IntFields THEN [arguments EXCEPT ![row.field] = IntOf(v)]
                  ELSE IF IsInt(v) THEN arguments ELSE [arguments EXCEPT ![row.field] = v]
          BY <3>4 DEF Effect
        <4> QED BY <4>1, <4>2
      <3> QED BY <1>3, <1>5, <3>1, <3>2, <3>3, <3>4, RowsAreBound
    <2> QED BY <2>2, <2>3, <2>4 DEF Write, scanning
  <1> QED BY <1>4, <1>5

LEMMA IdTurn ==
  ASSUME TypeInv, FromArgv, at = "read", NEW id \in Arg, Ordinary(id),
         Ahead(argv, pos) = <<id>>, arguments.backgroundId = Empty
  PROVE  /\ at' = "read" /\ argv' = argv /\ UNCHANGED <<written, problems>>
         /\ arguments' = [arguments EXCEPT !.backgroundId = id] /\ Ahead(argv', pos') = <<>>
  <1>1. pos <= Len(argv) /\ token = id /\ Ahead(argv, pos + 1) = <<>>
    <2>1. <<>> \in Str(Arg) /\ <<id>> = Then(<<id>>, <<>>)
      <3>1. <<>> \in Str(Arg) /\ <<id>> \in Str(Arg)
        BY StrTyped DEF Char
      <3> QED BY <3>1, StrThen
    <2> QED BY <2>1, OneAhead
  <1>2. Len(argv) \in Nat /\ pos \in Nat
    BY DEF TypeInv
  <1>3. ~Option /\ ~Dashed(token)
    BY <1>1 DEF Ordinary, Option, Arg, Empty
  <1>4. BareToken
    <2>1. ~EndOfTokens
      BY <1>1, <1>2 DEF EndOfTokens
    <2>2. ~UnknownOption /\ ~MissingValue
      BY <1>3 DEF UnknownOption, MissingValue, Turn
    <2>3. ~ReadScreenSwitch /\ ~ReadScreenMember /\ ~ReadPositional
      BY <1>3 DEF ReadScreenSwitch, ReadScreenMember, ReadPositional, Turn, Bound
    <2>4. ~ReadFlag /\ ~ReadProperty /\ ~ReadGlobal
      BY <1>3 DEF ReadFlag, ReadProperty, ReadGlobal, Turn, Bound
    <2> QED BY <2>1, <2>2, <2>3, <2>4 DEF FromArgv
  <1>5. /\ at' = "read" /\ UNCHANGED <<scanning, written>> /\ pos' = pos + 1
        /\ arguments' = [arguments EXCEPT !.backgroundId = id] /\ UNCHANGED problems
    BY <1>1, <1>4 DEF BareToken, Turn, Write
  <1> QED BY <1>1, <1>5 DEF scanning

LEMMA LastTurn ==
  ASSUME TypeInv, FromArgv, at = "read", Ahead(argv, pos) = <<>>
  PROVE  at' = "done" /\ UNCHANGED <<arguments, problems, written>>
  <1>1. ~(pos <= Len(argv))
    <2>1. pos > Len(argv) /\ pos \in Nat /\ Len(argv) \in Nat
      BY NoneAhead DEF TypeInv
    <2> QED BY <2>1
  <1>2. EndOfTokens
    BY <1>1 DEF FromArgv, UnknownOption, BareToken, MissingValue, ReadScreenSwitch,
       ReadScreenMember, ReadFlag, ReadProperty, ReadGlobal, ReadPositional, Turn
  <1> QED BY <1>2 DEF EndOfTokens

LEMMA FromArgvReads ==
  ASSUME TypeInv, ArgvInv, LoopInv, FromArgv
  PROVE  LoopInv'
  <1>1. at = "read" /\ at' \in {"read", "done"} /\ UNCHANGED <<scanning, written>>
    BY DEF FromArgv, UnknownOption, BareToken, MissingValue, ReadScreenSwitch,
           ReadScreenMember, ReadFlag, ReadProperty, ReadGlobal, ReadPositional, EndOfTokens, Turn
  <1>2. Source' = Source /\ Reading' = Reading
    BY <1>1, SourceKept
  <1>3. CASE ~(Reading /\ Ordinary(Source.backgroundId))
    BY <1>1, <1>2, <1>3 DEF LoopInv, FreshInv, ReadInv, DoneInv
  <1>4. CASE Reading /\ Ordinary(Source.backgroundId)
    <2>1. IsArguments(Source)
      BY <1>1, <1>4 DEF ArgvInv, SourceInv
    <2>2. problems = {} /\ Progress(Source, arguments, Ahead(argv, pos))
      BY <1>1, <1>4 DEF LoopInv, ReadInv
    <2>3. PICK a : a = Source
      OBVIOUS
    <2>4. IsArguments(a) /\ Ordinary(a.backgroundId) /\ Due(a, arguments, Ahead(argv, pos))
      BY <1>4, <2>1, <2>2, <2>3, Settles
    <2>5. ASSUME problems' = {},
                 \/ at' = "read" /\ Progress(a, arguments', Ahead(argv', pos'))
                 \/ at' = "done" /\ arguments' = ReadBack(a)
          PROVE  LoopInv'
      BY <1>2, <2>3, <2>5 DEF LoopInv, FreshInv, ReadInv, DoneInv
    <2>6. CASE \E row \in Rows, v \in Arg, t \in Str(Arg) :
                 RowIsDue(a, arguments, Ahead(argv, pos), row, v, t)
      <3>1. PICK row \in Rows, v \in Arg, t \in Str(Arg) :
              RowIsDue(a, arguments, Ahead(argv, pos), row, v, t)
        BY <2>6
      <3>2. /\ at' = "read" /\ problems' = problems
            /\ arguments' = Effect(row, v, arguments) /\ Ahead(argv', pos') = t
        BY <1>1, <3>1, RowTurn DEF RowIsDue
      <3> QED BY <2>2, <2>5, <3>1, <3>2 DEF RowIsDue
    <2>7. CASE IdIsDue(a, arguments, Ahead(argv, pos))
      <3>1. PICK id \in Arg : id = a.backgroundId
        BY <2>4, <2>7, FieldsAre DEF IdIsDue, IsArguments, Arg, Empty
      <3>2. /\ at' = "read" /\ problems' = problems
            /\ arguments' = ReadBack(a) /\ Ahead(argv', pos') = <<>>
        BY <1>1, <2>4, <2>7, <3>1, IdTurn DEF IdIsDue
      <3> QED BY <2>2, <2>5, <3>2 DEF Progress, AtEnd
    <2>8. CASE AtEnd(a, arguments, Ahead(argv, pos))
      <3>1. at' = "done" /\ arguments' = arguments /\ problems' = problems
        BY <1>1, <2>8, LastTurn DEF AtEnd
      <3> QED BY <2>2, <2>5, <2>8, <3>1 DEF AtEnd
    <2> QED BY <2>4, <2>6, <2>7, <2>8 DEF Due
  <1> QED BY <1>3, <1>4

(* The reader starts at the first screen.                                  *)
LEMMA FirstScreen ==
  ASSUME NEW a, IsArguments(a)
  PROVE  Progress(a, Defaults, ToArgv(a))
  <1>1. Gathered(SubSeq(a.screens, 1, 1 - 1)) = Defaults
    <2>1. SubSeq(a.screens, 1, 1 - 1) = <<>>
      BY PiecesTyped
    <2>2. Defaults.screens = <<>>
      BY DEF Defaults
    <2>3. Defaults = [f \in Fields |-> Defaults[f]] /\ "screens" \in Fields
      BY DefaultsTyped, Indices DEF IsArguments
    <2> QED BY <2>1, <2>2, <2>3 DEF Gathered
  <1>2. ToArgv(a) = Then(From(ScreensOf(a), 1), RestOf(a))
    <2>1. ToArgv(a) = Then(FlattenSeq(ScreensOf(a)), Then(FlattenSeq(RowsOf(a)), IdOf(a)))
      <3>1. \A s \in ToSet(a.screens) : s.screen \in Arg
        <4>1. ToSet(a.screens) \subseteq NamedScreens
          BY PiecesTyped, SeqMembers
        <4> QED BY <4>1 DEF NamedScreens
      <3> QED BY <3>1, ReadIsWritable, ToArgvTyped
    <2>2. From(ScreensOf(a), 1) = FlattenSeq(ScreensOf(a))
      BY PiecesTyped, FromIs
    <2>3. From(RowsOf(a), 1) = FlattenSeq(RowsOf(a))
      BY PiecesTyped, FromIs
    <2> QED BY <2>1, <2>2, <2>3 DEF RestOf
  <1>3. 1 \in 1..Len(a.screens) + 1
    BY PiecesTyped
  <1> QED BY <1>1, <1>2, <1>3 DEF Progress, AtScreen

LEMMA EndOfLineReads ==
  ASSUME TypeInv, ArgvInv, LoopInv, EndOfLine
  PROVE  LoopInv'
  <1>1. /\ at = "scan" /\ at' = "read" /\ pos' = 1
        /\ UNCHANGED <<arguments, problems, written>>
    BY DEF EndOfLine
  <1>2. arguments' = Defaults /\ problems' = {}
    BY <1>1 DEF LoopInv, FreshInv
  <1>3. ASSUME Reading' PROVE Progress(Source', arguments', Ahead(argv', pos'))
    <2>1. IsArguments(Source)' /\ argv' = ToArgv(Source')
      BY <1>1, <1>3, EndOfLineArgv DEF ArgvInv, SourceInv, SplitInv
    <2>2. PICK a : a = Source' /\ IsArguments(a) /\ argv' = ToArgv(a)
      BY <2>1
    <2>3. Ahead(argv', pos') = argv'
      BY <1>1, <2>2, ReadIsWritable, WholeRest DEF Ahead, Str
    <2> QED BY <1>2, <2>2, <2>3, FirstScreen
  <1> QED BY <1>1, <1>2, <1>3 DEF LoopInv, FreshInv, ReadInv, DoneInv

LEMMA InitReads ==
  ASSUME Init
  PROVE  LoopInv
  BY DEF Init, LoopInv, FreshInv, ReadInv, DoneInv

LEMMA NextReads ==
  ASSUME TypeInv, ArgvInv, LoopInv, [Next]_vars
  PROVE  LoopInv'
  <1>1. CASE Install \/ HandEdit
    <2>1. at = "write" /\ at' \in {"scan", "refused"} /\ UNCHANGED <<arguments, problems>>
      BY <1>1 DEF Install, HandEdit
    <2> QED BY <2>1 DEF LoopInv, FreshInv, ReadInv, DoneInv
  <1>2. CASE Rewrite
    BY <1>2 DEF Rewrite, LoopInv, FreshInv, ReadInv, DoneInv
  <1>3. CASE ScanEscape \/ ScanQuote \/ ScanSpace \/ ScanCharacter
    <2>1. at = "scan" /\ at' = "scan" /\ UNCHANGED <<arguments, problems>>
      BY <1>3 DEF ScanEscape, ScanQuote, ScanSpace, ScanCharacter, Scan
    <2> QED BY <2>1 DEF LoopInv, FreshInv, ReadInv, DoneInv
  <1>4. CASE EndOfLine
    BY <1>4, EndOfLineReads
  <1>5. CASE FromArgv
    BY <1>5, FromArgvReads
  <1>6. CASE UNCHANGED vars
    <2>1. /\ UNCHANGED written /\ at' = at /\ pos' = pos /\ argv' = argv
          /\ arguments' = arguments /\ problems' = problems
      BY <1>6 DEF vars, written
    <2> QED BY <2>1, SourceKept DEF LoopInv, FreshInv, ReadInv, DoneInv
  <1> QED BY <1>1, <1>2, <1>3, <1>4, <1>5, <1>6 DEF Next, ParseExecArgs

(* What an installed unit reads back as.                                   *)
LEMMA InstalledIsRead ==
  ASSUME TypeInv, ArgvInv, LoopInv, Installed("done"), OneLine
  PROVE  /\ config \in Configs /\ problems = {}
         /\ IsArguments(ToArguments(loaded)) /\ arguments = ReadBack(ToArguments(loaded))
  <1>1. config \in Configs /\ Reading /\ Source = ToArguments(loaded) /\ at = "done"
    BY DEF TypeInv, Installed, OneLine, Reading, Source
  <1>2. Ordinary(Source.backgroundId)
    <2>1. ToArguments(loaded).backgroundId = Empty
      BY DEF ToArguments, Defaults
    <2> QED BY <1>1, <2>1 DEF Ordinary
  <1> QED BY <1>1, <1>2 DEF ArgvInv, SourceInv, LoopInv, DoneInv

LEMMA ReadBackOf ==
  ASSUME NEW a, IsArguments(a)
  PROVE  ReadBack(a) = [Visible(a) EXCEPT !.assetsDir = IF IsInt(@) THEN Empty ELSE @]
  <1>1. Visible(a).assetsDir = a.assetsDir
    BY DEF Visible, IsArguments
  <1> QED BY <1>1 DEF ReadBack

(* unit_file.cpp:79-104: for every config that is accepted and is spelt on *)
(* one line, the screens and wallpapers that `status` reads from the unit  *)
(* are the config's.                                                       *)
THEOREM StatusAlwaysReadsTheConfig == Spec => []StatusReadsTheConfig
  <1>1. ASSUME TypeInv, ArgvInv, LoopInv, Installed("done"), OneLine
        PROVE  Backgrounds = ToSet(loaded.screens)
    <2>1. arguments.screens = ToArguments(loaded).screens
      BY <1>1, InstalledIsRead, ReadBackIs, Indices
    <2>2. PICK screens : /\ screens = loaded.screens
                         /\ screens \in Seq([screen : AnyText, wallpaper : AnyText])
      BY <1>1, InstalledIsRead, LoadIsTyped DEF loaded, LoadedTyped
    <2>3. arguments.screens = [k \in DOMAIN screens |->
            [screen |-> screens[k].screen, background |-> screens[k].wallpaper,
             scaling |-> loaded.scaling, clamp |-> loaded.clamp]]
      BY <2>1, <2>2 DEF ToArguments, Defaults
    <2>4. ASSUME NEW k \in DOMAIN screens
          PROVE  [screen |-> arguments.screens[k].screen,
                  wallpaper |-> arguments.screens[k].background] = screens[k]
      <3>1. screens[k] \in [screen : AnyText, wallpaper : AnyText]
        <4>1. ToSet(screens) \subseteq [screen : AnyText, wallpaper : AnyText]
          BY <2>2, SeqMembers
        <4> QED BY <4>1 DEF ToSet
      <3> QED BY <2>3, <3>1
    <2>5. DOMAIN arguments.screens = DOMAIN screens
      BY <2>3
    <2> QED BY <2>2, <2>4, <2>5 DEF Backgrounds, ToSet
  <1>2. TypeInv /\ ArgvInv /\ LoopInv => StatusReadsTheConfig
    BY <1>1 DEF StatusReadsTheConfig
  <1> QED BY <1>2, InitTyped, NextTyped, InitArgv, NextArgv, InitReads, NextReads, PTL DEF Spec

(* grammar.h:186-192: for every config that is accepted and is spelt on    *)
(* one line, every setting is read back but for the two exceptions, and    *)
(* nothing is reported.                                                    *)
THEOREM ReadBackIsAlwaysWritten == Spec => []ReadBackIsWritten
  <1>1. ASSUME TypeInv, ArgvInv, LoopInv, Installed("done"), OneLine
        PROVE  /\ problems = {}
               /\ arguments = [Visible(ToArguments(loaded)) EXCEPT
                    !.assetsDir = IF IsInt(@) THEN Empty ELSE @]
    BY <1>1, InstalledIsRead, ReadBackOf
  <1>2. ASSUME TypeInv, ArgvInv, LoopInv, Installed("done"), OneLine,
               NEW f \in {"fps", "volume"} \cap DOMAIN config,
               config[f] \in Ints, ~(f = "volume" /\ arguments.silent)
        PROVE  arguments[f] = config[f]
    <2>1. PICK a : a = ToArguments(loaded) /\ IsArguments(a) /\ arguments = ReadBack(a)
      BY <1>2, InstalledIsRead
    <2>2. a.fps = loaded.fps /\ a.volume = loaded.volume
      BY <2>1 DEF ToArguments, Defaults
    <2>3. loaded[f] = config[f]
      <3>1. f \in DOMAIN ConfigDefaults
        BY DEF ConfigDefaults
      <3>2. loaded[f] = Narrow(config[f])
        BY <3>1 DEF loaded, Load
      <3>3. config[f] \in Int
        BY <1>2, IntsWritten
      <3> QED BY <1>2, <3>2, <3>3, NarrowTyped
    <2>4. arguments[f] = a[f]
      <3>1. arguments.silent = a.silent /\ arguments.fps = a.fps
        <4>1. {"silent", "fps"} \subseteq Fields \ {"volume", "assetsDir"}
          BY FieldsAre DEF FlagFields, IntFields
        <4> QED BY <2>1, <4>1, ReadBackIs
      <3>2. f = "volume" => arguments.volume = a.volume
        BY <1>2, <2>1, <3>1, ReadBackIs
      <3> QED BY <3>1, <3>2
    <2> QED BY <2>2, <2>3, <2>4
  <1>3. TypeInv /\ ArgvInv /\ LoopInv => ReadBackIsWritten
    BY <1>1, <1>2 DEF ReadBackIsWritten
  <1> QED BY <1>3, InitTyped, NextTyped, InitArgv, NextArgv, InitReads, NextReads, PTL DEF Spec

(* grammar.h:186-192: whatever line was read, by hand or by this program   *)
(* and of whatever length, what it read as is written and read again as    *)
(* the same, unless its background id could pass for an option.            *)
THEOREM NormalFormAlways == Spec => []NormalForm
  <1>1. ASSUME TypeInv, LoopInv, at = "done", round = 2, Ordinary(first.backgroundId)
        PROVE  arguments = Visible(first) /\ problems = {}
    <2>1. Reading /\ Source = first
      BY <1>1 DEF Reading, Source
    <2>2. problems = {} /\ arguments = ReadBack(first)
      BY <1>1, <2>1 DEF LoopInv, DoneInv
    <2>3. IsArguments(first) /\ ~IsInt(first.assetsDir)
      BY <1>1 DEF TypeInv, WellRead
    <2>4. ReadBack(first) = Visible(first)
      <3>1. /\ Visible(first).assetsDir = first.assetsDir
            /\ Visible(first) = [f \in Fields |-> Visible(first)[f]]
        BY <2>3 DEF Visible, IsArguments
      <3> QED BY <2>3, <3>1 DEF ReadBack
    <2> QED BY <2>2, <2>4
  <1>2. TypeInv /\ LoopInv => NormalForm
    BY <1>1 DEF NormalForm, Ordinary
  <1> QED BY <1>2, InitTyped, NextTyped, InitArgv, NextArgv, InitReads, NextReads, PTL DEF Spec
=============================================================================
