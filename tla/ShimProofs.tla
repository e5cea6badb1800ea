------------------------------ MODULE ShimProofs ------------------------------
(***************************************************************************)
(* What the preloaded library guarantees for any number of threads, any    *)
(* changes and any size of its buffers: no DESKTOP type gets past it, the  *)
(* window stays below and loses no state, and the lines of the log are     *)
(* whole.                                                                  *)
(***************************************************************************)
EXTENDS Shim, FiniteSetTheorems, SequenceTheorems, TLAPS

-----------------------------------------------------------------------------
(* Lists of atoms. *)

Atoms == Names \cup {"OTHER", Zero}

(* NeverDesktop's list of types. *)
Normal(types) ==
  [k \in DOMAIN types |-> IF types[k] = "DESKTOP" THEN "NORMAL" ELSE types[k]]

(* The changes' data are lists, without a Zero. *)
LEMMA DataTyping ==
  ASSUME NEW r \in Requests
  PROVE  /\ r.data \in Lists
         /\ \A k \in DOMAIN r.data : r.data[k] # Zero
         /\ r.via \in Vias /\ r.property \in Properties
         /\ r.mode \in {"Replace", "Append", "Prepend"}
  <1>1. r \in Changes
    BY ShimAssumption
  <1>2. r.data \in Seq(Names \cup {"OTHER"})
    BY <1>1 DEF Changes
  <1>3. r.data \in Lists
    BY <1>2, SeqMonotonic, Names \cup {"OTHER"} \subseteq Names \cup {"OTHER", Zero}
    DEF Lists
  <1>4. \A k \in DOMAIN r.data : r.data[k] \in Names \cup {"OTHER"}
    BY <1>2, LenProperties, ElementOfSeq
  <1>5. Zero \notin Names \cup {"OTHER"}
    BY DEF Zero, Names, TypeNames, StateNames
  <1> QED BY <1>1, <1>3, <1>4, <1>5 DEF Changes

(* A list with every atom replaced is a list. *)
LEMMA MappedTyping ==
  ASSUME NEW list \in Lists, NEW a \in Atoms, NEW b \in Atoms,
         NEW mapped,
         mapped = [k \in DOMAIN list |-> IF list[k] = a THEN b ELSE list[k]]
  PROVE  mapped \in Lists /\ Len(mapped) = Len(list)
  <1>1. /\ Len(list) \in Nat /\ DOMAIN list = 1..Len(list)
        /\ list \in [1..Len(list) -> Atoms]
    BY LenProperties DEF Lists, Atoms
  <1>2. mapped \in [1..Len(list) -> Atoms]
    BY <1>1
  <1>3. mapped \in Seq(Atoms)
    BY <1>1, <1>2, SeqDef
  <1>4. DOMAIN mapped = 1..Len(list)
    BY <1>1
  <1>5. DOMAIN mapped = 1..Len(mapped) /\ Len(mapped) \in Nat
    BY <1>3, LenProperties
  <1>6. Len(mapped) = Len(list)
    BY <1>1, <1>4, <1>5
  <1> QED BY <1>3, <1>6 DEF Lists, Atoms

LEMMA NormalTyping ==
  ASSUME NEW list \in Lists
  PROVE  Normal(list) \in Lists /\ Len(Normal(list)) = Len(list)
  <1>1. "DESKTOP" \in Atoms /\ "NORMAL" \in Atoms
    BY DEF Atoms, Names, TypeNames
  <1>2. Normal(list) = [k \in DOMAIN list |->
                          IF list[k] = "DESKTOP" THEN "NORMAL" ELSE list[k]]
    BY DEF Normal
  <1> QED BY <1>1, <1>2, MappedTyping

(* The length and the elements of a concatenation of lists. *)
LEMMA ConcatLists ==
  ASSUME NEW s \in Lists, NEW t \in Lists
  PROVE  /\ s \o t \in Lists /\ Len(s \o t) = Len(s) + Len(t)
         /\ Len(s) \in Nat /\ Len(t) \in Nat
         /\ DOMAIN s = 1..Len(s) /\ DOMAIN t = 1..Len(t)
         /\ DOMAIN (s \o t) = 1..(Len(s) + Len(t))
         /\ \A i \in 1..(Len(s) + Len(t)) :
              (s \o t)[i] = IF i <= Len(s) THEN s[i] ELSE t[i - Len(s)]
  BY ConcatProperties, LenProperties DEF Lists

(* Replacing types in two lists and in both together is the same. *)
LEMMA NormalConcat ==
  ASSUME NEW s \in Lists, NEW t \in Lists
  PROVE  Normal(s \o t) = Normal(s) \o Normal(t)
  <1>1. /\ s \o t \in Lists /\ Len(s \o t) = Len(s) + Len(t)
        /\ Len(s) \in Nat /\ Len(t) \in Nat
        /\ DOMAIN s = 1..Len(s) /\ DOMAIN t = 1..Len(t)
        /\ DOMAIN (s \o t) = 1..(Len(s) + Len(t))
        /\ \A i \in 1..(Len(s) + Len(t)) :
             (s \o t)[i] = IF i <= Len(s) THEN s[i] ELSE t[i - Len(s)]
    BY ConcatLists
  <1>2. /\ Normal(s) \in Lists /\ Len(Normal(s)) = Len(s)
        /\ Normal(t) \in Lists /\ Len(Normal(t)) = Len(t)
        /\ Normal(s \o t) \in Lists /\ Len(Normal(s \o t)) = Len(s) + Len(t)
    BY <1>1, NormalTyping
  <1>3. /\ Normal(s) \o Normal(t) \in Lists
        /\ Len(Normal(s) \o Normal(t)) = Len(s) + Len(t)
        /\ \A i \in 1..(Len(s) + Len(t)) :
             (Normal(s) \o Normal(t))[i] =
               IF i <= Len(s) THEN Normal(s)[i] ELSE Normal(t)[i - Len(s)]
    <2>1. /\ Normal(s) \o Normal(t) \in Lists
          /\ Len(Normal(s) \o Normal(t)) = Len(Normal(s)) + Len(Normal(t))
          /\ \A i \in 1..(Len(Normal(s)) + Len(Normal(t))) :
               (Normal(s) \o Normal(t))[i] =
                 IF i <= Len(Normal(s)) THEN Normal(s)[i]
                                        ELSE Normal(t)[i - Len(Normal(s))]
      BY <1>2, ConcatLists
    <2> QED BY <1>2, <2>1
  <1>4. ASSUME NEW i \in 1..(Len(s) + Len(t))
        PROVE  Normal(s \o t)[i] = (Normal(s) \o Normal(t))[i]
    <2>1. CASE i <= Len(s)
      BY <1>1, <1>3, <2>1 DEF Normal
    <2>2. CASE ~(i <= Len(s))
      <3>1. i - Len(s) \in DOMAIN t
        BY <1>1, <2>2
      <3> QED BY <1>1, <1>3, <2>2, <3>1 DEF Normal
    <2> QED BY <2>1, <2>2
  <1> QED BY <1>2, <1>3, <1>4, SeqEqual DEF Lists

(* What a concatenation contains. *)
LEMMA ConcatContains ==
  ASSUME NEW s \in Lists, NEW t \in Lists, NEW e
  PROVE  Contains(s \o t, e) <=> Contains(s, e) \/ Contains(t, e)
  <1>1. /\ Len(s \o t) = Len(s) + Len(t)
        /\ Len(s) \in Nat /\ Len(t) \in Nat
        /\ \A i \in 1..(Len(s) + Len(t)) :
             (s \o t)[i] = IF i <= Len(s) THEN s[i] ELSE t[i - Len(s)]
    BY ConcatLists
  <1>2. ASSUME Contains(s \o t, e) PROVE Contains(s, e) \/ Contains(t, e)
    <2>1. PICK i \in 1..(Len(s) + Len(t)) : (s \o t)[i] = e
      BY <1>1, <1>2 DEF Contains
    <2>2. CASE i <= Len(s)
      BY <1>1, <2>1, <2>2 DEF Contains
    <2>3. CASE ~(i <= Len(s))
      <3>1. i - Len(s) \in 1..Len(t) /\ t[i - Len(s)] = e
        BY <1>1, <2>1, <2>3
      <3> QED BY <3>1 DEF Contains
    <2> QED BY <2>2, <2>3
  <1>3. ASSUME Contains(s, e) PROVE Contains(s \o t, e)
    <2>1. PICK i \in 1..Len(s) : s[i] = e
      BY <1>3 DEF Contains
    <2>2. i \in 1..(Len(s) + Len(t)) /\ (s \o t)[i] = e
      BY <1>1, <2>1
    <2> QED BY <1>1, <2>2 DEF Contains
  <1>4. ASSUME Contains(t, e) PROVE Contains(s \o t, e)
    <2>1. PICK i \in 1..Len(t) : t[i] = e
      BY <1>4 DEF Contains
    <2>2. /\ Len(s) + i \in 1..(Len(s) + Len(t))
          /\ ~(Len(s) + i <= Len(s)) /\ (Len(s) + i) - Len(s) = i
      BY <1>1
    <2>3. (s \o t)[Len(s) + i] = e
      BY <1>1, <2>1, <2>2
    <2> QED BY <1>1, <2>2, <2>3 DEF Contains
  <1> QED BY <1>2, <1>3, <1>4

(* WithMoreBelow, with the lengths of the lists for their domains. *)
LEMMA MoreMeans ==
  ASSUME NEW list \in Lists, NEW more \in Lists
  PROVE  WithMoreBelow(list, more) <=>
           \E before \in [1..Len(list) -> 0..(Len(more) - Len(list))] :
             /\ \A i \in 1..Len(list) : more[i + before[i]] = list[i]
             /\ \A i, j \in 1..Len(list) : i < j => before[i] <= before[j]
             /\ \A k \in 1..Len(more) :
                  \/ more[k] = "BELOW"
                  \/ \E i \in 1..Len(list) : k = i + before[i]
  <1>1. DOMAIN list = 1..Len(list) /\ DOMAIN more = 1..Len(more)
    BY LenProperties DEF Lists
  <1> QED BY ONLY <1>1, Zenon DEF WithMoreBelow

(* What is added to two lists is added to both together. *)
LEMMA MoreConcat ==
  ASSUME NEW s \in Lists, NEW t \in Lists, NEW u \in Lists, NEW v \in Lists,
         WithMoreBelow(s, u), WithMoreBelow(t, v)
  PROVE  WithMoreBelow(s \o t, u \o v)
  <1>1. /\ Len(s \o t) = Len(s) + Len(t) /\ Len(u \o v) = Len(u) + Len(v)
        /\ Len(s) \in Nat /\ Len(t) \in Nat /\ Len(u) \in Nat /\ Len(v) \in Nat
        /\ DOMAIN s = 1..Len(s) /\ DOMAIN t = 1..Len(t)
        /\ DOMAIN u = 1..Len(u) /\ DOMAIN v = 1..Len(v)
        /\ DOMAIN (s \o t) = 1..(Len(s) + Len(t))
        /\ DOMAIN (u \o v) = 1..(Len(u) + Len(v))
    BY ConcatLists
  <1>2. /\ \A i \in 1..(Len(s) + Len(t)) :
             (s \o t)[i] = IF i <= Len(s) THEN s[i] ELSE t[i - Len(s)]
        /\ \A i \in 1..(Len(u) + Len(v)) :
             (u \o v)[i] = IF i <= Len(u) THEN u[i] ELSE v[i - Len(u)]
    BY ConcatLists
  <1>3. PICK f \in [1..Len(s) -> 0..(Len(u) - Len(s))] :
          /\ \A i \in 1..Len(s) : u[i + f[i]] = s[i]
          /\ \A i, j \in 1..Len(s) : i < j => f[i] <= f[j]
          /\ \A k \in 1..Len(u) :
               u[k] = "BELOW" \/ \E i \in 1..Len(s) : k = i + f[i]
    BY MoreMeans
  <1>4. PICK g \in [1..Len(t) -> 0..(Len(v) - Len(t))] :
          /\ \A i \in 1..Len(t) : v[i + g[i]] = t[i]
          /\ \A i, j \in 1..Len(t) : i < j => g[i] <= g[j]
          /\ \A k \in 1..Len(v) :
               v[k] = "BELOW" \/ \E i \in 1..Len(t) : k = i + g[i]
    BY MoreMeans
  <1>5. Len(s) <= Len(u) /\ Len(t) <= Len(v)
    <2>1. ASSUME Len(s) > 0 PROVE Len(s) <= Len(u)
      <3>1. f[1] \in 0..(Len(u) - Len(s))
        BY <1>1, <2>1
      <3> QED BY <1>1, <3>1
    <2>2. ASSUME Len(t) > 0 PROVE Len(t) <= Len(v)
      <3>1. g[1] \in 0..(Len(v) - Len(t))
        BY <1>1, <2>2
      <3> QED BY <1>1, <3>1
    <2> QED BY <1>1, <2>1, <2>2
  <1> DEFINE h == [i \in 1..(Len(s) + Len(t)) |->
                     IF i <= Len(s) THEN f[i]
                                    ELSE (Len(u) - Len(s)) + g[i - Len(s)]]
  <1>6. ASSUME NEW i \in 1..(Len(s) + Len(t))
        PROVE  /\ i <= Len(s) => i \in 1..Len(s) /\ h[i] = f[i]
                                 /\ f[i] \in 0..(Len(u) - Len(s))
               /\ ~(i <= Len(s)) =>
                    /\ i - Len(s) \in 1..Len(t)
                    /\ h[i] = (Len(u) - Len(s)) + g[i - Len(s)]
                    /\ g[i - Len(s)] \in 0..(Len(v) - Len(t))
    BY <1>1
  <1> HIDE DEF h
  <1>7. h \in [1..(Len(s) + Len(t)) ->
                 0..((Len(u) + Len(v)) - (Len(s) + Len(t)))]
    <2>1. \A i \in 1..(Len(s) + Len(t)) :
            h[i] \in 0..((Len(u) + Len(v)) - (Len(s) + Len(t)))
      BY <1>1, <1>5, <1>6
    <2> QED BY <2>1 DEF h
  <1>8. \A i \in 1..(Len(s) + Len(t)) : (u \o v)[i + h[i]] = (s \o t)[i]
    <2> SUFFICES ASSUME NEW i \in 1..(Len(s) + Len(t))
                 PROVE  (u \o v)[i + h[i]] = (s \o t)[i]
      OBVIOUS
    <2>1. CASE i <= Len(s)
      <3>1. /\ i + h[i] \in 1..(Len(u) + Len(v)) /\ i + h[i] <= Len(u)
            /\ h[i] = f[i]
        BY <1>1, <1>6, <2>1
      <3>2. (u \o v)[i + h[i]] = u[i + f[i]]
        BY <1>2, <3>1
      <3> QED BY <1>2, <1>3, <1>6, <2>1, <3>2
    <2>2. CASE ~(i <= Len(s))
      <3>1. /\ i + h[i] \in 1..(Len(u) + Len(v)) /\ ~(i + h[i] <= Len(u))
            /\ (i + h[i]) - Len(u) = (i - Len(s)) + g[i - Len(s)]
        BY <1>1, <1>5, <1>6, <2>2
      <3>2. (u \o v)[i + h[i]] = v[(i - Len(s)) + g[i - Len(s)]]
        BY <1>2, <3>1
      <3> QED BY <1>2, <1>4, <1>6, <2>2, <3>2
    <2> QED BY <2>1, <2>2
  <1>9. \A i, j \in 1..(Len(s) + Len(t)) : i < j => h[i] <= h[j]
    <2> SUFFICES ASSUME NEW i \in 1..(Len(s) + Len(t)),
                        NEW j \in 1..(Len(s) + Len(t)), i < j
                 PROVE  h[i] <= h[j]
      OBVIOUS
    <2>1. CASE j <= Len(s)
      <3>1. i <= Len(s)
        BY <1>1, <2>1
      <3> QED BY <1>3, <1>6, <2>1, <3>1
    <2>2. CASE ~(i <= Len(s))
      <3>1. ~(j <= Len(s)) /\ i - Len(s) < j - Len(s)
        BY <1>1, <2>2
      <3>2. g[i - Len(s)] <= g[j - Len(s)]
        BY <1>4, <1>6, <2>2, <3>1
      <3> QED BY <1>1, <1>6, <2>2, <3>1, <3>2
    <2>3. CASE i <= Len(s) /\ ~(j <= Len(s))
      BY <1>1, <1>5, <1>6, <2>3
    <2> QED BY <2>1, <2>2, <2>3
  <1>10. \A k \in 1..(Len(u) + Len(v)) :
           \/ (u \o v)[k] = "BELOW"
           \/ \E i \in 1..(Len(s) + Len(t)) : k = i + h[i]
    <2> SUFFICES ASSUME NEW k \in 1..(Len(u) + Len(v)), (u \o v)[k] # "BELOW"
                 PROVE  \E i \in 1..(Len(s) + Len(t)) : k = i + h[i]
      OBVIOUS
    <2>1. CASE k <= Len(u)
      <3>1. k \in 1..Len(u) /\ u[k] # "BELOW"
        BY <1>1, <1>2, <2>1
      <3>2. PICK i \in 1..Len(s) : k = i + f[i]
        BY <1>3, <3>1
      <3>3. i \in 1..(Len(s) + Len(t)) /\ i <= Len(s)
        BY <1>1
      <3> QED BY <1>6, <3>2, <3>3
    <2>2. CASE ~(k <= Len(u))
      <3>1. k - Len(u) \in 1..Len(v) /\ v[k - Len(u)] # "BELOW"
        BY <1>1, <1>2, <2>2
      <3>2. PICK i \in 1..Len(t) : k - Len(u) = i + g[i]
        BY <1>4, <3>1
      <3>3. /\ Len(s) + i \in 1..(Len(s) + Len(t)) /\ ~(Len(s) + i <= Len(s))
            /\ (Len(s) + i) - Len(s) = i
        BY <1>1
      <3>4. h[Len(s) + i] = (Len(u) - Len(s)) + g[i]
        BY <1>6, <3>3
      <3>5. g[i] \in 0..(Len(v) - Len(t))
        BY <1>4
      <3>6. k = (Len(s) + i) + h[Len(s) + i]
        <4>1. /\ Len(s) \in Nat /\ Len(u) \in Nat /\ i \in Int /\ k \in Int
              /\ g[i] \in Int
          BY <1>1, <1>5, <3>5
        <4> QED BY ONLY <3>2, <3>4, <4>1
      <3> QED BY <3>3, <3>6
    <2> QED BY <2>1, <2>2
  <1>11. /\ s \o t \in Lists /\ u \o v \in Lists
         /\ Len(s \o t) = Len(s) + Len(t) /\ Len(u \o v) = Len(u) + Len(v)
    BY ConcatLists
  <1>12. \E before \in [1..Len(s \o t) -> 0..(Len(u \o v) - Len(s \o t))] :
           /\ \A i \in 1..Len(s \o t) : (u \o v)[i + before[i]] = (s \o t)[i]
           /\ \A i, j \in 1..Len(s \o t) : i < j => before[i] <= before[j]
           /\ \A k \in 1..Len(u \o v) :
                \/ (u \o v)[k] = "BELOW"
                \/ \E i \in 1..Len(s \o t) : k = i + before[i]
    <2>1. /\ h \in [1..Len(s \o t) -> 0..(Len(u \o v) - Len(s \o t))]
          /\ \A i \in 1..Len(s \o t) : (u \o v)[i + h[i]] = (s \o t)[i]
          /\ \A i, j \in 1..Len(s \o t) : i < j => h[i] <= h[j]
          /\ \A k \in 1..Len(u \o v) :
               \/ (u \o v)[k] = "BELOW"
               \/ \E i \in 1..Len(s \o t) : k = i + h[i]
      BY ONLY <1>7, <1>8, <1>9, <1>10, <1>11, Zenon
    <2> QED BY ONLY <2>1, Zenon
  <1> QED BY <1>11, <1>12, MoreMeans

-----------------------------------------------------------------------------
(* The types. *)

(* What the hooks make of a list of atoms is one. *)
LEMMA RewrittenTyping ==
  ASSUME NEW r \in Requests
  PROVE  Rewritten(r) \in Lists
  <1>1. \A n \in Names : Atom(r.via, n) \in Atoms
    BY DEF Atom, Atoms
  <1>2. /\ Atom(r.via, "DESKTOP") \in Atoms /\ Atom(r.via, "NORMAL") \in Atoms
        /\ Atom(r.via, "BELOW") \in Atoms
    BY <1>1 DEF Names, TypeNames, StateNames
  <1>3. r.data \in Lists
    BY DataTyping
  <1>4. Retyped(r.via, r.data) \in Lists
    BY <1>2, <1>3, MappedTyping DEF Retyped
  <1>5. Append(r.data, Atom(r.via, "BELOW")) \in Lists
    BY <1>2, <1>3, AppendProperties DEF Lists, Atoms
  <1>6. Lowered(r.via, r.data) \in Lists
    BY <1>3, <1>5 DEF Lowered
  <1> QED BY <1>3, <1>4, <1>6 DEF Rewritten

(* The property is changed to a list. *)
LEMMA ChangedTyping ==
  ASSUME NEW old \in Lists, NEW data \in Lists,
         NEW mode \in {"Replace", "Append", "Prepend"}
  PROVE  Changed(old, mode, data) \in Lists
  BY ConcatLists DEF Changed

LEMMA IdleTyping == Idle \in Calls
  <1>1. <<>> \in Lists
    BY EmptySeq DEF Lists
  <1>2. (CHOOSE r \in Requests : TRUE) \in Requests
    BY ShimAssumption
  <1> QED BY <1>1, <1>2 DEF Idle, Calls

(* Moving a thread on leaves its call one. *)
LEMMA GotoTyping ==
  ASSUME TypeOK, NEW t \in Threads, NEW from,
         NEW to \in {"interning", "report", "rewrite", "forward"},
         Goto(t, from, to)
  PROVE  /\ thread' \in [Threads -> Calls]
         /\ thread[t].at = from /\ thread'[t].at = to
         /\ thread'[t].request = thread[t].request
         /\ thread'[t].list = thread[t].list
         /\ \A u \in Threads : u # t => thread'[u] = thread[u]
  <1>1. thread[t] \in Calls /\ thread \in [Threads -> Calls]
    BY DEF TypeOK
  <1>2. [thread[t] EXCEPT !.at = to] \in Calls
    BY <1>1 DEF Calls
  <1>3. thread' = [thread EXCEPT ![t] = [thread[t] EXCEPT !.at = to]]
    BY <1>1 DEF Goto
  <1>4. thread'[t] = [thread[t] EXCEPT !.at = to]
    BY <1>1, <1>3
  <1> QED BY <1>1, <1>2, <1>3, <1>4 DEF Goto, Calls

(* So does beginning a call. *)
LEMMA EnterTyping ==
  ASSUME TypeOK, NEW t \in Threads, Enter(t)
  PROVE  /\ thread' \in [Threads -> Calls]
         /\ \E r \in Requests :
              /\ thread'[t].request = r /\ thread'[t].list = r.data
              /\ thread'[t].at = IF LooksAt(r) THEN "atoms" ELSE "forward"
         /\ \A u \in Threads : u # t => thread'[u] = thread[u]
  <1>1. PICK r \in Requests :
          thread' = [thread EXCEPT ![t] =
                       [at |-> IF LooksAt(r) THEN "atoms" ELSE "forward",
                        request |-> r, list |-> r.data]]
    BY DEF Enter
  <1>2. [at |-> IF LooksAt(r) THEN "atoms" ELSE "forward",
         request |-> r, list |-> r.data] \in Calls
    BY DataTyping DEF Calls
  <1> QED BY <1>1, <1>2 DEF TypeOK

(* And rewriting its list. *)
LEMMA RewriteTyping ==
  ASSUME TypeOK, NEW t \in Threads, Rewrite(t)
  PROVE  /\ thread' \in [Threads -> Calls]
         /\ thread'[t].at \in {"log", "forward"}
         /\ thread'[t].request = thread[t].request
         /\ thread'[t].list = Rewritten(thread[t].request)
         /\ \A u \in Threads : u # t => thread'[u] = thread[u]
  <1> DEFINE r == thread[t].request
             to == IF Rewritten(r) # r.data THEN "log" ELSE "forward"
  <1>1. thread[t] \in Calls /\ thread \in [Threads -> Calls] /\ r \in Requests
    BY DEF TypeOK, Calls
  <1>2. Rewritten(r) \in Lists
    BY <1>1, RewrittenTyping
  <1>3. thread' = [thread EXCEPT ![t] =
                     [thread[t] EXCEPT !.list = Rewritten(r), !.at = to]]
    BY <1>1 DEF Rewrite
  <1>4. [thread[t] EXCEPT !.list = Rewritten(r), !.at = to] \in Calls
    BY <1>1, <1>2 DEF Calls
  <1>5. thread'[t] = [thread[t] EXCEPT !.list = Rewritten(r), !.at = to]
    BY <1>1, <1>3
  <1> QED BY <1>1, <1>3, <1>4, <1>5 DEF Calls

(* And ending it. *)
LEMMA ForwardTyping ==
  ASSUME TypeOK, NEW t \in Threads, Forward(t)
  PROVE  /\ thread' \in [Threads -> Calls]
         /\ thread'[t].at = "idle"
         /\ \A u \in Threads : u # t => thread'[u] = thread[u]
         /\ server' \in [Properties -> Lists]
         /\ wanted' \in [Properties -> Lists]
  <1>1. thread' \in [Threads -> Calls]
    BY IdleTyping DEF Forward, TypeOK
  <1>2. /\ thread[t].request \in Requests /\ thread[t].list \in Lists
        /\ thread[t].request.data \in Lists
        /\ thread[t].request.property \in Properties
        /\ thread[t].request.mode \in {"Replace", "Append", "Prepend"}
    BY DataTyping DEF TypeOK, Calls
  <1> DEFINE p == thread[t].request.property
             m == thread[t].request.mode
  <1>3. /\ Changed(server[p], m, thread[t].list) \in Lists
        /\ Changed(wanted[p], m, thread[t].request.data) \in Lists
    BY <1>2, ChangedTyping DEF TypeOK
  <1>4. server' \in [Properties -> Lists] /\ wanted' \in [Properties -> Lists]
    BY <1>3 DEF Forward, TypeOK
  <1> QED BY <1>1, <1>4 DEF Forward, TypeOK, Idle

(* Every variable keeps its type. *)
LEMMA TypeStep == ASSUME TypeOK, [Next]_vars PROVE TypeOK'
  <1>1. \A w : \A ends \in BOOLEAN :
          (ends \/ w \in Threads) =>
            Written(w, ends) \in [open : {"nobody"} \cup Threads,
                                  torn : BOOLEAN, short : BOOLEAN]
    BY DEF Written, TypeOK
  <1>2. ASSUME NEW t \in Threads, Enter(t) PROVE TypeOK'
    <2>1. thread' \in [Threads -> Calls]
      BY <1>2, EnterTyping
    <2>2. asked' \in 0..MaxRequests
      BY <1>2, ShimAssumption DEF Enter, TypeOK
    <2> QED BY <1>2, <2>1, <2>2 DEF Enter, TypeOK
  <1>3. ASSUME NEW t \in Threads, Guard(t) PROVE TypeOK'
    <2>1. thread' \in [Threads -> Calls]
      BY <1>3, GotoTyping DEF Guard
    <2> QED BY <1>3, <2>1 DEF Guard, TypeOK
  <1>4. ASSUME NEW t \in Threads, Intern(t) PROVE TypeOK'
    <2>1. thread' \in [Threads -> Calls]
      BY <1>4, GotoTyping DEF Intern
    <2>2. PICK known \in SUBSET Names :
            /\ faults + Cardinality(Names \ known) <= MaxFaults
            /\ cache' = [cache EXCEPT ![Via(t)].known = known]
            /\ faults' = faults + Cardinality(Names \ known)
      BY <1>4 DEF Intern
    <2>3. IsFiniteSet(Names)
      <3>1. ASSUME NEW a, NEW b PROVE IsFiniteSet({a, b})
        <4>1. IsFiniteSet({a} \cup {b})
          BY FS_Singleton, FS_AddElement
        <4>2. {a, b} = {a} \cup {b}
          OBVIOUS
        <4> QED BY <4>1, <4>2
      <3>2. IsFiniteSet({"_TYPE", "DESKTOP"} \cup {"NORMAL"})
        BY <3>1, FS_AddElement
      <3>3. Names = ({"_TYPE", "DESKTOP"} \cup {"NORMAL"}) \cup {"_STATE", "BELOW"}
        BY DEF Names, TypeNames, StateNames
      <3> QED BY <3>1, <3>2, <3>3, FS_Union
    <2>4. Cardinality(Names \ known) \in Nat
      BY <2>3, FS_Difference, FS_CardinalityType
    <2>5. faults' \in 0..MaxFaults
      BY <2>2, <2>4, ShimAssumption DEF TypeOK
    <2>6. cache' \in [Vias -> [guard : {"open", "done"} \cup Threads,
                               known : SUBSET Names]]
      BY <2>2 DEF TypeOK
    <2> QED BY <1>4, <2>1, <2>5, <2>6 DEF Intern, TypeOK
  <1>5. ASSUME NEW t \in Threads, FindAtoms(t) PROVE TypeOK'
    <2>1. thread' \in [Threads -> Calls]
      BY <1>5, GotoTyping DEF FindAtoms
    <2> QED BY <1>5, <2>1 DEF FindAtoms, TypeOK
  <1>6. ASSUME NEW t \in Threads, Rewrite(t) PROVE TypeOK'
    BY <1>6, RewriteTyping DEF Rewrite, TypeOK
  <1>a. ASSUME NEW t \in Threads, LineDone(t)
        PROVE  /\ thread' \in [Threads -> Calls]
               /\ cache' \in [Vias -> [guard : {"open", "done"} \cup Threads,
                                       known : SUBSET Names]]
    BY <1>a, GotoTyping DEF LineDone, TypeOK
  <1>7. ASSUME NEW t \in Threads, WriteLine(t) PROVE TypeOK'
    BY <1>7, <1>a, <1>1 DEF WriteLine, TypeOK
  <1>8. ASSUME NEW t \in Threads, WriteShort(t) PROVE TypeOK'
    <2>1. log' \in [open : {"nobody"} \cup Threads,
                    torn : BOOLEAN, short : BOOLEAN]
      <3>1. Written(t, FALSE) \in [open : {"nobody"} \cup Threads,
                                   torn : BOOLEAN, short : BOOLEAN]
        BY <1>1
      <3> QED BY <1>8, <3>1 DEF WriteShort
    <2>2. faults' \in 0..MaxFaults
      BY <1>8, ShimAssumption DEF WriteShort, TypeOK
    <2> QED BY <1>8, <2>1, <2>2 DEF WriteShort, TypeOK
  <1>9. ASSUME NEW t \in Threads, WriteFails(t) PROVE TypeOK'
    BY <1>9, <1>a, ShimAssumption DEF WriteFails, TypeOK
  <1>10. ASSUME NEW t \in Threads, Forward(t) PROVE TypeOK'
    BY <1>10, ForwardTyping DEF Forward, TypeOK
  <1>11. CASE OtherLine
    BY <1>11, <1>1 DEF OtherLine, TypeOK
  <1>12. CASE UNCHANGED vars
    BY <1>12 DEF vars, TypeOK
  <1> QED BY <1>2, <1>3, <1>4, <1>5, <1>6, <1>7, <1>8, <1>9, <1>10, <1>11,
             <1>12 DEF Next, Hook

(* peony-alpha.cpp: the state of the hooks, of the window and of the log   *)
(* stays well formed, for any threads, changes and buffers.                *)
THEOREM TypeCorrect == Spec => []TypeOK
  <1>1. Init => TypeOK
    <2> SUFFICES ASSUME Init PROVE TypeOK
      OBVIOUS
    <2>1. <<>> \in Lists
      BY EmptySeq DEF Lists
    <2> QED BY <2>1, IdleTyping, ShimAssumption DEF Init, TypeOK
  <1>2. TypeOK /\ [Next]_vars => TypeOK'
    BY TypeStep
  <1> QED BY <1>1, <1>2, PTL DEF Spec

-----------------------------------------------------------------------------
(* The threads and their atoms. *)

(* A thread past the start of a hook has a change that the hooks look at;  *)
(* the one that interns the atoms holds the guard, and who uses them came  *)
(* after it; what is forwarded is rewritten with them, or as it was.       *)
ThreadInv(t) ==
  LET r == thread[t].request
      guard == cache[thread[t].request.via].guard
  IN
  /\ thread[t].at \notin {"idle", "forward"} => LooksAt(r)
  /\ thread[t].at \in {"interning", "report"} => guard = t
  /\ thread[t].at = "rewrite" => guard = "done"
  /\ thread[t].at \in {"log", "forward"} =>
       IF LooksAt(r) THEN guard = "done" /\ thread[t].list = Rewritten(r)
                     ELSE thread[t].list = r.data

ThreadsInv == \A t \in Threads : ThreadInv(t)

(* What a step of t's leaves to the other threads: theirs, and the atoms   *)
(* but those of a hook whose guard is free or t's.                         *)
StepOf(t) ==
  /\ enabled' = enabled
  /\ \A u \in Threads : u # t => thread'[u] = thread[u]
  /\ \A v \in Vias :
       cache'[v] = cache[v] \/ (v = Via(t) /\ cache[v].guard \in {"open", t})

(* Rewriting depends on nothing but the atoms. *)
LEMMA SameAtoms ==
  ASSUME NEW r \in Requests, cache'[r.via] = cache[r.via]
  PROVE  Rewritten(r)' = Rewritten(r)
  BY DEF Rewritten, Retyped, Lowered, Atom

(* The other threads are where they were. *)
LEMMA OthersStay ==
  ASSUME TypeOK, ThreadsInv, NEW t \in Threads, StepOf(t),
         NEW u \in Threads, u # t
  PROVE  ThreadInv(u)'
  <1>1. thread'[u] = thread[u] /\ thread[u].request \in Requests
    BY DEF StepOf, TypeOK, Calls
  <1>2. ThreadInv(u)
    BY DEF ThreadsInv
  <1>3. thread[u].request.via \in Vias
    BY <1>1, DataTyping
  <1>4. LooksAt(thread[u].request)' = LooksAt(thread[u].request)
    BY <1>1 DEF StepOf, LooksAt
  <1> DEFINE r == thread[u].request
  <1>5. CASE cache'[r.via] = cache[r.via]
    <2>1. Rewritten(r)' = Rewritten(r)
      BY <1>1, <1>5, SameAtoms
    <2> QED BY <1>1, <1>2, <1>4, <1>5, <2>1 DEF ThreadInv
  <1>6. CASE cache'[r.via] # cache[r.via]
    <2>1. cache[r.via].guard \notin {"done", u}
      BY <1>3, <1>6, ShimAssumption DEF StepOf
    <2> QED BY <1>1, <1>2, <1>4, <2>1 DEF ThreadInv
  <1> QED BY <1>5, <1>6

(* Every thread keeps its place in the protocol of the guard, and nothing  *)
(* but the thread that has the guard changes the atoms of a hook.          *)
LEMMA ThreadStep ==
  ASSUME TypeOK, ThreadsInv, NEW t \in Threads, Enter(t) \/ Hook(t)
  PROVE  StepOf(t) /\ ThreadsInv'
  <1> USE DEF ThreadInv
  <1>0. /\ ThreadInv(t) /\ thread[t].request \in Requests
        /\ thread[t].request.via \in Vias /\ Via(t) = thread[t].request.via
        /\ cache[Via(t)] \in [guard : {"open", "done"} \cup Threads,
                              known : SUBSET Names]
    BY DataTyping DEF ThreadsInv, TypeOK, Calls, Via
  <1>a. ASSUME StepOf(t), ThreadInv(t)' PROVE ThreadsInv'
    BY <1>a, OthersStay DEF ThreadsInv
  <1>1. ASSUME Enter(t) PROVE StepOf(t) /\ ThreadInv(t)'
    <2>1. StepOf(t)
      BY <1>1, EnterTyping DEF Enter, StepOf
    <2>2. PICK r \in Requests :
            /\ thread'[t].request = r /\ thread'[t].list = r.data
            /\ thread'[t].at = IF LooksAt(r) THEN "atoms" ELSE "forward"
      BY <1>1, EnterTyping
    <2>3. LooksAt(r)' <=> LooksAt(r)
      BY <2>1 DEF StepOf, LooksAt
    <2>4. LooksAt(thread[t].request)' <=> LooksAt(r)
      BY <2>2, <2>3 DEF LooksAt
    <2> QED BY <2>1, <2>2, <2>4
  <1>2. ASSUME Guard(t) PROVE StepOf(t) /\ ThreadInv(t)'
    <2>1. StepOf(t)
      BY <1>2, GotoTyping DEF Guard, StepOf, TypeOK
    <2>2. /\ thread'[t].at = "interning" /\ thread[t].at = "atoms"
          /\ thread'[t].request = thread[t].request
      BY <1>2, GotoTyping DEF Guard
    <2>3. cache'[Via(t)].guard = t
      BY <1>0, <1>2 DEF Guard, TypeOK
    <2> QED BY <1>0, <2>1, <2>2, <2>3 DEF StepOf, LooksAt
  <1>3. ASSUME Intern(t) PROVE StepOf(t) /\ ThreadInv(t)'
    <2>1. /\ thread'[t].at = "report" /\ thread[t].at = "interning"
          /\ thread'[t].request = thread[t].request
          /\ \A u \in Threads : u # t => thread'[u] = thread[u]
      BY <1>3, GotoTyping DEF Intern
    <2>2. PICK known \in SUBSET Names :
            cache' = [cache EXCEPT ![Via(t)].known = known]
      BY <1>3 DEF Intern
    <2>3. cache'[Via(t)].guard = t /\ cache[Via(t)].guard = t
      BY <1>0, <2>1, <2>2 DEF TypeOK
    <2>4. StepOf(t)
      BY <1>3, <2>1, <2>2, <2>3 DEF Intern, StepOf, TypeOK
    <2> QED BY <1>0, <2>1, <2>3, <2>4 DEF StepOf, LooksAt
  <1>4. ASSUME FindAtoms(t) PROVE StepOf(t) /\ ThreadInv(t)'
    <2>1. /\ thread'[t].at = "rewrite" /\ thread[t].at = "atoms"
          /\ thread'[t].request = thread[t].request
          /\ StepOf(t) /\ cache' = cache /\ cache[Via(t)].guard = "done"
      BY <1>4, GotoTyping DEF FindAtoms, StepOf
    <2> QED BY <1>0, <2>1 DEF StepOf, LooksAt
  <1>5. ASSUME Rewrite(t) PROVE StepOf(t) /\ ThreadInv(t)'
    <2>1. /\ thread[t].at = "rewrite" /\ thread'[t].at \in {"log", "forward"}
          /\ thread'[t].request = thread[t].request
          /\ thread'[t].list = Rewritten(thread[t].request)
          /\ StepOf(t) /\ cache' = cache
      BY <1>5, RewriteTyping DEF Rewrite, StepOf
    <2>2. Rewritten(thread[t].request)' = Rewritten(thread[t].request)
      BY <2>1 DEF Rewritten, Retyped, Lowered, Atom
    <2> QED BY <1>0, <2>1, <2>2 DEF StepOf, LooksAt
  <1>6. ASSUME LineDone(t), enabled' = enabled PROVE StepOf(t) /\ ThreadInv(t)'
    <2>1. CASE /\ Goto(t, "report", "rewrite")
               /\ cache' = [cache EXCEPT ![Via(t)].guard = "done"]
      <3>1. /\ thread[t].at = "report" /\ thread'[t].at = "rewrite"
            /\ thread'[t].request = thread[t].request
            /\ \A u \in Threads : u # t => thread'[u] = thread[u]
        BY <2>1, GotoTyping
      <3>2. cache'[Via(t)].guard = "done" /\ cache[Via(t)].guard = t
        BY <1>0, <2>1, <3>1 DEF TypeOK
      <3>3. StepOf(t)
        BY <1>6, <2>1, <3>1, <3>2 DEF StepOf, TypeOK
      <3> QED BY <1>0, <3>1, <3>2, <3>3 DEF StepOf, LooksAt
    <2>2. CASE Goto(t, "log", "forward") /\ UNCHANGED cache
      <3>1. /\ thread[t].at = "log" /\ thread'[t].at = "forward"
            /\ thread'[t].request = thread[t].request
            /\ thread'[t].list = thread[t].list
            /\ StepOf(t) /\ cache' = cache
        BY <1>6, <2>2, GotoTyping DEF StepOf
      <3>2. Rewritten(thread[t].request)' = Rewritten(thread[t].request)
        BY <3>1 DEF Rewritten, Retyped, Lowered, Atom
      <3> QED BY <1>0, <3>1, <3>2 DEF StepOf, LooksAt
    <2> QED BY <1>6, <2>1, <2>2 DEF LineDone
  <1>7. ASSUME WriteShort(t) PROVE StepOf(t) /\ ThreadInv(t)'
    <2>1. thread' = thread /\ cache' = cache /\ enabled' = enabled
      BY <1>7 DEF WriteShort
    <2> QED BY <1>0, <2>1
            DEF StepOf, LooksAt, Rewritten, Retyped, Lowered, Atom
  <1>8. ASSUME Forward(t) PROVE StepOf(t) /\ ThreadInv(t)'
    <2>1. thread'[t].at = "idle" /\ StepOf(t)
      BY <1>8, ForwardTyping DEF Forward, StepOf
    <2> QED BY <2>1
  <1>9. WriteLine(t) \/ WriteFails(t) => LineDone(t) /\ enabled' = enabled
    BY DEF WriteLine, WriteFails
  <1> QED BY <1>a, <1>1, <1>2, <1>3, <1>4, <1>5, <1>6, <1>7, <1>8, <1>9
          DEF Hook

-----------------------------------------------------------------------------
(* What arrives at the X server. *)

(* NeverDesktop and StaysBelow, of a list asked for and the one sent.      *)
TypesArrive(asking, sent) ==
  /\ enabled /\ Interned(TypeNames) /\ Len(asking) <= MaxAtoms =>
       sent = Normal(asking)
  /\ ~enabled \/ ~Contains(asking, "DESKTOP") => sent = asking

StatesArrive(asking, sent) ==
  /\ ~enabled => sent = asking
  /\ enabled /\ Interned(StateNames) =>
       /\ Len(asking) \in 1..(MaxAtoms - 1) => Contains(sent, "BELOW")
       /\ WithMoreBelow(asking, sent)

(* Atoms that are interned stay so, and those of a hook that is done with  *)
(* them stay as they are.                                                  *)
LEMMA InternedBefore ==
  ASSUME NEW t \in Threads, StepOf(t), NEW names, Interned(names)'
  PROVE  Interned(names)
  BY ShimAssumption DEF StepOf, Interned

(* A list is itself with nothing added. *)
LEMMA MoreOfItself ==
  ASSUME NEW list \in Lists PROVE WithMoreBelow(list, list)
  <1>1. Len(list) \in Nat
    BY LenProperties DEF Lists
  <1> DEFINE f == [i \in 1..Len(list) |-> 0]
  <1>2. /\ f \in [1..Len(list) -> 0..(Len(list) - Len(list))]
        /\ \A i \in 1..Len(list) : f[i] = 0 /\ i + f[i] = i
    BY <1>1
  <1> HIDE DEF f
  <1> QED BY <1>2, MoreMeans

(* A list with BELOW at its end is the list with BELOW added. *)
LEMMA MoreAtTheEnd ==
  ASSUME NEW list \in Lists
  PROVE  /\ WithMoreBelow(list, Append(list, "BELOW"))
         /\ Contains(Append(list, "BELOW"), "BELOW")
  <1>1. "BELOW" \in Atoms
    BY DEF Atoms, Names, StateNames
  <1>2. /\ Len(list) \in Nat
        /\ Append(list, "BELOW") \in Lists
        /\ Len(Append(list, "BELOW")) = Len(list) + 1
        /\ \A i \in 1..Len(list) : Append(list, "BELOW")[i] = list[i]
        /\ Append(list, "BELOW")[Len(list) + 1] = "BELOW"
    BY <1>1, LenProperties, AppendProperties DEF Lists, Atoms
  <1> DEFINE f == [i \in 1..Len(list) |-> 0]
  <1>3. /\ f \in [1..Len(list) -> 0..(Len(Append(list, "BELOW")) - Len(list))]
        /\ \A i \in 1..Len(list) : f[i] = 0 /\ i + f[i] = i
    BY <1>2
  <1> HIDE DEF f
  <1>4. \A k \in 1..Len(Append(list, "BELOW")) :
          k = Len(list) + 1 \/ k \in 1..Len(list)
    BY <1>2
  <1>5. WithMoreBelow(list, Append(list, "BELOW"))
    <2>1. \A i \in 1..Len(list) : Append(list, "BELOW")[i + f[i]] = list[i]
      BY <1>2, <1>3
    <2>2. \A i, j \in 1..Len(list) : i < j => f[i] <= f[j]
      BY <1>3
    <2>3. \A k \in 1..Len(Append(list, "BELOW")) :
            \/ Append(list, "BELOW")[k] = "BELOW"
            \/ \E i \in 1..Len(list) : k = i + f[i]
      BY <1>2, <1>3, <1>4
    <2> QED BY <1>2, <1>3, <2>1, <2>2, <2>3, MoreMeans
  <1> QED BY <1>2, <1>5 DEF Contains

(* What is forwarded of types. *)
LEMMA TypesForwarded ==
  ASSUME TypeOK, ThreadsInv, NEW t \in Threads, thread[t].at = "forward",
         thread[t].request.property = "_TYPE"
  PROVE  TypesArrive(thread[t].request.data, thread[t].list)
  <1> DEFINE r == thread[t].request
             list == thread[t].list
  <1>1. /\ r \in Requests /\ r.via \in Vias /\ r.data \in Lists
        /\ \A k \in DOMAIN r.data : r.data[k] # Zero
        /\ Len(r.data) \in Nat /\ DOMAIN r.data = 1..Len(r.data)
    BY DataTyping, LenProperties DEF TypeOK, Calls, Lists
  <1>2. IF LooksAt(r) THEN cache[r.via].guard = "done" /\ list = Rewritten(r)
                      ELSE list = r.data
    BY DEF ThreadsInv, ThreadInv
  <1>3. CASE ~LooksAt(r)
    <2>1. list = r.data
      BY <1>2, <1>3
    <2>2. enabled => Len(r.data) = 0 \/ Len(r.data) > MaxAtoms
      BY <1>1, <1>3, ShimAssumption DEF LooksAt
    <2>3. Len(r.data) = 0 => Normal(r.data) = r.data
      BY <1>1, NormalTyping, SeqEqual DEF Lists
    <2> QED BY <1>1, <2>1, <2>2, <2>3, ShimAssumption DEF TypesArrive
  <1>4. CASE LooksAt(r)
    <2>1. list = Rewritten(r) /\ cache[r.via].guard = "done"
      BY <1>2, <1>4
    <2>2. Atom(r.via, "_STATE") # "_TYPE"
      BY DEF Atom, Zero
    <2>3. Rewritten(r) = IF "_TYPE" = Atom(r.via, "_TYPE")
                           THEN Retyped(r.via, r.data) ELSE r.data
      BY <2>2 DEF Rewritten
    <2>4. ASSUME Interned(TypeNames) PROVE list = Normal(r.data)
      <3>1. /\ Atom(r.via, "_TYPE") = "_TYPE"
            /\ Atom(r.via, "DESKTOP") = "DESKTOP"
            /\ Atom(r.via, "NORMAL") = "NORMAL"
        BY <1>1, <2>1, <2>4 DEF Interned, TypeNames, Atom
      <3> QED BY <2>1, <2>3, <3>1 DEF Retyped, Normal
    <2>5. ASSUME ~Contains(r.data, "DESKTOP") PROVE list = r.data
      <3>1. \A k \in DOMAIN r.data : r.data[k] # Atom(r.via, "DESKTOP")
        BY <1>1, <2>5 DEF Contains, Atom
      <3>2. Retyped(r.via, r.data) = [k \in DOMAIN r.data |-> r.data[k]]
        BY <3>1 DEF Retyped
      <3>3. r.data = [k \in DOMAIN r.data |-> r.data[k]]
        BY <1>1, LenProperties DEF Lists
      <3> QED BY <2>1, <2>3, <3>2, <3>3
    <2> QED BY <1>4, <2>4, <2>5 DEF TypesArrive, LooksAt
  <1> QED BY <1>3, <1>4

(* What is forwarded of states. *)
LEMMA StatesForwarded ==
  ASSUME TypeOK, ThreadsInv, NEW t \in Threads, thread[t].at = "forward",
         thread[t].request.property = "_STATE"
  PROVE  StatesArrive(thread[t].request.data, thread[t].list)
  <1> DEFINE r == thread[t].request
             list == thread[t].list
  <1>1. /\ r \in Requests /\ r.via \in Vias /\ r.data \in Lists
        /\ Len(r.data) \in Nat
    BY DataTyping, LenProperties DEF TypeOK, Calls, Lists
  <1>2. IF LooksAt(r) THEN cache[r.via].guard = "done" /\ list = Rewritten(r)
                      ELSE list = r.data
    BY DEF ThreadsInv, ThreadInv
  <1>3. CASE ~LooksAt(r)
    <2>1. list = r.data
      BY <1>2, <1>3
    <2>2. enabled => Len(r.data) \notin 1..(MaxAtoms - 1)
      BY <1>1, <1>3, ShimAssumption DEF LooksAt
    <2> QED BY <1>1, <2>1, <2>2, MoreOfItself DEF StatesArrive
  <1>4. CASE LooksAt(r)
    <2>1. list = Rewritten(r) /\ cache[r.via].guard = "done" /\ enabled
      BY <1>2, <1>4 DEF LooksAt
    <2>2. SUFFICES ASSUME Interned(StateNames)
                   PROVE  /\ Len(r.data) \in 1..(MaxAtoms - 1) =>
                               Contains(list, "BELOW")
                          /\ WithMoreBelow(r.data, list)
      BY <2>1 DEF StatesArrive
    <2>3. /\ Atom(r.via, "_TYPE") # "_STATE"
          /\ Atom(r.via, "_STATE") = "_STATE"
          /\ Atom(r.via, "BELOW") = "BELOW"
      BY <1>1, <2>1, <2>2 DEF Interned, StateNames, Atom, Zero
    <2>4. list = Lowered(r.via, r.data)
      BY <2>1, <2>3 DEF Rewritten
    <2>5. list = IF \/ Contains(r.data, "BELOW")
                    \/ r.via = "xcb" /\ Len(r.data) = MaxAtoms
                   THEN r.data ELSE Append(r.data, "BELOW")
      BY <2>3, <2>4 DEF Lowered
    <2>6. Len(r.data) \in 1..(MaxAtoms - 1) => Len(r.data) # MaxAtoms
      BY <1>1, ShimAssumption
    <2> QED BY <1>1, <2>5, <2>6, MoreOfItself, MoreAtTheEnd
  <1> QED BY <1>3, <1>4

(* Both go over to concatenations. *)
LEMMA TypesJoined ==
  ASSUME NEW a \in Lists, NEW s \in Lists, NEW b \in Lists, NEW t \in Lists,
         TypesArrive(a, s), TypesArrive(b, t)
  PROVE  TypesArrive(a \o b, s \o t)
  <1>1. Len(a \o b) = Len(a) + Len(b) /\ Len(a) \in Nat /\ Len(b) \in Nat
    BY ConcatLists
  <1>2. Len(a \o b) <= MaxAtoms => Len(a) <= MaxAtoms /\ Len(b) <= MaxAtoms
    BY <1>1, ShimAssumption
  <1> QED BY <1>2, NormalConcat, ConcatContains DEF TypesArrive

LEMMA StatesJoined ==
  ASSUME NEW a \in Lists, NEW s \in Lists, NEW b \in Lists, NEW t \in Lists,
         StatesArrive(a, s), StatesArrive(b, t)
  PROVE  StatesArrive(a \o b, s \o t)
  <1>1. Len(a \o b) = Len(a) + Len(b) /\ Len(a) \in Nat /\ Len(b) \in Nat
    BY ConcatLists
  <1>2. Len(a \o b) \in 1..(MaxAtoms - 1) =>
          Len(a) \in 1..(MaxAtoms - 1) \/ Len(b) \in 1..(MaxAtoms - 1)
    BY <1>1, ShimAssumption
  <1> QED BY <1>2, MoreConcat, ConcatContains DEF StatesArrive

(* The window has the types and states it should.                          *)
LEMMA ArrivalStep ==
  ASSUME TypeOK, ThreadsInv, NeverDesktop, StaysBelow, [Next]_vars
  PROVE  NeverDesktop' /\ StaysBelow'
  <1>1. /\ TypesArrive(wanted["_TYPE"], server["_TYPE"])
        /\ StatesArrive(wanted["_STATE"], server["_STATE"])
    BY DEF NeverDesktop, StaysBelow, TypesArrive, StatesArrive, Normal
  <1>2. ASSUME NEW t \in Threads, StepOf(t),
               TypesArrive(wanted'["_TYPE"], server'["_TYPE"]),
               StatesArrive(wanted'["_STATE"], server'["_STATE"])
        PROVE  NeverDesktop' /\ StaysBelow'
    <2>1. /\ enabled' = enabled
          /\ Interned(TypeNames)' => Interned(TypeNames)
          /\ Interned(StateNames)' => Interned(StateNames)
      BY <1>2, InternedBefore DEF StepOf
    <2>2. NeverDesktop'
      BY <1>2, <2>1 DEF TypesArrive, NeverDesktop, Normal
    <2>3. StaysBelow'
      BY <1>2, <2>1 DEF StatesArrive, StaysBelow
    <2> QED BY <2>2, <2>3
  <1>3. ASSUME NEW t \in Threads, Forward(t) PROVE NeverDesktop' /\ StaysBelow'
    <2> DEFINE r == thread[t].request
               list == thread[t].list
    <2>1. StepOf(t)
      BY <1>3, ThreadStep DEF Hook
    <2>2. /\ r \in Requests /\ list \in Lists /\ r.data \in Lists
          /\ r.property \in {"_TYPE", "_STATE"}
          /\ r.mode \in {"Replace", "Append", "Prepend"}
          /\ wanted \in [Properties -> Lists] /\ server \in [Properties -> Lists]
          /\ thread[t].at = "forward"
      BY <1>3, DataTyping DEF TypeOK, Calls, Properties, Forward
    <2>3. /\ wanted["_TYPE"] \in Lists /\ server["_TYPE"] \in Lists
          /\ wanted["_STATE"] \in Lists /\ server["_STATE"] \in Lists
      BY <2>2 DEF Properties
    <2>4. CASE r.property = "_TYPE"
      <3>1. /\ server'["_TYPE"] = Changed(server["_TYPE"], r.mode, list)
            /\ wanted'["_TYPE"] = Changed(wanted["_TYPE"], r.mode, r.data)
            /\ server'["_STATE"] = server["_STATE"]
            /\ wanted'["_STATE"] = wanted["_STATE"]
        BY <1>3, <2>2, <2>4 DEF Forward, Properties
      <3>2. TypesArrive(r.data, list)
        BY <2>2, <2>4, TypesForwarded
      <3>3. TypesArrive(wanted'["_TYPE"], server'["_TYPE"])
        BY <1>1, <2>2, <2>3, <3>1, <3>2, TypesJoined DEF Changed
      <3> QED BY <1>1, <1>2, <2>1, <3>1, <3>3
    <2>5. CASE r.property = "_STATE"
      <3>1. /\ server'["_STATE"] = Changed(server["_STATE"], r.mode, list)
            /\ wanted'["_STATE"] = Changed(wanted["_STATE"], r.mode, r.data)
            /\ server'["_TYPE"] = server["_TYPE"]
            /\ wanted'["_TYPE"] = wanted["_TYPE"]
        BY <1>3, <2>2, <2>5 DEF Forward, Properties
      <3>2. StatesArrive(r.data, list)
        BY <2>2, <2>5, StatesForwarded
      <3>3. StatesArrive(wanted'["_STATE"], server'["_STATE"])
        BY <1>1, <2>2, <2>3, <3>1, <3>2, StatesJoined DEF Changed
      <3> QED BY <1>1, <1>2, <2>1, <3>1, <3>3
    <2> QED BY <2>2, <2>4, <2>5
  <1>4. ASSUME NEW t \in Threads, Enter(t) \/ Hook(t), ~Forward(t)
        PROVE  NeverDesktop' /\ StaysBelow'
    <2>1. StepOf(t)
      BY <1>4, ThreadStep
    <2>2. server' = server /\ wanted' = wanted
      BY <1>4 DEF Hook, Enter, Guard, Intern, FindAtoms, Rewrite, WriteLine,
                  WriteShort, WriteFails
    <2> QED BY <1>1, <1>2, <2>1, <2>2
  <1>5. CASE OtherLine \/ UNCHANGED vars
    <2>1. /\ enabled' = enabled /\ cache' = cache
          /\ server' = server /\ wanted' = wanted
      BY <1>5 DEF OtherLine, vars
    <2>2. /\ Interned(TypeNames)' <=> Interned(TypeNames)
          /\ Interned(StateNames)' <=> Interned(StateNames)
      BY <2>1 DEF Interned
    <2>3. NeverDesktop'
      BY <1>1, <2>1, <2>2 DEF TypesArrive, NeverDesktop, Normal
    <2>4. StaysBelow'
      BY <1>1, <2>1, <2>2 DEF StatesArrive, StaysBelow
    <2> QED BY <2>3, <2>4
  <1> QED BY <1>3, <1>4, <1>5 DEF Next

(* What holds of the hooks in every state. *)
LEMMA HooksInvariant == Spec => [](ThreadsInv /\ NeverDesktop /\ StaysBelow)
  <1>1. Init => ThreadsInv /\ NeverDesktop /\ StaysBelow
    <2> SUFFICES ASSUME Init PROVE ThreadsInv /\ NeverDesktop /\ StaysBelow
      OBVIOUS
    <2>1. ThreadsInv
      BY DEF Init, ThreadsInv, ThreadInv, Idle
    <2>2. /\ server["_TYPE"] = <<>> /\ wanted["_TYPE"] = <<>>
          /\ server["_STATE"] = <<>> /\ wanted["_STATE"] = <<>>
          /\ <<>> \in Lists /\ Len(<<>>) = 0
      BY EmptySeq DEF Init, Properties, Lists
    <2>3. Normal(<<>>) = <<>>
      <3>1. Normal(<<>>) \in Lists /\ Len(Normal(<<>>)) = 0
        BY <2>2, NormalTyping
      <3> QED BY <3>1, EmptySeq DEF Lists
    <2>4. NeverDesktop
      BY <2>2, <2>3 DEF NeverDesktop, Normal
    <2>5. StaysBelow
      BY <2>2, MoreOfItself, ShimAssumption DEF StaysBelow
    <2> QED BY <2>1, <2>4, <2>5
  <1>2. /\ TypeOK /\ ThreadsInv /\ NeverDesktop /\ StaysBelow
        /\ [Next]_vars
        => ThreadsInv' /\ NeverDesktop' /\ StaysBelow'
    <2> SUFFICES ASSUME TypeOK, ThreadsInv, NeverDesktop, StaysBelow,
                        [Next]_vars
                 PROVE  ThreadsInv'
      BY ArrivalStep
    <2>1. CASE OtherLine \/ UNCHANGED vars
      <3>1. thread' = thread /\ cache' = cache /\ enabled' = enabled
        BY <2>1 DEF OtherLine, vars
      <3>2. \A t \in Threads :
              /\ Rewritten(thread[t].request)' = Rewritten(thread[t].request)
              /\ LooksAt(thread[t].request)' <=> LooksAt(thread[t].request)
        BY <3>1 DEF Rewritten, Retyped, Lowered, Atom, LooksAt
      <3> QED BY <3>1, <3>2 DEF ThreadsInv, ThreadInv
    <2> QED BY <2>1, ThreadStep DEF Next
  <1> QED BY <1>1, <1>2, TypeCorrect, PTL DEF Spec

(* peony-alpha.cpp:27-33, :40 and :303: for any threads, changes and size  *)
(* of the buffer, no DESKTOP type gets past the hooks once their atoms are *)
(* interned, and nothing else is changed.                                  *)
THEOREM NoDesktopPasses == Spec => []NeverDesktop
  BY HooksInvariant, PTL

(* peony-alpha.cpp:34-36: and the window stays below, with every state it  *)
(* was given.                                                              *)
THEOREM WindowStaysBelow == Spec => []StaysBelow
  BY HooksInvariant, PTL

-----------------------------------------------------------------------------
(* The log. *)

(* Only a short write leaves a line open. *)
OpenInv == log.open # "nobody" => log.short

(* peony-alpha.cpp:124-125: a line is torn only after a short write, for   *)
(* any number of threads and lines of other processes.                     *)
THEOREM LinesAreWhole == Spec => []LinesWhole
  <1>1. Init => OpenInv /\ LinesWhole
    BY DEF Init, OpenInv, LinesWhole
  <1>2. TypeOK /\ OpenInv /\ LinesWhole /\ [Next]_vars => OpenInv' /\ LinesWhole'
    <2> SUFFICES ASSUME TypeOK, OpenInv, LinesWhole, [Next]_vars
                 PROVE  OpenInv' /\ LinesWhole'
      OBVIOUS
    <2> USE DEF OpenInv, LinesWhole, TypeOK
    <2>1. ASSUME NEW t \in Threads, WriteShort(t) PROVE OpenInv' /\ LinesWhole'
      <3>1. log'.short
        BY <2>1 DEF WriteShort, Written
      <3> QED BY <3>1
    <2>2. ASSUME NEW w, log' = Written(w, TRUE) PROVE OpenInv' /\ LinesWhole'
      <3>1. /\ log'.open = "nobody" /\ log'.short = log.short
            /\ log'.torn => log.torn \/ log.open # "nobody"
        BY <2>2 DEF Written
      <3> QED BY <3>1
    <2>3. ASSUME UNCHANGED log PROVE OpenInv' /\ LinesWhole'
      BY <2>3
    <2> QED BY <2>1, <2>2, <2>3
            DEF Next, Enter, Hook, Guard, Intern, FindAtoms, Rewrite, WriteLine,
                WriteFails, Forward, OtherLine, vars
  <1> QED BY <1>1, <1>2, TypeCorrect, PTL DEF Spec
=============================================================================
