----------------------------- MODULE XReplyProofs -----------------------------
(***************************************************************************)
(* Ownership of replies, for any number of requests: however the wrappers  *)
(* are created, copied, assigned, taken from and destroyed, whatever the   *)
(* server answers and whenever the connection breaks, every reply has      *)
(* exactly the owners it needs.                                            *)
(***************************************************************************)
EXTENDS XReply, FiniteSetTheorems, TLAPS

Wrapper == [live : BOOLEAN, retrieved : BOOLEAN,
            cookie : Numbers \cup {0}, reply : Numbers \cup {0}]
Reply == [state : {"unused", "wanted", "memory", "taken", "freed", "discarded",
                   "error"}, data : Data]

(* s has yet to fetch reply n, or has it. *)
Waits(s, n) == ~Retrieved(wrapper[s]) /\ wrapper[s].cookie = n
Holds(s, n) == wrapper[s].reply = n

(* A wrapper that waits holds nothing, and one that is not there neither.  *)
WrapperInv ==
  \A s \in Slots :
    /\ ~wrapper[s].live => Retrieved(wrapper[s]) /\ wrapper[s].reply = 0
    /\ ~Retrieved(wrapper[s]) => wrapper[s].reply = 0

(* No number is in use before it has been given out. *)
NumberInv == \A n \in Numbers : n >= next => replies[n].state = "unused"

(* A reply is wanted, or in memory, exactly if a wrapper waits for it, or  *)
(* has it; and that is one wrapper.                                        *)
OwnerInv ==
  \A n \in Numbers :
    /\ replies[n].state = "wanted" <=> \E s \in Slots : Waits(s, n)
    /\ replies[n].state = "memory" <=> \E s \in Slots : Holds(s, n)
    /\ \A s, t \in Slots : Waits(s, n) /\ Waits(t, n) => s = t
    /\ \A s, t \in Slots : Holds(s, n) /\ Holds(t, n) => s = t

(* What the functions have not asked for yet. *)
AbsentAt(at) ==
  CASE at \in {"idle", "root", "askPrimary", "done"} -> Slots
    [] at \in {"testPrimary", "usePrimary", "askOutput"} -> {"output", "crtc"}
    [] at \in {"testOutput", "name", "askCrtc"} -> {"crtc"}
    [] OTHER -> {}

CallInv == \A s \in AbsentAt(call.at) : ~wrapper[s].live

MemoryInv ==
  /\ wrapper \in [Slots -> Wrapper]
  /\ replies \in [Numbers -> Reply]
  /\ next \in 1..(MaxRequests + 1)
  /\ WrapperInv /\ NumberInv /\ OwnerInv

IInv == TypeOK /\ MemoryInv /\ CallInv

-----------------------------------------------------------------------------
(* The operations of a wrapper. *)

(* What the constructors leave. *)
LEMMA Constructed ==
  /\ Default = [live |-> TRUE, retrieved |-> FALSE, cookie |-> 0, reply |-> 0]
  /\ \A n \in Numbers : [Default EXCEPT !.cookie = n] =
       [live |-> TRUE, retrieved |-> FALSE, cookie |-> n, reply |-> 0]
  <1>1. \A w \in Wrapper, yes \in BOOLEAN :
          [w EXCEPT !.live = yes] = [live |-> yes, retrieved |-> w.retrieved,
                                     cookie |-> w.cookie, reply |-> w.reply]
    BY DEF Wrapper
  <1>2. \A w \in Wrapper, n \in Numbers :
          [w EXCEPT !.cookie = n] = [live |-> w.live, retrieved |-> w.retrieved,
                                     cookie |-> n, reply |-> w.reply]
    BY DEF Wrapper
  <1>3. Dead \in Wrapper /\ Dead.cookie = 0 /\ Dead.reply = 0 /\ Dead.retrieved = FALSE
    BY DEF Dead, Wrapper
  <1>4. Default = [live |-> TRUE, retrieved |-> FALSE, cookie |-> 0, reply |-> 0]
    BY <1>1, <1>3 DEF Default
  <1>5. /\ Default \in Wrapper
        /\ Default.live = TRUE /\ Default.retrieved = FALSE /\ Default.reply = 0
    BY <1>4 DEF Wrapper
  <1> QED BY <1>2, <1>4, <1>5

(* The constructor without arguments, which asks for nothing, or one whose *)
(* request was not sent.                                                   *)
LEMMA DefaultKeeps ==
  ASSUME MemoryInv, NEW s \in Slots, ~wrapper[s].live,
         wrapper' = [wrapper EXCEPT ![s] = Default], UNCHANGED <<replies, next>>
  PROVE  MemoryInv'
  <1>1. Default = [live |-> TRUE, retrieved |-> FALSE, cookie |-> 0, reply |-> 0]
    BY Constructed
  <1>2. wrapper' \in [Slots -> Wrapper]
    BY <1>1 DEF MemoryInv, Wrapper
  <1>3. WrapperInv' /\ NumberInv'
    BY <1>1 DEF MemoryInv, WrapperInv, NumberInv, Retrieved, Wrapper
  <1>4. \A t \in Slots, n \in Numbers :
          /\ Waits(t, n)' <=> IF t = s THEN FALSE ELSE Waits(t, n)
          /\ Holds(t, n)' <=> IF t = s THEN FALSE ELSE Holds(t, n)
          /\ ~Waits(s, n) /\ ~Holds(s, n)
    BY <1>1, RequestsAssumption
    DEF MemoryInv, WrapperInv, Waits, Holds, Retrieved, Wrapper, Numbers
  <1>5. OwnerInv'
    BY <1>4 DEF MemoryInv, OwnerInv
  <1> QED BY <1>2, <1>3, <1>5 DEF MemoryInv

(* The constructor, of a variable that holds no wrapper. *)
LEMMA RequestKeeps ==
  ASSUME MemoryInv, NEW s \in Slots, ~wrapper[s].live, Request(s)
  PROVE  MemoryInv'
  <1>1. CASE server = "up"
    <2>1. /\ next \in Numbers /\ next # 0
          /\ replies[next].state = "unused"
          /\ wrapper' = [wrapper EXCEPT ![s] = [Default EXCEPT !.cookie = next]]
          /\ replies' = [replies EXCEPT ![next].state = "wanted"]
          /\ next' = next + 1
      BY <1>1, RequestsAssumption DEF Request, MemoryInv, NumberInv, Numbers
    <2>2. [Default EXCEPT !.cookie = next] =
            [live |-> TRUE, retrieved |-> FALSE, cookie |-> next, reply |-> 0]
      BY <2>1, Constructed
    <2>3. [Default EXCEPT !.cookie = next] \in Wrapper
      BY <2>1, <2>2 DEF Wrapper
    <2>4. wrapper' \in [Slots -> Wrapper]
      BY <2>1, <2>3 DEF MemoryInv
    <2>5. replies' \in [Numbers -> Reply]
      BY <2>1 DEF MemoryInv, Reply
    <2>6. next' \in 1..(MaxRequests + 1)
      BY <2>1, RequestsAssumption DEF Numbers
    <2>7. WrapperInv'
      BY <2>1, <2>2 DEF MemoryInv, WrapperInv, Retrieved, Wrapper
    <2>8. NumberInv'
      BY <2>1, RequestsAssumption DEF MemoryInv, NumberInv, Numbers, Reply
    <2>9. OwnerInv'
      <3>1. \A t \in Slots, n \in Numbers :
              /\ Waits(t, n)' <=> IF t = s THEN n = next ELSE Waits(t, n)
              /\ Holds(t, n)' <=> IF t = s THEN FALSE ELSE Holds(t, n)
              /\ ~Waits(s, n) /\ ~Holds(s, n)
        BY <2>1, <2>2, RequestsAssumption
        DEF MemoryInv, WrapperInv, Waits, Holds, Retrieved, Wrapper, Numbers
      <3>2. \A n \in Numbers :
              replies'[n].state = IF n = next THEN "wanted" ELSE replies[n].state
        BY <2>1 DEF MemoryInv, Reply
      <3> QED BY <2>1, <3>1, <3>2 DEF MemoryInv, OwnerInv
    <2> QED BY <2>4, <2>5, <2>6, <2>7, <2>8, <2>9 DEF MemoryInv
  <1>2. CASE server # "up"
    BY <1>2, DefaultKeeps DEF Request
  <1> QED BY <1>1, <1>2

(* Nobody but its owner refers to a reply. *)
LEMMA Apart ==
  ASSUME MemoryInv, NEW s \in Slots, NEW t \in Slots, NEW n \in Numbers
  PROVE  /\ Waits(s, n) => ~Holds(t, n) /\ (Waits(t, n) => t = s)
         /\ Holds(s, n) => ~Waits(t, n) /\ (Holds(t, n) => t = s)
  BY DEF MemoryInv, OwnerInv

(* An answer, or none, or one that is there already. *)
LEMMA GetReplyKeeps ==
  ASSUME MemoryInv, NEW s \in Slots, NEW possible \in SUBSET Data,
         NEW data, GetReply(s, possible, data)
  PROVE  MemoryInv' /\ \A t \in Slots : wrapper'[t].live = wrapper[t].live
  <1>1. CASE Retrieved(wrapper[s])
    <2>1. UNCHANGED <<wrapper, replies, next>>
      BY <1>1 DEF GetReply
    <2> QED
      BY <2>1 DEF MemoryInv, WrapperInv, NumberInv, OwnerInv, Waits, Holds
  <1>2. CASE ~Retrieved(wrapper[s])
    <2> DEFINE c == wrapper[s].cookie
    <2>1. /\ c \in Numbers /\ c # 0
          /\ Waits(s, c)
          /\ wrapper[s].retrieved = FALSE /\ wrapper[s].reply = 0
      BY <1>2, RequestsAssumption
      DEF MemoryInv, WrapperInv, Wrapper, Retrieved, Waits
    <2>0. wrapper[s].live
      BY <1>2 DEF MemoryInv, WrapperInv
    <2>2. /\ UNCHANGED next
          /\ data \in {Null} \cup possible
          /\ wrapper' = [wrapper EXCEPT ![s].retrieved = TRUE,
                                        ![s].reply = IF data = Null THEN 0 ELSE c]
          /\ replies' = [replies EXCEPT ![c] =
                           IF data = Null THEN [@ EXCEPT !.state = "error"]
                           ELSE [state |-> "memory", data |-> data]]
      BY <1>2 DEF GetReply
    <2>3. replies' \in [Numbers -> Reply]
      <3>1. CASE data = Null
        BY <2>1, <2>2, <3>1 DEF MemoryInv, Reply
      <3>2. CASE data # Null
        <4>1. [state |-> "memory", data |-> data] \in Reply
          BY <2>2, <3>2 DEF Reply
        <4> QED BY <2>1, <2>2, <3>2, <4>1 DEF MemoryInv
      <3> QED BY <3>1, <3>2
    <2>4. wrapper' \in [Slots -> Wrapper]
      <3>1. (IF data = Null THEN 0 ELSE c) \in Numbers \cup {0}
        BY <2>1
      <3> QED BY <2>2, <3>1 DEF MemoryInv, Wrapper
    <2>5. \A t \in Slots :
            /\ wrapper'[t].live = wrapper[t].live
            /\ wrapper'[t].cookie = wrapper[t].cookie
            /\ wrapper'[t].retrieved = IF t = s THEN TRUE ELSE wrapper[t].retrieved
            /\ wrapper'[t].reply = IF t # s THEN wrapper[t].reply
                                   ELSE IF data = Null THEN 0 ELSE c
      BY <2>2 DEF MemoryInv, Wrapper
    <2>6. \A n \in Numbers :
            replies'[n].state = IF n # c THEN replies[n].state
                                ELSE IF data = Null THEN "error" ELSE "memory"
      BY <2>1, <2>2 DEF MemoryInv, Reply
    <2>7. WrapperInv'
      BY <2>0, <2>5 DEF MemoryInv, WrapperInv, Retrieved
    <2>8. NumberInv'
      <3>1. replies[c].state = "wanted"
        BY <2>1 DEF MemoryInv, OwnerInv
      <3> QED BY <2>1, <2>2, <2>6, <3>1 DEF MemoryInv, NumberInv
    <2>9. \A t \in Slots, n \in Numbers :
            /\ Waits(t, n)' <=> t # s /\ Waits(t, n)
            /\ Holds(t, n)' <=> IF t = s THEN n = c /\ data # Null ELSE Holds(t, n)
      <3> SUFFICES ASSUME NEW t \in Slots, NEW n \in Numbers
                   PROVE  /\ Waits(t, n)' <=> t # s /\ Waits(t, n)
                          /\ Holds(t, n)' <=> IF t = s THEN n = c /\ data # Null
                                                       ELSE Holds(t, n)
        OBVIOUS
      <3>1. Waits(t, n)' <=> t # s /\ Waits(t, n)
        BY <2>5 DEF Waits, Retrieved
      <3>2. CASE t = s
        <4>1. CASE data = Null
          <5>1. wrapper'[s].reply = 0
            BY <2>2, <4>1 DEF MemoryInv, Wrapper
          <5>2. n # 0
            BY RequestsAssumption DEF Numbers
          <5> QED BY <3>1, <3>2, <4>1, <5>1, <5>2 DEF Holds
        <4>2. CASE data # Null
          <5>1. wrapper'[t].reply = c
            BY <2>5, <3>2, <4>2
          <5> QED BY <3>1, <3>2, <4>2, <5>1 DEF Holds
        <4> QED BY <4>1, <4>2
      <3>3. CASE t # s
        BY <2>5, <3>1, <3>3 DEF Holds
      <3> QED BY <3>2, <3>3
    <2>10. \A n \in Numbers : ~Holds(s, n) /\ (Waits(s, n) <=> n = c)
      BY <2>1, RequestsAssumption DEF Waits, Holds, Numbers
    <2>11. OwnerInv'
      <3> SUFFICES ASSUME NEW n \in Numbers
                   PROVE  /\ replies'[n].state = "wanted" <=> \E t \in Slots : Waits(t, n)'
                          /\ replies'[n].state = "memory" <=> \E t \in Slots : Holds(t, n)'
                          /\ \A t, u \in Slots : Waits(t, n)' /\ Waits(u, n)' => t = u
                          /\ \A t, u \in Slots : Holds(t, n)' /\ Holds(u, n)' => t = u
        BY DEF OwnerInv
      <3>1. CASE n = c
        <4>1. \A t \in Slots : ~Holds(t, n) /\ (Waits(t, n) => t = s)
          BY <2>1, <3>1, Apart
        <4> QED BY <2>6, <2>9, <3>1, <4>1
      <3>2. CASE n # c
        BY <2>6, <2>9, <2>10, <3>2 DEF MemoryInv, OwnerInv
      <3> QED BY <3>1, <3>2
    <2> QED BY <2>2, <2>3, <2>4, <2>5, <2>7, <2>8, <2>11 DEF MemoryInv
  <1> QED BY <1>1, <1>2

(* What is done with the reply of a wrapper that goes. *)
LEMMA CleanupSettles ==
  ASSUME MemoryInv, NEW s \in Slots
  PROVE  /\ Cleanup(wrapper[s], replies) \in [Numbers -> Reply]
         /\ \A n \in Numbers :
              Cleanup(wrapper[s], replies)[n].state =
                IF Waits(s, n) THEN "discarded"
                ELSE IF Holds(s, n) THEN "freed"
                ELSE replies[n].state
  <1>1. CASE ~Retrieved(wrapper[s])
    <2>1. wrapper[s].cookie \in Numbers /\ wrapper[s].reply = 0
      BY <1>1 DEF MemoryInv, WrapperInv, Wrapper, Retrieved
    <2>2. Cleanup(wrapper[s], replies) =
            [replies EXCEPT ![wrapper[s].cookie].state = "discarded"]
      BY <1>1 DEF Cleanup
    <2>3. \A n \in Numbers : Waits(s, n) <=> n = wrapper[s].cookie
      BY <1>1 DEF Waits
    <2>4. \A n \in Numbers : ~Holds(s, n)
      BY <2>1, RequestsAssumption DEF Holds, Numbers
    <2> QED BY <2>1, <2>2, <2>3, <2>4 DEF MemoryInv, Reply
  <1>2. CASE Retrieved(wrapper[s]) /\ wrapper[s].reply # 0
    <2>1. wrapper[s].reply \in Numbers
      BY <1>2 DEF MemoryInv, Wrapper
    <2>2. Cleanup(wrapper[s], replies) =
            [replies EXCEPT ![wrapper[s].reply].state = "freed"]
      BY <1>2 DEF Cleanup
    <2>3. \A n \in Numbers : ~Waits(s, n) /\ (Holds(s, n) <=> n = wrapper[s].reply)
      BY <1>2 DEF Waits, Holds
    <2> QED BY <2>1, <2>2, <2>3 DEF MemoryInv, Reply
  <1>3. CASE Retrieved(wrapper[s]) /\ wrapper[s].reply = 0
    <2>1. Cleanup(wrapper[s], replies) = replies
      BY <1>3 DEF Cleanup
    <2>2. \A n \in Numbers : ~Waits(s, n) /\ ~Holds(s, n)
      BY <1>3, RequestsAssumption DEF Waits, Holds, Numbers
    <2> QED BY <2>1, <2>2 DEF MemoryInv
  <1> QED BY <1>1, <1>2, <1>3

(* A number that is used stays used. *)
LEMMA NumbersKept ==
  ASSUME MemoryInv, UNCHANGED next,
         \A n \in Numbers : replies[n].state = "unused" => replies'[n].state = "unused"
  PROVE  NumberInv'
  BY DEF MemoryInv, NumberInv

(* The destructor. *)
LEMMA DestroyKeeps ==
  ASSUME MemoryInv, NEW s \in Slots, Destroy(s), UNCHANGED next
  PROVE  MemoryInv' /\ \A t \in Slots : wrapper'[t].live => wrapper[t].live
  <1>1. /\ wrapper' = [wrapper EXCEPT ![s] = Dead]
        /\ replies' = Cleanup(wrapper[s], replies)
    BY DEF Destroy
  <1>2. Dead = [live |-> FALSE, retrieved |-> FALSE, cookie |-> 0, reply |-> 0]
    BY DEF Dead
  <1>3. wrapper' \in [Slots -> Wrapper]
    BY <1>1, <1>2 DEF MemoryInv, Wrapper
  <1>4. WrapperInv' /\ \A t \in Slots : wrapper'[t].live => wrapper[t].live
    BY <1>1, <1>2 DEF MemoryInv, WrapperInv, Retrieved
  <1>5. \A t \in Slots, n \in Numbers :
          /\ Waits(t, n)' <=> t # s /\ Waits(t, n)
          /\ Holds(t, n)' <=> t # s /\ Holds(t, n)
    BY <1>1, <1>2, RequestsAssumption
    DEF MemoryInv, Waits, Holds, Retrieved, Numbers
  <1>6. OwnerInv'
    BY <1>1, <1>5, CleanupSettles, Apart DEF MemoryInv, OwnerInv
  <1>7. NumberInv'
    BY <1>1, CleanupSettles, NumbersKept DEF MemoryInv, OwnerInv
  <1> QED BY <1>1, <1>3, <1>4, <1>6, <1>7, CleanupSettles DEF MemoryInv

(* take, by a caller who frees the reply itself. *)
LEMMA TakeKeeps ==
  ASSUME MemoryInv, NEW s \in Slots, Take(s), UNCHANGED next
  PROVE  MemoryInv' /\ \A t \in Slots : wrapper'[t].live = wrapper[t].live
  <1>1. /\ Retrieved(wrapper[s])
        /\ wrapper' = [wrapper EXCEPT ![s].reply = 0]
        /\ replies' = IF wrapper[s].reply = 0 THEN replies
                      ELSE [replies EXCEPT ![wrapper[s].reply].state = "taken"]
    BY DEF Take
  <1>2. wrapper' \in [Slots -> Wrapper]
    BY <1>1 DEF MemoryInv, Wrapper
  <1>3. \A t \in Slots :
          /\ wrapper'[t].live = wrapper[t].live
          /\ wrapper'[t].cookie = wrapper[t].cookie
          /\ wrapper'[t].retrieved = wrapper[t].retrieved
          /\ wrapper'[t].reply = IF t = s THEN 0 ELSE wrapper[t].reply
    BY <1>1 DEF MemoryInv, Wrapper
  <1>4. WrapperInv'
    BY <1>3 DEF MemoryInv, WrapperInv, Retrieved
  <1>5. replies' \in [Numbers -> Reply]
    BY <1>1 DEF MemoryInv, Wrapper, Reply
  <1>6. \A n \in Numbers :
          replies'[n].state = IF Holds(s, n) THEN "taken" ELSE replies[n].state
    BY <1>1, RequestsAssumption DEF MemoryInv, Holds, Reply, Numbers
  <1>7. \A t \in Slots, n \in Numbers :
          /\ Waits(t, n)' <=> Waits(t, n)
          /\ Holds(t, n)' <=> t # s /\ Holds(t, n)
    BY <1>3, RequestsAssumption DEF Waits, Holds, Retrieved, Numbers
  <1>8. OwnerInv'
    BY <1>6, <1>7, Apart DEF MemoryInv, OwnerInv
  <1>9. NumberInv'
    BY <1>6, NumbersKept DEF MemoryInv, OwnerInv
  <1> QED BY <1>2, <1>3, <1>4, <1>5, <1>8, <1>9 DEF MemoryInv

(* The copy constructor and the assignment. *)
LEMMA CopyKeeps ==
  ASSUME MemoryInv, NEW s \in Slots, NEW o \in Slots \ {s}, wrapper[o].live,
         Copy(s, o), UNCHANGED next
  PROVE  MemoryInv'
  <1>1. /\ replies' = IF wrapper[s].live THEN Cleanup(wrapper[s], replies) ELSE replies
        /\ wrapper' = [wrapper EXCEPT ![s] = wrapper[o], ![o] = Given(@)]
    BY DEF Copy
  <1>2. \A t \in Slots :
          /\ wrapper'[t].live = IF t = s THEN wrapper[o].live ELSE wrapper[t].live
          /\ wrapper'[t].cookie = IF t = s THEN wrapper[o].cookie ELSE wrapper[t].cookie
          /\ wrapper'[t].retrieved = IF t = s THEN wrapper[o].retrieved
                                     ELSE IF t = o THEN TRUE ELSE wrapper[t].retrieved
          /\ wrapper'[t].reply = IF t = s THEN wrapper[o].reply
                                 ELSE IF t = o THEN 0 ELSE wrapper[t].reply
    BY <1>1 DEF MemoryInv, Wrapper, Given
  <1>3. wrapper' \in [Slots -> Wrapper]
    BY <1>1 DEF MemoryInv, Wrapper, Given
  <1>4. WrapperInv'
    BY <1>2 DEF MemoryInv, WrapperInv, Retrieved
  <1>5. replies' \in [Numbers -> Reply]
    BY <1>1, CleanupSettles DEF MemoryInv
  <1>6. \A n \in Numbers :
          replies'[n].state = IF Waits(s, n) THEN "discarded"
                              ELSE IF Holds(s, n) THEN "freed"
                              ELSE replies[n].state
    <2>1. CASE wrapper[s].live
      BY <1>1, <2>1, CleanupSettles
    <2>2. CASE ~wrapper[s].live
      <3>1. \A n \in Numbers : ~Waits(s, n) /\ ~Holds(s, n)
        BY <2>2, RequestsAssumption DEF MemoryInv, WrapperInv, Waits, Holds, Numbers
      <3> QED BY <1>1, <2>2, <3>1
    <2> QED BY <2>1, <2>2
  <1>7. \A t \in Slots, n \in Numbers :
          /\ Waits(t, n)' <=> IF t = s THEN Waits(o, n) ELSE t # o /\ Waits(t, n)
          /\ Holds(t, n)' <=> IF t = s THEN Holds(o, n) ELSE t # o /\ Holds(t, n)
    <2> TAKE t \in Slots, n \in Numbers
    <2>1. n # 0 /\ s # o
      BY RequestsAssumption DEF Numbers
    <2>2. CASE t = s
      BY <1>2, <2>1, <2>2 DEF Waits, Holds, Retrieved
    <2>3. CASE t = o
      BY <1>2, <2>1, <2>3 DEF Waits, Holds, Retrieved
    <2>4. CASE t \notin {s, o}
      BY <1>2, <2>4 DEF Waits, Holds, Retrieved
    <2> QED BY <2>2, <2>3, <2>4
  <1>8. OwnerInv'
    BY <1>6, <1>7, Apart DEF MemoryInv, OwnerInv
  <1>9. NumberInv'
    BY <1>6, NumbersKept DEF MemoryInv, OwnerInv
  <1> QED BY <1>3, <1>4, <1>5, <1>8, <1>9 DEF MemoryInv

-----------------------------------------------------------------------------
(* The functions that ask. *)

Steps == {"idle", "root", "askPrimary", "testPrimary", "usePrimary", "askOutput",
          "testOutput", "name", "askCrtc", "rect", "use", "leave", "done", "crashed"}
Answers == {"none", "nullopt", "name", "fallback", "size"}
Operations == {"none", "PrimaryOutput", "markerSize", "client"}

(* Only one step that asks is reached from each. *)
LEMMA CallTyping ==
  ASSUME TypeOK
  PROVE  /\ \A from, to \in Steps : Goto(from, to) =>
              /\ call.at = from /\ call'.at = to
              /\ call' \in [op : Operations, at : Steps, answer : Answers]
         /\ \A a \in Answers : Answer(a) =>
              /\ call'.at = "leave"
              /\ call' \in [op : Operations, at : Steps, answer : Answers]
         /\ \A data, facts, found, missing :
              Look(data, facts, found, missing) => call' \in {Going("crashed"), found, missing}
         /\ \A to \in Steps : /\ Going(to).at = to
                             /\ Going(to) \in [op : Operations, at : Steps, answer : Answers]
         /\ \A a \in Answers :
              /\ Answering(a).at = "leave"
              /\ Answering(a) \in [op : Operations, at : Steps, answer : Answers]
         /\ Call => /\ call'.at \in {"root", "use"}
                    /\ call' \in [op : Operations, at : Steps, answer : Answers]
         /\ NoCall \in [op : Operations, at : Steps, answer : Answers]
         /\ NoCall.at = "idle"
  <1>1. call \in [op : Operations, at : Steps, answer : Answers]
    BY DEF TypeOK, Operations, Steps, Answers
  <1>2. ASSUME NEW from \in Steps, NEW to \in Steps, Goto(from, to)
        PROVE  /\ call.at = from /\ call'.at = to
               /\ call' \in [op : Operations, at : Steps, answer : Answers]
    BY <1>1, <1>2 DEF Goto
  <1>3. ASSUME NEW a \in Answers
        PROVE  /\ Answering(a).at = "leave"
               /\ Answering(a) \in [op : Operations, at : Steps, answer : Answers]
    <2>1. "leave" \in Steps
      BY DEF Steps
    <2> QED BY <1>1, <1>3, <2>1 DEF Answering
  <1>6. ASSUME NEW to \in Steps
        PROVE  /\ Going(to).at = to
               /\ Going(to) \in [op : Operations, at : Steps, answer : Answers]
    BY <1>1, <1>6 DEF Going
  <1>7. \A data, facts, found, missing :
          Look(data, facts, found, missing) => call' \in {Going("crashed"), found, missing}
    BY DEF Look
  <1>4. /\ NoCall \in [op : Operations, at : Steps, answer : Answers]
        /\ NoCall.at = "idle"
    BY DEF NoCall, Operations, Steps, Answers
  <1>5. ASSUME Call
        PROVE  /\ call'.at \in {"root", "use"}
               /\ call' \in [op : Operations, at : Steps, answer : Answers]
    <2>1. \A c \in [op : Operations, at : Steps, answer : Answers] :
          \A op \in Operations, at \in Steps :
            /\ [c EXCEPT !.op = op, !.at = at]
                 \in [op : Operations, at : Steps, answer : Answers]
            /\ [c EXCEPT !.op = op, !.at = at].at = at
      OBVIOUS
    <2>2. PICK op \in {"PrimaryOutput", "markerSize", "client"} :
            call' = [NoCall EXCEPT !.op = op,
                                   !.at = IF op = "client" THEN "use" ELSE "root"]
      BY <1>5 DEF Call
    <2>3. /\ op \in Operations
          /\ (IF op = "client" THEN "use" ELSE "root") \in Steps \cap {"root", "use"}
      BY <2>2 DEF Operations, Steps
    <2> QED BY <1>4, <2>1, <2>2, <2>3
  <1> QED BY <1>2, <1>3, <1>4, <1>5, <1>6, <1>7 DEF Answer

(* Types and ownership at the beginning. *)
LEMMA Initially ==
  ASSUME Init
  PROVE  IInv
  <1>1. Dead = [live |-> FALSE, retrieved |-> FALSE, cookie |-> 0, reply |-> 0]
    BY DEF Dead
  <1>2. Unused = [state |-> "unused", data |-> {}]
    BY DEF Unused
  <1>3. TypeOK
    BY <1>1, <1>2, RequestsAssumption
    DEF Init, TypeOK, NoCall, Data, PrimaryData, Numbers
  <1>4. MemoryInv
    <2>1. /\ wrapper \in [Slots -> Wrapper]
          /\ replies \in [Numbers -> Reply]
          /\ next \in 1..(MaxRequests + 1)
      BY <1>3 DEF TypeOK, Wrapper, Reply
    <2>2. WrapperInv /\ NumberInv
      BY <1>1, <1>2 DEF Init, WrapperInv, NumberInv, Retrieved
    <2>3. OwnerInv
      BY <1>1, <1>2, RequestsAssumption
      DEF Init, OwnerInv, Waits, Holds, Retrieved, Numbers
    <2> QED BY <2>1, <2>2, <2>3 DEF MemoryInv
  <1>5. CallInv
    BY <1>1 DEF Init, CallInv, AbsentAt, NoCall
  <1> QED BY <1>3, <1>4, <1>5 DEF IInv

(* Every step keeps it: what it does to the wrappers is one of the         *)
(* operations above, and it asks with a variable that holds none.          *)
LEMMA Inductive == IInv /\ [Next]_vars => IInv'
  <1> SUFFICES ASSUME IInv, [Next]_vars PROVE IInv'
    OBVIOUS
  <1> DEFINE Calls == [op : Operations, at : Steps, answer : Answers]
  <1> USE DEF IInv
  <1>1. ASSUME call' \in Calls, server' \in {"up", "lost", "none"}, MemoryInv'
        PROVE  TypeOK'
    BY <1>1 DEF TypeOK, MemoryInv, Wrapper, Reply, Operations, Steps, Answers
  <1>2. ASSUME UNCHANGED <<wrapper, replies, next>>
        PROVE  MemoryInv'
    BY <1>2 DEF MemoryInv, WrapperInv, NumberInv, OwnerInv, Waits, Holds
  <1>3. server \in {"up", "lost", "none"} /\ call \in Calls
    BY DEF TypeOK, Operations, Steps, Answers
  <1>4. CASE Call
    <2>1. UNCHANGED <<server, wrapper, replies, next>> /\ call.at = "idle"
      BY <1>4 DEF Call
    <2>2. CallInv'
      BY <1>4, <2>1, CallTyping DEF CallInv, AbsentAt, Slots
    <2> QED BY <1>1, <1>2, <1>3, <1>4, <2>1, <2>2, CallTyping
  <1>5. CASE RootWindow
    <2>1. /\ UNCHANGED <<server, wrapper, replies, next>>
          /\ call.at = "root" /\ call'.at \in {"crashed", "askPrimary"}
          /\ call' \in Calls
      BY <1>5, CallTyping DEF RootWindow, Steps
    <2>2. CallInv'
      BY <2>1 DEF CallInv, AbsentAt, Slots
    <2> QED BY <1>1, <1>2, <1>3, <2>1, <2>2
  <1>6. CASE AskPrimary
    <2>1. /\ Request("primary") /\ UNCHANGED server
          /\ call.at = "askPrimary" /\ call'.at = "testPrimary"
          /\ call' \in Calls
      BY <1>6, CallTyping DEF AskPrimary, Steps
    <2>2. \A s \in Slots : ~wrapper[s].live
      BY <2>1 DEF CallInv, AbsentAt
    <2>3. MemoryInv' /\ \A s \in Slots \ {"primary"} : wrapper'[s] = wrapper[s]
      BY <2>1, <2>2, RequestKeeps DEF Request, MemoryInv, Slots
    <2>4. CallInv'
      BY <2>1, <2>2, <2>3 DEF CallInv, AbsentAt, Slots
    <2> QED BY <1>1, <1>3, <2>1, <2>3, <2>4
  <1>7. CASE TestPrimary
    <2>1. PICK data : GetReply("primary", PrimaryData, data)
      BY <1>7 DEF TestPrimary
    <2>2. /\ UNCHANGED server
          /\ call.at = "testPrimary" /\ call'.at \in {"usePrimary", "leave"}
          /\ call' \in Calls
      BY <1>7, CallTyping DEF TestPrimary, NoAnswer, Steps, Answers
    <2>3. MemoryInv' /\ \A s \in Slots : wrapper'[s].live = wrapper[s].live
      BY <2>1, GetReplyKeeps DEF Slots, Data
    <2>4. CallInv'
      BY <2>2, <2>3 DEF CallInv, AbsentAt, Slots
    <2> QED BY <1>1, <1>3, <2>2, <2>3, <2>4
  <1>20. CASE UsePrimary
    <2>1. PICK data : /\ GetReply("primary", PrimaryData, data)
                      /\ Look(data, {}, Going("askOutput"), Going("askOutput"))
      BY <1>20 DEF UsePrimary
    <2>2. /\ UNCHANGED server /\ call.at = "usePrimary"
          /\ call' \in {Going("crashed"), Going("askOutput")}
      BY <1>20, <2>1, CallTyping DEF UsePrimary
    <2>3. call'.at \in {"crashed", "askOutput"} /\ call' \in Calls
      BY <2>2, CallTyping DEF Steps
    <2>4. MemoryInv' /\ \A s \in Slots : wrapper'[s].live = wrapper[s].live
      BY <2>1, GetReplyKeeps DEF Slots, Data
    <2>5. CallInv'
      BY <2>2, <2>3, <2>4 DEF CallInv, AbsentAt, Slots
    <2> QED BY <1>1, <1>3, <2>2, <2>3, <2>4, <2>5
  <1>8. CASE AskOutput
    <2>1. /\ Request("output") /\ UNCHANGED server
          /\ call.at = "askOutput" /\ call'.at \in {"name", "testOutput"}
          /\ call' \in Calls
      BY <1>8, CallTyping DEF AskOutput, Steps
    <2>2. \A s \in {"output", "crtc"} : ~wrapper[s].live
      BY <2>1 DEF CallInv, AbsentAt
    <2>3. MemoryInv' /\ wrapper'["crtc"] = wrapper["crtc"]
      BY <2>1, <2>2, RequestKeeps DEF Request, MemoryInv, Slots
    <2>4. CallInv'
      BY <2>1, <2>2, <2>3 DEF CallInv, AbsentAt, Slots
    <2> QED BY <1>1, <1>3, <2>1, <2>3, <2>4
  <1>9. CASE Name
    <2>1. PICK data :
            /\ GetReply("output", Outputs, data)
            /\ IF data = Null THEN Answer("nullopt")
               ELSE Look(data, {"crtcs", "modes", "status"}, Answering("name"), Answering("nullopt"))
      BY <1>9 DEF Name
    <2>2. UNCHANGED server /\ call'.at \in {"leave", "crashed"} /\ call' \in Calls
      BY <1>9, <2>1, CallTyping DEF Name, Answers, Steps
    <2>3. MemoryInv'
      BY <2>1, GetReplyKeeps DEF Slots, Data, Outputs
    <2>4. CallInv'
      BY <2>2 DEF CallInv, AbsentAt
    <2> QED BY <1>1, <1>3, <2>2, <2>3, <2>4
  <1>10. CASE TestOutput
    <2>1. PICK data :
            /\ GetReply("output", Outputs, data)
            /\ IF data = Null THEN Answer("fallback")
               ELSE Look(data, {"crtc"}, Going("askCrtc"), Answering("fallback"))
      BY <1>10 DEF TestOutput
    <2>2. /\ UNCHANGED server
          /\ call.at = "testOutput" /\ call'.at \in {"askCrtc", "leave", "crashed"}
          /\ call' \in Calls
      BY <1>10, <2>1, CallTyping DEF TestOutput, Steps, Answers
    <2>3. MemoryInv' /\ \A s \in Slots : wrapper'[s].live = wrapper[s].live
      BY <2>1, GetReplyKeeps DEF Slots, Data, Outputs
    <2>4. CallInv'
      BY <2>2, <2>3 DEF CallInv, AbsentAt, Slots
    <2> QED BY <1>1, <1>3, <2>2, <2>3, <2>4
  <1>11. CASE AskCrtc
    <2>1. /\ Request("crtc") /\ UNCHANGED server
          /\ call.at = "askCrtc" /\ call'.at = "rect"
          /\ call' \in Calls
      BY <1>11, CallTyping DEF AskCrtc, Steps
    <2>2. ~wrapper["crtc"].live
      BY <2>1 DEF CallInv, AbsentAt
    <2>3. MemoryInv'
      BY <2>1, <2>2, RequestKeeps DEF Slots
    <2>4. CallInv'
      BY <2>1 DEF CallInv, AbsentAt
    <2> QED BY <1>1, <1>3, <2>1, <2>3, <2>4
  <1>12. CASE Rect
    <2>1. PICK data :
            /\ GetReply("crtc", CrtcData, data)
            /\ IF data = Null THEN Answer("fallback")
               ELSE Look(data, {"outputs", "mode", "status", "area"},
                         Answering("size"), Answering("fallback"))
      BY <1>12 DEF Rect
    <2>2. UNCHANGED server /\ call'.at \in {"leave", "crashed"} /\ call' \in Calls
      BY <1>12, <2>1, CallTyping DEF Rect, Answers, Steps
    <2>3. MemoryInv'
      BY <2>1, GetReplyKeeps DEF Slots, Data
    <2>4. CallInv'
      BY <2>2 DEF CallInv, AbsentAt
    <2> QED BY <1>1, <1>3, <2>2, <2>3, <2>4
  <1>13. CASE Client
    <2>1. UNCHANGED <<server, call>> /\ call.at = "use"
      BY <1>13 DEF Client
    <2>2. CallInv'
      BY <2>1 DEF CallInv, AbsentAt
    <2>3. PICK s \in Slots :
            \/ ~wrapper[s].live /\ Request(s)
            \/ ~wrapper[s].live /\ wrapper' = [wrapper EXCEPT ![s] = Default]
               /\ UNCHANGED <<replies, next>>
            \/ \E data \in {Null, {}} : GetReply(s, { {} }, data)
            \/ Take(s) /\ UNCHANGED next
            \/ Destroy(s) /\ UNCHANGED next
            \/ \E o \in Slots \ {s} : wrapper[o].live /\ Copy(s, o) /\ UNCHANGED next
      BY <1>13 DEF Client
    <2>4. ~wrapper[s].live /\ Request(s) => MemoryInv'
      BY RequestKeeps
    <2>5. ~wrapper[s].live /\ wrapper' = [wrapper EXCEPT ![s] = Default]
            /\ UNCHANGED <<replies, next>> => MemoryInv'
      BY DefaultKeeps
    <2>6. (\E data \in {Null, {}} : GetReply(s, { {} }, data)) => MemoryInv'
      BY GetReplyKeeps DEF Data, PrimaryData
    <2>7. Take(s) /\ UNCHANGED next => MemoryInv'
      BY TakeKeeps
    <2>8. Destroy(s) /\ UNCHANGED next => MemoryInv'
      BY DestroyKeeps
    <2>9. (\E o \in Slots \ {s} : wrapper[o].live /\ Copy(s, o) /\ UNCHANGED next)
            => MemoryInv'
      BY CopyKeeps
    <2>10. MemoryInv'
      BY <2>3, <2>4, <2>5, <2>6, <2>7, <2>8, <2>9
    <2> QED BY <1>1, <1>3, <2>1, <2>2, <2>10
  <1>14. CASE ClientEnds
    <2>1. /\ UNCHANGED <<server, wrapper, replies, next>>
          /\ call'.at = "leave" /\ call' \in Calls
      BY <1>14, CallTyping DEF ClientEnds, Steps
    <2>2. CallInv'
      BY <2>1 DEF CallInv, AbsentAt
    <2> QED BY <1>1, <1>2, <1>3, <2>1, <2>2
  <1>15. CASE Leave
    <2>1. PICK s \in Slots : Destroy(s)
      BY <1>15 DEF Leave
    <2>2. UNCHANGED <<server, call, next>> /\ call.at = "leave"
      BY <1>15 DEF Leave
    <2>3. MemoryInv'
      BY <2>1, <2>2, DestroyKeeps
    <2>4. CallInv'
      BY <2>2 DEF CallInv, AbsentAt
    <2> QED BY <1>1, <1>3, <2>2, <2>3, <2>4
  <1>16. CASE Return
    <2>1. /\ UNCHANGED <<server, wrapper, replies, next>>
          /\ \A s \in Slots : ~wrapper[s].live
          /\ call'.at = "done" /\ call' \in Calls
      BY <1>16, CallTyping DEF Return, Steps
    <2>2. CallInv'
      BY <2>1 DEF CallInv, AbsentAt
    <2> QED BY <1>1, <1>2, <1>3, <2>1, <2>2
  <1>17. CASE Again
    <2>1. /\ UNCHANGED <<server, wrapper>>
          /\ call.at = "done" /\ call' = NoCall
          /\ replies' = [n \in Numbers |-> Unused]
          /\ next' = 1
      BY <1>17 DEF Again
    <2>2. \A s \in Slots : ~wrapper[s].live
      BY <2>1 DEF CallInv, AbsentAt
    <2>3. CallInv'
      BY <2>1, <2>2, CallTyping DEF CallInv, AbsentAt, Slots
    <2>4. Unused = [state |-> "unused", data |-> {}]
      BY DEF Unused
    <2>5. /\ wrapper' \in [Slots -> Wrapper]
          /\ replies' \in [Numbers -> Reply]
          /\ next' \in 1..(MaxRequests + 1)
      BY <2>1, <2>4, RequestsAssumption DEF MemoryInv, Reply, Data, PrimaryData
    <2>6. WrapperInv' /\ NumberInv'
      BY <2>1, <2>4 DEF MemoryInv, WrapperInv, NumberInv
    <2>7. \A s \in Slots, n \in Numbers : ~Waits(s, n)' /\ ~Holds(s, n)'
      BY <2>1, <2>2, RequestsAssumption
      DEF MemoryInv, WrapperInv, Waits, Holds, Numbers
    <2>8. OwnerInv'
      BY <2>1, <2>4, <2>7 DEF OwnerInv
    <2>9. MemoryInv'
      BY <2>5, <2>6, <2>8 DEF MemoryInv
    <2> QED BY <1>1, <1>3, <2>1, <2>3, <2>9, CallTyping
  <1>18. CASE Disconnect
    <2>1. UNCHANGED <<call, wrapper, replies, next>> /\ server' = "lost"
      BY <1>18 DEF Disconnect
    <2>2. CallInv'
      BY <2>1 DEF CallInv, AbsentAt
    <2> QED BY <1>1, <1>2, <1>3, <2>1, <2>2
  <1>19. CASE UNCHANGED vars
    <2>1. UNCHANGED <<server, call, wrapper, replies, next>>
      BY <1>19 DEF vars
    <2>2. CallInv'
      BY <2>1 DEF CallInv
    <2> QED BY <1>1, <1>2, <1>3, <2>1, <2>2
  <1> QED
    BY <1>4, <1>5, <1>6, <1>7, <1>8, <1>9, <1>10, <1>11, <1>12, <1>13, <1>14,
       <1>15, <1>16, <1>17, <1>18, <1>19, <1>20
    DEF Next

(* For any number of requests, what the wrappers, the replies and the call *)
(* hold stays well formed (AbstractWrapper, primaryOutputName, markerSize).*)
THEOREM TypeCorrect == Spec => []TypeOK
  <1>1. IInv => TypeOK
    BY DEF IInv
  <1> QED BY <1>1, Initially, Inductive, PTL DEF Spec

(* xcbutils.h:68-71, for any number of requests: every reply that is       *)
(* wanted is fetched or discarded, and every one in memory freed, by       *)
(* exactly one wrapper, and no wrapper refers to a reply that is gone.     *)
THEOREM RepliesHaveOneOwner == Spec => []OneOwner
  <1>1. IInv => OneOwner
    <2> SUFFICES ASSUME IInv, NEW n \in Numbers
                 PROVE  /\ Cardinality({s \in Slots : Waits(s, n)}) =
                             IF replies[n].state = "wanted" THEN 1 ELSE 0
                        /\ Cardinality({s \in Slots : Holds(s, n)}) =
                             IF replies[n].state = "memory" THEN 1 ELSE 0
      BY DEF OneOwner, Waits, Holds
    <2>1. OwnerInv
      BY DEF IInv, MemoryInv
    <2>2. ASSUME NEW P, P \subseteq Slots, \A s, t \in P : s = t
          PROVE  Cardinality(P) = IF P = {} THEN 0 ELSE 1
      <3>1. CASE P = {}
        BY <3>1, FS_EmptySet
      <3>2. CASE P # {}
        <4>1. PICK s : P = {s}
          BY <2>2, <3>2
        <4> QED BY <3>2, <4>1, FS_Singleton
      <3> QED BY <3>1, <3>2
    <2>3. Cardinality({s \in Slots : Waits(s, n)}) =
            IF replies[n].state = "wanted" THEN 1 ELSE 0
      BY <2>1, <2>2 DEF OwnerInv
    <2>4. Cardinality({s \in Slots : Holds(s, n)}) =
            IF replies[n].state = "memory" THEN 1 ELSE 0
      BY <2>1, <2>2 DEF OwnerInv
    <2> QED BY <2>3, <2>4
  <1> QED BY <1>1, Initially, Inductive, PTL DEF Spec
-----------------------------------------------------------------------------
(* What is looked into.                                                    *)

(* The primary output's reply is there when it is used: it was tested.     *)
LookInv ==
  call.at = "usePrimary" => Retrieved(wrapper["primary"]) /\ wrapper["primary"].reply # 0

LEMMA NullIsNoData == Null \notin Data
  <1>1. ASSUME NEW facts \in Data PROVE "null" \notin facts
    BY <1>1 DEF Data, PrimaryData, OutputData, CrtcData
  <1> QED BY <1>1 DEF Null

(* A reply that was found is there, and one that is there is found.        *)
LEMMA GetReplyFinds ==
  ASSUME MemoryInv, NEW s \in Slots, NEW possible \in SUBSET Data,
         NEW data, GetReply(s, possible, data)
  PROVE  /\ data # Null => Retrieved(wrapper[s])' /\ wrapper'[s].reply # 0
         /\ Retrieved(wrapper[s]) /\ wrapper[s].reply # 0 => data # Null
  <1>1. CASE Retrieved(wrapper[s])
    <2>1. data = (IF wrapper[s].reply = 0 THEN Null ELSE replies[wrapper[s].reply].data)
          /\ UNCHANGED wrapper
      BY <1>1 DEF GetReply
    <2>2. wrapper[s].reply # 0 => replies[wrapper[s].reply].data \in Data
      BY DEF MemoryInv, Wrapper, Reply
    <2> QED BY <1>1, <2>1, <2>2, NullIsNoData DEF Retrieved
  <1>2. CASE ~Retrieved(wrapper[s])
    <2> DEFINE c == wrapper[s].cookie
    <2>1. c \in Numbers /\ c # 0
      BY <1>2, RequestsAssumption DEF MemoryInv, Wrapper, Retrieved
    <2>2. wrapper' = [wrapper EXCEPT ![s].retrieved = TRUE,
                                     ![s].reply = IF data = Null THEN 0 ELSE c]
      BY <1>2 DEF GetReply
    <2>3. wrapper'[s].retrieved = TRUE /\ (data # Null => wrapper'[s].reply = c)
      BY <2>2 DEF MemoryInv, Wrapper
    <2> QED BY <1>2, <2>1, <2>3 DEF Retrieved
  <1> QED BY <1>1, <1>2

(* Where a step may go.                                                    *)
LEMMA NextAt ==
  ASSUME TypeOK
  PROVE  /\ \A from, to : Goto(from, to) => call.at = from /\ call'.at = to
         /\ \A a : Answer(a) => call'.at = "leave"
         /\ \A data, facts, found, missing :
              Look(data, facts, found, missing) /\ data # Null =>
                call' \in {found, missing}
         /\ \A to : Going(to).at = to
         /\ \A a : Answering(a).at = "leave"
         /\ Call => call'.at \in {"root", "use"}
         /\ NoCall.at = "idle"
  <1>1. \A to : Going(to).at = to
    BY DEF TypeOK, Going
  <1>2. \A a : Answering(a).at = "leave"
    BY DEF TypeOK, Answering
  <1>3. \A from, to : Goto(from, to) => call.at = from /\ call'.at = to
    BY DEF TypeOK, Goto
  <1>4. \A data, facts, found, missing :
          Look(data, facts, found, missing) /\ data # Null => call' \in {found, missing}
    BY DEF Look
  <1> QED BY <1>1, <1>2, <1>3, <1>4, CallTyping DEF Answer

LEMMA LookStep ==
  ASSUME IInv, LookInv, server # "none" => call.at # "crashed", [Next]_vars
  PROVE  LookInv' /\ (server' # "none" => call'.at # "crashed")
  <1> USE NextAt DEF IInv
  <1>1. ASSUME call'.at \notin {"usePrimary", "crashed"}
        PROVE  LookInv' /\ (server' # "none" => call'.at # "crashed")
    BY <1>1 DEF LookInv
  <1>2. CASE Call \/ Again
    BY <1>1, <1>2 DEF Again
  <1>3. CASE RootWindow
    BY <1>3 DEF RootWindow, LookInv
  <1>4. CASE AskPrimary \/ AskOutput \/ AskCrtc \/ ClientEnds \/ Return
    <2>1. call'.at \in {"testPrimary", "name", "testOutput", "rect", "leave", "done"}
      BY <1>4 DEF AskPrimary, AskOutput, AskCrtc, ClientEnds, Return
    <2> QED BY <1>1, <2>1
  <1>5. CASE TestPrimary
    <2>1. PICK data \in PrimaryData \cup {Null} :
            /\ GetReply("primary", PrimaryData, data)
            /\ IF data = Null THEN Answer(NoAnswer) ELSE Goto("testPrimary", "usePrimary")
      BY <1>5 DEF TestPrimary
    <2>2. CASE data = Null
      BY <1>1, <2>1, <2>2
    <2>3. CASE data # Null
      <3>1. Retrieved(wrapper["primary"])' /\ wrapper'["primary"].reply # 0
        BY <2>1, <2>3, GetReplyFinds DEF Slots, Data
      <3>2. call'.at = "usePrimary"
        BY <2>1, <2>3
      <3> QED BY <3>1, <3>2 DEF LookInv
    <2> QED BY <2>2, <2>3
  <1>6. CASE UsePrimary
    <2>1. PICK data \in PrimaryData \cup {Null} :
            /\ GetReply("primary", PrimaryData, data)
            /\ Look(data, {}, Going("askOutput"), Going("askOutput"))
      BY <1>6 DEF UsePrimary
    <2>2. Retrieved(wrapper["primary"]) /\ wrapper["primary"].reply # 0
      BY <1>6 DEF UsePrimary, LookInv
    <2>3. data # Null
      BY <2>1, <2>2, GetReplyFinds DEF Slots, Data
    <2> QED BY <1>1, <2>1, <2>3
  <1>7. CASE Name
    <2>1. PICK data :
            IF data = Null THEN Answer("nullopt")
            ELSE Look(data, {"crtcs", "modes", "status"}, Answering("name"), Answering("nullopt"))
      BY <1>7 DEF Name
    <2> QED BY <1>1, <2>1
  <1>8. CASE TestOutput
    <2>1. PICK data :
            IF data = Null THEN Answer("fallback")
            ELSE Look(data, {"crtc"}, Going("askCrtc"), Answering("fallback"))
      BY <1>8 DEF TestOutput
    <2> QED BY <1>1, <2>1
  <1>9. CASE Rect
    <2>1. PICK data :
            IF data = Null THEN Answer("fallback")
            ELSE Look(data, {"outputs", "mode", "status", "area"},
                      Answering("size"), Answering("fallback"))
      BY <1>9 DEF Rect
    <2> QED BY <1>1, <2>1
  <1>10. CASE Client \/ Leave
    <2>1. call.at \in {"use", "leave"} /\ call' = call
      BY <1>10 DEF Client, Leave
    <2> QED BY <1>1, <2>1
  <1>11. CASE Disconnect \/ UNCHANGED vars
    BY <1>11 DEF Disconnect, vars, LookInv, Retrieved
  <1> QED
    BY <1>2, <1>3, <1>4, <1>5, <1>6, <1>7, <1>8, <1>9, <1>10, <1>11 DEF Next

(* For any number of requests, with a connection that came about, every    *)
(* pointer to a reply that is followed is to one that arrived and is still *)
(* owned, whenever the connection breaks and whichever request is an error.*)
THEOREM NoReplyNoLook == Spec => []NoNullReply
  <1> DEFINE Safe == LookInv /\ NoNullReply
  <1>1. Init => Safe
    BY DEF Init, NoCall, LookInv, NoNullReply
  <1>2. IInv /\ Safe /\ [Next]_vars => Safe'
    BY LookStep DEF NoNullReply
  <1>3. Safe => NoNullReply
    OBVIOUS
  <1> QED BY <1>1, <1>2, <1>3, Initially, Inductive, PTL DEF Spec
=============================================================================
