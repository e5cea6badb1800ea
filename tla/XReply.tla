-------------------------------- MODULE XReply --------------------------------
(***************************************************************************)
(* Questions to the X server: the wrappers of utils/xcbutils.h, each of    *)
(* which owns the cookie of a request and then its reply, and what is      *)
(* built on them: the primary output (display.cpp) and the size of the     *)
(* marker wallpaper (integration/peony.cpp).                               *)
(*                                                                         *)
(* libxcb and the X server are external.  A reply is wanted until it is    *)
(* fetched or discarded, and is memory until it is freed; it may be an     *)
(* error, the outputs may change between two replies, and the connection   *)
(* may be lost, or never come about.                                       *)
(***************************************************************************)
EXTENDS Integers, FiniteSets

CONSTANTS
  MaxRequests   \* bound: requests sent during a call

ASSUME RequestsAssumption == MaxRequests \in Nat

Slots == {"primary", "output", "crtc"}   \* the local variables, or a caller's
Numbers == 1..MaxRequests

(* A reply's data is what is so of it: which fields are set, that there is *)
(* one crtc or more that an output could have ("crtcs") or that it has one *)
(* ("crtc"), that the answer to a question is a success ("status").        *)
PrimaryData == SUBSET {"output"}
OutputData == SUBSET {"crtcs", "modes", "status", "crtc"}
CrtcData == SUBSET {"outputs", "mode", "status", "area"}
Data == PrimaryData \cup OutputData \cup CrtcData

Null == {"null"}   \* no reply

VARIABLES
  server,    \* the connection: "up", "lost", or "none" if it never came about
  call,      \* the running function, where it is, and its answer
  wrapper,   \* the wrapper in each variable
  replies,   \* per sequence number, what became of the reply
  next       \* the next sequence number

vars == <<server, call, wrapper, replies, next>>

(* A cookie or a reply is a sequence number, and 0 is none and null.       *)
Dead == [live |-> FALSE, retrieved |-> FALSE, cookie |-> 0, reply |-> 0]

(* Faulty variant: the cookie is not initialised, here to a number beyond  *)
(* those sent.                                                             *)
DefaultUnset == [Dead EXCEPT !.live = TRUE, !.cookie = MaxRequests + 1]

Default == [Dead EXCEPT !.live = TRUE]

Unused == [state |-> "unused", data |-> {}]

TypeOK ==
  /\ server \in {"up", "lost", "none"}
  /\ call \in [op : {"none", "PrimaryOutput", "markerSize", "client"},
               at : {"idle", "root", "askPrimary", "testPrimary", "usePrimary",
                     "askOutput", "testOutput", "name", "askCrtc", "rect", "use", "leave",
                     "done", "crashed"},
               answer : {"none", "nullopt", "name", "fallback", "size"}]
  /\ wrapper \in [Slots -> [live : BOOLEAN, retrieved : BOOLEAN,
                            cookie : Numbers \cup {0}, reply : Numbers \cup {0}]]
  /\ replies \in [Numbers -> [state : {"unused", "wanted", "memory", "taken",
                                       "freed", "discarded", "error"}, data : Data]]
  /\ next \in 1..(MaxRequests + 1)

NoCall == [op |-> "none", at |-> "idle", answer |-> "none"]

Init ==
  /\ server \in {"up", "none"}
  /\ call = NoCall
  /\ wrapper = [s \in Slots |-> Dead]
  /\ replies = [n \in Numbers |-> Unused]
  /\ next = 1

-----------------------------------------------------------------------------
(* AbstractWrapper. *)

(* The constructor sends the request; on a lost connection the cookie is 0.*)
Request(s) ==
  IF server = "up"
  THEN /\ next \in Numbers
       /\ wrapper' = [wrapper EXCEPT ![s] = [Default EXCEPT !.cookie = next]]
       /\ replies' = [replies EXCEPT ![next].state = "wanted"]
       /\ next' = next + 1
  ELSE /\ wrapper' = [wrapper EXCEPT ![s] = Default]
       /\ UNCHANGED <<replies, next>>

Retrieved(w) == w.retrieved \/ w.cookie = 0

(* getReply, which finds data in the reply, or gets none.                  *)
GetReply(s, possible, data) ==
  LET w == wrapper[s] IN
  /\ UNCHANGED next
  /\ IF Retrieved(w)
     THEN /\ data = IF w.reply = 0 THEN Null ELSE replies[w.reply].data
          /\ UNCHANGED <<wrapper, replies>>
     ELSE /\ data \in {Null} \cup (IF server = "up" THEN possible ELSE {})
          /\ wrapper' = [wrapper EXCEPT ![s].retrieved = TRUE,
                                        ![s].reply = IF data = Null THEN 0 ELSE w.cookie]
          /\ replies' = [replies EXCEPT ![w.cookie] =
                           IF data = Null THEN [@ EXCEPT !.state = "error"]
                           ELSE [state |-> "memory", data |-> data]]

(* cleanup, by the destructor and before an assignment.                    *)
Cleanup(w, rs) ==
  IF ~Retrieved(w) THEN [rs EXCEPT ![w.cookie].state = "discarded"]
  ELSE IF w.reply # 0 THEN [rs EXCEPT ![w.reply].state = "freed"]
  ELSE rs

(* Faulty variant: the other one still thinks that it has a reply to get.  *)
GivenKept(w) == [w EXCEPT !.reply = 0]

(* takeFromOther, on the other: a reply it has is taken from it, and one   *)
(* it has not is no longer its own.                                        *)
Given(w) == [w EXCEPT !.reply = 0, !.retrieved = TRUE]

(* operator=, and the copy constructor where s is not live.                *)
Copy(s, o) ==
  /\ replies' = IF wrapper[s].live THEN Cleanup(wrapper[s], replies) ELSE replies
  /\ wrapper' = [wrapper EXCEPT ![s] = wrapper[o], ![o] = Given(@)]

(* take, after its getReply: the reply is the caller's to free. *)
Take(s) ==
  /\ Retrieved(wrapper[s])
  /\ wrapper' = [wrapper EXCEPT ![s].reply = 0]
  /\ replies' = IF wrapper[s].reply = 0 THEN replies
                ELSE [replies EXCEPT ![wrapper[s].reply].state = "taken"]

Destroy(s) ==
  /\ wrapper' = [wrapper EXCEPT ![s] = Dead]
  /\ replies' = Cleanup(wrapper[s], replies)

-----------------------------------------------------------------------------
(* The functions that ask. *)

Goto(from, to) == call.at = from /\ call' = [call EXCEPT !.at = to]
Going(to) == [call EXCEPT !.at = to]
Answering(a) == [call EXCEPT !.at = "leave", !.answer = a]
Answer(a) == call' = Answering(a)

(* A pointer to a reply is followed, to look for some facts.               *)
Look(data, facts, found, missing) ==
  call' = IF data = Null THEN Going("crashed")
          ELSE IF facts \subseteq data THEN found ELSE missing

Call ==
  /\ call.at = "idle"
  /\ \E op \in {"PrimaryOutput", "markerSize", "client"} :
       call' = [NoCall EXCEPT !.op = op, !.at = IF op = "client" THEN "use" ELSE "root"]
  /\ UNCHANGED <<server, wrapper, replies, next>>

(* rootWindow: the setup of a connection that never came about is null,    *)
(* and its first screen is looked for all the same.                        *)
RootWindow ==
  /\ Goto("root", IF server = "none" THEN "crashed" ELSE "askPrimary")
  /\ UNCHANGED <<server, wrapper, replies, next>>

AskPrimary ==
  /\ Goto("askPrimary", "testPrimary")
  /\ Request("primary")
  /\ UNCHANGED server

NoAnswer == IF call.op = "PrimaryOutput" THEN "nullopt" ELSE "fallback"

(* Faulty variant: the reply is used at once. *)
TestPrimaryForgotten ==
  /\ Goto("testPrimary", "usePrimary")
  /\ UNCHANGED <<server, wrapper, replies, next>>

TestPrimary ==
  /\ call.at = "testPrimary"
  /\ \E data \in PrimaryData \cup {Null} :
       /\ GetReply("primary", PrimaryData, data)
       /\ IF data = Null THEN Answer(NoAnswer) ELSE Goto("testPrimary", "usePrimary")
  /\ UNCHANGED server

(* primary->output, wherever the pointer points.                           *)
UsePrimary ==
  /\ call.at = "usePrimary"
  /\ \E data \in PrimaryData \cup {Null} :
       /\ GetReply("primary", PrimaryData, data)
       /\ Look(data, {}, Going("askOutput"), Going("askOutput"))
  /\ UNCHANGED server

AskOutput ==
  /\ Goto("askOutput", IF call.op = "PrimaryOutput" THEN "name" ELSE "testOutput")
  /\ Request("output")
  /\ UNCHANGED server

(* There is no output 0 to ask about, if there is no primary one.          *)
Outputs ==
  IF replies[wrapper["primary"].reply].data = {"output"} THEN OutputData ELSE {}

(* OutputInfo::name, of an output that could be driven.                    *)
Name ==
  /\ call.at = "name"
  /\ \E data \in OutputData \cup {Null} :
       /\ GetReply("output", Outputs, data)
       /\ IF data = Null THEN Answer("nullopt")
          ELSE Look(data, {"crtcs", "modes", "status"}, Answering("name"), Answering("nullopt"))
  /\ UNCHANGED server

(* !output || output->crtc == XCB_NONE *)
TestOutput ==
  /\ call.at = "testOutput"
  /\ \E data \in OutputData \cup {Null} :
       /\ GetReply("output", Outputs, data)
       /\ IF data = Null THEN Answer("fallback")
          ELSE Look(data, {"crtc"}, Going("askCrtc"), Answering("fallback"))
  /\ UNCHANGED server

(* It follows the pointer once more that TestOutput has just followed.     *)
AskCrtc ==
  /\ Goto("askCrtc", "rect")
  /\ Request("crtc")
  /\ UNCHANGED server

(* CrtcInfo::rect, empty without a mode, and what markerSize makes of it.  *)
Rect ==
  /\ call.at = "rect"
  /\ \E data \in CrtcData \cup {Null} :
       /\ GetReply("crtc", CrtcData, data)
       /\ IF data = Null THEN Answer("fallback")
          ELSE Look(data, {"outputs", "mode", "status", "area"},
                    Answering("size"), Answering("fallback"))
  /\ UNCHANGED server

(* Some other user of the wrappers. *)
Client ==
  /\ call.op = "client" /\ call.at = "use"
  /\ \E s \in Slots :
       \/ ~wrapper[s].live /\ Request(s)
       \/ ~wrapper[s].live /\ wrapper' = [wrapper EXCEPT ![s] = Default]
          /\ UNCHANGED <<replies, next>>
       \/ wrapper[s].live /\ \E data \in {Null, {}} : GetReply(s, { {} }, data)
       \/ wrapper[s].live /\ Take(s) /\ UNCHANGED next
       \/ wrapper[s].live /\ Destroy(s) /\ UNCHANGED next
       \/ \E o \in Slots \ {s} : wrapper[o].live /\ Copy(s, o) /\ UNCHANGED next
  /\ UNCHANGED <<server, call>>

ClientEnds ==
  /\ call.op = "client" /\ Goto("use", "leave")
  /\ UNCHANGED <<server, wrapper, replies, next>>

(* The end of the scope, a destructor at a time. *)
Leave ==
  /\ call.at = "leave"
  /\ \E s \in Slots : wrapper[s].live /\ Destroy(s)
  /\ UNCHANGED <<server, call, next>>

Return ==
  /\ Goto("leave", "done")
  /\ \A s \in Slots : ~wrapper[s].live
  /\ UNCHANGED <<server, wrapper, replies, next>>

(* The next call may reuse the numbers: all replies are settled. *)
Again ==
  /\ call.at = "done"
  /\ call' = NoCall
  /\ replies' = [n \in Numbers |-> Unused]
  /\ next' = 1
  /\ UNCHANGED <<server, wrapper>>

(* The connection breaks, for good: connection() keeps it. *)
Disconnect ==
  /\ server = "up"
  /\ server' = "lost"
  /\ UNCHANGED <<call, wrapper, replies, next>>

Next ==
  \/ Call \/ RootWindow \/ AskPrimary \/ TestPrimary \/ UsePrimary \/ AskOutput
  \/ Name \/ TestOutput \/ AskCrtc \/ Rect
  \/ Client \/ ClientEnds \/ Leave \/ Return \/ Again
  \/ Disconnect

Spec == Init /\ [][Next]_vars

-----------------------------------------------------------------------------
(* Properties. *)

(* xcbutils.h:68-71: every reply that is wanted will be fetched or         *)
(* discarded, and every one in memory freed, by exactly one wrapper,       *)
(* however the wrappers are copied and assigned; and no wrapper refers to  *)
(* one that is gone.                                                       *)
OneOwner ==
  \A n \in Numbers :
    LET waiting == {s \in Slots : ~Retrieved(wrapper[s]) /\ wrapper[s].cookie = n}
        holding == {s \in Slots : wrapper[s].reply = n}
    IN /\ Cardinality(waiting) = IF replies[n].state = "wanted" THEN 1 ELSE 0
       /\ Cardinality(holding) = IF replies[n].state = "memory" THEN 1 ELSE 0

(* display.cpp:14-18, peony.cpp:107-116: where a pointer to a reply is     *)
(* followed the reply has arrived and is still owned, whenever the         *)
(* connection breaks and whichever request is an error, if there was a     *)
(* connection.                                                             *)
NoNullReply == server # "none" => call.at # "crashed"

(* display.h:14-15 and peony.cpp:98-101: without an X server there is no   *)
(* primary output, and the marker has the size of the fallback.            *)
HeadlessIsAnswered == call.at # "crashed"
=============================================================================
