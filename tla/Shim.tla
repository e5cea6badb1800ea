-------------------------------- MODULE Shim --------------------------------
(***************************************************************************)
(* shim/peony-alpha.cpp: what the preloaded library does to the property   *)
(* changes of the desktop, while several threads of the desktop call its   *)
(* two hooks, and what it writes to the log that all processes share.      *)
(* (Its third hook, on QPixmap, is ShimMatches of PeonyIntegration.)       *)
(*                                                                         *)
(* The X server is external: it interns atoms, or fails to, and applies a  *)
(* change to the property of one window.  An atom is its name, and Zero    *)
(* the number 0, what a cached atom is until it is interned.               *)
(***************************************************************************)
EXTENDS Integers, Sequences, SequencesExt, FiniteSets

CONSTANTS
  Threads,      \* the threads of the desktop
  MaxAtoms,     \* atoms in a change the hooks look at (32 in the code)
  Requests,     \* the changes the desktop asks for
  MaxRequests,  \* bound: changes asked for in a run
  MaxFaults     \* bound: atoms not interned, log writes cut short or failed

TypeNames == {"_TYPE", "DESKTOP", "NORMAL"}
StateNames == {"_STATE", "BELOW"}
Names == TypeNames \cup StateNames
Zero == "0"

Vias == {"xcb", "xlib"}
Properties == {"_TYPE", "_STATE"}
Changes == [via : Vias, property : Properties,
            mode : {"Replace", "Append", "Prepend"}, data : Seq(Names \cup {"OTHER"})]

ASSUME ShimAssumption ==
  /\ MaxAtoms \in Nat \ {0} /\ MaxRequests \in Nat /\ MaxFaults \in Nat
  /\ Requests \subseteq Changes /\ Requests # {}
  /\ Threads # {} /\ {"open", "done", "nobody", "other"} \cap Threads = {}

VARIABLES
  enabled,  \* PEONY_ALPHA_WALLPAPER is set; it never changes
  cache,    \* per hook, its static atoms and the guard of their initialisation
  thread,   \* per thread, where it is in a hook, for which change
  server,   \* the properties of the window, as the X server has them
  wanted,   \* the properties it would have without the library (auxiliary)
  log,      \* who left a line unfinished at the end of the log; a torn line
  asked,    \* changes asked for
  faults    \* what went wrong so far

vars == <<enabled, cache, thread, server, wanted, log, asked, faults>>

Idle == [at |-> "idle", request |-> CHOOSE r \in Requests : TRUE, list |-> <<>>]

Lists == Seq(Names \cup {"OTHER", Zero})
Calls == [at : {"idle", "atoms", "interning", "report", "rewrite", "log", "forward"},
          request : Requests, list : Lists]

TypeOK ==
  /\ enabled \in BOOLEAN
  /\ cache \in [Vias -> [guard : {"open", "done"} \cup Threads, known : SUBSET Names]]
  /\ thread \in [Threads -> Calls]
  /\ server \in [Properties -> Lists]
  /\ wanted \in [Properties -> Lists]
  /\ log \in [open : {"nobody"} \cup Threads, torn : BOOLEAN, short : BOOLEAN]
  /\ asked \in 0..MaxRequests
  /\ faults \in 0..MaxFaults

Init ==
  /\ enabled \in BOOLEAN
  /\ cache = [v \in Vias |-> [guard |-> "open", known |-> {}]]
  /\ thread = [t \in Threads |-> Idle]
  /\ server = [p \in Properties |-> <<>>]
  /\ wanted = server
  /\ log = [open |-> "nobody", torn |-> FALSE, short |-> FALSE]
  /\ asked = 0
  /\ faults = 0

Goto(t, from, to) ==
  /\ thread[t].at = from
  /\ thread' = [thread EXCEPT ![t].at = to]

Via(t) == thread[t].request.via

-----------------------------------------------------------------------------
(* The hooks. *)

LooksAt(r) == enabled /\ Len(r.data) \in 1..MaxAtoms

(* A thread of the desktop changes a property. *)
Enter(t) ==
  /\ thread[t].at = "idle"
  /\ asked < MaxRequests
  /\ \E r \in Requests :
       thread' = [thread EXCEPT ![t] = [at |-> IF LooksAt(r) THEN "atoms" ELSE "forward",
                                        request |-> r, list |-> r.data]]
  /\ asked' = asked + 1
  /\ UNCHANGED <<enabled, cache, server, wanted, log, faults>>

(* The first one there initialises the static, and interns the atoms.      *)
Guard(t) ==
  /\ cache[Via(t)].guard = "open"
  /\ Goto(t, "atoms", "interning")
  /\ cache' = [cache EXCEPT ![Via(t)].guard = t]
  /\ UNCHANGED <<enabled, server, wanted, log, asked, faults>>

(* An atom that was not interned stays 0, and is not asked for again.      *)
Intern(t) ==
  /\ Goto(t, "interning", "report")
  /\ \E known \in SUBSET Names :
       /\ faults + Cardinality(Names \ known) <= MaxFaults
       /\ cache' = [cache EXCEPT ![Via(t)].known = known]
       /\ faults' = faults + Cardinality(Names \ known)
  /\ UNCHANGED <<enabled, server, wanted, log, asked>>

(* Faulty variant: a plain flag, which is raised by the first one.         *)
FindAtomsUnguarded(t) ==
  /\ cache[Via(t)].guard # "open"
  /\ Goto(t, "atoms", "rewrite")
  /\ UNCHANGED <<enabled, cache, server, wanted, log, asked, faults>>

(* The others wait for it. *)
FindAtoms(t) ==
  /\ cache[Via(t)].guard = "done"
  /\ Goto(t, "atoms", "rewrite")
  /\ UNCHANGED <<enabled, cache, server, wanted, log, asked, faults>>

Atom(via, name) == IF name \in cache[via].known THEN name ELSE Zero

Retyped(via, list) ==
  [k \in DOMAIN list |-> IF list[k] = Atom(via, "DESKTOP") THEN Atom(via, "NORMAL")
                                                          ELSE list[k]]

(* Faulty variant: BELOW takes the place of what was there. *)
LoweredOnly(via, list) == <<Atom(via, "BELOW")>>

(* The buffer of the xcb hook has room for 33 atoms, too, but is not used  *)
(* for a list of 32.                                                       *)
Lowered(via, list) ==
  IF Contains(list, Atom(via, "BELOW")) \/ (via = "xcb" /\ Len(list) = MaxAtoms)
  THEN list ELSE Append(list, Atom(via, "BELOW"))

Rewritten(r) ==
  CASE r.property = Atom(r.via, "_TYPE") -> Retyped(r.via, r.data)
    [] r.property = Atom(r.via, "_STATE") -> Lowered(r.via, r.data)
    [] OTHER -> r.data

Rewrite(t) ==
  LET r == thread[t].request IN
  /\ thread[t].at = "rewrite"
  /\ thread' = [thread EXCEPT ![t].list = Rewritten(r),
                              ![t].at = IF Rewritten(r) # r.data THEN "log" ELSE "forward"]
  /\ UNCHANGED <<enabled, cache, server, wanted, log, asked, faults>>

-----------------------------------------------------------------------------
(* shim_log, for the atoms and for a rewritten change. *)

(* Faulty variant: no newline is added to a line that lacks one. *)
WrittenUnended(w, ends) ==
  [log EXCEPT !.open = w, !.torn = @ \/ log.open \notin {"nobody", w}]

(* The file after a write by w, which ends the line or does not.           *)
Written(w, ends) ==
  [log EXCEPT !.open = IF ends THEN "nobody" ELSE w,
              !.torn = @ \/ log.open \notin {"nobody", w}]

(* The line is done with; the guard of the static is released. *)
LineDone(t) ==
  \/ /\ Goto(t, "report", "rewrite")
     /\ cache' = [cache EXCEPT ![Via(t)].guard = "done"]
  \/ /\ Goto(t, "log", "forward")
     /\ UNCHANGED cache

(* Faulty variant: the prefix and the message are two writes. *)
WriteLineInTwo(t) ==
  /\ thread[t].at \in {"report", "log"}
  /\ \/ /\ log.open # t
        /\ log' = Written(t, FALSE)
        /\ UNCHANGED <<cache, thread>>
     \/ /\ log.open = t
        /\ LineDone(t)
        /\ log' = Written(t, TRUE)
  /\ UNCHANGED <<enabled, server, wanted, asked, faults>>

(* write takes the line, or what is left of it. *)
WriteLine(t) ==
  /\ LineDone(t)
  /\ log' = Written(t, TRUE)
  /\ UNCHANGED <<enabled, server, wanted, asked, faults>>

(* write takes the beginning, and is called again for the rest. *)
WriteShort(t) ==
  /\ thread[t].at \in {"report", "log"}
  /\ faults < MaxFaults
  /\ faults' = faults + 1
  /\ log' = [Written(t, FALSE) EXCEPT !.short = TRUE]
  /\ UNCHANGED <<enabled, cache, thread, server, wanted, asked>>

(* Faulty variant: who cannot report the atoms keeps the others out. *)
WriteFailsGuarding(t) ==
  /\ Goto(t, "report", "rewrite") \/ Goto(t, "log", "forward")
  /\ faults < MaxFaults
  /\ faults' = faults + 1
  /\ UNCHANGED <<enabled, cache, server, wanted, log, asked>>

(* write fails, or there is no log: the line is lost, or its rest. *)
WriteFails(t) ==
  /\ LineDone(t)
  /\ faults < MaxFaults
  /\ faults' = faults + 1
  /\ UNCHANGED <<enabled, server, wanted, log, asked>>

(* A line of another process. *)
OtherLine ==
  /\ log' = Written("other", TRUE)
  /\ UNCHANGED <<enabled, cache, thread, server, wanted, asked, faults>>

-----------------------------------------------------------------------------
(* The real xcb_change_property or XChangeProperty. *)

Changed(old, mode, data) ==
  CASE mode = "Replace" -> data
    [] mode = "Append" -> old \o data
    [] mode = "Prepend" -> data \o old

Forward(t) ==
  LET r == thread[t].request IN
  /\ thread[t].at = "forward"
  /\ server' = [server EXCEPT ![r.property] = Changed(@, r.mode, thread[t].list)]
  /\ wanted' = [wanted EXCEPT ![r.property] = Changed(@, r.mode, r.data)]
  /\ thread' = [thread EXCEPT ![t] = Idle]
  /\ UNCHANGED <<enabled, cache, log, asked, faults>>

Hook(t) ==
  \/ Guard(t) \/ Intern(t) \/ FindAtoms(t) \/ Rewrite(t)
  \/ WriteLine(t) \/ WriteShort(t) \/ WriteFails(t) \/ Forward(t)

Next ==
  \/ \E t \in Threads : Enter(t) \/ Hook(t)
  \/ OtherLine

Spec == Init /\ [][Next]_vars

(* The threads of the desktop are scheduled, and the X server answers.     *)
FairSpec == Spec /\ \A t \in Threads : WF_vars(Hook(t))

-----------------------------------------------------------------------------
(* Properties. *)

Interned(names) ==
  \A v \in Vias : cache[v].guard = "done" => names \subseteq cache[v].known

(* peony-alpha.cpp:27-33 and :303: no thread gets a DESKTOP type past the  *)
(* library, whichever of them came first and interned the atoms: the       *)
(* window has the types it would have, with NORMAL for DESKTOP.  Not so    *)
(* with an atom that the X server did not intern, and not for a list       *)
(* longer than the hooks look at.  Other types, and all without            *)
(* PEONY_ALPHA_WALLPAPER (:40), arrive as they are in any case.            *)
NeverDesktop ==
  LET types == wanted["_TYPE"] IN
  /\ enabled /\ Interned(TypeNames) /\ Len(types) <= MaxAtoms =>
       server["_TYPE"] = [k \in DOMAIN types |->
                            IF types[k] = "DESKTOP" THEN "NORMAL" ELSE types[k]]
  /\ ~enabled \/ ~Contains(types, "DESKTOP") => server["_TYPE"] = types

(* One list is the other with BELOW added in places: before[i] times ahead *)
(* of the i-th atom.                                                       *)
WithMoreBelow(list, more) ==
  \E before \in [DOMAIN list -> 0..(Len(more) - Len(list))] :
    /\ \A i \in DOMAIN list : more[i + before[i]] = list[i]
    /\ \A i, j \in DOMAIN list : i < j => before[i] <= before[j]
    /\ \A k \in DOMAIN more :
         more[k] = "BELOW" \/ \E i \in DOMAIN list : k = i + before[i]

(* peony-alpha.cpp:34-36: the window stays below, whatever states it is    *)
(* given or adds, and loses none of them and their order.  An empty list   *)
(* is not looked at, nor is the longest one completed by the xcb hook.     *)
(* Without the variable the states arrive as they are.                     *)
StaysBelow ==
  /\ ~enabled => server["_STATE"] = wanted["_STATE"]
  /\ enabled /\ Interned(StateNames) =>
       /\ Len(wanted["_STATE"]) \in 1..(MaxAtoms - 1) =>
            Contains(server["_STATE"], "BELOW")
       /\ WithMoreBelow(wanted["_STATE"], server["_STATE"])

(* peony-alpha.cpp:124-125: no line of the log is torn by another thread   *)
(* or process, unless a write was short.                                   *)
LinesWhole == log.torn => log.short

(* peony-alpha.cpp:126-128 and :303: no thread is held up for good by the  *)
(* log, by an atom that is not interned, or by the thread that interns.    *)
CallsReturn == \A t \in Threads : thread[t].at # "idle" ~> thread[t].at = "idle"
=============================================================================
