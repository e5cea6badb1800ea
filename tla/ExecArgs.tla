------------------------------- MODULE ExecArgs -------------------------------
(***************************************************************************)
(* The ExecStart text of a unit file (exec_args.cpp): an argument is       *)
(* escaped so that systemd neither splits it nor substitutes in it, and a  *)
(* line is read back character by character.  A line and an argument are   *)
(* sequences of characters; "tab" and "newline" stand for those two.       *)
(***************************************************************************)
EXTENDS Integers, Sequences, SequencesExt

Quoting == {" ", "tab", "\"", "'", ";", "\\"}
Doubling == {"$", "%"}

Double(arg) ==
  FlattenSeq([i \in DOMAIN arg |->
    IF arg[i] \in Doubling THEN <<arg[i], arg[i]>> ELSE <<arg[i]>>])

Quote(text) ==
  <<"\"">> \o
  FlattenSeq([i \in DOMAIN text |->
    IF text[i] \in {"\"", "\\"} THEN <<"\\", text[i]>> ELSE <<text[i]>>])
  \o <<"\"">>

(* As EscapeExecArg, but a backslash alone is no reason to quote and the   *)
(* dollar is left to systemd.                                              *)
EscapeForShell(arg) ==
  IF ToSet(arg) \cap (Quoting \ {"\\"}) = {} THEN arg ELSE Quote(arg)

EscapeExecArg(arg) ==
  IF ToSet(arg) \cap Quoting = {} THEN Double(arg) ELSE Quote(Double(arg))

(* Left to right, the first of a doubled pair stays and the second goes: a *)
(* character goes when an odd number of its like stands right before it.   *)
HalvesSecond(arg, i) ==
  /\ arg[i] \in Doubling
  /\ LET start == CHOOSE s \in 1..i :
           /\ \A k \in s..i : arg[k] = arg[i]
           /\ s = 1 \/ arg[s - 1] # arg[i]
     IN  (i - start) % 2 = 1

Halve(arg) ==
  FlattenSeq([i \in DOMAIN arg |-> IF HalvesSecond(arg, i) THEN <<>> ELSE <<arg[i]>>])

ExecLine(argv) ==
  FlattenSeq([k \in DOMAIN argv |->
    (IF k = 1 THEN <<>> ELSE <<" ">>) \o EscapeExecArg(argv[k])])
=============================================================================
