--------------------------- MODULE AtomicRegister ---------------------------
(***************************************************************************)
(* What WriteFileAtomic promises its callers (the comments of posix.h and  *)
(* config.h): a file is a register.  A write replaces the whole value at   *)
(* once or not at all; a read returns a value the register had while the   *)
(* read was under way; a system crash may take the register back to the    *)
(* value it had at an earlier moment, but never to anything else.          *)
(***************************************************************************)
CONSTANTS
  Contents,   \* the whole files: what a completed write can leave behind
  Absent,     \* the register before the first write: there is no file
  Closed,     \* "no read in progress"
  Readers     \* the processes that read it

VARIABLES
  value,      \* what a read that starts now returns
  stable,     \* what a crash leaves behind
  opened      \* per reader: what its read in progress returns, or Closed

vars == <<value, stable, opened>>

Init ==
  /\ value = Absent
  /\ stable = Absent
  /\ opened = [r \in Readers |-> Closed]

(* The commit point of a write. *)
Write ==
  /\ value' \in Contents
  /\ UNCHANGED <<stable, opened>>

(* The file system makes the current value the one that survives. *)
Harden ==
  /\ stable' = value
  /\ UNCHANGED <<value, opened>>

(* Power is lost: the register is back at its stable value. *)
Crash ==
  /\ value' = stable
  /\ opened' = [r \in Readers |-> Closed]
  /\ UNCHANGED stable

BeginRead(r) ==
  /\ opened[r] = Closed
  /\ value # Absent
  /\ opened' = [opened EXCEPT ![r] = value]
  /\ UNCHANGED <<value, stable>>

EndRead(r) ==
  /\ opened[r] # Closed
  /\ opened' = [opened EXCEPT ![r] = Closed]
  /\ UNCHANGED <<value, stable>>

Next ==
  \/ Write
  \/ Harden
  \/ Crash
  \/ \E r \in Readers : BeginRead(r) \/ EndRead(r)

Spec == Init /\ [][Next]_vars
=============================================================================
