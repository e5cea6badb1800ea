---------------------------- MODULE MCAtomicFile ----------------------------
(* AtomicFile on small instances. *)
EXTENDS AtomicFile, TLC

(* Inodes, texts and readers are interchangeable.  Used only with state    *)
(* invariants: a symmetry set is not sound under a temporal property.      *)
Symmetric ==
  Permutations(Inodes) \cup Permutations(Values) \cup Permutations(Readers)

(* The blocks of an unused inode are never read again: open() starts it    *)
(* afresh.  States that differ only there count as one.                    *)
Used(contents) ==
  [i \in Inodes |-> IF Unused(i) THEN Truncated ELSE contents[i]]

UsedView == <<dir, dirOnDisk, Used(data), Used(dataOnDisk), writer, reader>>
=============================================================================
