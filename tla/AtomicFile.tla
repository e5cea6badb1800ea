----------------------------- MODULE AtomicFile -----------------------------
(***************************************************************************)
(* we::WriteFileAtomic (posix.h:30-74), system call by system call, over a *)
(* file system with a page cache: what a process sees (dir, data) and what *)
(* a crash leaves behind (dirOnDisk, dataOnDisk) are two things, brought   *)
(* together by fsync and, in any order, by the kernel's own write-back.    *)
(*                                                                         *)
(* The config (Config::Save), the systemd unit (unit_file::Install), the   *)
(* previous-wallpaper record and nothing else are written through it, each *)
(* by a one-shot CLI process; Writers are the processes that may be inside *)
(* the function for the SAME path at one time.                             *)
(*                                                                         *)
(* A file of Size blocks is a function from 1..Size; NoData marks a block  *)
(* past the end of the file.                                               *)
(***************************************************************************)
EXTENDS Integers

CONSTANTS
  Writers,   \* processes that can run WriteFileAtomic on the path
  Readers,   \* processes that can read the path (Config::Load, systemd)
  Values,    \* the texts being written
  Inodes,    \* the file system's inodes
  Size,      \* blocks in a whole file
  NoData,    \* "past the end of the file"
  NoInode    \* "no such directory entry", "no file"

ASSUME SizeAssumption == Size \in Nat \ {0}
ASSUME NoDataAssumption == NoData \notin Values
ASSUME NoInodeAssumption == NoInode \notin Inodes

Blocks == 1..Size
Data == [Blocks -> Values \cup {NoData}]

(* A whole file holding the text v, and the file O_TRUNC leaves. *)
Whole(v) == [b \in Blocks |-> v]
Truncated == [b \in Blocks |-> NoData]
WholeFiles == {Whole(v) : v \in Values}

ASSUME NoFileAssumption == NoInode \notin WholeFiles

Names == {"target", "temp"}
Directory == [Names -> Inodes \cup {NoInode}]

VARIABLES
  dir,         \* directory entries as processes see them
  dirOnDisk,   \* directory entries a crash leaves
  data,        \* inode contents as processes see them
  dataOnDisk,  \* inode contents a crash leaves
  writer,      \* per writer: control state, text, descriptor, blocks written
  reader       \* per reader: the inode it has open, the blocks it has read

vars == <<dir, dirOnDisk, data, dataOnDisk, writer, reader>>

WriterStates ==
  {"idle", "write", "fsync", "rename", "unlink", "done", "failed", "refused"}

Writer == [at : WriterStates, text : Values, fd : Inodes \cup {NoInode},
           written : 0..Size]
Reader == [inode : Inodes \cup {NoInode}, buffer : Data, read : 0..Size]

TypeOK ==
  /\ dir \in Directory
  /\ dirOnDisk \in Directory
  /\ data \in [Inodes -> Data]
  /\ dataOnDisk \in [Inodes -> Data]
  /\ writer \in [Writers -> Writer]
  /\ reader \in [Readers -> Reader]

ClosedReader == [inode |-> NoInode, buffer |-> Truncated, read |-> 0]

Init ==
  /\ dir = [n \in Names |-> NoInode]
  /\ dirOnDisk = [n \in Names |-> NoInode]
  /\ data = [i \in Inodes |-> Truncated]
  /\ dataOnDisk = [i \in Inodes |-> Truncated]
  /\ writer \in [Writers -> {w \in Writer : /\ w.at = "idle"
                                            /\ w.fd = NoInode
                                            /\ w.written = 0}]
  /\ reader = [r \in Readers |-> ClosedReader]

-----------------------------------------------------------------------------
(* The file system. *)

(* An inode nothing names and nobody holds open. *)
Unused(i) ==
  /\ \A n \in Names : dir[n] # i /\ dirOnDisk[n] # i
  /\ \A w \in Writers : writer[w].fd # i
  /\ \A r \in Readers : reader[r].inode # i

(* What open(O_CREAT) of the temp name leads to: the leftover, if there is *)
(* one, or an inode that has no blocks yet, on disk either.                *)
TempInode(i) ==
  IF dir["temp"] # NoInode THEN i = dir["temp"] ELSE Unused(i)

(* Write-back reaches one block of one inode: in any order, at any time. *)
WriteBack(i, b) ==
  /\ ~Unused(i)
  /\ dataOnDisk[i][b] # data[i][b]
  /\ dataOnDisk' = [dataOnDisk EXCEPT ![i][b] = data[i][b]]
  /\ UNCHANGED <<dir, dirOnDisk, data, writer, reader>>

(* The directory reaches the disk; rename moves both entries in one go. *)
CommitDirectory ==
  /\ dirOnDisk # dir
  /\ dirOnDisk' = dir
  /\ UNCHANGED <<dir, data, dataOnDisk, writer, reader>>

-----------------------------------------------------------------------------
(* WriteFileAtomic, one action per system call. *)

Goto(w, at) == writer' = [writer EXCEPT ![w].at = at]

(* Faulty variant: the target is opened and truncated in place. *)
OpenInPlace(w) ==
  /\ writer[w].at \in {"idle", "done", "failed", "refused"}
  /\ \E i \in Inodes, v \in Values :
       /\ IF dir["target"] # NoInode THEN i = dir["target"] ELSE TempInode(i)
       /\ dir' = [dir EXCEPT !["temp"] = i]
       /\ data' = [data EXCEPT ![i] = Truncated]
       /\ writer' = [writer EXCEPT ![w] = [at |-> "write", text |-> v,
                                           fd |-> i, written |-> 0]]
  /\ UNCHANGED <<dirOnDisk, dataOnDisk, reader>>

(* A process calls WriteFileAtomic; a finished call may be followed by the *)
(* next one.  open() truncates whatever temp file is there.                *)
Open(w) ==
  /\ writer[w].at \in {"idle", "done", "failed", "refused"}
  /\ \E i \in Inodes, v \in Values :
       /\ TempInode(i)
       /\ dir' = [dir EXCEPT !["temp"] = i]
       /\ data' = [data EXCEPT ![i] = Truncated]
       /\ dataOnDisk' = IF dir["temp"] = i THEN dataOnDisk
                        ELSE [dataOnDisk EXCEPT ![i] = Truncated]
       /\ writer' = [writer EXCEPT ![w] = [at |-> "write", text |-> v,
                                           fd |-> i, written |-> 0]]
  /\ UNCHANGED <<dirOnDisk, reader>>

(* open() fails: the caller gets a FileError and nothing was touched. *)
OpenFails(w) ==
  /\ writer[w].at \in {"idle", "done", "failed"}
  /\ Goto(w, "refused")
  /\ UNCHANGED <<dir, dirOnDisk, data, dataOnDisk, reader>>

(* Faulty variant: the loop runs one block past the text. *)
WritePastTheEnd(w) ==
  /\ writer[w].at = "write"
  /\ \E n \in (writer[w].written + 1)..(Size + 1) :
       writer' = [writer EXCEPT
                    ![w].written = n,
                    ![w].at = IF n > Size THEN "fsync" ELSE "write"]
  /\ UNCHANGED <<dir, dirOnDisk, data, dataOnDisk, reader>>

(* write() takes some of the remaining blocks, possibly fewer than asked:  *)
(* the loop goes on from where it stopped.                                 *)
WriteSome(w) ==
  LET me == writer[w] IN
  /\ me.at = "write"
  /\ \E n \in (me.written + 1)..Size :
       /\ data' = [data EXCEPT ![me.fd] =
                     [b \in Blocks |-> IF b > me.written /\ b <= n
                                         THEN me.text ELSE @[b]]]
       /\ writer' = [writer EXCEPT
                       ![w].written = n,
                       ![w].at = IF n = Size THEN "fsync" ELSE "write"]
  /\ UNCHANGED <<dir, dirOnDisk, dataOnDisk, reader>>

(* Faulty variant: the rename without the fsync before it. *)
FsyncForgotten(w) ==
  /\ writer[w].at = "fsync"
  /\ writer' = [writer EXCEPT ![w].at = "rename", ![w].fd = NoInode]
  /\ UNCHANGED <<dir, dirOnDisk, data, dataOnDisk, reader>>

(* fsync() and close(): the temp file's data is on disk before the rename. *)
Fsync(w) ==
  /\ writer[w].at = "fsync"
  /\ dataOnDisk' = [dataOnDisk EXCEPT ![writer[w].fd] = data[writer[w].fd]]
  /\ writer' = [writer EXCEPT ![w].at = "rename", ![w].fd = NoInode]
  /\ UNCHANGED <<dir, dirOnDisk, data, reader>>

(* write() fails, or fsync() or close(): the file is closed and the temp   *)
(* name is about to be unlinked.                                           *)
WriteFails(w) ==
  /\ writer[w].at \in {"write", "fsync"}
  /\ writer' = [writer EXCEPT ![w].at = "unlink", ![w].fd = NoInode]
  /\ UNCHANGED <<dir, dirOnDisk, data, dataOnDisk, reader>>

(* rename() over the target: whatever inode the temp name leads to now. *)
Rename(w) ==
  /\ writer[w].at = "rename"
  /\ dir["temp"] # NoInode
  /\ dir' = [dir EXCEPT !["target"] = dir["temp"], !["temp"] = NoInode]
  /\ Goto(w, "done")
  /\ UNCHANGED <<dirOnDisk, data, dataOnDisk, reader>>

(* Faulty variant: the result of rename() is not looked at. *)
RenameUnchecked(w) ==
  /\ writer[w].at = "rename"
  /\ Goto(w, "done")
  /\ UNCHANGED <<dir, dirOnDisk, data, dataOnDisk, reader>>

(* rename() fails: on its own, or because the temp name is gone (ENOENT). *)
RenameFails(w) ==
  /\ writer[w].at = "rename"
  /\ Goto(w, "unlink")
  /\ UNCHANGED <<dir, dirOnDisk, data, dataOnDisk, reader>>

(* Faulty variant: the failure path returns without the unlink. *)
UnlinkForgotten(w) ==
  /\ writer[w].at = "unlink"
  /\ Goto(w, "failed")
  /\ UNCHANGED <<dir, dirOnDisk, data, dataOnDisk, reader>>

(* The failure path removes the temp file by name. *)
Unlink(w) ==
  /\ writer[w].at = "unlink"
  /\ dir' = [dir EXCEPT !["temp"] = NoInode]
  /\ Goto(w, "failed")
  /\ UNCHANGED <<dirOnDisk, data, dataOnDisk, reader>>

(* The process is killed between two system calls; its descriptor closes   *)
(* and the temp file, if any, stays.  A later process starts afresh.       *)
Killed(w) ==
  /\ writer[w].at \in {"write", "fsync", "rename", "unlink"}
  /\ writer' = [writer EXCEPT ![w].at = "idle", ![w].fd = NoInode,
                              ![w].written = 0]
  /\ UNCHANGED <<dir, dirOnDisk, data, dataOnDisk, reader>>

-----------------------------------------------------------------------------
(* A reader of the target: open it, read it block by block, close it. *)

OpenTarget(r) ==
  /\ reader[r].inode = NoInode
  /\ dir["target"] # NoInode
  /\ reader' = [reader EXCEPT ![r] = [ClosedReader EXCEPT
                                        !.inode = dir["target"]]]
  /\ UNCHANGED <<dir, dirOnDisk, data, dataOnDisk, writer>>

ReadBlock(r) ==
  LET next == reader[r].read + 1 IN
  /\ reader[r].inode # NoInode
  /\ next <= Size
  /\ reader' = [reader EXCEPT
                  ![r].buffer[next] = data[reader[r].inode][next],
                  ![r].read = next]
  /\ UNCHANGED <<dir, dirOnDisk, data, dataOnDisk, writer>>

CloseTarget(r) ==
  /\ reader[r].inode # NoInode
  /\ reader[r].read = Size
  /\ reader' = [reader EXCEPT ![r] = ClosedReader]
  /\ UNCHANGED <<dir, dirOnDisk, data, dataOnDisk, writer>>

(* Power loss or kernel panic: the caches and every process are gone. *)
SystemCrash ==
  /\ dir' = dirOnDisk
  /\ data' = dataOnDisk
  /\ writer' = [w \in Writers |-> [writer[w] EXCEPT !.at = "idle",
                                     !.fd = NoInode, !.written = 0]]
  /\ reader' = [r \in Readers |-> ClosedReader]
  /\ UNCHANGED <<dirOnDisk, dataOnDisk>>

-----------------------------------------------------------------------------
WriterStep(w) ==
  \/ Open(w) \/ OpenFails(w) \/ WriteSome(w) \/ WriteFails(w) \/ Fsync(w)
  \/ Rename(w) \/ RenameFails(w) \/ Unlink(w) \/ Killed(w)

ReaderStep(r) == OpenTarget(r) \/ ReadBlock(r) \/ CloseTarget(r)

Next ==
  \/ \E w \in Writers : WriterStep(w)
  \/ \E r \in Readers : ReaderStep(r)
  \/ \E i \in Inodes, b \in Blocks : WriteBack(i, b)
  \/ CommitDirectory
  \/ SystemCrash

Spec == Init /\ [][Next]_vars

-----------------------------------------------------------------------------
(* Properties. *)

(* "A concurrent reader sees either the whole old file or the whole new    *)
(* one": what a reader of the target has read so far is the beginning of   *)
(* one whole text, however writes and renames fell between its blocks.     *)
ReadsAreWhole ==
  \A r \in Readers : reader[r].inode # NoInode =>
    \E v \in Values : \A b \in 1..reader[r].read : reader[r].buffer[b] = v

(* "... or a crash": were the power lost now, the target would be absent   *)
(* or a whole file, whichever blocks write-back has reached.               *)
CrashLeavesWhole ==
  dirOnDisk["target"] # NoInode =>
    dataOnDisk[dirOnDisk["target"]] \in WholeFiles

(* A write that reported success put its own text there, in full. *)
SuccessIsInPlace ==
  \A w \in Writers : writer[w].at = "done" =>
    /\ dir["target"] # NoInode
    /\ data[dir["target"]] = Whole(writer[w].text)

(* "The temp file is removed on every failure path": a write that got past *)
(* open() and then failed leaves no temp file for the next one to find.    *)
FailureLeavesNoTemp ==
  \A w \in Writers : writer[w].at = "failed" => dir["temp"] = NoInode

(* The file system's view of the target as an atomic register. *)
Content(i) == IF i = NoInode THEN NoInode ELSE data[i]
ContentOnDisk(i) == IF i = NoInode THEN NoInode ELSE dataOnDisk[i]

Register == INSTANCE AtomicRegister WITH
  Contents <- WholeFiles,
  Absent <- NoInode,
  Closed <- NoInode,
  value <- Content(dir["target"]),
  stable <- ContentOnDisk(dirOnDisk["target"]),
  opened <- [r \in Readers |-> Content(reader[r].inode)]

(* WriteFileAtomic implements the register: the rename is its write, and   *)
(* every other system call is invisible.                                   *)
ImplementsRegister == Register!Spec
=============================================================================
