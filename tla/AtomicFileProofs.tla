-------------------------- MODULE AtomicFileProofs --------------------------
(***************************************************************************)
(* WriteFileAtomic called by one process at a time is atomic, for every    *)
(* number of readers, inodes, texts and blocks, and whatever the kernel    *)
(* writes back and whenever the power fails.                               *)
(*                                                                         *)
(* The argument: the inode the writer is filling is reachable only under   *)
(* the temp name, on disk and off it, so nothing that reaches the target   *)
(* is ever written again; what is renamed onto the target was synced.      *)
(***************************************************************************)
EXTENDS AtomicFile, TLAPS

(* An inode that will not change any more and that a crash leaves alone. *)
Settled(i) == data[i] \in WholeFiles /\ dataOnDisk[i] = data[i]

(* The temp name leads to an inode nothing else leads to. *)
TempApart ==
  dir["temp"] # NoInode =>
    /\ dir["target"] # dir["temp"]
    /\ dirOnDisk["target"] # dir["temp"]
    /\ \A r \in Readers : reader[r].inode # dir["temp"]

TempApartOnDisk ==
  dirOnDisk["temp"] # NoInode => dirOnDisk["target"] # dirOnDisk["temp"]

TargetsSettled ==
  /\ dir["target"] # NoInode => Settled(dir["target"])
  /\ dirOnDisk["target"] # NoInode => Settled(dirOnDisk["target"])

ReaderInv(r) ==
  reader[r].inode # NoInode =>
    /\ Settled(reader[r].inode)
    /\ \A b \in 1..reader[r].read :
         reader[r].buffer[b] = data[reader[r].inode][b]

WriterInv(w) ==
  LET me == writer[w] IN
  /\ me.at \in {"write", "fsync"} =>
       /\ me.fd # NoInode
       /\ me.fd = dir["temp"]
       /\ \A b \in Blocks : b <= me.written => data[me.fd][b] = me.text
  /\ me.at = "fsync" => me.written = Size
  /\ me.at = "rename" =>
       /\ dir["temp"] # NoInode
       /\ data[dir["temp"]] = Whole(me.text)
       /\ Settled(dir["temp"])
  /\ me.at = "done" =>
       /\ dir["target"] # NoInode
       /\ data[dir["target"]] = Whole(me.text)
  /\ me.at = "failed" => dir["temp"] = NoInode

IInv ==
  /\ TypeOK
  /\ TempApart
  /\ TempApartOnDisk
  /\ TargetsSettled
  /\ \A r \in Readers : ReaderInv(r)
  /\ \A w \in Writers : WriterInv(w)

(* No two processes are inside the function for the same path. *)
OneWriter == \A u, w \in Writers : u = w

-----------------------------------------------------------------------------
(* The model's own values have the types its variables need. *)
LEMMA Typing ==
  /\ Truncated \in Data
  /\ \A v \in Values : Whole(v) \in Data
  /\ ClosedReader \in Reader
  /\ NoInode \notin Inodes
  BY SizeAssumption, NoInodeAssumption
  DEF Truncated, Whole, Data, ClosedReader, Reader

(* TypeOK is inductive on its own, with any number of writers. *)
LEMMA TypeStep == ASSUME TypeOK, [Next]_vars PROVE TypeOK'
  <1> USE SizeAssumption, Typing DEF TypeOK
  <1>1. ASSUME NEW w \in Writers, Open(w) PROVE TypeOK'
    <2>1. PICK i \in Inodes, v \in Values :
            /\ dir' = [dir EXCEPT !["temp"] = i]
            /\ data' = [data EXCEPT ![i] = Truncated]
            /\ dataOnDisk' = IF dir["temp"] = i THEN dataOnDisk
                             ELSE [dataOnDisk EXCEPT ![i] = Truncated]
            /\ writer' = [writer EXCEPT ![w] = [at |-> "write", text |-> v,
                                                fd |-> i, written |-> 0]]
      BY <1>1 DEF Open
    <2>2. [at |-> "write", text |-> v, fd |-> i, written |-> 0] \in Writer
      BY DEF Writer, WriterStates
    <2> QED BY <1>1, <2>1, <2>2 DEF Open, Directory, Names
  <1>2. ASSUME NEW w \in Writers, WriteSome(w) PROVE TypeOK'
    <2>1. PICK n \in (writer[w].written + 1)..Size :
            /\ data' = [data EXCEPT ![writer[w].fd] =
                          [b \in Blocks |->
                             IF b > writer[w].written /\ b <= n
                               THEN writer[w].text ELSE @[b]]]
            /\ writer' = [writer EXCEPT
                            ![w].written = n,
                            ![w].at = IF n = Size THEN "fsync" ELSE "write"]
      BY <1>2 DEF WriteSome
    <2>a. writer[w] \in Writer /\ n \in 0..Size
      BY DEF Writer
    <2>b. [writer[w] EXCEPT !.written = n,
                            !.at = IF n = Size THEN "fsync" ELSE "write"]
          \in Writer
      BY <2>a DEF Writer, WriterStates
    <2>2. writer' \in [Writers -> Writer]
      BY <2>1, <2>b
    <2>3. data' \in [Inodes -> Data]
      BY <2>1 DEF Writer, Data
    <2> QED BY <1>2, <2>2, <2>3 DEF WriteSome
  <1>3. ASSUME NEW w \in Writers, Fsync(w) PROVE TypeOK'
    BY <1>3 DEF Fsync, Writer, WriterStates
  <1>4. ASSUME NEW w \in Writers,
               \/ OpenFails(w) \/ WriteFails(w) \/ RenameFails(w) \/ Killed(w)
        PROVE  TypeOK'
    BY <1>4 DEF OpenFails, WriteFails, RenameFails, Killed, Goto,
                Writer, WriterStates
  <1>5. ASSUME NEW w \in Writers, Rename(w) \/ Unlink(w) PROVE TypeOK'
    BY <1>5 DEF Rename, Unlink, Goto, Writer, WriterStates, Directory, Names
  <1>6. ASSUME NEW r \in Readers, OpenTarget(r) \/ CloseTarget(r)
        PROVE  TypeOK'
    <2>1. [ClosedReader EXCEPT !.inode = dir["target"]] \in Reader
      BY DEF Reader, Directory, Names
    <2> QED BY <1>6, <2>1 DEF OpenTarget, CloseTarget
  <1>7. ASSUME NEW r \in Readers, ReadBlock(r) PROVE TypeOK'
    <2> DEFINE next == reader[r].read + 1
    <2>1. next \in Blocks /\ reader[r].inode \in Inodes
      BY <1>7 DEF ReadBlock, Reader, Blocks
    <2>2. data[reader[r].inode][next] \in Values \cup {NoData}
      BY <2>1 DEF Data
    <2>3. [reader[r] EXCEPT
             !.buffer = [reader[r].buffer EXCEPT
                           ![next] = data[reader[r].inode][next]],
             !.read = next] \in Reader
      <3>1. reader[r] \in Reader
        OBVIOUS
      <3>2. [reader[r].buffer EXCEPT ![next] = data[reader[r].inode][next]]
              \in Data
        BY <2>2, <3>1 DEF Reader, Data
      <3>3. next \in 0..Size
        BY <2>1 DEF Blocks
      <3> QED BY <3>1, <3>2, <3>3 DEF Reader
    <2>4. reader' = [reader EXCEPT
             ![r] = [reader[r] EXCEPT
                       !.buffer = [reader[r].buffer EXCEPT
                                     ![next] = data[reader[r].inode][next]],
                       !.read = next]]
      BY <1>7 DEF ReadBlock
    <2> QED BY <1>7, <2>3, <2>4 DEF ReadBlock
  <1>8. ASSUME NEW i \in Inodes, NEW b \in Blocks, WriteBack(i, b)
        PROVE  TypeOK'
    BY <1>8 DEF WriteBack, Data
  <1>9. CASE CommitDirectory
    BY <1>9 DEF CommitDirectory
  <1>10. CASE SystemCrash
    <2>1. ASSUME NEW w \in Writers
          PROVE  [writer[w] EXCEPT !.at = "idle", !.fd = NoInode,
                                   !.written = 0] \in Writer
      <3>1. writer[w] \in Writer
        OBVIOUS
      <3>2. 0 \in 0..Size
        OBVIOUS
      <3> QED BY <3>1, <3>2 DEF Writer, WriterStates
    <2> QED BY <1>10, <2>1 DEF SystemCrash
  <1>11. CASE UNCHANGED vars
    BY <1>11 DEF vars
  <1> QED BY <1>1, <1>2, <1>3, <1>4, <1>5, <1>6, <1>7, <1>8, <1>9, <1>10,
             <1>11 DEF Next, WriterStep, ReaderStep

-----------------------------------------------------------------------------
(* The strengthened invariant: initially, and along every step. *)
LEMMA IInvInit == Init => IInv
  <1> SUFFICES ASSUME Init PROVE IInv OBVIOUS
  <1>1. TypeOK
    BY SizeAssumption, Typing DEF Init, TypeOK, Directory, Writer
  <1>2. TempApart /\ TempApartOnDisk /\ TargetsSettled
    BY DEF Init, Names, TempApart, TempApartOnDisk, TargetsSettled
  <1>3. \A r \in Readers : ReaderInv(r)
    BY DEF Init, ClosedReader, ReaderInv
  <1>4. \A w \in Writers : WriterInv(w)
    BY DEF Init, WriterInv, Writer
  <1> QED BY <1>1, <1>2, <1>3, <1>4 DEF IInv

(* A step that moves one writer and leaves every file alone. *)
LEMMA WriterOnly ==
  ASSUME IInv, TypeOK', NEW w \in Writers, OneWriter,
         UNCHANGED <<dir, dirOnDisk, data, dataOnDisk, reader>>,
         WriterInv(w)'
  PROVE  IInv'
  BY DEF IInv, OneWriter, TempApart, TempApartOnDisk, TargetsSettled, Settled,
         ReaderInv

(* A step that moves readers only. *)
LEMMA ReaderOnly ==
  ASSUME IInv, TypeOK',
         UNCHANGED <<dir, dirOnDisk, data, dataOnDisk, writer>>,
         \A r \in Readers :
           /\ ReaderInv(r)'
           /\ \/ reader'[r].inode \in {reader[r].inode, NoInode}
              \/ reader'[r].inode = dir["target"]
  PROVE  IInv'
  BY DEF IInv, TempApart, TempApartOnDisk, TargetsSettled, Settled, WriterInv

(* A step that changes only the inode behind the temp name, and is not the *)
(* one that makes it the target.                                           *)
LEMMA TempOnly ==
  ASSUME IInv, TypeOK', NEW w \in Writers, OneWriter,
         UNCHANGED <<dirOnDisk, reader>>,
         dir'["target"] = dir["target"],
         TempApart',
         \A i \in Inodes : i # dir'["temp"] =>
            \/ data'[i] = data[i] /\ dataOnDisk'[i] = dataOnDisk[i]
            \/ /\ dir["target"] # i /\ dirOnDisk["target"] # i
               /\ \A r \in Readers : reader[r].inode # i,
         WriterInv(w)'
  PROVE  IInv'
  <1> USE DEF IInv
  <1>1. \A i \in Inodes :
          \/ dir["target"] = i
          \/ dirOnDisk["target"] = i
          \/ \E r \in Readers : reader[r].inode = i
          => data'[i] = data[i] /\ dataOnDisk'[i] = dataOnDisk[i]
    BY Typing DEF TempApart
  <1>2. TargetsSettled'
    BY <1>1, Typing DEF TargetsSettled, Settled, TypeOK, Directory, Names
  <1>3. TempApartOnDisk'
    BY DEF TempApartOnDisk
  <1>4. ASSUME NEW r \in Readers PROVE ReaderInv(r)'
    <2>1. reader[r].inode \in Inodes \cup {NoInode}
      BY DEF TypeOK, Reader
    <2> QED BY <1>1, <2>1 DEF ReaderInv, Settled
  <1> QED BY <1>2, <1>3, <1>4 DEF OneWriter

(* With one writer, every step keeps it. *)
LEMMA IInvStep == ASSUME OneWriter, IInv, [Next]_vars PROVE IInv'
  <1> USE SizeAssumption, Typing DEF IInv
  <1>0. TypeOK'
    BY TypeStep
  <1>1. ASSUME NEW w \in Writers, Open(w) PROVE IInv'
    <2>1. PICK i \in Inodes, v \in Values :
            /\ TempInode(i)
            /\ dir' = [dir EXCEPT !["temp"] = i]
            /\ data' = [data EXCEPT ![i] = Truncated]
            /\ dataOnDisk' = IF dir["temp"] = i THEN dataOnDisk
                             ELSE [dataOnDisk EXCEPT ![i] = Truncated]
            /\ writer' = [writer EXCEPT ![w] = [at |-> "write", text |-> v,
                                                fd |-> i, written |-> 0]]
      BY <1>1 DEF Open
    <2>2. UNCHANGED <<dirOnDisk, reader>>
      BY <1>1 DEF Open
    <2>3. dir'["temp"] = i /\ dir'["target"] = dir["target"]
      BY <2>1 DEF TypeOK, Directory, Names
    <2>4. TempApart'
      BY <2>1, <2>2, <2>3 DEF TempApart, TempInode, Unused, Names
    <2>5. WriterInv(w)'
      BY <2>1, <2>3 DEF WriterInv, TypeOK, Blocks
    <2>6. \A j \in Inodes : j # i =>
            data'[j] = data[j] /\ dataOnDisk'[j] = dataOnDisk[j]
      BY <2>1 DEF TypeOK
    <2> QED BY <1>0, <2>2, <2>3, <2>4, <2>5, <2>6, TempOnly
  <1>2. ASSUME NEW w \in Writers, WriteSome(w) PROVE IInv'
    <2> DEFINE me == writer[w]
    <2>1. PICK n \in (me.written + 1)..Size :
            /\ data' = [data EXCEPT ![me.fd] =
                          [b \in Blocks |->
                             IF b > me.written /\ b <= n
                               THEN me.text ELSE @[b]]]
            /\ writer' = [writer EXCEPT
                            ![w].written = n,
                            ![w].at = IF n = Size THEN "fsync" ELSE "write"]
      BY <1>2 DEF WriteSome
    <2>2. me.at = "write" /\ UNCHANGED <<dir, dirOnDisk, dataOnDisk, reader>>
      BY <1>2 DEF WriteSome
    <2>3. me.fd \in Inodes /\ me.fd = dir["temp"]
      BY <2>2 DEF WriterInv, TypeOK, Writer
    <2>4. /\ writer'[w].fd = me.fd /\ writer'[w].text = me.text
          /\ writer'[w].written = n
          /\ writer'[w].at = IF n = Size THEN "fsync" ELSE "write"
      BY <2>1 DEF TypeOK, Writer
    <2>5. \A b \in Blocks : b <= n => data'[me.fd][b] = me.text
      <3>1. data'[me.fd] = [b \in Blocks |->
                              IF b > me.written /\ b <= n
                                THEN me.text ELSE data[me.fd][b]]
        BY <2>1, <2>3 DEF TypeOK
      <3>2. me.written \in Nat
        BY DEF TypeOK, Writer
      <3>3. \A b \in Blocks : b <= me.written => data[me.fd][b] = me.text
        BY <2>2 DEF WriterInv
      <3> QED BY <3>1, <3>2, <3>3 DEF Blocks
    <2>6. WriterInv(w)'
      BY <2>2, <2>3, <2>4, <2>5 DEF WriterInv
    <2>7. \A j \in Inodes : j # dir["temp"] => data'[j] = data[j]
      BY <2>1, <2>3 DEF TypeOK
    <2> QED BY <1>0, <2>2, <2>6, <2>7, TempOnly DEF TempApart
  <1>3. ASSUME NEW w \in Writers, Fsync(w) PROVE IInv'
    <2> DEFINE i == writer[w].fd
    <2>1. /\ i \in Inodes /\ i = dir["temp"] /\ writer[w].written = Size
          /\ \A b \in Blocks : b <= Size => data[i][b] = writer[w].text
      BY <1>3 DEF Fsync, WriterInv, TypeOK, Writer
    <2>2. data[i] = Whole(writer[w].text)
      <3>1. data[i] \in [Blocks -> Values \cup {NoData}]
        BY <2>1 DEF TypeOK, Data
      <3>2. \A b \in Blocks : data[i][b] = writer[w].text
        BY <2>1 DEF Blocks
      <3> QED BY <3>1, <3>2 DEF Whole
    <2>3. dataOnDisk' = [dataOnDisk EXCEPT ![i] = data[i]]
      BY <1>3 DEF Fsync
    <2>4. /\ writer'[w].at = "rename" /\ writer'[w].text = writer[w].text
          /\ UNCHANGED <<dir, dirOnDisk, data, reader>>
      BY <1>3 DEF Fsync, TypeOK, Writer
    <2>5. WriterInv(w)'
      BY <2>1, <2>2, <2>3, <2>4
      DEF WriterInv, Settled, WholeFiles, TypeOK, Writer
    <2>6. \A j \in Inodes : j # dir["temp"] => dataOnDisk'[j] = dataOnDisk[j]
      BY <2>1, <2>3 DEF TypeOK
    <2> QED BY <1>0, <2>4, <2>5, <2>6, TempOnly DEF TempApart
  <1>4. ASSUME NEW w \in Writers,
               \/ OpenFails(w) \/ WriteFails(w) \/ RenameFails(w) \/ Killed(w)
        PROVE  IInv'
    <2>1. UNCHANGED <<dir, dirOnDisk, data, dataOnDisk, reader>>
      BY <1>4 DEF OpenFails, WriteFails, RenameFails, Killed
    <2>2. writer'[w].at \in {"refused", "unlink", "idle"}
      BY <1>4 DEF OpenFails, WriteFails, RenameFails, Killed, Goto, TypeOK,
                  Writer
    <2>3. WriterInv(w)'
      BY <2>2 DEF WriterInv
    <2> QED BY <1>0, <2>1, <2>3, WriterOnly
  <1>5. ASSUME NEW w \in Writers, Rename(w) PROVE IInv'
    <2> DEFINE i == dir["temp"]
    <2>1. /\ i \in Inodes /\ Settled(i) /\ data[i] = Whole(writer[w].text)
      BY <1>5 DEF Rename, WriterInv, TypeOK, Directory, Names
    <2>2. /\ dir'["target"] = i /\ dir'["temp"] = NoInode
          /\ UNCHANGED <<dirOnDisk, data, dataOnDisk, reader>>
      BY <1>5 DEF Rename, TypeOK, Directory, Names
    <2>3. writer'[w].at = "done" /\ writer'[w].text = writer[w].text
      BY <1>5 DEF Rename, Goto, TypeOK, Writer
    <2>4. TempApart' /\ TempApartOnDisk' /\ TargetsSettled'
      BY <2>1, <2>2 DEF TempApart, TempApartOnDisk, TargetsSettled, Settled
    <2>5. \A r \in Readers : ReaderInv(r)'
      BY <2>2 DEF ReaderInv, Settled
    <2>6. WriterInv(w)'
      BY <2>1, <2>2, <2>3 DEF WriterInv
    <2> QED BY <1>0, <2>4, <2>5, <2>6 DEF OneWriter
  <1>6. ASSUME NEW w \in Writers, Unlink(w) PROVE IInv'
    <2>1. /\ dir'["target"] = dir["target"] /\ dir'["temp"] = NoInode
          /\ UNCHANGED <<dirOnDisk, data, dataOnDisk, reader>>
      BY <1>6 DEF Unlink, TypeOK, Directory, Names
    <2>2. writer'[w].at = "failed"
      BY <1>6 DEF Unlink, Goto, TypeOK, Writer
    <2>3. WriterInv(w)' /\ TempApart'
      BY <2>1, <2>2 DEF WriterInv, TempApart
    <2> QED BY <1>0, <2>1, <2>3, TempOnly
  <1>7. ASSUME NEW r \in Readers, ReaderStep(r) PROVE IInv'
    <2>1. UNCHANGED <<dir, dirOnDisk, data, dataOnDisk, writer>>
      BY <1>7 DEF ReaderStep, OpenTarget, ReadBlock, CloseTarget
    <2>2. \A q \in Readers : q # r => reader'[q] = reader[q]
      BY <1>7 DEF ReaderStep, OpenTarget, ReadBlock, CloseTarget, TypeOK
    <2>3. CASE OpenTarget(r)
      <3>1. reader'[r].inode = dir["target"] /\ reader'[r].read = 0
        BY <2>3 DEF OpenTarget, ClosedReader, TypeOK
      <3>2. ReaderInv(r)'
        BY <2>1, <3>1 DEF ReaderInv, Settled, TargetsSettled
      <3> QED BY <1>0, <2>1, <2>2, <3>1, <3>2, ReaderOnly
                 DEF ReaderInv, Settled
    <2>4. CASE ReadBlock(r)
      <3> DEFINE next == reader[r].read + 1
      <3>1. /\ reader'[r].inode = reader[r].inode /\ reader'[r].read = next
            /\ reader'[r].buffer =
                 [reader[r].buffer EXCEPT ![next] = data[reader[r].inode][next]]
            /\ next \in Blocks
        BY <2>4 DEF ReadBlock, TypeOK, Reader, Blocks
      <3>2. ReaderInv(r)'
        BY <2>1, <2>4, <3>1
        DEF ReadBlock, ReaderInv, Settled, TypeOK, Reader, Data, Blocks
      <3>3. \A q \in Readers : q # r => ReaderInv(q)'
        BY <2>1, <2>2 DEF ReaderInv, Settled
      <3>4. \A q \in Readers : reader'[q].inode = reader[q].inode
        BY <2>2, <3>1
      <3> QED BY <1>0, <2>1, <3>2, <3>3, <3>4, ReaderOnly
    <2>5. CASE CloseTarget(r)
      <3>1. reader'[r].inode = NoInode
        BY <2>5 DEF CloseTarget, ClosedReader, TypeOK
      <3> QED BY <1>0, <2>1, <2>2, <3>1, ReaderOnly DEF ReaderInv, Settled
    <2> QED BY <1>7, <2>3, <2>4, <2>5 DEF ReaderStep
  <1>8. ASSUME NEW i \in Inodes, NEW b \in Blocks, WriteBack(i, b)
        PROVE  IInv'
    <2>1. UNCHANGED <<dir, dirOnDisk, data, writer, reader>>
      BY <1>8 DEF WriteBack
    <2>2. \A j \in Inodes : dataOnDisk[j] = data[j] => dataOnDisk'[j] = data[j]
      BY <1>8 DEF WriteBack, TypeOK, Data
    <2>3. \A j \in Inodes : Settled(j) => Settled(j)'
      BY <2>1, <2>2 DEF Settled
    <2>4. \A r \in Readers : ReaderInv(r)'
      BY <2>1, <2>3 DEF ReaderInv, TypeOK, Reader
    <2>5. \A w \in Writers : WriterInv(w)'
      BY <2>1, <2>3 DEF WriterInv, TypeOK, Directory, Names
    <2>6. TempApart' /\ TempApartOnDisk' /\ TargetsSettled'
      BY <2>1, <2>3 DEF TempApart, TempApartOnDisk, TargetsSettled, TypeOK,
                        Directory, Names
    <2> QED BY <1>0, <2>4, <2>5, <2>6
  <1>9. CASE CommitDirectory
    BY <1>0, <1>9 DEF CommitDirectory, TempApart, TempApartOnDisk,
                      TargetsSettled, Settled, ReaderInv, WriterInv
  <1>10. CASE SystemCrash
    <2>1. /\ dir' = dirOnDisk /\ dirOnDisk' = dirOnDisk
          /\ data' = dataOnDisk /\ dataOnDisk' = dataOnDisk
          /\ \A r \in Readers : reader'[r].inode = NoInode
          /\ \A w \in Writers : writer'[w].at = "idle"
      BY <1>10 DEF SystemCrash, ClosedReader, TypeOK, Writer
    <2>2. TempApart' /\ TempApartOnDisk' /\ TargetsSettled'
      BY <2>1 DEF TempApart, TempApartOnDisk, TargetsSettled, Settled
    <2>3. \A r \in Readers : ReaderInv(r)'
      BY <2>1 DEF ReaderInv
    <2>4. \A w \in Writers : WriterInv(w)'
      BY <2>1 DEF WriterInv
    <2> QED BY <1>0, <2>2, <2>3, <2>4
  <1>11. CASE UNCHANGED vars
    BY <1>0, <1>11 DEF vars, TempApart, TempApartOnDisk, TargetsSettled,
                       Settled, ReaderInv, WriterInv
  <1> QED BY <1>1, <1>2, <1>3, <1>4, <1>5, <1>6, <1>7, <1>8, <1>9, <1>10,
             <1>11 DEF Next, WriterStep

(* The strengthened invariant holds, and what it was strengthened from.    *)
THEOREM AtomicInvariant == ASSUME OneWriter PROVE Spec => []IInv
  <1>1. IInv /\ [Next]_vars => IInv'
    BY IInvStep
  <1> QED BY <1>1, IInvInit, PTL DEF Spec

(* Every value a variable takes is of its type, with any number of writers.*)
THEOREM TypeCorrect == Spec => []TypeOK
  <1>1. Init => TypeOK
    BY IInvInit DEF IInv
  <1>2. TypeOK /\ [Next]_vars => TypeOK'
    BY TypeStep
  <1> QED BY <1>1, <1>2, PTL DEF Spec

(* posix.h:27-29: a concurrent reader sees one whole text, old or new.     *)
THEOREM ReadsWhole == ASSUME OneWriter PROVE Spec => []ReadsAreWhole
  <1>1. IInv => ReadsAreWhole
    <2> SUFFICES ASSUME IInv, NEW r \in Readers, reader[r].inode # NoInode
                 PROVE  \E v \in Values : \A b \in 1..reader[r].read :
                           reader[r].buffer[b] = v
      BY DEF ReadsAreWhole
    <2>1. PICK v \in Values : data[reader[r].inode] = Whole(v)
      BY DEF IInv, ReaderInv, Settled, WholeFiles
    <2>2. reader[r].read \in 0..Size
      BY DEF IInv, TypeOK, Reader
    <2>3. \A b \in 1..reader[r].read : b \in Blocks
      BY <2>2, SizeAssumption DEF Blocks
    <2> QED BY <2>1, <2>3 DEF IInv, ReaderInv, Whole
  <1> QED BY <1>1, AtomicInvariant, PTL

(* posix.h:27-29: so does whoever comes after a crash.                     *)
THEOREM CrashSafe == ASSUME OneWriter PROVE Spec => []CrashLeavesWhole
  <1>1. IInv => CrashLeavesWhole
    BY DEF IInv, CrashLeavesWhole, TargetsSettled, Settled
  <1> QED BY <1>1, AtomicInvariant, PTL

(* A call that returned success put its text at the target.                *)
THEOREM ResultsAreHonest == ASSUME OneWriter PROVE Spec => []SuccessIsInPlace
  <1>1. IInv => SuccessIsInPlace
    BY DEF IInv, SuccessIsInPlace, WriterInv
  <1> QED BY <1>1, AtomicInvariant, PTL

(* A call that failed after open() left no temp file behind.               *)
THEOREM FailureCleansUp == ASSUME OneWriter PROVE Spec => []FailureLeavesNoTemp
  <1>1. IInv => FailureLeavesNoTemp
    BY DEF IInv, FailureLeavesNoTemp, WriterInv
  <1> QED BY <1>1, AtomicInvariant, PTL

-----------------------------------------------------------------------------
(* The refinement: only rename, the directory's write-back, a crash and a  *)
(* reader's open and close are visible at the register.                    *)

(* What the register's variables stand for. *)
value == Content(dir["target"])
stable == ContentOnDisk(dirOnDisk["target"])
opened == [r \in Readers |-> Content(reader[r].inode)]

(* The inodes that show through those variables. *)
Visible(i) ==
  \/ dir["target"] = i
  \/ dirOnDisk["target"] = i
  \/ \E r \in Readers : reader[r].inode = i

(* The first state is one the register may start in. *)
LEMMA RegisterInit == Init => Register!Init
  BY DEF Init, Register!Init, Content, ContentOnDisk, Names, ClosedReader

(* A step that leaves the visible inodes alone is a stutter.               *)
LEMMA Invisible ==
  ASSUME TypeOK,
         dir'["target"] = dir["target"],
         dirOnDisk'["target"] = dirOnDisk["target"],
         \A r \in Readers : reader'[r].inode = reader[r].inode,
         \A i \in Inodes : Visible(i) =>
           data'[i] = data[i] /\ dataOnDisk'[i] = dataOnDisk[i]
  PROVE  UNCHANGED <<value, stable, opened>>
  <1> USE DEF Visible
  <1>1. dir["target"] \in Inodes \cup {NoInode}
    BY DEF TypeOK, Directory, Names
  <1>2. dirOnDisk["target"] \in Inodes \cup {NoInode}
    BY DEF TypeOK, Directory, Names
  <1>3. \A r \in Readers : reader[r].inode \in Inodes \cup {NoInode}
    BY DEF TypeOK, Reader
  <1>4. value' = value
    BY <1>1 DEF value, Content
  <1>5. stable' = stable
    BY <1>2 DEF stable, ContentOnDisk
  <1>6. \A r \in Readers : Content(reader[r].inode)' = Content(reader[r].inode)
    BY <1>3 DEF Content
  <1>7. opened' = opened
    BY <1>6 DEF opened
  <1> QED BY <1>4, <1>5, <1>7

(* Every step is a step of the register or a stutter. *)
LEMMA RegisterStep ==
  ASSUME OneWriter, IInv, [Next]_vars
  PROVE  [Register!Next]_<<value, stable, opened>>
  <1> USE SizeAssumption, Typing DEF IInv
  <1>t. /\ dir["target"] \in Inodes \cup {NoInode}
        /\ dir["temp"] \in Inodes \cup {NoInode}
        /\ dirOnDisk["target"] \in Inodes \cup {NoInode}
    BY DEF TypeOK, Directory, Names
  <1>v. ASSUME NEW i \in Inodes, Visible(i) PROVE Settled(i) /\ i # dir["temp"]
    BY <1>v DEF Visible, TargetsSettled, ReaderInv, TempApart
  <1>1. ASSUME NEW w \in Writers, Open(w)
        PROVE  UNCHANGED <<value, stable, opened>>
    <2>1. PICK i \in Inodes :
            /\ TempInode(i)
            /\ dir' = [dir EXCEPT !["temp"] = i]
            /\ data' = [data EXCEPT ![i] = Truncated]
            /\ dataOnDisk' = IF dir["temp"] = i THEN dataOnDisk
                             ELSE [dataOnDisk EXCEPT ![i] = Truncated]
      BY <1>1 DEF Open
    <2>2. UNCHANGED <<dirOnDisk, reader>> /\ dir'["target"] = dir["target"]
      BY <1>1, <2>1 DEF Open, TypeOK, Directory, Names
    <2>3. ~Visible(i)
      BY <1>v, <2>1 DEF TempInode, Unused, Visible, Names
    <2>4. \A j \in Inodes : Visible(j) =>
            data'[j] = data[j] /\ dataOnDisk'[j] = dataOnDisk[j]
      BY <2>1, <2>3 DEF TypeOK
    <2> QED BY <2>2, <2>4, Invisible
  <1>2. ASSUME NEW w \in Writers, WriteSome(w) \/ Fsync(w)
        PROVE  UNCHANGED <<value, stable, opened>>
    <2>1. /\ writer[w].fd = dir["temp"]
          /\ UNCHANGED <<dir, dirOnDisk, reader>>
      BY <1>2 DEF WriteSome, Fsync, WriterInv
    <2>2. \A j \in Inodes : j # dir["temp"] =>
            data'[j] = data[j] /\ dataOnDisk'[j] = dataOnDisk[j]
      BY <1>2, <2>1 DEF WriteSome, Fsync, TypeOK
    <2> QED BY <1>v, <2>1, <2>2, Invisible
  <1>3. ASSUME NEW w \in Writers,
               \/ OpenFails(w) \/ WriteFails(w) \/ RenameFails(w)
               \/ Unlink(w) \/ Killed(w)
        PROVE  UNCHANGED <<value, stable, opened>>
    <2>1. /\ UNCHANGED <<dirOnDisk, data, dataOnDisk, reader>>
          /\ dir'["target"] = dir["target"]
      BY <1>3 DEF OpenFails, WriteFails, RenameFails, Unlink, Killed,
                  TypeOK, Directory, Names
    <2> QED BY <2>1, Invisible
  <1>4. ASSUME NEW w \in Writers, Rename(w) PROVE Register!Write
    <2>1. dir["temp"] \in Inodes /\ Settled(dir["temp"])
      BY <1>4, <1>t DEF Rename, WriterInv
    <2>2. /\ dir'["target"] = dir["temp"]
          /\ UNCHANGED <<dirOnDisk, data, dataOnDisk, reader>>
      BY <1>4 DEF Rename, TypeOK, Directory, Names
    <2>3. Content(dir["target"])' \in WholeFiles
      BY <2>1, <2>2 DEF Content, Settled
    <2> QED BY <2>2, <2>3 DEF Register!Write, Content, ContentOnDisk
  <1>5. ASSUME NEW r \in Readers, OpenTarget(r) PROVE Register!BeginRead(r)
    <2>1. /\ reader[r].inode = NoInode
          /\ reader' = [reader EXCEPT ![r] = [ClosedReader EXCEPT
                                                !.inode = dir["target"]]]
          /\ UNCHANGED <<dir, dirOnDisk, data, dataOnDisk>>
      BY <1>5 DEF OpenTarget
    <2>2. Content(reader[r].inode) = NoInode
      BY <2>1 DEF Content
    <2>3. Content(dir["target"]) # NoInode
      BY <1>5, NoFileAssumption
      DEF OpenTarget, Content, TargetsSettled, Settled
    <2>4. /\ reader'[r].inode = dir["target"]
          /\ \A q \in Readers : q # r => reader'[q] = reader[q]
      BY <2>1 DEF TypeOK, ClosedReader
    <2>5. [q \in Readers |-> Content(reader[q].inode)]'
            = [[q \in Readers |-> Content(reader[q].inode)]
                 EXCEPT ![r] = Content(dir["target"])]
      <3>1. \A q \in Readers : Content(reader[q].inode)' =
              IF q = r THEN Content(dir["target"]) ELSE Content(reader[q].inode)
        BY <2>1, <2>4 DEF Content
      <3> QED BY <3>1
    <2> QED BY <2>1, <2>2, <2>3, <2>5
            DEF Register!BeginRead, Content, ContentOnDisk
  <1>6. ASSUME NEW r \in Readers, ReadBlock(r)
        PROVE  UNCHANGED <<value, stable, opened>>
    <2>1. /\ UNCHANGED <<dir, dirOnDisk, data, dataOnDisk>>
          /\ \A q \in Readers : reader'[q].inode = reader[q].inode
      BY <1>6 DEF ReadBlock, TypeOK, Reader
    <2> QED BY <2>1, Invisible
  <1>7. ASSUME NEW r \in Readers, CloseTarget(r) PROVE Register!EndRead(r)
    <2>1. /\ reader[r].inode # NoInode
          /\ reader' = [reader EXCEPT ![r] = ClosedReader]
          /\ UNCHANGED <<dir, dirOnDisk, data, dataOnDisk>>
      BY <1>7 DEF CloseTarget
    <2>2. Content(reader[r].inode) # NoInode
      BY <2>1, NoFileAssumption DEF Content, ReaderInv, Settled
    <2>3. /\ reader'[r].inode = NoInode
          /\ \A q \in Readers : q # r => reader'[q] = reader[q]
      BY <2>1 DEF TypeOK, ClosedReader
    <2>4. [q \in Readers |-> Content(reader[q].inode)]'
            = [[q \in Readers |-> Content(reader[q].inode)]
                 EXCEPT ![r] = NoInode]
      <3>1. \A q \in Readers : Content(reader[q].inode)' =
              IF q = r THEN NoInode ELSE Content(reader[q].inode)
        BY <2>1, <2>3 DEF Content
      <3> QED BY <3>1
    <2> QED BY <2>1, <2>2, <2>4 DEF Register!EndRead, Content, ContentOnDisk
  <1>8. ASSUME NEW i \in Inodes, NEW b \in Blocks, WriteBack(i, b)
        PROVE  UNCHANGED <<value, stable, opened>>
    <2>1. UNCHANGED <<dir, dirOnDisk, data, reader>>
      BY <1>8 DEF WriteBack
    <2>2. \A j \in Inodes : Settled(j) => dataOnDisk'[j] = dataOnDisk[j]
      BY <1>8 DEF WriteBack, Settled, TypeOK
    <2> QED BY <1>v, <2>1, <2>2, Invisible
  <1>9. CASE CommitDirectory
    <2>1. /\ dirOnDisk' = dir /\ UNCHANGED <<dir, data, dataOnDisk, reader>>
      BY <1>9 DEF CommitDirectory
    <2>2. ContentOnDisk(dirOnDisk["target"])' = Content(dir["target"])
      BY <2>1 DEF ContentOnDisk, Content, TargetsSettled, Settled
    <2>3. Register!Harden
      BY <2>1, <2>2 DEF Register!Harden, Content
    <2> QED BY <2>3 DEF Register!Next
  <1>10. CASE SystemCrash
    <2>1. /\ dir' = dirOnDisk /\ data' = dataOnDisk
          /\ UNCHANGED <<dirOnDisk, dataOnDisk>>
          /\ \A r \in Readers : reader'[r].inode = NoInode
      BY <1>10 DEF SystemCrash, ClosedReader
    <2>2. Content(dir["target"])' = ContentOnDisk(dirOnDisk["target"])
      BY <2>1 DEF ContentOnDisk, Content
    <2>3. [r \in Readers |-> Content(reader[r].inode)]'
            = [r \in Readers |-> NoInode]
      BY <2>1 DEF Content
    <2>4. Register!Crash
      BY <2>1, <2>2, <2>3 DEF Register!Crash, ContentOnDisk
    <2> QED BY <2>4 DEF Register!Next
  <1>11. CASE UNCHANGED vars
    BY <1>11 DEF vars, value, stable, opened, Content, ContentOnDisk
  <1> QED BY <1>1, <1>2, <1>3, <1>4, <1>5, <1>6, <1>7, <1>8, <1>9, <1>10,
             <1>11 DEF Next, WriterStep, ReaderStep, Register!Next

(* WriteFileAtomic, called by one process at a time, implements the atomic *)
(* register: all a caller may assume is AtomicRegister.                    *)
THEOREM Refinement == ASSUME OneWriter PROVE Spec => ImplementsRegister
  <1>1. IInv /\ [Next]_vars => [Register!Next]_<<value, stable, opened>>
    BY RegisterStep
  <1>2. IInv /\ [Next]_vars => [Register!Next]_(Register!vars)
    BY <1>1 DEF Register!vars, value, stable, opened
  <1> QED BY <1>2, RegisterInit, AtomicInvariant, PTL
          DEF Spec, ImplementsRegister, Register!Spec
=============================================================================
