------------------------- MODULE ProcessRunnerProofs -------------------------
(***************************************************************************)
(* Proofs about ProcessRunner, for every number of pieces of output: the   *)
(* captured output is what was written, a program reported as finished had *)
(* its output captured to the end, the results of a call say what          *)
(* happened, and nothing is left behind.                                   *)
(***************************************************************************)
EXTENDS ProcessRunner, SequenceTheorems, TLAPS

-----------------------------------------------------------------------------
(* The inductive invariant, by subject. *)

(* The pieces of stream s that were read: all but those in the pipe.       *)
NumRead(s) == sent[s] - Len(pipe[s])

(* The pipe of s holds the last pieces written, in their order.            *)
PipeInv ==
  \A s \in Streams :
    /\ Len(pipe[s]) <= sent[s]
    /\ \A k \in 1..Len(pipe[s]) :
         pipe[s][k] = [stream |-> s, number |-> NumRead(s) + k]

(* What was captured of s are its first pieces, and all that were read.    *)
CaptureInv ==
  /\ \A i \in DOMAIN call.output :
       call.output[i].number <= NumRead(call.output[i].stream)
  /\ \A s \in Streams : \A n \in 1..NumRead(s) :
       CapturedIn(s, n, Len(call.output))

(* Before the start there is nothing but the call.                         *)
FreshInv ==
  call.at \in {"idle", "start"} =>
    /\ child = NoProcess /\ helper = NoProcess
    /\ \A s \in Streams : pipe[s] = <<>> /\ sent[s] = 0
    /\ call.output = <<>>
    /\ ~call.timedOut /\ ~call.unread /\ ~call.gaveUp

(* Nothing is in the pipes, and nothing will be.                           *)
Dry == Open = {} /\ \A s \in Streams : pipe[s] = <<>>

(* While a program is run by RunCaptured or RunAndWait.                    *)
RunInv ==
  /\ call.at \in {"drain", "kill", "killed", "wait"} =>
       child.state \in {"running", "zombie"} /\ ~call.gaveUp
  /\ call.at \in {"drain", "kill", "killed"} => call.op = "RunCaptured"
  /\ call.at = "wait" => call.op \in {"RunCaptured", "RunAndWait"}
  /\ call.at = "wait" /\ call.op = "RunCaptured" => Dry
  /\ call.at \in {"drain", "wait"} => ~call.timedOut /\ ~call.unread
  /\ call.at \in {"kill", "killed"} => call.timedOut \/ call.unread
  /\ call.timedOut => late /\ child.state # "none"

(* While SpawnDetached waits for its first child.                          *)
SpawnInv ==
  /\ call.op = "SpawnDetached" => call.at \in {"start", "reap", "done"}
  /\ call.at = "reap" =>
       /\ call.op = "SpawnDetached" /\ ~call.gaveUp
       /\ \/ child.state = "forked" /\ helper.state = "none"
          \/ child.state = "zombie" /\ (child.code = 0 <=> helper.state # "none")

(* When the call has returned: a status is a buried child's, and its       *)
(* output was captured to the end; without one there is a reason.          *)
DoneInv ==
  call.at = "done" =>
    /\ ~call.gaveUp => child.state \in {"none", "gone"}
    /\ call.op = "RunCaptured" =>
         /\ call.result = -1 =>
              child.state = "none" \/ call.timedOut \/ call.unread \/ call.gaveUp
         /\ call.result # -1 =>
              /\ Dry
              /\ child.state = "gone" /\ call.result = child.code
              /\ ~call.timedOut
    /\ call.op = "SpawnDetached" =>
         /\ ~call.gaveUp
         /\ call.result = 1 <=> helper.state # "none"

IInv ==
  /\ TypeOK /\ PipeInv /\ CaptureInv /\ OutputInOrder
  /\ FreshInv /\ RunInv /\ SpawnInv /\ DoneInv

-----------------------------------------------------------------------------
(* Types. *)

(* The records after one update or several. *)
ProcessStates == {"none", "forked", "running", "zombie", "gone"}
CallStates ==
  {"idle", "start", "drain", "kill", "killed", "wait", "reap", "done"}

LEMMA ProcessUpdates ==
  /\ NoProcess \in Process
  /\ \A p \in Process :
       /\ \A st \in ProcessStates : [p EXCEPT !.state = st] \in Process
       /\ \A c \in Codes : [p EXCEPT !.code = c] \in Process
       /\ \A h \in SUBSET Streams : [p EXCEPT !.holds = h] \in Process
       /\ [p EXCEPT !.doomed = TRUE] \in Process
       /\ p.holds \in SUBSET Streams /\ p.code \in Codes
<1>. USE DEF Process, NoProcess, Codes, SIGKILL, ProcessStates
<1>1. NoProcess \in Process
  OBVIOUS
<1>2. \A p \in Process, st \in ProcessStates : [p EXCEPT !.state = st] \in Process
  OBVIOUS
<1>3. \A p \in Process, c \in Codes : [p EXCEPT !.code = c] \in Process
  OBVIOUS
<1>4. \A p \in Process, h \in SUBSET Streams : [p EXCEPT !.holds = h] \in Process
  OBVIOUS
<1>5. \A p \in Process : [p EXCEPT !.doomed = TRUE] \in Process
  OBVIOUS
<1>6. \A p \in Process : p.holds \in SUBSET Streams /\ p.code \in Codes
  OBVIOUS
<1>. HIDE DEF Process, NoProcess, Codes, SIGKILL, ProcessStates
<1>. QED  BY <1>1, <1>2, <1>3, <1>4, <1>5, <1>6

LEMMA CallUpdates ==
  /\ NoCall \in Calls
  /\ \A c \in Calls :
       /\ \A op \in {"RunCaptured", "RunAndWait", "SpawnDetached"} :
            [c EXCEPT !.op = op] \in Calls
       /\ \A at \in CallStates : [c EXCEPT !.at = at] \in Calls
       /\ \A r \in Codes \cup {-1} : [c EXCEPT !.result = r] \in Calls
       /\ \A output \in Seq(Chunks) : [c EXCEPT !.output = output] \in Calls
       /\ [c EXCEPT !.gaveUp = TRUE] \in Calls
       /\ [c EXCEPT !.timedOut = TRUE] \in Calls
       /\ [c EXCEPT !.unread = TRUE] \in Calls
       /\ c.output \in Seq(Chunks)
<1>. USE DEF Calls, NoCall, Codes, CallStates
<1>1. NoCall \in Calls
  OBVIOUS
<1>2. \A c \in Calls, op \in {"RunCaptured", "RunAndWait", "SpawnDetached"} :
        [c EXCEPT !.op = op] \in Calls
  OBVIOUS
<1>3. \A c \in Calls, at \in CallStates : [c EXCEPT !.at = at] \in Calls
  OBVIOUS
<1>4. \A c \in Calls, r \in Codes \cup {-1} : [c EXCEPT !.result = r] \in Calls
  OBVIOUS
<1>5. \A c \in Calls : /\ [c EXCEPT !.gaveUp = TRUE] \in Calls
                       /\ [c EXCEPT !.timedOut = TRUE] \in Calls
                       /\ [c EXCEPT !.unread = TRUE] \in Calls
  OBVIOUS
<1>6. \A c \in Calls, output \in Seq(Chunks) :
        [c EXCEPT !.output = output] \in Calls
  OBVIOUS
<1>7. \A c \in Calls : c.output \in Seq(Chunks)
  OBVIOUS
<1>. HIDE DEF Calls, NoCall, Codes, CallStates
<1>. QED  BY <1>1, <1>2, <1>3, <1>4, <1>5, <1>6, <1>7

LEMMA TypeStep ==
  ASSUME TypeOK, [Next]_vars
  PROVE  TypeOK'
<1>. USE DEF TypeOK
<1>0. /\ (-1) \in Codes \cup {-1} /\ Codes \subseteq Codes \cup {-1}
      /\ {0, 1, 127, SIGKILL} \subseteq Codes
  BY DEF Codes
<1>call. /\ \A at \in CallStates : [call EXCEPT !.at = at] \in Calls
         /\ \A r \in Codes \cup {-1} :
              [call EXCEPT !.at = "done", !.result = r] \in Calls
         /\ [call EXCEPT !.at = "done", !.result = -1, !.gaveUp = TRUE] \in Calls
         /\ [call EXCEPT !.at = "kill", !.timedOut = TRUE] \in Calls
         /\ [call EXCEPT !.at = "kill", !.unread = TRUE] \in Calls
  BY <1>0, CallUpdates DEF CallStates
<1>child. /\ \A st \in ProcessStates : [child EXCEPT !.state = st] \in Process
          /\ \A c \in Codes : Ended(child, c) \in Process
          /\ \A c \in Codes : [child EXCEPT !.state = "zombie", !.code = c] \in Process
  BY ProcessUpdates DEF ProcessStates, Ended
<1>doomed. [child EXCEPT !.doomed = TRUE] \in Process
  BY ProcessUpdates
<1>helper. /\ \A st \in ProcessStates : [helper EXCEPT !.state = st] \in Process
           /\ \A c \in Codes : [helper EXCEPT !.state = "gone", !.code = c] \in Process
  BY <1>0, ProcessUpdates DEF ProcessStates
<1>ended. [Ended(helper, 0) EXCEPT !.state = "gone"] \in Process
  BY <1>0, ProcessUpdates DEF ProcessStates, Ended
<1>new. /\ NoProcess \in Process
        /\ \A st \in ProcessStates : [NoProcess EXCEPT !.state = st] \in Process
        /\ \A h \in SUBSET Streams :
             [NoProcess EXCEPT !.state = "running", !.holds = h] \in Process
  BY ProcessUpdates DEF ProcessStates
<1>1. CASE Call
  <2>1. PICK op \in {"RunCaptured", "RunAndWait", "SpawnDetached"} :
          call' = [NoCall EXCEPT !.op = op, !.at = "start"]
    BY <1>1 DEF Call
  <2>2. call' \in Calls
    BY <2>1, CallUpdates DEF CallStates
  <2>. QED  BY <1>1, <2>2 DEF Call, processes
<1>2. CASE Return
  <2>1. 0 \in 0..MaxChunks
    BY ChunksAssumption
  <2>2. call' \in Calls /\ child' \in Process /\ helper' \in Process
    BY <1>2, <1>new, CallUpdates DEF Return
  <2>3. pipe' \in [Streams -> Seq(Chunks)]
    BY <1>2 DEF Return
  <2>4. sent' \in [Streams -> 0..MaxChunks] /\ late' \in BOOLEAN
    BY <1>2, <2>1 DEF Return
  <2>. QED  BY <2>2, <2>3, <2>4
<1>3. CASE Start
  <2>1. call' \in Calls
    BY <1>3, <1>call DEF Start, Goto, CallStates
  <2>2. child' \in Process
    BY <1>3, <1>new DEF Start, ProcessStates
  <2>. QED  BY <1>3, <2>1, <2>2 DEF Start
<1>4. CASE StartFails
  BY <1>4, <1>0, <1>call DEF StartFails, Answer, processes
<1>5. ASSUME NEW s \in Streams, ReadChunk(s)  PROVE TypeOK'
  <2>1. pipe[s] \in Seq(Chunks) /\ pipe[s] /= <<>>
    BY <1>5 DEF ReadChunk
  <2>2. Head(pipe[s]) \in Chunks /\ Tail(pipe[s]) \in Seq(Chunks)
    BY <2>1
  <2>3. call.output \in Seq(Chunks)
    BY CallUpdates
  <2>4. Append(call.output, Head(pipe[s])) \in Seq(Chunks)
    BY <2>2, <2>3
  <2>5. call' \in Calls
    BY <1>5, <2>4, CallUpdates DEF ReadChunk
  <2>6. pipe' \in [Streams -> Seq(Chunks)]
    BY <1>5, <2>2 DEF ReadChunk
  <2>. QED  BY <1>5, <2>5, <2>6 DEF ReadChunk, processes
<1>6. CASE Drained
  BY <1>6, <1>call DEF Drained, Goto, processes, CallStates
<1>7. CASE TimedOut
  BY <1>7, <1>call DEF TimedOut, processes
<1>8. CASE DrainFails
  BY <1>8, <1>call DEF DrainFails, processes
<1>9. CASE Kill
  <2>1. call' \in Calls
    BY <1>9, <1>call DEF Kill, Goto, CallStates
  <2>2. child' \in Process
    BY <1>9, <1>doomed, Zenon DEF Kill
  <2>. QED  BY <1>9, <2>1, <2>2 DEF Kill
<1>10. CASE Bury
  <2>1. call' \in Calls
    BY <1>10, <1>0, <1>call DEF Bury, Answer
  <2>2. child' \in Process
    BY <1>10, <1>child DEF Bury, ProcessStates
  <2>. QED  BY <1>10, <2>1, <2>2 DEF Bury
<1>11. CASE Wait
  <2>1. child.code \in Codes \cup {-1}
    BY <1>0, ProcessUpdates
  <2>2. call' \in Calls
    BY <1>11, <2>1, <1>call DEF Wait, Answer
  <2>3. child' \in Process
    BY <1>11, <1>child DEF Wait, ProcessStates
  <2>. QED  BY <1>11, <2>2, <2>3 DEF Wait
<1>12. CASE SpawnRefused
  BY <1>12, <1>0, <1>call DEF SpawnRefused, Answer, processes
<1>13. CASE FirstFork
  BY <1>13, <1>call, <1>new DEF FirstFork, Goto, CallStates, ProcessStates
<1>14. CASE Reap
  <2>1. (IF child.code = 0 THEN 1 ELSE 0) \in Codes
    BY <1>0
  <2>2. call' \in Calls
    BY <1>14, <2>1, <1>0, <1>call DEF Reap, Answer
  <2>3. child' \in Process
    BY <1>14, <1>child DEF Reap, ProcessStates
  <2>. QED  BY <1>14, <2>2, <2>3 DEF Reap
<1>15. CASE SecondFork
  <2>1. child' \in Process
    BY <1>15, <1>0, <1>child DEF SecondFork
  <2>2. helper' \in Process
    BY <1>15, <1>new DEF SecondFork, ProcessStates
  <2>. QED  BY <1>15, <2>1, <2>2 DEF SecondFork
<1>16. CASE Exec
  <2>1. 127 \in Codes
    BY <1>0
  <2>2. helper' \in Process
    BY <1>16, <2>1, <1>helper DEF Exec, ProcessStates
  <2>. QED  BY <1>16, <2>2 DEF Exec
<1>17. ASSUME NEW s \in Streams, Write(s)  PROVE TypeOK'
  <2>1. sent["out"] \in 0..MaxChunks /\ sent["err"] \in 0..MaxChunks
    BY DEF Streams
  <2>2. sent["out"] + sent["err"] < MaxChunks
    BY <1>17 DEF Write
  <2>3. s = "out" \/ s = "err"
    BY DEF Streams
  <2>4. sent[s] + 1 \in 1..MaxChunks
    BY <2>1, <2>2, <2>3, ChunksAssumption
  <2>5. sent' = [sent EXCEPT ![s] = @ + 1] /\ sent'[s] = sent[s] + 1
    BY <1>17 DEF Write
  <2>6. [stream |-> s, number |-> sent'[s]] \in Chunks
    BY <2>4, <2>5 DEF Chunks
  <2>7. sent[s] + 1 \in 0..MaxChunks
    BY <2>4
  <2>8. sent' \in [Streams -> 0..MaxChunks]
    BY <2>5, <2>7
  <2>9. Append(pipe[s], [stream |-> s, number |-> sent'[s]]) \in Seq(Chunks)
    BY <2>6
  <2>10. pipe' \in [Streams -> Seq(Chunks)]
    BY <1>17, <2>9 DEF Write
  <2>. QED  BY <1>17, <2>8, <2>10 DEF Write, processes
<1>18. ASSUME NEW s \in Streams, Close(s)  PROVE TypeOK'
  <2>1. child.holds \ {s} \in SUBSET Streams /\ helper.holds \ {s} \in SUBSET Streams
    BY ProcessUpdates
  <2>2. child' \in Process /\ helper' \in Process
    BY <1>18, <2>1, ProcessUpdates DEF Close
  <2>. QED  BY <1>18, <2>2 DEF Close
<1>19. CASE LeaveHelper
  <2>1. helper' = [NoProcess EXCEPT !.state = "running", !.holds = child.holds]
    BY <1>19 DEF LeaveHelper
  <2>2. child.holds \in SUBSET Streams
    BY ProcessUpdates
  <2>3. [NoProcess EXCEPT !.state = "running", !.holds = child.holds] \in Process
    BY <2>2, ProcessUpdates DEF ProcessStates
  <2>. QED  BY <1>19, <2>1, <2>3 DEF LeaveHelper
<1>20. CASE ChildEnds
  BY <1>20, <1>child DEF ChildEnds
<1>21. CASE ChildDies
  BY <1>21, <1>0, <1>child DEF ChildDies
<1>22. CASE HelperEnds
  <2>1. helper' = [Ended(helper, 0) EXCEPT !.state = "gone"]
    BY <1>22 DEF HelperEnds
  <2>2. helper' \in Process
    BY <2>1, <1>ended
  <2>. QED  BY <1>22, <2>2 DEF HelperEnds
<1>23. CASE DeadlinePasses
  BY <1>23 DEF DeadlinePasses, processes
<1>24. CASE UNCHANGED vars
  BY <1>24 DEF vars, processes
<1>. HIDE DEF TypeOK
<1>. QED
  BY <1>1, <1>2, <1>3, <1>4, <1>5, <1>6, <1>7, <1>8, <1>9, <1>10, <1>11,
     <1>12, <1>13, <1>14, <1>15, <1>16, <1>17, <1>18, <1>19, <1>20, <1>21, <1>22,
     <1>23, <1>24
  DEF Next, Caller, Others

-----------------------------------------------------------------------------
(* The captured output. *)

(* Who touches the output, the pipes and the count of what was written.    *)
LEMMA DataFrame ==
  ASSUME TypeOK, [Next]_vars
  PROVE  \/ Call \/ Return
         \/ \E s \in Streams : ReadChunk(s) \/ Write(s)
         \/ UNCHANGED <<call.output, pipe, sent>>
<1>. USE DEF TypeOK, Calls, Goto, Answer
<1>1. CASE Start \/ StartFails \/ Drained \/ TimedOut \/ DrainFails
  BY <1>1 DEF Start, StartFails, Drained, TimedOut, DrainFails
<1>2. CASE Kill \/ Bury \/ Wait \/ SpawnRefused \/ FirstFork \/ Reap
  BY <1>2 DEF Kill, Bury, Wait, SpawnRefused, FirstFork, Reap
<1>3. CASE SecondFork \/ Exec \/ LeaveHelper
  BY <1>3 DEF SecondFork, Exec, LeaveHelper
<1>4. CASE ChildEnds \/ ChildDies \/ HelperEnds \/ DeadlinePasses
  BY <1>4 DEF ChildEnds, ChildDies, HelperEnds, DeadlinePasses
<1>5. CASE \E s \in Streams : Close(s)
  BY <1>5 DEF Close
<1>6. CASE UNCHANGED vars
  BY <1>6 DEF vars
<1>. HIDE DEF TypeOK, Calls, Goto, Answer
<1>. QED  BY <1>1, <1>2, <1>3, <1>4, <1>5, <1>6 DEF Next, Caller, Others

(* The types of what is read and written. *)
LEMMA DataTypes ==
  ASSUME TypeOK
  PROVE  /\ call.output \in Seq(Chunks)
         /\ \A s \in Streams : pipe[s] \in Seq(Chunks) /\ sent[s] \in Nat
         /\ DOMAIN pipe = Streams /\ DOMAIN sent = Streams
<1>1. call.output \in Seq(Chunks)
  BY CallUpdates DEF TypeOK
<1>2. \A n \in 0..MaxChunks : n \in Nat
  BY ChunksAssumption
<1>. QED  BY <1>1, <1>2 DEF TypeOK

LEMMA ReadData ==
  ASSUME TypeOK, PipeInv, CaptureInv, OutputInOrder,
         NEW s \in Streams, ReadChunk(s)
  PROVE  (PipeInv /\ CaptureInv /\ OutputInOrder)'
<1>. DEFINE piece == Head(pipe[s])
<1>0. /\ call.output \in Seq(Chunks)
      /\ \A t \in Streams : pipe[t] \in Seq(Chunks) /\ sent[t] \in Nat
      /\ DOMAIN pipe = Streams
  BY DataTypes
<1>1. pipe[s] # <<>> /\ sent' = sent
  BY DEF ReadChunk
<1>2. /\ pipe'[s] = Tail(pipe[s])
      /\ \A t \in Streams : t # s => pipe'[t] = pipe[t]
  BY <1>0 DEF ReadChunk
<1>3. call'.output = Append(call.output, piece)
  BY DEF ReadChunk, TypeOK, Calls
<1>4. Len(pipe[s]) \in Nat /\ Len(pipe[s]) >= 1 /\ Len(pipe[s]) <= sent[s]
  BY <1>0, <1>1 DEF PipeInv
<1>5. piece = [stream |-> s, number |-> NumRead(s) + 1]
  BY <1>0, <1>1, <1>4 DEF PipeInv
<1>6. /\ Len(pipe'[s]) = Len(pipe[s]) - 1
      /\ \A k \in 1..Len(pipe'[s]) : pipe'[s][k] = pipe[s][k + 1]
  BY <1>0, <1>1, <1>2
<1>7. /\ NumRead(s)' = NumRead(s) + 1
      /\ \A t \in Streams : t # s => NumRead(t)' = NumRead(t)
      /\ \A t \in Streams : NumRead(t) \in Nat
  BY <1>0, <1>1, <1>2, <1>4, <1>6 DEF NumRead, PipeInv
<1>8. PipeInv'
  <2>1. ASSUME NEW k \in 1..Len(pipe'[s])
        PROVE  pipe'[s][k] = [stream |-> s, number |-> NumRead(s)' + k]
    <3>1. k + 1 \in 1..Len(pipe[s])
      BY <1>4, <1>6
    <3>2. pipe[s][k + 1] = [stream |-> s, number |-> NumRead(s) + (k + 1)]
      BY <3>1 DEF PipeInv
    <3>3. NumRead(s) + (k + 1) = NumRead(s)' + k
      BY <1>4, <1>6, <1>7
    <3>. QED  BY <1>6, <3>2, <3>3
  <2>2. Len(pipe'[s]) <= sent'[s]
    BY <1>0, <1>1, <1>4, <1>6
  <2>3. ASSUME NEW t \in Streams, t # s
        PROVE  /\ Len(pipe'[t]) <= sent'[t]
               /\ \A k \in 1..Len(pipe'[t]) :
                    pipe'[t][k] = [stream |-> t, number |-> NumRead(t)' + k]
    BY <1>1, <1>2, <1>7, <2>3 DEF PipeInv
  <2>. QED  BY <2>1, <2>2, <2>3 DEF PipeInv
<1>9. PICK count \in Nat : count = Len(call.output)
  BY <1>0
<1>10. /\ DOMAIN call.output = 1..count /\ DOMAIN call'.output = 1..(count + 1)
       /\ \A i \in 1..count : call'.output[i] = call.output[i]
       /\ call'.output[count + 1] = piece
       /\ Len(call'.output) = count + 1
       /\ \A i \in 1..count : call.output[i] \in Chunks
  <2>1. piece \in Chunks
    BY <1>0, <1>1
  <2>. QED  BY <1>0, <1>3, <1>9, <2>1
<1>. HIDE DEF piece
<1>11. piece.stream = s /\ piece.number = NumRead(s) + 1
  BY <1>5
<1>12. \A i \in 1..count : /\ call.output[i].stream \in Streams
                           /\ call.output[i].number \in Nat
                           /\ call.output[i].number <= NumRead(call.output[i].stream)
  BY <1>10, ChunksAssumption DEF Chunks, CaptureInv
<1>13. \A t \in Streams, n \in Nat, k \in 0..count :
         CapturedIn(t, n, k) => CapturedIn(t, n, k)'
  BY <1>10 DEF CapturedIn
<1>14. \A t \in Streams : \A n \in 1..NumRead(t) : CapturedIn(t, n, count)'
  <2>. SUFFICES ASSUME NEW t \in Streams, NEW n \in 1..NumRead(t)
       PROVE  CapturedIn(t, n, count)'
    OBVIOUS
  <2>1. CapturedIn(t, n, count)
    BY <1>9 DEF CaptureInv
  <2>2. n \in Nat
    BY <1>7
  <2>. QED  BY <1>13, <2>1, <2>2
<1>15. CaptureInv'
  <2>1. ASSUME NEW i \in 1..(count + 1), NEW t \in Streams,
               call'.output[i].stream = t
        PROVE  call'.output[i].number <= NumRead(t)'
    <3>1. CASE i = count + 1
      BY <1>7, <1>10, <1>11, <2>1, <3>1
    <3>2. CASE i \in 1..count
      <4>1. /\ call'.output[i].number \in Nat /\ NumRead(t) \in Nat
            /\ call'.output[i].number <= NumRead(t)
        BY <1>7, <1>10, <1>12, <2>1, <3>2
      <4>2. NumRead(t)' = NumRead(t) \/ NumRead(t)' = NumRead(t) + 1
        BY <1>7
      <4>. QED  BY <4>1, <4>2
    <3>. QED  BY <3>1, <3>2
  <2>2. \A i \in 1..(count + 1) : call'.output[i].stream \in Streams
    BY <1>10, <1>11, <1>12
  <2>3. ASSUME NEW t \in Streams, NEW n \in 1..NumRead(t)'
        PROVE  CapturedIn(t, n, count + 1)'
    <3>1. CASE n \in 1..NumRead(t)
      <4>1. CapturedIn(t, n, count)'
        BY <1>14, <3>1
      <4>. QED  BY <4>1 DEF CapturedIn
    <3>2. CASE t = s /\ n = NumRead(s) + 1
      <4>1. call'.output[count + 1] = [stream |-> t, number |-> n]
        BY <1>5, <1>10, <3>2
      <4>. QED  BY <4>1 DEF CapturedIn
    <3>. QED  BY <1>7, <3>1, <3>2
  <2>4. \A t \in Streams : \A n \in 1..NumRead(t)' : CapturedIn(t, n, count + 1)'
    BY <2>3
  <2>5. (\A i \in DOMAIN call.output :
            call.output[i].number <= NumRead(call.output[i].stream))'
    BY <1>10, <2>1, <2>2 DEF NumRead
  <2>. QED  BY <1>10, <2>4, <2>5 DEF CaptureInv, CapturedIn
<1>16. OutputInOrder'
  <2>. DEFINE InOrder(i) ==
         /\ call'.output[i].number <= sent[call'.output[i].stream]
         /\ \A j \in 1..(i - 1) :
              call'.output[j].stream = call'.output[i].stream =>
                call'.output[j].number < call'.output[i].number
         /\ \A n \in 1..(call'.output[i].number - 1) :
              \E j \in 1..(i - 1) :
                call'.output[j] = [stream |-> call'.output[i].stream, number |-> n]
  <2>1. ASSUME NEW i \in 1..count  PROVE InOrder(i)
    <3>1. \A j \in 1..i : call'.output[j] = call.output[j]
      BY <1>10
    <3>2. /\ call.output[i].number <= sent[call.output[i].stream]
          /\ \A j \in 1..(i - 1) : call.output[j].stream = call.output[i].stream =>
               call.output[j].number < call.output[i].number
          /\ \A n \in 1..(call.output[i].number - 1) : \E j \in 1..(i - 1) :
               call.output[j] = [stream |-> call.output[i].stream, number |-> n]
      BY <1>10 DEF OutputInOrder, CapturedIn
    <3>3. \A j \in 1..(i - 1) : call'.output[j] = call.output[j]
      BY <3>1
    <3>4. call'.output[i] = call.output[i]
      BY <3>1
    <3>. QED  BY <1>1, <3>2, <3>3, <3>4
  <2>2. InOrder(count + 1)
    <3>1. call'.output[count + 1].stream = s
          /\ call'.output[count + 1].number = NumRead(s) + 1
      BY <1>10, <1>11
    <3>2. NumRead(s) + 1 <= sent[s] /\ NumRead(s) \in Nat
      BY <1>0, <1>4, <1>7 DEF NumRead
    <3>3. ASSUME NEW j \in 1..count, call'.output[j].stream = s
          PROVE  call'.output[j].number < NumRead(s) + 1
      BY <1>10, <1>12, <3>2, <3>3
    <3>4. \A n \in 1..NumRead(s) : \E j \in 1..count :
            call'.output[j] = [stream |-> s, number |-> n]
      BY <1>14 DEF CapturedIn
    <3>5. NumRead(s) + 1 - 1 = NumRead(s) /\ count + 1 - 1 = count
      BY <3>2
    <3>. QED  BY <3>1, <3>2, <3>3, <3>4, <3>5
  <2>3. \A i \in 1..(count + 1) : InOrder(i)
    BY <2>1, <2>2
  <2>. QED  BY <1>1, <1>10, <2>3 DEF OutputInOrder, CapturedIn
<1>. QED  BY <1>8, <1>15, <1>16

LEMMA WriteData ==
  ASSUME TypeOK, PipeInv, CaptureInv, OutputInOrder,
         NEW s \in Streams, Write(s)
  PROVE  (PipeInv /\ CaptureInv /\ OutputInOrder)'
<1>. DEFINE piece == [stream |-> s, number |-> sent[s] + 1]
<1>0. /\ call.output \in Seq(Chunks)
      /\ \A t \in Streams : pipe[t] \in Seq(Chunks) /\ sent[t] \in Nat
      /\ DOMAIN pipe = Streams /\ DOMAIN sent = Streams
  BY DataTypes
<1>1. call' = call
  BY DEF Write
<1>2. /\ sent'[s] = sent[s] + 1
      /\ \A t \in Streams : t # s => sent'[t] = sent[t]
  BY <1>0 DEF Write
<1>3. /\ pipe'[s] = Append(pipe[s], piece)
      /\ \A t \in Streams : t # s => pipe'[t] = pipe[t]
  BY <1>0, <1>2 DEF Write
<1>4. Len(pipe[s]) \in Nat /\ Len(pipe[s]) <= sent[s]
  BY <1>0 DEF PipeInv
<1>5. /\ Len(pipe'[s]) = Len(pipe[s]) + 1
      /\ \A k \in 1..Len(pipe[s]) : pipe'[s][k] = pipe[s][k]
      /\ pipe'[s][Len(pipe[s]) + 1] = piece
  <2>1. piece \in Chunks
    <3>1. sent["out"] + sent["err"] < MaxChunks
      BY DEF Write
    <3>2. sent["out"] \in Nat /\ sent["err"] \in Nat /\ s \in {"out", "err"}
      BY <1>0 DEF Streams
    <3>3. sent[s] + 1 \in 1..MaxChunks
      BY <3>1, <3>2, ChunksAssumption
    <3>. QED  BY <3>3 DEF Chunks
  <2>2. pipe[s] \in Seq(Chunks)
    BY <1>0
  <2>. HIDE DEF piece
  <2>. QED  BY <1>3, <2>1, <2>2
<1>6. \A t \in Streams : NumRead(t)' = NumRead(t) /\ NumRead(t) \in Nat
  <2>1. NumRead(s)' = NumRead(s) /\ NumRead(s) \in Nat
    BY <1>0, <1>2, <1>4, <1>5 DEF NumRead
  <2>2. ASSUME NEW t \in Streams, t # s
        PROVE  NumRead(t)' = NumRead(t) /\ NumRead(t) \in Nat
    <3>1. Len(pipe[t]) \in Nat /\ sent[t] \in Nat /\ Len(pipe[t]) <= sent[t]
      BY <1>0 DEF PipeInv
    <3>. QED  BY <1>2, <1>3, <2>2, <3>1 DEF NumRead
  <2>. QED  BY <2>1, <2>2
<1>7. PipeInv'
  <2>1. Len(pipe'[s]) <= sent'[s]
    BY <1>0, <1>2, <1>4, <1>5
  <2>2. ASSUME NEW k \in 1..Len(pipe'[s])
        PROVE  pipe'[s][k] = [stream |-> s, number |-> NumRead(s)' + k]
    <3>1. CASE k \in 1..Len(pipe[s])
      BY <1>5, <1>6, <3>1 DEF PipeInv
    <3>2. CASE k = Len(pipe[s]) + 1
      <4>1. NumRead(s)' + k = sent[s] + 1
        BY <1>0, <1>4, <1>6, <3>2 DEF NumRead
      <4>. QED  BY <1>5, <3>2, <4>1
    <3>. QED  BY <1>4, <1>5, <3>1, <3>2
  <2>3. ASSUME NEW t \in Streams, t # s
        PROVE  /\ Len(pipe'[t]) <= sent'[t]
               /\ \A k \in 1..Len(pipe'[t]) :
                    pipe'[t][k] = [stream |-> t, number |-> NumRead(t)' + k]
    BY <1>2, <1>3, <1>6, <2>3 DEF PipeInv
  <2>. QED  BY <2>1, <2>2, <2>3 DEF PipeInv
<1>8. \A i \in DOMAIN call.output : /\ call.output[i].stream \in Streams
                                    /\ call.output[i].number \in Nat
  <2>1. \A i \in DOMAIN call.output : call.output[i] \in Chunks
    BY <1>0
  <2>. QED  BY <2>1, ChunksAssumption DEF Chunks
<1>9. CaptureInv'
  <2>1. (\A i \in DOMAIN call.output :
            call.output[i].number <= NumRead(call.output[i].stream))'
    BY <1>1, <1>6, <1>8 DEF CaptureInv, NumRead
  <2>2. \A t \in Streams : \A n \in 1..NumRead(t) :
          CapturedIn(t, n, Len(call.output))
    BY DEF CaptureInv
  <2>. QED  BY <1>1, <1>6, <2>1, <2>2 DEF CaptureInv, CapturedIn
<1>10. OutputInOrder'
  <2>1. \A t \in Streams : sent[t] <= sent'[t] /\ {sent[t], sent'[t]} \subseteq Nat
    BY <1>0, <1>2
  <2>. QED  BY <1>1, <1>8, <2>1 DEF OutputInOrder, CapturedIn
<1>. QED  BY <1>7, <1>9, <1>10

(* The captured output is as the invariant says, after every step. *)
LEMMA DataStep ==
  ASSUME TypeOK, FreshInv, PipeInv, CaptureInv, OutputInOrder, [Next]_vars
  PROVE  (PipeInv /\ CaptureInv /\ OutputInOrder)'
<1>1. CASE Call
  <2>1. call'.output = <<>> /\ \A s \in Streams : pipe'[s] = <<>> /\ sent'[s] = 0
    BY <1>1 DEF Call, FreshInv, NoCall
  <2>. QED  BY <2>1 DEF PipeInv, CaptureInv, OutputInOrder, NumRead
<1>2. CASE Return
  <2>1. call'.output = <<>> /\ \A s \in Streams : pipe'[s] = <<>> /\ sent'[s] = 0
    BY <1>2 DEF Return, NoCall
  <2>. QED  BY <2>1 DEF PipeInv, CaptureInv, OutputInOrder, NumRead
<1>3. ASSUME NEW s \in Streams, ReadChunk(s)
      PROVE  (PipeInv /\ CaptureInv /\ OutputInOrder)'
  BY <1>3, ReadData
<1>4. ASSUME NEW s \in Streams, Write(s)
      PROVE  (PipeInv /\ CaptureInv /\ OutputInOrder)'
  BY <1>4, WriteData
<1>5. CASE UNCHANGED <<call.output, pipe, sent>>
  BY <1>5 DEF PipeInv, CaptureInv, OutputInOrder, NumRead, CapturedIn
<1>. QED  BY <1>1, <1>2, <1>3, <1>4, <1>5, DataFrame

-----------------------------------------------------------------------------
(* Control. *)

ControlInv == FreshInv /\ RunInv /\ SpawnInv /\ DoneInv

SameCall == /\ call'.op = call.op /\ call'.at = call.at
            /\ call'.result = call.result /\ call'.output = call.output
            /\ (call'.timedOut <=> call.timedOut)
            /\ (call'.gaveUp <=> call.gaveUp) /\ (call'.unread <=> call.unread)

(* What the moves of the caller leave of the call. *)
LEMMA GotoFields ==
  ASSUME call \in Calls, NEW from, NEW to, Goto(from, to)
  PROVE  /\ call.at = from /\ call'.at = to
         /\ call'.op = call.op /\ call'.result = call.result
         /\ call'.output = call.output
         /\ (call'.timedOut <=> call.timedOut)
         /\ (call'.gaveUp <=> call.gaveUp) /\ (call'.unread <=> call.unread)
BY DEF Goto, Calls

LEMMA AnswerFields ==
  ASSUME call \in Calls, NEW result, Answer(result)
  PROVE  /\ call'.at = "done" /\ call'.result = result
         /\ call'.op = call.op /\ call'.output = call.output
         /\ (call'.timedOut <=> call.timedOut)
         /\ (call'.gaveUp <=> call.gaveUp) /\ (call'.unread <=> call.unread)
BY DEF Answer, Calls

LEMMA ControlStep ==
  ASSUME TypeOK, ControlInv, [Next]_vars
  PROVE  ControlInv'
<1>. USE DEF ControlInv
<1>0. call \in Calls /\ child \in Process /\ helper \in Process
  BY DEF TypeOK
<1>1. CASE Call
  BY <1>1 DEF Call, NoCall, processes, FreshInv, RunInv, SpawnInv, DoneInv
<1>2. CASE Return
  BY <1>2 DEF Return, NoCall, NoProcess, FreshInv, RunInv, SpawnInv, DoneInv
<1>3. CASE Start
  <2>1. call.at = "start" /\ child'.state = "running"
        /\ UNCHANGED <<helper, pipe, sent, late>>
    BY <1>3 DEF Start, Goto, NoProcess
  <2>2. CASE call.op = "RunCaptured" /\ Goto("start", "drain")
    <3>1. /\ call'.at = "drain" /\ call'.op = call.op
          /\ (call'.timedOut <=> call.timedOut)
          /\ (call'.gaveUp <=> call.gaveUp) /\ (call'.unread <=> call.unread)
      BY <1>0, <2>2, GotoFields
    <3>. QED  BY <2>1, <2>2, <3>1 DEF FreshInv, RunInv, SpawnInv, DoneInv
  <2>3. CASE call.op = "RunAndWait" /\ Goto("start", "wait")
    <3>1. /\ call'.at = "wait" /\ call'.op = call.op
          /\ (call'.timedOut <=> call.timedOut)
          /\ (call'.gaveUp <=> call.gaveUp) /\ (call'.unread <=> call.unread)
      BY <1>0, <2>3, GotoFields
    <3>. QED  BY <2>1, <2>3, <3>1 DEF FreshInv, RunInv, SpawnInv, DoneInv
  <2>. QED  BY <1>3, <2>2, <2>3 DEF Start
<1>4. CASE StartFails \/ SpawnRefused
  BY <1>0, <1>4, AnswerFields
  DEF StartFails, SpawnRefused, processes, NoProcess, FreshInv, RunInv, SpawnInv, DoneInv
<1>5. ASSUME NEW s \in Streams, ReadChunk(s)  PROVE ControlInv'
  <2>1. /\ call.at = "drain" /\ call'.at = "drain" /\ call'.op = call.op
        /\ (call'.timedOut <=> call.timedOut)
        /\ (call'.gaveUp <=> call.gaveUp) /\ (call'.unread <=> call.unread)
        /\ UNCHANGED <<child, helper, sent, late>>
    BY <1>0, <1>5 DEF ReadChunk, Calls, processes
  <2>. QED  BY <2>1 DEF FreshInv, RunInv, SpawnInv, DoneInv
<1>6. CASE Drained
  <2>1. Goto("drain", "wait") /\ Dry /\ UNCHANGED <<child, helper, pipe, sent, late>>
    BY <1>6 DEF Drained, Dry, processes
  <2>2. Dry'
    BY <2>1 DEF Dry, Open
  <2>. QED
    BY <1>0, <2>1, <2>2, GotoFields DEF FreshInv, RunInv, SpawnInv, DoneInv
<1>7. CASE TimedOut
  <2>1. /\ call.at = "drain" /\ call'.at = "kill" /\ call'.op = call.op
        /\ call'.timedOut
        /\ (call'.gaveUp <=> call.gaveUp) /\ (call'.unread <=> call.unread)
        /\ late /\ UNCHANGED <<child, helper, pipe, sent, late>>
    BY <1>0, <1>7 DEF TimedOut, Calls, processes
  <2>. QED  BY <2>1 DEF FreshInv, RunInv, SpawnInv, DoneInv
<1>8. CASE DrainFails
  <2>1. /\ call.at = "drain" /\ call'.at = "kill" /\ call'.op = call.op
        /\ call'.unread
        /\ (call'.gaveUp <=> call.gaveUp) /\ (call'.timedOut <=> call.timedOut)
        /\ UNCHANGED <<child, helper, pipe, sent, late>>
    BY <1>0, <1>8 DEF DrainFails, Calls, processes
  <2>. QED  BY <2>1 DEF FreshInv, RunInv, SpawnInv, DoneInv
<1>9. CASE Kill
  <2>1. child'.state = child.state /\ Goto("kill", "killed")
        /\ UNCHANGED <<helper, pipe, sent, late>>
    BY <1>0, <1>9 DEF Kill, Process
  <2>. QED
    BY <1>0, <2>1, GotoFields DEF FreshInv, RunInv, SpawnInv, DoneInv
<1>10. CASE Bury
  <2>1. /\ call.at = "killed" /\ call'.at = "done" /\ call'.op = call.op
        /\ call'.result = -1
        /\ (call'.timedOut <=> call.timedOut) /\ (call'.unread <=> call.unread)
        /\ ~call'.gaveUp => child'.state = "gone"
        /\ child'.state # "none"
        /\ UNCHANGED <<helper, pipe, sent, late>>
    BY <1>0, <1>10 DEF Bury, Answer, Calls, Process, RunInv
  <2>. QED  BY <2>1 DEF FreshInv, RunInv, SpawnInv, DoneInv
<1>11. CASE Wait
  <2>1. /\ call.at = "wait" /\ call'.at = "done" /\ call'.op = call.op
        /\ (call'.timedOut <=> call.timedOut) /\ (call'.unread <=> call.unread)
        /\ \/ /\ child'.state = "gone" /\ child'.code = child.code
              /\ call'.result = child.code
           \/ child' = child /\ call'.result = -1 /\ call'.gaveUp
        /\ child'.holds = child.holds
        /\ UNCHANGED <<helper, pipe, sent, late>>
    BY <1>0, <1>11 DEF Wait, Answer, Calls, Process
  <2>2. child.code # -1
    <3>1. child.code \in Codes
      BY <1>0, ProcessUpdates
    <3>. QED  BY <3>1 DEF Codes, SIGKILL
  <2>3. Dry => Dry'
    BY <2>1 DEF Dry, Open
  <2>. QED  BY <2>1, <2>2, <2>3 DEF FreshInv, RunInv, SpawnInv, DoneInv
<1>12. CASE FirstFork
  <2>1. child'.state = "forked" /\ Goto("start", "reap")
        /\ call.op = "SpawnDetached" /\ helper.state = "none"
        /\ UNCHANGED <<helper, pipe, sent, late>>
    BY <1>12 DEF FirstFork, NoProcess, FreshInv, Goto
  <2>. QED
    BY <1>0, <2>1, GotoFields DEF FreshInv, RunInv, SpawnInv, DoneInv
<1>13. CASE Reap
  <2>1. /\ call.at = "reap" /\ child.state = "zombie" /\ child'.state = "gone"
        /\ Answer(IF child.code = 0 THEN 1 ELSE 0)
        /\ UNCHANGED <<helper, pipe, sent, late>>
    BY <1>0, <1>13 DEF Reap, Process
  <2>2. /\ call'.at = "done" /\ call'.op = call.op
        /\ call'.result = (IF child.code = 0 THEN 1 ELSE 0)
        /\ (call'.timedOut <=> call.timedOut) /\ (call'.gaveUp <=> call.gaveUp)
    BY <1>0, <2>1, AnswerFields
  <2>3. call.op = "SpawnDetached" /\ (child.code = 0 <=> helper.state # "none")
    BY <2>1 DEF SpawnInv
  <2>4. ~call.gaveUp
    BY <2>1 DEF SpawnInv
  <2>. QED
    BY <2>1, <2>2, <2>3, <2>4 DEF FreshInv, RunInv, SpawnInv, DoneInv
<1>14. CASE SecondFork
  <2>1. /\ child.state = "forked" /\ child'.state = "zombie"
        /\ call.at = "reap" => (child'.code = 0 <=> helper'.state # "none")
        /\ UNCHANGED <<call, pipe, sent, late>>
    <3>1. child.state = "forked" /\ UNCHANGED <<call, pipe, sent, late>>
      BY <1>14 DEF SecondFork
    <3>2. call.at = "reap" => helper.state = "none"
      BY <3>1 DEF SpawnInv
    <3>3. CASE /\ helper' = [NoProcess EXCEPT !.state = "forked"]
               /\ child' = [child EXCEPT !.state = "zombie", !.code = 0]
      <4>1. child'.state = "zombie" /\ child'.code = 0
        BY <1>0, <3>3 DEF Process
      <4>2. helper'.state = "forked"
        BY <3>3 DEF NoProcess
      <4>. QED  BY <3>1, <4>1, <4>2
    <3>4. CASE /\ child' = [child EXCEPT !.state = "zombie", !.code = 1]
               /\ UNCHANGED helper
      <4>1. child'.state = "zombie" /\ child'.code = 1
        BY <1>0, <3>4 DEF Process
      <4>. QED  BY <3>1, <3>2, <3>4, <4>1
    <3>. QED  BY <1>14, <3>3, <3>4 DEF SecondFork
  <2>. QED  BY <2>1 DEF FreshInv, RunInv, SpawnInv, DoneInv, NoProcess
<1>15. CASE Exec
  <2>1. /\ helper.state # "none" /\ helper'.state # "none"
        /\ helper'.holds = helper.holds
        /\ UNCHANGED <<call, child, pipe, sent, late>>
    BY <1>0, <1>15 DEF Exec, Process
  <2>2. Dry => Dry'
    BY <2>1 DEF Dry, Open
  <2>. QED  BY <2>1, <2>2 DEF FreshInv, RunInv, SpawnInv, DoneInv, NoProcess
<1>16. ASSUME NEW s \in Streams, Write(s)  PROVE ControlInv'
  <2>1. s \in Open /\ UNCHANGED <<call, child, helper, late>>
    BY <1>16 DEF Write, processes
  <2>2. ~Dry /\ call.at \notin {"idle", "start"}
    BY <2>1 DEF Dry, FreshInv, NoProcess, Open
  <2>. QED  BY <2>1, <2>2 DEF FreshInv, RunInv, SpawnInv, DoneInv
<1>17. ASSUME NEW s \in Streams, Close(s)  PROVE ControlInv'
  <2>1. /\ child'.state = child.state /\ child'.code = child.code
        /\ helper'.state = helper.state /\ Open' \subseteq Open
        /\ Open # {}
        /\ UNCHANGED <<call, pipe, sent, late>>
    BY <1>0, <1>17 DEF Close, Process, Open
  <2>2. ~Dry /\ call.at \notin {"idle", "start"}
    BY <2>1 DEF Dry, FreshInv, NoProcess, Open
  <2>. QED  BY <2>1, <2>2 DEF FreshInv, RunInv, SpawnInv, DoneInv
<1>18. CASE LeaveHelper
  <2>1. /\ call.op = "RunCaptured" /\ child.state = "running"
        /\ Open' \subseteq Open
        /\ UNCHANGED <<call, child, pipe, sent, late>>
    BY <1>0, <1>18 DEF LeaveHelper, Process, NoProcess, Open
  <2>2. Dry => Dry'
    BY <2>1 DEF Dry
  <2>3. call.at \notin {"idle", "start"}
    BY <2>1 DEF FreshInv, NoProcess
  <2>. QED  BY <2>1, <2>2, <2>3 DEF FreshInv, RunInv, SpawnInv, DoneInv
<1>19. CASE ChildEnds \/ ChildDies
  <2>1. /\ child.state = "running" /\ child'.state = "zombie"
        /\ Open' \subseteq Open
        /\ UNCHANGED <<call, helper, pipe, sent, late>>
    BY <1>0, <1>19 DEF ChildEnds, ChildDies, Ended, Process, Open
  <2>2. Dry => Dry'
    BY <2>1 DEF Dry
  <2>3. call.at \notin {"idle", "start"}
    BY <2>1 DEF FreshInv, NoProcess
  <2>. QED  BY <2>1, <2>2, <2>3 DEF FreshInv, RunInv, SpawnInv, DoneInv
<1>20. CASE HelperEnds
  <2>1. /\ helper.state = "running" /\ helper'.state = "gone"
        /\ Open' \subseteq Open
        /\ UNCHANGED <<call, child, pipe, sent, late>>
    BY <1>0, <1>20 DEF HelperEnds, Ended, Process, Open
  <2>2. Dry => Dry'
    BY <2>1 DEF Dry
  <2>3. call.at \notin {"idle", "start"}
    BY <2>1 DEF FreshInv, NoProcess
  <2>. QED  BY <2>1, <2>2, <2>3 DEF FreshInv, RunInv, SpawnInv, DoneInv
<1>21. CASE DeadlinePasses
  <2>1. late' /\ UNCHANGED <<call, child, helper, pipe, sent>>
    BY <1>21 DEF DeadlinePasses, processes
  <2>2. Dry => Dry'
    BY <2>1 DEF Dry, Open
  <2>. QED  BY <2>1, <2>2 DEF FreshInv, RunInv, SpawnInv, DoneInv
<1>22. CASE UNCHANGED vars
  <2>1. Dry => Dry'
    BY <1>22 DEF Dry, Open, vars, processes
  <2>. QED
    BY <1>22, <2>1 DEF vars, processes, FreshInv, RunInv, SpawnInv, DoneInv
<1>. HIDE DEF ControlInv
<1>. QED
  BY <1>1, <1>2, <1>3, <1>4, <1>5, <1>6, <1>7, <1>8, <1>9, <1>10, <1>11, <1>12,
     <1>13, <1>14, <1>15, <1>16, <1>17, <1>18, <1>19, <1>20, <1>21, <1>22
  DEF Next, Caller, Others

-----------------------------------------------------------------------------
(* The theorems. *)

LEMMA InitInvariant == Init => IInv
<1>. SUFFICES ASSUME Init PROVE IInv  OBVIOUS
<1>1. TypeOK
  <2>1. call \in Calls /\ child \in Process /\ helper \in Process
    BY CallUpdates, ProcessUpdates DEF Init
  <2>2. 0 \in 0..MaxChunks
    BY ChunksAssumption
  <2>3. pipe \in [Streams -> Seq(Chunks)]
    BY DEF Init
  <2>4. sent \in [Streams -> 0..MaxChunks] /\ late \in BOOLEAN
    BY <2>2 DEF Init
  <2>. QED  BY <2>1, <2>3, <2>4 DEF TypeOK
<1>2. PipeInv /\ CaptureInv /\ OutputInOrder
  BY DEF Init, NoCall, PipeInv, CaptureInv, NumRead, OutputInOrder
<1>3. FreshInv /\ RunInv /\ SpawnInv /\ DoneInv
  BY DEF Init, NoCall, NoProcess, FreshInv, RunInv, SpawnInv, DoneInv
<1>. QED  BY <1>1, <1>2, <1>3 DEF IInv

LEMMA NextInvariant == IInv /\ [Next]_vars => IInv'
<1>. SUFFICES ASSUME IInv, [Next]_vars PROVE IInv'  OBVIOUS
<1>1. TypeOK'
  BY TypeStep DEF IInv
<1>2. (PipeInv /\ CaptureInv /\ OutputInOrder)'
  BY DataStep DEF IInv
<1>3. (FreshInv /\ RunInv /\ SpawnInv /\ DoneInv)'
  BY ControlStep DEF IInv, ControlInv
<1>. QED  BY <1>1, <1>2, <1>3 DEF IInv

LEMMA Invariance == Spec => []IInv
BY InitInvariant, NextInvariant, PTL DEF Spec

(* The variables are what process.cpp's are, after every step.             *)
THEOREM TypeCorrect == Spec => []TypeOK
<1>1. IInv => TypeOK  BY DEF IInv
<1>. QED  BY <1>1, Invariance, PTL

(* process.cpp:45: what RunCaptured has read of a stream is at any moment  *)
(* a prefix of what was written to it, however the two streams' pieces     *)
(* come, and also when the deadline cuts the reading short.                *)
THEOREM OutputIsInOrder == Spec => []OutputInOrder
<1>1. IInv => OutputInOrder  BY DEF IInv
<1>. QED  BY <1>1, Invariance, PTL

(* A program reported as finished has had everything captured that it and  *)
(* the processes it left behind ever wrote, and its status is the result.  *)
THEOREM FinishedMeansComplete == Spec => []FinishedIsComplete
<1>1. ASSUME IInv, Returned("RunCaptured"), Verdict = "finished"
      PROVE  /\ \A s \in Streams : \A n \in 1..sent[s] :
                  CapturedIn(s, n, Len(call.output))
             /\ call.result = child.code
  <2>1. call.result # -1
    BY <1>1 DEF Verdict, DidNotRun
  <2>2. call.result = child.code /\ \A s \in Streams : pipe[s] = <<>>
    BY <1>1, <2>1 DEF IInv, DoneInv, Dry, Returned
  <2>3. \A s \in Streams : sent[s] \in Nat
    BY <1>1, DataTypes DEF IInv
  <2>4. \A s \in Streams : NumRead(s) = sent[s]
    BY <2>2, <2>3 DEF NumRead
  <2>. QED  BY <1>1, <2>2, <2>4 DEF IInv, CaptureInv
<1>2. IInv => FinishedIsComplete
  BY <1>1 DEF FinishedIsComplete
<1>. QED  BY <1>2, Invariance, PTL

(* process.h:17: a call that failed says why: a timeout is told from a     *)
(* program that could not be run, and SpawnDetached is true exactly of a   *)
(* program that was let go.                                                *)
THEOREM ResultsAreTrue == Spec => []ResultsAreHonest
<1>1. ASSUME IInv PROVE ResultsAreHonest
  <2>1. ASSUME Returned("RunCaptured"), Verdict = "not in time"
        PROVE  late /\ child.state # "none"
    BY <1>1, <2>1 DEF IInv, RunInv, Verdict, Returned
  <2>2. ASSUME Returned("RunCaptured"), Verdict = "not run"
        PROVE  child.state = "none" \/ child.code = 127 \/ call.unread \/ call.gaveUp
    BY <1>1, <2>2 DEF IInv, DoneInv, Verdict, DidNotRun, Returned
  <2>3. Returned("SpawnDetached") => (call.result = 1 <=> helper.state # "none")
    BY <1>1 DEF IInv, DoneInv, Returned
  <2>. QED  BY <2>1, <2>2, <2>3 DEF ResultsAreHonest
<1>. QED  BY <1>1, Invariance, PTL

(* process.h:34: a call whose wait did not fail has buried its child.      *)
THEOREM NothingIsLeft == Spec => []NothingLeft
<1>1. IInv => NothingLeft  BY DEF IInv, DoneInv, NothingLeft
<1>. QED  BY <1>1, Invariance, PTL

=============================================================================
