---------------------------- MODULE ProcessRunner ----------------------------
(***************************************************************************)
(* process.cpp: the three ways the CLI runs another program.  RunCaptured  *)
(* reads its output until both streams are closed or a deadline passes     *)
(* (the `properties` command); RunAndWait waits for it (gsettings);        *)
(* SpawnDetached forks twice and lets go (the relaunched desktop).         *)
(*                                                                         *)
(* reproc, the library behind the first two, is external: its drain        *)
(* returns when both streams are at their end, when the deadline is over,  *)
(* or when polling fails; its wait returns when the child has ended.       *)
(***************************************************************************)
EXTENDS Integers, Sequences

CONSTANTS
  MaxChunks   \* bound: pieces of output written during a call

ASSUME ChunksAssumption == MaxChunks \in Nat

Streams == {"out", "err"}

(* What a program exits with; 127 is also the shell's "could not execute", *)
(* and a child killed by signal n ends with 128 + n.                       *)
SIGKILL == 137
Codes == {0, 1, 127, SIGKILL}

VARIABLES
  call,     \* the running call: operation, control state, results
  child,    \* the process forked for it
  helper,   \* a process forked by the child, with the child's streams
  pipe,     \* per stream, the pieces written and not read yet
  sent,     \* per stream, the number of pieces written (auxiliary)
  late      \* the deadline is over

processes == <<child, helper>>
vars == <<call, child, helper, pipe, sent, late>>

(* No call.  The result is an exit status, or for SpawnDetached 1 or 0.    *)
NoCall == [op |-> "none", at |-> "idle", result |-> -1, timedOut |-> FALSE,
           output |-> <<>>, gaveUp |-> FALSE, unread |-> FALSE]

NoProcess == [state |-> "none", holds |-> {}, code |-> 0, doomed |-> FALSE]

Chunks == [stream : Streams, number : 1..MaxChunks]
Process == [state : {"none", "forked", "running", "zombie", "gone"},
            holds : SUBSET Streams, code : Codes, doomed : BOOLEAN]

Calls ==
  [op : {"none", "RunCaptured", "RunAndWait", "SpawnDetached"},
   at : {"idle", "start", "drain", "kill", "killed", "wait", "reap", "done"},
   result : Codes \cup {-1}, timedOut : BOOLEAN,
   output : Seq(Chunks), gaveUp : BOOLEAN, unread : BOOLEAN]

TypeOK ==
  /\ call \in Calls
  /\ child \in Process
  /\ helper \in Process
  /\ pipe \in [Streams -> Seq(Chunks)]
  /\ sent \in [Streams -> 0..MaxChunks]
  /\ late \in BOOLEAN

Init ==
  /\ call = NoCall
  /\ child = NoProcess
  /\ helper = NoProcess
  /\ pipe = [s \in Streams |-> <<>>]
  /\ sent = [s \in Streams |-> 0]
  /\ late = FALSE

-----------------------------------------------------------------------------
(* The caller. *)

Goto(from, to) == call.at = from /\ call' = [call EXCEPT !.at = to]

(* Faulty variant: waitpid's status, undecoded. *)
AnswerRaw(result) == call' = [call EXCEPT !.at = "done", !.result = 256 * result]

(* The call returns result. *)
Answer(result) == call' = [call EXCEPT !.at = "done", !.result = result]

Call ==
  /\ call.at = "idle"
  /\ \E op \in {"RunCaptured", "RunAndWait", "SpawnDetached"} :
       call' = [NoCall EXCEPT !.op = op, !.at = "start"]
  /\ UNCHANGED <<processes, pipe, sent, late>>

(* The caller goes on; whatever it left running is no longer its concern.  *)
Return ==
  /\ call.at = "done"
  /\ call' = NoCall
  /\ child' = NoProcess /\ helper' = NoProcess
  /\ pipe' = [s \in Streams |-> <<>>] /\ sent' = [s \in Streams |-> 0]
  /\ late' = FALSE

(* reproc's start: the fork and the exec went well.  RunCaptured gives the *)
(* child two pipes, RunAndWait its own stdout and stderr.                  *)
Start ==
  /\ \/ call.op = "RunCaptured" /\ Goto("start", "drain")
        /\ child' = [NoProcess EXCEPT !.state = "running", !.holds = Streams]
     \/ call.op = "RunAndWait" /\ Goto("start", "wait")
        /\ child' = [NoProcess EXCEPT !.state = "running"]
  /\ UNCHANGED <<helper, pipe, sent, late>>

StartFails ==
  /\ call.at = "start"
  /\ call.op \in {"RunCaptured", "RunAndWait"}
  /\ Answer(-1)
  /\ UNCHANGED <<processes, pipe, sent, late>>

Open == child.holds \cup helper.holds

(* Faulty variant: a piece is appended again before it is consumed. *)
ReadChunkAgain(s) ==
  /\ call.at = "drain"
  /\ pipe[s] # <<>> /\ Len(call.output) < 2 * MaxChunks
  /\ call' = [call EXCEPT !.output = Append(@, Head(pipe[s]))]
  /\ \/ pipe' = [pipe EXCEPT ![s] = Tail(@)]
     \/ UNCHANGED pipe
  /\ UNCHANGED <<processes, sent, late>>

(* drain hands a piece of one stream or the other to append.               *)
ReadChunk(s) ==
  /\ call.at = "drain"
  /\ pipe[s] # <<>>
  /\ call' = [call EXCEPT !.output = Append(@, Head(pipe[s]))]
  /\ pipe' = [pipe EXCEPT ![s] = Tail(@)]
  /\ UNCHANGED <<processes, sent, late>>

(* Faulty variant: the end of the child is taken for the end of the output.*)
DrainedAtExit ==
  /\ child.state = "zombie"
  /\ Goto("drain", "wait")
  /\ UNCHANGED <<processes, pipe, sent, late>>

(* Both streams are at their end. *)
Drained ==
  /\ Open = {}
  /\ \A s \in Streams : pipe[s] = <<>>
  /\ Goto("drain", "wait")
  /\ UNCHANGED <<processes, pipe, sent, late>>

(* Faulty variant: nobody is told that it was the deadline. *)
TimedOutUntold ==
  /\ late
  /\ Goto("drain", "kill")
  /\ UNCHANGED <<processes, pipe, sent, late>>

(* Faulty variant: the deadline is noted, and the drain called again.      *)
TimedOutRetried ==
  /\ call.at = "drain"
  /\ late
  /\ call' = [call EXCEPT !.timedOut = TRUE]
  /\ UNCHANGED <<processes, pipe, sent, late>>

(* errc::timed_out: with output unread, perhaps. *)
TimedOut ==
  /\ call.at = "drain"
  /\ late
  /\ call' = [call EXCEPT !.at = "kill", !.timedOut = TRUE]
  /\ UNCHANGED <<processes, pipe, sent, late>>

(* Any other error of the drain. *)
DrainFails ==
  /\ call.at = "drain"
  /\ call' = [call EXCEPT !.at = "kill", !.unread = TRUE]
  /\ UNCHANGED <<processes, pipe, sent, late>>

(* Faulty variant: the killed child is not waited for. *)
KillAndGo ==
  /\ call.at = "kill"
  /\ child' = [child EXCEPT !.doomed = TRUE]
  /\ Answer(-1)
  /\ UNCHANGED <<helper, pipe, sent, late>>

(* SIGKILL; a child that has ended already does not mind. *)
Kill ==
  /\ Goto("kill", "killed")
  /\ child' = [child EXCEPT !.doomed = TRUE]
  /\ UNCHANGED <<helper, pipe, sent, late>>

(* The wait for the killed child, of a second at most. *)
Bury ==
  /\ call.at = "killed"
  /\ \/ /\ child.state = "zombie"
        /\ child' = [child EXCEPT !.state = "gone"]
        /\ Answer(-1)
     \/ /\ child.state = "running"
        /\ UNCHANGED child
        /\ call' = [call EXCEPT !.at = "done", !.result = -1, !.gaveUp = TRUE]
  /\ UNCHANGED <<helper, pipe, sent, late>>

(* The wait without a bound: the child's status, or -1 for an error.       *)
Wait ==
  /\ call.at = "wait"
  /\ \/ /\ child.state = "zombie"
        /\ child' = [child EXCEPT !.state = "gone"]
        /\ Answer(child.code)
     \/ /\ UNCHANGED child
        /\ call' = [call EXCEPT !.at = "done", !.result = -1, !.gaveUp = TRUE]
  /\ UNCHANGED <<helper, pipe, sent, late>>

(* SpawnDetached: no such program, or no process to fork; or the first     *)
(* fork.                                                                   *)
SpawnRefused ==
  /\ call.at = "start"
  /\ call.op = "SpawnDetached"
  /\ Answer(0)
  /\ UNCHANGED <<processes, pipe, sent, late>>

FirstFork ==
  /\ call.op = "SpawnDetached"
  /\ Goto("start", "reap")
  /\ child' = [NoProcess EXCEPT !.state = "forked"]
  /\ UNCHANGED <<helper, pipe, sent, late>>

(* waitpid, and true if the child exited with 0. *)
Reap ==
  /\ call.at = "reap"
  /\ child.state = "zombie"
  /\ child' = [child EXCEPT !.state = "gone"]
  /\ Answer(IF child.code = 0 THEN 1 ELSE 0)
  /\ UNCHANGED <<helper, pipe, sent, late>>

Caller ==
  \/ Call \/ Return
  \/ Start \/ StartFails \/ \E s \in Streams : ReadChunk(s)
  \/ Drained \/ TimedOut \/ DrainFails \/ Kill \/ Bury \/ Wait
  \/ SpawnRefused \/ FirstFork \/ Reap

-----------------------------------------------------------------------------
(* The other processes, and the clock. *)

(* The first child of SpawnDetached: setsid, fork, exit. *)
SecondFork ==
  /\ child.state = "forked"
  /\ \/ /\ helper' = [NoProcess EXCEPT !.state = "forked"]
        /\ child' = [child EXCEPT !.state = "zombie", !.code = 0]
     \/ /\ child' = [child EXCEPT !.state = "zombie", !.code = 1]
        /\ UNCHANGED helper
  /\ UNCHANGED <<call, pipe, sent, late>>

(* Its child executes the program, or finds that it cannot; nobody hears.  *)
Exec ==
  /\ helper.state = "forked"
  /\ \/ helper' = [helper EXCEPT !.state = "running"]
     \/ helper' = [helper EXCEPT !.state = "gone", !.code = 127]
  /\ UNCHANGED <<call, child, pipe, sent, late>>

(* A program that is run may write, close a stream, leave another process  *)
(* behind, and end; it need not.                                           *)
Write(s) ==
  /\ call.op = "RunCaptured" /\ call.at # "done"
  /\ s \in Open
  /\ sent["out"] + sent["err"] < MaxChunks
  /\ sent' = [sent EXCEPT ![s] = @ + 1]
  /\ pipe' = [pipe EXCEPT ![s] = Append(@, [stream |-> s, number |-> sent'[s]])]
  /\ UNCHANGED <<call, processes, late>>

Close(s) ==
  /\ \/ s \in child.holds /\ child' = [child EXCEPT !.holds = @ \ {s}]
        /\ UNCHANGED helper
     \/ s \in helper.holds /\ helper' = [helper EXCEPT !.holds = @ \ {s}]
        /\ UNCHANGED child
  /\ UNCHANGED <<call, pipe, sent, late>>

LeaveHelper ==
  /\ call.op = "RunCaptured"
  /\ child.state = "running" /\ helper.state = "none"
  /\ helper' = [NoProcess EXCEPT !.state = "running", !.holds = child.holds]
  /\ UNCHANGED <<call, child, pipe, sent, late>>

Ended(p, code) == [p EXCEPT !.state = "zombie", !.holds = {}, !.code = code]

ChildEnds ==
  /\ child.state = "running"
  /\ \E code \in Codes : child' = Ended(child, code)
  /\ UNCHANGED <<call, helper, pipe, sent, late>>

(* SIGKILL takes effect. *)
ChildDies ==
  /\ child.state = "running" /\ child.doomed
  /\ child' = Ended(child, SIGKILL)
  /\ UNCHANGED <<call, helper, pipe, sent, late>>

HelperEnds ==
  /\ helper.state = "running"
  /\ helper' = [Ended(helper, 0) EXCEPT !.state = "gone"]
  /\ UNCHANGED <<call, child, pipe, sent, late>>

DeadlinePasses ==
  /\ call.op = "RunCaptured" /\ call.at \notin {"start", "done"}
  /\ ~late
  /\ late' = TRUE
  /\ UNCHANGED <<call, processes, pipe, sent>>

Others ==
  \/ SecondFork \/ Exec
  \/ \E s \in Streams : Write(s) \/ Close(s)
  \/ LeaveHelper \/ ChildEnds \/ ChildDies \/ HelperEnds
  \/ DeadlinePasses

Next == Caller \/ Others

(* The caller runs, time passes, the kernel carries a SIGKILL out, and the *)
(* first child of SpawnDetached only forks and exits.  A drain need not    *)
(* fail, and a program that is run owes nobody anything.                   *)
Fairness ==
  /\ WF_vars(Start \/ StartFails) /\ WF_vars(TimedOut \/ Drained)
  /\ WF_vars(Kill) /\ WF_vars(Bury) /\ WF_vars(Wait /\ child.state = "zombie")
  /\ WF_vars(SpawnRefused \/ FirstFork \/ Reap)
  /\ WF_vars(SecondFork) /\ WF_vars(ChildDies) /\ WF_vars(DeadlinePasses)

Spec == Init /\ [][Next]_vars
FairSpec == Spec /\ Fairness

-----------------------------------------------------------------------------
(* Properties. *)

Returned(op) == call.at = "done" /\ call.op = op

(* process::DidNotRun, and what `properties` makes of it (cli.cpp:230-237).*)
DidNotRun(exitCode) == exitCode \in {-1, 127}
Verdict == IF ~DidNotRun(call.result) THEN "finished"
           ELSE IF call.timedOut THEN "not in time" ELSE "not run"

(* Piece number n of stream s is among the first k pieces captured.        *)
CapturedIn(s, n, k) ==
  \E i \in 1..k : call.output[i] = [stream |-> s, number |-> n]

(* process.cpp:45: what was read, timeout or not, is a prefix of what was  *)
(* written to each stream, in its order: of two pieces of a stream the one *)
(* written first comes first, and every piece comes after all those that   *)
(* were written to its stream before it.                                   *)
OutputInOrder ==
  \A i \in DOMAIN call.output :
    LET piece == call.output[i] IN
    /\ piece.number <= sent[piece.stream]
    /\ \A j \in 1..(i - 1) : call.output[j].stream = piece.stream =>
         call.output[j].number < piece.number
    /\ \A n \in 1..(piece.number - 1) : CapturedIn(piece.stream, n, i - 1)

(* A program that is reported as finished has had all its output captured, *)
(* also what a process it left behind wrote, and the status is its own.    *)
FinishedIsComplete ==
  Returned("RunCaptured") /\ Verdict = "finished" =>
    /\ \A s \in Streams : \A n \in 1..sent[s] :
         CapturedIn(s, n, Len(call.output))
    /\ call.result = child.code

(* process.h:17: a timeout is told from a program that could not be run.   *)
(* "Not run" is said of one that started only if it exited with 127, or    *)
(* its output or its end could not be read; "not in time" only of one that *)
(* started, after the deadline.  SpawnDetached is true of a program that   *)
(* was let go, and false only if nothing was started; whether the exec     *)
(* succeeds is not known to it.                                            *)
ResultsAreHonest ==
  /\ Returned("RunCaptured") =>
       /\ Verdict = "not in time" => late /\ child.state # "none"
       /\ Verdict = "not run" =>
            child.state = "none" \/ child.code = 127 \/ call.unread \/ call.gaveUp
  /\ Returned("SpawnDetached") =>
       (call.result = 1 <=> helper.state # "none")

(* process.h:34: no call leaves a zombie, or a process of its own running, *)
(* unless waiting for it failed or took more than the second it is given.  *)
NothingLeft ==
  call.at = "done" /\ ~call.gaveUp => child.state \in {"none", "gone"}

(* process.h:13-16: a call of RunCaptured ends with its timeout, whoever   *)
(* holds the streams, unless both are closed by then: the wait for a child *)
(* that runs on has no bound.  A call of SpawnDetached always ends.        *)
CallEnds ==
  call.at = "start" /\ call.op # "RunAndWait" ~>
    \/ call.at = "done"
    \/ call.at = "wait" /\ child.state = "running"

=============================================================================
