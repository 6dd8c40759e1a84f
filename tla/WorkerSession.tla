--------------------------- MODULE WorkerSession ---------------------------
(***************************************************************************)
(* One worker session of the broker (crates/rmcp-broker/src/worker_pool.rs):*)
(* the callers that share its mutex, the request channel, the pump task    *)
(* that owns the child's pipes, the single-threaded worker process and the *)
(* monitor task that flips the session to Crashed.                         *)
(*                                                                         *)
(* A request and its response are abstracted to the call id.  A pipe holds *)
(* PipeCap whole frames; a frame that is being written is already at its   *)
(* tail, and the write ends when the pipe holds no more than PipeCap       *)
(* frames, so PipeCap = 0 is a frame larger than the pipe's buffer.        *)
(***************************************************************************)
EXTENDS Naturals, Sequences, Functions

CONSTANTS
    Callers,   \* broker tasks that use the session
    MaxCalls,  \* bound: calls issued in one behaviour
    ChanCap,   \* capacity of the mpsc request channel (64 in the code)
    PipeCap,   \* whole frames a pipe buffers
    Nobody     \* the session mutex is free

ASSUME SessionAssumption ==
    /\ MaxCalls \in Nat
    /\ ChanCap \in Nat \ {0}
    /\ PipeCap \in Nat
    /\ Nobody \notin Callers

VARIABLES
    lock,      \* holder of the session mutex
    tx,        \* the session still holds the channel's sender
    health,    \* WorkerHealth
    pc,        \* what each caller is doing
    call,      \* the id of the call each caller is in (0: none)
    nextId,    \* next_call_id
    chan,      \* the mpsc channel, ids in order
    oneshot,   \* state of the reply channel of each call
    answerOf,  \* the request whose answer was put in a reply channel
    result,    \* what each call returned
    pump,      \* control state of pump_task
    pending,   \* pump_task's map from ids to reply senders
    half,      \* the read future has consumed a prefix of the next frame
    stdin,     \* frames on their way to the worker
    stdout,    \* frames on their way to the pump
    worker,    \* control state of worker_main
    cur,       \* the request worker_main is dispatching
    execs,     \* how often the worker executed each request
    crash,     \* the crash channel, capacity 1
    monitor    \* control state of the monitor task

sessionVars == <<lock, tx, health>>
callerVars  == <<pc, call, nextId, result>>
replyVars   == <<oneshot, answerOf>>
pumpVars    == <<pump, pending, half>>
pipeVars    == <<chan, stdin, stdout>>
workerVars  == <<worker, cur, execs>>
crashVars   == <<crash, monitor>>
vars == <<sessionVars, callerVars, replyVars, pumpVars, pipeVars, workerVars, crashVars>>

Ids == 1..MaxCalls

Frame == [id : Ids, of : Ids, torn : BOOLEAN]

\* The results a call may return: an answer of the worker, a failure sent by
\* fail_all, a dropped reply sender, the caller's timeout, a closed channel.
Results == {"none", "answer", "failed", "dropped", "timeout", "notSent"}

(***************************************************************************)
(* Type invariant.                                                         *)
(***************************************************************************)
TypeOK ==
    /\ lock \in Callers \cup {Nobody}
    /\ tx \in BOOLEAN
    /\ health \in {"Healthy", "Crashed"}
    /\ pc \in [Callers -> {"idle", "locked", "sending", "waiting"}]
    /\ call \in [Callers -> 0..MaxCalls]
    /\ nextId \in 1..(MaxCalls + 1)
    /\ chan \in Seq(Ids)
    /\ oneshot \in [Ids -> {"open", "answer", "failed", "dropped"}]
    /\ answerOf \in [Ids -> 0..MaxCalls]
    /\ result \in [Ids -> Results]
    /\ pump \in {"select", "writing", "killing", "gone"}
    /\ pending \in SUBSET Ids
    /\ half \in BOOLEAN
    /\ stdin \in Seq(Ids)
    /\ stdout \in Seq(Frame)
    /\ worker \in {"reading", "busy", "replying", "exited"}
    /\ cur \in 0..MaxCalls
    /\ execs \in [Ids -> Nat]
    /\ crash \in {"empty", "full", "closed"}
    /\ monitor \in {"recv", "locking", "done"}

(***************************************************************************)
(* spawn_for has read the hello frame, built the session and spawned the   *)
(* pump and the monitor.                                                   *)
(***************************************************************************)
Init ==
    /\ lock = Nobody /\ tx = TRUE /\ health = "Healthy"
    /\ pc = [c \in Callers |-> "idle"]
    /\ call = [c \in Callers |-> 0]
    /\ nextId = 1
    /\ result = [i \in Ids |-> "none"]
    /\ oneshot = [i \in Ids |-> "open"]
    /\ answerOf = [i \in Ids |-> 0]
    /\ pump = "select" /\ pending = {} /\ half = FALSE
    /\ chan = <<>> /\ stdin = <<>> /\ stdout = <<>>
    /\ worker = "reading" /\ cur = 0
    /\ execs = [i \in Ids |-> 0]
    /\ crash = "empty" /\ monitor = "recv"

-----------------------------------------------------------------------------
(***************************************************************************)
(* Callers: a tool locks the session, makes one or more calls and unlocks. *)
(***************************************************************************)
LockSession(c) ==
    /\ pc[c] = "idle"
    /\ lock = Nobody
    /\ lock' = c
    /\ pc' = [pc EXCEPT ![c] = "locked"]
    /\ UNCHANGED <<tx, health, call, nextId, result, replyVars, pumpVars, pipeVars,
                   workerVars, crashVars>>

UnlockSession(c) ==
    /\ pc[c] = "locked"
    /\ lock' = Nobody
    /\ pc' = [pc EXCEPT ![c] = "idle"]
    /\ UNCHANGED <<tx, health, call, nextId, result, replyVars, pumpVars, pipeVars,
                   workerVars, crashVars>>

\* Mutant of StartCall: the id is read and not advanced.
StartCallReusesId(c) ==
    /\ pc[c] = "locked"
    /\ tx
    /\ nextId \in Ids
    /\ call' = [call EXCEPT ![c] = nextId]
    /\ nextId' = nextId
    /\ pc' = [pc EXCEPT ![c] = "sending"]
    /\ UNCHANGED <<sessionVars, result, replyVars, pumpVars, pipeVars, workerVars, crashVars>>

\* call_with_timeout up to tx.send: without a sender it fails before it draws
\* an id ("worker is dead"), and the caller is back where it was.
StartCall(c) ==
    /\ pc[c] = "locked"
    /\ tx
    /\ nextId \in Ids
    /\ call' = [call EXCEPT ![c] = nextId]
    /\ nextId' = nextId + 1
    /\ pc' = [pc EXCEPT ![c] = "sending"]
    /\ UNCHANGED <<sessionVars, result, replyVars, pumpVars, pipeVars, workerVars, crashVars>>

\* tx.send(..).await, which waits for room in the channel.
Enqueue(c) ==
    /\ pc[c] = "sending"
    /\ pump # "gone"
    /\ Len(chan) < ChanCap
    /\ chan' = Append(chan, call[c])
    /\ pc' = [pc EXCEPT ![c] = "waiting"]
    /\ UNCHANGED <<sessionVars, call, nextId, result, replyVars, pumpVars, stdin, stdout,
                   workerVars, crashVars>>

Return(c, r) ==
    /\ result' = [result EXCEPT ![call[c]] = r]
    /\ call' = [call EXCEPT ![c] = 0]
    /\ pc' = [pc EXCEPT ![c] = "locked"]
    /\ UNCHANGED <<sessionVars, nextId, replyVars, pumpVars, pipeVars, workerVars, crashVars>>

\* Mutant of SendFails: a closed channel is tried again.
SendFailsRetries(c) ==
    /\ pc[c] = "sending"
    /\ pump = "gone"
    /\ UNCHANGED vars

SendFails(c) ==
    /\ pc[c] = "sending"
    /\ pump = "gone"
    /\ Return(c, "notSent")

Receive(c) ==
    /\ pc[c] = "waiting"
    /\ oneshot[call[c]] # "open"
    /\ Return(c, oneshot[call[c]])

\* Mutants of TimeOut: there is none; it is reported as "never reached".
TimeOutMissing(c) ==
    /\ pc[c] = "waiting"
    /\ FALSE
    /\ Return(c, "timeout")

TimeOutAsUnreached(c) ==
    /\ pc[c] = "waiting"
    /\ oneshot[call[c]] = "open"
    /\ Return(c, "dropped")

\* tokio::time::timeout polls the reply before its timer.
TimeOut(c) ==
    /\ pc[c] = "waiting"
    /\ oneshot[call[c]] = "open"
    /\ Return(c, "timeout")

-----------------------------------------------------------------------------
(***************************************************************************)
(* pump_task.                                                              *)
(***************************************************************************)
\* fail_all: every waiting caller gets an error.  Shared by the exits of the
\* pump's loop; a reply nobody waits for any more is sent and lost.
FailAll ==
    /\ oneshot' = [i \in Ids |-> IF i \in pending THEN "failed" ELSE oneshot[i]]
    /\ pending' = {}
    /\ pump' = "killing"

\* Mutant of PumpTake: the reply sender is not kept.
PumpTakeForgets ==
    /\ pump = "select"
    /\ chan # <<>>
    /\ stdin' = Append(stdin, Head(chan))
    /\ chan' = Tail(chan)
    /\ pump' = "writing"
    /\ half' = FALSE
    /\ stdout' = IF half THEN [stdout EXCEPT ![1].torn = TRUE] ELSE stdout
    /\ UNCHANGED <<sessionVars, callerVars, replyVars, pending, workerVars, crashVars>>

\* The rx.recv branch.  Winning it drops the future of the other branch, and
\* with it the bytes of the next frame that read_line had already consumed.
PumpTake ==
    /\ pump = "select"
    /\ chan # <<>>
    /\ pending' = pending \cup {Head(chan)}
    /\ stdin' = Append(stdin, Head(chan))
    /\ chan' = Tail(chan)
    /\ pump' = "writing"
    /\ half' = FALSE
    /\ stdout' = IF half THEN [stdout EXCEPT ![1].torn = TRUE] ELSE stdout
    /\ UNCHANGED <<sessionVars, callerVars, replyVars, workerVars, crashVars>>

PumpWrote ==
    /\ pump = "writing"
    /\ worker # "exited"
    /\ Len(stdin) <= PipeCap
    /\ pump' = "select"
    /\ UNCHANGED <<sessionVars, callerVars, replyVars, pending, half, pipeVars, workerVars,
                   crashVars>>

\* write_frame_async fails: the loop is left without a word to crash_tx.
PumpWriteFails ==
    /\ pump = "writing"
    /\ worker = "exited"
    /\ FailAll
    /\ UNCHANGED <<sessionVars, callerVars, answerOf, half, pipeVars, workerVars, crashVars>>

\* The read branch has polled part of a frame.
PumpReadsPart ==
    /\ pump = "select"
    /\ stdout # <<>>
    /\ ~half
    /\ half' = TRUE
    /\ UNCHANGED <<sessionVars, callerVars, replyVars, pump, pending, pipeVars, workerVars,
                   crashVars>>

\* Mutant of PumpRead: a frame goes to the newest call instead of by its id.
PumpReadNewest ==
    /\ pump = "select"
    /\ stdout # <<>> /\ pending # {}
    /\ ~Head(stdout).torn
    /\ LET newest == CHOOSE i \in pending : \A j \in pending : j <= i IN
         /\ oneshot' = [oneshot EXCEPT ![newest] = "answer"]
         /\ answerOf' = [answerOf EXCEPT ![newest] = Head(stdout).of]
         /\ pending' = pending \ {newest}
    /\ stdout' = Tail(stdout)
    /\ half' = FALSE
    /\ UNCHANGED <<sessionVars, callerVars, pump, chan, stdin, workerVars, crashVars>>

\* The read branch completes a frame and routes it by id.
PumpRead ==
    /\ pump = "select"
    /\ stdout # <<>>
    /\ ~Head(stdout).torn
    /\ LET f == Head(stdout) IN
         /\ oneshot' = IF f.id \in pending THEN [oneshot EXCEPT ![f.id] = "answer"] ELSE oneshot
         /\ answerOf' = IF f.id \in pending THEN [answerOf EXCEPT ![f.id] = f.of] ELSE answerOf
         /\ pending' = pending \ {f.id}
    /\ stdout' = Tail(stdout)
    /\ half' = FALSE
    /\ UNCHANGED <<sessionVars, callerVars, pump, chan, stdin, workerVars, crashVars>>

\* EOF, or a frame that does not parse: both end the pump the same way.
PumpReadFails ==
    /\ pump = "select"
    /\ \/ stdout = <<>> /\ worker = "exited"
       \/ stdout # <<>> /\ Head(stdout).torn
    /\ FailAll
    /\ crash' = "full"
    /\ UNCHANGED <<sessionVars, callerVars, answerOf, half, pipeVars, workerVars, monitor>>

\* child.kill().await after the loop, then the task ends and drops the
\* receiver, with the reply senders still queued in it, and crash_tx.
PumpExit ==
    /\ pump = "killing"
    /\ pump' = "gone"
    /\ worker' = "exited"
    /\ oneshot' = [i \in Ids |->
                     IF i \in Range(chan) THEN "dropped" ELSE oneshot[i]]
    /\ chan' = <<>>
    /\ crash' = IF crash = "empty" THEN "closed" ELSE crash
    /\ UNCHANGED <<sessionVars, callerVars, answerOf, pending, half, stdin, stdout, cur, execs,
                   monitor>>

-----------------------------------------------------------------------------
(***************************************************************************)
(* worker_main: read, dispatch, write, one request at a time.              *)
(***************************************************************************)
WorkerRead ==
    /\ worker = "reading"
    /\ stdin # <<>>
    /\ cur' = Head(stdin)
    /\ stdin' = Tail(stdin)
    /\ worker' = "busy"
    /\ UNCHANGED <<sessionVars, callerVars, replyVars, pumpVars, chan, stdout, execs, crashVars>>

\* dispatch::handle has run; the response is being written.
WorkerReply ==
    /\ worker = "busy"
    /\ execs' = [execs EXCEPT ![cur] = @ + 1]
    /\ stdout' = Append(stdout, [id |-> cur, of |-> cur, torn |-> FALSE])
    /\ worker' = "replying"
    /\ UNCHANGED <<sessionVars, callerVars, replyVars, pumpVars, chan, stdin, cur, crashVars>>

WorkerReplied ==
    /\ worker = "replying"
    /\ Len(stdout) <= PipeCap
    /\ worker' = "reading"
    /\ UNCHANGED <<sessionVars, callerVars, replyVars, pumpVars, pipeVars, cur, execs, crashVars>>

\* The process dies, or exits after a shutdown request: a response that was
\* being written may be cut anywhere.
WorkerExit ==
    /\ worker # "exited"
    /\ worker' = "exited"
    /\ \/ stdout' = stdout
       \/ /\ worker = "replying" /\ stdout # <<>>
          /\ stdout' = [stdout EXCEPT ![Len(stdout)].torn = TRUE]
    /\ UNCHANGED <<sessionVars, callerVars, replyVars, pumpVars, chan, stdin, cur, execs,
                   crashVars>>

-----------------------------------------------------------------------------
(***************************************************************************)
(* The monitor task of spawn_for.                                          *)
(***************************************************************************)
MonitorRecv ==
    /\ monitor = "recv"
    /\ \/ crash = "full"   /\ monitor' = "locking"
       \/ crash = "closed" /\ monitor' = "done"
    /\ UNCHANGED <<sessionVars, callerVars, replyVars, pumpVars, pipeVars, workerVars, crash>>

\* Mutant of MarkCrashed: the sender stays.
MarkCrashedKeepsSender ==
    /\ monitor = "locking"
    /\ lock = Nobody
    /\ health' = "Crashed"
    /\ monitor' = "done"
    /\ UNCHANGED <<lock, tx, callerVars, replyVars, pumpVars, pipeVars, workerVars, crash>>

\* lock().await.mark_crashed()
MarkCrashed ==
    /\ monitor = "locking"
    /\ lock = Nobody
    /\ tx' = FALSE
    /\ health' = "Crashed"
    /\ monitor' = "done"
    /\ UNCHANGED <<lock, callerVars, replyVars, pumpVars, pipeVars, workerVars, crash>>

-----------------------------------------------------------------------------
CallerStep(c) ==
    \/ LockSession(c) \/ UnlockSession(c)
    \/ StartCall(c) \/ Enqueue(c) \/ SendFails(c) \/ Receive(c) \/ TimeOut(c)

PumpStep ==
    \/ PumpTake \/ PumpWrote \/ PumpWriteFails
    \/ PumpReadsPart \/ PumpRead \/ PumpReadFails \/ PumpExit

WorkerStep == WorkerRead \/ WorkerReply \/ WorkerReplied \/ WorkerExit

Next ==
    \/ \E c \in Callers : CallerStep(c)
    \/ PumpStep
    \/ WorkerStep
    \/ MonitorRecv
    \/ MarkCrashed

Spec == Init /\ [][Next]_vars

\* Broker tasks and timers run, the operating system reports a dead child;
\* tokio's mutex is first come, first served, so the monitor's turn comes.
\* Nothing is assumed of the worker, which may compute forever.
Fairness ==
    /\ \A c \in Callers :
         /\ WF_vars(UnlockSession(c))
         /\ WF_vars(Enqueue(c))
         /\ WF_vars(SendFails(c) \/ Receive(c) \/ TimeOut(c))
    /\ WF_vars(PumpTake)
    /\ WF_vars(PumpWrote \/ PumpWriteFails)
    /\ WF_vars(PumpRead \/ PumpReadFails)
    /\ WF_vars(PumpExit)
    /\ WF_vars(MonitorRecv)
    /\ SF_vars(MarkCrashed)

FairSpec == Spec /\ Fairness

-----------------------------------------------------------------------------
(***************************************************************************)
(* Properties.                                                             *)
(***************************************************************************)
\* A call that returns an answer returns the answer to its own request, and
\* the worker executed that request exactly once: pump_task routes late
\* answers of timed-out calls by id and never to the call that follows.
AnswerIsOwn ==
    \A i \in Ids : result[i] = "answer" => answerOf[i] = i /\ execs[i] = 1

\* A caller that waits in call_with_timeout is never forgotten: as long as its
\* reply channel is open, the sender is in the request channel or in pending,
\* where the pump's exits find it.
NoLostReply ==
    \A c \in Callers :
        pc[c] = "waiting" /\ oneshot[call[c]] = "open" =>
            call[c] \in pending \cup Range(chan)

\* Where a request is before it is executed.
Travelling(i) ==
    \/ i \in Range(chan)
    \/ i \in Range(stdin)
    \/ worker = "busy" /\ cur = i

Fresh(i) ==
    /\ ~Travelling(i) /\ i \notin pending
    /\ oneshot[i] = "open" /\ result[i] = "none" /\ execs[i] = 0

\* A request is in one place of its way from the channel to the worker.
OnePlace ==
    /\ IsInjective(chan) /\ IsInjective(stdin)
    /\ Range(chan) \cap Range(stdin) = {}
    /\ worker = "busy" => cur \in Ids /\ cur \notin Range(chan) \cup Range(stdin)

\* A request is not executed before the end of that way, and what the reply
\* channel and the caller hold agrees with its execution.
Agrees(i) ==
    /\ execs[i] <= 1
    /\ Travelling(i) => execs[i] = 0
    /\ i \in Range(chan) => oneshot[i] = "open" /\ i \notin pending
    /\ i \in pending => oneshot[i] = "open"
    /\ oneshot[i] = "answer" => answerOf[i] = i /\ execs[i] = 1
    /\ oneshot[i] = "dropped" => execs[i] = 0 /\ ~Travelling(i)
    /\ result[i] \in {"answer", "dropped"} => oneshot[i] = result[i]
    /\ result[i] = "notSent" => execs[i] = 0 /\ ~Travelling(i)
    /\ i >= nextId => Fresh(i)

ExecutionAgrees ==
    /\ \A f \in Range(stdout) : f.id = f.of /\ execs[f.of] = 1
    /\ \A i \in Ids : Agrees(i)

\* The session mutex serialises the calls, and a call that waits for room in
\* the channel has left no trace.
CallersAgree ==
    \A c \in Callers :
        /\ pc[c] # "idle" => lock = c
        /\ pc[c] \in {"sending", "waiting"} =>
             call[c] \in Ids /\ call[c] < nextId /\ result[call[c]] = "none"
        /\ pc[c] = "sending" => Fresh(call[c])

\* The inductive invariant behind AnswerIsOwn, NoLostReply and
\* ImplementsCallService.
IInv == TypeOK /\ OnePlace /\ ExecutionAgrees /\ CallersAgree /\ NoLostReply

\* The session implements the promise of CallFailure: at most one execution,
\* none ever after "request channel closed" or a dropped reply.
Calls == INSTANCE CallService WITH issued <- nextId - 1
ImplementsCallService == Calls!Spec

\* call_with_timeout: once the channel has accepted a request its caller gets
\* a result, even from a worker that never answers.
AcceptedCallReturns ==
    \A c \in Callers : pc[c] = "waiting" ~> pc[c] # "waiting"

\* When the worker is dead every caller gets out of its call, also one that
\* waits for room in a full channel.
DeathFreesCallers ==
    \A c \in Callers :
        worker = "exited" /\ pc[c] \in {"sending", "waiting"} ~> pc[c] = "locked"

\* An end the pump reports is seen: the monitor gets the session's mutex and
\* flips the session to Crashed.
ReportedCrashIsSeen == crash = "full" ~> health = "Crashed" /\ ~tx

\* Violated.  pump_task's comment: it "reports the reason through `crash_tx` so the
\* session can flip to Crashed" whenever it exits.
PumpExitIsReported == pump = "gone" ~> health = "Crashed"

\* Violated.  recovery.rs on Crashed: "The worker process died; no requests can be
\* served."  The pump decides that a session crashed only when it did.
CrashMeansDeath == [][crash' = "full" /\ crash # "full" => worker = "exited"]_vars

=============================================================================
