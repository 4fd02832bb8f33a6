---------------------------- MODULE ProviderClient ----------------------------
(***************************************************************************)
(* The provider process (provider-swift ProviderClient.swift, with         *)
(* MLXBackend.generate): the thread of run(), which connects, registers,   *)
(* waits for the connection to die and starts over; the chain of receive   *)
(* callbacks; one Task per request; the heartbeat timer and its handlers.  *)
(* A step is what stateQueue serialises, or one call outside it.  The      *)
(* receive chain of a connection runs one callback at a time and only its  *)
(* failing callback, or a registration that is denied, tears down, so      *)
(* teardowns never overlap each other nor serve.  Times (backoff, 10 s to  *)
(* register, the heartbeat's 5 s) are left out: what they end may end at   *)
(* any time.                                                               *)
(***************************************************************************)
EXTENDS Integers, FiniteSets

CONSTANTS
    Request,      \* requests the coordinator sends, each once
    None,         \* no request
    FailedDials,  \* bound: registrations that fail before one is torn down
    LateBeats     \* bound: handlers of stopped timers that still run at once

ASSUME ProviderAssumption ==
    /\ IsFiniteSet(Request)
    /\ None \notin Request
    /\ FailedDials \in Nat
    /\ LateBeats \in Nat

VARIABLES
    run,          \* where the thread of run() is
    ws,           \* the current socket: "nil", "up" or "down"
    first,        \* the first frame handed to the current socket
    tornDown,     \* as in the code
    entered,      \* the count of connGroup
    teardown,     \* how far a teardownConnection that found one to do is
    beating,      \* the heartbeat timer is on
    onTimer,      \* its handler runs
    late,         \* how many handlers of stopped timers still run
    starting,     \* the request the receive chain is inside serve with
    queueDepth,   \* as in the code
    inflight,     \* the keys of the code's inflight
    task,         \* where the Task of each request is
    cancelled,    \* the requests whose Task was cancelled
    told,         \* the last event of each request handed to a socket
    old           \* history: requests taken over an earlier connection

connVars == <<ws, tornDown, entered, teardown>>
timerVars == <<beating, onTimer, late>>
linkVars == <<connVars, first, timerVars>>
workVars == <<queueDepth, inflight, task, cancelled>>
vars == <<run, linkVars, starting, workVars, told, old>>

RunPc == {"asleep", "connecting", "registering", "serving", "clearing",
          "denied", "exited"}
TaskPc == {"none", "created", "generating", "emitting", "generated",
           "failing", "ending", "done"}

TypeOK ==
    /\ run \in RunPc
    /\ ws \in {"nil", "up", "down"}
    /\ first \in {"none", "register", "other"}
    /\ tornDown \in BOOLEAN
    /\ entered \in Nat
    /\ teardown \in {"none", "cleared", "stopped"}
    /\ beating \in BOOLEAN /\ onTimer \in BOOLEAN
    /\ late \in Nat
    /\ starting \in Request \cup {None}
    /\ queueDepth \in Nat
    /\ inflight \subseteq Request
    /\ task \in [Request -> TaskPc]
    /\ cancelled \subseteq Request
    /\ told \in [Request -> {"nothing", "accepted", "chunk", "complete", "error"}]
    /\ old \subseteq Request

Init ==
    /\ run = "asleep"
    /\ ws = "nil" /\ first = "none"
    /\ tornDown = TRUE
    /\ entered = 0
    /\ teardown = "none"
    /\ beating = FALSE /\ onTimer = FALSE /\ late = 0
    /\ starting = None
    /\ queueDepth = 0
    /\ inflight = {}
    /\ task = [r \in Request |-> "none"]
    /\ cancelled = {}
    /\ told = [r \in Request |-> "nothing"]
    /\ old = {}

Unfinished == {r \in Request : task[r] \notin {"none", "done"}}

-----------------------------------------------------------------------------
(* The thread of run().                                                    *)

\* connectAndRegister: a new socket, and connGroup is entered.
Dial ==
    /\ run = "asleep"
    /\ run' = "connecting"
    /\ ws' = "up" /\ first' = "none"
    /\ tornDown' = FALSE
    /\ entered' = entered + 1
    /\ old' = {r \in Request : task[r] # "none"}
    /\ UNCHANGED <<teardown, timerVars, starting, workVars, told>>

\* What the first frame on the socket is once some frame is handed to it.
FirstIs(kind) == IF first = "none" THEN kind ELSE first

SendRegister ==
    /\ run = "connecting"
    /\ run' = "registering"
    /\ first' = FirstIs("register")
    /\ UNCHANGED <<connVars, timerVars, starting, workVars, told, old>>

\* The timer is cancelled, a handler of it that runs is not.
TimerStopped == /\ onTimer' = FALSE
                /\ late' = IF onTimer THEN late + 1 ELSE late

\* The coordinator answers only a socket whose first frame is a register.
\* startHeartbeat stops the timer there may be and makes a new one.
RegisterOK ==
    /\ run = "registering"
    /\ ws = "up" /\ first = "register"
    /\ run' = "serving"
    /\ beating' = TRUE /\ TimerStopped
    /\ UNCHANGED <<connVars, first, starting, workVars, told, old>>

\* teardownConnection inside stateQueue.  What follows are steps of their own,
\* beside which Tasks and timer handlers run.
ClearSocket ==
    /\ ~tornDown
    /\ tornDown' = TRUE
    /\ ws' = "nil"
    /\ teardown' = "cleared"
    /\ UNCHANGED <<entered, first, timerVars>>

\* Mutant of StopHeartbeat: the timer is dropped but not cancelled.
DropTimer ==
    /\ teardown = "cleared"
    /\ teardown' = "stopped"
    /\ UNCHANGED <<run, ws, tornDown, entered, first, timerVars, starting,
                   workVars, told, old>>

StopHeartbeat ==
    /\ teardown = "cleared"
    /\ teardown' = "stopped"
    /\ beating' = FALSE /\ TimerStopped
    /\ UNCHANGED <<run, ws, tornDown, entered, first, starting, workVars, told,
                   old>>

\* Mutant of LeaveGroup: the group is not left.
StayInGroup ==
    /\ teardown = "stopped"
    /\ teardown' = "none"
    /\ UNCHANGED <<run, ws, tornDown, entered, first, timerVars, starting,
                   workVars, told, old>>

LeaveGroup ==
    /\ teardown = "stopped"
    /\ teardown' = "none"
    /\ entered' = entered - 1
    /\ UNCHANGED <<run, ws, tornDown, first, timerVars, starting, workVars, told,
                   old>>

\* The join code is wrong: torn down, ...
RegisterDenied ==
    /\ run = "registering"
    /\ ws = "up" /\ first = "register"
    /\ run' = "denied"
    /\ ClearSocket
    /\ UNCHANGED <<starting, workVars, told, old>>

\* ... then exit(1), for fatalRegistration.
Exit ==
    /\ run = "denied" /\ teardown = "none"
    /\ run' = "exited"
    /\ UNCHANGED <<linkVars, starting, workVars, told, old>>

\* Nobody listens, the socket fails, no answer within 10 s, or one that does
\* not decode: connectAndRegister throws.  Nothing is torn down nor left.
RegisterThrows ==
    /\ run = "registering"
    /\ entered <= FailedDials
    /\ run' = "clearing"
    /\ UNCHANGED <<linkVars, starting, workVars, told, old>>

\* connGroup.wait returns.
WaitReturns ==
    /\ run = "serving"
    /\ entered = 0
    /\ run' = "clearing"
    /\ UNCHANGED <<linkVars, starting, workVars, told, old>>

\* cancelAllInflight, then Thread.sleep.
CancelAll ==
    /\ run = "clearing"
    /\ run' = "asleep"
    /\ cancelled' = cancelled \cup inflight
    /\ inflight' = {}
    /\ UNCHANGED <<linkVars, starting, queueDepth, task, told, old>>

-----------------------------------------------------------------------------
(* The socket and the receive chain.                                       *)

SocketFails ==
    /\ ws = "up"
    /\ ws' = "down"
    /\ UNCHANGED <<run, tornDown, entered, teardown, first, timerVars, starting,
                   workVars, told, old>>

\* receiveLoop is called after registration and goes on while ws is not nil.
Receiving == run = "serving" /\ ws # "nil" /\ starting = None

\* serve: counted, and its Task is created, which may run from now on ...
ReceiveRequest(r) ==
    /\ Receiving /\ ws = "up"
    /\ task[r] = "none"
    /\ queueDepth' = queueDepth + 1
    /\ task' = [task EXCEPT ![r] = "created"]
    /\ starting' = r
    /\ UNCHANGED <<run, linkVars, inflight, cancelled, told, old>>

\* ... before it is put into inflight, perhaps after it has finished.
NoteInflight ==
    /\ starting # None
    /\ inflight' = inflight \cup {starting}
    /\ starting' = None
    /\ UNCHANGED <<run, linkVars, queueDepth, task, cancelled, told, old>>

\* Mutant of ReceiveCancel: the task is forgotten, not cancelled.
ReceiveCancelForgets(r) ==
    /\ Receiving /\ ws = "up"
    /\ r \in inflight
    /\ inflight' = inflight \ {r}
    /\ UNCHANGED <<run, linkVars, starting, queueDepth, task, cancelled, told,
                   old>>

\* Mutant of ReceiveCancel: the request is counted off, and finish follows.
ReceiveCancelCounts(r) ==
    /\ Receiving /\ ws = "up"
    /\ r \in inflight
    /\ cancelled' = cancelled \cup {r}
    /\ inflight' = inflight \ {r}
    /\ queueDepth' = queueDepth - 1
    /\ UNCHANGED <<run, linkVars, starting, task, told, old>>

\* A cancel of a request this process took, perhaps over another connection.
ReceiveCancel(r) ==
    /\ Receiving /\ ws = "up"
    /\ r \in inflight
    /\ cancelled' = cancelled \cup {r}
    /\ inflight' = inflight \ {r}
    /\ UNCHANGED <<run, linkVars, starting, queueDepth, task, told, old>>

ReceiveFails ==
    /\ Receiving /\ ws = "down"
    /\ ClearSocket
    /\ UNCHANGED <<run, starting, workVars, told, old>>

-----------------------------------------------------------------------------
(* The heartbeat timer, whose handlers run on a queue of their own: one of *)
(* a timer at a time.  A handler reads queueDepth and then takes whatever  *)
(* socket there is.                                                        *)

BeatStarts ==
    /\ beating /\ ~onTimer
    /\ late < LateBeats
    /\ onTimer' = TRUE
    /\ UNCHANGED <<run, connVars, first, beating, late, starting, workVars, told,
                   old>>

Beat == first' = IF ws = "nil" THEN first ELSE FirstIs("other")

BeatSends ==
    /\ onTimer
    /\ onTimer' = FALSE
    /\ Beat
    /\ UNCHANGED <<run, connVars, beating, late, starting, workVars, told, old>>

\* The timer was stopped meanwhile, and a later connection may be dialled.
LateBeatSends ==
    /\ late > 0
    /\ late' = late - 1
    /\ Beat
    /\ UNCHANGED <<run, connVars, beating, onTimer, starting, workVars, told, old>>

-----------------------------------------------------------------------------
(* The Task of a request: runInference, then finish.  send takes whatever  *)
(* socket there is, so the events of a request may go out on a later       *)
(* connection than it came in on; without one it throws.                   *)

Send(r, event) ==
    /\ ws # "nil"
    /\ told' = [told EXCEPT ![r] = event]
    /\ first' = FirstIs("other")

\* try? send: an event nobody can be told is dropped.
TrySend(r, event) == \/ Send(r, event)
                     \/ ws = "nil" /\ UNCHANGED <<told, first>>

Step(r, from, to) == /\ task[r] = from
                     /\ task' = [task EXCEPT ![r] = to]
                     /\ UNCHANGED <<run, connVars, timerVars, starting,
                                    cancelled, old>>

Accept(r) == /\ Step(r, "created", "generating")
             /\ TrySend(r, "accepted")
             /\ UNCHANGED <<queueDepth, inflight>>

\* onDelta looks at Task.isCancelled, ...
Delta(r) == /\ r \notin cancelled
            /\ Step(r, "generating", "emitting")
            /\ UNCHANGED <<queueDepth, inflight, told, first>>

\* ... then sends.
SendChunk(r) == /\ Step(r, "emitting", "generating")
                /\ TrySend(r, "chunk")
                /\ UNCHANGED <<queueDepth, inflight>>

\* generate leaves its loop at the next token and returns as if it had ended.
StopEarly(r) == /\ r \in cancelled
                /\ Step(r, "generating", "generated")
                /\ UNCHANGED <<queueDepth, inflight, told, first>>

EndOfText(r) == /\ Step(r, "generating", "generated")
                /\ UNCHANGED <<queueDepth, inflight, told, first>>

\* No backend, a body that makes no sense, an exception while generating.
GenerateThrows(r) == /\ Step(r, "generating", "failing")
                     /\ UNCHANGED <<queueDepth, inflight, told, first>>

\* Mutant of SendComplete: what follows the send throws as well.
SendCompleteThrows(r) == /\ Step(r, "generated", "failing")
                         /\ Send(r, "complete")
                         /\ UNCHANGED <<queueDepth, inflight>>

SendComplete(r) == /\ Step(r, "generated", "ending")
                   /\ Send(r, "complete")
                   /\ UNCHANGED <<queueDepth, inflight>>

\* Mutant of CompleteThrows: the completion waits for a connection.
CompleteWaits(r) == /\ task[r] = "generated"
                    /\ ws = "nil"
                    /\ UNCHANGED vars

\* Without a connection it throws, and the catch tries to send an error.
CompleteThrows(r) == /\ Step(r, "generated", "failing")
                     /\ ws = "nil"
                     /\ UNCHANGED <<queueDepth, inflight, told, first>>

SendError(r) == /\ Step(r, "failing", "ending")
                /\ TrySend(r, "error")
                /\ UNCHANGED <<queueDepth, inflight>>

\* Mutant of Finish: a cancelled request, out of inflight, is not counted off.
FinishCancelled(r) == /\ Step(r, "ending", "done")
                      /\ queueDepth' = IF r \in inflight THEN queueDepth - 1
                                       ELSE queueDepth
                      /\ inflight' = inflight \ {r}
                      /\ UNCHANGED <<told, first>>

Finish(r) == /\ Step(r, "ending", "done")
             /\ queueDepth' = IF queueDepth > 0 THEN queueDepth - 1 ELSE 0
             /\ inflight' = inflight \ {r}
             /\ UNCHANGED <<told, first>>

-----------------------------------------------------------------------------
RunStep == \/ Dial \/ SendRegister \/ WaitReturns \/ CancelAll \/ Exit

Registration == RegisterOK \/ RegisterDenied \/ RegisterThrows

\* What the receive chain does by itself, and who tears down.
ChainStep == NoteInflight \/ ReceiveFails \/ StopHeartbeat \/ LeaveGroup

TimerStep == BeatStarts \/ BeatSends \/ LateBeatSends

\* What a Task does by itself once its generation has ended.
TaskStep(r) == \/ Accept(r) \/ SendChunk(r) \/ StopEarly(r)
               \/ SendComplete(r) \/ CompleteThrows(r) \/ SendError(r)
               \/ Finish(r)

Generation(r) == Delta(r) \/ EndOfText(r) \/ GenerateThrows(r)

Next ==
    /\ run # "exited"
    /\ \/ RunStep \/ Registration
       \/ SocketFails \/ ChainStep \/ TimerStep
       \/ \E r \in Request : \/ ReceiveRequest(r) \/ ReceiveCancel(r)
                             \/ TaskStep(r) \/ Generation(r)

Spec == Init /\ [][Next]_vars

(***************************************************************************)
(* Fairness: threads and Tasks that can run do; a failing receive calls    *)
(* back.  Nothing is assumed of the network, of the coordinator, or of how *)
(* long a generation that nobody cancels goes on.                          *)
(***************************************************************************)
Alive(A) == run # "exited" /\ A

FairSpec == /\ Spec
            /\ WF_vars(Alive(RunStep))
            /\ WF_vars(Alive(ChainStep))
            /\ \A r \in Request : WF_vars(Alive(TaskStep(r)))

-----------------------------------------------------------------------------
\* The queue depth that heartbeats report, and the coordinator schedules by,
\* is the number of requests in work, whatever became of their connection,
\* their cancellation and their place in inflight.
DepthIsWork == queueDepth = Cardinality(Unfinished)

\* A cancel, or the loss of the connection, finds every request in work: it
\* is in inflight, or serve is about to put it there before anything else can
\* be received, or it was cancelled already.
WorkIsCancellable ==
    \A r \in Unfinished : r \in inflight \cup cancelled \cup {starting}

\* By the time the process offers itself again, all it had in work for an
\* earlier connection was cancelled.
OldWorkIsCancelled ==
    run \in {"connecting", "registering", "serving"} =>
        old \cap Unfinished \subseteq cancelled

\* While a registered connection is up its timer is on, so that the coordinator
\* never sweeps a provider that serves; and the timer is stopped before run()
\* goes on to dial again, so that no timer is on beside a later registration.
\* A handler that was running when its timer was stopped is not covered: it may
\* beat over the next socket, even as its first frame (late).
BeatsWhileServing ==
    /\ run = "serving" /\ ws # "nil" => beating
    /\ beating \/ onTimer => run = "serving"

\* The process is the provider that Hub.tla takes for granted: events of a
\* request only while it is in work, in order, one terminal event at most.
Working == [r \in Request |-> CASE task[r] = "none" -> "none"
                                 [] task[r] = "done" -> "over"
                                 [] OTHER -> "running"]

Contract == INSTANCE ProviderContract WITH
    connected <- ws # "nil",
    work <- Working

ImplementsProvider == Contract!Spec

\* A request that was cancelled leaves the GPU and the count, even if the
\* coordinator is never reached again.
CancelledWorkEnds ==
    \A r \in Request : r \in cancelled ~> (task[r] = "done" \/ run = "exited")

\* A lost connection is noticed and dialled anew, when every dial before it
\* had ended in a registration.
LossIsNoticed ==
    (run = "serving" /\ ws = "down" /\ entered = 1) ~> run = "connecting"

-----------------------------------------------------------------------------
(* What comments of the code say and the code does not do.                 *)

\* ProviderClient.swift:69: run() connects, serves and reconnects, for ever.
Reconnects == (run = "serving" /\ ws = "down") ~> run = "connecting"
=============================================================================
