--------------------------- MODULE ProviderProofs ---------------------------
(***************************************************************************)
(* What holds of the provider process for any number of requests and of    *)
(* registrations that fail.                                                *)
(***************************************************************************)
EXTENDS ProviderClient, FiniteSetTheorems, TLAPS

USE ProviderAssumption DEF connVars, timerVars, linkVars, workVars

(***************************************************************************)
(* The connection: from its dial to its teardown the socket is there and   *)
(* connGroup entered, and a request is being started only in between.  The *)
(* timer is on until a teardown stops it, which comes before the group is  *)
(* left.                                                                   *)
(***************************************************************************)
LinkInv ==
    /\ run \in {"connecting", "registering"} => ws # "nil"
    /\ run \in {"connecting", "registering", "serving"} /\ ws # "nil"
         => ~tornDown /\ entered > 0
    /\ teardown # "none"
         => ws = "nil" /\ entered > 0 /\ run \in {"serving", "denied"}
    /\ run = "denied" => ~beating
    /\ starting # None => run = "serving" /\ ws # "nil"
    /\ onTimer => beating
    /\ beating /\ ws = "nil" => teardown = "cleared"
    /\ BeatsWhileServing

\* What a Task does changes nothing of the connection.
LEMMA TaskTypes ==
    ASSUME TypeOK, LinkInv, NEW r \in Request, TaskStep(r) \/ Generation(r)
    PROVE  TypeOK' /\ LinkInv'
<1> USE DEF TypeOK, LinkInv, BeatsWhileServing, TaskPc, Step, FirstIs
<1>1. CASE Accept(r)
    BY <1>1 DEF Accept, TrySend, Send
<1>2. CASE SendChunk(r)
    BY <1>2 DEF SendChunk, TrySend, Send
<1>3. CASE StopEarly(r) \/ Delta(r) \/ EndOfText(r) \/ GenerateThrows(r)
    BY <1>3 DEF StopEarly, Delta, EndOfText, GenerateThrows
<1>4. CASE SendComplete(r)
    BY <1>4 DEF SendComplete, Send
<1>5. CASE CompleteThrows(r)
    BY <1>5 DEF CompleteThrows
<1>6. CASE SendError(r)
    BY <1>6 DEF SendError, TrySend, Send
<1>7. CASE Finish(r)
    BY <1>7 DEF Finish
<1> QED BY <1>1, <1>2, <1>3, <1>4, <1>5, <1>6, <1>7 DEF TaskStep, Generation

LEMMA LinkInit == Init => TypeOK /\ LinkInv
<1>1. Init => TypeOK
    <2>1. Init => entered \in Nat /\ queueDepth \in Nat
        BY DEF Init
    <2> QED BY <2>1, Zenon DEF Init, TypeOK, RunPc, TaskPc
<1>2. Init => LinkInv
    <2>1. Init => BeatsWhileServing
        BY DEF Init, BeatsWhileServing
    <2> QED BY <2>1 DEF Init, LinkInv
<1> QED BY <1>1, <1>2

\* What run() and its registration do.
LEMMA RunTypes ==
    ASSUME TypeOK, LinkInv, RunStep \/ Registration
    PROVE  TypeOK' /\ LinkInv'
<1> USE DEF RunPc, FirstIs, TypeOK, LinkInv, BeatsWhileServing
<1>1. CASE Dial
    <2>1. entered' \in Nat /\ entered' > 0
        BY <1>1 DEF Dial
    <2> QED BY <1>1, <2>1 DEF Dial
<1>2. CASE SendRegister
    BY <1>2 DEF SendRegister
<1>3. CASE WaitReturns
    <2>1. ws = "nil" /\ teardown = "none"
        BY <1>3 DEF WaitReturns
    <2> QED BY <1>3, <2>1 DEF WaitReturns
<1>4. CASE CancelAll \/ Exit
    BY <1>4 DEF CancelAll, Exit
<1>5. CASE RegisterOK
    <2>1. ~onTimer /\ late' = late
        BY <1>5 DEF RegisterOK, TimerStopped
    <2> QED BY <1>5, <2>1 DEF RegisterOK, TimerStopped
<1>6. CASE RegisterThrows
    BY <1>6 DEF RegisterThrows
<1>7. CASE RegisterDenied
    BY <1>7 DEF RegisterDenied, ClearSocket
<1> QED BY <1>1, <1>2, <1>3, <1>4, <1>5, <1>6, <1>7 DEF RunStep, Registration

\* What the receive chain, a teardown and the timer do.
LEMMA ChainTypes ==
    ASSUME TypeOK, LinkInv,
           SocketFails \/ ChainStep \/ TimerStep
             \/ \E r \in Request : ReceiveRequest(r) \/ ReceiveCancel(r)
    PROVE  TypeOK' /\ LinkInv'
<1> USE DEF TypeOK, LinkInv, BeatsWhileServing
<1>1. CASE SocketFails
    BY <1>1 DEF SocketFails
<1>2. CASE NoteInflight
    BY <1>2 DEF NoteInflight
<1>3. CASE ReceiveFails
    BY <1>3 DEF ReceiveFails, Receiving, ClearSocket
<1>4. CASE StopHeartbeat
    <2>1. late' \in Nat /\ ~onTimer' /\ ~beating'
        BY <1>4 DEF StopHeartbeat, TimerStopped
    <2> QED BY <1>4, <2>1 DEF StopHeartbeat, TimerStopped
<1>5. CASE LeaveGroup
    <2>1. entered - 1 \in Nat
        BY <1>5 DEF LeaveGroup
    <2> QED BY <1>5, <2>1 DEF LeaveGroup
<1>6. CASE TimerStep
    <2>1. late' \in Nat /\ first' \in {"none", "register", "other"}
        BY <1>6 DEF TimerStep, BeatStarts, BeatSends, LateBeatSends, Beat,
                    FirstIs
    <2>2. /\ UNCHANGED <<run, connVars, beating, starting, workVars, told, old>>
          /\ onTimer' \in BOOLEAN /\ (onTimer' => beating)
        <3>1. CASE BeatStarts
            BY <3>1 DEF BeatStarts
        <3>2. CASE BeatSends
            BY <3>2 DEF BeatSends
        <3>3. CASE LateBeatSends
            BY <3>3 DEF LateBeatSends
        <3> QED BY <1>6, <3>1, <3>2, <3>3 DEF TimerStep
    <2>3. LinkInv'
        BY <2>2
    <2>4. TypeOK'
        BY <2>1, <2>2
    <2> QED BY <2>3, <2>4
<1>7. ASSUME NEW r \in Request, ReceiveRequest(r)  PROVE TypeOK' /\ LinkInv'
    BY <1>7 DEF ReceiveRequest, Receiving, TaskPc
<1>8. ASSUME NEW r \in Request, ReceiveCancel(r)  PROVE TypeOK' /\ LinkInv'
    BY <1>8 DEF ReceiveCancel
<1> QED BY <1>1, <1>2, <1>3, <1>4, <1>5, <1>6, <1>7, <1>8 DEF ChainStep

LEMMA LinkStep ==
    ASSUME TypeOK, LinkInv, [Next]_vars
    PROVE  TypeOK' /\ LinkInv'
<1>1. CASE UNCHANGED vars
    BY <1>1 DEF vars, TypeOK, LinkInv, BeatsWhileServing
<1> QED BY <1>1, RunTypes, ChainTypes, TaskTypes DEF Next

\* The types, for any sets of constants.
THEOREM ProviderTypes == Spec => []TypeOK
<1> QED BY LinkInit, LinkStep, PTL DEF Spec

\* The heartbeat timer is on while a registered connection is up, and stopped
\* before run() goes on from a connection that was lost, though the socket is
\* cleared first and a handler may be running then (startHeartbeat,
\* teardownConnection), for any number of requests, failed dials and handlers
\* that come late.
THEOREM HeartbeatsFollowConnection == Spec => []BeatsWhileServing
<1>1. LinkInv => BeatsWhileServing
    BY DEF LinkInv
<1> QED BY <1>1, LinkInit, LinkStep, PTL DEF Spec

-----------------------------------------------------------------------------
(***************************************************************************)
(* The work.  Before the process dials again, everything in work was       *)
(* cancelled: what the chain of the lost connection took was noted before  *)
(* the connection was torn down, so cancelAllInflight found it.            *)
(***************************************************************************)
WorkInv ==
    /\ WorkIsCancellable
    /\ run = "asleep" => Unfinished \subseteq cancelled
    /\ \A r \in old : task[r] # "none"
    /\ OldWorkIsCancelled

\* A step that leaves tasks, cancellations, old and the run thread alone.
LEMMA WorkKept ==
    ASSUME WorkInv, UNCHANGED <<run, inflight, task, cancelled, old, starting>>
    PROVE  WorkInv'
BY DEF WorkInv, WorkIsCancellable, OldWorkIsCancelled, Unfinished

LEMMA TaskWork ==
    ASSUME TypeOK, WorkInv, NEW r \in Request, TaskStep(r) \/ Generation(r)
    PROVE  WorkInv'
<1>1. /\ \A q \in Request : q # r => task'[q] = task[q]
      /\ task[r] \notin {"none", "done"} /\ task'[r] # "none"
      /\ UNCHANGED <<run, starting, cancelled, old>>
    BY DEF TaskStep, Generation, Accept, Delta, SendChunk, StopEarly,
           EndOfText, GenerateThrows, SendComplete, CompleteThrows,
           SendError, Finish, Step, TypeOK
<1>2. inflight' = inflight \/ (inflight' = inflight \ {r} /\ task'[r] = "done")
    BY DEF TaskStep, Generation, Accept, Delta, SendChunk, StopEarly,
           EndOfText, GenerateThrows, SendComplete, CompleteThrows,
           SendError, Finish, Step, TypeOK
<1>3. Unfinished' \subseteq Unfinished
    BY <1>1 DEF Unfinished
<1>4. WorkIsCancellable'
    BY <1>1, <1>2, <1>3 DEF WorkInv, WorkIsCancellable, Unfinished
<1> QED BY <1>1, <1>3, <1>4 DEF WorkInv, OldWorkIsCancelled, TypeOK

LEMMA WorkStep ==
    ASSUME TypeOK, LinkInv, WorkInv, [Next]_vars
    PROVE  WorkInv'
<1>1. CASE Dial
    BY <1>1 DEF Dial, WorkInv, WorkIsCancellable, OldWorkIsCancelled,
                Unfinished
<1>2. CASE SendRegister \/ Registration \/ Exit
    BY <1>2 DEF SendRegister, Exit, Registration, RegisterOK, RegisterDenied,
                RegisterThrows, WorkInv, WorkIsCancellable,
                OldWorkIsCancelled, Unfinished
<1>3. CASE WaitReturns
    BY <1>3 DEF WaitReturns, WorkInv, WorkIsCancellable, OldWorkIsCancelled,
                Unfinished
<1>4. CASE CancelAll
    <2>1. starting = None
        BY <1>4 DEF CancelAll, LinkInv
    <2>2. Unfinished \subseteq inflight \cup cancelled
        BY <2>1 DEF WorkInv, WorkIsCancellable, Unfinished
    <2> QED BY <1>4, <2>2 DEF CancelAll, WorkInv, WorkIsCancellable,
                             OldWorkIsCancelled, Unfinished
<1>5. CASE SocketFails \/ ReceiveFails \/ StopHeartbeat \/ LeaveGroup \/ TimerStep
    BY <1>5, WorkKept DEF SocketFails, ReceiveFails, StopHeartbeat, LeaveGroup,
                          TimerStep, BeatStarts, BeatSends, LateBeatSends
<1>6. CASE NoteInflight
    BY <1>6 DEF NoteInflight, WorkInv, WorkIsCancellable, OldWorkIsCancelled,
                Unfinished
<1>7. ASSUME NEW r \in Request, ReceiveRequest(r)  PROVE WorkInv'
    BY <1>7 DEF ReceiveRequest, Receiving, TypeOK, WorkInv, WorkIsCancellable,
                OldWorkIsCancelled, Unfinished
<1>8. ASSUME NEW r \in Request, ReceiveCancel(r)  PROVE WorkInv'
    BY <1>8 DEF ReceiveCancel, Receiving, WorkInv, WorkIsCancellable,
                OldWorkIsCancelled, Unfinished
<1>9. CASE UNCHANGED vars
    BY <1>9, WorkKept DEF vars
<1> QED BY <1>1, <1>2, <1>3, <1>4, <1>5, <1>6, <1>7, <1>8, <1>9, TaskWork
        DEF Next, RunStep, ChainStep

LEMMA WorkInit == Init => WorkInv
BY DEF Init, WorkInv, WorkIsCancellable, OldWorkIsCancelled, Unfinished

\* Whatever is in work when the process offers itself on a new connection was
\* cancelled before, though Tasks run beside the receive chain that notes them
\* and cancelAllInflight finds only what was noted (serve, run).
THEOREM OldWorkDies == Spec => []OldWorkIsCancelled
<1>1. WorkInv => OldWorkIsCancelled
    BY DEF WorkInv
<1> QED BY <1>1, LinkInit, LinkStep, WorkInit, WorkStep, PTL DEF Spec

\* A cancel always finds the work it is about.
THEOREM CancelsArrive == Spec => []WorkIsCancellable
<1>1. WorkInv => WorkIsCancellable
    BY DEF WorkInv
<1> QED BY <1>1, LinkInit, LinkStep, WorkInit, WorkStep, PTL DEF Spec

-----------------------------------------------------------------------------
\* The count: a step changes it when, and only when, work begins or ends.
THEOREM DepthCounts == Spec => []DepthIsWork
<1>1. Init => DepthIsWork
    <2>1. Init => Unfinished = {}
        BY DEF Init, Unfinished
    <2> QED BY <2>1, FS_EmptySet DEF Init, DepthIsWork
<1>2. TypeOK /\ DepthIsWork /\ [Next]_vars => DepthIsWork'
    <2> SUFFICES ASSUME TypeOK, DepthIsWork, [Next]_vars
                 PROVE  DepthIsWork'
        OBVIOUS
    <2>0. IsFiniteSet(Unfinished) /\ Cardinality(Unfinished) \in Nat
        <3>1. Unfinished \subseteq Request
            BY DEF Unfinished
        <3> QED BY <3>1, FS_Subset, FS_CardinalityType
    <2>1. ASSUME NEW r \in Request, ReceiveRequest(r)  PROVE DepthIsWork'
        <3>1. Unfinished' = Unfinished \cup {r} /\ r \notin Unfinished
            BY <2>1 DEF ReceiveRequest, Unfinished, TypeOK
        <3> QED BY <2>0, <2>1, <3>1, FS_AddElement
                DEF ReceiveRequest, DepthIsWork
    <2>2. ASSUME NEW r \in Request, Finish(r)  PROVE DepthIsWork'
        <3>1. Unfinished' = Unfinished \ {r} /\ r \in Unfinished
            BY <2>2 DEF Finish, Step, Unfinished, TypeOK
        <3>2. Cardinality(Unfinished') = Cardinality(Unfinished) - 1
            BY <2>0, <3>1, FS_RemoveElement
        <3>3. queueDepth > 0
            BY <2>0, <3>1, FS_EmptySet DEF DepthIsWork
        <3> QED BY <2>2, <3>2, <3>3 DEF Finish, DepthIsWork
    <2>3. ASSUME NEW r \in Request, TaskStep(r) \/ Generation(r), ~Finish(r)
          PROVE  DepthIsWork'
        <3>1. Unfinished' = Unfinished /\ queueDepth' = queueDepth
            BY <2>3 DEF TaskStep, Generation, Accept, Delta, SendChunk,
                   StopEarly, EndOfText, GenerateThrows, SendComplete,
                   CompleteThrows, SendError, Step, Unfinished, TypeOK
        <3> QED BY <3>1 DEF DepthIsWork
    <2>4. CASE UNCHANGED <<queueDepth, task>>
        BY <2>4 DEF DepthIsWork, Unfinished
    <2> QED BY <2>1, <2>2, <2>3, <2>4 DEF Next, RunStep, Dial, SendRegister,
               WaitReturns, CancelAll, Registration, RegisterOK,
               RegisterDenied, RegisterThrows, SocketFails, ChainStep,
               NoteInflight, ReceiveFails, StopHeartbeat, LeaveGroup,
               TimerStep, BeatStarts, BeatSends, LateBeatSends, Exit,
               ReceiveCancel, vars
<1> QED BY <1>1, <1>2, ProviderTypes, PTL DEF Spec
-----------------------------------------------------------------------------
(***************************************************************************)
(* The refinement.  What a Task may still say follows from where it is.    *)
(***************************************************************************)
ToldInv ==
    \A r \in Request :
        /\ task[r] \in {"none", "created"} => told[r] = "nothing"
        /\ task[r] \in {"generating", "emitting", "generated", "failing"}
             => told[r] \in {"nothing", "accepted", "chunk"}

USE DEF Contract!Connect, Contract!Disconnect, Contract!Take, Contract!Tell,
        Contract!Accepted, Contract!Chunk, Contract!Complete, Contract!Error,
        Contract!End

\* A Task's step keeps ToldInv and is a step of the contract or none.
LEMMA TaskTells ==
    ASSUME TypeOK, ToldInv, NEW r \in Request, TaskStep(r) \/ Generation(r)
    PROVE  /\ ToldInv'
           /\ [Contract!Next]_<<ws # "nil", Working, told>>
<1> USE DEF Step, TypeOK, ToldInv
<1>0. ASSUME task[r] \notin {"none", "done"}, task'[r] \notin {"none", "done"},
             task' = [task EXCEPT ![r] = task'[r]]
      PROVE  Working' = Working /\ Working[r] = "running"
    BY <1>0 DEF Working
<1>1. CASE Accept(r)
    <2>1. Working' = Working /\ Working[r] = "running"
        BY <1>0, <1>1 DEF Accept
    <2>2. ToldInv'
        BY <1>1 DEF Accept, TrySend, Send
    <2>3. Contract!Accepted(r) \/ UNCHANGED <<ws, told>>
        BY <1>1, <2>1 DEF Accept, TrySend, Send
    <2> QED BY <2>1, <2>2, <2>3 DEF Contract!Next
<1>2. CASE SendChunk(r)
    <2>1. Working' = Working /\ Working[r] = "running"
        BY <1>0, <1>2 DEF SendChunk
    <2>2. ToldInv'
        BY <1>2 DEF SendChunk, TrySend, Send
    <2>3. Contract!Chunk(r) \/ UNCHANGED <<ws, told>>
        BY <1>2, <2>1 DEF SendChunk, TrySend, Send
    <2> QED BY <2>1, <2>2, <2>3 DEF Contract!Next
<1>3. CASE StopEarly(r) \/ Delta(r) \/ EndOfText(r) \/ GenerateThrows(r)
             \/ CompleteThrows(r)
    <2>1. Working' = Working
        BY <1>0, <1>3
           DEF StopEarly, Delta, EndOfText, GenerateThrows, CompleteThrows
    <2>2. ToldInv' /\ UNCHANGED <<ws, told>>
        BY <1>3
           DEF StopEarly, Delta, EndOfText, GenerateThrows, CompleteThrows
    <2> QED BY <2>1, <2>2
<1>4. CASE SendComplete(r)
    <2>1. Working' = Working /\ Working[r] = "running"
        BY <1>0, <1>4 DEF SendComplete
    <2>2. ToldInv'
        BY <1>4 DEF SendComplete, Send
    <2>3. Contract!Complete(r)
        BY <1>4, <2>1 DEF SendComplete, Send
    <2> QED BY <2>1, <2>2, <2>3 DEF Contract!Next
<1>5. CASE SendError(r)
    <2>1. Working' = Working /\ Working[r] = "running"
        BY <1>0, <1>5 DEF SendError
    <2>2. ToldInv'
        BY <1>5 DEF SendError, TrySend, Send
    <2>3. Contract!Error(r) \/ UNCHANGED <<ws, told>>
        BY <1>5, <2>1 DEF SendError, TrySend, Send
    <2> QED BY <2>1, <2>2, <2>3 DEF Contract!Next
<1>6. CASE Finish(r)
    <2>1. Working[r] = "running" /\ Working' = [Working EXCEPT ![r] = "over"]
        BY <1>6 DEF Finish, Working
    <2>2. ToldInv' /\ UNCHANGED <<ws, told>>
        BY <1>6 DEF Finish
    <2> QED BY <2>1, <2>2 DEF Contract!Next
<1> QED BY <1>1, <1>2, <1>3, <1>4, <1>5, <1>6 DEF TaskStep, Generation

\* The connection comes and goes, nothing is said, no work begins or ends.
LEMMA LinkChanges ==
    ASSUME ToldInv, UNCHANGED <<task, told>>
    PROVE  /\ ToldInv'
           /\ [Contract!Next]_<<ws # "nil", Working, told>>
<1>1. Working' = Working
    BY DEF Working
<1>2. CASE ws' # "nil"
    BY <1>1, <1>2 DEF Contract!Next, ToldInv
<1>3. CASE ws' = "nil"
    BY <1>1, <1>3 DEF Contract!Next, ToldInv
<1> QED BY <1>2, <1>3

LEMMA ContractStep ==
    ASSUME TypeOK, ToldInv, [Next]_vars
    PROVE  /\ ToldInv'
           /\ [Contract!Next]_<<ws # "nil", Working, told>>
<1>1. ASSUME NEW r \in Request, ReceiveRequest(r)
      PROVE  /\ ToldInv'
             /\ [Contract!Next]_<<ws # "nil", Working, told>>
    <2>1. Working[r] = "none" /\ Working' = [Working EXCEPT ![r] = "running"]
        BY <1>1 DEF ReceiveRequest, Working, TypeOK
    <2>2. ToldInv'
        BY <1>1 DEF ReceiveRequest, ToldInv, TypeOK
    <2>3. Contract!Take(r)
        BY <1>1, <2>1 DEF ReceiveRequest
    <2> QED BY <2>2, <2>3 DEF Contract!Next
<1>2. CASE UNCHANGED <<task, told>>
    BY <1>2, LinkChanges
<1> QED BY <1>1, <1>2, TaskTells DEF Next, RunStep, Dial, SendRegister,
           WaitReturns, CancelAll, Registration, RegisterOK, RegisterDenied,
           RegisterThrows, SocketFails, ChainStep, NoteInflight,
           ReceiveFails, StopHeartbeat, LeaveGroup, TimerStep, BeatStarts,
           BeatSends, LateBeatSends, Exit, ReceiveCancel, vars

\* The process is the provider Hub.tla takes for granted: every step is a step
\* of ProviderContract or changes nothing of it, through reconnections,
\* cancellations and completions that nobody can be told.
THEOREM ProviderRefines == Spec => ImplementsProvider
<1>1. Init => ToldInv /\ Contract!Init
    BY DEF Init, ToldInv, Working, Contract!Init
<1> QED BY <1>1, ContractStep, ProviderTypes, PTL
        DEF Spec, ImplementsProvider, Contract!Spec
-----------------------------------------------------------------------------
(* What the coordinator may rely on, from the contract.                    *)

\* Of a request it was handed once a provider says, in this order, that it was
\* accepted, what it produced and how it ended; after the end, said or not,
\* nothing; and nothing without a connection.
SaysInOrder ==
    \A r \in Request :
        /\ Working[r] = "running" => Working'[r] \in {"running", "over"}
        /\ Working[r] = "over" => Working'[r] = "over" /\ told'[r] = told[r]
        /\ told[r] \in {"complete", "error"} => told'[r] = told[r]
        /\ told[r] = "chunk" => told'[r] \notin {"nothing", "accepted"}
        /\ told'[r] # told[r] => ws # "nil" /\ Working[r] = "running"

LEMMA ContractOrder ==
    ASSUME TypeOK, [Contract!Next]_<<ws # "nil", Working, told>>
    PROVE  SaysInOrder
<1> DEFINE w == Working
<1>1. DOMAIN w = Request /\ DOMAIN told = Request
    BY DEF Working, TypeOK
<1>2. \/ w' = w /\ told' = told
      \/ \E q \in Request :
           \/ w[q] = "none" /\ w' = [w EXCEPT ![q] = "running"] /\ told' = told
           \/ w[q] = "running" /\ w' = [w EXCEPT ![q] = "over"] /\ told' = told
           \/ /\ ws # "nil" /\ w[q] = "running" /\ w' = w
              /\ \/ /\ told[q] = "nothing"
                    /\ told' = [told EXCEPT ![q] = "accepted"]
                 \/ /\ told[q] \in {"nothing", "accepted", "chunk"}
                    /\ \E e \in {"chunk", "complete", "error"} :
                          told' = [told EXCEPT ![q] = e]
    <2>1. CASE UNCHANGED <<ws # "nil", Working, told>>
        BY <2>1, Zenon
    <2>2. CASE Contract!Connect \/ Contract!Disconnect
        BY <2>2, Zenon DEF Contract!Connect, Contract!Disconnect
    <2>3. ASSUME NEW q \in Request, Contract!Take(q) \/ Contract!End(q)
          PROVE  \/ /\ w[q] = "none" /\ told' = told
                    /\ w' = [w EXCEPT ![q] = "running"]
                 \/ /\ w[q] = "running" /\ told' = told
                    /\ w' = [w EXCEPT ![q] = "over"]
        BY <2>3, Zenon DEF Contract!Take, Contract!End
    <2>4. ASSUME NEW q \in Request,
                 Contract!Accepted(q) \/ Contract!Chunk(q)
                    \/ Contract!Complete(q) \/ Contract!Error(q)
          PROVE  /\ ws # "nil" /\ w[q] = "running" /\ w' = w
                 /\ \/ /\ told[q] = "nothing"
                       /\ told' = [told EXCEPT ![q] = "accepted"]
                    \/ /\ told[q] \in {"nothing", "accepted", "chunk"}
                       /\ \E e \in {"chunk", "complete", "error"} :
                             told' = [told EXCEPT ![q] = e]
        BY <2>4, Zenon DEF Contract!Accepted, Contract!Chunk, Contract!Complete,
             Contract!Error, Contract!Tell
    <2> HIDE DEF w
    <2> QED BY <2>1, <2>2, <2>3, <2>4 DEF Contract!Next
<1>3. SaysInOrder <=>
        \A r \in Request :
           /\ w[r] = "running" => w'[r] \in {"running", "over"}
           /\ w[r] = "over" => w'[r] = "over" /\ told'[r] = told[r]
           /\ told[r] \in {"complete", "error"} => told'[r] = told[r]
           /\ told[r] = "chunk" => told'[r] \notin {"nothing", "accepted"}
           /\ told'[r] # told[r] => ws # "nil" /\ w[r] = "running"
    BY DEF SaysInOrder
<1> HIDE DEF w
<1> QED BY <1>1, <1>2, <1>3

\* Whatever becomes of connections, generations and cancels, a provider speaks
\* of a request only while it works on it, in the order of the protocol, and
\* never takes an end back.
THEOREM EventsComeInOrder == Spec => [][SaysInOrder]_vars
<1>1. TypeOK /\ [Contract!Next]_<<ws # "nil", Working, told>> => SaysInOrder
    BY ContractOrder
<1> QED BY <1>1, ProviderRefines, ProviderTypes, PTL
        DEF ImplementsProvider, Contract!Spec
=============================================================================
