------------------------------ MODULE Dispatch ------------------------------
(***************************************************************************)
(* The gateway's request path (coordinator/internal/server/gateway.go) on  *)
(* top of the hub: handleChatCompletions reserves a node, creates the      *)
(* request's event channel, hands the request to the hub and relays events *)
(* until a terminal one, the 120 s timer or the caller's departure ends    *)
(* it.  A write to the caller may hold the handler for as long as the      *)
(* caller does not read: the server sets no write timeout.  Streaming and  *)
(* buffering handlers differ in what they write, not in how they end, and  *)
(* are one.  Metering is in Settlement.tla: it touches no variable of this *)
(* module.                                                                 *)
(***************************************************************************)
EXTENDS Hub

CONSTANT Charge   \* the admission charges (estTokens) of the requests

ASSUME ChargeAssumption == Charge \subseteq Nat

VARIABLES
    gpc,       \* where the handler of each request is
    target,    \* the node Reserve returned
    via,       \* Send's local out
    status,    \* reqOutcome.status
    answer     \* what the caller has got, or is being sent

reqVars == <<gpc, target, via, status, answer>>
vars == <<hubVars, reqVars>>

\* "writing" and "answering": held in a write, before or after the last event.
Gpc == {"idle", "created", "sending", "waiting", "writing", "cancelling",
        "sendingCancel", "answering", "done"}
Status == {"completed", "failed", "timeout", "cancelled"}
Answer == {"none", "ok", "error", "unavailable", "bad_gateway", "timeout",
           "left", "aborted"}

ReqTypeOK ==
    /\ gpc \in [Request -> Gpc]
    /\ target \in [Request -> Node \cup {None}]
    /\ via \in [Request -> Conn \cup {None}]
    /\ \A r \in Request :
         /\ gpc[r] \notin {"idle", "done"} => target[r] \in Node
         /\ gpc[r] \in {"sending", "waiting", "writing", "cancelling",
                        "sendingCancel"} => via[r] \in Conn
    /\ status \in [Request -> Status]
    /\ answer \in [Request -> Answer]

\* Every variable of the registry, the router, the hub and the gateway
\* stays within the type its Go declaration gives it.
TypeOK == RegTypeOK /\ RouterTypeOK /\ HubTypeOK /\ ReqTypeOK

Init ==
    /\ HubInit
    /\ gpc = [r \in Request |-> "idle"]
    /\ target = [r \in Request |-> None]
    /\ via = [r \in Request |-> None]
    /\ status = [r \in Request |-> "completed"]
    /\ answer = [r \in Request |-> "none"]

-----------------------------------------------------------------------------
\* The handler returns: the deferred Resolve runs, after a panic too.
Finish(r, s, a) ==
    /\ gpc' = [gpc EXCEPT ![r] = "done"]
    /\ status' = [status EXCEPT ![r] = s]
    /\ answer' = [answer EXCEPT ![r] = a]
    /\ Resolve(r)
    /\ UNCHANGED <<target, via>>

\* Mutant of Aborted: Resolve is not deferred, so a panic skips it.
AbortedUnresolved(r) ==
    /\ gpc' = [gpc EXCEPT ![r] = "done"]
    /\ answer' = [answer EXCEPT ![r] = "aborted"]
    /\ UNCHANGED <<routerVars, status, target, via>>

Aborted(r) == Finish(r, status[r], "aborted")

\* The handler's last write is held: the outcome is decided, Resolve has not run.
HoldAnswer(r, s, a) ==
    /\ SlowClient
    /\ gpc' = [gpc EXCEPT ![r] = "answering"]
    /\ status' = [status EXCEPT ![r] = s]
    /\ answer' = [answer EXCEPT ![r] = a]
    /\ UNCHANGED <<target, via>>

\* Where a write in the middle of an answer leaves the handler.
AfterWrite == {"waiting"} \cup (IF SlowClient THEN {"writing"} ELSE {})

\* No provider has the model: 503.
NoProvider(r) ==
    /\ gpc[r] = "idle"
    /\ \E m \in Model : Cheapest(m) = {}
    /\ Finish(r, status[r], "unavailable")
    /\ UNCHANGED <<nodes, wsVars, chanVars, mapVars, sweepVars, jobs>>

\* Reserve, then Router.Create: nobody knows the new id before Send.
ReserveNode(r) ==
    /\ gpc[r] = "idle"
    /\ \E m \in Model, est \in Charge : \E n \in Cheapest(m) :
         /\ Reserve(n, est)
         /\ target' = [target EXCEPT ![r] = n]
    /\ Create(r)
    /\ gpc' = [gpc EXCEPT ![r] = "created"]
    /\ UNCHANGED <<wsVars, chanVars, mapVars, sweepVars, jobs, via, status,
                   answer>>

\* Mutant of SendLookup: the request is not noted as in flight.
SendLookupUntracked(r) ==
    /\ gpc[r] = "created"
    /\ conns[target[r]] # None
    /\ via' = [via EXCEPT ![r] = conns[target[r]]]
    /\ gpc' = [gpc EXCEPT ![r] = "sending"]
    /\ UNCHANGED <<nodes, routerVars, wsVars, chanVars, mapVars, sweepVars,
                   jobs, target, status, answer>>

\* Send under Hub.mu: the connection is looked up, the request noted.
SendLookup(r) ==
    /\ gpc[r] = "created"
    /\ conns[target[r]] # None
    /\ inflight' = [inflight EXCEPT ![target[r]] = @ \cup {r}]
    /\ via' = [via EXCEPT ![r] = conns[target[r]]]
    /\ gpc' = [gpc EXCEPT ![r] = "sending"]
    /\ UNCHANGED <<nodes, routerVars, wsVars, chanVars, conns, sweepVars, jobs,
                   target, status, answer>>

\* No connection: Send is false, finishUsage marks the request failed, 502.
SendNoConn(r) ==
    /\ gpc[r] = "created"
    /\ conns[target[r]] = None
    /\ Finish(r, "failed", "bad_gateway")
    /\ UNCHANGED <<nodes, wsVars, chanVars, mapVars, sweepVars, jobs>>

\* Mutant of HasRoom: one message more than the queue holds.
HasRoomForOneMore(c) == Len(outbox[c]) <= OutCap

\* Send after Hub.mu: the channel of the connection found is sent to.
HasRoom(c) == Len(outbox[c]) < OutCap

\* A streaming handler writes its first chunk before it waits.
SendEnqueue(r) ==
    /\ gpc[r] = "sending"
    /\ via[r] \notin outClosed
    /\ HasRoom(via[r])
    /\ outbox' = [outbox EXCEPT ![via[r]] =
                    Append(@, [type |-> "inference_request", req |-> r])]
    /\ \E pc \in AfterWrite : gpc' = [gpc EXCEPT ![r] = pc]
    /\ UNCHANGED <<nodes, routerVars, wsVars, outClosed, mapVars, sweepVars,
                   jobs, target, via, status, answer>>

\* The queue is full: Send is false, though r is noted as in flight.
SendQueueFull(r) ==
    /\ gpc[r] = "sending"
    /\ via[r] \notin outClosed
    /\ ~HasRoom(via[r])
    /\ Finish(r, "failed", "bad_gateway")
    /\ UNCHANGED <<nodes, wsVars, chanVars, mapVars, sweepVars, jobs>>

\* The channel was closed meanwhile: a send on it panics and net/http drops
\* the caller's connection.
SendPanics(r) ==
    /\ gpc[r] \in {"sending", "sendingCancel"}
    /\ via[r] \in outClosed
    /\ Aborted(r)
    /\ UNCHANGED <<nodes, wsVars, chanVars, mapVars, sweepVars, jobs>>

-----------------------------------------------------------------------------
(* collectResponse and streamResponse: the select loop.  While a write is  *)
(* held none of its cases is looked at, the 120 s timer included.          *)

RelayChunk(r) ==
    /\ gpc[r] = "waiting"
    /\ events[r] # << >> /\ Head(events[r]) = "chunk"
    /\ Receive(r)
    /\ \E pc \in AfterWrite : gpc' = [gpc EXCEPT ![r] = pc]
    /\ UNCHANGED <<nodes, wsVars, chanVars, mapVars, sweepVars, jobs, target,
                   via, status, answer>>

\* The terminal event e is received and answered.
EndWith(r, e, s, a) ==
    /\ gpc[r] = "waiting"
    /\ events[r] # << >> /\ Head(events[r]) = e
    /\ Finish(r, s, a) \/ (Receive(r) /\ HoldAnswer(r, s, a))
    /\ UNCHANGED <<nodes, wsVars, chanVars, mapVars, sweepVars, jobs>>

Complete(r) == EndWith(r, "complete", status[r], "ok")
Fail(r) == EndWith(r, "error", "failed", "error")

\* The caller reads on, or its connection breaks: the write returns, and
\* what it returned is not looked at.
Written(r) ==
    /\ gpc[r] = "writing"
    /\ gpc' = [gpc EXCEPT ![r] = "waiting"]
    /\ UNCHANGED <<hubVars, target, via, status, answer>>

Answered(r) ==
    /\ gpc[r] = "answering"
    /\ Finish(r, status[r], answer[r])
    /\ UNCHANGED <<nodes, wsVars, chanVars, mapVars, sweepVars, jobs>>

\* The loop gives r up, and will tell the provider.
GiveUp(r, why) ==
    /\ gpc[r] = "waiting"
    /\ status' = [status EXCEPT ![r] = why]
    /\ gpc' = [gpc EXCEPT ![r] = "cancelling"]
    /\ UNCHANGED <<hubVars, target, via, answer>>

Timeout(r) == GiveUp(r, "timeout")
CallerLeaves(r) == GiveUp(r, "cancelled")

\* The answer of a request given up: 504, or nobody left to write to.
GivenUp(r) ==
    LET a == IF status[r] = "timeout" THEN "timeout" ELSE "left" IN
        \/ Finish(r, status[r], a)
        \/ /\ status[r] = "timeout"
           /\ HoldAnswer(r, status[r], a)
           /\ UNCHANGED routerVars

CancelLookup(r) ==
    /\ gpc[r] = "cancelling"
    /\ conns[target[r]] # None
    /\ via' = [via EXCEPT ![r] = conns[target[r]]]
    /\ gpc' = [gpc EXCEPT ![r] = "sendingCancel"]
    /\ UNCHANGED <<hubVars, target, status, answer>>

\* Mutant of CancelNoConn: the cancel waits for the node to come back.
CancelWaits(r) ==
    /\ gpc[r] = "cancelling"
    /\ conns[target[r]] = None
    /\ UNCHANGED vars

CancelNoConn(r) ==
    /\ gpc[r] = "cancelling"
    /\ conns[target[r]] = None
    /\ GivenUp(r)
    /\ UNCHANGED <<nodes, wsVars, chanVars, mapVars, sweepVars, jobs>>

\* A full queue loses the cancel; its result is not looked at.
CancelEnqueue(r) ==
    /\ gpc[r] = "sendingCancel"
    /\ via[r] \notin outClosed
    /\ outbox' = IF HasRoom(via[r])
                 THEN [outbox EXCEPT ![via[r]] =
                         Append(@, [type |-> "cancel", req |-> r])]
                 ELSE outbox
    /\ GivenUp(r)
    /\ UNCHANGED <<nodes, wsVars, outClosed, mapVars, sweepVars, jobs>>

-----------------------------------------------------------------------------
\* What the handler does without waiting for anybody.
GatewayStep(r) ==
    \/ SendLookup(r) \/ SendNoConn(r)
    \/ SendEnqueue(r) \/ SendQueueFull(r) \/ SendPanics(r)
    \/ RelayChunk(r) \/ Complete(r) \/ Fail(r)
    \/ CancelLookup(r) \/ CancelNoConn(r) \/ CancelEnqueue(r)

\* What the caller decides: when to ask, to leave, to read what is written.
CallerStep(r) ==
    \/ NoProvider(r) \/ ReserveNode(r) \/ CallerLeaves(r)
    \/ Written(r) \/ Answered(r)

Next ==
    /\ ~crashed
    /\ \/ HubStep /\ UNCHANGED reqVars
       \/ \E r \in Request : GatewayStep(r) \/ CallerStep(r) \/ Timeout(r)

Spec == Init /\ [][Next]_vars

(***************************************************************************)
(* Fairness: the Go scheduler runs every goroutine that can run, and the   *)
(* sweeper's ticker keeps firing.  Nothing is assumed of the network, of   *)
(* providers or of callers: a held write may be held for ever.  TimerSpec  *)
(* adds the 120 s timer.  It is looked at only between two writes, so its  *)
(* fairness is the strong one: once fired it stays ready, and select picks *)
(* at random among the cases that are.                                     *)
(***************************************************************************)
Live(A) == ~crashed /\ A

FairSpec ==
    /\ Spec
    /\ \A c \in Conn : WF_vars(Live(HandlerStep(c) /\ UNCHANGED reqVars))
    /\ WF_vars(Live(SweeperStep /\ UNCHANGED reqVars))
    /\ \A r \in Request : WF_vars(Live(GatewayStep(r)))

TimerSpec == FairSpec /\ \A r \in Request : SF_vars(Live(Timeout(r)))
-----------------------------------------------------------------------------
(* Properties.  Which hold depends on the environment: those of the first  *)
(* group on any, those of the second on orderly providers, ones that never *)
(* fall silent nor overtake their own teardown.                            *)

\* Hub.conns never names a connection whose handler has given its place up:
\* what Send puts on the queue it finds would be drained by nobody.
ConnsLive ==
    \A n \in Node : conns[n] # None =>
        /\ NodeOf[conns[n]] = n
        /\ wsPc[conns[n]] \in {"reading", "delivering", "unregistered"}

\* A request has an entry in Router.chans exactly while its handler runs: it
\* is there before any event can come, and gone after every way out of
\* handleChatCompletions, the panics included.
RoutedWhileHandled ==
    \A r \in Request : r \in routed <=> gpc[r] \notin {"idle", "done"}

Queued(r) == \E c \in Conn : \E i \in 1..Len(outbox[c]) :
                outbox[c][i] = [type |-> "inference_request", req |-> r]
Running(r) == \E n \in Node : r \in jobs[n]

\* handleChatCompletions keeps the contract of RequestContract, whatever
\* providers do: no request is handed over twice, none refused is worked on,
\* none succeeds before its work has ended.
NeverSent(r) == \/ gpc[r] \in {"idle", "created", "sending"}
                \/ answer[r] \in {"unavailable", "bad_gateway"}
                \/ answer[r] = "aborted" /\ status[r] = "completed"

PhaseAt(pc, ans) ==
    CASE pc = "idle" -> "new"
      [] pc \in {"created", "sending"} -> "open"
      [] pc \in {"waiting", "writing", "cancelling", "sendingCancel"} -> "sent"
      [] pc \in {"answering", "done"} /\ ans \in {"ok", "error", "aborted"} -> ans
      [] pc \in {"answering", "done"} /\ ans \in {"timeout", "left"} -> "given_up"
      [] OTHER -> "refused"

PhaseOf == [r \in Request |-> PhaseAt(gpc[r], answer[r])]

WorkOf == [r \in Request |-> IF NeverSent(r) THEN "none"
                             ELSE IF Queued(r) THEN "queued"
                             ELSE IF Running(r) THEN "running" ELSE "over"]

Contract == INSTANCE RequestContract WITH phase <- PhaseOf, work <- WorkOf

\* The request path implements the contract: every step of the coordinator
\* is a step of RequestContract or changes nothing of it.
ImplementsContract == Contract!Spec

\* Every request comes to an end, if only by the 120 s timer, unless the
\* coordinator dies or the caller stops reading for ever in the middle of a
\* write: no handler is stuck between two steps of Send, whatever providers
\* and the network do.
HeldUp(r) == gpc[r] \in {"writing", "answering"}

RequestsEnd ==
    \A r \in Request :
        gpc[r] = "created" ~> (gpc[r] = "done" \/ crashed \/ []HeldUp(r))

\* Every handler whose socket has failed gets through disconnect and returns.
TeardownEnds ==
    \A c \in Conn : (sock[c] = "closed") ~> (wsPc[c] = "gone" \/ crashed)

-----------------------------------------------------------------------------
\* The terminal event of r is under way: decoded by a read loop, owed by a
\* disconnect, or buffered for the handler.
EndUnderWay(r) ==
    \/ \E i \in 1..Len(events[r]) : events[r][i] \in Terminal
    \/ \E c \in Conn : /\ wsPc[c] = "delivering"
                       /\ arriving[c][1] = r
    \/ \E c \in Conn : /\ wsPc[c] \in {"detached", "failing"}
                       /\ r \in orphans[c]

\* No waiting request is forgotten (hub.go:211): either the node's present
\* connection is the one r went out on and has r in its in-flight set, so its
\* teardown will fail r, or the end of r is already under way.
NoLostWaiter ==
    \A r \in Request : gpc[r] = "waiting" =>
        \/ EndUnderWay(r)
        \/ /\ r \in inflight[target[r]]
           /\ conns[target[r]] = via[r]

\* disconnect never finds its channel closed by somebody else.
TeardownNeverPanics ==
    \A c \in Conn : wsPc[c] = "detached" => taken[c] \notin outClosed

\* A provider being read from is in both tables, so requests can reach it.
LiveIsListed ==
    \A c \in Conn : wsPc[c] \in {"reading", "delivering"} =>
        /\ conns[NodeOf[c]] = c
        /\ nodes[NodeOf[c]].present

\* Send never finds a closed channel in Hub.conns (hub.go:221: it "returns
\* false if the node has no live connection").
ListedIsOpen == \A n \in Node : conns[n] \notin outClosed

\* When the connection a request went out on fails, the request ends without
\* waiting for its 120 s timer or for the caller.
FailurePropagates ==
    \A r \in Request :
        (gpc[r] = "waiting" /\ sock[via[r]] = "closed") ~> gpc[r] # "waiting"

-----------------------------------------------------------------------------
(* What comments of the code say and the code does not do.                 *)

\* hub.go:260: the sweeper drops stale nodes every interval, for ever.
SweeperSurvives == ~crashed
=============================================================================
