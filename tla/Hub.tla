--------------------------------- MODULE Hub ---------------------------------
(***************************************************************************)
(* The provider hub (coordinator/internal/server/hub.go): the handler of   *)
(* each provider WebSocket from registration to teardown, its write pump,  *)
(* its read loop, and the sweeper that drops heartbeat-stale nodes.        *)
(* Hub.mu, Registry.mu and Router.mu are never held together, so a step    *)
(* is what one of them guards, and the close of a channel, which none      *)
(* guards, is a step of its own.  The gateway's half of Send is in         *)
(* Dispatch.tla.                                                           *)
(***************************************************************************)
EXTENDS Registry, Router

CONSTANTS
    Conn,          \* WebSocket connections, each dialled at most once
    NodeOf,        \* the node id a connection registers with
    None,          \* nil
    OutCap,        \* capacity of an outbound queue (256 in the code)
    Overlap,       \* may a node dial while its last handler still runs?
    Silence,       \* may a peer fall silent on an open socket (lid closed)?
    SlowClient     \* may a caller read slowly, or stop, and hold its handler?

ASSUME HubAssumption ==
    /\ NodeOf \in [Conn -> Node]
    /\ None \notin Conn
    /\ OutCap \in Nat \ {0}
    /\ {Overlap, Silence, SlowClient} \subseteq BOOLEAN

VARIABLES
    wsPc,          \* where the handler of each connection is
    sock,          \* the socket: "half" has a silent peer, "dead" an abandoned one
    arriving,      \* the terminal event a read loop has decoded, not delivered
    taken,         \* disconnect's local out
    orphans,       \* disconnect's local orphans
    outbox,        \* the buffer of each connection's outbound channel
    outClosed,     \* the connections whose outbound channel was closed
    conns,         \* Hub.conns
    inflight,      \* Hub.inflight, {} where the map has no key
    toClose,       \* ids the sweeper has still to pass to CloseNode
    victim,        \* CloseNode's local out
    crashed,       \* a panic outside an HTTP handler ended the process
    jobs           \* the requests each provider has in work

wsVars == <<wsPc, sock, arriving, taken, orphans>>
chanVars == <<outbox, outClosed>>
mapVars == <<conns, inflight>>
sweepVars == <<toClose, victim, crashed>>
routerVars == <<routed, events>>
hubVars == <<nodes, routerVars, wsVars, chanVars, mapVars, sweepVars, jobs>>

Msg == [type: {"inference_request", "cancel"}, req: Request]
Arrival == Request \X Terminal

WsPc == {"free", "registered", "reading", "delivering", "unregistered",
         "detached", "failing", "gone"}
Sock == {"none", "open", "half", "dead", "closed"}

HubTypeOK ==
    /\ wsPc \in [Conn -> WsPc]
    /\ sock \in [Conn -> Sock]
    /\ arriving \in [Conn -> Arrival \cup {<< >>}]
    /\ \A c \in Conn : wsPc[c] = "delivering" => arriving[c] \in Arrival
    /\ taken \in [Conn -> Conn \cup {None}]
    /\ orphans \in [Conn -> SUBSET Request]
    /\ outbox \in [Conn -> Seq(Msg)]
    /\ \A c \in Conn : Len(outbox[c]) <= OutCap
    /\ outClosed \subseteq Conn
    /\ conns \in [Node -> Conn \cup {None}]
    /\ inflight \in [Node -> SUBSET Request]
    /\ toClose \subseteq Node
    /\ victim \in Conn \cup {None}
    /\ crashed \in BOOLEAN
    /\ jobs \in [Node -> SUBSET Request]

HubInit ==
    /\ RegInit
    /\ RouterInit
    /\ wsPc = [c \in Conn |-> "free"]
    /\ sock = [c \in Conn |-> "none"]
    /\ arriving = [c \in Conn |-> << >>]
    /\ taken = [c \in Conn |-> None]
    /\ orphans = [c \in Conn |-> {}]
    /\ outbox = [c \in Conn |-> << >>]
    /\ outClosed = {}
    /\ conns = [n \in Node |-> None]
    /\ inflight = [n \in Node |-> {}]
    /\ toClose = {}
    /\ victim = None
    /\ crashed = FALSE
    /\ jobs = [n \in Node |-> {}]

Siblings(c) == {d \in Conn \ {c} : NodeOf[d] = NodeOf[c]}

-----------------------------------------------------------------------------
(* The network and the provider process.                                   *)

\* The connection breaks and the coordinator learns of it.
Drop(c) ==
    /\ sock[c] \in {"open", "half", "dead"}
    /\ sock' = [sock EXCEPT ![c] = "closed"]
    /\ UNCHANGED <<nodes, routerVars, wsPc, arriving, taken, orphans, chanVars,
                   mapVars, sweepVars, jobs>>

\* The machine sleeps, or its network goes: no frame and no close arrives.
FallSilent(c) ==
    /\ Silence
    /\ sock[c] = "open"
    /\ sock' = [sock EXCEPT ![c] = "half"]
    /\ UNCHANGED <<nodes, routerVars, wsPc, arriving, taken, orphans, chanVars,
                   mapVars, sweepVars, jobs>>

\* It wakes in time to find its connection still established.
Wake(c) ==
    /\ sock[c] = "half"
    /\ sock' = [sock EXCEPT ![c] = "open"]
    /\ UNCHANGED <<nodes, routerVars, wsPc, arriving, taken, orphans, chanVars,
                   mapVars, sweepVars, jobs>>

\* Time passes for a node no heartbeat can come from.
Silent(n) == \A c \in Conn : NodeOf[c] = n =>
                ~(sock[c] = "open" /\ wsPc[c] \in {"reading", "delivering"})

PassTime(n) ==
    /\ Silence
    /\ Silent(n)
    /\ Age(n)
    /\ UNCHANGED <<routerVars, wsVars, chanVars, mapVars, sweepVars, jobs>>

-----------------------------------------------------------------------------
(* HandleWS: registration.                                                 *)

\* The first frame is no register frame, or the join code is wrong.
RefuseWS(c) ==
    /\ wsPc[c] = "free"
    /\ wsPc' = [wsPc EXCEPT ![c] = "gone"]
    /\ sock' = [sock EXCEPT ![c] = "closed"]
    /\ UNCHANGED <<nodes, routerVars, arriving, taken, orphans, chanVars,
                   mapVars, sweepVars, jobs>>

\* A provider holds one socket at a time and abandons the one it had.
RegisterWS(c) ==
    /\ wsPc[c] = "free"
    /\ \A d \in Siblings(c) : sock[d] # "open"
    /\ Overlap \/ \A d \in Siblings(c) : wsPc[d] \in {"free", "gone"}
    /\ Register(NodeOf[c], Model)
    /\ wsPc' = [wsPc EXCEPT ![c] = "registered"]
    /\ sock' = [d \in Conn |->
                  IF d = c THEN "open"
                  ELSE IF d \in Siblings(c) /\ sock[d] = "half" THEN "dead"
                  ELSE sock[d]]
    /\ UNCHANGED <<routerVars, arriving, taken, orphans, chanVars, mapVars,
                   sweepVars, jobs>>

\* The connection becomes the node's, with a fresh queue and request set.
Attach(c) ==
    /\ wsPc[c] = "registered"
    /\ wsPc' = [wsPc EXCEPT ![c] = "reading"]
    /\ conns' = [conns EXCEPT ![NodeOf[c]] = c]
    /\ inflight' = [inflight EXCEPT ![NodeOf[c]] = {}]
    /\ UNCHANGED <<nodes, routerVars, sock, arriving, taken, orphans, chanVars,
                   sweepVars, jobs>>

-----------------------------------------------------------------------------
(* writePump.  On a closed socket the write fails and the pump is over; it *)
(* ends quietly, leaving the socket alone, once the channel is closed and  *)
(* drained.  The provider runs a request until it has sent a terminal      *)
(* event; cancelling one promises no more than that it may stay silent.    *)

\* Mutant of Pump: a request that was written stays on the queue.
PumpResends(c) ==
    /\ outbox[c] # << >>
    /\ sock[c] = "open"
    /\ jobs' = [jobs EXCEPT ![NodeOf[c]] = @ \cup {Head(outbox[c]).req}]
    /\ UNCHANGED <<nodes, routerVars, wsVars, chanVars, mapVars, sweepVars>>

Pump(c) ==
    /\ outbox[c] # << >>
    /\ sock[c] = "open"
    /\ outbox' = [outbox EXCEPT ![c] = Tail(@)]
    /\ LET m == Head(outbox[c]) IN
         jobs' = IF m.type = "inference_request"
                 THEN [jobs EXCEPT ![NodeOf[c]] = @ \cup {m.req}]
                 ELSE jobs
    /\ UNCHANGED <<nodes, routerVars, wsVars, outClosed, mapVars, sweepVars>>

-----------------------------------------------------------------------------
(* readLoop.  A provider answers on whatever socket it has now, so the     *)
(* events of a request may come on a later connection than it went out on. *)

ReadHeartbeat(c) ==
    /\ wsPc[c] = "reading" /\ sock[c] = "open"
    /\ \E q \in 0..Cardinality(jobs[NodeOf[c]]) : Heartbeat(NodeOf[c], q)
    /\ UNCHANGED <<routerVars, wsVars, chanVars, mapVars, sweepVars, jobs>>

\* A place is left: the first terminal event of a request gets through.
RoomForTerminal(r) == Len(events[r]) + 1 < EventCap

ReadChunk(c, r) ==
    /\ wsPc[c] = "reading" /\ sock[c] = "open"
    /\ r \in jobs[NodeOf[c]]
    /\ SlowClient \/ RoomForTerminal(r)
    /\ Deliver(r, "chunk")
    /\ UNCHANGED <<nodes, wsVars, chanVars, mapVars, sweepVars, jobs>>

\* clearInflight, then Deliver.
ReadTerminal(c, r, e) ==
    /\ wsPc[c] = "reading" /\ sock[c] = "open"
    /\ r \in jobs[NodeOf[c]]
    /\ jobs' = [jobs EXCEPT ![NodeOf[c]] = @ \ {r}]
    /\ inflight' = [inflight EXCEPT ![NodeOf[c]] = @ \ {r}]
    /\ arriving' = [arriving EXCEPT ![c] = <<r, e>>]
    /\ wsPc' = [wsPc EXCEPT ![c] = "delivering"]
    /\ UNCHANGED <<nodes, routerVars, sock, taken, orphans, chanVars, conns,
                   sweepVars>>

DeliverTerminal(c) ==
    /\ wsPc[c] = "delivering"
    /\ Deliver(arriving[c][1], arriving[c][2])
    /\ arriving' = [arriving EXCEPT ![c] = << >>]
    /\ wsPc' = [wsPc EXCEPT ![c] = "reading"]
    /\ UNCHANGED <<nodes, sock, taken, orphans, chanVars, mapVars, sweepVars,
                   jobs>>

-----------------------------------------------------------------------------
(* disconnect, which runs as the read loop returns.                        *)

UnregisterWS(c) ==
    /\ wsPc[c] = "reading" /\ sock[c] = "closed"
    /\ Unregister(NodeOf[c])
    /\ wsPc' = [wsPc EXCEPT ![c] = "unregistered"]
    /\ UNCHANGED <<routerVars, sock, arriving, taken, orphans, chanVars,
                   mapVars, sweepVars, jobs>>

\* Mutant of Detach: the in-flight set is read after it was deleted.
DetachForgetsOrphans(c) ==
    /\ wsPc[c] = "unregistered"
    /\ taken' = [taken EXCEPT ![c] = conns[NodeOf[c]]]
    /\ conns' = [conns EXCEPT ![NodeOf[c]] = None]
    /\ inflight' = [inflight EXCEPT ![NodeOf[c]] = {}]
    /\ wsPc' = [wsPc EXCEPT ![c] = "detached"]
    /\ UNCHANGED <<nodes, routerVars, sock, arriving, orphans, chanVars,
                   sweepVars, jobs>>

\* Mutant of Detach: the connection is not deleted from Hub.conns.
DetachKeepsConn(c) ==
    /\ wsPc[c] = "unregistered"
    /\ taken' = [taken EXCEPT ![c] = conns[NodeOf[c]]]
    /\ orphans' = [orphans EXCEPT ![c] = inflight[NodeOf[c]]]
    /\ inflight' = [inflight EXCEPT ![NodeOf[c]] = {}]
    /\ wsPc' = [wsPc EXCEPT ![c] = "detached"]
    /\ UNCHANGED <<nodes, routerVars, sock, arriving, conns, chanVars,
                   sweepVars, jobs>>

\* Whatever connection the node has by now is taken out of the maps.
Detach(c) ==
    /\ wsPc[c] = "unregistered"
    /\ taken' = [taken EXCEPT ![c] = conns[NodeOf[c]]]
    /\ orphans' = [orphans EXCEPT ![c] = inflight[NodeOf[c]]]
    /\ conns' = [conns EXCEPT ![NodeOf[c]] = None]
    /\ inflight' = [inflight EXCEPT ![NodeOf[c]] = {}]
    /\ wsPc' = [wsPc EXCEPT ![c] = "detached"]
    /\ UNCHANGED <<nodes, routerVars, sock, arriving, chanVars, sweepVars, jobs>>

CloseOut(c) ==
    /\ wsPc[c] = "detached"
    /\ taken[c] \notin outClosed
    /\ outClosed' = IF taken[c] = None THEN outClosed
                    ELSE outClosed \cup {taken[c]}
    /\ wsPc' = [wsPc EXCEPT ![c] = "failing"]
    /\ UNCHANGED <<nodes, routerVars, sock, arriving, taken, orphans, outbox,
                   mapVars, sweepVars, jobs>>

\* Closing a closed channel panics.  net/http recovers, HandleWS is over,
\* and what disconnect had still to do is not done.
CloseOutPanics(c) ==
    /\ wsPc[c] = "detached"
    /\ taken[c] \in outClosed
    /\ wsPc' = [wsPc EXCEPT ![c] = "gone"]
    /\ UNCHANGED <<nodes, routerVars, sock, arriving, taken, orphans, chanVars,
                   mapVars, sweepVars, jobs>>

\* Mutant of FailOrphan: the channel is sent to though the router has none.
FailOrphanBlocks(c, r) ==
    /\ wsPc[c] = "failing"
    /\ r \in orphans[c] \cap routed
    /\ Deliver(r, "error")
    /\ orphans' = [orphans EXCEPT ![c] = @ \ {r}]
    /\ UNCHANGED <<nodes, wsPc, sock, arriving, taken, chanVars, mapVars,
                   sweepVars, jobs>>

FailOrphan(c, r) ==
    /\ wsPc[c] = "failing"
    /\ r \in orphans[c]
    /\ Deliver(r, "error")
    /\ orphans' = [orphans EXCEPT ![c] = @ \ {r}]
    /\ UNCHANGED <<nodes, wsPc, sock, arriving, taken, chanVars, mapVars,
                   sweepVars, jobs>>

ReturnWS(c) ==
    /\ wsPc[c] = "failing"
    /\ orphans[c] = {}
    /\ wsPc' = [wsPc EXCEPT ![c] = "gone"]
    /\ UNCHANGED <<nodes, routerVars, sock, arriving, taken, orphans, chanVars,
                   mapVars, sweepVars, jobs>>

-----------------------------------------------------------------------------
(* StartSweeper's goroutine and CloseNode.                                 *)

SweepTick ==
    /\ toClose = {} /\ victim = None
    /\ StaleNodes # {}
    /\ Sweep
    /\ toClose' = StaleNodes
    /\ UNCHANGED <<routerVars, wsVars, chanVars, mapVars, victim, crashed, jobs>>

CloseNodeLookup(n) ==
    /\ n \in toClose /\ victim = None
    /\ toClose' = toClose \ {n}
    /\ victim' = conns[n]
    /\ UNCHANGED <<nodes, routerVars, wsVars, chanVars, mapVars, crashed, jobs>>

CloseNodeClose ==
    /\ victim \in Conn \ outClosed
    /\ outClosed' = outClosed \cup {victim}
    /\ victim' = None
    /\ UNCHANGED <<nodes, routerVars, wsVars, outbox, mapVars, toClose, crashed,
                   jobs>>

\* No handler is there to recover: the panic ends the coordinator.
CloseNodePanics ==
    /\ victim \in outClosed
    /\ crashed' = TRUE
    /\ UNCHANGED <<nodes, routerVars, wsVars, chanVars, mapVars, toClose,
                   victim, jobs>>

-----------------------------------------------------------------------------
\* What the goroutines of one connection's handler do by themselves.
HandlerStep(c) ==
    \/ Attach(c) \/ DeliverTerminal(c)
    \/ UnregisterWS(c) \/ Detach(c) \/ CloseOut(c) \/ CloseOutPanics(c)
    \/ \E r \in Request : FailOrphan(c, r)
    \/ ReturnWS(c)

\* What the network and the provider decide.
PeerStep(c) ==
    \/ Drop(c) \/ FallSilent(c) \/ Wake(c)
    \/ RefuseWS(c) \/ RegisterWS(c)
    \/ Pump(c) \/ ReadHeartbeat(c)
    \/ \E r \in Request : ReadChunk(c, r)
    \/ \E r \in Request, e \in Terminal : ReadTerminal(c, r, e)

SweeperStep ==
    \/ SweepTick \/ CloseNodeClose \/ CloseNodePanics
    \/ \E n \in Node : CloseNodeLookup(n)

HubStep ==
    \/ \E c \in Conn : HandlerStep(c) \/ PeerStep(c)
    \/ SweeperStep
    \/ \E n \in Node : PassTime(n)
=============================================================================
