------------------------- MODULE DispatchInvariants -------------------------
(***************************************************************************)
(* Inductive strengthenings of Dispatch's safety properties, stated apart  *)
(* so that TLC can check them and the proof modules cite them.             *)
(***************************************************************************)
EXTENDS Dispatch

(***************************************************************************)
(* Without silent providers nobody goes stale and the sweeper is idle.     *)
(***************************************************************************)
NeverSwept ==
    /\ \A n \in Node : nodes[n].age = 0
    /\ toClose = {}
    /\ victim = None

\* Nobody else will find channel c: it is in no map, and in no local of a
\* disconnect about to close it but that of the handlers in D.
OutOfReach(c, D) ==
    /\ wsPc[c] \notin {"free", "registered"}
    /\ \A n \in Node : conns[n] # c
    /\ \A d \in Conn \ D : wsPc[d] = "detached" => taken[d] # c

\* A channel passes from Hub.conns to one disconnect, which closes it.
ClosedOnce ==
    \A c \in Conn :
        /\ c \in outClosed => OutOfReach(c, {})
        /\ \A d \in Conn :
              wsPc[d] = "detached" /\ taken[d] = c => OutOfReach(c, {d})

TeardownInv == TypeOK /\ ConnsLive /\ NeverSwept /\ ClosedOnce

(***************************************************************************)
(* Without overtaking, a node has one handler at a time, and the tables    *)
(* follow it.                                                              *)
(***************************************************************************)
OneHandler ==
    \A c, d \in Conn : c # d /\ NodeOf[c] = NodeOf[d] =>
        wsPc[c] \in {"free", "gone"} \/ wsPc[d] \in {"free", "gone"}

TablesFollow ==
    \A c \in Conn :
        /\ wsPc[c] \in {"registered", "reading", "delivering"}
              => nodes[NodeOf[c]].present
        /\ wsPc[c] \in {"reading", "delivering", "unregistered"}
              <=> conns[NodeOf[c]] = c

(***************************************************************************)
(* With clients that keep up, a channel that holds no terminal event has   *)
(* room for one.                                                           *)
(***************************************************************************)
HasTerminal(r) == \E i \in 1..Len(events[r]) : events[r][i] \in Terminal

RoomKept == \A r \in Request : HasTerminal(r) \/ Len(events[r]) < EventCap

\* NoLostWaiter, from the moment the request is noted as in flight.
WaiterKept ==
    \A r \in Request : gpc[r] \in {"sending", "waiting", "writing"} =>
        \/ EndUnderWay(r)
        \/ /\ r \in inflight[target[r]]
           /\ conns[target[r]] = via[r]

OrderlyInv == /\ TeardownInv
              /\ RoutedWhileHandled
              /\ OneHandler
              /\ TablesFollow
              /\ RoomKept
              /\ WaiterKept

(***************************************************************************)
(* A request is in one place at most: a queue, or a provider's work.  The  *)
(* end of a request is told only when it is in none.                       *)
(***************************************************************************)
AtPlace(c, i, r) ==
    /\ i \in 1..Len(outbox[c])
    /\ outbox[c][i] = [type |-> "inference_request", req |-> r]

OneCopy ==
    \A r \in Request :
        /\ \A c, d \in Conn, i, j \in 1..OutCap :
              AtPlace(c, i, r) /\ AtPlace(d, j, r) => c = d /\ i = j
        /\ \A m, n \in Node : r \in jobs[m] \cap jobs[n] => m = n
        /\ ~(Queued(r) /\ Running(r))

Completed(r) ==
    \/ \E i \in 1..Len(events[r]) : events[r][i] = "complete"
    \/ \E c \in Conn : arriving[c] = <<r, "complete">>

EndsTold ==
    \A r \in Request :
        /\ NeverSent(r) => ~Queued(r) /\ ~Running(r) /\ ~Completed(r)
        /\ Completed(r) => ~Queued(r) /\ ~Running(r)

\* What the local variables of a handler are by where it is.
LocalOK(r) ==
    /\ gpc[r] \in {"answering", "done"} <=> answer[r] # "none"
    /\ gpc[r] \in {"idle", "created", "sending", "waiting", "writing"}
          => status[r] = "completed"
    /\ gpc[r] \in {"cancelling", "sendingCancel"}
          => status[r] \in {"timeout", "cancelled"}
LocalsOK == \A r \in Request : LocalOK(r)

ContractInv == TypeOK /\ OneCopy /\ EndsTold /\ LocalsOK
=============================================================================
