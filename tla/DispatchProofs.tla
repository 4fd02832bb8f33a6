--------------------------- MODULE DispatchProofs ---------------------------
(***************************************************************************)
(* Theorems about Dispatch for every value of its constants: any number of *)
(* nodes, connections and requests, any capacities, any environment.  The  *)
(* last part proves that Dispatch implements RequestContract.              *)
(***************************************************************************)
EXTENDS DispatchInvariants, SequenceTheorems, TLAPS

(***************************************************************************)
(* A record of the node table stays one when a field gets a new value.     *)
(***************************************************************************)
LEMMA FieldTypes ==
    ASSUME NEW x \in NodeRec
    PROVE  /\ [x EXCEPT !.present = TRUE] \in NodeRec
           /\ \A v \in SUBSET Model : [x EXCEPT !.models = v] \in NodeRec
           /\ \A v \in Nat : [x EXCEPT !.depth = v] \in NodeRec
           /\ \A v \in Nat : [x EXCEPT !.tokens = v] \in NodeRec
           /\ \A v \in 0..(StaleAfter + 1) : [x EXCEPT !.age = v] \in NodeRec
           /\ \A v \in 0..Cooldown : [x EXCEPT !.cooldown = v] \in NodeRec
BY DEF NodeRec

(***************************************************************************)
(* The operations of the registry keep the table well typed.               *)
(***************************************************************************)
LEMMA RegistryTypes ==
    ASSUME RegTypeOK, NEW n \in Node
    PROVE  /\ \A models \in SUBSET Model : Register(n, models) => RegTypeOK'
           /\ \A q \in Nat : Heartbeat(n, q) => RegTypeOK'
           /\ Unregister(n) => RegTypeOK'
           /\ Sweep => RegTypeOK'
           /\ \A est \in Nat : Reserve(n, est) => RegTypeOK'
           /\ Age(n) => RegTypeOK'
<1> DEFINE x == nodes[n]
<1>0. 0 \in 0..(StaleAfter + 1)
  BY TicksAssumption
<1>1. Absent \in NodeRec
  BY TicksAssumption DEF Absent, NodeRec
<1>2. \A m \in Node : nodes[m] \in NodeRec
  BY DEF RegTypeOK
<1>3. /\ x.depth \in Nat /\ x.tokens \in Nat
      /\ x.age \in 0..(StaleAfter + 1) /\ x.cooldown \in 0..Cooldown
  BY <1>2 DEF NodeRec
<1>4. ASSUME NEW y \in NodeRec, nodes' = [nodes EXCEPT ![n] = y]
      PROVE  RegTypeOK'
  BY <1>4 DEF RegTypeOK
<1>5. ASSUME NEW models \in SUBSET Model, Register(n, models)
      PROVE  RegTypeOK'
  <2> DEFINE x1 == [x EXCEPT !.present = TRUE]
             x2 == [x1 EXCEPT !.models = models]
             y == [x EXCEPT !.present = TRUE, !.models = models, !.age = 0]
  <2>1. x1 \in NodeRec
    BY <1>2, FieldTypes
  <2>2. x2 \in NodeRec
    BY <2>1, FieldTypes
  <2>3. [x2 EXCEPT !.age = 0] \in NodeRec
    BY <1>0, <2>2, FieldTypes
  <2>4. y \in NodeRec
    BY <2>3, Zenon
  <2>5. nodes' = [nodes EXCEPT ![n] = y]
    BY <1>5, Zenon DEF Register
  <2> HIDE DEF y
  <2> QED
    BY <1>4, <2>4, <2>5
<1>6. ASSUME NEW q \in Nat, Heartbeat(n, q)
      PROVE  RegTypeOK'
  <2> DEFINE depth == IF x.depth = 0 /\ q > x.depth THEN q ELSE x.depth
             x1 == [x EXCEPT !.age = 0]
             y == [x EXCEPT !.age = 0, !.depth = depth]
  <2>1. x1 \in NodeRec
    BY <1>0, <1>2, FieldTypes
  <2>2. depth \in Nat
    BY <1>3
  <2>3. [x1 EXCEPT !.depth = depth] \in NodeRec
    BY <2>1, <2>2, FieldTypes
  <2>4. y \in NodeRec
    BY <2>3, Zenon
  <2>5. nodes' = IF nodes[n].present THEN [nodes EXCEPT ![n] = y] ELSE nodes
    BY <1>6, Zenon DEF Heartbeat
  <2> HIDE DEF y
  <2> QED
    BY <1>4, <2>4, <2>5 DEF RegTypeOK
<1>7. Unregister(n) => RegTypeOK'
  BY <1>1, <1>4 DEF Unregister
<1>8. Sweep => RegTypeOK'
  BY <1>1, <1>2 DEF Sweep, RegTypeOK
<1>9. ASSUME NEW est \in Nat, Reserve(n, est)
      PROVE  RegTypeOK'
  <2> DEFINE depth == x.depth + 1
             tokens == x.tokens + est
             x1 == [x EXCEPT !.depth = depth]
             y == [x EXCEPT !.depth = depth, !.tokens = tokens]
  <2>1. depth \in Nat /\ tokens \in Nat
    BY <1>3
  <2>2. x1 \in NodeRec
    BY <1>2, <2>1, FieldTypes
  <2>3. [x1 EXCEPT !.tokens = tokens] \in NodeRec
    BY <2>1, <2>2, FieldTypes
  <2>4. y \in NodeRec
    BY <2>3, Zenon
  <2>5. nodes' = [nodes EXCEPT ![n] = y]
    BY <1>9, Zenon DEF Reserve
  <2> HIDE DEF y
  <2> QED
    BY <1>4, <2>4, <2>5
<1>10. ASSUME Age(n)
       PROVE  RegTypeOK'
  <2> DEFINE age == IF x.age <= StaleAfter THEN x.age + 1 ELSE x.age
             cooldown == IF x.cooldown > 0 THEN x.cooldown - 1 ELSE x.cooldown
             x1 == [x EXCEPT !.age = age]
             y == [x EXCEPT !.age = age, !.cooldown = cooldown]
  <2>1. age \in 0..(StaleAfter + 1) /\ cooldown \in 0..Cooldown
    BY <1>3, TicksAssumption
  <2>2. x1 \in NodeRec
    BY <1>2, <2>1, FieldTypes
  <2>3. [x1 EXCEPT !.cooldown = cooldown] \in NodeRec
    BY <2>1, <2>2, FieldTypes
  <2>4. y \in NodeRec
    BY <2>3, Zenon
  <2>5. nodes' = [nodes EXCEPT ![n] = y]
    BY <1>10, Zenon DEF Age
  <2> HIDE DEF y
  <2> QED
    BY <1>4, <2>4, <2>5
<1> QED
  BY <1>5, <1>6, <1>7, <1>8, <1>9, <1>10

(***************************************************************************)
(* The operations of the router keep it well typed and within capacity.    *)
(***************************************************************************)
LEMMA RouterTypes ==
    ASSUME RouterTypeOK, NEW r \in Request
    PROVE  /\ Create(r) => RouterTypeOK'
           /\ Resolve(r) => RouterTypeOK'
           /\ \A e \in Event : Deliver(r, e) => RouterTypeOK'
           /\ events[r] # << >> /\ Receive(r) => RouterTypeOK'
<1> USE EventCapAssumption DEF RouterTypeOK
<1>1. << >> \in Seq(Event) /\ Len(<< >>) = 0
  BY EmptySeq
<1>2. Create(r) => RouterTypeOK'
  BY <1>1 DEF Create
<1>3. Resolve(r) => RouterTypeOK'
  BY <1>1 DEF Resolve
<1>4. ASSUME NEW e \in Event, Deliver(r, e)
      PROVE  RouterTypeOK'
  <2>1. /\ Append(events[r], e) \in Seq(Event)
        /\ Len(Append(events[r], e)) = Len(events[r]) + 1
    BY AppendProperties
  <2>2. Len(events[r]) \in Nat
    BY LenProperties
  <2> QED
    BY <1>4, <2>1, <2>2 DEF Deliver
<1>5. ASSUME events[r] # << >>, Receive(r)
      PROVE  RouterTypeOK'
  <2>1. /\ Tail(events[r]) \in Seq(Event)
        /\ Len(Tail(events[r])) = Len(events[r]) - 1
    BY <1>5, HeadTailProperties
  <2>2. Len(events[r]) \in Nat
    BY LenProperties
  <2> QED
    BY <1>5, <2>1, <2>2 DEF Receive
<1> QED
  BY <1>2, <1>3, <1>4, <1>5

(***************************************************************************)
(* Steps of the hub, the provider and the network keep the types.          *)
(***************************************************************************)
LEMMA HandlerTypes ==
    ASSUME RegTypeOK, RouterTypeOK, HubTypeOK, NEW c \in Conn, HandlerStep(c)
    PROVE  RegTypeOK' /\ RouterTypeOK' /\ HubTypeOK'
<1> USE HubAssumption DEF WsPc, Sock, wsVars, chanVars, mapVars, sweepVars,
                          routerVars
<1>0. "error" \in Event /\ Terminal \subseteq Event
  BY DEF Event, Terminal
<1>1. ASSUME UNCHANGED nodes PROVE RegTypeOK'
  BY <1>1 DEF RegTypeOK
<1>2. ASSUME UNCHANGED routerVars PROVE RouterTypeOK'
  BY <1>2 DEF RouterTypeOK
<1>3. CASE Attach(c)
  BY <1>1, <1>2, <1>3 DEF Attach, HubTypeOK
<1>4. CASE DeliverTerminal(c)
  <2>1. arriving[c] \in Arrival
    BY <1>4 DEF DeliverTerminal, HubTypeOK
  <2>2. RouterTypeOK'
    BY <1>0, <1>4, <2>1, RouterTypes DEF DeliverTerminal, Arrival
  <2> QED
    BY <1>1, <1>4, <2>2 DEF DeliverTerminal, HubTypeOK
<1>5. CASE UnregisterWS(c)
  <2>1. RegTypeOK'
    BY <1>5, RegistryTypes DEF UnregisterWS
  <2> QED
    BY <1>2, <1>5, <2>1 DEF UnregisterWS, HubTypeOK
<1>6. CASE Detach(c)
  BY <1>1, <1>2, <1>6 DEF Detach, HubTypeOK
<1>7. CASE CloseOut(c)
  BY <1>1, <1>2, <1>7 DEF CloseOut, HubTypeOK
<1>8. CASE CloseOutPanics(c)
  BY <1>1, <1>2, <1>8 DEF CloseOutPanics, HubTypeOK
<1>9. ASSUME NEW r \in Request, FailOrphan(c, r)
      PROVE  RegTypeOK' /\ RouterTypeOK' /\ HubTypeOK'
  <2>1. RouterTypeOK'
    BY <1>0, <1>9, RouterTypes DEF FailOrphan
  <2> QED
    BY <1>1, <1>9, <2>1 DEF FailOrphan, HubTypeOK
<1>10. CASE ReturnWS(c)
  BY <1>1, <1>2, <1>10 DEF ReturnWS, HubTypeOK
<1> QED
  BY <1>3, <1>4, <1>5, <1>6, <1>7, <1>8, <1>9, <1>10 DEF HandlerStep

(***************************************************************************)
(* What a bounded queue holds after a message is added or taken.           *)
(***************************************************************************)
LEMMA QueueTypes ==
    ASSUME HubTypeOK, NEW c \in Conn
    PROVE  /\ outbox[c] # << >> => /\ Head(outbox[c]) \in Msg
                                   /\ Tail(outbox[c]) \in Seq(Msg)
                                   /\ Len(Tail(outbox[c])) <= OutCap
           /\ \A m \in Msg : HasRoom(c) =>
                 /\ Append(outbox[c], m) \in Seq(Msg)
                 /\ Len(Append(outbox[c], m)) <= OutCap
<1>1. outbox[c] \in Seq(Msg) /\ Len(outbox[c]) \in Nat /\ Len(outbox[c]) <= OutCap
  BY LenProperties DEF HubTypeOK
<1>2. ASSUME outbox[c] # << >>
      PROVE  /\ Head(outbox[c]) \in Msg
             /\ Tail(outbox[c]) \in Seq(Msg)
             /\ Len(Tail(outbox[c])) <= OutCap
  <2>1. Len(Tail(outbox[c])) = Len(outbox[c]) - 1
    BY <1>1, <1>2, HeadTailProperties
  <2> QED
    BY <1>1, <1>2, <2>1, HeadTailProperties, HubAssumption
<1>3. ASSUME NEW m \in Msg, HasRoom(c)
      PROVE  /\ Append(outbox[c], m) \in Seq(Msg)
             /\ Len(Append(outbox[c], m)) <= OutCap
  <2>1. /\ Append(outbox[c], m) \in Seq(Msg)
        /\ Len(Append(outbox[c], m)) = Len(outbox[c]) + 1
    BY <1>1, AppendProperties
  <2> QED
    BY <1>1, <1>3, <2>1, HubAssumption DEF HasRoom
<1> QED
  BY <1>2, <1>3

LEMMA PeerTypes ==
    ASSUME RegTypeOK, RouterTypeOK, HubTypeOK, NEW c \in Conn, PeerStep(c)
    PROVE  RegTypeOK' /\ RouterTypeOK' /\ HubTypeOK'
<1> USE HubAssumption DEF WsPc, Sock, wsVars, chanVars, mapVars, sweepVars,
                          routerVars
<1>0. "chunk" \in Event
  BY DEF Event
<1>1. ASSUME UNCHANGED nodes PROVE RegTypeOK'
  BY <1>1 DEF RegTypeOK
<1>2. ASSUME UNCHANGED routerVars PROVE RouterTypeOK'
  BY <1>2 DEF RouterTypeOK
<1>3. CASE Drop(c)
  BY <1>1, <1>2, <1>3 DEF Drop, HubTypeOK
<1>4. CASE FallSilent(c)
  BY <1>1, <1>2, <1>4 DEF FallSilent, HubTypeOK
<1>5. CASE Wake(c)
  BY <1>1, <1>2, <1>5 DEF Wake, HubTypeOK
<1>6. CASE RefuseWS(c)
  BY <1>1, <1>2, <1>6 DEF RefuseWS, HubTypeOK
<1>7. CASE RegisterWS(c)
  <2>1. RegTypeOK'
    BY <1>7, RegistryTypes DEF RegisterWS
  <2> QED
    BY <1>2, <1>7, <2>1 DEF RegisterWS, HubTypeOK
<1>8. CASE Pump(c)
  <2>1. /\ Head(outbox[c]) \in Msg
        /\ Tail(outbox[c]) \in Seq(Msg)
        /\ Len(Tail(outbox[c])) <= OutCap
    BY <1>8, QueueTypes DEF Pump
  <2>2. Head(outbox[c]).req \in Request
    BY <2>1 DEF Msg
  <2>3. jobs' \in [Node -> SUBSET Request]
    BY <1>8, <2>2 DEF Pump, HubTypeOK
  <2>4. /\ outbox' \in [Conn -> Seq(Msg)]
        /\ \A d \in Conn : Len(outbox'[d]) <= OutCap
    BY <1>8, <2>1 DEF Pump, HubTypeOK
  <2> QED
    BY <1>1, <1>2, <1>8, <2>3, <2>4 DEF Pump, HubTypeOK
<1>9. CASE ReadHeartbeat(c)
  <2>1. RegTypeOK'
    <3>1. PICK q \in 0..Cardinality(jobs[NodeOf[c]]) : Heartbeat(NodeOf[c], q)
      BY <1>9 DEF ReadHeartbeat
    <3>2. q \in Nat
      OBVIOUS
    <3> QED
      BY <3>1, <3>2, RegistryTypes
  <2> QED
    BY <1>2, <1>9, <2>1 DEF ReadHeartbeat, HubTypeOK
<1>10. ASSUME NEW r \in Request, ReadChunk(c, r)
       PROVE  RegTypeOK' /\ RouterTypeOK' /\ HubTypeOK'
  <2>1. RouterTypeOK'
    BY <1>0, <1>10, RouterTypes DEF ReadChunk
  <2> QED
    BY <1>1, <1>10, <2>1 DEF ReadChunk, HubTypeOK
<1>11. ASSUME NEW r \in Request, NEW e \in Terminal, ReadTerminal(c, r, e)
       PROVE  RegTypeOK' /\ RouterTypeOK' /\ HubTypeOK'
  <2>1. <<r, e>> \in Arrival
    BY DEF Arrival
  <2> QED
    BY <1>1, <1>2, <1>11, <2>1 DEF ReadTerminal, HubTypeOK
<1> QED
  BY <1>3, <1>4, <1>5, <1>6, <1>7, <1>8, <1>9, <1>10, <1>11 DEF PeerStep

LEMMA SweeperTypes ==
    ASSUME RegTypeOK, RouterTypeOK, HubTypeOK,
           SweeperStep \/ \E n \in Node : PassTime(n)
    PROVE  RegTypeOK' /\ RouterTypeOK' /\ HubTypeOK'
<1> USE HubAssumption DEF wsVars, chanVars, mapVars, sweepVars, routerVars
<1>1. ASSUME UNCHANGED nodes PROVE RegTypeOK'
  BY <1>1 DEF RegTypeOK
<1>2. ASSUME UNCHANGED routerVars PROVE RouterTypeOK'
  BY <1>2 DEF RouterTypeOK
<1>3. CASE SweepTick
  <2>1. RegTypeOK'
    <3>1. PICK n \in Node : n \in StaleNodes
      BY <1>3 DEF SweepTick, StaleNodes
    <3> QED
      BY <1>3, <3>1, RegistryTypes DEF SweepTick
  <2> QED
    BY <1>2, <1>3, <2>1 DEF SweepTick, HubTypeOK, StaleNodes
<1>4. CASE CloseNodeClose
  BY <1>1, <1>2, <1>4 DEF CloseNodeClose, HubTypeOK
<1>5. CASE CloseNodePanics
  BY <1>1, <1>2, <1>5 DEF CloseNodePanics, HubTypeOK
<1>6. ASSUME NEW n \in Node, CloseNodeLookup(n)
      PROVE  RegTypeOK' /\ RouterTypeOK' /\ HubTypeOK'
  BY <1>1, <1>2, <1>6 DEF CloseNodeLookup, HubTypeOK
<1>7. ASSUME NEW n \in Node, PassTime(n)
      PROVE  RegTypeOK' /\ RouterTypeOK' /\ HubTypeOK'
  <2>1. RegTypeOK'
    BY <1>7, RegistryTypes DEF PassTime
  <2> QED
    BY <1>2, <1>7, <2>1 DEF PassTime, HubTypeOK
<1> QED
  BY <1>3, <1>4, <1>5, <1>6, <1>7 DEF SweeperStep

(***************************************************************************)
(* Steps of the gateway keep the types.                                    *)
(***************************************************************************)
LEMMA FinishTypes ==
    ASSUME TypeOK, NEW r \in Request, NEW s \in Status, NEW a \in Answer,
           Finish(r, s, a)
    PROVE  RouterTypeOK' /\ ReqTypeOK'
<1>1. RouterTypeOK'
  BY RouterTypes DEF Finish, TypeOK
<1>2. ReqTypeOK'
  BY DEF Finish, TypeOK, ReqTypeOK, Gpc
<1> QED
  BY <1>1, <1>2

LEMMA HoldTypes ==
    ASSUME TypeOK, NEW r \in Request, NEW s \in Status, NEW a \in Answer,
           gpc[r] \in {"waiting", "cancelling", "sendingCancel"},
           HoldAnswer(r, s, a)
    PROVE  ReqTypeOK'
BY DEF HoldAnswer, TypeOK, ReqTypeOK, Gpc

LEMMA GatewayTypes ==
    ASSUME TypeOK, NEW r \in Request,
           GatewayStep(r) \/ CallerStep(r) \/ Timeout(r)
    PROVE  TypeOK'
<1> USE DEF TypeOK, wsVars, chanVars, mapVars, sweepVars, routerVars, hubVars
<1>1. ASSUME UNCHANGED nodes PROVE RegTypeOK'
  BY <1>1 DEF RegTypeOK
<1>2. ASSUME UNCHANGED routerVars PROVE RouterTypeOK'
  BY <1>2 DEF RouterTypeOK
<1>3. ASSUME UNCHANGED <<wsVars, chanVars, mapVars, sweepVars, jobs>>
      PROVE  HubTypeOK'
  BY <1>3 DEF HubTypeOK
<1>4. /\ status[r] \in Status
      /\ {"unavailable", "bad_gateway", "aborted", "ok", "error", "timeout",
          "left"} \subseteq Answer
      /\ {"failed", "timeout", "cancelled"} \subseteq Status
  BY DEF ReqTypeOK, Status, Answer
<1>5. ASSUME NEW s \in Status, NEW a \in Answer, Finish(r, s, a), UNCHANGED nodes,
             UNCHANGED <<wsVars, chanVars, mapVars, sweepVars, jobs>>
      PROVE  TypeOK'
  BY <1>1, <1>3, <1>5, FinishTypes
<1>6. CASE NoProvider(r)
  BY <1>4, <1>5, <1>6 DEF NoProvider
<1>7. CASE ReserveNode(r)
  <2>1. PICK m \in Model, est \in Charge : \E n \in Cheapest(m) :
              Reserve(n, est) /\ target' = [target EXCEPT ![r] = n]
    BY <1>7 DEF ReserveNode
  <2>2. PICK n \in Node : Reserve(n, est) /\ target' = [target EXCEPT ![r] = n]
    BY <2>1 DEF Cheapest, Eligible
  <2>3. RegTypeOK'
    BY <2>2, RegistryTypes, ChargeAssumption
  <2>4. RouterTypeOK'
    BY <1>7, RouterTypes DEF ReserveNode
  <2>5. ReqTypeOK'
    BY <1>7, <2>2 DEF ReserveNode, ReqTypeOK, Gpc
  <2> QED
    BY <1>3, <1>7, <2>3, <2>4, <2>5 DEF ReserveNode
<1>8. CASE SendLookup(r)
  <2>1. target[r] \in Node /\ conns[target[r]] \in Conn
    BY <1>8 DEF SendLookup, ReqTypeOK, HubTypeOK
  <2>2. HubTypeOK' /\ ReqTypeOK'
    BY <1>8, <2>1 DEF SendLookup, HubTypeOK, ReqTypeOK, Gpc
  <2> QED
    BY <1>1, <1>2, <1>8, <2>2 DEF SendLookup
<1>9. CASE SendNoConn(r)
  BY <1>4, <1>5, <1>9 DEF SendNoConn
<1>10. CASE SendEnqueue(r)
  <2>1. via[r] \in Conn
    BY <1>10 DEF SendEnqueue, ReqTypeOK
  <2>2. [type |-> "inference_request", req |-> r] \in Msg
    BY DEF Msg
  <2>3. HubTypeOK' /\ ReqTypeOK'
    BY <1>10, <2>1, <2>2, QueueTypes DEF SendEnqueue, AfterWrite, HubTypeOK,
                                         ReqTypeOK, Gpc
  <2> QED
    BY <1>1, <1>2, <1>10, <2>3 DEF SendEnqueue
<1>11. CASE SendQueueFull(r)
  BY <1>4, <1>5, <1>11 DEF SendQueueFull
<1>12. CASE SendPanics(r)
  BY <1>4, <1>5, <1>12 DEF SendPanics, Aborted
<1>13. CASE RelayChunk(r)
  <2>1. RouterTypeOK'
    BY <1>13, RouterTypes DEF RelayChunk
  <2>2. ReqTypeOK'
    BY <1>13 DEF RelayChunk, AfterWrite, ReqTypeOK, Gpc
  <2> QED
    BY <1>1, <1>3, <1>13, <2>1, <2>2 DEF RelayChunk
<1>14. ASSUME NEW e, NEW s \in Status, NEW a \in Answer, EndWith(r, e, s, a)
       PROVE  TypeOK'
  <2>1. CASE Finish(r, s, a)
    BY <1>5, <1>14, <2>1 DEF EndWith
  <2>2. CASE Receive(r) /\ HoldAnswer(r, s, a)
    <3>1. RouterTypeOK'
      BY <1>14, <2>2, RouterTypes DEF EndWith
    <3>2. ReqTypeOK'
      BY <1>14, <2>2, HoldTypes DEF EndWith
    <3> QED
      BY <1>1, <1>3, <1>14, <3>1, <3>2 DEF EndWith
  <2> QED
    BY <1>14, <2>1, <2>2 DEF EndWith
<1>15. CASE Complete(r) \/ Fail(r)
  BY <1>4, <1>14, <1>15 DEF Complete, Fail
<1>16. ASSUME NEW why \in Status, GiveUp(r, why)
       PROVE  TypeOK'
  <2>1. ReqTypeOK'
    BY <1>16 DEF GiveUp, ReqTypeOK, Gpc
  <2> QED
    BY <1>1, <1>2, <1>3, <1>16, <2>1 DEF GiveUp
<1>17. CASE CancelLookup(r)
  <2>1. conns[target[r]] \in Conn
    BY <1>17 DEF CancelLookup, ReqTypeOK, HubTypeOK
  <2>2. ReqTypeOK'
    BY <1>17, <2>1 DEF CancelLookup, ReqTypeOK, Gpc
  <2> QED
    BY <1>1, <1>2, <1>3, <1>17, <2>2 DEF CancelLookup
<1>18. ASSUME GivenUp(r), gpc[r] \in {"cancelling", "sendingCancel"}
       PROVE  RouterTypeOK' /\ ReqTypeOK'
  <2> DEFINE a == IF status[r] = "timeout" THEN "timeout" ELSE "left"
  <2>1. a \in Answer
    BY <1>4
  <2>2. \/ Finish(r, status[r], a)
        \/ HoldAnswer(r, status[r], a) /\ UNCHANGED routerVars
    BY <1>18 DEF GivenUp
  <2> HIDE DEF a
  <2>3. CASE Finish(r, status[r], a)
    BY <1>4, <2>1, <2>3, FinishTypes
  <2>4. CASE HoldAnswer(r, status[r], a) /\ UNCHANGED routerVars
    BY <1>2, <1>4, <1>18, <2>1, <2>4, HoldTypes
  <2> QED
    BY <2>2, <2>3, <2>4
<1>19. CASE CancelNoConn(r)
  BY <1>1, <1>3, <1>18, <1>19 DEF CancelNoConn
<1>20. CASE CancelEnqueue(r)
  <2>1. via[r] \in Conn
    BY <1>20 DEF CancelEnqueue, ReqTypeOK
  <2>2. [type |-> "cancel", req |-> r] \in Msg
    BY DEF Msg
  <2>3. HubTypeOK'
    BY <1>20, <2>1, <2>2, QueueTypes DEF CancelEnqueue, HubTypeOK
  <2>4. RouterTypeOK' /\ ReqTypeOK'
    BY <1>18, <1>20 DEF CancelEnqueue
  <2> QED
    BY <1>1, <1>20, <2>3, <2>4 DEF CancelEnqueue
<1>21. CASE Written(r)
  <2>1. ReqTypeOK'
    BY <1>21 DEF Written, ReqTypeOK, Gpc
  <2> QED
    BY <1>1, <1>2, <1>3, <1>21, <2>1 DEF Written
<1>22. CASE Answered(r)
  <2>1. answer[r] \in Answer
    BY DEF ReqTypeOK
  <2> QED
    BY <1>4, <1>5, <1>22, <2>1 DEF Answered
<1> QED
  <2>1. CASE Timeout(r) \/ CallerLeaves(r)
    BY <1>4, <1>16, <2>1 DEF Timeout, CallerLeaves
  <2>2. CASE NoProvider(r) \/ ReserveNode(r) \/ Written(r) \/ Answered(r)
    BY <1>6, <1>7, <1>21, <1>22, <2>2
  <2>3. CASE GatewayStep(r)
    BY <1>8, <1>9, <1>10, <1>11, <1>12, <1>13, <1>15, <1>17, <1>19, <1>20,
       <2>3 DEF GatewayStep
  <2> QED
    BY <2>1, <2>2, <2>3 DEF CallerStep

-----------------------------------------------------------------------------
(***************************************************************************)
(* TypeOK is inductive.                                                    *)
(***************************************************************************)
LEMMA TypeInit == Init => TypeOK
<1> SUFFICES ASSUME Init
             PROVE  TypeOK
  OBVIOUS
<1> USE TicksAssumption, HubAssumption, EventCapAssumption
<1>1. RegTypeOK
  BY DEF Init, HubInit, RegInit, RegTypeOK, Absent, NodeRec
<1>2. RouterTypeOK
  BY EmptySeq DEF Init, HubInit, RouterInit, RouterTypeOK
<1>3. HubTypeOK
  <2>1. << >> \in Seq(Msg) /\ Len(<< >>) = 0 /\ 0 <= OutCap
    BY EmptySeq
  <2>2. /\ outbox \in [Conn -> Seq(Msg)]
        /\ \A c \in Conn : Len(outbox[c]) <= OutCap
    BY <2>1 DEF Init, HubInit
  <2> QED
    BY <2>2 DEF Init, HubInit, HubTypeOK, WsPc, Sock
<1>4. ReqTypeOK
  BY DEF Init, ReqTypeOK, Gpc, Status, Answer
<1> QED
  BY <1>1, <1>2, <1>3, <1>4 DEF TypeOK

LEMMA TypeStep == TypeOK /\ [Next]_vars => TypeOK'
<1> SUFFICES ASSUME TypeOK, [Next]_vars
             PROVE  TypeOK'
  OBVIOUS
<1>1. ASSUME HubStep, UNCHANGED reqVars
      PROVE  TypeOK'
  <2>1. ReqTypeOK'
    BY <1>1 DEF TypeOK, ReqTypeOK, reqVars
  <2>2. RegTypeOK' /\ RouterTypeOK' /\ HubTypeOK'
    BY <1>1, HandlerTypes, PeerTypes, SweeperTypes DEF TypeOK, HubStep
  <2> QED
    BY <2>1, <2>2 DEF TypeOK
<1>2. ASSUME NEW r \in Request,
             GatewayStep(r) \/ CallerStep(r) \/ Timeout(r)
      PROVE  TypeOK'
  BY <1>2, GatewayTypes
<1>3. CASE UNCHANGED vars
  BY <1>3 DEF vars, hubVars, reqVars, routerVars, wsVars, chanVars, mapVars,
              sweepVars, TypeOK, RegTypeOK, RouterTypeOK, HubTypeOK, ReqTypeOK
<1> QED
  BY <1>1, <1>2, <1>3 DEF Next

(***************************************************************************)
(* Every reachable state of the dispatch path is well typed: queues stay   *)
(* within their capacity, counters stay natural numbers, and no handler    *)
(* uses a node, a connection or an event that it has not set.              *)
(***************************************************************************)
THEOREM TypeCorrect == Spec => []TypeOK
BY TypeInit, TypeStep, PTL DEF Spec

-----------------------------------------------------------------------------
(***************************************************************************)
(* What the gateway and the sweeper leave alone.                           *)
(***************************************************************************)
LEMMA GatewayFrame ==
    ASSUME NEW r \in Request, GatewayStep(r) \/ CallerStep(r) \/ Timeout(r)
    PROVE  UNCHANGED <<wsVars, outClosed, conns, sweepVars, jobs>>
<1> USE DEF wsVars, chanVars, mapVars, sweepVars, hubVars
<1>1. CASE GatewayStep(r)
  BY <1>1 DEF GatewayStep, SendLookup, SendNoConn, SendEnqueue, SendQueueFull,
              SendPanics, RelayChunk, Complete, Fail, EndWith, CancelLookup,
              CancelNoConn, CancelEnqueue
<1>2. CASE CallerStep(r)
  BY <1>2 DEF CallerStep, NoProvider, ReserveNode, CallerLeaves, GiveUp,
              Written, Answered
<1>3. CASE Timeout(r)
  BY <1>3 DEF Timeout, GiveUp
<1> QED
  BY <1>1, <1>2, <1>3

LEMMA SweeperFrame ==
    ASSUME SweeperStep \/ \E n \in Node : PassTime(n)
    PROVE  UNCHANGED <<wsVars, routerVars, mapVars, outbox, jobs>>
BY DEF SweeperStep, SweepTick, CloseNodeLookup, CloseNodeClose, CloseNodePanics,
       PassTime, chanVars

(***************************************************************************)
(* ConnsLive is inductive, given the types.                                *)
(***************************************************************************)
LEMMA ConnsLiveStep == TypeOK /\ ConnsLive /\ [Next]_vars => ConnsLive'
<1> SUFFICES ASSUME TypeOK, ConnsLive, [Next]_vars
             PROVE  ConnsLive'
  OBVIOUS
<1> USE HubAssumption DEF ConnsLive
<1>1. ASSUME UNCHANGED <<wsPc, conns>> PROVE ConnsLive'
  BY <1>1
<1>2. wsPc \in [Conn -> WsPc] /\ conns \in [Node -> Conn \cup {None}]
  BY DEF TypeOK, HubTypeOK
<1>3. ASSUME NEW c \in Conn, HandlerStep(c)
      PROVE  ConnsLive'
  <2>1. CASE Attach(c)
    BY <1>2, <2>1 DEF Attach
  <2>2. CASE DeliverTerminal(c)
    BY <1>2, <2>2 DEF DeliverTerminal, mapVars
  <2>3. CASE UnregisterWS(c)
    BY <1>2, <2>3 DEF UnregisterWS, mapVars
  <2>4. CASE Detach(c)
    BY <1>2, <2>4 DEF Detach
  <2>5. CASE CloseOut(c)
    BY <1>2, <2>5 DEF CloseOut, mapVars
  <2>6. CASE CloseOutPanics(c)
    BY <1>2, <2>6 DEF CloseOutPanics, mapVars
  <2>7. CASE \E r \in Request : FailOrphan(c, r)
    BY <2>7, <1>1 DEF FailOrphan, mapVars
  <2>8. CASE ReturnWS(c)
    BY <1>2, <2>8 DEF ReturnWS, mapVars
  <2> QED
    BY <1>3, <2>1, <2>2, <2>3, <2>4, <2>5, <2>6, <2>7, <2>8 DEF HandlerStep
<1>4. ASSUME NEW c \in Conn, PeerStep(c)
      PROVE  ConnsLive'
  <2>1. CASE RefuseWS(c)
    BY <1>2, <2>1 DEF RefuseWS, mapVars
  <2>2. CASE RegisterWS(c)
    BY <1>2, <2>2 DEF RegisterWS, mapVars
  <2>3. CASE \E r \in Request, e \in Terminal : ReadTerminal(c, r, e)
    BY <1>2, <2>3 DEF ReadTerminal
  <2>4. CASE \/ Drop(c) \/ FallSilent(c) \/ Wake(c) \/ Pump(c)
             \/ ReadHeartbeat(c) \/ \E r \in Request : ReadChunk(c, r)
    BY <2>4, <1>1 DEF Drop, FallSilent, Wake, Pump, ReadHeartbeat, ReadChunk,
                      wsVars, mapVars
  <2> QED
    BY <1>4, <2>1, <2>2, <2>3, <2>4 DEF PeerStep
<1>5. ASSUME SweeperStep \/ \E n \in Node : PassTime(n)
      PROVE  ConnsLive'
  BY <1>1, <1>5, SweeperFrame DEF wsVars, mapVars
<1>6. ASSUME NEW r \in Request, GatewayStep(r) \/ CallerStep(r) \/ Timeout(r)
      PROVE  ConnsLive'
  BY <1>1, <1>6, GatewayFrame DEF wsVars
<1>7. CASE UNCHANGED vars
  BY <1>1, <1>7 DEF vars, hubVars, wsVars, mapVars
<1> QED
  BY <1>3, <1>4, <1>5, <1>6, <1>7 DEF Next, HubStep

LEMMA ConnsLiveInit == Init => ConnsLive
BY DEF Init, HubInit, ConnsLive

(***************************************************************************)
(* Whatever providers and the network do, Hub.conns never names a          *)
(* connection whose handler has given its place up.                        *)
(***************************************************************************)
THEOREM ConnsStayLive == Spec => []ConnsLive
<1>1. Init => TypeOK /\ ConnsLive
  BY TypeInit, ConnsLiveInit
<1>2. TypeOK /\ ConnsLive /\ [Next]_vars => TypeOK' /\ ConnsLive'
  BY TypeStep, ConnsLiveStep
<1> QED
  BY <1>1, <1>2, PTL DEF Spec

-----------------------------------------------------------------------------
(***************************************************************************)
(* The hub adds and removes no event channel.                              *)
(***************************************************************************)
LEMMA HubFrame == ASSUME HubStep PROVE UNCHANGED routed
<1>1. ASSUME NEW c \in Conn, HandlerStep(c) PROVE UNCHANGED routed
  BY <1>1 DEF HandlerStep, Attach, DeliverTerminal, UnregisterWS, Detach,
              CloseOut, CloseOutPanics, FailOrphan, ReturnWS, Deliver, routerVars
<1>2. ASSUME NEW c \in Conn, PeerStep(c) PROVE UNCHANGED routed
  BY <1>2 DEF PeerStep, Drop, FallSilent, Wake, RefuseWS, RegisterWS, Pump,
              ReadHeartbeat, ReadChunk, ReadTerminal, Deliver, routerVars
<1> QED
  BY <1>1, <1>2, SweeperFrame DEF HubStep, routerVars

LEMMA RoutedStep == TypeOK /\ RoutedWhileHandled /\ [Next]_vars => RoutedWhileHandled'
<1> SUFFICES ASSUME TypeOK, RoutedWhileHandled, [Next]_vars
             PROVE  RoutedWhileHandled'
  OBVIOUS
<1> USE DEF RoutedWhileHandled, routerVars
<1>1. ASSUME UNCHANGED <<routed, gpc>> PROVE RoutedWhileHandled'
  BY <1>1
<1>2. gpc \in [Request -> Gpc]
  BY DEF TypeOK, ReqTypeOK
<1>3. ASSUME HubStep, UNCHANGED reqVars PROVE RoutedWhileHandled'
  BY <1>1, <1>3, HubFrame DEF reqVars
<1>4. ASSUME NEW r \in Request, NEW s, NEW a, Finish(r, s, a)
      PROVE  RoutedWhileHandled'
  BY <1>2, <1>4 DEF Finish, Resolve
<1>5. ASSUME NEW r \in Request, GatewayStep(r)
      PROVE  RoutedWhileHandled'
  <2>1. ASSUME NEW s, NEW a, HoldAnswer(r, s, a), UNCHANGED routed,
               gpc[r] \notin {"idle", "done"}
        PROVE  RoutedWhileHandled'
    BY <1>2, <2>1 DEF HoldAnswer
  <2>2. CASE SendNoConn(r) \/ SendQueueFull(r) \/ SendPanics(r)
    BY <1>4, <2>2 DEF SendNoConn, SendQueueFull, SendPanics, Aborted
  <2>3. CASE Complete(r) \/ Fail(r)
    BY <1>4, <2>1, <2>3 DEF Complete, Fail, EndWith, Receive
  <2>4. CASE CancelNoConn(r) \/ CancelEnqueue(r)
    BY <1>4, <2>1, <2>4 DEF CancelNoConn, CancelEnqueue, GivenUp
  <2>5. CASE SendLookup(r) \/ SendEnqueue(r)
    BY <1>2, <2>5 DEF SendLookup, SendEnqueue, AfterWrite
  <2>6. CASE RelayChunk(r)
    BY <1>2, <2>6 DEF RelayChunk, Receive, AfterWrite
  <2>7. CASE CancelLookup(r)
    BY <1>2, <2>7 DEF CancelLookup, hubVars
  <2> QED
    BY <1>5, <2>2, <2>3, <2>4, <2>5, <2>6, <2>7 DEF GatewayStep
<1>6. ASSUME NEW r \in Request, CallerStep(r) \/ Timeout(r)
      PROVE  RoutedWhileHandled'
  <2>1. CASE NoProvider(r)
    BY <1>4, <2>1 DEF NoProvider
  <2>2. CASE ReserveNode(r)
    BY <1>2, <2>2 DEF ReserveNode, Create
  <2>3. CASE CallerLeaves(r) \/ Timeout(r)
    BY <1>2, <2>3 DEF CallerLeaves, Timeout, GiveUp, hubVars
  <2>4. CASE Written(r)
    BY <1>2, <2>4 DEF Written, hubVars
  <2>5. CASE Answered(r)
    BY <1>4, <2>5 DEF Answered
  <2> QED
    BY <1>6, <2>1, <2>2, <2>3, <2>4, <2>5 DEF CallerStep
<1>7. CASE UNCHANGED vars
  BY <1>1, <1>7 DEF vars, hubVars, reqVars
<1> QED
  BY <1>3, <1>5, <1>6, <1>7 DEF Next

LEMMA RoutedInit == Init => RoutedWhileHandled
BY DEF Init, HubInit, RouterInit, RoutedWhileHandled

(***************************************************************************)
(* Whatever happens, a request has its event channel in the router exactly *)
(* while its handler runs: no event is lost for want of one, none leaks.   *)
(***************************************************************************)
THEOREM RoutedExactlyWhileHandled == Spec => []RoutedWhileHandled
<1>1. Init => TypeOK /\ RoutedWhileHandled
  BY TypeInit, RoutedInit
<1>2. /\ TypeOK /\ RoutedWhileHandled /\ [Next]_vars
      => TypeOK' /\ RoutedWhileHandled'
  BY TypeStep, RoutedStep
<1> QED
  BY <1>1, <1>2, PTL DEF Spec
-----------------------------------------------------------------------------
(* Dispatch implements RequestContract.                                    *)

(***************************************************************************)
(* Places in the queues.                                                   *)
(***************************************************************************)
LEMMA QueuedIs ==
    ASSUME HubTypeOK, NEW r \in Request
    PROVE  Queued(r) <=> \E c \in Conn, i \in 1..OutCap : AtPlace(c, i, r)
<1>1. \A c \in Conn : Len(outbox[c]) \in Nat /\ Len(outbox[c]) <= OutCap
  BY LenProperties DEF HubTypeOK
<1> QED
  BY <1>1, HubAssumption DEF Queued, AtPlace

LEMMA QueuedIsNext ==
    ASSUME HubTypeOK', NEW r \in Request
    PROVE  Queued(r)' <=> \E c \in Conn, i \in 1..OutCap : AtPlace(c, i, r)'
<1>1. \A c \in Conn : Len(outbox'[c]) \in Nat /\ Len(outbox'[c]) <= OutCap
  BY LenProperties DEF HubTypeOK
<1> QED
  BY <1>1, HubAssumption DEF Queued, AtPlace

\* Taking the first message moves every other one up.
LEMMA TakenPlaces ==
    ASSUME HubTypeOK, NEW c \in Conn, outbox[c] # << >>,
           outbox' = [outbox EXCEPT ![c] = Tail(@)]
    PROVE  /\ \A d \in Conn, i \in 1..OutCap, r \in Request :
                 d # c => (AtPlace(d, i, r)' <=> AtPlace(d, i, r))
           /\ \A i \in 1..OutCap, r \in Request :
                 AtPlace(c, i, r)' <=> AtPlace(c, i + 1, r)
<1> DEFINE s == outbox[c]
<1>1. /\ s \in Seq(Msg) /\ Len(s) \in Nat /\ Len(s) # 0
      /\ Len(Tail(s)) = Len(s) - 1
      /\ \A i \in 1..Len(Tail(s)) : Tail(s)[i] = s[i + 1]
  BY HeadTailProperties, LenProperties, EmptySeq DEF HubTypeOK
<1>2. /\ outbox'[c] = Tail(s)
      /\ \A d \in Conn : d # c => outbox'[d] = outbox[d]
  BY DEF HubTypeOK
<1> HIDE DEF s
<1>3. \A i \in 1..OutCap : i \in 1..Len(Tail(s)) <=> i + 1 \in 1..Len(s)
  BY <1>1, HubAssumption
<1> QED
  BY <1>1, <1>2, <1>3 DEF AtPlace, s

\* Adding one changes the place behind the last.
LEMMA AddedPlaces ==
    ASSUME HubTypeOK, NEW c \in Conn, HasRoom(c), NEW m \in Msg,
           outbox' = [outbox EXCEPT ![c] = Append(@, m)]
    PROVE  \A d \in Conn, i \in 1..OutCap, r \in Request :
              AtPlace(d, i, r)' <=>
                \/ AtPlace(d, i, r)
                \/ /\ d = c /\ i = Len(outbox[c]) + 1
                   /\ m = [type |-> "inference_request", req |-> r]
<1> DEFINE s == outbox[c]
<1>1. /\ s \in Seq(Msg) /\ Len(s) \in Nat
      /\ Len(Append(s, m)) = Len(s) + 1
      /\ \A i \in 1..Len(s) : Append(s, m)[i] = s[i]
      /\ Append(s, m)[Len(s) + 1] = m
  BY AppendProperties, LenProperties DEF HubTypeOK
<1>2. /\ outbox'[c] = Append(s, m)
      /\ \A d \in Conn : d # c => outbox'[d] = outbox[d]
  BY DEF HubTypeOK
<1> HIDE DEF s
<1>3. \A i \in 1..OutCap :
         i \in 1..Len(Append(s, m)) <=> i \in 1..Len(s) \/ i = Len(s) + 1
  BY <1>1, HubAssumption
<1> QED
  BY <1>1, <1>2, <1>3 DEF AtPlace, s

-----------------------------------------------------------------------------
(***************************************************************************)
(* What the steps of the hub do to the work of a request: nothing, unless  *)
(* the pump hands it to the provider, or the provider ends it.             *)
(***************************************************************************)
Same(r) == (Queued(r)' <=> Queued(r)) /\ (Running(r)' <=> Running(r))

LEMMA SameIs == ASSUME NEW r \in Request, UNCHANGED <<outbox, jobs>>
                PROVE  Same(r)
BY DEF Same, Queued, Running

LEMMA HubWork ==
    ASSUME HubStep
    PROVE  \/ UNCHANGED <<outbox, jobs>>
           \/ \E c \in Conn : Pump(c)
           \/ \E c \in Conn, r \in Request, e \in Terminal : ReadTerminal(c, r, e)
<1> USE DEF chanVars
<1>1. ASSUME NEW c \in Conn, HandlerStep(c) PROVE UNCHANGED <<outbox, jobs>>
  BY <1>1 DEF HandlerStep, Attach, DeliverTerminal, UnregisterWS, Detach,
              CloseOut, CloseOutPanics, FailOrphan, ReturnWS
<1>2. ASSUME NEW c \in Conn, PeerStep(c), ~Pump(c),
             ~\E r \in Request, e \in Terminal : ReadTerminal(c, r, e)
      PROVE  UNCHANGED <<outbox, jobs>>
  BY <1>2 DEF PeerStep, Drop, FallSilent, Wake, RefuseWS, RegisterWS,
              ReadHeartbeat, ReadChunk
<1> QED
  BY <1>1, <1>2, SweeperFrame DEF HubStep

LEMMA PumpWork ==
    ASSUME TypeOK, TypeOK', OneCopy, NEW c \in Conn, Pump(c), NEW r \in Request
    PROVE  \/ Same(r)
           \/ /\ AtPlace(c, 1, r)
              /\ Queued(r) /\ ~Running(r) /\ ~Queued(r)' /\ Running(r)'
<1> DEFINE m == Head(outbox[c])
<1>1. /\ HubTypeOK /\ HubTypeOK'
      /\ outbox[c] \in Seq(Msg) /\ outbox[c] # << >>
      /\ outbox' = [outbox EXCEPT ![c] = Tail(@)]
      /\ jobs \in [Node -> SUBSET Request] /\ NodeOf[c] \in Node
  BY HubAssumption DEF TypeOK, HubTypeOK, Pump
<1>2. /\ m \in Msg /\ m = outbox[c][1] /\ Len(outbox[c]) \in Nat
      /\ Len(outbox[c]) # 0 /\ 1 \in 1..OutCap
  BY <1>1, HeadTailProperties, LenProperties, EmptySeq, HubAssumption
<1>3. AtPlace(c, 1, r) <=> m.type = "inference_request" /\ m.req = r
  BY <1>2 DEF AtPlace, Msg
<1>4. jobs' = IF m.type = "inference_request"
              THEN [jobs EXCEPT ![NodeOf[c]] = @ \cup {m.req}] ELSE jobs
  BY DEF Pump
<1> HIDE DEF m
<1>5. \A i \in 1..OutCap : AtPlace(c, i, r)' <=> AtPlace(c, i + 1, r)
  BY <1>1, TakenPlaces
<1>6. \A d \in Conn, i \in 1..OutCap :
         d # c => (AtPlace(d, i, r)' <=> AtPlace(d, i, r))
  BY <1>1, TakenPlaces
<1>7. \A i \in 1..OutCap : AtPlace(c, i + 1, r) => i + 1 \in 1..OutCap
  <2>1. Len(outbox[c]) <= OutCap
    BY <1>1 DEF HubTypeOK
  <2> QED
    BY <1>2, <2>1, HubAssumption DEF AtPlace
<1>8. CASE AtPlace(c, 1, r)
  <2>1. Queued(r) /\ ~Running(r)
    BY <1>1, <1>2, <1>8, QueuedIs DEF OneCopy
  <2>2. ~Queued(r)'
    <3>1. \A d \in Conn, i \in 1..OutCap : AtPlace(d, i, r) => d = c /\ i = 1
      BY <1>2, <1>8 DEF OneCopy
    <3>2. \A d \in Conn, i \in 1..OutCap : ~AtPlace(d, i, r)'
      <4> SUFFICES ASSUME NEW d \in Conn, NEW i \in 1..OutCap, AtPlace(d, i, r)'
                   PROVE  FALSE
        OBVIOUS
      <4>1. CASE d = c
        BY <1>5, <1>7, <3>1, <4>1
      <4>2. CASE d # c
        BY <1>6, <3>1, <4>2
      <4> QED
        BY <4>1, <4>2
    <3> QED
      BY <1>1, <3>2, QueuedIsNext
  <2>3. Running(r)'
    BY <1>1, <1>3, <1>4, <1>8 DEF Running
  <2> QED
    BY <1>8, <2>1, <2>2, <2>3
<1>9. CASE ~AtPlace(c, 1, r)
  <2>1. Queued(r)' => Queued(r)
    BY <1>1, <1>5, <1>6, <1>7, QueuedIs, QueuedIsNext
  <2>2. Queued(r) => Queued(r)'
    <3> SUFFICES ASSUME NEW d \in Conn, NEW i \in 1..OutCap, AtPlace(d, i, r)
                 PROVE  \E f \in Conn, j \in 1..OutCap : AtPlace(f, j, r)'
      BY <1>1, QueuedIs, QueuedIsNext
    <3>1. CASE d # c
      BY <1>6, <3>1
    <3>2. CASE d = c
      <4>1. i - 1 \in 1..OutCap /\ (i - 1) + 1 = i
        BY <1>9, <3>2, HubAssumption
      <4> QED
        BY <1>5, <3>2, <4>1
    <3> QED
      BY <3>1, <3>2
  <2>3. Running(r)' <=> Running(r)
    BY <1>1, <1>3, <1>4, <1>9 DEF Running
  <2> QED
    BY <2>1, <2>2, <2>3 DEF Same
<1> QED
  BY <1>8, <1>9

LEMMA EndWork ==
    ASSUME TypeOK, OneCopy, NEW c \in Conn, NEW q \in Request,
           NEW e \in Terminal, ReadTerminal(c, q, e), NEW r \in Request
    PROVE  \/ r # q /\ Same(r)
           \/ r = q /\ ~Queued(r) /\ Running(r) /\ ~Queued(r)' /\ ~Running(r)'
<1>1. /\ jobs \in [Node -> SUBSET Request] /\ NodeOf[c] \in Node
      /\ q \in jobs[NodeOf[c]]
      /\ jobs' = [jobs EXCEPT ![NodeOf[c]] = @ \ {q}]
  BY HubAssumption DEF TypeOK, HubTypeOK, ReadTerminal
<1>2. Queued(r)' <=> Queued(r)
  BY DEF ReadTerminal, chanVars, Queued
<1>3. r # q => (Running(r)' <=> Running(r))
  BY <1>1 DEF Running
<1>4. ~Queued(q) /\ Running(q) /\ ~Running(q)'
  BY <1>1 DEF Running, OneCopy
<1> QED
  BY <1>2, <1>3, <1>4 DEF Same

(***************************************************************************)
(* The gateway adds one place to one request, in SendEnqueue, and changes  *)
(* nothing of work and places otherwise.                                   *)
(***************************************************************************)
LEMMA GatewayPlaces ==
    ASSUME TypeOK, TypeOK', NEW q \in Request,
           GatewayStep(q) \/ CallerStep(q) \/ Timeout(q)
    PROVE  /\ UNCHANGED jobs
           /\ \/ /\ ~SendEnqueue(q)
                 /\ \A d \in Conn, i \in 1..OutCap, r \in Request :
                       AtPlace(d, i, r)' <=> AtPlace(d, i, r)
              \/ /\ SendEnqueue(q)
                 /\ \E c \in Conn, k \in 1..OutCap :
                      \A d \in Conn, i \in 1..OutCap, r \in Request :
                         AtPlace(d, i, r)' <=> \/ AtPlace(d, i, r)
                                               \/ r = q /\ d = c /\ i = k
<1> USE DEF chanVars, hubVars
<1>0. HubTypeOK /\ ReqTypeOK
  BY DEF TypeOK
<1>1. UNCHANGED jobs
  BY GatewayFrame
<1>2. CASE UNCHANGED outbox /\ ~SendEnqueue(q)
  BY <1>1, <1>2 DEF AtPlace
<1>3. CASE SendEnqueue(q)
  <2> DEFINE m == [type |-> "inference_request", req |-> q]
  <2>1. /\ via[q] \in Conn /\ HasRoom(via[q]) /\ m \in Msg
        /\ outbox' = [outbox EXCEPT ![via[q]] = Append(@, m)]
    BY <1>0, <1>3 DEF SendEnqueue, ReqTypeOK, Msg
  <2>2. \A d \in Conn, i \in 1..OutCap, r \in Request :
           AtPlace(d, i, r)' <=>
             \/ AtPlace(d, i, r)
             \/ /\ d = via[q] /\ i = Len(outbox[via[q]]) + 1
                /\ m = [type |-> "inference_request", req |-> r]
    BY <1>0, <2>1, AddedPlaces
  <2>3. Len(outbox[via[q]]) + 1 \in 1..OutCap
    BY <1>0, <2>1, LenProperties, HubAssumption DEF HasRoom, HubTypeOK
  <2>4. \A r : m = [type |-> "inference_request", req |-> r] <=> r = q
    OBVIOUS
  <2> HIDE DEF m
  <2>5. \A d \in Conn, i \in 1..OutCap, r \in Request :
           AtPlace(d, i, r)' <=>
             \/ AtPlace(d, i, r)
             \/ r = q /\ d = via[q] /\ i = Len(outbox[via[q]]) + 1
    BY <2>2, <2>4
  <2>6. \E c \in Conn, k \in 1..OutCap :
           \A d \in Conn, i \in 1..OutCap, r \in Request :
              AtPlace(d, i, r)' <=> \/ AtPlace(d, i, r)
                                    \/ r = q /\ d = c /\ i = k
    <3>1. via[q] \in Conn
      BY <2>1
    <3> WITNESS via[q] \in Conn, Len(outbox[via[q]]) + 1 \in 1..OutCap
    <3> QED
      BY <2>5
  <2> QED
    BY <1>1, <1>3, <2>6, Zenon
<1>4. CASE CancelEnqueue(q) /\ HasRoom(via[q]) /\ ~SendEnqueue(q)
  <2> DEFINE m == [type |-> "cancel", req |-> q]
  <2>1. /\ via[q] \in Conn /\ m \in Msg
        /\ outbox' = [outbox EXCEPT ![via[q]] = Append(@, m)]
    BY <1>0, <1>4 DEF CancelEnqueue, ReqTypeOK, Msg
  <2>2. \A r : m # [type |-> "inference_request", req |-> r]
    OBVIOUS
  <2> HIDE DEF m
  <2>3. HasRoom(via[q])
    BY <1>4
  <2>4. \A d \in Conn, i \in 1..OutCap, r \in Request :
           AtPlace(d, i, r)' <=>
             \/ AtPlace(d, i, r)
             \/ /\ d = via[q] /\ i = Len(outbox[via[q]]) + 1
                /\ m = [type |-> "inference_request", req |-> r]
    BY <1>0, <2>1, <2>3, AddedPlaces
  <2>5. \A d \in Conn, i \in 1..OutCap, r \in Request :
           AtPlace(d, i, r)' <=> AtPlace(d, i, r)
    BY <2>2, <2>4, Zenon
  <2>6. ~SendEnqueue(q)
    BY <1>4
  <2> QED
    BY <1>1, <2>5, <2>6, Zenon
<1>5. CASE CancelEnqueue(q) /\ ~HasRoom(via[q]) /\ ~SendEnqueue(q)
  BY <1>2, <1>5 DEF CancelEnqueue
<1>6. CASE (CallerStep(q) \/ Timeout(q)) /\ ~SendEnqueue(q)
  BY <1>2, <1>6 DEF CallerStep, NoProvider, ReserveNode, CallerLeaves, Timeout,
                    GiveUp, Written, Answered
<1>7. CASE /\ \/ SendLookup(q) \/ SendNoConn(q) \/ SendQueueFull(q) \/ SendPanics(q)
              \/ RelayChunk(q) \/ Complete(q) \/ Fail(q)
              \/ CancelLookup(q) \/ CancelNoConn(q)
           /\ ~SendEnqueue(q)
  BY <1>2, <1>7 DEF SendLookup, SendNoConn, SendQueueFull, SendPanics, RelayChunk,
                    Complete, Fail, EndWith, CancelLookup, CancelNoConn
<1> QED
  BY <1>3, <1>4, <1>5, <1>6, <1>7 DEF GatewayStep

LEMMA GatewayWork ==
    ASSUME TypeOK, TypeOK', NEW q \in Request,
           GatewayStep(q) \/ CallerStep(q) \/ Timeout(q), NEW r \in Request
    PROVE  \/ Same(r) /\ ~(r = q /\ SendEnqueue(q))
           \/ r = q /\ SendEnqueue(q) /\ Queued(r)' /\ (Running(r)' <=> Running(r))
<1>1. HubTypeOK /\ HubTypeOK'
  BY DEF TypeOK
<1>2. Running(r)' <=> Running(r)
  BY GatewayPlaces DEF Running
<1>3. ASSUME \A d \in Conn, i \in 1..OutCap : AtPlace(d, i, r)' <=> AtPlace(d, i, r)
      PROVE  Same(r)
  BY <1>1, <1>2, <1>3, QueuedIs, QueuedIsNext DEF Same
<1>4. CASE SendEnqueue(q) /\ \E c \in Conn, k \in 1..OutCap :
             \A d \in Conn, i \in 1..OutCap, p \in Request :
                AtPlace(d, i, p)' <=> \/ AtPlace(d, i, p)
                                      \/ p = q /\ d = c /\ i = k
  <2>1. CASE r = q
    <3>1. Queued(r)'
      BY <1>1, <1>4, <2>1, QueuedIsNext
    <3>2. SendEnqueue(q)
      BY <1>4
    <3> QED
      BY <1>2, <2>1, <3>1, <3>2, Zenon
  <2>2. CASE r # q
    <3>1. PICK c \in Conn, k \in 1..OutCap :
                \A d \in Conn, i \in 1..OutCap, p \in Request :
                   AtPlace(d, i, p)' <=> \/ AtPlace(d, i, p)
                                         \/ p = q /\ d = c /\ i = k
      BY <1>4
    <3>2. \A d \in Conn, i \in 1..OutCap : AtPlace(d, i, r)' <=> AtPlace(d, i, r)
      BY <2>2, <3>1
    <3> QED
      BY <1>3, <2>2, <3>2
  <2> QED
    BY <2>1, <2>2
<1> QED
  BY <1>3, <1>4, GatewayPlaces

-----------------------------------------------------------------------------
(***************************************************************************)
(* The three parts of ContractInv are kept.                                *)
(***************************************************************************)
LEMMA OneCopyStep ==
    ASSUME ContractInv, TypeOK', [Next]_vars
    PROVE  OneCopy'
<1>0. /\ TypeOK /\ HubTypeOK /\ OneCopy /\ EndsTold
      /\ jobs \in [Node -> SUBSET Request]
  BY DEF ContractInv, TypeOK, HubTypeOK
<1>1. CASE UNCHANGED <<outbox, jobs>>
  BY <1>0, <1>1 DEF OneCopy, AtPlace, Queued, Running
<1>2. ASSUME NEW c \in Conn, Pump(c) PROVE OneCopy'
  <2> SUFFICES ASSUME NEW r \in Request
               PROVE  /\ \A d, e \in Conn, i, j \in 1..OutCap :
                            AtPlace(d, i, r)' /\ AtPlace(e, j, r)'
                               => d = e /\ i = j
                      /\ \A m, n \in Node : r \in jobs'[m] \cap jobs'[n] => m = n
                      /\ ~(Queued(r)' /\ Running(r)')
    BY DEF OneCopy
  <2> DEFINE m == Head(outbox[c])
  <2>1. /\ outbox[c] \in Seq(Msg) /\ outbox[c] # << >>
        /\ outbox' = [outbox EXCEPT ![c] = Tail(@)]
        /\ NodeOf[c] \in Node
    BY <1>0, <1>2, HubAssumption DEF HubTypeOK, Pump
  <2>2. /\ \A d \in Conn, i \in 1..OutCap :
              d # c => (AtPlace(d, i, r)' <=> AtPlace(d, i, r))
        /\ \A i \in 1..OutCap : AtPlace(c, i, r)' <=> AtPlace(c, i + 1, r)
    BY <1>0, <2>1, TakenPlaces
  <2>3. \A i \in 1..OutCap : AtPlace(c, i + 1, r) => i + 1 \in 1..OutCap
    <3>1. Len(outbox[c]) <= OutCap /\ Len(outbox[c]) \in Nat
      BY <1>0, <2>1, LenProperties DEF HubTypeOK
    <3> QED
      BY <3>1, HubAssumption DEF AtPlace
  <2>4. \A d, e \in Conn, i, j \in 1..OutCap :
           AtPlace(d, i, r) /\ AtPlace(e, j, r) => d = e /\ i = j
    BY <1>0 DEF OneCopy
  <2>5. \A d, e \in Conn, i, j \in 1..OutCap :
           AtPlace(d, i, r)' /\ AtPlace(e, j, r)' => d = e /\ i = j
    <3> SUFFICES ASSUME NEW d \in Conn, NEW e \in Conn,
                        NEW i \in 1..OutCap, NEW j \in 1..OutCap,
                        AtPlace(d, i, r)', AtPlace(e, j, r)'
                 PROVE  d = e /\ i = j
      OBVIOUS
    <3> DEFINE x == IF d = c THEN i + 1 ELSE i
               y == IF e = c THEN j + 1 ELSE j
    <3>1. x \in 1..OutCap /\ AtPlace(d, x, r)
      BY <2>2, <2>3
    <3>2. y \in 1..OutCap /\ AtPlace(e, y, r)
      BY <2>2, <2>3
    <3>3. d = e /\ x = y
      BY <2>4, <3>1, <3>2
    <3> QED
      BY <3>3
  <2>6. ~(Queued(r)' /\ Running(r)')
    BY <1>0, <1>2, PumpWork DEF Same, OneCopy
  <2>7. \A k, n \in Node : r \in jobs'[k] \cap jobs'[n] => k = n
    <3>1. CASE Running(r)
      <4>1. Same(r)
        BY <1>0, <1>2, <3>1, PumpWork
      <4>2. ~AtPlace(c, 1, r)
        BY <1>0, <3>1, QueuedIs, HubAssumption DEF OneCopy
      <4>3. ~(m.type = "inference_request" /\ m.req = r)
        <5>1. m = outbox[c][1] /\ m \in Msg /\ 1 \in 1..Len(outbox[c])
          BY <2>1, HeadTailProperties, LenProperties, EmptySeq
        <5> HIDE DEF m
        <5> QED
          BY <4>2, <5>1 DEF AtPlace, Msg
      <4>4. \A n \in Node : r \in jobs'[n] <=> r \in jobs[n]
        BY <1>0, <1>2, <2>1, <4>3 DEF Pump
      <4> QED
        BY <1>0, <4>4 DEF OneCopy
    <3>2. CASE ~Running(r)
      BY <1>0, <1>2, <2>1, <3>2 DEF Pump, Running
    <3> QED
      BY <3>1, <3>2
  <2> QED
    BY <2>5, <2>6, <2>7
<1>3. ASSUME NEW c \in Conn, NEW q \in Request, NEW e \in Terminal,
             ReadTerminal(c, q, e)
      PROVE  OneCopy'
  <2>1. UNCHANGED outbox /\ jobs' = [jobs EXCEPT ![NodeOf[c]] = @ \ {q}]
    BY <1>3 DEF ReadTerminal, chanVars
  <2> QED
    BY <1>0, <2>1, HubAssumption DEF OneCopy, AtPlace, Queued, Running
<1>4. ASSUME NEW q \in Request, GatewayStep(q) \/ CallerStep(q) \/ Timeout(q)
      PROVE  OneCopy'
  <2> SUFFICES ASSUME NEW r \in Request
               PROVE  /\ \A d, e \in Conn, i, j \in 1..OutCap :
                            AtPlace(d, i, r)' /\ AtPlace(e, j, r)'
                               => d = e /\ i = j
                      /\ ~(Queued(r)' /\ Running(r)')
    BY <1>0, <1>4, GatewayPlaces DEF OneCopy
  <2>1. SendEnqueue(q) => ~Queued(q) /\ ~Running(q)
    BY <1>0 DEF SendEnqueue, NeverSent, EndsTold
  <2>2. ~(Queued(r)' /\ Running(r)')
    BY <1>0, <1>4, <2>1, GatewayWork DEF Same, OneCopy
  <2>3. SendEnqueue(q) => \A d \in Conn, i \in 1..OutCap : ~AtPlace(d, i, q)
    BY <1>0, <2>1, QueuedIs
  <2>4. \A d, e \in Conn, i, j \in 1..OutCap :
           AtPlace(d, i, r) /\ AtPlace(e, j, r) => d = e /\ i = j
    BY <1>0 DEF OneCopy
  <2> QED
    BY <1>0, <1>4, <2>2, <2>3, <2>4, GatewayPlaces
<1>5. CASE UNCHANGED vars
  BY <1>1, <1>5 DEF vars, hubVars, chanVars
<1> QED
  BY <1>1, <1>2, <1>3, <1>4, <1>5, HubWork DEF Next

\* A step of the gateway for q leaves the locals of other requests alone.
LEMMA OthersKept ==
    ASSUME NEW q \in Request, GatewayStep(q) \/ CallerStep(q) \/ Timeout(q),
           TypeOK, NEW r \in Request, r # q
    PROVE  gpc'[r] = gpc[r] /\ status'[r] = status[r] /\ answer'[r] = answer[r]
<1> USE DEF Finish, HoldAnswer, reqVars
<1>1. /\ gpc \in [Request -> Gpc] /\ status \in [Request -> Status]
      /\ answer \in [Request -> Answer]
  BY DEF TypeOK, ReqTypeOK
<1>2. CASE GatewayStep(q)
  BY <1>1, <1>2 DEF GatewayStep, SendLookup, SendNoConn, SendEnqueue,
     SendQueueFull, SendPanics, Aborted, RelayChunk, Complete, Fail, EndWith,
     CancelLookup, CancelNoConn, CancelEnqueue, GivenUp
<1>3. CASE CallerStep(q) \/ Timeout(q)
  BY <1>1, <1>3 DEF CallerStep, NoProvider, ReserveNode, CallerLeaves, Timeout,
     GiveUp, Written, Answered
<1> QED
  BY <1>2, <1>3

\* What it does to the locals of q: the ways through the handler.
Locals(r) == <<gpc[r], status[r], answer[r]>>
Waiting == {"waiting", "writing"}
Over == {"answering", "done"}

LEMMA WaysThrough ==
    ASSUME TypeOK, NEW q \in Request, GatewayStep(q) \/ CallerStep(q) \/ Timeout(q)
    PROVE  \/ UNCHANGED Locals(q)
           \/ gpc[q] = "idle" /\ Locals(q)' = <<"created", status[q], answer[q]>>
           \/ gpc[q] = "created" /\ Locals(q)' = <<"sending", status[q], answer[q]>>
           \/ gpc[q] = "idle" /\ Locals(q)' = <<"done", status[q], "unavailable">>
           \/ gpc[q] \in {"created", "sending"}
                /\ Locals(q)' = <<"done", "failed", "bad_gateway">>
           \/ gpc[q] \in {"sending", "sendingCancel"}
                /\ Locals(q)' = <<"done", status[q], "aborted">>
           \/ SendEnqueue(q) /\ \E g \in Waiting : Locals(q)' = <<g, status[q], answer[q]>>
           \/ gpc[q] \in Waiting /\ \E g \in Waiting :
                 Locals(q)' = <<g, status[q], answer[q]>>
           \/ Complete(q) /\ \E g \in Over : Locals(q)' = <<g, status[q], "ok">>
           \/ gpc[q] = "waiting" /\ \E g \in Over : Locals(q)' = <<g, "failed", "error">>
           \/ gpc[q] = "waiting" /\ \E s \in {"timeout", "cancelled"} :
                 Locals(q)' = <<"cancelling", s, answer[q]>>
           \/ gpc[q] = "cancelling"
                /\ Locals(q)' = <<"sendingCancel", status[q], answer[q]>>
           \/ gpc[q] \in {"cancelling", "sendingCancel"}
                /\ \E g \in Over, a \in {"timeout", "left"} :
                      Locals(q)' = <<g, status[q], a>>
           \/ gpc[q] = "answering" /\ Locals(q)' = <<"done", status[q], answer[q]>>
<1> USE DEF Finish, HoldAnswer, Locals, reqVars, hubVars, Waiting, Over
<1>1. /\ gpc \in [Request -> Gpc] /\ status \in [Request -> Status]
      /\ answer \in [Request -> Answer]
  BY DEF TypeOK, ReqTypeOK
<1>2. CASE SendLookup(q) \/ SendNoConn(q) \/ SendQueueFull(q) \/ SendPanics(q)
  BY <1>1, <1>2 DEF SendLookup, SendNoConn, SendQueueFull, SendPanics, Aborted
<1>3. CASE SendEnqueue(q)
  <2>1. \E g \in Waiting : Locals(q)' = <<g, status[q], answer[q]>>
    BY <1>1, <1>3 DEF SendEnqueue, AfterWrite
  <2> QED
    BY <1>3, <2>1
<1>4. CASE Complete(q)
  <2>1. \E g \in Over : Locals(q)' = <<g, status[q], "ok">>
    BY <1>1, <1>4 DEF Complete, EndWith
  <2> QED
    BY <1>4, <2>1
<1>5. CASE RelayChunk(q)
  BY <1>1, <1>5 DEF RelayChunk, AfterWrite
<1>6. CASE Fail(q)
  BY <1>1, <1>6 DEF Fail, EndWith
<1>7. CASE CancelLookup(q)
  BY <1>1, <1>7 DEF CancelLookup
<1>8. CASE CancelNoConn(q) \/ CancelEnqueue(q)
  <2>1. gpc[q] \in {"cancelling", "sendingCancel"} /\ GivenUp(q)
    BY <1>8 DEF CancelNoConn, CancelEnqueue
  <2>2. \E g \in Over, a \in {"timeout", "left"} : Locals(q)' = <<g, status[q], a>>
    BY <1>1, <2>1 DEF GivenUp
  <2> QED
    BY <2>1, <2>2
<1>9. CASE CallerStep(q) \/ Timeout(q)
  BY <1>1, <1>9 DEF CallerStep, NoProvider, ReserveNode, CallerLeaves, Timeout,
     GiveUp, Written, Answered
<1> QED
  BY <1>2, <1>3, <1>4, <1>5, <1>6, <1>7, <1>8, <1>9 DEF GatewayStep

LEMMA LocalsStep ==
    ASSUME TypeOK, LocalsOK, [Next]_vars
    PROVE  /\ LocalsOK'
           /\ \A r \in Request : NeverSent(r)' => NeverSent(r)
<1> SUFFICES ASSUME NEW r \in Request
             PROVE  LocalOK(r)' /\ (NeverSent(r)' => NeverSent(r))
  BY DEF LocalsOK, LocalOK
<1>1. LocalOK(r)
  BY DEF LocalsOK, LocalOK
<1>2. CASE UNCHANGED Locals(r)
  BY <1>1, <1>2 DEF Locals, LocalOK, NeverSent
<1>3. ASSUME NEW q \in Request, GatewayStep(q) \/ CallerStep(q) \/ Timeout(q)
      PROVE  LocalOK(r)' /\ (NeverSent(r)' => NeverSent(r))
  <2>1. CASE r # q
    BY <1>2, <1>3, <2>1, OthersKept DEF Locals
  <2> USE DEF Locals, LocalOK, NeverSent, Waiting, Over
  <2>2. CASE r = q /\ SendEnqueue(q)
    BY <1>1, <1>3, <2>2, WaysThrough DEF SendEnqueue
  <2>3. CASE r = q /\ Complete(q)
    BY <1>1, <1>3, <2>3, WaysThrough DEF Complete, EndWith
  <2>4. CASE r = q /\ ~SendEnqueue(q) /\ ~Complete(q)
    BY <1>1, <1>3, <2>4, WaysThrough
  <2> QED
    BY <2>1, <2>2, <2>3, <2>4
<1>4. CASE UNCHANGED reqVars
  BY <1>2, <1>4 DEF reqVars, Locals
<1> QED
  BY <1>3, <1>4 DEF Next, vars
(***************************************************************************)
(* That a request has completed is told by its provider only: events in    *)
(* the pipeline move on, and disconnect adds errors.                       *)
(***************************************************************************)
LEMMA CompletedComes ==
    ASSUME TypeOK, [Next]_vars, NEW r \in Request, Completed(r)'
    PROVE  \/ Completed(r)
           \/ \E c \in Conn, e \in Terminal : ReadTerminal(c, r, e)
<1>0. /\ arriving \in [Conn -> Arrival \cup {<< >>}]
      /\ \A c \in Conn : wsPc[c] = "delivering" => arriving[c] \in Arrival
      /\ events \in [Request -> Seq(Event)]
      /\ events[r] \in Seq(Event) /\ Len(events[r]) \in Nat
  BY LenProperties DEF TypeOK, HubTypeOK, RouterTypeOK
<1>a. \/ \E i \in 1..Len(events'[r]) : events'[r][i] = "complete"
      \/ \E c \in Conn : arriving'[c] = <<r, "complete">>
  BY DEF Completed
<1>b. << >> # <<r, "complete">>
  OBVIOUS
<1>1. ASSUME UNCHANGED <<events, arriving>> PROVE Completed(r)
  BY <1>1 DEF Completed
<1>2. ASSUME NEW q \in Request, NEW e \in Event, Deliver(q, e),
             e = "complete" => \E c \in Conn : arriving[c] = <<q, "complete">>,
             \A c \in Conn : arriving'[c] \in {<< >>, arriving[c]}
      PROVE  Completed(r)
  <2>1. /\ Len(Append(events[r], e)) = Len(events[r]) + 1
        /\ \A i \in 1..Len(events[r]) : Append(events[r], e)[i] = events[r][i]
        /\ Append(events[r], e)[Len(events[r]) + 1] = e
    BY <1>0, AppendProperties
  <2>2. events'[r] \in {events[r], Append(events[r], e)}
    BY <1>0, <1>2 DEF Deliver
  <2>3. q # r => events'[r] = events[r]
    BY <1>0, <1>2 DEF Deliver
  <2>4. CASE \E c \in Conn : arriving'[c] = <<r, "complete">>
    BY <1>b, <1>2, <2>4 DEF Completed
  <2>5. ASSUME NEW i \in 1..Len(events'[r]), events'[r][i] = "complete"
        PROVE  Completed(r)
    <3>1. CASE events'[r] = events[r]
      BY <2>5, <3>1 DEF Completed
    <3>2. CASE q = r /\ events'[r] = Append(events[r], e)
      <4>1. i \in 1..Len(events[r]) \/ i = Len(events[r]) + 1
        BY <1>0, <2>1, <3>2
      <4> QED
        BY <1>2, <2>1, <2>5, <3>2, <4>1 DEF Completed
    <3> QED
      BY <2>2, <2>3, <3>1, <3>2
  <2> QED
    BY <1>a, <2>4, <2>5
<1>3. ASSUME NEW q \in Request, Receive(q), events[q] # << >>, UNCHANGED arriving
      PROVE  Completed(r)
  <2>1. events[r] # << >> =>
           /\ Len(Tail(events[r])) = Len(events[r]) - 1
           /\ \A i \in 1..Len(Tail(events[r])) : Tail(events[r])[i] = events[r][i + 1]
    BY <1>0, HeadTailProperties
  <2>2. CASE q # r
    BY <1>0, <1>1, <1>3, <2>2 DEF Receive, Completed
  <2>3. CASE q = r
    <3>1. events'[r] = Tail(events[r])
      BY <1>0, <1>3, <2>3 DEF Receive
    <3>2. ASSUME NEW i \in 1..Len(events'[r]), events'[r][i] = "complete"
          PROVE  Completed(r)
      <4>1. i + 1 \in 1..Len(events[r]) /\ events[r][i + 1] = "complete"
        BY <1>0, <1>3, <2>1, <2>3, <3>1, <3>2
      <4> QED
        BY <4>1 DEF Completed
    <3> QED
      BY <1>3, <3>2 DEF Completed
  <2> QED
    BY <2>2, <2>3
<1>4. ASSUME NEW q \in Request, UNCHANGED arriving,
             events' = [events EXCEPT ![q] = << >>]
      PROVE  Completed(r)
  BY <1>0, <1>4, EmptySeq DEF Completed
<1>5. ASSUME NEW c \in Conn, HandlerStep(c) PROVE Completed(r)
  <2>1. CASE DeliverTerminal(c)
    <3>1. PICK q \in Request, e \in Terminal : arriving[c] = <<q, e>>
      BY <1>0, <2>1 DEF DeliverTerminal, Arrival
    <3>2. Deliver(q, e) /\ e \in Event
      BY <2>1, <3>1 DEF DeliverTerminal, Event
    <3>3. \A d \in Conn : arriving'[d] \in {<< >>, arriving[d]}
      BY <1>0, <2>1 DEF DeliverTerminal
    <3> QED
      BY <1>2, <3>1, <3>2, <3>3
  <2>2. CASE \E q \in Request : FailOrphan(c, q)
    BY <1>2, <2>2 DEF FailOrphan, Event, Terminal
  <2>3. CASE ~DeliverTerminal(c) /\ ~\E q \in Request : FailOrphan(c, q)
    <3>1. UNCHANGED <<events, arriving>>
      BY <1>5, <2>3 DEF HandlerStep, Attach, UnregisterWS, Detach, CloseOut,
         CloseOutPanics, ReturnWS, routerVars
    <3> QED
      BY <1>1, <3>1
  <2> QED
    BY <2>1, <2>2, <2>3
<1>6. ASSUME NEW c \in Conn, PeerStep(c),
             ~\E e \in Terminal : ReadTerminal(c, r, e)
      PROVE  Completed(r)
  <2>1. CASE \E q \in Request : ReadChunk(c, q)
    BY <1>2, <2>1 DEF ReadChunk, wsVars, Event
  <2>2. ASSUME NEW q \in Request, NEW e \in Terminal, ReadTerminal(c, q, e)
        PROVE  Completed(r)
    <3>1. q # r
      BY <1>6, <2>2
    <3>2. UNCHANGED events /\ arriving' = [arriving EXCEPT ![c] = <<q, e>>]
      BY <2>2 DEF ReadTerminal, routerVars
    <3> QED
      BY <1>0, <3>1, <3>2 DEF Completed
  <2>3. CASE \/ Drop(c) \/ FallSilent(c) \/ Wake(c) \/ RefuseWS(c) \/ RegisterWS(c)
             \/ Pump(c) \/ ReadHeartbeat(c)
    <3>1. UNCHANGED <<events, arriving>>
      BY <2>3 DEF Drop, FallSilent, Wake, RefuseWS, RegisterWS, Pump,
         ReadHeartbeat, routerVars, wsVars
    <3> QED
      BY <1>1, <3>1
  <2> QED
    BY <1>6, <2>1, <2>2, <2>3 DEF PeerStep
<1>7. ASSUME SweeperStep \/ \E n \in Node : PassTime(n) PROVE Completed(r)
  <2>1. UNCHANGED <<events, arriving>>
    BY <1>7, SweeperFrame DEF wsVars, routerVars
  <2> QED
    BY <1>1, <2>1
<1>8. ASSUME NEW q \in Request, GatewayStep(q) \/ CallerStep(q) \/ Timeout(q)
      PROVE  Completed(r)
  <2>0. UNCHANGED arriving
    BY <1>8, GatewayFrame DEF wsVars
  <2>1. CASE RelayChunk(q)
    BY <1>3, <2>0, <2>1 DEF RelayChunk
  <2>2. ASSUME NEW st, NEW a, Finish(q, st, a)
        PROVE  Completed(r)
    BY <1>4, <2>0, <2>2 DEF Finish, Resolve
  <2>3. CASE \/ SendNoConn(q) \/ SendQueueFull(q) \/ SendPanics(q)
             \/ NoProvider(q) \/ Answered(q)
    BY <2>2, <2>3 DEF SendNoConn, SendQueueFull, SendPanics, Aborted, NoProvider,
       Answered
  <2>4. CASE Complete(q) \/ Fail(q)
    BY <1>3, <2>0, <2>2, <2>4 DEF Complete, Fail, EndWith
  <2>5. CASE CancelNoConn(q) \/ CancelEnqueue(q)
    BY <1>1, <2>0, <2>2, <2>5 DEF CancelNoConn, CancelEnqueue, GivenUp, routerVars
  <2>6. CASE ReserveNode(q)
    BY <1>4, <2>0, <2>6 DEF ReserveNode, Create
  <2>7. CASE \/ SendLookup(q) \/ SendEnqueue(q) \/ CancelLookup(q)
             \/ CallerLeaves(q) \/ Timeout(q) \/ Written(q)
    <3>1. UNCHANGED <<events, arriving>>
      BY <2>0, <2>7 DEF SendLookup, SendEnqueue, CancelLookup, CallerLeaves,
         Timeout, GiveUp, Written, routerVars, hubVars
    <3> QED
      BY <1>1, <3>1
  <2> QED
    BY <1>8, <2>1, <2>3, <2>4, <2>5, <2>6, <2>7 DEF GatewayStep, CallerStep
<1>9. CASE UNCHANGED vars
  BY <1>1, <1>9 DEF vars, hubVars, routerVars, wsVars
<1> QED
  BY <1>5, <1>6, <1>7, <1>8, <1>9 DEF Next, HubStep
LEMMA EndsToldStep ==
    ASSUME ContractInv, TypeOK', [Next]_vars
    PROVE  EndsTold'
<1> SUFFICES ASSUME NEW r \in Request
             PROVE  /\ NeverSent(r)' => ~Queued(r)' /\ ~Running(r)' /\ ~Completed(r)'
                    /\ Completed(r)' => ~Queued(r)' /\ ~Running(r)'
  BY DEF EndsTold
<1>0. /\ TypeOK /\ OneCopy /\ EndsTold /\ LocalsOK
      /\ NeverSent(r) => ~Queued(r) /\ ~Running(r) /\ ~Completed(r)
      /\ Completed(r) => ~Queued(r) /\ ~Running(r)
      /\ NeverSent(r)' => NeverSent(r)
  BY LocalsStep DEF ContractInv, EndsTold
<1>1. ASSUME NEW c \in Conn, NEW e \in Terminal, ReadTerminal(c, r, e)
      PROVE  Running(r) /\ ~Queued(r)' /\ ~Running(r)'
  BY <1>0, <1>1, EndWork
<1>2. Completed(r)' => \/ Completed(r)
                       \/ \E c \in Conn, e \in Terminal : ReadTerminal(c, r, e)
  BY <1>0, CompletedComes
<1>3. CASE Same(r)
  BY <1>0, <1>1, <1>2, <1>3 DEF Same
<1>4. ASSUME NEW c \in Conn, Pump(c), ~Same(r)
      PROVE  Queued(r) /\ ~\E d \in Conn, e \in Terminal : ReadTerminal(d, r, e)
  <2>1. Queued(r) /\ ~Running(r)
    BY <1>0, <1>4, PumpWork
  <2> QED
    BY <1>1, <2>1
<1>5. ASSUME NEW c \in Conn, NEW q \in Request, NEW e \in Terminal,
             ReadTerminal(c, q, e), ~Same(r)
      PROVE  ~Queued(r)' /\ ~Running(r)' /\ Running(r)
  BY <1>0, <1>5, EndWork
<1>6. ASSUME NEW q \in Request, GatewayStep(q) \/ CallerStep(q) \/ Timeout(q),
             ~Same(r)
      PROVE  SendEnqueue(r)
  BY <1>0, <1>6, GatewayWork
<1>7. CASE SendEnqueue(r)
  <2>1. NeverSent(r) /\ ~NeverSent(r)'
    <3>1. gpc'[r] \in Waiting /\ answer'[r] = "none" /\ gpc[r] = "sending"
      BY <1>0, <1>7 DEF SendEnqueue, AfterWrite, Waiting, TypeOK, ReqTypeOK,
                        LocalsOK, LocalOK
    <3> QED
      BY <3>1 DEF NeverSent, Waiting
  <2>2. ~Completed(r)'
    BY <1>0, <1>1, <1>2, <2>1
  <2> QED
    BY <2>1, <2>2
<1>8. CASE ~Same(r) /\ ~SendEnqueue(r)
  <2>1. CASE HubStep
    <3>1. ~UNCHANGED <<outbox, jobs>>
      BY <1>8, SameIs
    <3> QED
      BY <1>0, <1>2, <1>4, <1>5, <1>8, <2>1, <3>1, HubWork
  <2>2. CASE UNCHANGED vars
    BY <1>8, <2>2, SameIs DEF vars, hubVars, chanVars
  <2> QED
    BY <1>6, <1>8, <2>1, <2>2 DEF Next
<1> QED
  BY <1>3, <1>7, <1>8

LEMMA ContractInit == Init => ContractInv
<1> SUFFICES ASSUME Init PROVE ContractInv
  OBVIOUS
<1>1. TypeOK
  BY TypeInit
<1>2. \A c \in Conn : outbox[c] = << >> /\ arriving[c] = << >>
  BY DEF Init, HubInit
<1>3. /\ \A n \in Node : jobs[n] = {}
      /\ \A r \in Request : events[r] = << >>
  BY DEF Init, HubInit, RouterInit
<1>4. Len(<< >>) = 0 /\ \A r : << >> # <<r, "complete">>
  BY EmptySeq
<1>5. \A r \in Request : ~Queued(r) /\ ~Running(r) /\ ~Completed(r)
  BY <1>2, <1>3, <1>4 DEF Queued, Running, Completed
<1>6. OneCopy
  BY <1>2, <1>3, <1>4, <1>5 DEF OneCopy, AtPlace
<1>7. EndsTold /\ LocalsOK
  BY <1>5 DEF EndsTold, LocalsOK, LocalOK, Init
<1> QED
  BY <1>1, <1>6, <1>7 DEF ContractInv

LEMMA ContractInvStep == ContractInv /\ [Next]_vars => ContractInv'
<1> SUFFICES ASSUME ContractInv, [Next]_vars PROVE ContractInv'
  OBVIOUS
<1>1. TypeOK /\ LocalsOK
  BY DEF ContractInv
<1>2. TypeOK'
  BY <1>1, TypeStep
<1>3. LocalsOK'
  BY <1>1, LocalsStep
<1> QED
  BY <1>2, <1>3, OneCopyStep, EndsToldStep DEF ContractInv
-----------------------------------------------------------------------------
(***************************************************************************)
(* The refinement.                                                         *)
(***************************************************************************)
LEMMA PhaseValues ==
    /\ \A a : PhaseAt("idle", a) = "new"
    /\ \A a, g : g \in {"created", "sending"} => PhaseAt(g, a) = "open"
    /\ \A a, g : g \in {"waiting", "writing", "cancelling", "sendingCancel"}
                  => PhaseAt(g, a) = "sent"
    /\ \A a, g : g \in Over /\ a \in {"ok", "error", "aborted"} => PhaseAt(g, a) = a
    /\ \A a, g : g \in Over /\ a \in {"timeout", "left"} => PhaseAt(g, a) = "given_up"
    /\ \A a : a \in {"unavailable", "bad_gateway"} => PhaseAt("done", a) = "refused"
    /\ \A a : PhaseAt("answering", a) = PhaseAt("done", a)
BY DEF PhaseAt, Over

\* A request whose locals and work stay is as it was.
LEMMA Still ==
    ASSUME NEW r \in Request, UNCHANGED Locals(r)
    PROVE  /\ PhaseOf'[r] = PhaseOf[r]
           /\ NeverSent(r)' <=> NeverSent(r)
           /\ Same(r) => WorkOf'[r] = WorkOf[r]
<1>1. gpc'[r] = gpc[r] /\ status'[r] = status[r] /\ answer'[r] = answer[r]
  BY DEF Locals
<1>2. NeverSent(r)' <=> NeverSent(r)
  BY <1>1 DEF NeverSent
<1> QED
  BY <1>1, <1>2 DEF PhaseOf, WorkOf, Same

\* One request moves, the others are as they were.
LEMMA OneMoves ==
    ASSUME NEW q \in Request,
           \A r \in Request \ {q} : PhaseOf'[r] = PhaseOf[r] /\ WorkOf'[r] = WorkOf[r]
    PROVE  /\ PhaseOf' = [PhaseOf EXCEPT ![q] = PhaseOf'[q]]
           /\ WorkOf' = [WorkOf EXCEPT ![q] = WorkOf'[q]]
BY DEF PhaseOf, WorkOf

LEMMA NothingMoves ==
    ASSUME \A r \in Request : PhaseOf'[r] = PhaseOf[r] /\ WorkOf'[r] = WorkOf[r]
    PROVE  UNCHANGED <<PhaseOf, WorkOf>>
BY DEF PhaseOf, WorkOf

LEMMA HubSimulates ==
    ASSUME ContractInv, TypeOK', HubStep, UNCHANGED reqVars
    PROVE  [Contract!Next]_<<PhaseOf, WorkOf>>
<1>0. TypeOK /\ OneCopy /\ EndsTold
  BY DEF ContractInv
<1>1. \A r \in Request : UNCHANGED Locals(r)
  BY DEF Locals, reqVars
<1>2. ASSUME \A r \in Request : Same(r)
      PROVE  UNCHANGED <<PhaseOf, WorkOf>>
  BY <1>1, <1>2, Still, NothingMoves
<1>3. ASSUME NEW q \in Request, \A r \in Request \ {q} : Same(r)
      PROVE  UNCHANGED PhaseOf /\ WorkOf' = [WorkOf EXCEPT ![q] = WorkOf'[q]]
  <2>1. \A r \in Request \ {q} : PhaseOf'[r] = PhaseOf[r] /\ WorkOf'[r] = WorkOf[r]
    BY <1>1, <1>3, Still
  <2>2. UNCHANGED PhaseOf
    BY <1>1, Still DEF PhaseOf
  <2> QED
    BY <2>1, <2>2, OneMoves
<1>4. \A r \in Request : NeverSent(r) => ~Queued(r) /\ ~Running(r)
  BY <1>0 DEF EndsTold
<1>5. \A r \in Request : NeverSent(r)' <=> NeverSent(r)
  BY <1>1, Still
<1>6. ASSUME NEW c \in Conn, Pump(c), NEW q \in Request, ~Same(q)
      PROVE  Contract!Next
  <2>1. /\ AtPlace(c, 1, q)
        /\ Queued(q) /\ ~Running(q) /\ ~Queued(q)' /\ Running(q)'
    BY <1>0, <1>6, PumpWork
  <2>2. ASSUME NEW r \in Request \ {q} PROVE Same(r)
    <3>1. ~AtPlace(c, 1, r)
      BY <2>1 DEF AtPlace
    <3> QED
      BY <1>0, <1>6, <3>1, PumpWork
  <2>3. WorkOf[q] = "queued" /\ WorkOf'[q] = "running"
    BY <1>4, <1>5, <2>1 DEF WorkOf
  <2>4. Contract!StartWork(q)
    BY <1>3, <2>2, <2>3 DEF Contract!StartWork
  <2> QED
    BY <2>4 DEF Contract!Next
<1>7. ASSUME NEW c \in Conn, NEW q \in Request, NEW e \in Terminal,
             ReadTerminal(c, q, e)
      PROVE  Contract!Next
  <2>1. ~Queued(q) /\ Running(q) /\ ~Queued(q)' /\ ~Running(q)'
    BY <1>0, <1>7, EndWork
  <2>2. \A r \in Request \ {q} : Same(r)
    BY <1>0, <1>7, EndWork
  <2>3. WorkOf[q] = "running" /\ WorkOf'[q] = "over"
    BY <1>4, <1>5, <2>1 DEF WorkOf
  <2>4. Contract!EndWork(q)
    BY <1>3, <2>2, <2>3 DEF Contract!EndWork
  <2> QED
    BY <2>4 DEF Contract!Next
<1>8. CASE UNCHANGED <<outbox, jobs>>
  BY <1>2, <1>8, SameIs
<1> QED
  BY <1>2, <1>6, <1>7, <1>8, HubWork

LEMMA GatewaySimulates ==
    ASSUME ContractInv, TypeOK', LocalsOK', NEW q \in Request,
           GatewayStep(q) \/ CallerStep(q) \/ Timeout(q)
    PROVE  [Contract!Next]_<<PhaseOf, WorkOf>>
<1>0. TypeOK /\ EndsTold /\ LocalOK(q)
  BY DEF ContractInv, LocalsOK
<1>1. \A r \in Request \ {q} : PhaseOf'[r] = PhaseOf[r] /\ WorkOf'[r] = WorkOf[r]
  <2> SUFFICES ASSUME NEW r \in Request \ {q}
               PROVE  PhaseOf'[r] = PhaseOf[r] /\ WorkOf'[r] = WorkOf[r]
    OBVIOUS
  <2>1. UNCHANGED Locals(r)
    BY <1>0, OthersKept DEF Locals
  <2>2. Same(r)
    BY <1>0, GatewayWork
  <2> QED
    BY <2>1, <2>2, Still
<1>2. /\ PhaseOf' = [PhaseOf EXCEPT ![q] = PhaseOf'[q]]
      /\ WorkOf' = [WorkOf EXCEPT ![q] = WorkOf'[q]]
  BY <1>1, OneMoves
<1>3. /\ PhaseOf[q] = PhaseAt(gpc[q], answer[q])
      /\ PhaseOf'[q] = PhaseAt(gpc'[q], answer'[q])
  BY DEF PhaseOf
<1>4. \/ Same(q) /\ ~SendEnqueue(q)
      \/ SendEnqueue(q) /\ Queued(q)' /\ (Running(q)' <=> Running(q))
  BY <1>0, GatewayWork
<1>5. ASSUME Same(q), NeverSent(q)' <=> NeverSent(q)
      PROVE  UNCHANGED WorkOf
  <2>1. WorkOf'[q] = WorkOf[q]
    BY <1>5 DEF WorkOf, Same
  <2> QED
    BY <1>2, <2>1 DEF WorkOf
<1>6. ASSUME PhaseOf'[q] = PhaseOf[q], UNCHANGED WorkOf
      PROVE  UNCHANGED <<PhaseOf, WorkOf>>
  BY <1>1, <1>6, NothingMoves
<1>7. CASE SendEnqueue(q)
  <2>1. /\ gpc[q] = "sending" /\ gpc'[q] \in Waiting
        /\ answer[q] = "none" /\ answer'[q] = "none"
    BY <1>0, <1>7 DEF SendEnqueue, AfterWrite, Waiting, LocalOK, TypeOK, ReqTypeOK
  <2>2. NeverSent(q) /\ ~NeverSent(q)'
    BY <2>1 DEF NeverSent, Waiting
  <2>3. Queued(q)'
    BY <1>4, <1>7
  <2>4. WorkOf'[q] = "queued"
    BY <2>2, <2>3 DEF WorkOf
  <2>5. PhaseOf[q] = "open" /\ PhaseOf'[q] = "sent"
    BY <1>3, <2>1, PhaseValues DEF Waiting
  <2>6. Contract!HandOver(q)
    BY <1>2, <2>4, <2>5 DEF Contract!HandOver, Contract!Move
  <2> QED
    BY <2>6 DEF Contract!Next
<1>8. CASE Complete(q)
  <2>1. /\ gpc[q] = "waiting" /\ answer[q] = "none"
        /\ gpc'[q] \in Over /\ answer'[q] = "ok"
        /\ events[q] # << >> /\ Head(events[q]) = "complete"
    BY <1>0, <1>8 DEF Complete, EndWith, Finish, HoldAnswer, Over, LocalOK, TypeOK,
                      ReqTypeOK
  <2>2. ~NeverSent(q) /\ ~NeverSent(q)'
    BY <2>1 DEF NeverSent, Over
  <2>3. Completed(q)
    <3>1. events[q] \in Seq(Event)
      BY <1>0 DEF TypeOK, RouterTypeOK
    <3>2. events[q][1] = "complete" /\ 1 \in 1..Len(events[q])
      BY <2>1, <3>1, HeadTailProperties, LenProperties, EmptySeq
    <3> QED
      BY <3>2 DEF Completed
  <2>4. WorkOf[q] = "over"
    BY <1>0, <2>2, <2>3 DEF EndsTold, WorkOf
  <2>5. Same(q)
    BY <1>4, <2>1 DEF SendEnqueue
  <2>6. UNCHANGED WorkOf
    BY <1>5, <2>2, <2>5
  <2>7. PhaseOf[q] = "sent" /\ PhaseOf'[q] = "ok"
    BY <1>3, <2>1, PhaseValues
  <2>8. Contract!Succeed(q)
    BY <1>2, <2>4, <2>6, <2>7 DEF Contract!Succeed, Contract!Move
  <2> QED
    BY <2>8 DEF Contract!Next
<1>9. CASE ~SendEnqueue(q) /\ ~Complete(q)
  <2>1. Same(q)
    BY <1>4, <1>9
  <2> DEFINE Ends(from, a) == /\ gpc[q] \in from /\ gpc'[q] \in Over
                             /\ answer[q] = "none" /\ answer'[q] = a
             Refused(a) == /\ gpc[q] \in {"idle", "created", "sending"}
                           /\ gpc'[q] = "done"
                           /\ answer[q] = "none" /\ answer'[q] = a
  <2>2. \/ UNCHANGED Locals(q)
        \/ gpc[q] = "idle" /\ gpc'[q] = "created" /\ UNCHANGED answer[q]
        \/ gpc[q] = "created" /\ gpc'[q] = "sending" /\ UNCHANGED answer[q]
        \/ /\ gpc[q] \in Waiting /\ UNCHANGED answer[q]
           /\ gpc'[q] \in {"waiting", "writing", "cancelling"}
        \/ /\ gpc[q] = "cancelling" /\ UNCHANGED answer[q]
           /\ gpc'[q] = "sendingCancel"
        \/ Refused("unavailable")
        \/ Refused("bad_gateway")
        \/ Ends({"sending"}, "aborted") /\ status'[q] = "completed"
        \/ Ends({"sendingCancel"}, "aborted") /\ status'[q] # "completed"
        \/ Ends({"waiting"}, "error")
        \/ Ends({"cancelling", "sendingCancel"}, "timeout")
        \/ Ends({"cancelling", "sendingCancel"}, "left")
        \/ /\ gpc[q] = "answering" /\ gpc'[q] = "done"
           /\ UNCHANGED <<answer[q], status[q]>>
    BY <1>0, <1>9, WaysThrough DEF Locals, LocalOK, Over, Waiting
  <2>3. gpc[q] \notin Over => answer[q] = "none"
    BY <1>0 DEF LocalOK, Over
  <2>4. NeverSent(q)' <=> NeverSent(q)
    BY <2>2, <2>3 DEF Locals, NeverSent, Over, Waiting
  <2>5. UNCHANGED WorkOf
    BY <1>5, <2>1, <2>4
  <2>6. ASSUME PhaseAt(gpc'[q], answer'[q]) = PhaseAt(gpc[q], answer[q])
        PROVE  UNCHANGED <<PhaseOf, WorkOf>>
    BY <1>3, <1>6, <2>5, <2>6
  <2>7. ASSUME \/ PhaseOf[q] = "new" /\ PhaseOf'[q] = "open"
               \/ PhaseOf[q] \in {"new", "open"} /\ PhaseOf'[q] = "refused"
               \/ PhaseOf[q] = "sent" /\ PhaseOf'[q] \in {"error", "given_up"}
               \/ PhaseOf[q] \in {"open", "sent"} /\ PhaseOf'[q] = "aborted"
        PROVE  Contract!Next
    BY <1>2, <2>5, <2>7
       DEF Contract!Next, Contract!Move, Contract!Accept, Contract!Refuse,
           Contract!Fail, Contract!GiveUp, Contract!Abort
  <2>8. \/ PhaseAt(gpc'[q], answer'[q]) = PhaseAt(gpc[q], answer[q])
        \/ PhaseOf[q] = "new" /\ PhaseOf'[q] = "open"
        \/ PhaseOf[q] \in {"new", "open"} /\ PhaseOf'[q] = "refused"
        \/ PhaseOf[q] = "sent" /\ PhaseOf'[q] \in {"error", "given_up"}
        \/ PhaseOf[q] \in {"open", "sent"} /\ PhaseOf'[q] = "aborted"
    BY <1>3, <2>2, PhaseValues DEF Locals, Waiting
  <2> QED
    BY <2>6, <2>7, <2>8
<1> QED
  BY <1>7, <1>8, <1>9

(***************************************************************************)
(* The request path implements RequestContract, for any number of nodes,   *)
(* connections and requests and any environment: whatever fails, a request *)
(* is handed over at most once, one refused is never worked on, and one    *)
(* that succeeds was worked to its end.                                    *)
(***************************************************************************)
THEOREM DispatchRefines == Spec => ImplementsContract
<1>1. Init => Contract!Init
  <2> SUFFICES ASSUME Init PROVE Contract!Init
    OBVIOUS
  <2>1. \A r \in Request : gpc[r] = "idle"
    BY DEF Init
  <2>2. \A r \in Request : PhaseAt(gpc[r], answer[r]) = "new"
    BY <2>1, PhaseValues
  <2> QED
    BY <2>1, <2>2 DEF Contract!Init, PhaseOf, WorkOf, NeverSent
<1>2. ContractInv /\ [Next]_vars => [Contract!Next]_<<PhaseOf, WorkOf>>
  <2> SUFFICES ASSUME ContractInv, [Next]_vars
               PROVE  [Contract!Next]_<<PhaseOf, WorkOf>>
    OBVIOUS
  <2>1. ContractInv'
    BY ContractInvStep
  <2>2. TypeOK' /\ LocalsOK'
    BY <2>1 DEF ContractInv
  <2>3. CASE UNCHANGED vars
    BY <2>3, SameIs, Still, NothingMoves DEF vars, hubVars, chanVars, reqVars, Locals
  <2> QED
    BY <2>2, <2>3, HubSimulates, GatewaySimulates DEF Next
<1> QED
  BY <1>1, <1>2, ContractInit, ContractInvStep, PTL
     DEF Spec, ImplementsContract, Contract!Spec

(***************************************************************************)
(* What a caller may rely on, from the contract.                           *)
(***************************************************************************)
Ended == {"ok", "error", "refused", "given_up", "aborted"}

\* A provider takes a request up once and ends it once, and the answer its
\* caller has got stays as it is.
DoneOnce ==
    \A r \in Request :
        /\ WorkOf[r] = "running" => WorkOf'[r] \in {"running", "over"}
        /\ WorkOf[r] = "over" => WorkOf'[r] = "over"
        /\ PhaseOf[r] \in Ended => PhaseOf'[r] = PhaseOf[r]

\* A request is in one queue or at one provider at most; one that was refused
\* is in none and at none, and one that has succeeded no longer is.
WorkIsAccounted ==
    \A r \in Request :
        /\ \A m, n \in Node : r \in jobs[m] \cap jobs[n] => m = n
        /\ ~(Queued(r) /\ Running(r))
        /\ answer[r] \in {"unavailable", "bad_gateway", "ok"}
              => ~Queued(r) /\ ~Running(r)

\* What the contract keeps: the work of a request begins when it is sent, and
\* is over when it has succeeded.
PhaseAndWork ==
    \A r \in Request :
        /\ PhaseOf[r] \in {"new", "open", "refused"} => WorkOf[r] = "none"
        /\ PhaseOf[r] = "ok" => WorkOf[r] = "over"

LEMMA ContractMoves ==
    ASSUME PhaseAndWork, [Contract!Next]_<<PhaseOf, WorkOf>>
    PROVE  DoneOnce /\ PhaseAndWork'
<1> DEFINE p == PhaseOf
           w == WorkOf
<1>1. DOMAIN p = Request /\ DOMAIN w = Request
  BY DEF PhaseOf, WorkOf
<1>2. /\ \A r \in Request :
            /\ p[r] \in {"new", "open", "refused"} => w[r] = "none"
            /\ p[r] = "ok" => w[r] = "over"
      /\ DoneOnce <=> \A r \in Request :
            /\ w[r] = "running" => w'[r] \in {"running", "over"}
            /\ w[r] = "over" => w'[r] = "over"
            /\ p[r] \in Ended => p'[r] = p[r]
      /\ PhaseAndWork' <=> \A r \in Request :
            /\ p'[r] \in {"new", "open", "refused"} => w'[r] = "none"
            /\ p'[r] = "ok" => w'[r] = "over"
  BY DEF PhaseAndWork, DoneOnce
<1>3. \/ p' = p /\ w' = w
      \/ \E q \in Request :
           \/ /\ p[q] = "new" /\ w' = w
              /\ p' = [p EXCEPT ![q] = "open"]
           \/ /\ p[q] \in {"new", "open"} /\ w' = w
              /\ p' = [p EXCEPT ![q] = "refused"]
           \/ /\ p[q] = "open" /\ p' = [p EXCEPT ![q] = "sent"]
              /\ w' = [w EXCEPT ![q] = "queued"]
           \/ /\ p[q] = "sent" /\ w[q] = "over" /\ w' = w
              /\ p' = [p EXCEPT ![q] = "ok"]
           \/ /\ p[q] \in {"open", "sent"} /\ w' = w
              /\ \E to \in {"error", "given_up", "aborted"} :
                    p' = [p EXCEPT ![q] = to]
           \/ /\ w[q] = "queued" /\ p' = p
              /\ w' = [w EXCEPT ![q] = "running"]
           \/ /\ w[q] = "running" /\ p' = p
              /\ w' = [w EXCEPT ![q] = "over"]
  <2>1. CASE UNCHANGED <<PhaseOf, WorkOf>>
    BY <2>1, Zenon
  <2>2. CASE Contract!Next
    <3>1. PICK q \in Request :
            \/ Contract!Accept(q) \/ Contract!Refuse(q) \/ Contract!HandOver(q)
            \/ Contract!Succeed(q) \/ Contract!Fail(q) \/ Contract!GiveUp(q)
            \/ Contract!Abort(q) \/ Contract!StartWork(q) \/ Contract!EndWork(q)
      BY <2>2, Zenon DEF Contract!Next
    <3>2. /\ Contract!Accept(q) =>
               p[q] = "new" /\ w' = w /\ p' = [p EXCEPT ![q] = "open"]
          /\ Contract!Refuse(q) =>
               /\ p[q] \in {"new", "open"} /\ w' = w
               /\ p' = [p EXCEPT ![q] = "refused"]
          /\ Contract!HandOver(q) =>
               /\ p[q] = "open" /\ p' = [p EXCEPT ![q] = "sent"]
               /\ w' = [w EXCEPT ![q] = "queued"]
          /\ Contract!Succeed(q) =>
               /\ p[q] = "sent" /\ w[q] = "over" /\ w' = w
               /\ p' = [p EXCEPT ![q] = "ok"]
          /\ Contract!Fail(q) \/ Contract!GiveUp(q) \/ Contract!Abort(q) =>
               /\ p[q] \in {"open", "sent"} /\ w' = w
               /\ \E to \in {"error", "given_up", "aborted"} :
                     p' = [p EXCEPT ![q] = to]
          /\ Contract!StartWork(q) =>
               w[q] = "queued" /\ p' = p /\ w' = [w EXCEPT ![q] = "running"]
          /\ Contract!EndWork(q) =>
               w[q] = "running" /\ p' = p /\ w' = [w EXCEPT ![q] = "over"]
      BY Zenon DEF Contract!Accept, Contract!Refuse, Contract!HandOver,
           Contract!Succeed, Contract!Fail, Contract!GiveUp, Contract!Abort,
           Contract!StartWork, Contract!EndWork, Contract!Move
    <3> HIDE DEF p, w
    <3> QED
      BY <3>1, <3>2, Zenon
  <2> QED
    BY <2>1, <2>2
<1> HIDE DEF p, w
<1> QED
  BY <1>1, <1>2, <1>3 DEF Ended

\* A provider is given a request once and ends it once, and its caller has one
\* answer: no step of the coordinator takes either back.
THEOREM WorkedOnOnce == Spec => [][DoneOnce]_vars
<1>1. Contract!Init => PhaseAndWork
  BY DEF Contract!Init, PhaseAndWork
<1>2. PhaseAndWork /\ [Contract!Next]_<<PhaseOf, WorkOf>>
      => DoneOnce /\ PhaseAndWork'
  BY ContractMoves
<1> QED
  BY <1>1, <1>2, DispatchRefines, PTL DEF ImplementsContract, Contract!Spec

\* Wherever providers and connections fail, a request is worked on in one place
\* at most, and in none once its caller was told that it was not or that it is
\* done.
THEOREM NoWorkIsLeft == Spec => []WorkIsAccounted
<1>1. Contract!Init => PhaseAndWork
  BY DEF Contract!Init, PhaseAndWork
<1>2. PhaseAndWork /\ [Contract!Next]_<<PhaseOf, WorkOf>> => PhaseAndWork'
  BY ContractMoves
<1>3. ContractInv /\ PhaseAndWork => WorkIsAccounted
  <2> SUFFICES ASSUME ContractInv, PhaseAndWork, NEW r \in Request,
                      answer[r] \in {"unavailable", "bad_gateway", "ok"}
               PROVE  ~Queued(r) /\ ~Running(r)
    BY DEF WorkIsAccounted, ContractInv, OneCopy
  <2>1. CASE NeverSent(r)
    BY <2>1 DEF ContractInv, EndsTold
  <2>2. CASE ~NeverSent(r)
    <3>1. gpc[r] \in Over /\ answer[r] = "ok"
      BY <2>2 DEF NeverSent, Over, ContractInv, LocalsOK, LocalOK
    <3>2. WorkOf[r] = "over"
      BY <3>1, PhaseValues DEF PhaseAndWork, PhaseOf
    <3> QED
      BY <2>2, <3>2 DEF WorkOf
  <2> QED
    BY <2>1, <2>2
<1> QED
  BY <1>1, <1>2, <1>3, DispatchRefines, ContractInit, ContractInvStep, PTL
     DEF Spec, ImplementsContract, Contract!Spec
=============================================================================
