---------------------------- MODULE OrderlyProofs ----------------------------
(***************************************************************************)
(* Theorems about orderly providers: ones that never fall silent (no node  *)
(* is ever swept), then ones that in addition never overtake their own     *)
(* teardown and whose clients keep up.                                     *)
(***************************************************************************)
EXTENDS DispatchProofs

(***************************************************************************)
(* What the registry's operations do to ages and to presence.              *)
(***************************************************************************)
LEMMA RegistryEffects ==
    ASSUME RegTypeOK, NEW n \in Node
    PROVE  /\ \A models \in SUBSET Model : Register(n, models) =>
                 \A m \in Node : IF m = n
                    THEN nodes'[m].age = 0 /\ nodes'[m].present
                    ELSE nodes'[m] = nodes[m]
           /\ \A q \in Nat : Heartbeat(n, q) =>
                 \A m \in Node : /\ nodes'[m].age \in {0, nodes[m].age}
                                 /\ nodes'[m].present = nodes[m].present
           /\ Unregister(n) =>
                 \A m \in Node : IF m = n
                    THEN nodes'[m].age = 0 /\ ~nodes'[m].present
                    ELSE nodes'[m] = nodes[m]
           /\ \A est \in Nat : Reserve(n, est) =>
                 \A m \in Node : /\ nodes'[m].age = nodes[m].age
                                 /\ nodes'[m].present = nodes[m].present
<1> DEFINE x == nodes[n]
<1>1. nodes \in [Node -> NodeRec] /\ x \in NodeRec
  BY DEF RegTypeOK
<1>2. ASSUME NEW models \in SUBSET Model, Register(n, models), NEW m \in Node
      PROVE  IF m = n THEN nodes'[m].age = 0 /\ nodes'[m].present
                      ELSE nodes'[m] = nodes[m]
  <2> DEFINE y == [x EXCEPT !.present = TRUE, !.models = models, !.age = 0]
  <2>1. nodes' = [nodes EXCEPT ![n] = y]
    BY <1>2, Zenon DEF Register
  <2>2. y.age = 0 /\ y.present
    <3> DEFINE x1 == [x EXCEPT !.present = TRUE]
               x2 == [x1 EXCEPT !.models = models]
    <3>1. x1 \in NodeRec /\ x1.present
      BY <1>1, FieldTypes DEF NodeRec
    <3>2. x2 \in NodeRec /\ x2.present
      <4> HIDE DEF x1
      <4> QED
        BY <3>1, FieldTypes DEF NodeRec
    <3>3. [x2 EXCEPT !.age = 0].age = 0 /\ [x2 EXCEPT !.age = 0].present
      <4> HIDE DEF x2
      <4> QED
        BY <3>2 DEF NodeRec
    <3> QED
      BY <3>3, Zenon
  <2> HIDE DEF y
  <2> QED
    BY <1>1, <2>1, <2>2
<1>3. ASSUME NEW q \in Nat, Heartbeat(n, q), NEW m \in Node
      PROVE  /\ nodes'[m].age \in {0, nodes[m].age}
             /\ nodes'[m].present = nodes[m].present
  <2> DEFINE depth == IF x.depth = 0 /\ q > x.depth THEN q ELSE x.depth
             y == [x EXCEPT !.age = 0, !.depth = depth]
  <2>1. nodes' = IF nodes[n].present THEN [nodes EXCEPT ![n] = y] ELSE nodes
    BY <1>3, Zenon DEF Heartbeat
  <2>2. y.age = 0 /\ y.present = x.present
    <3> DEFINE x1 == [x EXCEPT !.age = 0]
    <3>0. 0 \in 0..(StaleAfter + 1)
      BY TicksAssumption
    <3>1. x1 \in NodeRec /\ x1.age = 0 /\ x1.present = x.present
      BY <1>1, <3>0, FieldTypes DEF NodeRec
    <3>2. /\ [x1 EXCEPT !.depth = depth].age = 0
          /\ [x1 EXCEPT !.depth = depth].present = x.present
      <4> HIDE DEF x1, depth
      <4> QED
        BY <3>1 DEF NodeRec
    <3> QED
      BY <3>2, Zenon
  <2> HIDE DEF y
  <2> QED
    BY <1>1, <2>1, <2>2
<1>4. ASSUME Unregister(n), NEW m \in Node
      PROVE  IF m = n THEN nodes'[m].age = 0 /\ ~nodes'[m].present
                      ELSE nodes'[m] = nodes[m]
  BY <1>1, <1>4 DEF Unregister, Absent
<1>5. ASSUME NEW est \in Nat, Reserve(n, est), NEW m \in Node
      PROVE  /\ nodes'[m].age = nodes[m].age
             /\ nodes'[m].present = nodes[m].present
  <2> DEFINE depth == x.depth + 1
             tokens == x.tokens + est
             y == [x EXCEPT !.depth = depth, !.tokens = tokens]
  <2>1. nodes' = [nodes EXCEPT ![n] = y]
    BY <1>5, Zenon DEF Reserve
  <2>2. y.age = x.age /\ y.present = x.present
    <3> DEFINE x1 == [x EXCEPT !.depth = depth]
    <3>1. depth \in Nat
      BY <1>1 DEF NodeRec
    <3>2. x1 \in NodeRec /\ x1.age = x.age /\ x1.present = x.present
      <4> HIDE DEF depth
      <4> QED
        BY <1>1, <3>1, FieldTypes DEF NodeRec
    <3>3. /\ [x1 EXCEPT !.tokens = tokens].age = x.age
          /\ [x1 EXCEPT !.tokens = tokens].present = x.present
      <4> HIDE DEF x1, tokens
      <4> QED
        BY <3>2 DEF NodeRec
    <3> QED
      BY <3>3, Zenon
  <2> HIDE DEF y
  <2> QED
    BY <1>1, <2>1, <2>2
<1> QED
  BY <1>2, <1>3, <1>4, <1>5

\* The gateway changes neither ages nor presence.
LEMMA GatewayKeepsTable ==
    ASSUME TypeOK, NEW r \in Request,
           GatewayStep(r) \/ CallerStep(r) \/ Timeout(r)
    PROVE  \A m \in Node : /\ nodes'[m].age = nodes[m].age
                           /\ nodes'[m].present = nodes[m].present
<1>1. CASE ReserveNode(r)
  <2>1. PICK est \in Nat, n \in Node : Reserve(n, est)
    BY <1>1, ChargeAssumption DEF ReserveNode, Cheapest, Eligible
  <2> QED
    BY <2>1, RegistryEffects DEF TypeOK
<1>2. CASE ~ReserveNode(r)
  <2>1. nodes' = nodes
    BY <1>2 DEF GatewayStep, CallerStep, SendLookup, SendNoConn, SendEnqueue,
                SendQueueFull, SendPanics, RelayChunk, Complete, Fail, EndWith,
                Timeout, CallerLeaves, GiveUp, CancelLookup, CancelNoConn,
                CancelEnqueue, NoProvider, Written, Answered, hubVars
  <2> QED
    BY <2>1
<1> QED
  BY <1>1, <1>2

-----------------------------------------------------------------------------
(* No silent provider: every channel is closed once.                       *)

LEMMA SweeperIdle ==
    ASSUME ~Silence, TypeOK, NeverSwept
    PROVE  ~SweeperStep /\ ~\E n \in Node : PassTime(n)
<1>1. StaleNodes = {}
  BY TicksAssumption DEF StaleNodes, Stale, NeverSwept
<1> QED
  BY <1>1, HubAssumption DEF SweeperStep, SweepTick, CloseNodeClose,
     CloseNodePanics, CloseNodeLookup, PassTime, NeverSwept, TypeOK, HubTypeOK

LEMMA NeverSweptStep ==
    ASSUME ~Silence, TypeOK, NeverSwept, [Next]_vars
    PROVE  NeverSwept'
<1> USE TicksAssumption
<1>1. ASSUME \A n \in Node : nodes'[n].age \in {0, nodes[n].age},
             UNCHANGED <<toClose, victim>>
      PROVE  NeverSwept'
  BY <1>1 DEF NeverSwept
<1>2. ASSUME NEW c \in Conn, HandlerStep(c)
      PROVE  NeverSwept'
  <2>1. CASE UnregisterWS(c)
    <3>1. NodeOf[c] \in Node /\ Unregister(NodeOf[c])
      BY <2>1, HubAssumption DEF UnregisterWS
    <3>2. \A n \in Node : nodes'[n].age \in {0, nodes[n].age}
      BY <3>1, RegistryEffects DEF TypeOK
    <3> QED
      BY <1>1, <2>1, <3>2 DEF UnregisterWS, sweepVars
  <2>2. CASE ~UnregisterWS(c)
    BY <1>1, <1>2, <2>2 DEF HandlerStep, Attach, DeliverTerminal, Detach,
         CloseOut, CloseOutPanics, FailOrphan, ReturnWS, sweepVars
  <2> QED
    BY <2>1, <2>2
<1>3. ASSUME NEW c \in Conn, PeerStep(c)
      PROVE  NeverSwept'
  <2>1. CASE RegisterWS(c)
    <3>1. NodeOf[c] \in Node /\ Register(NodeOf[c], Model)
      BY <2>1, HubAssumption DEF RegisterWS
    <3>2. \A n \in Node : nodes'[n].age \in {0, nodes[n].age}
      BY <3>1, RegistryEffects DEF TypeOK
    <3> QED
      BY <1>1, <2>1, <3>2 DEF RegisterWS, sweepVars
  <2>2. CASE ReadHeartbeat(c)
    <3>1. PICK q \in 0..Cardinality(jobs[NodeOf[c]]) : Heartbeat(NodeOf[c], q)
      BY <2>2 DEF ReadHeartbeat
    <3>2. NodeOf[c] \in Node /\ q \in Nat
      BY HubAssumption
    <3>3. \A n \in Node : nodes'[n].age \in {0, nodes[n].age}
      BY <3>1, <3>2, RegistryEffects DEF TypeOK
    <3> QED
      BY <1>1, <2>2, <3>3 DEF ReadHeartbeat, sweepVars
  <2>3. CASE ~RegisterWS(c) /\ ~ReadHeartbeat(c)
    BY <1>1, <1>3, <2>3 DEF PeerStep, Drop, FallSilent, Wake, RefuseWS, Pump,
         ReadChunk, ReadTerminal, sweepVars
  <2> QED
    BY <2>1, <2>2, <2>3
<1>4. ~SweeperStep /\ ~\E n \in Node : PassTime(n)
  BY SweeperIdle
<1>5. ASSUME NEW r \in Request, GatewayStep(r) \/ CallerStep(r) \/ Timeout(r)
      PROVE  NeverSwept'
  BY <1>1, <1>5, GatewayKeepsTable, GatewayFrame DEF sweepVars
<1>6. CASE UNCHANGED vars
  BY <1>1, <1>6 DEF vars, hubVars, sweepVars
<1> QED
  BY <1>2, <1>3, <1>4, <1>5, <1>6 DEF Next, HubStep

LEMMA ClosedOnceStep ==
    ASSUME ~Silence, TypeOK, ConnsLive, NeverSwept, ClosedOnce, [Next]_vars
    PROVE  ClosedOnce'
<1> USE HubAssumption
<1>1. ASSUME UNCHANGED <<wsPc, conns, taken, outClosed>> PROVE ClosedOnce'
  BY <1>1 DEF ClosedOnce, OutOfReach
<1>2. /\ wsPc \in [Conn -> WsPc] /\ taken \in [Conn -> Conn \cup {None}]
      /\ conns \in [Node -> Conn \cup {None}] /\ outClosed \subseteq Conn
  BY DEF TypeOK, HubTypeOK
<1>3. ASSUME NEW c \in Conn, HandlerStep(c)
      PROVE  ClosedOnce'
  <2>1. CASE Attach(c)
    BY <1>2, <2>1 DEF Attach, ClosedOnce, OutOfReach, chanVars
  <2>2. CASE DeliverTerminal(c)
    BY <1>2, <2>2 DEF DeliverTerminal, ClosedOnce, OutOfReach, mapVars, chanVars
  <2>3. CASE UnregisterWS(c)
    BY <1>2, <2>3 DEF UnregisterWS, ClosedOnce, OutOfReach, mapVars, chanVars
  <2>4. CASE Detach(c)
    BY <1>2, <2>4 DEF Detach, ClosedOnce, OutOfReach, chanVars, ConnsLive
  <2>5. CASE CloseOut(c)
    BY <1>2, <2>5 DEF CloseOut, ClosedOnce, OutOfReach, mapVars
  <2>6. CASE CloseOutPanics(c)
    BY <1>2, <2>6 DEF CloseOutPanics, ClosedOnce, OutOfReach, mapVars, chanVars
  <2>7. CASE \E r \in Request : FailOrphan(c, r)
    BY <1>1, <2>7 DEF FailOrphan, mapVars, chanVars
  <2>8. CASE ReturnWS(c)
    BY <1>2, <2>8 DEF ReturnWS, ClosedOnce, OutOfReach, mapVars, chanVars
  <2> QED
    BY <1>3, <2>1, <2>2, <2>3, <2>4, <2>5, <2>6, <2>7, <2>8 DEF HandlerStep
<1>4. ASSUME NEW c \in Conn, PeerStep(c)
      PROVE  ClosedOnce'
  <2>1. CASE RefuseWS(c)
    BY <1>2, <2>1 DEF RefuseWS, ClosedOnce, OutOfReach, mapVars, chanVars
  <2>2. CASE RegisterWS(c)
    BY <1>2, <2>2 DEF RegisterWS, ClosedOnce, OutOfReach, mapVars, chanVars
  <2>3. CASE \E r \in Request, e \in Terminal : ReadTerminal(c, r, e)
    BY <1>2, <2>3 DEF ReadTerminal, ClosedOnce, OutOfReach, chanVars
  <2>4. CASE \/ Drop(c) \/ FallSilent(c) \/ Wake(c) \/ Pump(c)
             \/ ReadHeartbeat(c) \/ \E r \in Request : ReadChunk(c, r)
    BY <1>1, <2>4 DEF Drop, FallSilent, Wake, Pump, ReadHeartbeat, ReadChunk,
                      wsVars, mapVars, chanVars
  <2> QED
    BY <1>4, <2>1, <2>2, <2>3, <2>4 DEF PeerStep
<1>5. ASSUME SweeperStep \/ \E n \in Node : PassTime(n)
      PROVE  ClosedOnce'
  <2>1. outClosed' = outClosed
    BY <1>5 DEF SweeperStep, SweepTick, CloseNodeLookup, CloseNodeClose,
                CloseNodePanics, PassTime, chanVars, NeverSwept
  <2> QED
    BY <1>1, <1>5, <2>1, SweeperFrame DEF wsVars, mapVars
<1>6. ASSUME NEW r \in Request, GatewayStep(r) \/ CallerStep(r) \/ Timeout(r)
      PROVE  ClosedOnce'
  BY <1>1, <1>6, GatewayFrame DEF wsVars
<1>7. CASE UNCHANGED vars
  BY <1>1, <1>7 DEF vars, hubVars, wsVars, mapVars, chanVars
<1> QED
  BY <1>3, <1>4, <1>5, <1>6, <1>7 DEF Next, HubStep

LEMMA TeardownInit == Init => TeardownInv
<1> SUFFICES ASSUME Init PROVE TeardownInv
  OBVIOUS
<1>1. TypeOK /\ ConnsLive
  BY TypeInit, ConnsLiveInit
<1>2. NeverSwept
  BY DEF Init, HubInit, RegInit, Absent, NeverSwept
<1>3. ClosedOnce
  BY DEF Init, HubInit, ClosedOnce
<1> QED
  BY <1>1, <1>2, <1>3 DEF TeardownInv

LEMMA TeardownStep == ~Silence /\ TeardownInv /\ [Next]_vars => TeardownInv'
BY TypeStep, ConnsLiveStep, NeverSweptStep, ClosedOnceStep DEF TeardownInv

(***************************************************************************)
(* As long as no provider falls silent, no disconnect ever finds its       *)
(* channel closed, however connections of a node overtake each other: the  *)
(* channel leaves Hub.conns under the lock before it is closed.            *)
(***************************************************************************)
THEOREM TeardownIsSafe ==
    ASSUME ~Silence
    PROVE  Spec => []TeardownNeverPanics
<1>1. TeardownInv => TeardownNeverPanics
  BY HubAssumption
     DEF TeardownInv, ClosedOnce, OutOfReach, TeardownNeverPanics, TypeOK, HubTypeOK
<1>2. TeardownInv /\ [Next]_vars => TeardownInv'
  BY TeardownStep
<1> QED
  BY TeardownInit, <1>1, <1>2, PTL DEF Spec

(***************************************************************************)
(* Nor does Send ever find a closed channel in Hub.conns.                  *)
(***************************************************************************)
THEOREM ListedConnsAreOpen ==
    ASSUME ~Silence
    PROVE  Spec => []ListedIsOpen
<1>1. TeardownInv => ListedIsOpen
  BY DEF TeardownInv, ClosedOnce, OutOfReach, ListedIsOpen, TypeOK, HubTypeOK
<1>2. TeardownInv /\ [Next]_vars => TeardownInv'
  BY TeardownStep
<1> QED
  BY TeardownInit, <1>1, <1>2, PTL DEF Spec

-----------------------------------------------------------------------------
(***************************************************************************)
(* Providers that do not redial before their last handler has returned     *)
(* either: one that is read from is listed, and with callers that keep up  *)
(* no request that waits is forgotten.                                     *)
(***************************************************************************)

(***************************************************************************)
(* A node has one handler at a time: only a registration makes one.        *)
(***************************************************************************)
LEMMA OneHandlerStep ==
    ASSUME ~Overlap, TypeOK, OneHandler, [Next]_vars
    PROVE  OneHandler'
<1> USE HubAssumption
<1>1. wsPc \in [Conn -> WsPc]
  BY DEF TypeOK, HubTypeOK
<1>2. ASSUME \A d \in Conn : wsPc'[d] \notin {"free", "gone"}
                               => wsPc[d] \notin {"free", "gone"}
      PROVE  OneHandler'
  BY <1>2 DEF OneHandler
<1>3. ASSUME NEW c \in Conn, HandlerStep(c)
      PROVE  OneHandler'
  BY <1>1, <1>2, <1>3 DEF HandlerStep, Attach, DeliverTerminal, UnregisterWS,
       Detach, CloseOut, CloseOutPanics, FailOrphan, ReturnWS
<1>4. ASSUME NEW c \in Conn, RegisterWS(c)
      PROVE  OneHandler'
  BY <1>1, <1>4 DEF RegisterWS, Siblings, OneHandler
<1>5. ASSUME NEW c \in Conn, PeerStep(c), ~RegisterWS(c)
      PROVE  OneHandler'
  BY <1>1, <1>2, <1>5 DEF PeerStep, Drop, FallSilent, Wake, RefuseWS, Pump,
       ReadHeartbeat, ReadChunk, ReadTerminal, wsVars
<1>6. ASSUME SweeperStep \/ \E n \in Node : PassTime(n)
      PROVE  OneHandler'
  BY <1>2, <1>6, SweeperFrame DEF wsVars
<1>7. ASSUME NEW r \in Request, GatewayStep(r) \/ CallerStep(r) \/ Timeout(r)
      PROVE  OneHandler'
  BY <1>2, <1>7, GatewayFrame DEF wsVars
<1>8. CASE UNCHANGED vars
  BY <1>2, <1>8 DEF vars, hubVars, wsVars
<1> QED
  BY <1>3, <1>4, <1>5, <1>6, <1>7, <1>8 DEF Next, HubStep

(***************************************************************************)
(* The registry's table and Hub.conns follow that handler.                 *)
(***************************************************************************)
LEMMA TablesFollowStep ==
    ASSUME ~Silence, TypeOK, NeverSwept, OneHandler, TablesFollow, [Next]_vars
    PROVE  TablesFollow'
<1> USE HubAssumption
<1>1. /\ wsPc \in [Conn -> WsPc]
      /\ conns \in [Node -> Conn \cup {None}]
  BY DEF TypeOK, HubTypeOK
<1>2. ASSUME \A n \in Node : nodes'[n].present = nodes[n].present,
             UNCHANGED <<wsPc, conns>>
      PROVE  TablesFollow'
  BY <1>2 DEF TablesFollow
<1>3. ASSUME NEW c \in Conn, HandlerStep(c)
      PROVE  TablesFollow'
  <2>1. CASE Attach(c)
    BY <1>1, <2>1 DEF Attach, TablesFollow, OneHandler
  <2>2. CASE DeliverTerminal(c)
    BY <1>1, <2>2 DEF DeliverTerminal, mapVars, TablesFollow
  <2>3. CASE UnregisterWS(c)
    <3>1. \A m \in Node : m # NodeOf[c] => nodes'[m] = nodes[m]
      BY <2>3, RegistryEffects DEF UnregisterWS, TypeOK
    <3> QED
      BY <1>1, <2>3, <3>1 DEF UnregisterWS, mapVars, TablesFollow, OneHandler
  <2>4. CASE Detach(c)
    BY <1>1, <2>4 DEF Detach, TablesFollow, OneHandler
  <2>5. CASE CloseOut(c) \/ CloseOutPanics(c) \/ ReturnWS(c)
    BY <1>1, <2>5
       DEF CloseOut, CloseOutPanics, ReturnWS, mapVars, TablesFollow
  <2>6. CASE \E r \in Request : FailOrphan(c, r)
    BY <1>2, <2>6 DEF FailOrphan, mapVars
  <2> QED
    BY <1>3, <2>1, <2>2, <2>3, <2>4, <2>5, <2>6 DEF HandlerStep
<1>4. ASSUME NEW c \in Conn, PeerStep(c)
      PROVE  TablesFollow'
  <2>1. CASE RegisterWS(c)
    <3>1. /\ nodes'[NodeOf[c]].present
          /\ \A m \in Node : m # NodeOf[c] => nodes'[m] = nodes[m]
      BY <2>1, RegistryEffects DEF RegisterWS, TypeOK
    <3> QED
      BY <1>1, <2>1, <3>1 DEF RegisterWS, mapVars, TablesFollow
  <2>2. CASE ReadHeartbeat(c)
    <3>1. PICK q \in Nat : Heartbeat(NodeOf[c], q)
      BY <2>2 DEF ReadHeartbeat
    <3>2. \A m \in Node : nodes'[m].present = nodes[m].present
      BY <3>1, RegistryEffects DEF TypeOK
    <3> QED
      BY <1>2, <2>2, <3>2 DEF ReadHeartbeat, wsVars, mapVars
  <2>3. CASE RefuseWS(c)
    BY <1>1, <2>3 DEF RefuseWS, mapVars, TablesFollow
  <2>4. CASE \E r \in Request, e \in Terminal : ReadTerminal(c, r, e)
    BY <1>1, <2>4 DEF ReadTerminal, TablesFollow
  <2>5. CASE \/ Drop(c) \/ FallSilent(c) \/ Wake(c) \/ Pump(c)
             \/ \E r \in Request : ReadChunk(c, r)
    BY <1>2, <2>5 DEF Drop, FallSilent, Wake, Pump, ReadChunk, wsVars, mapVars
  <2> QED
    BY <1>4, <2>1, <2>2, <2>3, <2>4, <2>5 DEF PeerStep
<1>5. ~SweeperStep /\ ~\E n \in Node : PassTime(n)
  BY SweeperIdle
<1>6. ASSUME NEW r \in Request, GatewayStep(r) \/ CallerStep(r) \/ Timeout(r)
      PROVE  TablesFollow'
  BY <1>2, <1>6, GatewayKeepsTable, GatewayFrame DEF wsVars
<1>7. CASE UNCHANGED vars
  BY <1>2, <1>7 DEF vars, hubVars, wsVars, mapVars
<1> QED
  BY <1>3, <1>4, <1>5, <1>6, <1>7 DEF Next, HubStep

ListedInv == TeardownInv /\ OneHandler /\ TablesFollow

LEMMA ListedInit == Init => ListedInv
<1>1. Init => OneHandler /\ TablesFollow
  BY HubAssumption DEF Init, HubInit, OneHandler, TablesFollow
<1> QED
  BY <1>1, TeardownInit DEF ListedInv

LEMMA ListedStep ==
    ~Silence /\ ~Overlap /\ ListedInv /\ [Next]_vars => ListedInv'
BY TeardownStep, OneHandlerStep, TablesFollowStep DEF ListedInv, TeardownInv

(***************************************************************************)
(* When providers neither fall silent nor overtake their own teardown, one *)
(* that is read from is in the registry and in Hub.conns: it can be chosen *)
(* and reached, through any number of disconnects and redials.             *)
(***************************************************************************)
THEOREM LiveConnsAreListed ==
    ASSUME ~Silence, ~Overlap
    PROVE  Spec => []LiveIsListed
<1>1. ListedInv => LiveIsListed
  BY DEF ListedInv, TablesFollow, LiveIsListed
<1>2. ListedInv /\ [Next]_vars => ListedInv'
  BY ListedStep
<1> QED
  BY ListedInit, <1>1, <1>2, PTL DEF Spec

-----------------------------------------------------------------------------
(***************************************************************************)
(* Event channels: a terminal event that was put in stays until the        *)
(* handler receives it, and there is room for the first one.               *)
(***************************************************************************)
LEMMA DeliverKeeps ==
    ASSUME RouterTypeOK, NEW q \in Request, NEW e \in Event, Deliver(q, e)
    PROVE  /\ \A r \in Request : HasTerminal(r) => HasTerminal(r)'
           /\ \A r \in Request : r # q => events'[r] = events[r]
           /\ (e \in Terminal /\ q \in routed /\ Len(events[q]) < EventCap)
                => HasTerminal(q)'
           /\ Len(events'[q]) <= Len(events[q]) + 1
<1>1. /\ events[q] \in Seq(Event) /\ Len(events[q]) \in Nat
      /\ Append(events[q], e) \in Seq(Event)
      /\ Len(Append(events[q], e)) = Len(events[q]) + 1
      /\ \A i \in 1..Len(events[q]) : Append(events[q], e)[i] = events[q][i]
      /\ Append(events[q], e)[Len(events[q]) + 1] = e
  BY AppendProperties, LenProperties DEF RouterTypeOK
<1>2. \A r \in Request : r # q => events'[r] = events[r]
  BY DEF Deliver, RouterTypeOK
<1>3. CASE events'[q] = events[q]
  <2>1. ~(q \in routed /\ Len(events[q]) < EventCap)
    BY <1>1, <1>3 DEF Deliver, RouterTypeOK
  <2> QED
    BY <1>1, <1>2, <1>3, <2>1 DEF HasTerminal
<1>4. CASE events'[q] = Append(events[q], e)
  <2>1. HasTerminal(q) => HasTerminal(q)'
    BY <1>1, <1>4 DEF HasTerminal
  <2>2. e \in Terminal => HasTerminal(q)'
    BY <1>1, <1>4 DEF HasTerminal
  <2>3. \A r \in Request : r # q => (HasTerminal(r) => HasTerminal(r)')
    BY <1>2 DEF HasTerminal
  <2>4. Len(events'[q]) <= Len(events[q]) + 1
    BY <1>1, <1>4
  <2> QED
    BY <1>2, <2>1, <2>2, <2>3, <2>4
<1> QED
  BY <1>3, <1>4 DEF Deliver, RouterTypeOK

LEMMA RelayKeeps ==
    ASSUME RouterTypeOK, NEW q \in Request, Receive(q),
           events[q] # << >>, Head(events[q]) = "chunk"
    PROVE  /\ \A r \in Request : HasTerminal(r) => HasTerminal(r)'
           /\ \A r \in Request : r # q => events'[r] = events[r]
           /\ Len(events'[q]) = Len(events[q]) - 1
<1>1. /\ events[q] \in Seq(Event) /\ Len(events[q]) \in Nat
      /\ Len(Tail(events[q])) = Len(events[q]) - 1
      /\ \A i \in 1..Len(Tail(events[q])) : Tail(events[q])[i] = events[q][i+1]
      /\ Head(events[q]) = events[q][1]
  BY HeadTailProperties, LenProperties DEF RouterTypeOK
<1>2. /\ events'[q] = Tail(events[q])
      /\ \A r \in Request : r # q => events'[r] = events[r]
  BY DEF Receive, RouterTypeOK
<1>3. HasTerminal(q) => HasTerminal(q)'
  <2> SUFFICES ASSUME NEW i \in 1..Len(events[q]), events[q][i] \in Terminal
               PROVE  HasTerminal(q)'
    BY DEF HasTerminal
  <2>1. i # 1
    BY <1>1 DEF Terminal
  <2>2. i - 1 \in 1..Len(Tail(events[q]))
    BY <1>1, <2>1
  <2>3. Tail(events[q])[i - 1] = events[q][i]
    BY <1>1, <2>2
  <2> QED
    BY <1>2, <2>2, <2>3 DEF HasTerminal
<1> QED
  BY <1>1, <1>2, <1>3 DEF HasTerminal

\* What the gateway does to the events of a request: it makes a new channel,
\* drops one, or receives a chunk.
LEMMA GatewayEvents ==
    ASSUME ~SlowClient, TypeOK, NEW q \in Request,
           GatewayStep(q) \/ CallerStep(q) \/ Timeout(q)
    PROVE  /\ \A r \in Request : r # q => events'[r] = events[r]
           /\ \/ events'[q] = << >>
              \/ UNCHANGED events
              \/ RelayChunk(q)
<1> USE DEF TypeOK, RouterTypeOK, ReqTypeOK, routerVars, hubVars
<1>1. ASSUME NEW s, NEW a, Finish(q, s, a)
      PROVE  /\ \A r \in Request : r # q => events'[r] = events[r]
             /\ events'[q] = << >>
  BY <1>1 DEF Finish, Resolve
<1>2. CASE \/ NoProvider(q) \/ SendNoConn(q) \/ SendQueueFull(q)
           \/ SendPanics(q) \/ Complete(q) \/ Fail(q) \/ CancelNoConn(q)
           \/ CancelEnqueue(q) \/ Answered(q)
  BY <1>1, <1>2 DEF NoProvider, SendNoConn, SendQueueFull, SendPanics, Aborted,
       Complete, Fail, EndWith, CancelNoConn, CancelEnqueue, GivenUp, HoldAnswer,
       Answered
<1>3. CASE ReserveNode(q)
  BY <1>3 DEF ReserveNode, Create
<1>4. CASE RelayChunk(q)
  BY <1>4, RelayKeeps DEF RelayChunk
<1>5. CASE \/ SendLookup(q) \/ SendEnqueue(q) \/ CancelLookup(q)
           \/ CallerLeaves(q) \/ Timeout(q) \/ Written(q)
  BY <1>5 DEF SendLookup, SendEnqueue, CancelLookup, CallerLeaves, Timeout,
       GiveUp, Written
<1> QED
  BY <1>2, <1>3, <1>4, <1>5 DEF GatewayStep, CallerStep

LEMMA RoomKeptStep ==
    ASSUME ~SlowClient, TypeOK, RoomKept, [Next]_vars
    PROVE  RoomKept'
<1>0. /\ EventCap \in Nat \ {0} /\ Terminal \subseteq Event
      /\ "chunk" \in Event /\ "error" \in Terminal
      /\ RouterTypeOK
      /\ \A r \in Request : Len(events[r]) \in Nat
  BY EventCapAssumption, LenProperties DEF Event, Terminal, TypeOK, RouterTypeOK
<1>1. ASSUME UNCHANGED events PROVE RoomKept'
  BY <1>1 DEF RoomKept, HasTerminal
<1>2. ASSUME NEW q \in Request, NEW e \in Terminal, Deliver(q, e)
      PROVE  RoomKept'
  <2>1. HasTerminal(q)' \/ Len(events'[q]) < EventCap
    <3>1. CASE HasTerminal(q)
      BY <1>0, <1>2, <3>1, DeliverKeeps
    <3>2. CASE q \in routed /\ Len(events[q]) < EventCap
      BY <1>0, <1>2, <3>2, DeliverKeeps
    <3>3. CASE q \notin routed /\ Len(events[q]) < EventCap
      BY <1>2, <3>3 DEF Deliver
    <3> QED
      BY <3>1, <3>2, <3>3 DEF RoomKept
  <2>2. \A r \in Request : r # q => events'[r] = events[r]
    BY <1>0, <1>2, DeliverKeeps
  <2> QED
    BY <2>1, <2>2 DEF RoomKept, HasTerminal
<1>3. ASSUME NEW c \in Conn, NEW q \in Request, ReadChunk(c, q)
      PROVE  RoomKept'
  <2>1. Deliver(q, "chunk") /\ Len(events[q]) + 1 < EventCap
    BY <1>3 DEF ReadChunk, RoomForTerminal
  <2>2. /\ \A r \in Request : r # q => events'[r] = events[r]
        /\ Len(events'[q]) <= Len(events[q]) + 1
    BY <1>0, <2>1, DeliverKeeps
  <2>3. Len(events'[q]) \in Nat
    BY <1>0, <2>1 DEF Deliver, RouterTypeOK
  <2>4. Len(events'[q]) < EventCap
    BY <1>0, <2>1, <2>2, <2>3
  <2> QED
    BY <2>2, <2>4 DEF RoomKept, HasTerminal
<1>4. ASSUME NEW c \in Conn, HandlerStep(c) PROVE RoomKept'
  <2>1. CASE DeliverTerminal(c)
    <3>1. arriving[c][1] \in Request /\ arriving[c][2] \in Terminal
      BY <2>1 DEF DeliverTerminal, TypeOK, HubTypeOK, Arrival
    <3> QED
      BY <1>2, <2>1, <3>1 DEF DeliverTerminal
  <2>2. CASE \E r \in Request : FailOrphan(c, r)
    BY <1>0, <1>2, <2>2 DEF FailOrphan
  <2>3. CASE \/ Attach(c) \/ UnregisterWS(c) \/ Detach(c) \/ CloseOut(c)
             \/ CloseOutPanics(c) \/ ReturnWS(c)
    BY <1>1, <2>3 DEF Attach, UnregisterWS, Detach, CloseOut, CloseOutPanics,
         ReturnWS, routerVars
  <2> QED
    BY <1>4, <2>1, <2>2, <2>3 DEF HandlerStep
<1>5. ASSUME NEW c \in Conn, PeerStep(c) PROVE RoomKept'
  <2>1. CASE \E r \in Request : ReadChunk(c, r)
    BY <1>3, <2>1
  <2>2. CASE ~\E r \in Request : ReadChunk(c, r)
    BY <1>1, <1>5, <2>2 DEF PeerStep, Drop, FallSilent, Wake, RefuseWS,
         RegisterWS, Pump, ReadHeartbeat, ReadTerminal, routerVars
  <2> QED
    BY <2>1, <2>2
<1>6. ASSUME SweeperStep \/ \E n \in Node : PassTime(n) PROVE RoomKept'
  BY <1>1, <1>6, SweeperFrame DEF routerVars
<1>7. ASSUME NEW q \in Request, GatewayStep(q) \/ CallerStep(q) \/ Timeout(q)
      PROVE  RoomKept'
  <2>1. CASE RelayChunk(q)
    <3>1. /\ \A r \in Request : HasTerminal(r) => HasTerminal(r)'
          /\ \A r \in Request : r # q => events'[r] = events[r]
          /\ Len(events'[q]) = Len(events[q]) - 1
      BY <1>0, <2>1, RelayKeeps DEF RelayChunk
    <3>2. Len(events[q]) < EventCap => Len(events'[q]) < EventCap
      BY <1>0, <3>1
    <3> QED
      BY <3>1, <3>2 DEF RoomKept
  <2>2. CASE events'[q] = << >>
    <3>1. Len(events'[q]) < EventCap
      BY <1>0, <2>2, EmptySeq
    <3>2. \A r \in Request : r # q => events'[r] = events[r]
      BY <1>7, GatewayEvents
    <3> QED
      BY <3>1, <3>2 DEF RoomKept, HasTerminal
  <2> QED
    BY <1>1, <1>7, <2>1, <2>2, GatewayEvents
<1>8. CASE UNCHANGED vars
  BY <1>1, <1>8 DEF vars, hubVars, routerVars
<1> QED
  BY <1>4, <1>5, <1>6, <1>7, <1>8 DEF Next, HubStep

-----------------------------------------------------------------------------
(***************************************************************************)
(* The ways in which the end of a request may be under way, and the one in *)
(* which it is still to come.                                              *)
(***************************************************************************)
Decoded(r) == \E c \in Conn : wsPc[c] = "delivering" /\ arriving[c][1] = r
Orphaned(r) == \E c \in Conn :
                  wsPc[c] \in {"detached", "failing"} /\ r \in orphans[c]
Tracked(r) == r \in inflight[target[r]] /\ conns[target[r]] = via[r]

Kept(r) == HasTerminal(r) \/ Decoded(r) \/ Orphaned(r) \/ Tracked(r)

Awaiting == {"sending", "waiting", "writing"}

LEMMA KeptIs == WaiterKept <=>
    \A r \in Request : gpc[r] \in Awaiting => Kept(r)
BY DEF WaiterKept, Awaiting, EndUnderWay, Kept, HasTerminal, Decoded, Orphaned,
       Tracked

LEMMA KeptIsNext == WaiterKept' <=>
    \A r \in Request : gpc'[r] \in Awaiting => Kept(r)'
BY DEF WaiterKept, Awaiting, EndUnderWay, Kept, HasTerminal, Decoded, Orphaned,
       Tracked

\* Delivering the end of q leaves a terminal event in q's channel, if q's
\* handler still waits for one.
LEMMA EndDelivered ==
    ASSUME TypeOK, RoutedWhileHandled, RoomKept, NEW q \in Request,
           NEW e \in Terminal, Deliver(q, e)
    PROVE  /\ \A r \in Request : HasTerminal(r) => HasTerminal(r)'
           /\ gpc[q] \in Awaiting => HasTerminal(q)'
<1>1. RouterTypeOK /\ e \in Event
  BY DEF TypeOK, Event
<1>2. gpc[q] \in Awaiting => q \in routed
  BY DEF RoutedWhileHandled, Awaiting
<1> QED
  BY <1>1, <1>2, DeliverKeeps DEF RoomKept

\* The steps of one connection's handler.
LEMMA HandlerKeeps ==
    ASSUME TypeOK, TeardownInv, RoutedWhileHandled, OneHandler, RoomKept,
           WaiterKept, NEW c \in Conn, HandlerStep(c), UNCHANGED reqVars
    PROVE  WaiterKept'
<1> USE HubAssumption
<1>1. /\ wsPc \in [Conn -> WsPc] /\ orphans \in [Conn -> SUBSET Request]
      /\ conns \in [Node -> Conn \cup {None}]
      /\ inflight \in [Node -> SUBSET Request]
      /\ arriving \in [Conn -> Arrival \cup {<< >>}]
  BY DEF TypeOK, HubTypeOK
<1>2. SUFFICES ASSUME NEW r \in Request, gpc[r] \in Awaiting,
                      Kept(r)
               PROVE  Kept(r)'
  BY KeptIs, KeptIsNext DEF reqVars
<1>3. target[r] \in Node /\ via[r] \in Conn
  BY <1>2 DEF TypeOK, ReqTypeOK, Awaiting
<1>4. UNCHANGED <<target, via>>
  BY DEF reqVars
<1>5. UNCHANGED events => (HasTerminal(r) => HasTerminal(r)')
  BY DEF HasTerminal
<1>6. CASE Attach(c)
  <2>1. HasTerminal(r) => HasTerminal(r)'
    BY <1>5, <1>6 DEF Attach, routerVars
  <2>2. Decoded(r) => Decoded(r)'
    BY <1>1, <1>6 DEF Attach, Decoded
  <2>3. Orphaned(r) => Orphaned(r)'
    BY <1>1, <1>6 DEF Attach, Orphaned
  <2>4. Tracked(r) => Tracked(r)'
    <3>1. CASE target[r] = NodeOf[c]
      <4>1. ~Tracked(r)
        BY <1>3, <1>6, <3>1
           DEF Attach, Tracked, TeardownInv, ConnsLive, OneHandler
      <4> QED
        BY <4>1
    <3>2. CASE target[r] # NodeOf[c]
      BY <1>1, <1>3, <1>4, <1>6, <3>2 DEF Attach, Tracked
    <3> QED
      BY <3>1, <3>2
  <2> QED
    BY <1>2, <2>1, <2>2, <2>3, <2>4 DEF Kept
<1>7. CASE DeliverTerminal(c)
  <2> DEFINE q == arriving[c][1]
             e == arriving[c][2]
  <2>1. q \in Request /\ e \in Terminal /\ Deliver(q, e)
    BY <1>7 DEF DeliverTerminal, TypeOK, HubTypeOK, Arrival
  <2>2. HasTerminal(r) => HasTerminal(r)'
    BY <2>1, EndDelivered
  <2>3. Decoded(r) => Decoded(r)' \/ HasTerminal(r)'
    <3>1. q = r => HasTerminal(r)'
      BY <1>2, <2>1, EndDelivered
    <3>2. q # r => (Decoded(r) => Decoded(r)')
      BY <1>1, <1>7 DEF DeliverTerminal, Decoded
    <3> QED
      BY <3>1, <3>2
  <2>4. Orphaned(r) => Orphaned(r)'
    BY <1>1, <1>7 DEF DeliverTerminal, Orphaned
  <2>5. Tracked(r) => Tracked(r)'
    BY <1>4, <1>7 DEF DeliverTerminal, Tracked, mapVars
  <2> QED
    BY <1>2, <2>2, <2>3, <2>4, <2>5 DEF Kept
<1>8. CASE UnregisterWS(c) \/ ReturnWS(c)
  <2>1. HasTerminal(r) => HasTerminal(r)'
    BY <1>5, <1>8 DEF UnregisterWS, ReturnWS, routerVars
  <2>2. Decoded(r) => Decoded(r)'
    BY <1>1, <1>8 DEF UnregisterWS, ReturnWS, Decoded
  <2>3. Orphaned(r) => Orphaned(r)'
    BY <1>1, <1>8 DEF UnregisterWS, ReturnWS, Orphaned
  <2>4. Tracked(r) => Tracked(r)'
    BY <1>4, <1>8 DEF UnregisterWS, ReturnWS, Tracked, mapVars
  <2> QED
    BY <1>2, <2>1, <2>2, <2>3, <2>4 DEF Kept
<1>9. CASE Detach(c)
  <2>1. HasTerminal(r) => HasTerminal(r)'
    BY <1>5, <1>9 DEF Detach, routerVars
  <2>2. Decoded(r) => Decoded(r)'
    BY <1>1, <1>9 DEF Detach, Decoded
  <2>3. Orphaned(r) => Orphaned(r)'
    BY <1>1, <1>9 DEF Detach, Orphaned
  <2>4. Tracked(r) => Tracked(r)' \/ Orphaned(r)'
    BY <1>1, <1>3, <1>4, <1>9 DEF Detach, Tracked, Orphaned
  <2> QED
    BY <1>2, <2>1, <2>2, <2>3, <2>4 DEF Kept
<1>10. CASE CloseOut(c)
  <2>1. HasTerminal(r) => HasTerminal(r)'
    BY <1>5, <1>10 DEF CloseOut, routerVars
  <2>2. Decoded(r) => Decoded(r)'
    BY <1>1, <1>10 DEF CloseOut, Decoded
  <2>3. Orphaned(r) => Orphaned(r)'
    BY <1>1, <1>10 DEF CloseOut, Orphaned
  <2>4. Tracked(r) => Tracked(r)'
    BY <1>4, <1>10 DEF CloseOut, Tracked, mapVars
  <2> QED
    BY <1>2, <2>1, <2>2, <2>3, <2>4 DEF Kept
<1>11. ~CloseOutPanics(c)
  BY <1>1 DEF CloseOutPanics, TeardownInv, ClosedOnce, OutOfReach, TypeOK,
       HubTypeOK
<1>12. ASSUME NEW q \in Request, FailOrphan(c, q)
       PROVE  Kept(r)'
  <2>0. "error" \in Terminal
    BY DEF Terminal
  <2>1. HasTerminal(r) => HasTerminal(r)'
    BY <1>12, <2>0, EndDelivered DEF FailOrphan
  <2>2. Decoded(r) => Decoded(r)'
    BY <1>1, <1>12 DEF FailOrphan, Decoded
  <2>3. Orphaned(r) => Orphaned(r)' \/ HasTerminal(r)'
    <3>1. q = r => HasTerminal(r)'
      BY <1>2, <1>12, <2>0, EndDelivered DEF FailOrphan
    <3>2. q # r => (Orphaned(r) => Orphaned(r)')
      BY <1>1, <1>12 DEF FailOrphan, Orphaned
    <3> QED
      BY <3>1, <3>2
  <2>4. Tracked(r) => Tracked(r)'
    BY <1>4, <1>12 DEF FailOrphan, Tracked, mapVars
  <2> QED
    BY <1>2, <2>1, <2>2, <2>3, <2>4 DEF Kept
<1> QED
  BY <1>6, <1>7, <1>8, <1>9, <1>10, <1>11, <1>12 DEF HandlerStep

\* What the network and the provider do.
LEMMA PeerKeeps ==
    ASSUME TypeOK, WaiterKept, NEW c \in Conn, PeerStep(c), UNCHANGED reqVars
    PROVE  WaiterKept'
<1> USE HubAssumption
<1>1. /\ wsPc \in [Conn -> WsPc] /\ orphans \in [Conn -> SUBSET Request]
      /\ conns \in [Node -> Conn \cup {None}]
      /\ inflight \in [Node -> SUBSET Request]
      /\ arriving \in [Conn -> Arrival \cup {<< >>}]
  BY DEF TypeOK, HubTypeOK
<1>2. SUFFICES ASSUME NEW r \in Request, gpc[r] \in Awaiting,
                      Kept(r)
               PROVE  Kept(r)'
  BY KeptIs, KeptIsNext DEF reqVars
<1>3. UNCHANGED <<target, via>>
  BY DEF reqVars
<1>4. ASSUME HasTerminal(r) => HasTerminal(r)',
             UNCHANGED <<arriving, orphans, mapVars>>,
             \A d \in Conn : wsPc[d] \in {"delivering", "detached", "failing"}
                               => wsPc'[d] = wsPc[d]
      PROVE  Kept(r)'
  BY <1>2, <1>3, <1>4 DEF Kept, Decoded, Orphaned, Tracked, mapVars
<1>5. UNCHANGED events => (HasTerminal(r) => HasTerminal(r)')
  BY DEF HasTerminal
<1>6. CASE \/ Drop(c) \/ FallSilent(c) \/ Wake(c) \/ Pump(c)
           \/ ReadHeartbeat(c) \/ RefuseWS(c) \/ RegisterWS(c)
  <2>1. UNCHANGED <<events, arriving, orphans, mapVars>>
    BY <1>6 DEF Drop, FallSilent, Wake, Pump, ReadHeartbeat, RefuseWS,
         RegisterWS, wsVars, routerVars
  <2>2. \A d \in Conn : wsPc[d] \in {"delivering", "detached", "failing"}
                           => wsPc'[d] = wsPc[d]
    BY <1>1, <1>6 DEF Drop, FallSilent, Wake, Pump, ReadHeartbeat, RefuseWS,
         RegisterWS, wsVars
  <2> QED
    BY <1>4, <1>5, <2>1, <2>2
<1>7. ASSUME NEW q \in Request, ReadChunk(c, q) PROVE Kept(r)'
  <2>1. HasTerminal(r) => HasTerminal(r)'
    BY <1>7, DeliverKeeps DEF ReadChunk, TypeOK, Event
  <2> QED
    BY <1>4, <1>7, <2>1 DEF ReadChunk, wsVars
<1>8. ASSUME NEW q \in Request, NEW e \in Terminal, ReadTerminal(c, q, e)
      PROVE  Kept(r)'
  <2>1. HasTerminal(r) => HasTerminal(r)'
    BY <1>5, <1>8 DEF ReadTerminal, routerVars
  <2>2. Decoded(r) => Decoded(r)'
    BY <1>1, <1>8 DEF ReadTerminal, Decoded
  <2>3. Orphaned(r) => Orphaned(r)'
    BY <1>1, <1>8 DEF ReadTerminal, Orphaned
  <2>4. q = r => Decoded(r)'
    <3>1. arriving'[c] = <<q, e>> /\ wsPc'[c] = "delivering"
      BY <1>1, <1>8 DEF ReadTerminal
    <3> QED
      BY <3>1 DEF Decoded
  <2>5. q # r => (Tracked(r) => Tracked(r)')
    BY <1>1, <1>3, <1>8 DEF ReadTerminal, Tracked, TypeOK, ReqTypeOK
  <2> QED
    BY <1>2, <2>1, <2>2, <2>3, <2>4, <2>5 DEF Kept
<1> QED
  BY <1>6, <1>7, <1>8 DEF PeerStep

\* What the handler of one request leaves alone of the others.
LEMMA GatewayOthers ==
    ASSUME TypeOK, NEW q \in Request,
           GatewayStep(q) \/ CallerStep(q) \/ Timeout(q)
    PROVE  /\ \A r \in Request : r # q =>
                 UNCHANGED <<gpc[r], target[r], via[r]>>
           /\ \A n \in Node : inflight[n] \subseteq inflight'[n]
<1> USE DEF TypeOK, ReqTypeOK, HubTypeOK, mapVars, hubVars
<1>1. CASE \/ NoProvider(q) \/ SendNoConn(q) \/ SendQueueFull(q)
           \/ SendPanics(q) \/ Complete(q) \/ Fail(q) \/ CancelNoConn(q)
           \/ CancelEnqueue(q) \/ Answered(q)
  BY <1>1 DEF NoProvider, SendNoConn, SendQueueFull, SendPanics, Aborted,
       Complete, Fail, EndWith, CancelNoConn, CancelEnqueue, GivenUp, Finish,
       HoldAnswer, Answered
<1>2. CASE ReserveNode(q)
  BY <1>2 DEF ReserveNode
<1>3. CASE SendLookup(q)
  BY <1>3 DEF SendLookup
<1>4. CASE \/ SendEnqueue(q) \/ RelayChunk(q) \/ CancelLookup(q)
           \/ CallerLeaves(q) \/ Timeout(q) \/ Written(q)
  BY <1>4 DEF SendEnqueue, RelayChunk, AfterWrite, CancelLookup, CallerLeaves,
       Timeout, GiveUp, Written
<1> QED
  BY <1>1, <1>2, <1>3, <1>4 DEF GatewayStep, CallerStep

\* What it does to its own request while that is handed over and awaited.
LEMMA GatewayWaits ==
    ASSUME TypeOK, NEW q \in Request,
           GatewayStep(q) \/ CallerStep(q) \/ Timeout(q),
           gpc'[q] \in Awaiting
    PROVE  SendLookup(q) \/ SendEnqueue(q) \/ RelayChunk(q) \/ Written(q)
<1> USE DEF TypeOK, ReqTypeOK, Awaiting
<1>1. ASSUME NEW s, NEW a, Finish(q, s, a) \/ HoldAnswer(q, s, a) PROVE FALSE
  BY <1>1 DEF Finish, HoldAnswer
<1>2. ~\/ NoProvider(q) \/ SendNoConn(q) \/ SendQueueFull(q) \/ SendPanics(q)
       \/ Complete(q) \/ Fail(q) \/ CancelNoConn(q) \/ CancelEnqueue(q)
       \/ Answered(q)
  BY <1>1 DEF NoProvider, SendNoConn, SendQueueFull, SendPanics, Aborted,
       Complete, Fail, EndWith, CancelNoConn, CancelEnqueue, GivenUp, Answered
<1>3. ~\/ ReserveNode(q) \/ CancelLookup(q) \/ CallerLeaves(q) \/ Timeout(q)
  BY DEF ReserveNode, CancelLookup, CallerLeaves, Timeout, GiveUp
<1> QED
  BY <1>2, <1>3 DEF GatewayStep, CallerStep

\* The steps of the gateway: Send notes a request before it hands it over.
LEMMA GatewayKeeps ==
    ASSUME ~SlowClient, TypeOK, WaiterKept, NEW q \in Request,
           GatewayStep(q) \/ CallerStep(q) \/ Timeout(q)
    PROVE  WaiterKept'
<1>1. UNCHANGED <<wsPc, arriving, orphans, conns>>
  BY GatewayFrame DEF wsVars
<1>2. SUFFICES ASSUME NEW r \in Request, gpc'[r] \in Awaiting
               PROVE  Kept(r)'
  BY KeptIsNext
<1>3. ASSUME Kept(r), HasTerminal(r) => HasTerminal(r)',
             UNCHANGED <<target[r], via[r]>>, target[r] \in Node
      PROVE  Kept(r)'
  <2>1. inflight[target[r]] \subseteq inflight'[target[r]]
    BY <1>3, GatewayOthers
  <2> QED
    BY <1>1, <1>3, <2>1 DEF Kept, Decoded, Orphaned, Tracked
<1>4. gpc[r] \in Awaiting => Kept(r) /\ target[r] \in Node
  BY KeptIs DEF TypeOK, ReqTypeOK, Awaiting
<1>5. CASE r # q
  <2>1. UNCHANGED <<gpc[r], target[r], via[r]>>
    BY <1>5, GatewayOthers
  <2>2. HasTerminal(r) => HasTerminal(r)'
    BY <1>5, GatewayEvents DEF HasTerminal
  <2> QED
    BY <1>2, <1>3, <1>4, <2>1, <2>2
<1>6. CASE r = q
  <2>1. CASE SendLookup(q)
    BY <1>1, <1>6, <2>1
       DEF SendLookup, Kept, Tracked, TypeOK, HubTypeOK, ReqTypeOK
  <2>2. CASE SendEnqueue(q)
    <3>1. gpc[q] = "sending" /\ UNCHANGED <<events, target, via>>
      BY <2>2 DEF SendEnqueue, routerVars
    <3> QED
      BY <1>3, <1>4, <1>6, <3>1 DEF HasTerminal, Awaiting
  <2>3. CASE RelayChunk(q)
    <3>1. gpc[q] = "waiting" /\ UNCHANGED <<target, via>>
      BY <2>3 DEF RelayChunk
    <3>2. HasTerminal(q) => HasTerminal(q)'
      BY <2>3, RelayKeeps DEF RelayChunk, TypeOK
    <3> QED
      BY <1>3, <1>4, <1>6, <3>1, <3>2 DEF Awaiting
  <2>4. CASE Written(q)
    <3>1. gpc[q] = "writing" /\ UNCHANGED <<events, target, via>>
      BY <2>4 DEF Written, hubVars, routerVars
    <3> QED
      BY <1>3, <1>4, <1>6, <3>1 DEF HasTerminal, Awaiting
  <2> QED
    BY <1>2, <1>6, <2>1, <2>2, <2>3, <2>4, GatewayWaits
<1> QED
  BY <1>5, <1>6

LEMMA WaiterStep ==
    ASSUME ~Silence, ~SlowClient, TypeOK, TeardownInv, RoutedWhileHandled, OneHandler,
           RoomKept, WaiterKept, [Next]_vars
    PROVE  WaiterKept'
<1>1. ASSUME NEW c \in Conn, HandlerStep(c) \/ PeerStep(c), UNCHANGED reqVars
      PROVE  WaiterKept'
  BY <1>1, HandlerKeeps, PeerKeeps
<1>2. ~SweeperStep /\ ~\E n \in Node : PassTime(n)
  BY SweeperIdle DEF TeardownInv
<1>3. ASSUME NEW q \in Request, GatewayStep(q) \/ CallerStep(q) \/ Timeout(q)
      PROVE  WaiterKept'
  BY <1>3, GatewayKeeps
<1>4. CASE UNCHANGED vars
  BY <1>4 DEF vars, hubVars, wsVars, mapVars, routerVars, reqVars, WaiterKept,
       EndUnderWay
<1> QED
  BY <1>1, <1>2, <1>3, <1>4 DEF Next, HubStep

-----------------------------------------------------------------------------
LEMMA OrderlyInit == Init => OrderlyInv
<1> SUFFICES ASSUME Init PROVE OrderlyInv
  OBVIOUS
<1>1. TeardownInv /\ OneHandler /\ TablesFollow
  BY ListedInit DEF ListedInv
<1>2. RoutedWhileHandled /\ WaiterKept
  BY DEF Init, HubInit, RouterInit, RoutedWhileHandled, WaiterKept
<1>3. RoomKept
  <2>1. \A r \in Request : events[r] = << >>
    BY DEF Init, HubInit, RouterInit
  <2>2. Len(<< >>) = 0
    BY EmptySeq
  <2> QED
    BY <2>1, <2>2, EventCapAssumption DEF RoomKept
<1> QED
  BY <1>1, <1>2, <1>3 DEF OrderlyInv

LEMMA OrderlyStep ==
    ASSUME ~Silence, ~Overlap, ~SlowClient, OrderlyInv, [Next]_vars
    PROVE  OrderlyInv'
<1>1. TypeOK /\ NeverSwept
  BY DEF OrderlyInv, TeardownInv
<1>2. TeardownInv'
  BY TeardownStep DEF OrderlyInv
<1>3. RoutedWhileHandled'
  BY <1>1, RoutedStep DEF OrderlyInv
<1>4. OneHandler' /\ TablesFollow'
  BY <1>1, OneHandlerStep, TablesFollowStep DEF OrderlyInv
<1>5. RoomKept'
  BY <1>1, RoomKeptStep DEF OrderlyInv
<1>6. WaiterKept'
  BY <1>1, WaiterStep DEF OrderlyInv
<1> QED
  BY <1>2, <1>3, <1>4, <1>5, <1>6 DEF OrderlyInv

(***************************************************************************)
(* Among orderly providers, and with callers that keep up, no waiting      *)
(* request is forgotten: whenever its connection fails, the teardown of    *)
(* that connection knows it, or its end is already on the way.             *)
(***************************************************************************)
THEOREM NobodyIsForgotten ==
    ASSUME ~Silence, ~Overlap, ~SlowClient
    PROVE  Spec => []NoLostWaiter
<1>1. OrderlyInv => NoLostWaiter
  BY DEF OrderlyInv, WaiterKept, NoLostWaiter
<1>2. OrderlyInv /\ [Next]_vars => OrderlyInv'
  BY OrderlyStep
<1> QED
  BY OrderlyInit, <1>1, <1>2, PTL DEF Spec
=============================================================================
