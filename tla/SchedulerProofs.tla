--------------------------- MODULE SchedulerProofs ---------------------------
(***************************************************************************)
(* Theorems about the registry under the discipline of Scheduler.tla: a    *)
(* reservation never joins a queue beside an idle node, a node that failed *)
(* rests for its whole cooldown, and the counters of a node are the open   *)
(* reservations on it.                                                     *)
(***************************************************************************)
EXTENDS Scheduler, SumProofs

USE TicksAssumption, SchedulerAssumption DEF vars

\* What the operations keep of a node's record, all but its own fields.
Agree(y, x) == /\ y \in NodeRec
               /\ y.present = x.present
               /\ y.age = x.age
               /\ y.cooldown = x.cooldown

(***************************************************************************)
(* What remains of a node's record when one field is assigned.             *)
(***************************************************************************)
LEMMA SetPresent ==
    ASSUME NEW x \in NodeRec, NEW y, y = [x EXCEPT !.present = TRUE]
    PROVE  y \in NodeRec /\ y.present /\ y.cooldown = x.cooldown
BY DEF NodeRec

LEMMA SetModels ==
    ASSUME NEW x \in NodeRec, NEW v \in SUBSET Model
    PROVE  Agree([x EXCEPT !.models = v], x)
BY DEF NodeRec, Agree

LEMMA SetDepth ==
    ASSUME NEW x \in NodeRec, NEW v \in Nat
    PROVE  Agree([x EXCEPT !.depth = v], x)
BY DEF NodeRec, Agree

LEMMA SetTokens ==
    ASSUME NEW x \in NodeRec, NEW v \in Nat
    PROVE  Agree([x EXCEPT !.tokens = v], x)
BY DEF NodeRec, Agree

LEMMA SetAge ==
    ASSUME NEW x \in NodeRec, NEW v \in 0..(StaleAfter + 1),
           NEW y, y = [x EXCEPT !.age = v]
    PROVE  /\ y \in NodeRec /\ y.present = x.present
           /\ y.age = v /\ y.cooldown = x.cooldown
BY DEF NodeRec

LEMMA SetCooldown ==
    ASSUME NEW x \in NodeRec, NEW v \in 0..Cooldown,
           NEW y, y = [x EXCEPT !.cooldown = v]
    PROVE  /\ y \in NodeRec /\ y.present = x.present
           /\ y.age = x.age /\ y.cooldown = v
BY DEF NodeRec

\* The record of n becomes y, and no other changes.
LEMMA Replaced ==
    ASSUME RegTypeOK, NEW n \in Node, NEW y \in NodeRec,
           nodes' = [nodes EXCEPT ![n] = y]
    PROVE  RegTypeOK' /\ \A m \in Node : nodes'[m] = IF m = n THEN y ELSE nodes[m]
BY DEF RegTypeOK

\* The table after each operation on the record of one node.
LEMMA RegisterEffect ==
    ASSUME RegTypeOK, NEW n \in Node, NEW models \in SUBSET Model,
           Register(n, models)
    PROVE  /\ RegTypeOK'
           /\ \A m \in Node : IF m = n
                THEN /\ nodes'[m].present /\ nodes'[m].age = 0
                     /\ nodes'[m].cooldown = nodes[m].cooldown
                ELSE nodes'[m] = nodes[m]
<1> DEFINE x == nodes[n]
           x1 == [x EXCEPT !.present = TRUE]
           x2 == [x1 EXCEPT !.models = models]
           x3 == [x2 EXCEPT !.age = 0]
           y == [x EXCEPT !.present = TRUE, !.models = models, !.age = 0]
<1>1. x \in NodeRec
  BY DEF RegTypeOK
<1>2. x1 \in NodeRec /\ x1.present /\ x1.cooldown = x.cooldown
  BY <1>1, SetPresent
<1>3. Agree(x2, x1)
  BY <1>2, SetModels
<1>4. /\ x3 \in NodeRec /\ x3.present = x2.present
      /\ x3.age = 0 /\ x3.cooldown = x2.cooldown
  <2> HIDE DEF x2
  <2>1. 0 \in 0..(StaleAfter + 1) /\ x2 \in NodeRec
    BY <1>3 DEF Agree
  <2> QED
    BY <2>1, SetAge
<1>5. y = x3
  BY Zenon
<1>6. nodes' = [nodes EXCEPT ![n] = y]
  BY Zenon DEF Register
<1>7. y \in NodeRec /\ y.present /\ y.age = 0 /\ y.cooldown = x.cooldown
  <2> HIDE DEF x1, x2, x3, y
  <2> QED
    BY <1>2, <1>3, <1>4, <1>5, Zenon DEF Agree
<1> HIDE DEF y
<1>8. RegTypeOK' /\ \A m \in Node : nodes'[m] = IF m = n THEN y ELSE nodes[m]
  BY <1>6, <1>7, Replaced
<1> QED
  BY <1>7, <1>8

LEMMA HeartbeatEffect ==
    ASSUME RegTypeOK, NEW n \in Node, NEW q \in Nat, Heartbeat(n, q)
    PROVE  /\ RegTypeOK'
           /\ \A m \in Node : /\ nodes'[m].present = nodes[m].present
                              /\ nodes'[m].age \in {0, nodes[m].age}
                              /\ nodes'[m].cooldown = nodes[m].cooldown
<1> DEFINE x == nodes[n]
           depth == IF x.depth = 0 /\ q > x.depth THEN q ELSE x.depth
           x1 == [x EXCEPT !.age = 0]
           x2 == [x1 EXCEPT !.depth = depth]
           y == [x EXCEPT !.age = 0, !.depth = depth]
<1>1. x \in NodeRec
  BY DEF RegTypeOK
<1>2. depth \in Nat /\ 0 \in 0..(StaleAfter + 1)
  BY <1>1 DEF NodeRec
<1>3. /\ x1 \in NodeRec /\ x1.present = x.present
      /\ x1.age = 0 /\ x1.cooldown = x.cooldown
  BY <1>1, <1>2, SetAge
<1>4. Agree(x2, x1)
  <2> HIDE DEF x1, depth
  <2> QED
    BY <1>2, <1>3, SetDepth
<1>5. y = x2
  BY Zenon
<1>6. nodes' = IF nodes[n].present THEN [nodes EXCEPT ![n] = y] ELSE nodes
  BY Zenon DEF Heartbeat
<1>7. /\ y \in NodeRec /\ y.present = x.present
      /\ y.age = 0 /\ y.cooldown = x.cooldown
  <2> HIDE DEF x1, x2, y
  <2> QED
    BY <1>3, <1>4, <1>5, Zenon DEF Agree
<1> HIDE DEF y
<1>8. CASE nodes[n].present
  <2>1. RegTypeOK' /\ \A m \in Node : nodes'[m] = IF m = n THEN y ELSE nodes[m]
    BY <1>6, <1>7, <1>8, Replaced
  <2> QED
    BY <1>7, <2>1
<1>9. CASE ~nodes[n].present
  BY <1>6, <1>9 DEF RegTypeOK
<1> QED
  BY <1>8, <1>9

LEMMA ReserveEffect ==
    ASSUME RegTypeOK, NEW n \in Node, NEW est \in Nat, Reserve(n, est)
    PROVE  /\ RegTypeOK'
           /\ \A m \in Node : Agree(nodes'[m], nodes[m])
<1> DEFINE x == nodes[n]
           depth == x.depth + 1
           tokens == x.tokens + est
           x1 == [x EXCEPT !.depth = depth]
           x2 == [x1 EXCEPT !.tokens = tokens]
           y == [x EXCEPT !.depth = depth, !.tokens = tokens]
<1>1. x \in NodeRec
  BY DEF RegTypeOK
<1>2. depth \in Nat /\ tokens \in Nat
  BY <1>1 DEF NodeRec
<1>3. Agree(x1, x)
  <2> HIDE DEF depth
  <2> QED
    BY <1>1, <1>2, SetDepth
<1>4. Agree(x2, x1)
  <2> HIDE DEF x1, tokens
  <2> QED
    BY <1>2, <1>3, SetTokens DEF Agree
<1>5. y = x2
  BY Zenon
<1>6. nodes' = [nodes EXCEPT ![n] = y]
  BY Zenon DEF Reserve
<1>7. y \in NodeRec /\ Agree(y, x)
  <2> HIDE DEF x1, x2, y
  <2> QED
    BY <1>3, <1>4, <1>5, Zenon DEF Agree
<1> HIDE DEF y
<1>8. RegTypeOK' /\ \A m \in Node : nodes'[m] = IF m = n THEN y ELSE nodes[m]
  BY <1>6, <1>7, Replaced
<1> QED
  BY <1>7, <1>8 DEF Agree, RegTypeOK

LEMMA ReleaseEffect ==
    ASSUME RegTypeOK, NEW n \in Node, NEW est \in Nat, NEW failed \in BOOLEAN,
           Release(n, est, failed)
    PROVE  /\ RegTypeOK'
           /\ \A m \in Node :
                /\ nodes'[m].present = nodes[m].present
                /\ nodes'[m].age = nodes[m].age
                /\ nodes'[m].cooldown =
                      IF m = n /\ failed /\ nodes[m].present
                      THEN Cooldown ELSE nodes[m].cooldown
<1> DEFINE x == nodes[n]
           depth == IF x.depth > 0 THEN x.depth - 1 ELSE x.depth
           tokens == IF x.tokens >= est THEN x.tokens - est ELSE 0
           cooldown == IF failed THEN Cooldown ELSE x.cooldown
           x1 == [x EXCEPT !.depth = depth]
           x2 == [x1 EXCEPT !.tokens = tokens]
           x3 == [x2 EXCEPT !.cooldown = cooldown]
           y == [x EXCEPT !.depth = depth, !.tokens = tokens,
                          !.cooldown = cooldown]
<1>1. x \in NodeRec
  BY DEF RegTypeOK
<1>2. depth \in Nat /\ tokens \in Nat /\ cooldown \in 0..Cooldown
  BY <1>1 DEF NodeRec
<1>3. Agree(x1, x)
  <2> HIDE DEF depth
  <2> QED
    BY <1>1, <1>2, SetDepth
<1>4. Agree(x2, x1)
  <2> HIDE DEF x1, tokens
  <2> QED
    BY <1>2, <1>3, SetTokens DEF Agree
<1>5. /\ x3 \in NodeRec /\ x3.present = x2.present
      /\ x3.age = x2.age /\ x3.cooldown = cooldown
  <2>1. x2 \in NodeRec
    <3> HIDE DEF x1, x2
    <3> QED
      BY <1>4, Zenon DEF Agree
  <2> HIDE DEF x2, cooldown
  <2> QED
    BY <1>2, <2>1, SetCooldown
<1>6. y = x3
  BY Zenon
<1>7. nodes' = IF nodes[n].present THEN [nodes EXCEPT ![n] = y] ELSE nodes
  BY Zenon DEF Release
<1>8. /\ y \in NodeRec /\ y.present = x.present
      /\ y.age = x.age /\ y.cooldown = cooldown
  <2> HIDE DEF x1, x2, x3, y, cooldown
  <2> QED
    BY <1>3, <1>4, <1>5, <1>6, Zenon DEF Agree
<1> HIDE DEF y
<1>9. CASE nodes[n].present
  <2>1. RegTypeOK' /\ \A m \in Node : nodes'[m] = IF m = n THEN y ELSE nodes[m]
    BY <1>7, <1>8, <1>9, Replaced
  <2> QED
    BY <1>8, <1>9, <2>1
<1>10. CASE ~nodes[n].present
  BY <1>7, <1>10 DEF RegTypeOK
<1> QED
  BY <1>9, <1>10

LEMMA AgeEffect ==
    ASSUME RegTypeOK, NEW n \in Node, Age(n)
    PROVE  /\ RegTypeOK'
           /\ \A m \in Node : IF m = n
                THEN /\ nodes'[m].present = nodes[m].present
                     /\ nodes'[m].age <= nodes[m].age + 1
                     /\ nodes'[m].cooldown =
                           IF nodes[m].cooldown > 0 THEN nodes[m].cooldown - 1
                                                    ELSE nodes[m].cooldown
                ELSE nodes'[m] = nodes[m]
<1> DEFINE x == nodes[n]
           age == IF x.age <= StaleAfter THEN x.age + 1 ELSE x.age
           cooldown == IF x.cooldown > 0 THEN x.cooldown - 1 ELSE x.cooldown
           x1 == [x EXCEPT !.age = age]
           x2 == [x1 EXCEPT !.cooldown = cooldown]
           y == [x EXCEPT !.age = age, !.cooldown = cooldown]
<1>1. x \in NodeRec
  BY DEF RegTypeOK
<1>2. /\ age \in 0..(StaleAfter + 1) /\ cooldown \in 0..Cooldown
      /\ age <= x.age + 1
  BY <1>1 DEF NodeRec
<1>3. x1 \in NodeRec /\ x1.present = x.present /\ x1.age = age
  <2> HIDE DEF age
  <2> QED
    BY <1>1, <1>2, SetAge
<1>4. /\ x2 \in NodeRec /\ x2.present = x1.present
      /\ x2.age = x1.age /\ x2.cooldown = cooldown
  <2> HIDE DEF x1, cooldown
  <2> QED
    BY <1>2, <1>3, SetCooldown
<1>5. y = x2
  BY Zenon
<1>6. nodes' = [nodes EXCEPT ![n] = y]
  BY Zenon DEF Age
<1>7. /\ y \in NodeRec /\ y.present = x.present
      /\ y.age = age /\ y.cooldown = cooldown
  <2> HIDE DEF x1, x2, y, age, cooldown
  <2> QED
    BY <1>3, <1>4, <1>5, Zenon
<1> HIDE DEF y, age
<1>8. RegTypeOK' /\ \A m \in Node : nodes'[m] = IF m = n THEN y ELSE nodes[m]
  BY <1>6, <1>7, Replaced
<1> QED
  BY <1>2, <1>7, <1>8

LEMMA RemovalEffects ==
    ASSUME RegTypeOK
    PROVE  /\ \A n \in Node : Unregister(n) =>
                 RegTypeOK' /\ \A m \in Node : m # n => nodes'[m] = nodes[m]
           /\ Sweep => /\ RegTypeOK'
                       /\ \A m \in Node : m \notin StaleNodes =>
                             nodes'[m] = nodes[m]
<1>1. Absent \in NodeRec
  BY DEF Absent, NodeRec
<1> QED
  BY <1>1 DEF RegTypeOK, Unregister, Sweep

-----------------------------------------------------------------------------
LEMMA TypeInit == Init => TypeOK
BY DEF Init, TypeOK, RegInit, RegTypeOK, Absent, NodeRec

LEMMA TypeStep == TypeOK /\ [Next]_vars => TypeOK'
<1> SUFFICES ASSUME TypeOK, [Next]_vars PROVE TypeOK'
  OBVIOUS
<1>1. ASSUME RegTypeOK', UNCHANGED <<held, sore>> PROVE TypeOK'
  BY <1>1 DEF TypeOK
<1>2. ASSUME NEW n \in Node, Join(n) \/ Beat(n) \/ Leave(n) PROVE TypeOK'
  <2>1. RegTypeOK' /\ UNCHANGED <<held, sore>>
    BY <1>2, RegisterEffect, HeartbeatEffect, RemovalEffects
       DEF Join, Beat, Leave, TypeOK
  <2> QED
    BY <1>1, <2>1
<1>3. ASSUME NEW n \in Node, Tick(n) PROVE TypeOK'
  <2>1. RegTypeOK'
    BY <1>3, AgeEffect DEF Tick, TypeOK, RegTypeOK
  <2> QED
    BY <1>3, <2>1 DEF Tick, TypeOK
<1>4. CASE Prune
  BY <1>1, <1>4, RemovalEffects DEF Prune, TypeOK
<1>5. ASSUME NEW r \in Request, Take(r) PROVE TypeOK'
  <2>1. PICK m \in Model, est \in Charge : \E n \in Cheapest(m) :
          /\ Reserve(n, est)
          /\ held' = [held EXCEPT ![r] = {[node |-> n, est |-> est, model |-> m]}]
    BY <1>5 DEF Take
  <2>2. PICK n \in Cheapest(m) :
          /\ Reserve(n, est)
          /\ held' = [held EXCEPT ![r] = {[node |-> n, est |-> est, model |-> m]}]
    BY <2>1
  <2>3. n \in Node /\ est \in Nat
    BY <2>2 DEF Cheapest, Eligible
  <2>4. RegTypeOK'
    BY <2>2, <2>3, ReserveEffect DEF TypeOK
  <2>5. [node |-> n, est |-> est, model |-> m] \in Reservation
    BY <2>3 DEF Reservation
  <2>6. held' \in [Request -> SUBSET Reservation]
    BY <2>2, <2>5 DEF TypeOK
  <2> QED
    BY <1>5, <2>4, <2>6 DEF Take, TypeOK
<1>6. ASSUME NEW r \in Request, Give(r) PROVE TypeOK'
  <2>1. PICK h \in held[r], failed \in BOOLEAN :
          /\ Release(h.node, h.est, failed)
          /\ held' = [held EXCEPT ![r] = {}]
          /\ sore' = IF failed THEN [sore EXCEPT ![h.node] = Cooldown] ELSE sore
    BY <1>6 DEF Give
  <2>2. h.node \in Node /\ h.est \in Nat
    <3>1. h \in Reservation
      BY DEF TypeOK
    <3> QED
      BY <3>1 DEF Reservation
  <2>3. RegTypeOK'
    BY <2>1, <2>2, ReleaseEffect DEF TypeOK
  <2> QED
    BY <2>1, <2>2, <2>3 DEF TypeOK
<1>7. CASE UNCHANGED vars
  BY <1>1, <1>7 DEF TypeOK, RegTypeOK
<1> QED
  BY <1>2, <1>3, <1>4, <1>5, <1>6, <1>7 DEF Next

-----------------------------------------------------------------------------
(***************************************************************************)
(* Reserve puts a request behind others only when every node that could    *)
(* serve it is busy: its cost is zero only for an idle node.               *)
(***************************************************************************)
LEMMA NoQueueStep ==
    ASSUME TypeOK, [Next]_vars, NEW r \in Request, held[r] = {},
           NEW h \in held'[r], NEW o \in Eligible(h.model),
           nodes[o].depth = 0, nodes[o].tokens = 0
    PROVE  nodes[h.node].depth = 0 /\ nodes[h.node].tokens = 0
<1>1. held \in [Request -> SUBSET Reservation]
  BY DEF TypeOK
<1>2. Take(r)
  <2>1. ASSUME NEW q \in Request, Take(q) PROVE q = r
    BY <1>1, <2>1 DEF Take
  <2>2. ASSUME NEW q \in Request, Give(q) PROVE FALSE
    BY <1>1, <2>2 DEF Give
  <2>3. held' # held
    OBVIOUS
  <2> QED
    BY <2>1, <2>2, <2>3 DEF Next, Join, Beat, Leave, Tick, Prune
<1>3. h.node \in Cheapest(h.model)
  BY <1>1, <1>2 DEF Take
<1>4. h.node \in Node /\ o \in Node /\ Cost(h.node) <= Cost(o)
  BY <1>3 DEF Cheapest, Eligible
<1>5. nodes[h.node].depth \in Nat /\ nodes[h.node].tokens \in Nat
  BY <1>4 DEF TypeOK, RegTypeOK, NodeRec
<1> QED
  BY <1>4, <1>5 DEF Cost

(***************************************************************************)
(* For any number of nodes, models and requests, a reservation never joins *)
(* a queue while a node that could serve it idles.                         *)
(***************************************************************************)
THEOREM IdleNodesServeFirst == Spec => NoQueueBesideIdle
<1>1. TypeOK /\ [Next]_vars =>
        [\A r \in Request : held[r] = {} =>
           \A h \in held'[r] : \A o \in Eligible(h.model) :
              (nodes[o].depth = 0 /\ nodes[o].tokens = 0)
                  => (nodes[h.node].depth = 0 /\ nodes[h.node].tokens = 0)]_vars
  BY NoQueueStep
<1> QED
  BY <1>1, TypeInit, TypeStep, PTL DEF Spec, NoQueueBesideIdle

-----------------------------------------------------------------------------
(***************************************************************************)
(* The cooldown of a steady node outlasts its soreness, since nothing ever *)
(* takes its record out of the table, and no reservation of one is         *)
(* released against a record that is not there.                            *)
(***************************************************************************)
RestInv ==
    /\ \A n \in Steady : /\ nodes[n].age <= StaleAfter
                         /\ sore[n] <= nodes[n].cooldown
    /\ \A r \in Request : \A h \in held[r] :
          h.node \in Steady => nodes[h.node].present

LEMMA RestStep == TypeOK /\ RestInv /\ [Next]_vars => RestInv'
<1> SUFFICES ASSUME TypeOK, RestInv, [Next]_vars PROVE RestInv'
  OBVIOUS
<1>1. /\ nodes \in [Node -> NodeRec] /\ sore \in [Node -> 0..Cooldown]
      /\ held \in [Request -> SUBSET Reservation]
      /\ \A n \in Node : /\ nodes[n].age \in Nat /\ nodes[n].age <= StaleAfter + 1
                         /\ nodes[n].cooldown \in Nat
                         /\ nodes[n].cooldown <= Cooldown
                         /\ sore[n] \in Nat /\ sore[n] <= Cooldown
  BY DEF TypeOK, RegTypeOK, NodeRec
<1>2. ASSUME UNCHANGED <<held, sore>>,
             \A n \in Steady : /\ nodes[n].present => nodes'[n].present
                               /\ nodes'[n].age \in {0, nodes[n].age}
                               /\ nodes'[n].cooldown = nodes[n].cooldown
      PROVE  RestInv'
  BY <1>1, <1>2 DEF RestInv
<1>3. ASSUME NEW n \in Node, Join(n) PROVE RestInv'
  BY <1>1, <1>2, <1>3, RegisterEffect DEF Join, TypeOK
<1>4. ASSUME NEW n \in Node, Beat(n) PROVE RestInv'
  <2>1. PICK q \in Nat : Heartbeat(n, q)
    BY <1>4 DEF Beat
  <2> QED
    BY <1>1, <1>2, <1>4, <2>1, HeartbeatEffect DEF Beat, TypeOK
<1>5. ASSUME NEW n \in Node, Leave(n) PROVE RestInv'
  BY <1>1, <1>2, <1>5, RemovalEffects DEF Leave, TypeOK
<1>6. CASE Prune
  <2>1. \A n \in Steady : n \notin StaleNodes
    BY <1>1 DEF StaleNodes, Stale, RestInv
  <2> QED
    BY <1>1, <1>2, <1>6, <2>1, RemovalEffects DEF Prune, TypeOK
<1>7. ASSUME NEW n \in Node, Tick(n) PROVE RestInv'
  <2>1. \A m \in Node : m # n => nodes'[m] = nodes[m] /\ sore'[m] = sore[m]
    BY <1>1, <1>7, AgeEffect DEF Tick, TypeOK
  <2>2. sore'[n] = IF sore[n] > 0 THEN sore[n] - 1 ELSE sore[n]
    BY <1>1, <1>7 DEF Tick
  <2>3. CASE Age(n)
    <3>1. /\ nodes'[n].present = nodes[n].present
          /\ nodes'[n].age <= nodes[n].age + 1
          /\ nodes'[n].cooldown = IF nodes[n].cooldown > 0
                THEN nodes[n].cooldown - 1 ELSE nodes[n].cooldown
      BY <2>3, AgeEffect DEF TypeOK
    <3>2. nodes'[n].age \in Nat
      BY <2>3, AgeEffect DEF TypeOK, RegTypeOK, NodeRec
    <3>3. n \in Steady => nodes'[n].age <= StaleAfter
      BY <1>1, <1>7, <3>1, <3>2 DEF Tick
    <3>4. n \in Steady => sore'[n] <= nodes'[n].cooldown
      BY <1>1, <2>2, <3>1 DEF RestInv
    <3> QED
      BY <1>1, <1>7, <2>1, <3>1, <3>3, <3>4 DEF RestInv, Tick
  <2>4. CASE UNCHANGED nodes
    BY <1>1, <1>7, <2>1, <2>2, <2>4 DEF RestInv, Tick
  <2> QED
    BY <1>7, <2>3, <2>4 DEF Tick
<1>8. ASSUME NEW r \in Request, Take(r) PROVE RestInv'
  <2>1. PICK m \in Model, est \in Charge : \E n \in Cheapest(m) :
          /\ Reserve(n, est)
          /\ held' = [held EXCEPT ![r] = {[node |-> n, est |-> est, model |-> m]}]
    BY <1>8 DEF Take
  <2>2. PICK n \in Cheapest(m) :
          /\ Reserve(n, est)
          /\ held' = [held EXCEPT ![r] = {[node |-> n, est |-> est, model |-> m]}]
    BY <2>1
  <2>3. n \in Node /\ est \in Nat /\ nodes[n].present
    BY <2>2 DEF Cheapest, Eligible
  <2>4. \A k \in Node : Agree(nodes'[k], nodes[k])
    BY <2>2, <2>3, ReserveEffect DEF TypeOK
  <2>5. ASSUME NEW q \in Request, NEW h \in held'[q], h.node \in Steady
        PROVE  nodes[h.node].present
    BY <1>1, <2>2, <2>3, <2>5 DEF RestInv
  <2> QED
    BY <1>8, <2>4, <2>5 DEF RestInv, Agree, Take
<1>9. ASSUME NEW r \in Request, Give(r) PROVE RestInv'
  <2>1. PICK h \in held[r], failed \in BOOLEAN :
          /\ Release(h.node, h.est, failed)
          /\ held' = [held EXCEPT ![r] = {}]
          /\ sore' = IF failed THEN [sore EXCEPT ![h.node] = Cooldown] ELSE sore
    BY <1>9 DEF Give
  <2>2. h.node \in Node /\ h.est \in Nat
    <3>1. h \in Reservation
      BY <1>1
    <3> QED
      BY <3>1 DEF Reservation
  <2>3. \A m \in Node : /\ nodes'[m].present = nodes[m].present
                        /\ nodes'[m].age = nodes[m].age
                        /\ nodes'[m].cooldown =
                              IF m = h.node /\ failed /\ nodes[m].present
                              THEN Cooldown ELSE nodes[m].cooldown
    BY <2>1, <2>2, ReleaseEffect DEF TypeOK
  <2>4. \A n \in Steady : sore'[n] <= nodes'[n].cooldown
    <3> SUFFICES ASSUME NEW n \in Steady
                 PROVE  sore'[n] <= nodes'[n].cooldown
      OBVIOUS
    <3>1. CASE n = h.node
      BY <1>1, <2>1, <2>2, <2>3, <3>1 DEF RestInv
    <3>2. CASE n # h.node
      BY <1>1, <2>1, <2>2, <2>3, <3>2 DEF RestInv
    <3> QED
      BY <3>1, <3>2
  <2>5. \A q \in Request : held'[q] \subseteq held[q]
    BY <1>1, <2>1
  <2> QED
    BY <1>1, <2>3, <2>4, <2>5 DEF RestInv, Reservation
<1>10. CASE UNCHANGED vars
  BY <1>1, <1>2, <1>10
<1> QED
  BY <1>3, <1>4, <1>5, <1>6, <1>7, <1>8, <1>9, <1>10 DEF Next

LEMMA RestInit == Init => RestInv
BY DEF Init, RegInit, Absent, RestInv

\* Reserve passes over a node that is sore.
LEMMA SoreIsSpared ==
    ASSUME TypeOK, RestInv, [Next]_vars, NEW r \in Request, held[r] = {},
           NEW h \in held'[r], h.node \in Steady
    PROVE  sore[h.node] = 0
<1>1. held \in [Request -> SUBSET Reservation]
  BY DEF TypeOK
<1>2. Take(r)
  <2>1. ASSUME NEW q \in Request, Take(q) PROVE q = r
    BY <1>1, <2>1 DEF Take
  <2>2. ASSUME NEW q \in Request, Give(q) PROVE FALSE
    BY <1>1, <2>2 DEF Give
  <2>3. held' # held
    OBVIOUS
  <2> QED
    BY <2>1, <2>2, <2>3 DEF Next, Join, Beat, Leave, Tick, Prune
<1>3. h.node \in Cheapest(h.model)
  BY <1>1, <1>2 DEF Take
<1>4. nodes[h.node].cooldown = 0
  BY <1>3 DEF Cheapest, Eligible
<1> QED
  BY <1>4 DEF RestInv, TypeOK

(***************************************************************************)
(* A node that failed is excluded from selection for its whole cooldown,   *)
(* as long as it stays in the table, whatever it registers and reports and *)
(* however its other reservations end.                                     *)
(***************************************************************************)
THEOREM FailedNodesRest == Spec => FailedNodeRests
<1>1. TypeOK /\ RestInv /\ [Next]_vars =>
        [\A r \in Request : held[r] = {} =>
           \A h \in held'[r] : h.node \in Steady => sore[h.node] = 0]_vars
  BY SoreIsSpared
<1> QED
  BY <1>1, TypeInit, TypeStep, RestInit, RestStep, PTL
     DEF Spec, FailedNodeRests
-----------------------------------------------------------------------------
(***************************************************************************)
(* The counters of a node's record after each operation.                   *)
(***************************************************************************)
Same(y, x) == y.depth = x.depth /\ y.tokens = x.tokens
Zero(y) == y.depth = 0 /\ y.tokens = 0

LEMMA RegisterCounts ==
    ASSUME RegTypeOK, NEW n \in Node, NEW models \in SUBSET Model,
           Register(n, models), NEW m \in Node
    PROVE  Same(nodes'[m], nodes[m]) /\ (nodes[m].present => nodes'[m].present)
BY DEF RegTypeOK, NodeRec, Register, Same

LEMMA HeartbeatCounts ==
    ASSUME RegTypeOK, NEW n \in Node, NEW q \in Nat, Heartbeat(n, q),
           NEW m \in Node
    PROVE  /\ nodes'[m].present = nodes[m].present
           /\ nodes'[m].tokens = nodes[m].tokens
           /\ \/ nodes'[m].depth = nodes[m].depth
              \/ /\ m = n /\ nodes[m].present
                 /\ nodes[m].depth = 0 /\ nodes'[m].depth = q
<1>1. CASE ~nodes[n].present
  BY <1>1 DEF Heartbeat
<1>2. CASE nodes[n].present
  <2> DEFINE x == nodes[n]
             y == [x EXCEPT !.age = 0,
                            !.depth = IF x.depth = 0 /\ q > x.depth
                                      THEN q ELSE x.depth]
  <2>1. x \in NodeRec
    BY DEF RegTypeOK
  <2>2. /\ y.present = x.present /\ y.tokens = x.tokens
        /\ y.depth = x.depth \/ (x.depth = 0 /\ y.depth = q)
    BY <2>1 DEF NodeRec
  <2>3. nodes' = [nodes EXCEPT ![n] = y]
    BY <1>2, Zenon DEF Heartbeat
  <2>4. nodes'[m] = IF m = n THEN y ELSE nodes[m]
    <3> HIDE DEF y
    <3> QED
      BY <2>3 DEF RegTypeOK
  <2> HIDE DEF y
  <2> QED
    BY <1>2, <2>2, <2>4
<1> QED
  BY <1>1, <1>2

LEMMA ReserveCounts ==
    ASSUME RegTypeOK, NEW n \in Node, NEW est \in Nat, Reserve(n, est),
           NEW m \in Node
    PROVE  /\ nodes'[m].present = nodes[m].present
           /\ m # n => Same(nodes'[m], nodes[m])
           /\ m = n => /\ nodes'[m].depth = nodes[m].depth + 1
                       /\ nodes'[m].tokens = nodes[m].tokens + est
<1> DEFINE x == nodes[n]
           y == [x EXCEPT !.depth = x.depth + 1, !.tokens = x.tokens + est]
<1>1. x \in NodeRec
  BY DEF RegTypeOK
<1>2. /\ y.present = x.present /\ y.depth = x.depth + 1
      /\ y.tokens = x.tokens + est
  BY <1>1 DEF NodeRec
<1>3. nodes' = [nodes EXCEPT ![n] = y]
  BY Zenon DEF Reserve
<1>4. nodes'[m] = IF m = n THEN y ELSE nodes[m]
  <2> HIDE DEF y
  <2> QED
    BY <1>3 DEF RegTypeOK
<1> HIDE DEF y
<1> QED
  BY <1>2, <1>4 DEF Same

LEMMA ReleaseCounts ==
    ASSUME RegTypeOK, NEW n \in Node, NEW est \in Nat, NEW failed \in BOOLEAN,
           Release(n, est, failed), NEW m \in Node
    PROVE  /\ nodes'[m].present = nodes[m].present
           /\ m # n \/ ~nodes[m].present => Same(nodes'[m], nodes[m])
           /\ m = n /\ nodes[m].present =>
                /\ nodes'[m].depth = IF nodes[m].depth > 0
                                     THEN nodes[m].depth - 1 ELSE 0
                /\ nodes'[m].tokens = IF nodes[m].tokens >= est
                                      THEN nodes[m].tokens - est ELSE 0
<1>1. CASE ~nodes[n].present
  BY <1>1 DEF Release, Same
<1>2. CASE nodes[n].present
  <2> DEFINE x == nodes[n]
             depth == IF x.depth > 0 THEN x.depth - 1 ELSE x.depth
             tokens == IF x.tokens >= est THEN x.tokens - est ELSE 0
             cooldown == IF failed THEN Cooldown ELSE x.cooldown
             y == [x EXCEPT !.depth = depth, !.tokens = tokens,
                            !.cooldown = cooldown]
  <2>1. x \in NodeRec
    BY DEF RegTypeOK
  <2>2. y.present = x.present /\ y.depth = depth /\ y.tokens = tokens
    <3> HIDE DEF depth, tokens, cooldown
    <3> QED
      BY <2>1 DEF NodeRec
  <2>3. nodes' = [nodes EXCEPT ![n] = y]
    BY <1>2, Zenon DEF Release
  <2>4. nodes'[m] = IF m = n THEN y ELSE nodes[m]
    <3> HIDE DEF y
    <3> QED
      BY <2>3 DEF RegTypeOK
  <2>5. depth = IF x.depth > 0 THEN x.depth - 1 ELSE 0
    BY <2>1 DEF NodeRec
  <2> HIDE DEF y, depth
  <2> QED
    BY <1>2, <2>2, <2>4, <2>5 DEF Same
<1> QED
  BY <1>1, <1>2

LEMMA AgeCounts ==
    ASSUME RegTypeOK, NEW n \in Node, Age(n), NEW m \in Node
    PROVE  Same(nodes'[m], nodes[m]) /\ nodes'[m].present = nodes[m].present
<1> DEFINE x == nodes[n]
           age == IF x.age <= StaleAfter THEN x.age + 1 ELSE x.age
           cooldown == IF x.cooldown > 0 THEN x.cooldown - 1 ELSE x.cooldown
           y == [x EXCEPT !.age = age, !.cooldown = cooldown]
<1>1. x \in NodeRec
  BY DEF RegTypeOK
<1>2. y.present = x.present /\ y.depth = x.depth /\ y.tokens = x.tokens
  <2> HIDE DEF age, cooldown
  <2> QED
    BY <1>1 DEF NodeRec
<1>3. nodes' = [nodes EXCEPT ![n] = y]
  BY Zenon DEF Age
<1>4. nodes'[m] = IF m = n THEN y ELSE nodes[m]
  <2> HIDE DEF y
  <2> QED
    BY <1>3 DEF RegTypeOK
<1> HIDE DEF y
<1> QED
  BY <1>2, <1>4 DEF Same

LEMMA RemovalCounts ==
    ASSUME RegTypeOK, NEW m \in Node
    PROVE  /\ \A n \in Node : Unregister(n) =>
                IF m = n THEN Zero(nodes'[m]) ELSE nodes'[m] = nodes[m]
           /\ Sweep => IF m \in StaleNodes THEN Zero(nodes'[m])
                                           ELSE nodes'[m] = nodes[m]
BY DEF RegTypeOK, Unregister, Sweep, Absent, Zero
-----------------------------------------------------------------------------
(***************************************************************************)
(* The open reservations of a node, and how Take and Give change them.     *)
(***************************************************************************)
HeldInv ==
    /\ \A r \in Request : held[r] = {} \/ \E h \in Reservation : held[r] = {h}
    /\ \A n \in Node : IsFiniteSet(HeldOn(n))

\* Of the charges, as a function on all requests.
Charges == [r \in Request |-> ChargeOf(r)]

\* What is counted and summed on n.
Countable(n) == /\ HeldOn(n) \subseteq Request
                /\ IsFiniteSet(HeldOn(n))
                /\ Cardinality(HeldOn(n)) \in Nat
                /\ \A r \in HeldOn(n) : Charges[r] \in Nat
                /\ ChargedOn(n) = SumFunctionOnSet(Charges, HeldOn(n))
                /\ ChargedOn(n) \in Nat

LEMMA HeldIsCountable ==
    ASSUME HeldInv, NEW n \in Node
    PROVE  Countable(n)
<1>1. HeldOn(n) \subseteq Request /\ IsFiniteSet(HeldOn(n))
  BY DEF HeldInv, HeldOn
<1>2. \A r \in HeldOn(n) : Charges[r] \in Nat
  <2> SUFFICES ASSUME NEW r \in HeldOn(n)
               PROVE  ChargeOf(r) \in Nat
    BY <1>1 DEF Charges
  <2>1. PICK h \in Reservation : held[r] = {h}
    BY DEF HeldInv, HeldOn
  <2> QED
    BY <2>1 DEF ChargeOf, Reservation
<1> DEFINE own == [r \in HeldOn(n) |-> ChargeOf(r)]
<1>3. ChargedOn(n) = SumFunctionOnSet(own, HeldOn(n))
  <2>1. DOMAIN own = HeldOn(n)
    OBVIOUS
  <2> QED
    BY <2>1, Zenon DEF ChargedOn, SumFunction
<1>4. \A r \in HeldOn(n) : own[r] = Charges[r]
  BY <1>1 DEF Charges
<1> HIDE DEF own
<1>5. ChargedOn(n) = SumFunctionOnSet(Charges, HeldOn(n))
  BY <1>1, <1>3, <1>4, SumSame
<1> QED
  BY <1>1, <1>2, <1>5, SumNat, FS_CardinalityType DEF Countable

\* The same of the next state.
LEMMA HeldIsCountableNext == HeldInv' => (\A n \in Node : Countable(n))'
<1>1. HeldInv => \A n \in Node : Countable(n)
  BY HeldIsCountable
<1> QED
  BY <1>1, PTL

\* What a request is charged changes only with its reservation.
LEMMA ChargesFollow ==
    ASSUME NEW q \in Request, held'[q] = held[q]
    PROVE  Charges'[q] = Charges[q]
<1>1. Charges[q] = (CHOOSE h \in held[q] : TRUE).est
  BY DEF Charges, ChargeOf
<1>2. Charges'[q] = (CHOOSE h \in held'[q] : TRUE).est
  BY DEF Charges, ChargeOf
<1> QED
  BY <1>1, <1>2, Zenon

\* A reservation of r on n is added.
LEMMA TakeCounts ==
    ASSUME TypeOK, HeldInv, NEW r \in Request, held[r] = {},
           NEW h \in Reservation, held' = [held EXCEPT ![r] = {h}]
    PROVE  /\ HeldInv'
           /\ \A n \in Node :
                IF n = h.node
                THEN /\ Cardinality(HeldOn(n)') = Cardinality(HeldOn(n)) + 1
                     /\ ChargedOn(n)' = ChargedOn(n) + h.est
                ELSE /\ Cardinality(HeldOn(n)') = Cardinality(HeldOn(n))
                     /\ ChargedOn(n)' = ChargedOn(n)
<1>1. /\ held'[r] = {h}
      /\ \A q \in Request : q # r => held'[q] = held[q]
      /\ h.est \in Nat
  BY DEF TypeOK, Reservation
<1>2. ASSUME NEW n \in Node
      PROVE  /\ r \notin HeldOn(n)
             /\ HeldOn(n)' = IF n = h.node THEN HeldOn(n) \cup {r} ELSE HeldOn(n)
  BY <1>1 DEF HeldOn
<1>3. HeldInv'
  <2>1. ASSUME NEW n \in Node PROVE IsFiniteSet(HeldOn(n)')
    <3>1. IsFiniteSet(HeldOn(n)) /\ IsFiniteSet(HeldOn(n) \cup {r})
      BY HeldIsCountable, FS_AddElement DEF Countable
    <3> QED
      BY <1>2, <3>1
  <2>2. \A q \in Request : held'[q] = {} \/ \E k \in Reservation : held'[q] = {k}
    BY <1>1 DEF HeldInv
  <2> QED
    BY <2>1, <2>2 DEF HeldInv
<1>4. ASSUME NEW n \in Node
      PROVE  IF n = h.node
             THEN /\ Cardinality(HeldOn(n)') = Cardinality(HeldOn(n)) + 1
                  /\ ChargedOn(n)' = ChargedOn(n) + h.est
             ELSE /\ Cardinality(HeldOn(n)') = Cardinality(HeldOn(n))
                  /\ ChargedOn(n)' = ChargedOn(n)
  <2>1. /\ IsFiniteSet(HeldOn(n)) /\ HeldOn(n) \subseteq Request
        /\ ChargedOn(n) = SumFunctionOnSet(Charges, HeldOn(n))
        /\ ChargedOn(n) \in Nat
        /\ \A q \in HeldOn(n) : Charges[q] \in Nat
    BY HeldIsCountable DEF Countable
  <2>2. ChargedOn(n)' = SumFunctionOnSet(Charges', HeldOn(n)')
    BY <1>3, HeldIsCountableNext DEF Countable
  <2>3. \A q \in HeldOn(n) : Charges'[q] = Charges[q]
    <3> SUFFICES ASSUME NEW q \in HeldOn(n) PROVE Charges'[q] = Charges[q]
      OBVIOUS
    <3>1. q \in Request /\ held'[q] = held[q]
      BY <1>1, <1>2, <2>1
    <3> QED
      BY <3>1, ChargesFollow
  <2>4. Charges'[r] = h.est
    BY <1>1 DEF Charges, ChargeOf
  <2>5. SumFunctionOnSet(Charges', HeldOn(n)) = ChargedOn(n)
    BY <2>1, <2>3, SumSame
  <2>6. CASE n = h.node
    <3>1. HeldOn(n)' = HeldOn(n) \cup {r} /\ r \notin HeldOn(n)
      BY <1>2, <2>6
    <3>2. Cardinality(HeldOn(n) \cup {r}) = Cardinality(HeldOn(n)) + 1
      BY <2>1, <3>1, FS_AddElement
    <3>3. \A q \in HeldOn(n) \cup {r} : Charges'[q] \in Int
      BY <1>1, <2>1, <2>3, <2>4
    <3>4. SumFunctionOnSet(Charges', HeldOn(n) \cup {r})
            = Charges'[r] + SumFunctionOnSet(Charges', HeldOn(n))
      BY <2>1, <3>1, <3>3, SumAdd
    <3>5. ChargedOn(n)' = SumFunctionOnSet(Charges', HeldOn(n) \cup {r})
      BY <2>2, <3>1, Zenon
    <3>6. ChargedOn(n)' = ChargedOn(n) + h.est
      BY <1>1, <2>1, <2>4, <2>5, <3>4, <3>5
    <3>7. Cardinality(HeldOn(n)') = Cardinality(HeldOn(n)) + 1
      BY <3>1, <3>2, Zenon
    <3> QED
      BY <2>6, <3>6, <3>7
  <2>7. CASE n # h.node
    <3>1. HeldOn(n)' = HeldOn(n)
      BY <1>2, <2>7
    <3> QED
      BY <2>2, <2>5, <2>7, <3>1
  <2> QED
    BY <2>6, <2>7
<1> QED
  BY <1>3, <1>4

\* The reservation of r is removed.
LEMMA GiveCounts ==
    ASSUME TypeOK, HeldInv, NEW r \in Request,
           NEW h \in Reservation, held[r] = {h}, held' = [held EXCEPT ![r] = {}]
    PROVE  /\ HeldInv'
           /\ \A n \in Node :
                IF n = h.node
                THEN /\ Cardinality(HeldOn(n)') + 1 = Cardinality(HeldOn(n))
                     /\ ChargedOn(n)' + h.est = ChargedOn(n)
                ELSE /\ Cardinality(HeldOn(n)') = Cardinality(HeldOn(n))
                     /\ ChargedOn(n)' = ChargedOn(n)
<1>1. /\ held'[r] = {}
      /\ \A q \in Request : q # r => held'[q] = held[q]
      /\ h.est \in Nat
  BY DEF TypeOK, Reservation
<1>2. ASSUME NEW n \in Node
      PROVE  IF n = h.node
             THEN r \in HeldOn(n) /\ HeldOn(n)' = HeldOn(n) \ {r}
             ELSE r \notin HeldOn(n) /\ HeldOn(n)' = HeldOn(n)
  BY <1>1 DEF HeldOn
<1>3. HeldInv'
  <2>1. ASSUME NEW n \in Node PROVE IsFiniteSet(HeldOn(n)')
    <3>1. IsFiniteSet(HeldOn(n)) /\ IsFiniteSet(HeldOn(n) \ {r})
      BY HeldIsCountable, FS_RemoveElement DEF Countable
    <3> QED
      BY <1>2, <3>1
  <2>2. \A q \in Request : held'[q] = {} \/ \E k \in Reservation : held'[q] = {k}
    BY <1>1 DEF HeldInv
  <2> QED
    BY <2>1, <2>2 DEF HeldInv
<1>4. ASSUME NEW n \in Node
      PROVE  IF n = h.node
             THEN /\ Cardinality(HeldOn(n)') + 1 = Cardinality(HeldOn(n))
                  /\ ChargedOn(n)' + h.est = ChargedOn(n)
             ELSE /\ Cardinality(HeldOn(n)') = Cardinality(HeldOn(n))
                  /\ ChargedOn(n)' = ChargedOn(n)
  <2>1. /\ IsFiniteSet(HeldOn(n)) /\ HeldOn(n) \subseteq Request
        /\ Cardinality(HeldOn(n)) \in Nat
        /\ ChargedOn(n) = SumFunctionOnSet(Charges, HeldOn(n))
        /\ ChargedOn(n) \in Nat
        /\ \A q \in HeldOn(n) : Charges[q] \in Nat
    BY HeldIsCountable DEF Countable
  <2>2. /\ ChargedOn(n)' = SumFunctionOnSet(Charges', HeldOn(n)')
        /\ ChargedOn(n)' \in Nat
        /\ IsFiniteSet(HeldOn(n)')
    BY <1>3, HeldIsCountableNext DEF Countable
  <2>3. \A q \in HeldOn(n)' : Charges'[q] = Charges[q]
    <3>1. \A q \in HeldOn(n)' : q \in Request /\ q # r
      BY <1>1 DEF HeldOn
    <3>2. \A q \in HeldOn(n)' : held'[q] = held[q]
      BY <1>1, <3>1
    <3> QED
      BY <3>1, <3>2, ChargesFollow
  <2>4. Charges[r] = h.est
    BY DEF Charges, ChargeOf
  <2>5. ChargedOn(n)' = SumFunctionOnSet(Charges, HeldOn(n)')
    BY <2>2, <2>3, SumSame
  <2>6. CASE n = h.node
    <3>1. HeldOn(n)' = HeldOn(n) \ {r} /\ r \in HeldOn(n)
      BY <1>2, <2>6
    <3>2. Cardinality(HeldOn(n) \ {r}) = Cardinality(HeldOn(n)) - 1
      BY <2>1, <3>1, FS_RemoveElement
    <3>3. SumFunctionOnSet(Charges, HeldOn(n))
            = Charges[r] + SumFunctionOnSet(Charges, HeldOn(n) \ {r})
      BY <2>1, <3>1, SumTake
    <3>4. ChargedOn(n)' = SumFunctionOnSet(Charges, HeldOn(n) \ {r})
      BY <2>5, <3>1, Zenon
    <3>5. ChargedOn(n)' + h.est = ChargedOn(n)
      BY <1>1, <2>1, <2>2, <2>4, <3>3, <3>4
    <3>6. Cardinality(HeldOn(n)') = Cardinality(HeldOn(n)) - 1
      BY <3>1, <3>2, Zenon
    <3> QED
      BY <2>1, <2>6, <3>5, <3>6
  <2>7. CASE n # h.node
    <3>1. HeldOn(n)' = HeldOn(n)
      BY <1>2, <2>7
    <3> QED
      BY <2>1, <2>5, <2>7, <3>1
  <2> QED
    BY <2>6, <2>7
<1> QED
  BY <1>3, <1>4
-----------------------------------------------------------------------------
(***************************************************************************)
(* A record that is not in the table counts nothing, which a registration  *)
(* then starts from: without it neither invariant is inductive.            *)
(***************************************************************************)
CountInv ==
    /\ HeldInv
    /\ \A n \in Node : ~nodes[n].present => Zero(nodes[n])
    /\ NeverOverbooked
    /\ ExactAccounting

LEMMA CountInit == Init => CountInv
<1> SUFFICES ASSUME Init PROVE CountInv
  OBVIOUS
<1>1. /\ \A r \in Request : held[r] = {}
      /\ \A n \in Node : nodes[n].depth = 0 /\ nodes[n].tokens = 0
  BY DEF Init, RegInit, Absent
<1>2. \A n \in Node : HeldOn(n) = {}
  BY <1>1 DEF HeldOn
<1>3. HeldInv
  BY <1>1, <1>2, FS_EmptySet DEF HeldInv
<1>4. ASSUME NEW n \in Node
      PROVE  Cardinality(HeldOn(n)) = 0 /\ ChargedOn(n) = 0
  <2>1. ChargedOn(n) = SumFunctionOnSet(Charges, {})
    BY <1>2, <1>3, HeldIsCountable DEF Countable
  <2> QED
    BY <1>2, <2>1, SumEmpty, FS_EmptySet
<1> QED
  BY <1>1, <1>3, <1>4 DEF CountInv, NeverOverbooked, ExactAccounting, Zero

\* The reservations stay; a counter stays, is reset, or is reported anew.
LEMMA CountKept ==
    ASSUME TypeOK, CountInv, UNCHANGED held,
           \A n \in Node :
              /\ ~nodes'[n].present => Zero(nodes'[n])
              /\ n \in Steady => Same(nodes'[n], nodes[n])
              /\ \/ Same(nodes'[n], nodes[n])
                 \/ Zero(nodes'[n])
                 \/ /\ nodes'[n].tokens = nodes[n].tokens
                    /\ nodes'[n].depth \in 0..MaxReport
    PROVE  CountInv'
<1>1. /\ \A n \in Node : HeldOn(n)' = HeldOn(n) /\ ChargedOn(n)' = ChargedOn(n)
      /\ HeldInv'
  BY DEF HeldOn, ChargedOn, ChargeOf, CountInv, HeldInv
<1>2. \A n \in Node : /\ Cardinality(HeldOn(n)) \in Nat
                      /\ ChargedOn(n) \in Nat
  BY HeldIsCountable DEF CountInv, Countable
<1>3. NeverOverbooked'
  <2> SUFFICES ASSUME NEW n \in Node
               PROVE  /\ nodes'[n].depth <= Cardinality(HeldOn(n)) + MaxReport
                      /\ nodes'[n].tokens <= ChargedOn(n)
    BY <1>1 DEF NeverOverbooked
  <2>1. /\ nodes[n].depth <= Cardinality(HeldOn(n)) + MaxReport
        /\ nodes[n].tokens <= ChargedOn(n)
    BY DEF CountInv, NeverOverbooked
  <2> QED
    BY <1>2, <2>1 DEF Same, Zero
<1>4. ExactAccounting'
  BY <1>1 DEF CountInv, ExactAccounting, Same
<1> QED
  BY <1>1, <1>3, <1>4 DEF CountInv

LEMMA CountTake ==
    ASSUME TypeOK, CountInv, NEW r \in Request, Take(r)
    PROVE  CountInv'
<1>1. PICK m \in Model, est \in Charge : \E n \in Cheapest(m) :
        /\ Reserve(n, est)
        /\ held' = [held EXCEPT ![r] = {[node |-> n, est |-> est, model |-> m]}]
  BY DEF Take
<1>2. PICK n \in Cheapest(m) :
        /\ Reserve(n, est)
        /\ held' = [held EXCEPT ![r] = {[node |-> n, est |-> est, model |-> m]}]
  BY <1>1
<1>3. n \in Node /\ est \in Nat /\ nodes[n].present
  BY <1>2 DEF Cheapest, Eligible
<1> DEFINE h == [node |-> n, est |-> est, model |-> m]
<1>4. h \in Reservation /\ h.node = n /\ h.est = est
  BY <1>3 DEF Reservation
<1>5. held[r] = {} /\ held' = [held EXCEPT ![r] = {h}]
  BY <1>2 DEF Take
<1> HIDE DEF h
<1>6. /\ HeldInv'
      /\ \A k \in Node :
           IF k = n
           THEN /\ Cardinality(HeldOn(k)') = Cardinality(HeldOn(k)) + 1
                /\ ChargedOn(k)' = ChargedOn(k) + est
           ELSE /\ Cardinality(HeldOn(k)') = Cardinality(HeldOn(k))
                /\ ChargedOn(k)' = ChargedOn(k)
  BY <1>4, <1>5, TakeCounts DEF CountInv
<1>7. \A k \in Node :
        /\ nodes'[k].present = nodes[k].present
        /\ k # n => Same(nodes'[k], nodes[k])
        /\ k = n => /\ nodes'[k].depth = nodes[k].depth + 1
                    /\ nodes'[k].tokens = nodes[k].tokens + est
  BY <1>2, <1>3, ReserveCounts DEF TypeOK
<1>8. \A k \in Node : /\ Cardinality(HeldOn(k)) \in Nat /\ ChargedOn(k) \in Nat
                      /\ nodes[k].depth \in Nat /\ nodes[k].tokens \in Nat
  BY HeldIsCountable DEF CountInv, Countable, TypeOK, RegTypeOK, NodeRec
<1>9. \A k \in Node : ~nodes'[k].present => Zero(nodes'[k])
  BY <1>3, <1>7 DEF CountInv, Same, Zero
<1>10. NeverOverbooked'
  BY <1>3, <1>6, <1>7, <1>8 DEF CountInv, NeverOverbooked, Same
<1>11. ExactAccounting'
  BY <1>3, <1>6, <1>7, <1>8 DEF CountInv, ExactAccounting, Same
<1> QED
  BY <1>6, <1>9, <1>10, <1>11 DEF CountInv

LEMMA CountGive ==
    ASSUME TypeOK, CountInv, NEW r \in Request, Give(r)
    PROVE  CountInv'
<1>1. PICK h \in held[r], failed \in BOOLEAN :
        /\ Release(h.node, h.est, failed)
        /\ held' = [held EXCEPT ![r] = {}]
  BY DEF Give
<1>2. h \in Reservation /\ held[r] = {h} /\ h.node \in Node /\ h.est \in Nat
  <2>1. h \in Reservation
    BY DEF TypeOK
  <2>2. held[r] = {h}
    BY DEF CountInv, HeldInv
  <2> QED
    BY <2>1, <2>2 DEF Reservation
<1>3. /\ HeldInv'
      /\ \A n \in Node :
           IF n = h.node
           THEN /\ Cardinality(HeldOn(n)') + 1 = Cardinality(HeldOn(n))
                /\ ChargedOn(n)' + h.est = ChargedOn(n)
           ELSE /\ Cardinality(HeldOn(n)') = Cardinality(HeldOn(n))
                /\ ChargedOn(n)' = ChargedOn(n)
  BY <1>1, <1>2, GiveCounts DEF CountInv
<1>4. \A m \in Node :
        /\ nodes'[m].present = nodes[m].present
        /\ m # h.node \/ ~nodes[m].present => Same(nodes'[m], nodes[m])
        /\ m = h.node /\ nodes[m].present =>
             /\ nodes'[m].depth = IF nodes[m].depth > 0
                                  THEN nodes[m].depth - 1 ELSE 0
             /\ nodes'[m].tokens = IF nodes[m].tokens >= h.est
                                   THEN nodes[m].tokens - h.est ELSE 0
  BY <1>1, <1>2, ReleaseCounts DEF TypeOK
<1>5. \A n \in Node : /\ Cardinality(HeldOn(n)) \in Nat /\ ChargedOn(n) \in Nat
                      /\ Cardinality(HeldOn(n)') \in Nat /\ ChargedOn(n)' \in Nat
                      /\ nodes[n].depth \in Nat /\ nodes[n].tokens \in Nat
  BY <1>3, HeldIsCountable, HeldIsCountableNext
     DEF CountInv, Countable, TypeOK, RegTypeOK, NodeRec
<1>6. \A n \in Node : ~nodes'[n].present => Zero(nodes'[n])
  BY <1>4 DEF CountInv, Same, Zero
<1>7. NeverOverbooked'
  <2> SUFFICES ASSUME NEW n \in Node
               PROVE  /\ nodes'[n].depth <= Cardinality(HeldOn(n)') + MaxReport
                      /\ nodes'[n].tokens <= ChargedOn(n)'
    BY DEF NeverOverbooked
  <2>1. /\ nodes[n].depth <= Cardinality(HeldOn(n)) + MaxReport
        /\ nodes[n].tokens <= ChargedOn(n)
    BY DEF CountInv, NeverOverbooked
  <2>2. CASE n # h.node
    BY <1>3, <1>4, <2>1, <2>2 DEF Same
  <2>3. CASE n = h.node /\ nodes[n].present
    BY <1>2, <1>3, <1>4, <1>5, <2>1, <2>3
  <2>4. CASE n = h.node /\ ~nodes[n].present
    <3>1. nodes'[n].depth = 0 /\ nodes'[n].tokens = 0
      BY <1>4, <2>4 DEF CountInv, Same, Zero
    <3> QED
      BY <1>5, <3>1
  <2> QED
    BY <2>2, <2>3, <2>4
<1>8. ExactAccounting'
  <2> SUFFICES ASSUME NEW n \in Steady
               PROVE  /\ nodes'[n].depth = Cardinality(HeldOn(n)')
                      /\ nodes'[n].tokens = ChargedOn(n)'
    BY DEF ExactAccounting
  <2>1. /\ nodes[n].depth = Cardinality(HeldOn(n))
        /\ nodes[n].tokens = ChargedOn(n)
        /\ n \in Node
    BY DEF CountInv, ExactAccounting
  <2>2. CASE n # h.node
    BY <1>3, <1>4, <2>1, <2>2 DEF Same
  <2>3. CASE n = h.node
    <3>1. nodes[n].depth > 0
      BY <1>3, <1>5, <2>1, <2>3
    <3>2. nodes[n].present
      BY <2>1, <3>1 DEF CountInv, Zero
    <3> QED
      BY <1>2, <1>3, <1>4, <1>5, <2>1, <2>3, <3>1, <3>2
  <2> QED
    BY <2>2, <2>3
<1> QED
  BY <1>3, <1>6, <1>7, <1>8 DEF CountInv

LEMMA CountStep == TypeOK /\ RestInv /\ CountInv /\ [Next]_vars => CountInv'
<1> SUFFICES ASSUME TypeOK, RestInv, CountInv, [Next]_vars PROVE CountInv'
  OBVIOUS
<1>1. RegTypeOK /\ \A n \in Node : ~nodes[n].present => Zero(nodes[n])
  BY DEF TypeOK, CountInv
<1>2. ASSUME NEW n \in Node, Join(n) PROVE CountInv'
  <2>1. PICK models \in SUBSET Model : Register(n, models) /\ UNCHANGED held
    BY <1>2 DEF Join
  <2>2. \A m \in Node : /\ Same(nodes'[m], nodes[m])
                        /\ nodes[m].present => nodes'[m].present
    BY <1>1, <2>1, RegisterCounts
  <2> QED
    BY <1>1, <2>1, <2>2, CountKept DEF Same, Zero
<1>3. ASSUME NEW n \in Node, Beat(n) PROVE CountInv'
  <2>1. PICK q \in 0..(IF n \in Steady THEN 0 ELSE MaxReport) :
          Heartbeat(n, q) /\ UNCHANGED held
    BY <1>3 DEF Beat
  <2>2. q \in Nat /\ q \in 0..MaxReport /\ (n \in Steady => q = 0)
    BY <2>1
  <2>3. \A m \in Node :
          /\ nodes'[m].present = nodes[m].present
          /\ nodes'[m].tokens = nodes[m].tokens
          /\ \/ nodes'[m].depth = nodes[m].depth
             \/ /\ m = n /\ nodes[m].present
                /\ nodes[m].depth = 0 /\ nodes'[m].depth = q
    BY <1>1, <2>1, <2>2, HeartbeatCounts
  <2>4. \A m \in Steady : Same(nodes'[m], nodes[m])
    BY <2>2, <2>3 DEF Same
  <2> QED
    BY <1>1, <2>1, <2>2, <2>3, <2>4, CountKept DEF Same, Zero
<1>4. ASSUME NEW n \in Node, Leave(n) PROVE CountInv'
  <2>1. \A m \in Node : IF m = n THEN Zero(nodes'[m]) ELSE nodes'[m] = nodes[m]
    BY <1>1, <1>4, RemovalCounts DEF Leave
  <2> QED
    BY <1>1, <1>4, <2>1, CountKept DEF Leave, Same, Zero
<1>5. CASE Prune
  <2>1. \A m \in Node : IF m \in StaleNodes THEN Zero(nodes'[m])
                                            ELSE nodes'[m] = nodes[m]
    BY <1>1, <1>5, RemovalCounts DEF Prune
  <2>2. \A n \in Steady : n \notin StaleNodes
    BY DEF StaleNodes, Stale, RestInv, TypeOK, RegTypeOK, NodeRec
  <2> QED
    BY <1>1, <1>5, <2>1, <2>2, CountKept DEF Prune, Same, Zero
<1>6. ASSUME NEW n \in Node, Tick(n) PROVE CountInv'
  <2>1. \A m \in Node : /\ Same(nodes'[m], nodes[m])
                        /\ nodes'[m].present = nodes[m].present
    BY <1>1, <1>6, AgeCounts DEF Tick, Same
  <2> QED
    BY <1>1, <1>6, <2>1, CountKept DEF Tick, Same, Zero
<1>7. CASE UNCHANGED vars
  BY <1>1, <1>7, CountKept DEF Same, Zero
<1> QED
  BY <1>2, <1>3, <1>4, <1>5, <1>6, <1>7, CountTake, CountGive DEF Next

(***************************************************************************)
(* For any number of nodes and callers, whatever nodes register, report    *)
(* and leave: a node is never thought busier than its open reservations    *)
(* and one report make it.                                                 *)
(***************************************************************************)
THEOREM NodesNeverOverbooked == Spec => []NeverOverbooked
<1>1. CountInv => NeverOverbooked
  BY DEF CountInv
<1> QED
  BY <1>1, TypeInit, TypeStep, RestInit, RestStep, CountInit, CountStep, PTL
     DEF Spec

(***************************************************************************)
(* The counters of a node that stays in the table and reports an empty     *)
(* queue are the number and the sum of its open reservations exactly, so   *)
(* every release restores the capacity that the reservation took.          *)
(***************************************************************************)
THEOREM AccountingIsExact == Spec => []ExactAccounting
<1>1. CountInv => ExactAccounting
  BY DEF CountInv
<1> QED
  BY <1>1, TypeInit, TypeStep, RestInit, RestStep, CountInit, CountStep, PTL
     DEF Spec
=============================================================================
