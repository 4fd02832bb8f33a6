------------------------------ MODULE Registry ------------------------------
(***************************************************************************)
(* The coordinator's node table (coordinator/internal/registry).  Every    *)
(* operation holds Registry.mu from its first line to its last, so each    *)
(* one is a single step here.  The module gives the table and its          *)
(* operations; Scheduler.tla drives them the way scheduler.go documents,   *)
(* Hub.tla and Dispatch.tla the way the hub and the gateway call them.     *)
(***************************************************************************)
EXTENDS Integers, FiniteSets

CONSTANTS
    Node,         \* node ids; a provider keeps its id across reconnects
    Model,        \* model names a node may have resident
    StaleAfter,   \* staleAfter, in ticks of the clock
    Cooldown      \* the error cooldown that a failed Release sets, in ticks

ASSUME TicksAssumption == StaleAfter \in Nat /\ Cooldown \in Nat

VARIABLE nodes    \* Registry.nodes: the Node record kept for each id

(***************************************************************************)
(* Times are kept relative to now: age is the number of ticks since        *)
(* LastSeen (beyond StaleAfter all ages are alike), cooldown the ticks     *)
(* left until ErrCooldownUntil.  Names, keys, memory, the canary tallies   *)
(* and TotalRequests take part in no decision and are left out.            *)
(***************************************************************************)
NodeRec == [present: BOOLEAN, models: SUBSET Model, depth: Nat, tokens: Nat,
            age: 0..(StaleAfter + 1), cooldown: 0..Cooldown]

RegTypeOK == nodes \in [Node -> NodeRec]

\* What the table holds for an id that is not a key of the map.
Absent == [present |-> FALSE, models |-> {}, depth |-> 0, tokens |-> 0,
           age |-> 0, cooldown |-> 0]

RegInit == nodes = [n \in Node |-> Absent]

\* Mutant of Stale: a node is stale as soon as its age reaches the limit.
StaleAtLimit(n) == nodes[n].age >= StaleAfter

Stale(n) == nodes[n].age > StaleAfter

\* Mutant of Register: a node that registers again gets a fresh record.
RegisterAfresh(n, models) ==
    nodes' = [nodes EXCEPT ![n] = [Absent EXCEPT !.present = TRUE,
                                                 !.models = models]]

Register(n, models) ==
    nodes' = [nodes EXCEPT ![n] = [@ EXCEPT !.present = TRUE,
                                            !.models = models,
                                            !.age = 0]]

\* An unknown id is ignored; the reported depth is adopted only over zero.
Heartbeat(n, reported) ==
    LET x == nodes[n] IN
    nodes' = IF x.present
             THEN [nodes EXCEPT ![n] =
                     [x EXCEPT !.age = 0,
                               !.depth = IF x.depth = 0 /\ reported > x.depth
                                         THEN reported ELSE x.depth]]
             ELSE nodes

Unregister(n) == nodes' = [nodes EXCEPT ![n] = Absent]

StaleNodes == {n \in Node : nodes[n].present /\ Stale(n)}

Sweep == nodes' = [n \in Node |-> IF n \in StaleNodes THEN Absent ELSE nodes[n]]

\* Mutant of Eligible: the cooldown is not looked at.
EligibleThoughCooling(model) ==
    {n \in Node : nodes[n].present /\ ~Stale(n) /\ model \in nodes[n].models}

Eligible(model) == {n \in Node : /\ nodes[n].present
                                 /\ ~Stale(n)
                                 /\ model \in nodes[n].models
                                 /\ nodes[n].cooldown = 0}

Cost(n) == nodes[n].depth * 2000 + nodes[n].tokens * 2

\* Mutant of Cheapest: the comparison is the wrong way round.
Dearest(model) ==
    {n \in Eligible(model) : \A o \in Eligible(model) : Cost(n) >= Cost(o)}

\* The nodes Reserve may return: which of several cheapest ones it meets
\* first depends on Go's map order.
Cheapest(model) ==
    {n \in Eligible(model) : \A o \in Eligible(model) : Cost(n) <= Cost(o)}

Reserve(n, est) ==
    LET x == nodes[n] IN
    nodes' = [nodes EXCEPT ![n] = [x EXCEPT !.depth = x.depth + 1,
                                            !.tokens = x.tokens + est]]

\* Mutant of Release: too large a charge leaves the tokens as they are.
ReleaseSkipsLargeCharge(n, est, failed) ==
    nodes' = IF nodes[n].present
             THEN [nodes EXCEPT ![n].depth = IF @ > 0 THEN @ - 1 ELSE @,
                                ![n].tokens = IF @ >= est THEN @ - est ELSE @,
                                ![n].cooldown = IF failed THEN Cooldown ELSE @]
             ELSE nodes

Release(n, est, failed) ==
    LET x == nodes[n] IN
    nodes' = IF x.present
             THEN [nodes EXCEPT ![n] =
                     [x EXCEPT
                        !.depth = IF x.depth > 0 THEN x.depth - 1 ELSE x.depth,
                        !.tokens = IF x.tokens >= est THEN x.tokens - est ELSE 0,
                        !.cooldown = IF failed THEN Cooldown ELSE x.cooldown]]
             ELSE nodes

\* A tick passes for the record of n.  Staleness and cooldown compare a
\* node's own times with the clock, never those of two nodes.
Age(n) ==
    /\ nodes[n].present
    /\ LET x == nodes[n] IN
       nodes' = [nodes EXCEPT ![n] =
                   [x EXCEPT
                      !.age = IF x.age <= StaleAfter THEN x.age + 1 ELSE x.age,
                      !.cooldown = IF x.cooldown > 0 THEN x.cooldown - 1
                                                     ELSE x.cooldown]]
=============================================================================
