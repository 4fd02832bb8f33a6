------------------------------ MODULE Scheduler ------------------------------
(***************************************************************************)
(* The registry under the discipline its comments state and its tests      *)
(* follow (registry/scheduler.go, scheduler_test.go): every reservation is *)
(* released once, as a success or as a failure, while nodes register,      *)
(* report, go stale and leave.  The coordinator itself never calls         *)
(* Release; what that does is in Dispatch.tla.                             *)
(***************************************************************************)
EXTENDS Registry, Functions

CONSTANTS
    Request,      \* the callers of Reserve
    Charge,       \* the admission charges they reserve with
    MaxReport,    \* the largest queue depth a heartbeat reports
    Steady        \* nodes that never leave and always report an empty queue

ASSUME SchedulerAssumption ==
    /\ Charge \subseteq Nat
    /\ MaxReport \in Nat
    /\ Steady \subseteq Node

VARIABLES
    held,    \* the reservations not yet released: {} or one [node, est, model]
    sore     \* history: ticks for which a node that failed should be spared

vars == <<nodes, held, sore>>

Reservation == [node: Node, est: Charge, model: Model]

TypeOK ==
    /\ RegTypeOK
    /\ held \in [Request -> SUBSET Reservation]
    /\ sore \in [Node -> 0..Cooldown]

Init ==
    /\ RegInit
    /\ held = [r \in Request |-> {}]
    /\ sore = [n \in Node |-> 0]

Join(n) == \E models \in SUBSET Model \ {{}} :
              Register(n, models) /\ UNCHANGED <<held, sore>>

Beat(n) == /\ \E q \in 0..(IF n \in Steady THEN 0 ELSE MaxReport) : Heartbeat(n, q)
           /\ UNCHANGED <<held, sore>>

Leave(n) == /\ n \notin Steady /\ nodes[n].present
            /\ Unregister(n)
            /\ UNCHANGED <<held, sore>>

Prune == /\ StaleNodes # {}
         /\ Sweep
         /\ UNCHANGED <<held, sore>>

Take(r) ==
    /\ held[r] = {}
    /\ \E m \in Model, est \in Charge : \E n \in Cheapest(m) :
         /\ Reserve(n, est)
         /\ held' = [held EXCEPT ![r] = {[node |-> n, est |-> est, model |-> m]}]
    /\ UNCHANGED sore

Give(r) ==
    \E h \in held[r], failed \in BOOLEAN :
        /\ Release(h.node, h.est, failed)
        /\ held' = [held EXCEPT ![r] = {}]
        /\ sore' = IF failed THEN [sore EXCEPT ![h.node] = Cooldown] ELSE sore

\* A tick passes for n, in the table or not; a steady node's heartbeat is
\* never so late that it may be swept.
Tick(n) ==
    /\ n \in Steady => nodes[n].age < StaleAfter
    /\ Age(n) \/ (~nodes[n].present /\ UNCHANGED nodes)
    /\ sore' = [sore EXCEPT ![n] = IF @ > 0 THEN @ - 1 ELSE @]
    /\ UNCHANGED held

Next ==
    \/ \E n \in Node : Join(n) \/ Beat(n) \/ Leave(n) \/ Tick(n)
    \/ Prune
    \/ \E r \in Request : Take(r) \/ Give(r)

Spec == Init /\ [][Next]_vars

-----------------------------------------------------------------------------
HeldOn(n) == {r \in Request : \E h \in held[r] : h.node = n}
ChargeOf(r) == (CHOOSE h \in held[r] : TRUE).est
ChargedOn(n) == SumFunction([r \in HeldOn(n) |-> ChargeOf(r)])

\* A node is never thought busier than its open reservations and one report
\* make it, so it cannot be starved by work nobody does.  It takes the floors
\* of Release: a reservation made before the node left and came back is
\* released against the fresh record.
NeverOverbooked ==
    \A n \in Node : /\ nodes[n].depth <= Cardinality(HeldOn(n)) + MaxReport
                    /\ nodes[n].tokens <= ChargedOn(n)

\* While a node stays and reports an empty queue, its counters are the open
\* reservations exactly: releasing restores capacity (scheduler_test.go:44).
ExactAccounting ==
    \A n \in Steady : /\ nodes[n].depth = Cardinality(HeldOn(n))
                      /\ nodes[n].tokens = ChargedOn(n)

\* A reservation never joins a queue while a node that could serve it idles
\* (scheduler_test.go:24).
NoQueueBesideIdle ==
    [][\A r \in Request : held[r] = {} =>
         \A h \in held'[r] : \A o \in Eligible(h.model) :
            (nodes[o].depth = 0 /\ nodes[o].tokens = 0)
                => (nodes[h.node].depth = 0 /\ nodes[h.node].tokens = 0)]_vars

\* registry.go:28: a node that failed is excluded from selection for the whole
\* cooldown, counted from its failure, through heartbeats, re-registrations
\* and later releases, as long as it stays in the table.
FailedNodeRests ==
    [][\A r \in Request : held[r] = {} =>
         \A h \in held'[r] : h.node \in Steady => sore[h.node] = 0]_vars
=============================================================================
