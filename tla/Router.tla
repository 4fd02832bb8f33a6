------------------------------- MODULE Router -------------------------------
(***************************************************************************)
(* The coordinator's event router (coordinator/internal/server/router.go): *)
(* the buffered channel on which the gateway handler of a request awaits   *)
(* the events that the hub's read loops deliver.  Deliver looks the        *)
(* channel up under the lock and sends after unlocking; the two halves are *)
(* one step here, because a channel that was resolved in between has no    *)
(* reader left and what is sent to it is never seen.                       *)
(***************************************************************************)
EXTENDS Naturals, Sequences

CONSTANTS
    Request,     \* request ids
    EventCap     \* capacity of an event channel (256 in the code)

ASSUME EventCapAssumption == EventCap \in Nat \ {0}

VARIABLES
    routed,      \* the requests with an entry in Router.chans
    events       \* the buffered events of each request's channel

\* accepted and chunk are alike to the gateway: neither ends a request.
Terminal == {"complete", "error"}
Event == {"chunk"} \cup Terminal

RouterTypeOK == /\ routed \subseteq Request
                /\ events \in [Request -> Seq(Event)]
                /\ \A r \in Request : Len(events[r]) <= EventCap

RouterInit == /\ routed = {}
              /\ events = [r \in Request |-> << >>]

Create(r) == /\ routed' = routed \cup {r}
             /\ events' = [events EXCEPT ![r] = << >>]

Resolve(r) == /\ routed' = routed \ {r}
              /\ events' = [events EXCEPT ![r] = << >>]

\* Dropped when nobody waits for r, and when the handler is too slow.
Deliver(r, e) ==
    /\ events' = IF r \in routed /\ Len(events[r]) < EventCap
                 THEN [events EXCEPT ![r] = Append(@, e)]
                 ELSE events
    /\ UNCHANGED routed

\* The handler receives the oldest event.
Receive(r) == /\ events' = [events EXCEPT ![r] = Tail(@)]
              /\ UNCHANGED routed
=============================================================================
