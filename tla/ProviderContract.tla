--------------------------- MODULE ProviderContract ---------------------------
(***************************************************************************)
(* What the hub takes for granted of a provider process (the environment   *)
(* of Hub.tla: its jobs, ReadChunk and ReadTerminal): a request is taken   *)
(* once, over a live connection; while it is worked on its provider may    *)
(* say that it was accepted, then chunks, then how it ended, each only     *)
(* over a connection; nothing follows the end, and nothing is said of a    *)
(* request whose work is over.  ProviderClient.tla is shown to implement   *)
(* this.                                                                   *)
(***************************************************************************)
CONSTANT Request

VARIABLES
    connected,  \* does the process have a connection?
    work,       \* what it does for each request
    told        \* the last event it sent of each request

Work == {"none", "running", "over"}
Told == {"nothing", "accepted", "chunk", "complete", "error"}

Init == /\ connected = FALSE
        /\ work = [r \in Request |-> "none"]
        /\ told = [r \in Request |-> "nothing"]

Connect == /\ connected' = TRUE
           /\ UNCHANGED <<work, told>>
Disconnect == /\ connected' = FALSE
              /\ UNCHANGED <<work, told>>

Take(r) == /\ connected
           /\ work[r] = "none"
           /\ work' = [work EXCEPT ![r] = "running"]
           /\ UNCHANGED <<connected, told>>

Tell(r, from, event) == /\ connected
                        /\ work[r] = "running"
                        /\ told[r] \in from
                        /\ told' = [told EXCEPT ![r] = event]
                        /\ UNCHANGED <<connected, work>>

Accepted(r) == Tell(r, {"nothing"}, "accepted")
Chunk(r) == Tell(r, {"nothing", "accepted", "chunk"}, "chunk")
Complete(r) == Tell(r, {"nothing", "accepted", "chunk"}, "complete")
Error(r) == Tell(r, {"nothing", "accepted", "chunk"}, "error")

\* The end may have gone unsaid, for want of a connection.
End(r) == /\ work[r] = "running"
          /\ work' = [work EXCEPT ![r] = "over"]
          /\ UNCHANGED <<connected, told>>

Next == \/ Connect \/ Disconnect
        \/ \E r \in Request :
              \/ Take(r) \/ Accepted(r) \/ Chunk(r) \/ Complete(r) \/ Error(r)
              \/ End(r)

Spec == Init /\ [][Next]_<<connected, work, told>>
=============================================================================
