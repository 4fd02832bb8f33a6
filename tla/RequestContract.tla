--------------------------- MODULE RequestContract ---------------------------
(***************************************************************************)
(* What the dispatch path promises about one request, whatever providers,  *)
(* connections and the sweeper do: it is handed to a provider at most      *)
(* once; a refusal means no provider ever works on it; success is reported *)
(* only after a provider has ended its work; and a request, once answered, *)
(* stays answered as it was.  Dispatch.tla is shown to implement this.     *)
(***************************************************************************)
CONSTANT Request

VARIABLES
    phase,   \* the request as its caller sees it
    work     \* the request as providers see it

Phase == {"new", "open", "sent", "ok", "error", "refused", "given_up",
          "aborted"}
Work == {"none", "queued", "running", "over"}

TypeOK == phase \in [Request -> Phase] /\ work \in [Request -> Work]

Init == /\ phase = [r \in Request |-> "new"]
        /\ work = [r \in Request |-> "none"]

Move(r, from, to) == /\ phase[r] \in from
                     /\ phase' = [phase EXCEPT ![r] = to]

Accept(r) == Move(r, {"new"}, "open") /\ UNCHANGED work

\* 503 or 502: the caller may try again without the work being done twice.
Refuse(r) == Move(r, {"new", "open"}, "refused") /\ UNCHANGED work

HandOver(r) == /\ Move(r, {"open"}, "sent")
               /\ work' = [work EXCEPT ![r] = "queued"]

Succeed(r) == /\ work[r] = "over"
              /\ Move(r, {"sent"}, "ok")
              /\ UNCHANGED work

Fail(r) == Move(r, {"sent"}, "error") /\ UNCHANGED work

\* The timer fired or the caller left; the caller of an aborted request
\* finds its connection cut.
GiveUp(r) == Move(r, {"sent"}, "given_up") /\ UNCHANGED work
Abort(r) == Move(r, {"open", "sent"}, "aborted") /\ UNCHANGED work

StartWork(r) == /\ work[r] = "queued"
                /\ work' = [work EXCEPT ![r] = "running"]
                /\ UNCHANGED phase

EndWork(r) == /\ work[r] = "running"
              /\ work' = [work EXCEPT ![r] = "over"]
              /\ UNCHANGED phase

Next == \E r \in Request :
            \/ Accept(r) \/ Refuse(r) \/ HandOver(r)
            \/ Succeed(r) \/ Fail(r) \/ GiveUp(r) \/ Abort(r)
            \/ StartWork(r) \/ EndWork(r)

Spec == Init /\ [][Next]_<<phase, work>>
=============================================================================
