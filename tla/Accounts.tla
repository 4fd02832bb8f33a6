------------------------------ MODULE Accounts ------------------------------
(***************************************************************************)
(* What users pay in and are paid out.  A developer's deposits arrive as   *)
(* webhooks, perhaps repeated and at once (dodo.go, DodoCredit); a request *)
(* takes a token of its developer's bucket (ratelimit.go), is admitted by  *)
(* the balance before it is dispatched, and is charged when it is over     *)
(* (gateway.go; the charging is in Settlement, the amount comes from       *)
(* there); payouts are asked for on the console's page and approved and    *)
(* marked as paid by admins (console.go, MarkPayout, SettlePayout).        *)
(***************************************************************************)
EXTENDS Integers, FiniteSets, Functions

CONSTANTS
    User,
    Payment, PayerOf, Amount,   \* deposits: who pays, what is to be credited
    Delivery, PaymentOf,        \* the webhooks sent for them
    Request, CallerOf,
    Charge,                     \* what a request may cost
    MinCharge,                  \* store.MinChargeMicro
    Burst, Rate, Cost,          \* a bucket's size and its refill per tick, in
                                \* units of which a request costs Cost
    Span,                       \* bound: the longest span of time, in ticks,
                                \* over which ages are told apart
    Payout,
    Marking                     \* calls of SettlePayout

ASSUME AccountsAssumption ==
    /\ PayerOf \in [Payment -> User] /\ Amount \in [Payment -> Nat]
    /\ PaymentOf \in [Delivery -> Payment]
    /\ CallerOf \in [Request -> User]
    /\ Charge \subseteq Nat /\ MinCharge \in Nat
    /\ IsFiniteSet(Request)
    /\ Burst \in Nat /\ Rate \in Nat \ {0} /\ Cost \in Nat \ {0}
    /\ Span \in Nat

VARIABLES
    wpc,        \* how far the handler of each webhook is
    payments,   \* dodo_payments
    deposited,  \* the payments with a deposit in the ledger
    tokens,     \* the tokens of each developer's bucket, ...
    idle,       \* ... and the ticks since they were counted (last), capped
    age,        \* ticks since each request took its token, capped
    rpc,        \* how far each request is
    unchecked,  \* those admitted because the balance could not be read
    charged,    \* what the ledger charges for each request
    peak,       \* history: the most requests of a developer that had passed
                \* the guard and were not over at the same time
    status,     \* payouts.status, "none" without a row
    debits,     \* how many debits of each payout the ledger has
    mpc,        \* how far each call of SettlePayout is, and for which payout
    told        \* history: the payouts an admin was told are paid

depositVars == <<wpc, payments, deposited>>
limitVars == <<tokens, idle, age>>
requestVars == <<limitVars, rpc, unchecked, charged, peak>>
payoutVars == <<status, debits, mpc, told>>
vars == <<depositVars, requestVars, payoutVars>>

Idle == [at |-> "idle"]
At(where, q) == [at |-> where, payout |-> q]
MarkingState == {Idle, [at |-> "done"]}
    \cup [at : {"read", "entered", "skipped"}, payout : Payout]

TypeOK ==
    /\ wpc \in [Delivery -> {"sent", "checked", "acknowledged", "failed"}]
    /\ payments \subseteq Payment /\ deposited \subseteq Payment
    /\ tokens \in [User -> 0..Burst] /\ idle \in [User -> 0..Burst]
    /\ age \in [Request -> 0..(Span + 1)]
    /\ rpc \in [Request -> {"new", "allowed", "blocked", "admitted", "over"}]
    /\ unchecked \subseteq Request
    /\ charged \in [Request -> Nat]
    /\ \A r \in Request : charged[r] > 0 => rpc[r] = "over"
    /\ peak \in [User -> Nat]
    /\ status \in [Payout -> {"none", "requested", "approved", "paid"}]
    /\ debits \in [Payout -> Nat] /\ told \subseteq Payout
    /\ mpc \in [Marking -> MarkingState]

Init ==
    /\ wpc = [d \in Delivery |-> "sent"]
    /\ payments = {} /\ deposited = {}
    /\ tokens = [u \in User |-> Burst] /\ idle = [u \in User |-> 0]
    /\ age = [r \in Request |-> 0]
    /\ rpc = [r \in Request |-> "new"]
    /\ unchecked = {}
    /\ charged = [r \in Request |-> 0]
    /\ peak = [u \in User |-> 0]
    /\ status = [q \in Payout |-> "none"]
    /\ debits = [q \in Payout |-> 0] /\ told = {}
    /\ mpc = [k \in Marking |-> Idle]

\* AccountBalance of a user's developer_balance.
Balance(u) ==
    SumFunctionOnSet(Amount, {p \in deposited : PayerOf[p] = u})
    - SumFunctionOnSet(charged, {r \in Request : CallerOf[r] = u})

-----------------------------------------------------------------------------
(* Deposits.                                                               *)

\* DodoCredit asks whether the payment is recorded.
CheckPayment(d) ==
    /\ wpc[d] = "sent"
    /\ wpc' = [wpc EXCEPT ![d] =
                  IF PaymentOf[d] \in payments THEN "acknowledged"
                  ELSE "checked"]
    /\ UNCHANGED <<payments, deposited, requestVars, payoutVars>>

\* The rest of the transaction, which fails if another one has inserted the
\* payment since.
CreditPayment(d) ==
    LET p == PaymentOf[d] IN
    /\ wpc[d] = "checked"
    /\ IF p \in payments
       THEN /\ wpc' = [wpc EXCEPT ![d] = "failed"]
            /\ UNCHANGED <<payments, deposited>>
       ELSE /\ wpc' = [wpc EXCEPT ![d] = "acknowledged"]
            /\ payments' = payments \cup {p}
            /\ deposited' = deposited \cup {p}
    /\ UNCHANGED <<requestVars, payoutVars>>

\* The payment's row is not part of the transaction.
FailWebhookRecorded(d) ==
    /\ wpc[d] \in {"sent", "checked"}
    /\ wpc' = [wpc EXCEPT ![d] = "failed"]
    /\ payments' = IF wpc[d] = "checked" THEN payments \cup {PaymentOf[d]}
                   ELSE payments
    /\ UNCHANGED <<deposited, requestVars, payoutVars>>

\* The transaction aborts, or the coordinator dies.
FailWebhook(d) ==
    /\ wpc[d] \in {"sent", "checked"}
    /\ wpc' = [wpc EXCEPT ![d] = "failed"]
    /\ UNCHANGED <<payments, deposited, requestVars, payoutVars>>

\* A webhook without an answer of success is sent again.
Redeliver(d) ==
    /\ wpc[d] = "failed"
    /\ wpc' = [wpc EXCEPT ![d] = "sent"]
    /\ UNCHANGED <<payments, deposited, requestVars, payoutVars>>

-----------------------------------------------------------------------------
(* Requests.                                                               *)

\* Mutant of Available: the bucket fills beyond its size.
AvailableUncapped(u) == tokens[u] + idle[u] * Rate

\* What Allow finds in a bucket: refilled by the time since, up to its size.
Available(u) == IF tokens[u] + idle[u] * Rate > Burst THEN Burst
                ELSE tokens[u] + idle[u] * Rate

\* limitInference and Allow.  A refusal, too, counts the tokens anew; the
\* developer may try again.
Allow(r) ==
    LET u == CallerOf[r] IN
    /\ rpc[r] = "new"
    /\ IF Available(u) < Cost
       THEN /\ tokens' = [tokens EXCEPT ![u] = Available(u)]
            /\ UNCHANGED <<age, rpc>>
       ELSE /\ tokens' = [tokens EXCEPT ![u] = Available(u) - Cost]
            /\ age' = [age EXCEPT ![r] = 0]
            /\ rpc' = [rpc EXCEPT ![r] = "allowed"]
    /\ idle' = [idle EXCEPT ![u] = 0]
    /\ UNCHANGED <<unchecked, charged, peak, depositVars, payoutVars>>

\* The requests of u that passed the guard and are not over.
Pending(u) == {r \in Request \ unchecked : /\ CallerOf[r] = u
                                           /\ rpc[r] = "admitted"}

\* The guard lets r through.
LetThrough(r) ==
    LET n == Cardinality(Pending(CallerOf[r])) + 1 IN
    /\ rpc' = [rpc EXCEPT ![r] = "admitted"]
    /\ peak' = [peak EXCEPT ![CallerOf[r]] = IF @ < n THEN n ELSE @]

\* Mutant of Admit: the balance is not asked for.
AdmitAll(r) ==
    /\ rpc[r] = "allowed"
    /\ LetThrough(r)
    /\ UNCHANGED <<limitVars, unchecked, charged, depositVars, payoutVars>>

\* The balance guard, once the body is read.
Admit(r) ==
    /\ rpc[r] = "allowed"
    /\ IF Balance(CallerOf[r]) < -MinCharge
       THEN /\ rpc' = [rpc EXCEPT ![r] = "blocked"]
            /\ UNCHANGED peak
       ELSE LetThrough(r)
    /\ UNCHANGED <<limitVars, unchecked, charged, depositVars, payoutVars>>

\* The guard lets a request through when the balance cannot be read.
AdmitUnchecked(r) ==
    /\ rpc[r] = "allowed"
    /\ rpc' = [rpc EXCEPT ![r] = "admitted"]
    /\ unchecked' = unchecked \cup {r}
    /\ UNCHANGED <<limitVars, charged, peak, depositVars, payoutVars>>

\* Mutant of Finish: the charge is written while the request still runs.
FinishLater(r) ==
    /\ rpc[r] = "admitted"
    /\ \E c \in Charge \cup {0} : charged' = [charged EXCEPT ![r] = c]
    /\ UNCHANGED <<limitVars, rpc, unchecked, peak, depositVars, payoutVars>>

\* The request ends and is settled, or its settlement fails.
Finish(r) ==
    /\ rpc[r] = "admitted"
    /\ rpc' = [rpc EXCEPT ![r] = "over"]
    /\ \E c \in Charge \cup {0} : charged' = [charged EXCEPT ![r] = c]
    /\ UNCHANGED <<limitVars, unchecked, peak, depositVars, payoutVars>>

\* A tick: nothing bounds how long a request takes.  Ages and idle times beyond
\* which nothing changes are not counted.
Tick ==
    /\ idle' = [u \in User |-> IF idle[u] < Burst THEN idle[u] + 1 ELSE Burst]
    /\ age' = [r \in Request |->
                 IF rpc[r] = "new" \/ age[r] > Span THEN age[r] ELSE age[r] + 1]
    /\ UNCHANGED <<tokens, rpc, unchecked, charged, peak, depositVars,
                   payoutVars>>

-----------------------------------------------------------------------------
(* Payouts.                                                                *)

\* CreatePayoutRequest, which leaves comparing with the earnings to the page.
RequestPayout(q) ==
    /\ status[q] = "none"
    /\ status' = [status EXCEPT ![q] = "requested"]
    /\ UNCHANGED <<debits, mpc, told, depositVars, requestVars>>

\* MarkPayout, from a page that may be old: what is paid may be approved again.
ApprovePayout(q) ==
    /\ status[q] # "none"
    /\ status' = [status EXCEPT ![q] = "approved"]
    /\ UNCHANGED <<debits, mpc, told, depositVars, requestVars>>

\* SettlePayout up to its early return; the row is not locked.
ReadPayout(k, q) ==
    /\ mpc[k] = Idle /\ status[q] # "none"
    /\ IF status[q] = "paid"
       THEN /\ mpc' = [mpc EXCEPT ![k] = [at |-> "done"]]
            /\ told' = told \cup {q}
       ELSE /\ mpc' = [mpc EXCEPT ![k] = At("read", q)]
            /\ UNCHANGED told
    /\ UNCHANGED <<status, debits, depositVars, requestVars>>

\* Mutant of InsertDebit: without ON CONFLICT or a unique key.
InsertAnyDebit(k, q) ==
    /\ mpc[k] = At("read", q)
    /\ mpc' = [mpc EXCEPT ![k] = At("entered", q)]
    /\ UNCHANGED <<status, debits, told, depositVars, requestVars>>

\* The insertion ON CONFLICT DO NOTHING: it waits for the transaction that has
\* entered the same debit, and enters none beside one.
InsertDebit(k, q) ==
    /\ mpc[k] = At("read", q)
    /\ \A j \in Marking : mpc[j] # At("entered", q)
    /\ mpc' = [mpc EXCEPT ![k] =
                  At(IF debits[q] = 0 THEN "entered" ELSE "skipped", q)]
    /\ UNCHANGED <<status, debits, told, depositVars, requestVars>>

\* The status is written and the transaction commits.
CommitPayout(k, q) ==
    /\ mpc[k] \in {At("entered", q), At("skipped", q)}
    /\ debits' = [debits EXCEPT ![q] =
                     IF mpc[k].at = "entered" THEN @ + 1 ELSE @]
    /\ status' = [status EXCEPT ![q] = "paid"]
    /\ told' = told \cup {q}
    /\ mpc' = [mpc EXCEPT ![k] = [at |-> "done"]]
    /\ UNCHANGED <<depositVars, requestVars>>

\* A statement fails, or the coordinator dies: the transaction is rolled back.
SettlePayoutFails(k, q) ==
    /\ \E at \in {"read", "entered", "skipped"} : mpc[k] = At(at, q)
    /\ mpc' = [mpc EXCEPT ![k] = [at |-> "done"]]
    /\ UNCHANGED <<status, debits, told, depositVars, requestVars>>

-----------------------------------------------------------------------------
Webhook(d) == CheckPayment(d) \/ CreditPayment(d) \/ FailWebhook(d)
                \/ Redeliver(d)
Gateway(r) == Allow(r) \/ Admit(r) \/ AdmitUnchecked(r) \/ Finish(r)

\* HandleConsoleAdminPayouts: approve, or mark as paid.
AdminPayouts(k, q) ==
    \/ ApprovePayout(q)
    \/ ReadPayout(k, q) \/ InsertDebit(k, q)
    \/ CommitPayout(k, q) \/ SettlePayoutFails(k, q)

Next ==
    \/ \E d \in Delivery : Webhook(d)
    \/ \E r \in Request : Gateway(r)
    \/ Tick
    \/ \E q \in Payout : RequestPayout(q)
    \/ \E k \in Marking, q \in Payout : AdminPayouts(k, q)

Spec == Init /\ [][Next]_vars

\* Handlers run, failed webhooks are sent again, and not every attempt of a
\* transaction aborts.
FairSpec ==
    Spec /\ \A d \in Delivery :
        SF_vars(CheckPayment(d)) /\ SF_vars(CreditPayment(d))
          /\ WF_vars(Redeliver(d))

-----------------------------------------------------------------------------
\* What a webhook's answer tells Dodo is in the ledger: a payment is recorded
\* exactly when it is credited, and acknowledged only then.
AcknowledgedIsCredited ==
    /\ payments = deposited
    /\ \A d \in Delivery :
           wpc[d] = "acknowledged" => PaymentOf[d] \in deposited

\* Every payment is credited in the end.
DepositsArrive == \A d \in Delivery : <>(PaymentOf[d] \in deposited)

\* The requests that took a token of u in the last w ticks.
Taken(u, w) == {r \in Request : /\ CallerOf[r] = u
                                /\ rpc[r] # "new"
                                /\ age[r] <= w}

\* In no span of time does a developer get more than the burst and what the
\* rate refills in that span, however they space and repeat their requests
\* (ratelimit.go: the bucket is refilled lazily, on refusals too).
WithinRate ==
    \A u \in User, w \in 0..Span :
        Cost * Cardinality(Taken(u, w)) <= Burst + Rate * w

\* The prepaid model of gateway.go: requests that pass the guard together may
\* overdraw the balance together, but never by more than the dearest charge for
\* each of as many as were once between the guard and their end at the same
\* time: what is charged after the balance was read is not forgotten by a later
\* guard.  Nothing in the code bounds how many overlap.  Those that passed
\* because the balance could not be read are not counted.
Uncounted(u) ==
    SumFunctionOnSet(charged, {r \in unchecked : CallerOf[r] = u})
OverdraftBounded ==
    \A u \in User, c \in Charge : (\A d \in Charge : d <= c) =>
        Balance(u) + Uncounted(u) >= -(MinCharge + c * peak[u])

\* A payout leaves the ledger once at most, and has left it when it says paid
\* or an admin was told so: though SettlePayout reads the status without a
\* lock, two admins mark it at once, an old page approves what is paid, and
\* any of the transactions fails (postgres.go, console.go).
PaidOnce == \A q \in Payout :
    /\ debits[q] <= 1
    /\ status[q] = "paid" \/ q \in told => debits[q] = 1
=============================================================================
