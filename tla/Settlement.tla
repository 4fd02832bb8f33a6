----------------------------- MODULE Settlement -----------------------------
(***************************************************************************)
(* The money of a finished request: metering and settlement (finishUsage   *)
(* in gateway.go, SettleRequest in store/postgres.go) among the bindings   *)
(* of provider nodes to their owners (hub.go, BindNode, RevokeNode), which *)
(* sweep what a node earned before into the owner's account.  Each is a    *)
(* PostgreSQL transaction at READ COMMITTED: a statement sees what was     *)
(* committed when it ran, the row locks an upsert takes are kept to the    *)
(* end, and a transaction takes effect in its commit or not at all.        *)
(* Consecutive statements that no other transaction can tell apart are one *)
(* step.  A coordinator that dies has all its transactions abort.          *)
(***************************************************************************)
EXTENDS Pricing, FiniteSets, Functions

CONSTANTS
    Request, Node, Conn,  \* requests, provider nodes, their registrations
    Credential,           \* login tokens and enrollment codes
    Token,                \* the credentials that are revocable login tokens
    User,                 \* developers and owners of nodes
    Platform,             \* platform@idlegrid.system, the anchor of escrow
    None,
    ServedBy,             \* the node a request was dispatched to
    NodeOf, Presents,     \* of a registration: the node and its credential
    OwnerOf,              \* the user a credential was issued to
    Outcome,              \* how requests may end
    PoolSize              \* connections of the database pool

ASSUME SettlementAssumption ==
    /\ Token \subseteq Credential
    /\ None \notin User \cup Credential \cup {Platform}
    /\ Platform \notin User
    /\ ServedBy \in [Request -> Node]
    /\ NodeOf \in [Conn -> Node]
    /\ Presents \in [Conn -> Credential]
    /\ OwnerOf \in [Credential -> User]
    /\ PoolSize \in Nat
    /\ Request \cap (Conn \cup Node) = {} /\ None \notin Request \cup Conn
    /\ Outcome \subseteq
         [status: {"completed", "failed", "cancelled", "timeout"},
          caller: User \cup {None},                \* None with an admin key
          prompt: Nat, text: Nat,                  \* bytes
          provIn: SUBSET Int, provOut: SUBSET Int] \* as Billed takes them

VARIABLES
    spc,          \* where finishUsage of each request is
    outcome,      \* reqOutcome, once the request has ended
    seen,         \* SettleRequest's local nodeOwner
    usage,        \* the usage_events row: "none", "recorded" or "settled"
    transferred,  \* the requests whose row says transferred
    ledger,       \* ledger_entries
    bpc,          \* where the binding of each registration is
    escrowed,     \* BindNode's local escrowed
    binding,      \* provider_nodes: the credential that bound the node
    revoked,      \* the revoked tokens
    lock          \* the transaction that holds a row's lock

settleVars == <<spc, outcome, seen, usage>>
bindVars == <<bpc, escrowed, binding, revoked>>
moneyVars == <<transferred, ledger>>
vars == <<settleVars, bindVars, moneyVars, lock>>

-----------------------------------------------------------------------------
Account == {"developer_balance", "provider_earnings", "platform_revenue"}
             \X (User \cup {Platform})
Developer(u) == <<"developer_balance", u>>
Earnings(u) == <<"provider_earnings", u>>
Escrow == Earnings(Platform)
Revenue == <<"platform_revenue", Platform>>

EntryType == {"usage_charge", "provider_earning", "platform_fee",
              "enrollment_sweep"}
Entry == [account: Account, type: EntryType, ref: Request \cup Node,
          amount: Int]

E(account, type, ref, amount) ==
    [account |-> account, type |-> type, ref |-> ref, amount |-> amount]

\* INSERT ... ON CONFLICT DO NOTHING, unique on all but the amount.
Insert(entries) ==
    ledger \cup {e \in entries :
        ~\E l \in ledger : l.account = e.account /\ l.type = e.type
                                                 /\ l.ref = e.ref}

Row == Account \cup Node

\* Rows of two tables.
ASSUME RowAssumption == Account \cap Node = {}

Locks(h) == {x \in Row : lock[x] = h}
Take(x, h) == lock[x] = None /\ lock' = [lock EXCEPT ![x] = h]
Release(h) == lock' = [x \in Row |-> IF lock[x] = h THEN None ELSE lock[x]]

InTx == {"begun", "debited", "owned", "credited"}
Transactions == {r \in Request : spc[r] \in InTx}
                  \cup {c \in Conn : bpc[c] \in {"summed", "locked"}}
ConnectionFree == Cardinality(Transactions) < PoolSize

GrossOf(r) ==
    LET o == outcome[r] IN Gross(Billed(EstimateTokens(o.prompt), o.provIn),
                                 Billed(EstimateTokens(o.text), o.provOut))
CallerOf(r) == outcome[r].caller
CreditOf(r) == ProviderCredit(GrossOf(r))
FeeOf(r) == PlatformFee(GrossOf(r))
Credits(requests) == SumFunction([r \in requests |-> CreditOf(r)])

Spc == {"running", "unmetered", "metered", "free", "settled", "unsettled"}
         \cup InTx

TypeOK ==
    /\ spc \in [Request -> Spc]
    /\ outcome \in [Request -> Outcome \cup {None}]
    /\ \A r \in Request : spc[r] # "running" => outcome[r] \in Outcome
    /\ seen \in [Request -> User \cup {None}]
    /\ usage \in [Request -> {"none", "recorded", "settled"}]
    /\ transferred \subseteq Request
    /\ ledger \subseteq Entry
    /\ bpc \in [Conn -> {"idle", "resolved", "summed", "locked", "done"}]
    /\ escrowed \in [Conn -> Int]
    /\ binding \in [Node -> Credential \cup {None}]
    /\ revoked \subseteq Token
    /\ lock \in [Row -> Request \cup Conn \cup {None}]

Init ==
    /\ spc = [r \in Request |-> "running"]
    /\ outcome = [r \in Request |-> None]
    /\ seen = [r \in Request |-> None]
    /\ usage = [r \in Request |-> "none"]
    /\ transferred = {}
    /\ ledger = {}
    /\ bpc = [c \in Conn |-> "idle"]
    /\ escrowed = [c \in Conn |-> 0]
    /\ binding = [n \in Node |-> None]
    /\ revoked = {}
    /\ lock = [x \in Row |-> None]

-----------------------------------------------------------------------------
(* finishUsage: RecordUsage, price, SettleRequest.                         *)

\* The context of a caller that left is cancelled, and with it the insert;
\* that of another one may run out before a connection is free.
Unmetered(r) ==
    /\ spc[r] = "running"
    /\ \E o \in Outcome : outcome' = [outcome EXCEPT ![r] = o]
    /\ spc' = [spc EXCEPT ![r] = "unmetered"]
    /\ UNCHANGED <<seen, usage, bindVars, moneyVars, lock>>

Meter(r) ==
    /\ spc[r] = "running"
    /\ ConnectionFree
    /\ \E o \in Outcome :
         /\ o.status # "cancelled"
         /\ outcome' = [outcome EXCEPT ![r] = o]
    /\ usage' = [usage EXCEPT ![r] = "recorded"]
    /\ spc' = [spc EXCEPT ![r] = IF GrossOf(r)' = 0 THEN "free" ELSE "metered"]
    /\ UNCHANGED <<seen, bindVars, moneyVars, lock>>

\* Begin, and the guard against settling twice.
Begin(r) ==
    /\ spc[r] = "metered"
    /\ ConnectionFree
    /\ usage[r] # "settled"
    /\ spc' = [spc EXCEPT ![r] = "begun"]
    /\ UNCHANGED <<outcome, seen, usage, bindVars, moneyVars, lock>>

\* Mutant of Debit: the charge is inserted outside the transaction.
DebitAtOnce(r) ==
    /\ spc[r] = "begun"
    /\ IF CallerOf(r) = None THEN UNCHANGED <<lock, ledger>>
       ELSE /\ Take(Developer(CallerOf(r)), r)
            /\ ledger' = Insert({E(Developer(CallerOf(r)), "usage_charge", r,
                                   -GrossOf(r))})
    /\ spc' = [spc EXCEPT ![r] = "debited"]
    /\ UNCHANGED <<outcome, seen, usage, bindVars, transferred>>

Debit(r) ==
    /\ spc[r] = "begun"
    /\ IF CallerOf(r) = None THEN UNCHANGED lock
                             ELSE Take(Developer(CallerOf(r)), r)
    /\ spc' = [spc EXCEPT ![r] = "debited"]
    /\ UNCHANGED <<outcome, seen, usage, bindVars, moneyVars>>

\* NodeOwner takes a second connection of the pool; an error of it is taken
\* for a node without an owner.
ReadOwner(r) ==
    /\ spc[r] = "debited"
    /\ ConnectionFree
    /\ \E owner \in {None} \cup {OwnerOf[k] : k \in {binding[ServedBy[r]]} \ {None}} :
         seen' = [seen EXCEPT ![r] = owner]
    /\ spc' = [spc EXCEPT ![r] = "owned"]
    /\ UNCHANGED <<outcome, usage, bindVars, moneyVars, lock>>

CreditAccount(r) == IF seen[r] = None THEN Escrow ELSE Earnings(seen[r])

Credit(r) ==
    /\ spc[r] = "owned"
    /\ IF CreditOf(r) > 0 THEN Take(CreditAccount(r), r) ELSE UNCHANGED lock
    /\ spc' = [spc EXCEPT ![r] = "credited"]
    /\ UNCHANGED <<outcome, seen, usage, bindVars, moneyVars>>

Settlement(r) ==
    {E(Developer(u), "usage_charge", r, -GrossOf(r)) : u \in {CallerOf(r)} \ {None}}
    \cup {e \in {E(CreditAccount(r), "provider_earning", r, CreditOf(r)),
                 E(Revenue, "platform_fee", r, FeeOf(r))} : e.amount > 0}

\* The fee, the mark on the usage row, the commit.
Settle(r) ==
    /\ spc[r] = "credited"
    /\ FeeOf(r) > 0 => lock[Revenue] = None
    /\ ledger' = Insert(Settlement(r))
    /\ transferred' = IF CreditOf(r) > 0 /\ seen[r] # None
                      THEN transferred \cup {r} ELSE transferred
    /\ usage' = [usage EXCEPT ![r] = "settled"]
    /\ Release(r)
    /\ spc' = [spc EXCEPT ![r] = "settled"]
    /\ UNCHANGED <<outcome, seen, bindVars>>

\* Mutant of Abort: no deferred Rollback.
AbortLeaks(r) ==
    /\ spc[r] \in InTx \cup {"metered"}
    /\ spc' = [spc EXCEPT ![r] = "unsettled"]
    /\ UNCHANGED <<outcome, seen, usage, bindVars, moneyVars, lock>>

\* The five seconds are over, a statement fails, or the process dies; the
\* deferred Rollback undoes what the transaction did.
Abort(r) ==
    /\ spc[r] \in InTx \cup {"metered"}
    /\ Release(r)
    /\ spc' = [spc EXCEPT ![r] = "unsettled"]
    /\ UNCHANGED <<outcome, seen, usage, bindVars, moneyVars>>

-----------------------------------------------------------------------------
(* A provider registers: ResolveProviderToken or the enrollment code, then *)
(* BindNode.  Its owner may remove the node meanwhile: RevokeNode.         *)

Resolve(c) ==
    /\ bpc[c] = "idle"
    /\ bpc' = [bpc EXCEPT ![c] = IF Presents[c] \in revoked THEN "done"
                                                            ELSE "resolved"]
    /\ UNCHANGED <<settleVars, escrowed, binding, revoked, moneyVars, lock>>

\* Provider credits of the node that are in escrow and not yet transferred.
Unswept(n) == {r \in Request \ transferred :
                 /\ ServedBy[r] = n
                 /\ \E e \in ledger : /\ e.account = Escrow
                                      /\ e.type = "provider_earning"
                                      /\ e.ref = r}

\* The node row is upserted and stays locked; the escrowed credits are summed.
BeginBind(c) ==
    /\ bpc[c] = "resolved"
    /\ ConnectionFree
    /\ Take(NodeOf[c], c)
    /\ escrowed' = [escrowed EXCEPT ![c] = Credits(Unswept(NodeOf[c]))]
    /\ bpc' = [bpc EXCEPT ![c] = "summed"]
    /\ UNCHANGED <<settleVars, binding, revoked, moneyVars>>

LockEscrow(c) ==
    /\ bpc[c] = "summed"
    /\ escrowed[c] > 0
    /\ Take(Escrow, c)
    /\ bpc' = [bpc EXCEPT ![c] = "locked"]
    /\ UNCHANGED <<settleVars, escrowed, binding, revoked, moneyVars>>

Bound(c) == /\ binding' = [binding EXCEPT ![NodeOf[c]] = Presents[c]]
            /\ Release(c)
            /\ bpc' = [bpc EXCEPT ![c] = "done"]
            /\ UNCHANGED <<settleVars, escrowed, revoked>>

NothingToSweep(c) ==
    /\ bpc[c] = "summed"
    /\ escrowed[c] = 0
    /\ Bound(c)
    /\ UNCHANGED moneyVars

\* Mutant of Sweep: the rows are not marked as transferred.
SweepUnmarked(c) ==
    /\ bpc[c] = "locked"
    /\ lock[Earnings(OwnerOf[Presents[c]])] = None
    /\ ledger' = Insert({E(Escrow, "enrollment_sweep", NodeOf[c], -escrowed[c]),
                         E(Earnings(OwnerOf[Presents[c]]), "enrollment_sweep",
                           NodeOf[c], escrowed[c])})
    /\ Bound(c)
    /\ UNCHANGED transferred

\* Mutant of Sweep: the owner's entry has a key of its own each time.
SweepUnguarded(c) ==
    /\ bpc[c] = "locked"
    /\ lock[Earnings(OwnerOf[Presents[c]])] = None
    /\ ledger' = Insert({E(Escrow, "enrollment_sweep", NodeOf[c], -escrowed[c]),
                         E(Earnings(OwnerOf[Presents[c]]), "enrollment_sweep",
                           c, escrowed[c])})
    /\ transferred' = transferred \cup Unswept(NodeOf[c])
    /\ Bound(c)

\* Out of escrow, into the owner's account; the rows that are in escrow by
\* now are marked.
Sweep(c) ==
    /\ bpc[c] = "locked"
    /\ lock[Earnings(OwnerOf[Presents[c]])] = None
    /\ ledger' = Insert({E(Escrow, "enrollment_sweep", NodeOf[c], -escrowed[c]),
                         E(Earnings(OwnerOf[Presents[c]]), "enrollment_sweep",
                           NodeOf[c], escrowed[c])})
    /\ transferred' = transferred \cup Unswept(NodeOf[c])
    /\ Bound(c)

AbortBind(c) ==
    /\ bpc[c] \in {"resolved", "summed", "locked"}
    /\ Release(c)
    /\ bpc' = [bpc EXCEPT ![c] = "done"]
    /\ UNCHANGED <<settleVars, escrowed, binding, revoked, moneyVars>>

\* The owner removes the node, and the token that bound it is revoked.
RevokeNode(n) ==
    /\ binding[n] # None
    /\ ConnectionFree
    /\ lock[n] = None
    /\ binding' = [binding EXCEPT ![n] = None]
    /\ revoked' = revoked \cup ({binding[n]} \cap Token)
    /\ UNCHANGED <<settleVars, bpc, escrowed, moneyVars, lock>>

-----------------------------------------------------------------------------
\* A settlement goes on as far as locks and the pool let it.
SettleStep(r) == Begin(r) \/ Debit(r) \/ ReadOwner(r) \/ Credit(r) \/ Settle(r)
BindStep(c) == BeginBind(c) \/ LockEscrow(c) \/ NothingToSweep(c) \/ Sweep(c)

Next ==
    \/ \E r \in Request : Unmetered(r) \/ Meter(r) \/ SettleStep(r) \/ Abort(r)
    \/ \E c \in Conn : Resolve(c) \/ BindStep(c) \/ AbortBind(c)
    \/ \E n \in Node : RevokeNode(n)

Spec == Init /\ [][Next]_vars

\* PostgreSQL lets a waiter go on once its lock is free, and so does the pool.
\* The timers are not relied on.
FairSpec == /\ Spec
            /\ \A r \in Request : SF_vars(SettleStep(r))
            /\ \A c \in Conn : SF_vars(BindStep(c))
-----------------------------------------------------------------------------
Total(entries) == SumFunction([e \in entries |-> e.amount])
Balance(a) == Total({e \in ledger : e.account = a})
SettledRequests == {r \in Request : usage[r] = "settled"}

\* A settled request has its charge, credit and fee in the ledger, once each
\* and adding up to nothing (to the charge, when nobody is charged).
SettledInFull ==
    \A r \in SettledRequests :
        Total({e \in ledger : e.ref = r})
            = IF CallerOf(r) = None THEN GrossOf(r) ELSE 0

\* A request that is not settled has no entry in the ledger, however far its
\* settlement had come when it was abandoned.
UnsettledIsUncharged ==
    \A r \in Request : usage[r] # "settled" => \A e \in ledger : e.ref # r

\* Escrow always holds what it still owes: the credits no sweep has marked as
\* transferred, though sums are taken before the account is locked.
EscrowCovers ==
    Balance(Escrow) >= Credits(UNION {Unswept(n) : n \in Node})

\* What is in the accounts of providers and in escrow.
Held == {e \in ledger : e.account[1] = "provider_earnings"}

\* Providers and escrow together hold what was credited, neither more nor
\* less, as long as no node is bound to two users in turn.
EarningsConserved ==
    Total(Held) = Credits(SettledRequests)

\* What a provider reports moves the charge by no more than the tolerance: a
\* count that is believed is at most four thirds of the coordinator's own.
FourThirds(est) == (4 * est) \div 3
ProviderCannotInflate ==
    \A r \in Request : spc[r] # "running" =>
        GrossOf(r) <= Gross(FourThirds(EstimateTokens(outcome[r].prompt)),
                            FourThirds(EstimateTokens(outcome[r].text)))

\* Every settlement comes to an end without its timer: locks are taken in one
\* order by all, and the pool has a connection to spare.
SettlementsEnd ==
    \A r \in Request : spc[r] = "begun" ~> spc[r] \in {"settled", "unsettled"}

-----------------------------------------------------------------------------
(* What comments of the code say and the code does not do.                 *)

\* postgres.go:485: a sweep takes out of escrow what it gives the owner, so
\* escrow and owners never hold more than was credited.
NothingFromNothing ==
    Total(Held) <= Credits(SettledRequests)
=============================================================================
