--------------------------- MODULE AccountsProofs ---------------------------
(***************************************************************************)
(* What holds of balances, deposits, rate limits and payouts for any       *)
(* number of users, payments, webhooks, requests, payouts and admins.      *)
(***************************************************************************)
EXTENDS Accounts, SumProofs

USE AccountsAssumption
    DEF depositVars, limitVars, requestVars, payoutVars

\* What Allow finds in a bucket is within the bucket, and a tick adds no more
\* than the rate to it.
LEMMA AvailableType ==
    ASSUME TypeOK, NEW u \in User
    PROVE  Available(u) \in 0..Burst
<1>1. tokens[u] \in 0..Burst /\ idle[u] \in Nat
    BY DEF TypeOK
<1>2. idle[u] * Rate \in Nat
    BY <1>1
<1> QED BY <1>1, <1>2 DEF Available

LEMMA PendingFinite ==
    ASSUME NEW u
    PROVE  IsFiniteSet(Pending(u)) /\ Cardinality(Pending(u)) \in Nat
<1>1. Pending(u) \subseteq Request
    BY DEF Pending
<1> QED BY <1>1, FS_Subset, FS_CardinalityType

\* Every step keeps the types.
LEMMA TypesStep ==
    ASSUME TypeOK, [Next]_vars
    PROVE  TypeOK'
<1>1. ASSUME NEW d \in Delivery, Webhook(d)  PROVE TypeOK'
    BY <1>1 DEF Webhook, CheckPayment, CreditPayment, FailWebhook, Redeliver,
                TypeOK
<1>2. ASSUME NEW r \in Request, Allow(r)  PROVE TypeOK'
    <2> DEFINE u == CallerOf[r]
    <2>1. Available(u) \in 0..Burst
        BY AvailableType
    <2>2. CASE Available(u) < Cost
        BY <1>2, <2>1, <2>2 DEF Allow, TypeOK
    <2>3. CASE ~(Available(u) < Cost)
        <3>1. Available(u) - Cost \in 0..Burst
            BY <2>1, <2>3
        <3> QED BY <1>2, <2>3, <3>1 DEF Allow, TypeOK
    <2> QED BY <2>2, <2>3
<1>3. ASSUME NEW r \in Request, Admit(r) \/ AdmitUnchecked(r) \/ Finish(r)
      PROVE  TypeOK'
    <2>1. ASSUME LetThrough(r)
          PROVE  /\ rpc' \in [Request -> {"new", "allowed", "blocked",
                                          "admitted", "over"}]
                 /\ peak' \in [User -> Nat]
        <3> DEFINE n == Cardinality(Pending(CallerOf[r])) + 1
        <3>1. n \in Nat
            BY PendingFinite
        <3> HIDE DEF n
        <3>2. peak' = [peak EXCEPT ![CallerOf[r]] = IF @ < n THEN n ELSE @]
            BY <2>1 DEF LetThrough, n
        <3> QED BY <2>1, <3>1, <3>2 DEF LetThrough, TypeOK
    <2>2. \A x \in Request : rpc[x] = "over" => rpc'[x] = "over"
        BY <1>3 DEF Admit, LetThrough, AdmitUnchecked, Finish, TypeOK
    <2>3. CASE Admit(r)
        BY <2>1, <2>2, <2>3 DEF Admit, TypeOK
    <2>4. CASE AdmitUnchecked(r) \/ Finish(r)
        BY <2>4 DEF AdmitUnchecked, Finish, TypeOK
    <2> QED BY <1>3, <2>3, <2>4
<1>4. CASE Tick
    <2>1. idle' \in [User -> 0..Burst]
        BY <1>4 DEF Tick, TypeOK
    <2>2. age' \in [Request -> 0..(Span + 1)]
        BY <1>4 DEF Tick, TypeOK
    <2> QED BY <1>4, <2>1, <2>2 DEF Tick, TypeOK
<1>5. ASSUME NEW q \in Payout, RequestPayout(q) \/ ApprovePayout(q)
      PROVE  TypeOK'
    BY <1>5 DEF RequestPayout, ApprovePayout, TypeOK
<1>6. ASSUME NEW k \in Marking, NEW q \in Payout, ReadPayout(k, q)
      PROVE  TypeOK'
    BY <1>6 DEF ReadPayout, MarkingState, Idle, At, TypeOK
<1>7. ASSUME NEW k \in Marking, NEW q \in Payout,
             InsertDebit(k, q) \/ CommitPayout(k, q) \/ SettlePayoutFails(k, q)
      PROVE  TypeOK'
    BY <1>7, SMTT(20) DEF InsertDebit, CommitPayout, SettlePayoutFails,
                          MarkingState, At, TypeOK
<1>8. CASE UNCHANGED vars
    BY <1>8 DEF vars, TypeOK
<1> QED BY <1>1, <1>2, <1>3, <1>4, <1>5, <1>6, <1>7, <1>8
        DEF Next, Gateway, AdminPayouts

\* The types, for any sets of constants.
THEOREM AccountsTypes == Spec => []TypeOK
<1>1. Init => TypeOK
    BY DEF Init, TypeOK, MarkingState
<1> QED BY <1>1, TypesStep, PTL DEF Spec

-----------------------------------------------------------------------------
(* The rate limit.  What a developer took in a span and what is left of the *)
(* bucket are within the burst and the refill of the span.                  *)

LimitInv == \A u \in User, w \in 0..Span :
    Cost * Cardinality(Taken(u, w)) + Available(u) <= Burst + Rate * w

LEMMA TakenFinite ==
    ASSUME NEW u, NEW w
    PROVE  /\ IsFiniteSet(Taken(u, w))
           /\ Cardinality(Taken(u, w)) \in Nat
<1>1. Taken(u, w) \subseteq Request
    BY DEF Taken
<1> QED BY <1>1, FS_Subset, FS_CardinalityType

\* Products of naturals, for the solver's sake.
LEMMA Products ==
    ASSUME NEW a \in Nat, NEW b \in Nat
    PROVE  /\ a * b \in Nat
           /\ a * (b + 1) = a * b + a
OBVIOUS

LEMMA ProductsGrow ==
    ASSUME NEW a \in Nat, NEW b \in Nat, NEW c \in Nat, b <= c
    PROVE  a * b <= a * c
BY Z3

\* A step that leaves tokens, idle times, ages and who is new as they are.
LEMMA LimitKept ==
    ASSUME LimitInv, UNCHANGED limitVars,
           \A r \in Request : rpc'[r] = "new" <=> rpc[r] = "new"
    PROVE  LimitInv'
<1>1. \A u \in User, w \in 0..Span : Taken(u, w)' = Taken(u, w)
    BY DEF Taken
<1>2. \A u \in User : Available(u)' = Available(u)
    BY DEF Available
<1> QED BY <1>1, <1>2 DEF LimitInv

LEMMA LimitAllow ==
    ASSUME TypeOK, LimitInv, NEW r \in Request, Allow(r)
    PROVE  LimitInv'
<1> SUFFICES ASSUME NEW v \in User, NEW w \in 0..Span
             PROVE  Cost * Cardinality(Taken(v, w)') + Available(v)'
                      <= Burst + Rate * w
    BY DEF LimitInv
<1> DEFINE u == CallerOf[r]
<1>0. Cost * Cardinality(Taken(v, w)) + Available(v) <= Burst + Rate * w
    BY DEF LimitInv
<1>1. Available(u) \in 0..Burst
    BY AvailableType
<1>2. CASE v # u
    <2>1. Taken(v, w)' = Taken(v, w)
        BY <1>2 DEF Allow, Taken, TypeOK
    <2>2. Available(v)' = Available(v)
        BY <1>2 DEF Allow, Available, TypeOK
    <2> QED BY <1>0, <2>1, <2>2
<1>3. CASE v = u /\ Available(u) < Cost
    <2>1. Taken(v, w)' = Taken(v, w)
        BY <1>3 DEF Allow, Taken, TypeOK
    <2>2. tokens'[u] = Available(u) /\ idle'[u] = 0
        BY <1>3 DEF Allow, TypeOK
    <2>3. Available(v)' = Available(v)
        BY <1>1, <1>3, <2>2 DEF Available
    <2> QED BY <1>0, <2>1, <2>3
<1>4. CASE v = u /\ ~(Available(u) < Cost)
    <2>1. Taken(v, w)' = Taken(v, w) \cup {r} /\ r \notin Taken(v, w)
        BY <1>4 DEF Allow, Taken, TypeOK
    <2>2. Cardinality(Taken(v, w)') = Cardinality(Taken(v, w)) + 1
        BY <2>1, TakenFinite, FS_AddElement
    <2>3. tokens'[u] = Available(u) - Cost /\ idle'[u] = 0
        BY <1>4 DEF Allow, TypeOK
    <2>4. Available(v)' = Available(v) - Cost
        BY <1>1, <1>4, <2>3 DEF Available
    <2>5. Cost * Cardinality(Taken(v, w)')
            = Cost * Cardinality(Taken(v, w)) + Cost
        BY <2>2, TakenFinite, Products
    <2>6. Cost * Cardinality(Taken(v, w)) \in Nat /\ Rate * w \in Nat
        BY TakenFinite, Products
    <2> QED BY <1>0, <1>1, <1>4, <2>4, <2>5, <2>6
<1> QED BY <1>2, <1>3, <1>4

LEMMA LimitTick ==
    ASSUME TypeOK, LimitInv, Tick
    PROVE  LimitInv'
<1> SUFFICES ASSUME NEW u \in User, NEW w \in 0..Span
             PROVE  Cost * Cardinality(Taken(u, w)') + Available(u)'
                      <= Burst + Rate * w
    BY DEF LimitInv
<1>1. Available(u) \in 0..Burst /\ Available(u)' \in 0..Burst
    <2>1. TypeOK'
        BY TypesStep DEF Next
    <2>2. tokens'[u] \in 0..Burst /\ idle'[u] \in Nat
        BY <2>1 DEF TypeOK
    <2>3. idle'[u] * Rate \in Nat
        BY <2>2
    <2> QED BY <2>2, <2>3, AvailableType DEF Available
<1>2. CASE w = 0
    <2>1. Taken(u, w)' = {}
        BY <1>2 DEF Tick, Taken, TypeOK
    <2>2. Cardinality(Taken(u, w)') = 0
        BY <2>1, FS_EmptySet
    <2>3. Cost * Cardinality(Taken(u, w)') = 0 /\ Rate * w = 0
        BY <1>2, <2>2
    <2> QED BY <1>1, <2>3
<1>3. CASE w # 0
    <2>1. Taken(u, w)' = Taken(u, w - 1)
        BY <1>3 DEF Tick, Taken, TypeOK
    <2>2. Available(u)' <= Available(u) + Rate
        <3>1. tokens[u] \in 0..Burst /\ idle[u] \in 0..Burst
            BY DEF TypeOK
        <3>2. /\ tokens'[u] = tokens[u]
              /\ idle'[u] = IF idle[u] < Burst THEN idle[u] + 1 ELSE Burst
            BY DEF Tick
        <3>3. idle'[u] * Rate <= idle[u] * Rate + Rate
            BY <3>1, <3>2
        <3> QED BY <1>1, <3>1, <3>2, <3>3 DEF Available
    <2>3. Cost * Cardinality(Taken(u, w - 1)) + Available(u)
            <= Burst + Rate * (w - 1)
        BY <1>3 DEF LimitInv
    <2>4. Rate * w = Rate * (w - 1) + Rate
        BY <1>3, Products
    <2>5. Cost * Cardinality(Taken(u, w - 1)) \in Nat
          /\ Rate * (w - 1) \in Nat
        BY <1>3, TakenFinite, Products
    <2> QED BY <1>1, <2>1, <2>2, <2>3, <2>4, <2>5
<1> QED BY <1>2, <1>3

\* In every span of time a developer gets no more than the burst and what the
\* rate refills in it, for any burst, rate and number of
\* requests (Limiter.Allow).
THEOREM RateHolds == Spec => []WithinRate
<1>1. Init => LimitInv
    <2> SUFFICES ASSUME Init, NEW u \in User, NEW w \in 0..Span
                 PROVE  Cost * Cardinality(Taken(u, w)) + Available(u)
                          <= Burst + Rate * w
        BY DEF LimitInv
    <2>1. Taken(u, w) = {}
        BY DEF Init, Taken
    <2>2. Available(u) = Burst
        BY DEF Init, Available
    <2>3. Rate * w \in Nat
        BY Products
    <2> QED BY <2>1, <2>2, <2>3, FS_EmptySet
<1>2. TypeOK /\ LimitInv /\ [Next]_vars => LimitInv'
    <2> SUFFICES ASSUME TypeOK, LimitInv, [Next]_vars
                 PROVE  LimitInv'
        OBVIOUS
    <2>1. ASSUME NEW r \in Request, Admit(r) \/ AdmitUnchecked(r) \/ Finish(r)
          PROVE  LimitInv'
        <3>1. UNCHANGED limitVars
            BY <2>1 DEF Admit, LetThrough, AdmitUnchecked, Finish
        <3>2. \A x \in Request : rpc'[x] = "new" <=> rpc[x] = "new"
            BY <2>1 DEF Admit, LetThrough, AdmitUnchecked, Finish, TypeOK
        <3> QED BY <3>1, <3>2, LimitKept
    <2>2. CASE UNCHANGED requestVars
        <3>1. UNCHANGED limitVars /\ UNCHANGED rpc
            BY <2>2
        <3> QED BY <3>1, LimitKept
    <2> QED BY <2>1, <2>2, LimitAllow, LimitTick DEF Next, vars, Webhook,
               CheckPayment, CreditPayment, FailWebhook, Redeliver, Gateway,
               RequestPayout, AdminPayouts, ApprovePayout, ReadPayout,
               InsertDebit, CommitPayout, SettlePayoutFails
<1>3. TypeOK /\ LimitInv => WithinRate
    <2> SUFFICES ASSUME TypeOK, LimitInv, NEW u \in User, NEW w \in 0..Span
                 PROVE  Cost * Cardinality(Taken(u, w)) <= Burst + Rate * w
        BY DEF WithinRate
    <2> QED BY AvailableType, TakenFinite, Products DEF LimitInv
<1> QED BY <1>1, <1>2, <1>3, AccountsTypes, PTL DEF Spec

-----------------------------------------------------------------------------
(* The overdraft.  What the balance guard has let through and may still be  *)
(* charged is set against the balance from the moment of the guard on.      *)

Deposits(u) == {p \in deposited : PayerOf[p] = u}
Checked(u) == {r \in Request \ unchecked : CallerOf[r] = u}

\* The balance of u but for the requests that passed unchecked.
CheckedBalance(u) == SumFunctionOnSet(Amount, Deposits(u))
                       - SumFunctionOnSet(charged, Checked(u))

\* c is as much as a request may cost.
Highest(c) == c \in Charge /\ \A d \in Charge : d <= c

OverdraftInv ==
    /\ IsFiniteSet(deposited)
    /\ \A u \in User, c \in Charge : Highest(c) =>
         CheckedBalance(u) - c * Cardinality(Pending(u))
            >= -(MinCharge + c * peak[u])

LEMMA BalanceTypes ==
    ASSUME TypeOK, IsFiniteSet(deposited), NEW u \in User
    PROVE  /\ IsFiniteSet(Deposits(u)) /\ IsFiniteSet(Checked(u))
           /\ IsFiniteSet(Pending(u))
           /\ Cardinality(Pending(u)) \in Nat
           /\ \A r \in Checked(u) : charged[r] \in Int
           /\ SumFunctionOnSet(Amount, Deposits(u)) \in Nat
           /\ SumFunctionOnSet(charged, Checked(u)) \in Nat
           /\ CheckedBalance(u) \in Int
<1>1. Deposits(u) \subseteq deposited /\ Checked(u) \subseteq Request
      /\ Pending(u) \subseteq Request
    BY DEF Deposits, Checked, Pending
<1>2. /\ IsFiniteSet(Deposits(u)) /\ IsFiniteSet(Checked(u))
      /\ IsFiniteSet(Pending(u))
    BY <1>1, FS_Subset
<1>3. /\ \A p \in Deposits(u) : Amount[p] \in Nat
      /\ \A r \in Checked(u) : charged[r] \in Nat
    BY <1>1 DEF TypeOK
<1>4. /\ SumFunctionOnSet(Amount, Deposits(u)) \in Nat
      /\ SumFunctionOnSet(charged, Checked(u)) \in Nat
    BY <1>2, <1>3, SumNat
<1> QED BY <1>2, <1>3, <1>4, FS_CardinalityType DEF CheckedBalance

\* The balance is the checked one less what the unchecked requests cost.
LEMMA BalanceSplit ==
    ASSUME TypeOK, IsFiniteSet(deposited), NEW u \in User
    PROVE  /\ Balance(u) + Uncounted(u) = CheckedBalance(u)
           /\ Balance(u) \in Int
           /\ Balance(u) <= CheckedBalance(u)
<1> DEFINE All == {r \in Request : CallerOf[r] = u}
           Free == {r \in unchecked : CallerOf[r] = u}
<1>1. All = Checked(u) \cup Free /\ Checked(u) \cap Free = {}
      /\ Free \subseteq Request
    BY DEF Checked, TypeOK
<1>2. IsFiniteSet(Checked(u)) /\ IsFiniteSet(Free)
    BY <1>1, BalanceTypes, FS_Subset
<1>3. \A r \in Checked(u) \cup Free : charged[r] \in Nat
    BY <1>1 DEF Checked, TypeOK
<1>4. Balance(u) = SumFunctionOnSet(Amount, Deposits(u))
                     - SumFunctionOnSet(charged, All)
    BY Zenon DEF Balance, Deposits
<1>5. Uncounted(u) = SumFunctionOnSet(charged, Free)
    BY Zenon DEF Uncounted
<1> HIDE DEF All, Free
<1>6. SumFunctionOnSet(charged, Checked(u) \cup Free)
        = SumFunctionOnSet(charged, Checked(u)) + SumFunctionOnSet(charged, Free)
    <2>1. \A r \in Checked(u) \cup Free : charged[r] \in Int
        BY <1>3
    <2> QED BY <1>1, <1>2, <2>1, SumUnion
<1>7. SumFunctionOnSet(charged, All)
        = SumFunctionOnSet(charged, Checked(u)) + SumFunctionOnSet(charged, Free)
    BY <1>1, <1>6, Zenon
<1>8. SumFunctionOnSet(charged, Free) \in Nat
    BY <1>2, <1>3, SumNat
<1> QED BY <1>4, <1>5, <1>7, <1>8, BalanceTypes DEF CheckedBalance

\* The inequality of OverdraftInv for one developer and a charge.
Covered(u, c) == CheckedBalance(u) - c * Cardinality(Pending(u))
                   >= -(MinCharge + c * peak[u])

\* Deposits only add to a balance; they and a step that neither charges nor
\* admits leave the inequality as it is.
LEMMA CoveredKept ==
    ASSUME TypeOK, TypeOK', IsFiniteSet(deposited), IsFiniteSet(deposited'),
           NEW u \in User, NEW c \in Nat, Covered(u, c),
           deposited \subseteq deposited',
           UNCHANGED <<unchecked, charged>>, Pending(u)' = Pending(u),
           peak'[u] = peak[u]
    PROVE  Covered(u, c)'
<1>1. Checked(u)' = Checked(u) /\ Deposits(u) \subseteq Deposits(u)'
    BY DEF Checked, Deposits
<1>2. SumFunctionOnSet(charged, Checked(u))' = SumFunctionOnSet(charged, Checked(u))
    BY <1>1, Zenon
<1>3. SumFunctionOnSet(Amount, Deposits(u)) \in Nat
      /\ SumFunctionOnSet(charged, Checked(u)) \in Nat
    BY BalanceTypes
<1>4. /\ IsFiniteSet(Deposits(u)')
      /\ \A p \in Deposits(u)' : Amount[p] \in Nat
    <2>1. Deposits(u)' \subseteq deposited' /\ deposited' \subseteq Payment
        BY DEF Deposits, TypeOK
    <2> QED BY <2>1, FS_Subset
<1>5. SumFunctionOnSet(Amount, Deposits(u)) <= SumFunctionOnSet(Amount, Deposits(u)')
    BY <1>1, <1>4, SumSubset
<1>6. SumFunctionOnSet(Amount, Deposits(u)') \in Nat
    BY <1>4, SumNat
<1>7. CheckedBalance(u)' >= CheckedBalance(u)
      /\ CheckedBalance(u)' \in Int /\ CheckedBalance(u) \in Int
    BY <1>2, <1>3, <1>5, <1>6 DEF CheckedBalance
<1>8. c * Cardinality(Pending(u)) \in Int
    BY BalanceTypes
<1>9. MinCharge + c * peak[u] \in Int
    <2>1. peak[u] \in Nat
        BY DEF TypeOK
    <2> QED BY <2>1, Products
<1>10. Cardinality(Pending(u)') = Cardinality(Pending(u))
    BY Zenon
<1> QED BY <1>7, <1>8, <1>9, <1>10 DEF Covered

\* A request that passes the guard had a balance to pass it, and those that are
\* between the guard and their end are then no more than the peak.
LEMMA CoveredAdmit ==
    ASSUME TypeOK, TypeOK', IsFiniteSet(deposited),
           NEW u \in User, NEW c \in Nat, Covered(u, c),
           NEW r \in Request, Admit(r)
    PROVE  Covered(u, c)'
<1>1. /\ deposited' = deposited /\ unchecked' = unchecked /\ charged' = charged
      /\ \A q \in Request : q # r => rpc'[q] = rpc[q]
      /\ rpc[r] = "allowed"
    BY DEF Admit, LetThrough, depositVars, limitVars, TypeOK
<1>2. CASE ~(CallerOf[r] = u /\ rpc'[r] = "admitted")
    <2>1. \A q \in Request \ unchecked : CallerOf[q] = u =>
              (rpc'[q] = "admitted" <=> rpc[q] = "admitted")
        BY <1>1, <1>2
    <2>2. Pending(u)' = Pending(u)
        BY <1>1, <2>1 DEF Pending
    <2>3. peak'[u] = peak[u]
        BY <1>2 DEF Admit, LetThrough, TypeOK
    <2> QED BY <1>1, <2>2, <2>3, CoveredKept
<1>3. CASE CallerOf[r] = u /\ rpc'[r] = "admitted"
    <2>1. ~(Balance(u) < -MinCharge) /\ LetThrough(r)
        BY <1>3 DEF Admit, TypeOK
    <2>2. CheckedBalance(u) >= -MinCharge /\ CheckedBalance(u) \in Int
        BY <2>1, BalanceSplit, BalanceTypes
    <2>3. CheckedBalance(u)' = CheckedBalance(u)
        BY <1>1 DEF CheckedBalance, Deposits, Checked
    <2>4. /\ IsFiniteSet(Pending(u)) /\ Cardinality(Pending(u)) \in Nat
          /\ peak[u] \in Nat /\ peak'[u] \in Nat
        BY BalanceTypes DEF TypeOK
    <2>5. Pending(u)' \subseteq Pending(u) \cup {r}
        BY <1>1 DEF Pending
    <2>6. /\ Cardinality(Pending(u)') \in Nat
          /\ Cardinality(Pending(u)') <= Cardinality(Pending(u)) + 1
        <3>1. /\ IsFiniteSet(Pending(u) \cup {r})
              /\ Cardinality(Pending(u) \cup {r}) <= Cardinality(Pending(u)) + 1
            <4>1. Cardinality(Pending(u) \cup {r}) = Cardinality(Pending(u))
                  \/ Cardinality(Pending(u) \cup {r})
                       = Cardinality(Pending(u)) + 1
                BY <2>4, FS_AddElement, Zenon
            <4> QED BY <2>4, <4>1, FS_AddElement
        <3>2. /\ IsFiniteSet(Pending(u)')
              /\ Cardinality(Pending(u)') <= Cardinality(Pending(u) \cup {r})
            BY <2>5, <3>1, FS_Subset
        <3> QED BY <2>4, <3>1, <3>2, FS_CardinalityType
    <2>7. peak'[u] >= Cardinality(Pending(u)) + 1
        BY <1>3, <2>1, <2>4 DEF LetThrough, TypeOK
    <2>8. c * Cardinality(Pending(u)') <= c * peak'[u]
        <3>1. Cardinality(Pending(u)') <= peak'[u]
            BY <2>4, <2>6, <2>7
        <3> QED BY <2>4, <2>6, <3>1, ProductsGrow
    <2>9. c * Cardinality(Pending(u)') \in Nat /\ c * peak'[u] \in Nat
        BY <2>4, <2>6, Products
    <2> QED BY <2>2, <2>3, <2>8, <2>9 DEF Covered
<1> QED BY <1>2, <1>3

\* A request that passes unchecked is taken out of both sides: it costs
\* nothing yet.
LEMMA CoveredUnchecked ==
    ASSUME TypeOK, TypeOK', IsFiniteSet(deposited),
           NEW u \in User, NEW c \in Nat, Covered(u, c),
           NEW r \in Request, AdmitUnchecked(r)
    PROVE  Covered(u, c)'
<1>1. /\ deposited' = deposited /\ unchecked' = unchecked \cup {r}
      /\ charged' = charged
      /\ \A q \in Request : q # r => rpc'[q] = rpc[q]
      /\ rpc[r] = "allowed"
    BY DEF AdmitUnchecked, depositVars, limitVars, TypeOK
<1>2. charged[r] = 0
    BY <1>1 DEF TypeOK
<1>3. Checked(u)' = Checked(u) \ {r} /\ Pending(u)' = Pending(u)
    <2>1. Checked(u)' = Checked(u) \ {r}
        BY <1>1 DEF Checked
    <2>2. \A q \in Checked(u) \ {r} : q \in Request /\ rpc'[q] = rpc[q]
        BY <1>1 DEF Checked
    <2> QED BY <1>1, <2>1, <2>2 DEF Pending
<1>4. SumFunctionOnSet(charged, Checked(u) \ {r})
        = SumFunctionOnSet(charged, Checked(u))
    <2>1. CASE r \in Checked(u)
        <3>1. IsFiniteSet(Checked(u)) /\ \A x \in Checked(u) : charged[x] \in Int
            BY BalanceTypes
        <3>2. SumFunctionOnSet(charged, Checked(u))
                = charged[r] + SumFunctionOnSet(charged, Checked(u) \ {r})
            BY <2>1, <3>1, SumTake
        <3>3. SumFunctionOnSet(charged, Checked(u) \ {r}) \in Int
            BY <3>1, FS_RemoveElement, SumInt
        <3> QED BY <1>2, <3>2, <3>3
    <2>2. CASE r \notin Checked(u)
        <3>1. Checked(u) \ {r} = Checked(u)
            BY <2>2
        <3> QED BY <3>1, Zenon
    <2> QED BY <2>1, <2>2
<1>5. CheckedBalance(u)' = CheckedBalance(u)
    <2>1. Deposits(u)' = Deposits(u)
        BY <1>1 DEF Deposits
    <2>2. SumFunctionOnSet(charged, Checked(u))'
            = SumFunctionOnSet(charged, Checked(u))
        BY <1>1, <1>3, <1>4, Zenon
    <2> QED BY <2>1, <2>2, Zenon DEF CheckedBalance
<1>6. peak' = peak
    BY DEF AdmitUnchecked
<1> QED BY <1>3, <1>5, <1>6, Zenon DEF Covered

\* What a request costs in the end is no more than was set aside for it.
LEMMA CoveredFinish ==
    ASSUME TypeOK, TypeOK', IsFiniteSet(deposited),
           NEW u \in User, NEW c \in Nat, Highest(c), Covered(u, c),
           NEW r \in Request, Finish(r)
    PROVE  Covered(u, c)'
<1>1. PICK x \in Charge \cup {0} : charged' = [charged EXCEPT ![r] = x]
    BY DEF Finish
<1>2. /\ deposited' = deposited /\ unchecked' = unchecked
      /\ \A q \in Request : q # r => rpc'[q] = rpc[q]
      /\ rpc[r] = "admitted" /\ rpc'[r] = "over"
    BY DEF Finish, depositVars, limitVars, TypeOK
<1>3. /\ charged[r] = 0 /\ charged'[r] = x
      /\ \A q \in Request : q # r => charged'[q] = charged[q]
      /\ x \in Nat /\ x <= c
    BY <1>1, <1>2 DEF TypeOK, Highest
<1>4. Checked(u)' = Checked(u) /\ Deposits(u)' = Deposits(u)
    BY <1>2 DEF Checked, Deposits
<1>5. IsFiniteSet(Checked(u)) /\ \A q \in Checked(u) : charged[q] \in Int
    BY BalanceTypes
<1>6. CASE r \in Checked(u)
    <2>1. SumFunctionOnSet(charged', Checked(u))
            = SumFunctionOnSet(charged, Checked(u)) - charged[r] + charged'[r]
        <3>1. \A q \in Checked(u) \ {r} : charged'[q] = charged[q]
            BY <1>3 DEF Checked
        <3>2. charged'[r] \in Int
            BY <1>3
        <3> QED BY <1>5, <1>6, <3>1, <3>2, SumSwap
    <2>2. CheckedBalance(u)' = CheckedBalance(u) - x
        <3>1. SumFunctionOnSet(charged, Checked(u))'
                = SumFunctionOnSet(charged, Checked(u)) + x
            <4>1. SumFunctionOnSet(charged, Checked(u)) \in Int
                BY BalanceTypes
            <4>2. SumFunctionOnSet(charged', Checked(u))
                    = SumFunctionOnSet(charged, Checked(u)) + x
                BY <1>3, <2>1, <4>1
            <4> QED BY <1>4, <4>2, Zenon
        <3>2. SumFunctionOnSet(Amount, Deposits(u))'
                = SumFunctionOnSet(Amount, Deposits(u))
            BY <1>4, Zenon
        <3> QED BY <1>3, <3>1, <3>2, BalanceTypes DEF CheckedBalance
    <2>3. r \in Pending(u) /\ Pending(u)' = Pending(u) \ {r}
        BY <1>2, <1>4, <1>6 DEF Pending, Checked
    <2>4. Cardinality(Pending(u)') = Cardinality(Pending(u)) - 1
          /\ Cardinality(Pending(u)') \in Nat
        <3>1. IsFiniteSet(Pending(u)) /\ Cardinality(Pending(u)) \in Nat
            BY BalanceTypes
        <3>2. /\ IsFiniteSet(Pending(u) \ {r})
              /\ Cardinality(Pending(u) \ {r}) = Cardinality(Pending(u)) - 1
            BY <2>3, <3>1, FS_RemoveElement
        <3>3. Cardinality(Pending(u) \ {r}) \in Nat
            BY <3>2, FS_CardinalityType
        <3> QED BY <2>3, <3>2, <3>3, Zenon
    <2>5. c * Cardinality(Pending(u)) = c * Cardinality(Pending(u)') + c
          /\ c * Cardinality(Pending(u)') \in Nat
        <3> DEFINE k == Cardinality(Pending(u)')
        <3>1. Cardinality(Pending(u)) = k + 1 /\ k \in Nat
            BY <2>4, BalanceTypes
        <3> HIDE DEF k
        <3>2. c * (k + 1) = c * k + c /\ c * k \in Nat
            BY <3>1, Products
        <3> QED BY <3>1, <3>2 DEF k
    <2>6. /\ CheckedBalance(u) \in Int /\ MinCharge + c * peak[u] \in Int
          /\ peak'[u] = peak[u]
        <3>1. peak[u] \in Nat /\ peak'[u] = peak[u]
            BY DEF Finish, TypeOK
        <3> QED BY <3>1, BalanceTypes, Products
    <2> QED BY <1>3, <2>2, <2>5, <2>6 DEF Covered
<1>7. CASE r \notin Checked(u)
    <2>1. SumFunctionOnSet(charged', Checked(u))
            = SumFunctionOnSet(charged, Checked(u))
        <3>1. \A q \in Checked(u) : charged'[q] = charged[q]
            BY <1>3, <1>7 DEF Checked
        <3> QED BY <1>5, <3>1, SumSame
    <2>2. CheckedBalance(u)' = CheckedBalance(u)
        BY <1>4, <2>1, Zenon DEF CheckedBalance
    <2>3. Pending(u)' = Pending(u)
        BY <1>2, <1>4, <1>7 DEF Pending, Checked
    <2>4. peak' = peak
        BY DEF Finish
    <2> QED BY <2>2, <2>3, <2>4, Zenon DEF Covered
<1> QED BY <1>6, <1>7

LEMMA OverdraftStep ==
    ASSUME TypeOK, TypeOK', OverdraftInv, [Next]_vars
    PROVE  OverdraftInv'
<1>1. /\ IsFiniteSet(deposited)
      /\ \A u \in User, c \in Charge : Highest(c) => Covered(u, c)
    BY DEF OverdraftInv, Covered
<1>2. deposited \subseteq deposited' /\ IsFiniteSet(deposited')
    <2>1. ASSUME NEW d \in Delivery, CreditPayment(d)
          PROVE  deposited' \in {deposited, deposited \cup {PaymentOf[d]}}
        BY <2>1 DEF CreditPayment
    <2>2. (\E d \in Delivery : CreditPayment(d)) \/ UNCHANGED deposited
        BY DEF Next, vars, Webhook, CheckPayment, FailWebhook, Redeliver,
               Gateway, Allow, Admit, AdmitUnchecked, Finish, Tick,
               RequestPayout, AdminPayouts, ApprovePayout, ReadPayout,
               InsertDebit, CommitPayout, SettlePayoutFails
    <2>3. ASSUME NEW d \in Delivery, CreditPayment(d)
          PROVE  deposited \subseteq deposited' /\ IsFiniteSet(deposited')
        <3>1. deposited' = deposited \/ deposited' = deposited \cup {PaymentOf[d]}
            BY <2>1, <2>3
        <3>2. IsFiniteSet(deposited \cup {PaymentOf[d]})
            BY <1>1, FS_AddElement
        <3> QED BY <1>1, <3>1, <3>2
    <2> QED BY <1>1, <2>2, <2>3
<1> SUFFICES ASSUME NEW u \in User, NEW c \in Charge, Highest(c)
             PROVE  Covered(u, c)'
    BY <1>2 DEF OverdraftInv, Covered, Highest
<1>3. Covered(u, c) /\ c \in Nat
    BY <1>1
<1>4. ASSUME UNCHANGED <<unchecked, charged, peak>>,
             \A q \in Request : rpc'[q] = "admitted" <=> rpc[q] = "admitted"
      PROVE  Covered(u, c)'
    <2>1. Pending(u)' = Pending(u)
        BY <1>4 DEF Pending, Checked
    <2> QED BY <1>1, <1>2, <1>3, <1>4, <2>1, CoveredKept
<1>5. ASSUME NEW r \in Request, Gateway(r)  PROVE Covered(u, c)'
    <2>1. CASE Allow(r)
        <3>1. /\ UNCHANGED <<unchecked, charged, peak>>
              /\ \A q \in Request : rpc'[q] = "admitted" <=> rpc[q] = "admitted"
            BY <2>1 DEF Allow, TypeOK
        <3> QED BY <1>4, <3>1
    <2>2. CASE Admit(r)
        BY <1>1, <1>3, <2>2, CoveredAdmit
    <2>3. CASE AdmitUnchecked(r)
        BY <1>1, <1>3, <2>3, CoveredUnchecked
    <2>4. CASE Finish(r)
        BY <1>1, <1>3, <2>4, CoveredFinish
    <2> QED BY <1>5, <2>1, <2>2, <2>3, <2>4 DEF Gateway
<1>6. CASE UNCHANGED <<unchecked, charged, peak, rpc>>
    BY <1>4, <1>6
<1> QED BY <1>5, <1>6 DEF Next, vars, Webhook, CheckPayment, CreditPayment,
           FailWebhook, Redeliver, Tick, RequestPayout, AdminPayouts,
           ApprovePayout, ReadPayout, InsertDebit, CommitPayout, SettlePayoutFails

\* However long requests last and however many of a developer pass the balance
\* guard, they overdraw the balance by no more than the guard's margin and the
\* dearest charge for each of the most that were ever between the guard and
\* their end at the same time, for any charges and number of requests; those
\* that passed because the balance could not be read apart.
THEOREM OverdraftsAreBounded == Spec => []OverdraftBounded
<1>1. Init => OverdraftInv
    <2> SUFFICES ASSUME Init
                 PROVE  OverdraftInv
        OBVIOUS
    <2>1. TypeOK
        BY DEF Init, TypeOK, MarkingState
    <2>2. IsFiniteSet(deposited)
        BY FS_EmptySet DEF Init
    <2> SUFFICES ASSUME NEW u \in User, NEW c \in Charge
                 PROVE  Covered(u, c)
        BY <2>2 DEF OverdraftInv, Covered
    <2>3. Deposits(u) = {} /\ Pending(u) = {}
        <3>1. deposited = {} /\ \A r \in Request : rpc[r] = "new"
            BY DEF Init
        <3> QED BY <3>1 DEF Deposits, Pending, Checked
    <2>4. SumFunctionOnSet(charged, Checked(u)) = 0
        <3>1. \A r \in Checked(u) : charged[r] = 0
            BY DEF Init, Checked
        <3>2. IsFiniteSet(Checked(u))
            BY <2>1, <2>2, BalanceTypes
        <3> QED BY <3>1, <3>2, SumZero
    <2>5. SumFunctionOnSet(Amount, Deposits(u)) = 0
        BY <2>3, SumEmpty
    <2>6. CheckedBalance(u) = 0 /\ c * Cardinality(Pending(u)) = 0
        BY <2>3, <2>4, <2>5, FS_EmptySet DEF CheckedBalance
    <2>7. MinCharge + c * peak[u] \in Nat
        <3>1. c * peak[u] \in Nat
            BY <2>1, Products DEF TypeOK
        <3> QED BY <3>1
    <2> QED BY <2>6, <2>7 DEF Covered
<1>2. TypeOK /\ TypeOK' /\ OverdraftInv /\ [Next]_vars
        => OverdraftInv'
    BY OverdraftStep
<1>3. TypeOK /\ OverdraftInv => OverdraftBounded
    <2> SUFFICES ASSUME TypeOK, OverdraftInv, NEW u \in User, NEW c \in Charge,
                        \A d \in Charge : d <= c
                 PROVE  Balance(u) + Uncounted(u) >= -(MinCharge + c * peak[u])
        BY DEF OverdraftBounded
    <2>1. CheckedBalance(u) - c * Cardinality(Pending(u))
            >= -(MinCharge + c * peak[u])
        BY DEF OverdraftInv, Highest
    <2>2. Cardinality(Pending(u)) \in Nat /\ CheckedBalance(u) \in Int
        BY BalanceTypes DEF OverdraftInv
    <2>3. c * Cardinality(Pending(u)) \in Nat
        BY <2>2, Products
    <2>4. MinCharge + c * peak[u] \in Int
        BY Products DEF TypeOK
    <2>5. CheckedBalance(u) >= -(MinCharge + c * peak[u])
        BY <2>1, <2>2, <2>3, <2>4
    <2> QED BY <2>5, BalanceSplit DEF OverdraftInv
<1> QED BY <1>1, <1>2, <1>3, AccountsTypes, PTL DEF Spec

-----------------------------------------------------------------------------
\* A deposit is recorded, credited and acknowledged together or not at all,
\* however its webhooks are repeated and overlap (DodoCredit).
THEOREM DepositsAreAtomic == Spec => []AcknowledgedIsCredited
<1> USE DEF AcknowledgedIsCredited
<1>1. Init => AcknowledgedIsCredited
    BY DEF Init
<1>2. TypeOK /\ AcknowledgedIsCredited /\ [Next]_vars
        => AcknowledgedIsCredited'
    <2> SUFFICES ASSUME TypeOK, AcknowledgedIsCredited, [Next]_vars
                 PROVE  AcknowledgedIsCredited'
        OBVIOUS
    <2>1. ASSUME NEW d \in Delivery, Webhook(d)
          PROVE  AcknowledgedIsCredited'
        BY <2>1 DEF Webhook, CheckPayment, CreditPayment, FailWebhook,
                    Redeliver, TypeOK
    <2>2. CASE UNCHANGED depositVars
        BY <2>2
    <2> QED BY <2>1, <2>2 DEF Next, vars, Gateway, Allow, Admit,
                AdmitUnchecked, Finish, Tick, RequestPayout, AdminPayouts,
                ApprovePayout, ReadPayout, InsertDebit, CommitPayout, SettlePayoutFails
<1> QED BY <1>1, <1>2, AccountsTypes, PTL DEF Spec

\* What a payout's transactions have entered: nobody enters a debit beside one
\* that is there or is being entered.
PayoutInv == \A q \in Payout :
    /\ debits[q] \in {0, 1}
    /\ status[q] = "paid" \/ q \in told => debits[q] = 1
    /\ \A k \in Marking :
         /\ mpc[k] = At("entered", q) =>
              /\ debits[q] = 0
              /\ \A j \in Marking : mpc[j] = At("entered", q) => j = k
         /\ mpc[k] = At("skipped", q) => debits[q] = 1

\* A payout leaves the ledger once at most, and has left it when it says paid
\* or an admin was told so, for any number of payouts and of admins who mark
\* and approve them at once (SettlePayout, MarkPayout).
THEOREM PayoutsLeaveOnce == Spec => []PaidOnce
<1>1. Init => PayoutInv
    BY DEF Init, PayoutInv, Idle, At
<1>2. TypeOK /\ PayoutInv /\ [Next]_vars => PayoutInv'
    <2> SUFFICES ASSUME TypeOK, PayoutInv, [Next]_vars
                 PROVE  PayoutInv'
        OBVIOUS
    <2> USE DEF PayoutInv, At
    <2>1. ASSUME NEW q \in Payout, RequestPayout(q) \/ ApprovePayout(q)
          PROVE  PayoutInv'
        BY <2>1 DEF RequestPayout, ApprovePayout, TypeOK
    <2>2. ASSUME NEW k \in Marking, NEW q \in Payout, ReadPayout(k, q)
          PROVE  PayoutInv'
        BY <2>2, SMTT(20) DEF ReadPayout, Idle, TypeOK
    <2>3. ASSUME NEW k \in Marking, NEW q \in Payout, InsertDebit(k, q)
          PROVE  PayoutInv'
        BY <2>3, SMTT(20) DEF InsertDebit, TypeOK
    <2>4. ASSUME NEW k \in Marking, NEW q \in Payout, CommitPayout(k, q)
          PROVE  PayoutInv'
        BY <2>4, SMTT(20) DEF CommitPayout, TypeOK
    <2>5. ASSUME NEW k \in Marking, NEW q \in Payout, SettlePayoutFails(k, q)
          PROVE  PayoutInv'
        BY <2>5, SMTT(20) DEF SettlePayoutFails, TypeOK
    <2>6. CASE UNCHANGED payoutVars
        BY <2>6
    <2> QED BY <2>1, <2>2, <2>3, <2>4, <2>5, <2>6 DEF Next, vars, Webhook,
                CheckPayment, CreditPayment, FailWebhook, Redeliver, Gateway,
                Allow, Admit, AdmitUnchecked, Finish, Tick, AdminPayouts
<1>3. PayoutInv => PaidOnce
    BY DEF PayoutInv, PaidOnce
<1> QED BY <1>1, <1>2, <1>3, AccountsTypes, PTL DEF Spec
=============================================================================
