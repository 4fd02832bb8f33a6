-------------------------- MODULE SettlementProofs --------------------------
(***************************************************************************)
(* What holds of charges and the ledger for every price, fee, pool size,   *)
(* and every set of requests, nodes, owners and outcomes.                  *)
(***************************************************************************)
EXTENDS Settlement, SumProofs

-----------------------------------------------------------------------------
(* Arithmetic.                                                             *)

\* Integer division as multiplication: the quotient and what is left.
LEMMA Division ==
    ASSUME NEW a \in Int, NEW c \in Nat \ {0}
    PROVE  /\ a \div c \in Int
           /\ c * (a \div c) <= a
           /\ a < c * (a \div c) + c
<1>1. a = c * (a \div c) + (a % c) /\ a % c \in 0..(c - 1)
    BY Z3
<1> QED BY <1>1

\* Division keeps the order of its dividends.
LEMMA DivisionGrows ==
    ASSUME NEW a \in Int, NEW b \in Int, NEW c \in Nat \ {0}, a <= b
    PROVE  a \div c <= b \div c
<1> DEFINE p == a \div c
           q == b \div c
<1>1. p \in Int /\ q \in Int /\ c * p <= a /\ b < c * q + c
    BY Division
<1> HIDE DEF p, q
<1>2. c * p < c * (q + 1)
    BY <1>1
<1>3. p < q + 1
    BY <1>1, <1>2
<1>4. p <= q
    BY <1>1, <1>3
<1> QED BY <1>4 DEF p, q

\* ceilDiv is a natural number and keeps the order of its first argument.
LEMMA CeilDivGrows ==
    ASSUME NEW a \in Int, NEW b \in Int, NEW c \in Nat \ {0}, a <= b
    PROVE  CeilDiv(a, c) \in Nat /\ CeilDiv(b, c) \in Nat
           /\ CeilDiv(a, c) <= CeilDiv(b, c)
<1>1. ASSUME NEW x \in Int, x > 0  PROVE  (x + c - 1) \div c \in Nat
    <2>1. 0 \div c <= (x + c - 1) \div c /\ (x + c - 1) \div c \in Int
        BY <1>1, DivisionGrows, Division
    <2>2. 0 \div c = 0
        BY Z3
    <2> QED BY <2>1, <2>2
<1>2. CeilDiv(a, c) \in Nat /\ CeilDiv(b, c) \in Nat
    BY <1>1 DEF CeilDiv
<1>3. CASE a <= 0
    BY <1>2, <1>3 DEF CeilDiv
<1>4. CASE a > 0
    <2>1. (a + c - 1) \div c <= (b + c - 1) \div c
        BY DivisionGrows
    <2> QED BY <1>2, <1>4, <2>1 DEF CeilDiv
<1> QED BY <1>3, <1>4

\* A product with a positive factor keeps the order of the other.
LEMMA ProductGrows ==
    ASSUME NEW a \in Int, NEW b \in Int, NEW c \in Nat \ {0}, a <= b
    PROVE  a * c \in Int /\ b * c \in Int /\ a * c <= b * c
OBVIOUS

\* The charge is a natural number, and at least the minimum once a token is
\* billed (GrossMicro, billing.go:131).
THEOREM ChargeHasAFloor ==
    ASSUME NEW in \in Int, NEW out \in Int
    PROVE  /\ Gross(in, out) \in Nat
           /\ (in > 0 \/ out > 0) => Gross(in, out) >= MinCharge
<1>1. InRate \in Nat \ {0} /\ OutRate \in Nat \ {0} /\ Unit \in Nat \ {0}
      /\ MinCharge \in Nat
    BY PriceAssumption
<1>2. CeilDiv(in * InRate, Unit) \in Nat /\ CeilDiv(out * OutRate, Unit) \in Nat
    BY <1>1, CeilDivGrows
<1> QED BY <1>1, <1>2 DEF Gross

\* More tokens never cost less.
LEMMA GrossGrows ==
    ASSUME NEW in \in Int, NEW out \in Int, NEW in2 \in Int, NEW out2 \in Int,
           in <= in2, out <= out2, in2 > 0
    PROVE  Gross(in, out) <= Gross(in2, out2)
<1>1. InRate \in Nat \ {0} /\ OutRate \in Nat \ {0} /\ Unit \in Nat \ {0}
      /\ MinCharge \in Nat
    BY PriceAssumption
<1> DEFINE x == CeilDiv(in * InRate, Unit)
           y == CeilDiv(out * OutRate, Unit)
           x2 == CeilDiv(in2 * InRate, Unit)
           y2 == CeilDiv(out2 * OutRate, Unit)
<1>2. /\ in * InRate \in Int /\ in2 * InRate \in Int
      /\ in * InRate <= in2 * InRate
    BY <1>1, ProductGrows
<1>3. /\ out * OutRate \in Int /\ out2 * OutRate \in Int
      /\ out * OutRate <= out2 * OutRate
    BY <1>1, ProductGrows
<1>4. x \in Nat /\ x2 \in Nat /\ x <= x2
    BY <1>1, <1>2, CeilDivGrows
<1>5. y \in Nat /\ y2 \in Nat /\ y <= y2
    BY <1>1, <1>3, CeilDivGrows
<1>6. Gross(in, out) = IF in <= 0 /\ out <= 0 THEN 0
                       ELSE IF x + y < MinCharge THEN MinCharge ELSE x + y
    BY DEF Gross
<1>7. Gross(in2, out2) = IF in2 <= 0 /\ out2 <= 0 THEN 0
                         ELSE IF x2 + y2 < MinCharge THEN MinCharge ELSE x2 + y2
    BY DEF Gross
<1> HIDE DEF x, y, x2, y2
<1> QED BY <1>1, <1>4, <1>5, <1>6, <1>7

\* The split hands out the charge exactly, and neither share is negative
\* (SplitProviderFee, billing.go:152), whatever the configured percentage.
THEOREM SplitIsExact ==
    ASSUME NEW gross \in Nat
    PROVE  /\ PlatformFee(gross) \in Nat
           /\ ProviderCredit(gross) \in Nat
           /\ PlatformFee(gross) + ProviderCredit(gross) = gross
<1> DEFINE p == IF FeePercent < 0 THEN 0
                ELSE IF FeePercent > 100 THEN 100 ELSE FeePercent
           fee == (gross * p) \div 100
<1>1. p \in 0..100
    BY PriceAssumption
<1>2. PlatformFee(gross) = fee
    BY DEF PlatformFee
<1> HIDE DEF p
<1>3. gross * p \in Int /\ 0 <= gross * p /\ gross * p <= gross * 100
    BY <1>1
<1>4. /\ fee \in Int
      /\ 100 * fee <= gross * p
      /\ gross * p < 100 * fee + 100
    BY <1>3, Division
<1> HIDE DEF fee
<1>5. 0 <= fee /\ fee <= gross
    BY <1>3, <1>4
<1> QED BY <1>2, <1>4, <1>5 DEF ProviderCredit

\* An estimate is at least one token, of the empty text too.
LEMMA EstimateIsPositive ==
    ASSUME NEW len \in Nat
    PROVE  EstimateTokens(len) \in Nat \ {0}
<1>1. len \div 4 \in Int
    BY Division
<1> QED BY <1>1 DEF EstimateTokens

\* A provider's count is billed only near the estimate: at most four thirds
\* of it, and at least four fifths unless the estimate is tiny.
THEOREM BilledIsNear ==
    ASSUME NEW est \in Nat \ {0}, NEW reported \in SUBSET Int
    PROVE  LET billed == Billed(est, reported) IN
           /\ billed \in Int
           /\ billed <= FourThirds(est)
           /\ est > 2 => 5 * billed >= 4 * est
<1>1. /\ FourThirds(est) \in Int
      /\ 4 * est < 3 * FourThirds(est) + 3
    BY Division DEF FourThirds
<1>2. CASE \E count \in reported : CountsMatch(est, count)
    <2> DEFINE b == CHOOSE count \in reported : CountsMatch(est, count)
    <2>1. b \in reported /\ CountsMatch(est, b)
        BY <1>2
    <2>2. Billed(est, reported) = b
        BY <1>2 DEF Billed
    <2> HIDE DEF b
    <2>3. b \in Int
        BY <2>1
    <2>4. CASE b <= 0
        <3>1. est <= 2
            BY <2>1, <2>4 DEF CountsMatch
        <3> QED BY <1>1, <2>2, <2>3, <2>4, <3>1
    <2>5. CASE b > 0
        <3>1. 4 * (est - b) <= b /\ 4 * (b - est) <= b
            BY <2>1, <2>3, <2>5 DEF CountsMatch
        <3> QED BY <1>1, <2>2, <2>3, <3>1
    <2> QED BY <2>3, <2>4, <2>5
<1>3. CASE ~\E count \in reported : CountsMatch(est, count)
    <2>1. Billed(est, reported) = est
        BY <1>3 DEF Billed
    <2> QED BY <1>1, <2>1
<1> QED BY <1>2, <1>3

-----------------------------------------------------------------------------
(* Invariants of the specification.                                        *)

\* The part of TypeOK the proofs below rest on.
Typed ==
    /\ spc \in [Request -> Spc]
    /\ outcome \in [Request -> Outcome \cup {None}]
    /\ \A r \in Request : spc[r] # "running" => outcome[r] \in Outcome

-----------------------------------------------------------------------------
(* Totals of entries and of credits.                                       *)

Amounts == [e \in Entry |-> e.amount]

\* A sum over a function of its own is one over a common function.
LEMMA SumOfRestriction ==
    ASSUME NEW R, IsFiniteSet(R), NEW f, NEW g, g = [x \in R |-> f[x]]
    PROVE  SumFunction(g) = SumFunctionOnSet(f, R)
<1>1. DOMAIN g = R /\ \A x \in R : g[x] = f[x]
    OBVIOUS
<1>2. SumFunction(g) = SumFunctionOnSet(g, R)
    BY <1>1, Zenon DEF SumFunction
<1> QED BY <1>1, <1>2, SumSame

LEMMA TotalIs ==
    ASSUME NEW D, IsFiniteSet(D), D \subseteq Entry
    PROVE  /\ Total(D) = SumFunctionOnSet(Amounts, D)
           /\ Total(D) \in Int
           /\ \A e \in D : Amounts[e] \in Int
<1> DEFINE g == [e \in D |-> e.amount]
<1>1. g = [e \in D |-> Amounts[e]]
    BY DEF Amounts
<1>2. \A e \in D : Amounts[e] \in Int
    BY DEF Amounts, Entry
<1>3. Total(D) = SumFunction(g)
    BY Zenon DEF Total
<1> HIDE DEF g
<1>4. Total(D) = SumFunctionOnSet(Amounts, D)
    BY <1>1, <1>3, SumOfRestriction
<1> QED BY <1>2, <1>4, SumInt

LEMMA TotalAdd ==
    ASSUME NEW D, IsFiniteSet(D), D \subseteq Entry, NEW e \in Entry, e \notin D
    PROVE  /\ IsFiniteSet(D \cup {e}) /\ D \cup {e} \subseteq Entry
           /\ Total(D \cup {e}) = Total(D) + e.amount
<1>1. IsFiniteSet(D \cup {e}) /\ D \cup {e} \subseteq Entry
    BY FS_AddElement
<1>2. Total(D \cup {e}) = SumFunctionOnSet(Amounts, D \cup {e})
    BY <1>1, TotalIs
<1>3. SumFunctionOnSet(Amounts, D \cup {e})
        = Amounts[e] + SumFunctionOnSet(Amounts, D)
    BY <1>1, TotalIs, SumAdd
<1>4. Amounts[e] = e.amount /\ e.amount \in Int
    BY DEF Amounts, Entry
<1> QED BY <1>1, <1>2, <1>3, <1>4, TotalIs

\* Entries of amount zero are left out and make no difference.
LEMMA TotalAddPositive ==
    ASSUME NEW D, IsFiniteSet(D), D \subseteq Entry,
           NEW e \in Entry, e \notin D, e.amount \in Nat
    PROVE  LET D2 == D \cup {x \in {e} : x.amount > 0} IN
           /\ IsFiniteSet(D2) /\ D2 \subseteq Entry
           /\ Total(D2) = Total(D) + e.amount
<1> DEFINE D2 == D \cup {x \in {e} : x.amount > 0}
<1>1. CASE e.amount > 0
    <2>1. D2 = D \cup {e}
        BY <1>1
    <2>2. /\ IsFiniteSet(D \cup {e}) /\ D \cup {e} \subseteq Entry
          /\ Total(D \cup {e}) = Total(D) + e.amount
        BY TotalAdd
    <2> HIDE DEF D2
    <2>3. IsFiniteSet(D2) /\ D2 \subseteq Entry /\ Total(D2) = Total(D) + e.amount
        BY <2>1, <2>2, Zenon
    <2> QED BY <2>3 DEF D2
<1>2. CASE ~(e.amount > 0)
    <2>1. D2 = D /\ e.amount = 0
        BY <1>2
    <2>2. Total(D) \in Int
        BY TotalIs
    <2>3. Total(D) = Total(D) + e.amount
        BY <2>1, <2>2
    <2> HIDE DEF D2
    <2>4. IsFiniteSet(D2) /\ D2 \subseteq Entry /\ Total(D2) = Total(D) + e.amount
        BY <2>1, <2>3, Zenon
    <2> QED BY <2>4 DEF D2
<1> QED BY <1>1, <1>2

\* What a request that has ended costs, and how that is split.
LEMMA AmountsType ==
    ASSUME Typed, NEW r \in Request, spc[r] # "running"
    PROVE  /\ GrossOf(r) \in Nat /\ CreditOf(r) \in Nat /\ FeeOf(r) \in Nat
           /\ FeeOf(r) + CreditOf(r) = GrossOf(r)
           /\ CallerOf(r) \in User \cup {None}
<1> DEFINE o == outcome[r]
           in == Billed(EstimateTokens(o.prompt), o.provIn)
           out == Billed(EstimateTokens(o.text), o.provOut)
<1>1. o \in Outcome
    BY DEF Typed
<1>2. /\ o.prompt \in Nat /\ o.text \in Nat
      /\ o.provIn \in SUBSET Int /\ o.provOut \in SUBSET Int
      /\ o.caller \in User \cup {None}
    BY <1>1, SettlementAssumption
<1>3. in \in Int /\ out \in Int
    BY <1>2, EstimateIsPositive, BilledIsNear
<1>4. GrossOf(r) = Gross(in, out) /\ CallerOf(r) = o.caller
    BY DEF GrossOf, CallerOf
<1> HIDE DEF in, out, o
<1>5. GrossOf(r) \in Nat
    BY <1>3, <1>4, ChargeHasAFloor
<1> QED BY <1>2, <1>4, <1>5, SplitIsExact DEF CreditOf, FeeOf

\* The entries of a settlement belong to its request, and add up to nothing,
\* or to the charge when nobody is charged.
LEMMA SettlementBalances ==
    ASSUME Typed, NEW r \in Request, spc[r] # "running",
           seen[r] \in User \cup {None}
    PROVE  /\ IsFiniteSet(Settlement(r)) /\ Settlement(r) \subseteq Entry
           /\ \A e \in Settlement(r) : /\ e.ref = r
                                       /\ e.type # "enrollment_sweep"
           /\ Total(Settlement(r)) = IF CallerOf(r) = None THEN GrossOf(r) ELSE 0
<1> DEFINE charge(u) == E(Developer(u), "usage_charge", r, -GrossOf(r))
           credit == E(CreditAccount(r), "provider_earning", r, CreditOf(r))
           fee == E(Revenue, "platform_fee", r, FeeOf(r))
           A == {charge(u) : u \in {CallerOf(r)} \ {None}}
           B == A \cup {e \in {credit} : e.amount > 0}
           C == B \cup {e \in {fee} : e.amount > 0}
<1>1. /\ GrossOf(r) \in Nat /\ CreditOf(r) \in Nat /\ FeeOf(r) \in Nat
      /\ FeeOf(r) + CreditOf(r) = GrossOf(r)
      /\ CallerOf(r) \in User \cup {None}
    BY AmountsType
<1>2. Settlement(r) = C
    BY DEF Settlement
<1>3. CreditAccount(r) \in Account /\ Revenue \in Account
      /\ \A u \in User : Developer(u) \in Account
    BY DEF CreditAccount, Escrow, Earnings, Revenue, Developer, Account
<1>4. ASSUME NEW u \in User
      PROVE  /\ charge(u) \in Entry /\ charge(u).amount = -GrossOf(r)
             /\ charge(u).type = "usage_charge" /\ charge(u).ref = r
    BY <1>1, <1>3 DEF E, Entry, EntryType
<1>5. /\ credit \in Entry /\ credit.amount = CreditOf(r)
      /\ credit.type = "provider_earning" /\ credit.ref = r
    BY <1>1, <1>3 DEF E, Entry, EntryType
<1>6. /\ fee \in Entry /\ fee.amount = FeeOf(r)
      /\ fee.type = "platform_fee" /\ fee.ref = r
    BY <1>1, <1>3 DEF E, Entry, EntryType
<1> HIDE DEF charge, credit, fee
<1>7. /\ IsFiniteSet(A) /\ A \subseteq Entry
      /\ Total(A) = IF CallerOf(r) = None THEN 0 ELSE -GrossOf(r)
      /\ \A e \in A : e.type = "usage_charge" /\ e.ref = r
    <2>1. Total({}) = 0 /\ IsFiniteSet({})
        <3>1. Total({}) = SumFunctionOnSet(Amounts, {})
            BY TotalIs, FS_EmptySet
        <3> QED BY <3>1, SumEmpty, FS_EmptySet
    <2>2. CASE CallerOf(r) = None
        <3>1. A = {}
            BY <2>2
        <3> QED BY <2>1, <2>2, <3>1
    <2>3. CASE CallerOf(r) # None
        <3> DEFINE e == charge(CallerOf(r))
        <3>1. A = {} \cup {e} /\ CallerOf(r) \in User
            BY <1>1, <2>3
        <3>2. e \in Entry /\ e.amount = -GrossOf(r)
              /\ e.type = "usage_charge" /\ e.ref = r
            BY <1>4, <3>1
        <3> HIDE DEF e
        <3>3. /\ IsFiniteSet({} \cup {e})
              /\ Total({} \cup {e}) = Total({}) + e.amount
            BY <2>1, <3>2, TotalAdd
        <3>4. Total(A) = Total({}) + e.amount /\ IsFiniteSet(A)
            BY <3>1, <3>3, Zenon
        <3>5. A \subseteq Entry /\ \A x \in A : x.type = "usage_charge" /\ x.ref = r
            BY <3>1, <3>2
        <3> QED BY <1>1, <2>1, <2>3, <3>2, <3>4, <3>5
    <2> QED BY <2>2, <2>3
<1> HIDE DEF A
<1>8. /\ IsFiniteSet(B) /\ B \subseteq Entry
      /\ Total(B) = Total(A) + CreditOf(r)
      /\ \A e \in B : e.type \in {"usage_charge", "provider_earning"} /\ e.ref = r
    <2>1. credit \notin A
        BY <1>5, <1>7
    <2>2. /\ IsFiniteSet(B) /\ B \subseteq Entry
          /\ Total(B) = Total(A) + CreditOf(r)
        BY <1>1, <1>5, <1>7, <2>1, TotalAddPositive
    <2> QED BY <1>5, <1>7, <2>2
<1> HIDE DEF B
<1>9. /\ IsFiniteSet(C) /\ C \subseteq Entry
      /\ Total(C) = Total(B) + FeeOf(r)
      /\ \A e \in C : e.type # "enrollment_sweep" /\ e.ref = r
    <2>1. fee \notin B
        BY <1>6, <1>8
    <2>2. /\ IsFiniteSet(C) /\ C \subseteq Entry
          /\ Total(C) = Total(B) + FeeOf(r)
        BY <1>1, <1>6, <1>8, <2>1, TotalAddPositive
    <2> QED BY <1>6, <1>8, <2>2
<1> HIDE DEF C
<1>10. Total(C) = IF CallerOf(r) = None THEN GrossOf(r) ELSE 0
    BY <1>1, <1>7, <1>8, <1>9
<1> QED BY <1>2, <1>9, <1>10

-----------------------------------------------------------------------------
(* The books: who has settled has exactly its settlement in the ledger.    *)

EntriesOf(x) == {e \in ledger : e.ref = x}

Books ==
    /\ TypeOK
    /\ \A r \in Request : usage[r] = "settled" <=> spc[r] = "settled"
    /\ UnsettledIsUncharged
    /\ IsFiniteSet(ledger) /\ IsFiniteSet(SettledRequests)
    /\ \A r \in SettledRequests : EntriesOf(r) = Settlement(r)

CreditMap == [r \in Request |-> CreditOf(r)]

\* The credits of settled requests are natural numbers and have a sum.
LEMMA CreditsAre ==
    ASSUME Books, NEW R, R \subseteq SettledRequests
    PROVE  /\ IsFiniteSet(R) /\ R \subseteq Request
           /\ \A r \in R : CreditMap[r] \in Nat /\ CreditMap[r] = CreditOf(r)
           /\ Credits(R) = SumFunctionOnSet(CreditMap, R)
           /\ Credits(R) \in Nat
<1>1. IsFiniteSet(R)
    BY FS_Subset DEF Books
<1>2. R \subseteq Request
    BY DEF SettledRequests
<1>3. Typed
    BY DEF Books, TypeOK, Typed
<1>4. \A r \in R : CreditMap[r] \in Nat /\ CreditMap[r] = CreditOf(r)
    <2> SUFFICES ASSUME NEW r \in R
                 PROVE  CreditMap[r] \in Nat /\ CreditMap[r] = CreditOf(r)
        OBVIOUS
    <2>1. r \in Request /\ spc[r] # "running"
        BY DEF Books, SettledRequests
    <2> QED BY <1>3, <2>1, AmountsType DEF CreditMap
<1> DEFINE g == [r \in R |-> CreditOf(r)]
<1>5. g = [r \in R |-> CreditMap[r]]
    BY <1>4
<1>6. Credits(R) = SumFunction(g)
    BY Zenon DEF Credits
<1> HIDE DEF g
<1>7. Credits(R) = SumFunctionOnSet(CreditMap, R)
    BY <1>1, <1>5, <1>6, SumOfRestriction
<1> QED BY <1>1, <1>2, <1>4, <1>7, SumNat

\* What is in escrow has been settled.
LEMMA UnsweptIsSettled ==
    ASSUME Books, NEW n
    PROVE  Unswept(n) \subseteq SettledRequests
BY DEF Books, Unswept, SettledRequests, UnsettledIsUncharged

\* Locks are held by transactions, or by none.
LEMMA LockTypes ==
    ASSUME TypeOK, NEW x \in Row, NEW h \in Request \cup Conn
    PROVE  /\ Take(x, h) => lock' \in [Row -> Request \cup Conn \cup {None}]
           /\ Release(h) => lock' \in [Row -> Request \cup Conn \cup {None}]
BY DEF TypeOK, Take, Release

LEMMA Rows ==
    /\ \A u \in User : Developer(u) \in Row /\ Earnings(u) \in Row
    /\ Escrow \in Row /\ Escrow \in Account /\ Revenue \in Row
    /\ \A u \in User : Earnings(u) \in Account
    /\ \A n \in Node : n \in Row
BY DEF Row, Account, Developer, Earnings, Escrow, Revenue

LEMMA SweepEntries ==
    ASSUME TypeOK, NEW c \in Conn
    PROVE  /\ OwnerOf[Presents[c]] \in User /\ NodeOf[c] \in Node
           /\ E(Escrow, "enrollment_sweep", NodeOf[c], -escrowed[c]) \in Entry
           /\ E(Earnings(OwnerOf[Presents[c]]), "enrollment_sweep", NodeOf[c],
                escrowed[c]) \in Entry
<1>1. OwnerOf[Presents[c]] \in User /\ NodeOf[c] \in Node
    BY SettlementAssumption
<1>2. escrowed[c] \in Int /\ -escrowed[c] \in Int
    BY DEF TypeOK
<1> QED BY <1>1, <1>2, Rows DEF E, Entry, EntryType

\* Every step keeps the types.
LEMMA TypesStep ==
    ASSUME Books, [Next]_vars
    PROVE  TypeOK'
<1> USE DEF Books, TypeOK, Spc, InTx
<1>1. ASSUME NEW r \in Request, Unmetered(r) PROVE TypeOK'
    BY <1>1 DEF Unmetered, bindVars, moneyVars
<1>2. ASSUME NEW r \in Request, Meter(r) PROVE TypeOK'
    BY <1>2 DEF Meter, bindVars, moneyVars
<1>3. ASSUME NEW r \in Request, Begin(r) PROVE TypeOK'
    BY <1>3 DEF Begin, bindVars, moneyVars
<1>4. ASSUME NEW r \in Request, Debit(r) PROVE TypeOK'
    <2>1. spc[r] # "running"
        BY <1>4 DEF Debit
    <2>2. CallerOf(r) \in User \cup {None}
        BY <2>1, AmountsType DEF Typed
    <2>3. lock' \in [Row -> Request \cup Conn \cup {None}]
        BY <1>4, <2>2, LockTypes, Rows DEF Debit
    <2> QED BY <1>4, <2>3 DEF Debit, bindVars, moneyVars
<1>5. ASSUME NEW r \in Request, ReadOwner(r) PROVE TypeOK'
    <2>1. \A k \in {binding[ServedBy[r]]} \ {None} : OwnerOf[k] \in User
        BY SettlementAssumption
    <2>2. seen' \in [Request -> User \cup {None}]
        BY <1>5, <2>1 DEF ReadOwner
    <2> QED BY <1>5, <2>2 DEF ReadOwner, bindVars, moneyVars
<1>6. ASSUME NEW r \in Request, Credit(r) PROVE TypeOK'
    <2>1. CreditAccount(r) \in Row
        BY Rows DEF CreditAccount
    <2>2. lock' \in [Row -> Request \cup Conn \cup {None}]
        BY <1>6, <2>1, LockTypes DEF Credit
    <2> QED BY <1>6, <2>2 DEF Credit, bindVars, moneyVars
<1>7. ASSUME NEW r \in Request, Settle(r) PROVE TypeOK'
    <2>1. spc[r] # "running" /\ seen[r] \in User \cup {None}
        BY <1>7 DEF Settle
    <2>2. Settlement(r) \subseteq Entry
        BY <2>1, SettlementBalances DEF Typed
    <2>3. ledger' \subseteq Entry
        BY <1>7, <2>2 DEF Settle, Insert
    <2>4. lock' \in [Row -> Request \cup Conn \cup {None}]
        BY <1>7, LockTypes, Rows DEF Settle
    <2> QED BY <1>7, <2>3, <2>4 DEF Settle, bindVars
<1>8. ASSUME NEW r \in Request, Abort(r) PROVE TypeOK'
    <2>1. lock' \in [Row -> Request \cup Conn \cup {None}]
        BY <1>8, LockTypes, Rows DEF Abort
    <2> QED BY <1>8, <2>1 DEF Abort, bindVars, moneyVars
<1>9. ASSUME NEW c \in Conn, Resolve(c) PROVE TypeOK'
    BY <1>9 DEF Resolve, settleVars, moneyVars
<1>10. ASSUME NEW c \in Conn, BeginBind(c) PROVE TypeOK'
    <2>1. NodeOf[c] \in Row
        BY SweepEntries, Rows
    <2>2. lock' \in [Row -> Request \cup Conn \cup {None}]
        BY <1>10, <2>1, LockTypes DEF BeginBind
    <2>3. Credits(Unswept(NodeOf[c])) \in Int
        BY UnsweptIsSettled, CreditsAre
    <2> QED BY <1>10, <2>2, <2>3 DEF BeginBind, settleVars, moneyVars
<1>11. ASSUME NEW c \in Conn, LockEscrow(c) PROVE TypeOK'
    <2>1. lock' \in [Row -> Request \cup Conn \cup {None}]
        BY <1>11, LockTypes, Rows DEF LockEscrow
    <2> QED BY <1>11, <2>1 DEF LockEscrow, settleVars, moneyVars
<1>12. ASSUME NEW c \in Conn, Bound(c), transferred' \subseteq Request,
              ledger' \subseteq Entry
       PROVE  TypeOK'
    <2>1. lock' \in [Row -> Request \cup Conn \cup {None}]
        BY <1>12, LockTypes, Rows DEF Bound
    <2>2. Presents[c] \in Credential
        BY SettlementAssumption
    <2> QED BY <1>12, <2>1, <2>2 DEF Bound, settleVars
<1>13. ASSUME NEW c \in Conn, NothingToSweep(c) PROVE TypeOK'
    BY <1>12, <1>13 DEF NothingToSweep, moneyVars
<1>14. ASSUME NEW c \in Conn, Sweep(c) PROVE TypeOK'
    <2>1. ledger' \subseteq Entry
        BY <1>14, SweepEntries DEF Sweep, Insert
    <2>2. transferred' \subseteq Request
        BY <1>14 DEF Sweep, Unswept
    <2> QED BY <1>12, <1>14, <2>1, <2>2 DEF Sweep
<1>15. ASSUME NEW c \in Conn, AbortBind(c) PROVE TypeOK'
    <2>1. lock' \in [Row -> Request \cup Conn \cup {None}]
        BY <1>15, LockTypes, Rows DEF AbortBind
    <2> QED BY <1>15, <2>1 DEF AbortBind, settleVars, moneyVars
<1>16. ASSUME NEW n \in Node, RevokeNode(n) PROVE TypeOK'
    BY <1>16 DEF RevokeNode, settleVars, moneyVars
<1>17. CASE UNCHANGED vars
    BY <1>17 DEF vars, settleVars, bindVars, moneyVars
<1> QED BY <1>1, <1>2, <1>3, <1>4, <1>5, <1>6, <1>7, <1>8, <1>9, <1>10, <1>11,
           <1>13, <1>14, <1>15, <1>16, <1>17 DEF Next, SettleStep, BindStep

\* A settlement is computed from what a settled request keeps.
LEMMA SettlementKept ==
    ASSUME NEW r \in Request, outcome'[r] = outcome[r], seen'[r] = seen[r]
    PROVE  /\ Settlement(r)' = Settlement(r)
           /\ CreditOf(r)' = CreditOf(r)
           /\ GrossOf(r)' = GrossOf(r)
           /\ CallerOf(r)' = CallerOf(r)
<1>1. GrossOf(r)' = GrossOf(r) /\ CallerOf(r)' = CallerOf(r)
    BY Zenon DEF GrossOf, CallerOf
<1>2. CreditOf(r)' = CreditOf(r) /\ FeeOf(r)' = FeeOf(r)
    BY <1>1, Zenon DEF CreditOf, FeeOf
<1>3. CreditAccount(r)' = CreditAccount(r)
    BY Zenon DEF CreditAccount
<1>4. Settlement(r)' = Settlement(r)
    BY <1>1, <1>2, <1>3, Zenon DEF Settlement
<1> QED BY <1>1, <1>2, <1>4

\* A step that writes nothing keeps the books.
LEMMA BooksKept ==
    ASSUME Books, TypeOK', ledger' = ledger,
           \A r \in Request : usage'[r] = "settled" <=> usage[r] = "settled",
           \A r \in Request : spc'[r] = "settled" <=> spc[r] = "settled",
           \A r \in SettledRequests : outcome'[r] = outcome[r] /\ seen'[r] = seen[r]
    PROVE  Books' /\ SettledRequests' = SettledRequests
<1>1. SettledRequests' = SettledRequests
    BY DEF SettledRequests
<1>2. UnsettledIsUncharged'
    BY DEF Books, UnsettledIsUncharged
<1>3. \A r \in Request : usage'[r] = "settled" <=> spc'[r] = "settled"
    BY DEF Books
<1>4. IsFiniteSet(ledger') /\ IsFiniteSet(SettledRequests')
    BY <1>1, Zenon DEF Books
<1>5. \A r \in SettledRequests : EntriesOf(r)' = Settlement(r)'
    <2> SUFFICES ASSUME NEW r \in SettledRequests
                 PROVE  EntriesOf(r)' = Settlement(r)'
        OBVIOUS
    <2>1. r \in Request
        BY DEF SettledRequests
    <2>2. Settlement(r)' = Settlement(r)
        BY <2>1, SettlementKept
    <2>3. EntriesOf(r)' = EntriesOf(r)
        BY DEF EntriesOf
    <2>4. EntriesOf(r) = Settlement(r)
        BY DEF Books
    <2> QED BY <2>2, <2>3, <2>4, Zenon
<1> QED BY <1>1, <1>2, <1>3, <1>4, <1>5, Zenon DEF Books

\* A settlement writes all its entries: none of its keys is taken.
LEMMA SettleWrites ==
    ASSUME Books, NEW r \in Request, Settle(r)
    PROVE  /\ spc[r] = "credited" /\ usage[r] # "settled"
           /\ seen[r] \in User \cup {None} /\ outcome[r] \in Outcome
           /\ \A e \in ledger : e.ref # r
           /\ ledger' = ledger \cup Settlement(r)
           /\ IsFiniteSet(Settlement(r)) /\ Settlement(r) \subseteq Entry
           /\ \A e \in Settlement(r) : e.ref = r /\ e.type # "enrollment_sweep"
           /\ SettledRequests' = SettledRequests \cup {r}
           /\ r \notin SettledRequests
<1>1. spc[r] = "credited"
    BY DEF Settle
<1>2. usage[r] # "settled" /\ seen[r] \in User \cup {None} /\ outcome[r] \in Outcome
    BY <1>1 DEF Books, TypeOK
<1>3. \A e \in ledger : e.ref # r
    BY <1>2 DEF Books, UnsettledIsUncharged
<1>4. /\ IsFiniteSet(Settlement(r)) /\ Settlement(r) \subseteq Entry
      /\ \A e \in Settlement(r) : e.ref = r /\ e.type # "enrollment_sweep"
    BY <1>1, <1>2, SettlementBalances DEF Books, TypeOK, Typed
<1>5. ledger' = ledger \cup Settlement(r)
    BY <1>3, <1>4 DEF Settle, Insert
<1>6. SettledRequests' = SettledRequests \cup {r} /\ r \notin SettledRequests
    BY <1>2 DEF SettledRequests, Settle, Books, TypeOK
<1> QED BY <1>1, <1>2, <1>3, <1>4, <1>5, <1>6

LEMMA SettleKeepsBooks ==
    ASSUME Books, TypeOK', NEW r \in Request, Settle(r)
    PROVE  Books'
<1>1. /\ usage[r] # "settled" /\ outcome' = outcome /\ seen' = seen
      /\ \A e \in ledger : e.ref # r
      /\ ledger' = ledger \cup Settlement(r)
      /\ IsFiniteSet(Settlement(r))
      /\ \A e \in Settlement(r) : e.ref = r
      /\ SettledRequests' = SettledRequests \cup {r}
    BY SettleWrites DEF Settle
<1>2. /\ usage' = [usage EXCEPT ![r] = "settled"]
      /\ spc' = [spc EXCEPT ![r] = "settled"]
    BY DEF Settle
<1>3. \A q \in Request : usage'[q] = "settled" <=> spc'[q] = "settled"
    BY <1>2 DEF Books, TypeOK
<1>4. UnsettledIsUncharged'
    BY <1>1, <1>2 DEF Books, TypeOK, UnsettledIsUncharged
<1>5. IsFiniteSet(ledger')
    BY <1>1, FS_Union, Zenon DEF Books
<1>6. IsFiniteSet(SettledRequests')
    <2>1. IsFiniteSet(SettledRequests \cup {r})
        BY FS_AddElement DEF Books
    <2> QED BY <1>1, <2>1, Zenon
<1>7. ASSUME NEW q \in SettledRequests \cup {r}
      PROVE  EntriesOf(q)' = Settlement(q)'
    <2>1. q \in Request
        BY DEF SettledRequests
    <2>2. Settlement(q)' = Settlement(q)
        BY <1>1, <2>1, SettlementKept
    <2>3. CASE q = r
        <3>1. EntriesOf(r)' = Settlement(r)
            BY <1>1 DEF EntriesOf
        <3> QED BY <2>2, <2>3, <3>1, Zenon
    <2>4. CASE q # r
        <3>1. EntriesOf(q)' = EntriesOf(q)
            BY <1>1, <2>4 DEF EntriesOf
        <3>2. EntriesOf(q) = Settlement(q)
            BY <2>4 DEF Books
        <3> QED BY <2>2, <3>1, <3>2, Zenon
    <2> QED BY <2>3, <2>4
<1>8. \A q \in SettledRequests' : EntriesOf(q)' = Settlement(q)'
    BY <1>1, <1>7, Zenon
<1> QED BY <1>3, <1>4, <1>5, <1>6, <1>8, Zenon DEF Books

\* A sweep writes in the name of its node, not of a request.
LEMMA SweepKeepsBooks ==
    ASSUME Books, TypeOK', NEW c \in Conn, Sweep(c)
    PROVE  Books' /\ SettledRequests' = SettledRequests
<1> DEFINE out == E(Escrow, "enrollment_sweep", NodeOf[c], -escrowed[c])
           in == E(Earnings(OwnerOf[Presents[c]]), "enrollment_sweep", NodeOf[c],
                   escrowed[c])
<1>1. ledger' \subseteq ledger \cup {out, in} /\ ledger \subseteq ledger'
    BY DEF Sweep, Insert
<1>2. NodeOf[c] \notin Request
    BY SettlementAssumption
<1>3. out.ref = NodeOf[c] /\ in.ref = NodeOf[c]
    BY DEF E
<1> HIDE DEF out, in
<1>4. UNCHANGED <<spc, outcome, seen, usage>>
    BY DEF Sweep, Bound, settleVars
<1>5. SettledRequests' = SettledRequests
    BY <1>4 DEF SettledRequests
<1>6. IsFiniteSet(ledger')
    <2>1. IsFiniteSet({out} \cup {in})
        BY FS_Singleton, FS_AddElement
    <2>2. IsFiniteSet(ledger \cup ({out} \cup {in}))
        BY <2>1, FS_Union DEF Books
    <2> QED BY <1>1, <2>2, FS_Subset
<1>7. UnsettledIsUncharged'
    BY <1>1, <1>2, <1>3, <1>4 DEF Books, UnsettledIsUncharged
<1>8. ASSUME NEW r \in SettledRequests PROVE EntriesOf(r)' = Settlement(r)'
    <2>1. r \in Request
        BY DEF SettledRequests
    <2>2. Settlement(r)' = Settlement(r)
        BY <1>4, <2>1, SettlementKept
    <2>3. EntriesOf(r)' = EntriesOf(r)
        BY <1>1, <1>2, <1>3, <2>1 DEF EntriesOf
    <2>4. EntriesOf(r) = Settlement(r)
        BY DEF Books
    <2> QED BY <2>2, <2>3, <2>4, Zenon
<1>9. \A r \in Request : usage'[r] = "settled" <=> spc'[r] = "settled"
    BY <1>4 DEF Books
<1>10. IsFiniteSet(SettledRequests')
    BY <1>5, Zenon DEF Books
<1>11. \A r \in SettledRequests' : EntriesOf(r)' = Settlement(r)'
    BY <1>5, <1>8, Zenon
<1> QED BY <1>5, <1>6, <1>7, <1>9, <1>10, <1>11, Zenon DEF Books

\* Only a settlement and a sweep write.
LEMMA OnlyTheyWrite ==
    ASSUME Books, [Next]_vars,
           ~\E r \in Request : Settle(r), ~\E c \in Conn : Sweep(c)
    PROVE  /\ ledger' = ledger /\ transferred' = transferred
           /\ \A r \in Request :
                /\ usage'[r] = "settled" <=> usage[r] = "settled"
                /\ spc'[r] = "settled" <=> spc[r] = "settled"
                /\ spc[r] = "settled" => /\ outcome'[r] = outcome[r]
                                         /\ seen'[r] = seen[r]
<1> DEFINE Quiet == /\ ledger' = ledger /\ transferred' = transferred
                    /\ \A r \in Request :
                         /\ usage'[r] = "settled" <=> usage[r] = "settled"
                         /\ spc'[r] = "settled" <=> spc[r] = "settled"
                         /\ spc[r] = "settled" => /\ outcome'[r] = outcome[r]
                                                  /\ seen'[r] = seen[r]
<1> SUFFICES Quiet
    OBVIOUS
<1>1. ASSUME NEW r \in Request,
             Unmetered(r) \/ Meter(r) \/ Begin(r) \/ Debit(r) \/ ReadOwner(r)
               \/ Credit(r) \/ Abort(r)
      PROVE  Quiet
    <2> USE DEF Books, TypeOK, Spc, InTx, moneyVars
    <2>1. CASE Unmetered(r)
        BY <2>1 DEF Unmetered
    <2>2. CASE Meter(r)
        BY <2>2 DEF Meter
    <2>3. CASE Begin(r) \/ Debit(r) \/ ReadOwner(r)
        BY <2>3 DEF Begin, Debit, ReadOwner
    <2>4. CASE Credit(r) \/ Abort(r)
        BY <2>4 DEF Credit, Abort
    <2> QED BY <1>1, <2>1, <2>2, <2>3, <2>4
<1>2. ASSUME NEW c \in Conn,
             Resolve(c) \/ BeginBind(c) \/ LockEscrow(c) \/ NothingToSweep(c)
               \/ AbortBind(c)
      PROVE  Quiet
    BY <1>2 DEF Resolve, BeginBind, LockEscrow, NothingToSweep, AbortBind, Bound,
                settleVars, moneyVars
<1>3. ASSUME NEW n \in Node, RevokeNode(n) PROVE Quiet
    BY <1>3 DEF RevokeNode, settleVars, moneyVars
<1>4. ASSUME UNCHANGED vars PROVE Quiet
    BY <1>4 DEF vars, settleVars, moneyVars
<1> HIDE DEF Quiet
<1> QED BY <1>1, <1>2, <1>3, <1>4 DEF Next, SettleStep, BindStep

\* Every step keeps the books.
LEMMA BooksStep ==
    ASSUME Books, [Next]_vars
    PROVE  Books'
<1>1. TypeOK'
    BY TypesStep
<1>2. ASSUME NEW r \in Request, Settle(r) PROVE Books'
    BY <1>1, <1>2, SettleKeepsBooks
<1>3. ASSUME NEW c \in Conn, Sweep(c) PROVE Books'
    BY <1>1, <1>3, SweepKeepsBooks
<1>4. CASE (~\E r \in Request : Settle(r)) /\ (~\E c \in Conn : Sweep(c))
    <2>1. \A r \in SettledRequests : outcome'[r] = outcome[r] /\ seen'[r] = seen[r]
        BY <1>4, OnlyTheyWrite DEF SettledRequests, Books
    <2> QED BY <1>1, <1>4, <2>1, OnlyTheyWrite, BooksKept
<1> QED BY <1>2, <1>3, <1>4

LEMMA BooksInit == Init => Books
<1> SUFFICES ASSUME Init PROVE Books
    OBVIOUS
<1>1. TypeOK
    BY DEF Init, TypeOK, Spc
<1>2. SettledRequests = {} /\ ledger = {}
    BY DEF Init, SettledRequests
<1>3. IsFiniteSet(SettledRequests) /\ IsFiniteSet(ledger)
    BY <1>2, FS_EmptySet, Zenon
<1>4. \A r \in Request : usage[r] = "settled" <=> spc[r] = "settled"
    BY DEF Init
<1> QED BY <1>1, <1>2, <1>3, <1>4 DEF Books, UnsettledIsUncharged

\* Variables keep their types in every reachable state.
THEOREM SettlementTypes == Spec => []TypeOK
<1>1. Books => TypeOK
    BY DEF Books
<1> QED BY <1>1, BooksInit, BooksStep, PTL DEF Spec

LEMMA BooksInvariant == Spec => []Books
BY BooksInit, BooksStep, PTL DEF Spec

\* A settlement that is abandoned leaves nothing in the ledger: entries of a
\* request appear with the commit that marks its row as settled, and no other
\* transaction writes entries in its name.
THEOREM AbandonedIsUncharged == Spec => []UnsettledIsUncharged
<1>1. Books => UnsettledIsUncharged
    BY DEF Books
<1> QED BY <1>1, BooksInvariant, PTL

\* No report of a provider raises a charge above what four thirds of the
\* coordinator's estimates cost.
THEOREM ReportsCannotInflate == Spec => []ProviderCannotInflate
<1>1. Typed => ProviderCannotInflate
    <2> SUFFICES ASSUME Typed, NEW r \in Request, spc[r] # "running"
                 PROVE  GrossOf(r) <=
                          Gross(FourThirds(EstimateTokens(outcome[r].prompt)),
                                FourThirds(EstimateTokens(outcome[r].text)))
        BY DEF ProviderCannotInflate
    <2> DEFINE o == outcome[r]
               in == EstimateTokens(o.prompt)
               out == EstimateTokens(o.text)
    <2>1. o \in Outcome
        BY DEF Typed
    <2>2. /\ o.prompt \in Nat /\ o.text \in Nat
          /\ o.provIn \in SUBSET Int /\ o.provOut \in SUBSET Int
        BY <2>1, SettlementAssumption
    <2>3. in \in Nat \ {0} /\ out \in Nat \ {0}
        BY <2>2, EstimateIsPositive
    <2>4. GrossOf(r) = Gross(Billed(in, o.provIn), Billed(out, o.provOut))
        BY DEF GrossOf
    <2> HIDE DEF in, out, o
    <2>5. /\ Billed(in, o.provIn) \in Int
          /\ Billed(in, o.provIn) <= FourThirds(in)
          /\ Billed(out, o.provOut) \in Int
          /\ Billed(out, o.provOut) <= FourThirds(out)
        BY <2>2, <2>3, BilledIsNear
    <2>6. /\ FourThirds(in) \in Int /\ FourThirds(out) \in Int
          /\ 4 * in < 3 * FourThirds(in) + 3
        BY <2>3, Division DEF FourThirds
    <2>7. FourThirds(in) > 0
        BY <2>3, <2>6
    <2>8. Gross(Billed(in, o.provIn), Billed(out, o.provOut))
            <= Gross(FourThirds(in), FourThirds(out))
        BY <2>5, <2>6, <2>7, GrossGrows
    <2> QED BY <2>4, <2>8 DEF in, out, o
<1>2. Books => Typed
    BY DEF Books, TypeOK, Typed
<1> QED BY <1>1, <1>2, BooksInvariant, PTL

\* A settled request has its charge, credit and fee in the ledger, once each
\* and balanced, whatever transactions overlapped with its settlement.
THEOREM EverySettlementIsComplete == Spec => []SettledInFull
<1>1. Books => SettledInFull
    <2> SUFFICES ASSUME Books, NEW r \in SettledRequests
                 PROVE  Total(EntriesOf(r)) = IF CallerOf(r) = None THEN GrossOf(r)
                                              ELSE 0
        BY DEF SettledInFull, EntriesOf
    <2>1. EntriesOf(r) = Settlement(r)
        BY DEF Books
    <2>2. /\ r \in Request /\ spc[r] # "running" /\ seen[r] \in User \cup {None}
          /\ Typed
        BY DEF Books, SettledRequests, TypeOK, Typed
    <2>3. Total(Settlement(r)) = IF CallerOf(r) = None THEN GrossOf(r) ELSE 0
        BY <2>2, SettlementBalances
    <2> QED BY <2>1, <2>3, Zenon
<1> QED BY <1>1, BooksInvariant, PTL

-----------------------------------------------------------------------------
(* Escrow.  A binding holds its node's row from the sum it takes to its    *)
(* commit: no other transaction sweeps the node meanwhile, and settlements *)
(* only add to what is in escrow.                                          *)

EscrowEntries == {e \in ledger : e.account = Escrow}
Owed == UNION {Unswept(n) : n \in Node}
Sweeping == {c \in Conn : bpc[c] \in {"summed", "locked"}}

EscrowInv ==
    /\ Books
    /\ \A c \in Sweeping : /\ lock[NodeOf[c]] = c
                           /\ escrowed[c] \in Nat
                           /\ escrowed[c] <= Credits(Unswept(NodeOf[c]))
    /\ Total(EscrowEntries) >= Credits(Owed)

\* What CreditsAre says, of every set of settled requests.
CreditsSum ==
    \A R \in SUBSET SettledRequests :
        /\ IsFiniteSet(R)
        /\ \A r \in R : CreditMap[r] \in Nat
        /\ Credits(R) = SumFunctionOnSet(CreditMap, R)
        /\ Credits(R) \in Nat

LEMMA CreditsSumNow == Books => CreditsSum
<1> SUFFICES ASSUME Books, NEW R \in SUBSET SettledRequests
             PROVE  /\ IsFiniteSet(R)
                    /\ \A r \in R : CreditMap[r] \in Nat
                    /\ Credits(R) = SumFunctionOnSet(CreditMap, R)
                    /\ Credits(R) \in Nat
    BY Zenon DEF CreditsSum
<1> QED BY CreditsAre

LEMMA CreditsSumNext == Books' => CreditsSum'
BY CreditsSumNow, PTL

\* What is owed was settled, in the next state too.
OwedWasSettled ==
    /\ \A n \in Node : Unswept(n) \subseteq SettledRequests
    /\ Owed \subseteq SettledRequests

LEMMA OwedIsSettled == Books => OwedWasSettled
BY UnsweptIsSettled DEF Owed, OwedWasSettled

LEMMA OwedIsSettledNext == Books' => OwedWasSettled'
BY OwedIsSettled, PTL

\* Once settled, a request and its amounts are never touched again.
LEMMA SettledStay ==
    ASSUME Books, [Next]_vars, NEW r \in SettledRequests
    PROVE  /\ r \in SettledRequests'
           /\ outcome'[r] = outcome[r] /\ seen'[r] = seen[r]
           /\ CreditMap'[r] = CreditMap[r]
<1> DEFINE Same == usage'[r] = "settled" /\ outcome'[r] = outcome[r]
                   /\ seen'[r] = seen[r]
<1>1. r \in Request /\ spc[r] = "settled" /\ usage[r] = "settled"
    BY DEF SettledRequests, Books
<1> USE DEF InTx
<1>2. ASSUME NEW q \in Request, Unmetered(q) \/ Meter(q) \/ Begin(q)
                                  \/ Debit(q) \/ ReadOwner(q) PROVE Same
    BY <1>1, <1>2 DEF Books, TypeOK, Unmetered, Meter, Begin, Debit, ReadOwner
<1>3. ASSUME NEW q \in Request, Credit(q) \/ Settle(q) \/ Abort(q) PROVE Same
    BY <1>1, <1>3 DEF Books, TypeOK, Credit, Settle, Abort
<1>4. ASSUME NEW c \in Conn, Resolve(c) \/ BindStep(c) \/ AbortBind(c) PROVE Same
    BY <1>1, <1>4 DEF Resolve, BindStep, BeginBind, LockEscrow, NothingToSweep,
                      Sweep, AbortBind, Bound, settleVars
<1>5. ASSUME NEW n \in Node, RevokeNode(n) PROVE Same
    BY <1>1, <1>5 DEF RevokeNode, settleVars
<1>6. ASSUME UNCHANGED vars PROVE Same
    BY <1>1, <1>6 DEF vars, settleVars
<1>7. Same
    BY <1>2, <1>3, <1>4, <1>5, <1>6 DEF Next, SettleStep
<1>8. CreditOf(r)' = CreditOf(r)
    BY <1>1, <1>7, SettlementKept
<1> QED BY <1>1, <1>7, <1>8 DEF SettledRequests, CreditMap

\* The credits of requests that are settled stay what they are.
LEMMA CreditsStay ==
    ASSUME Books, [Next]_vars, NEW R, R \subseteq SettledRequests
    PROVE  SumFunctionOnSet(CreditMap', R) = Credits(R)
<1>1. IsFiniteSet(R) /\ Credits(R) = SumFunctionOnSet(CreditMap, R)
    BY CreditsAre
<1>2. \A r \in R : CreditMap'[r] = CreditMap[r]
    BY SettledStay
<1>3. SumFunctionOnSet(CreditMap', R) = SumFunctionOnSet(CreditMap, R)
    BY <1>1, <1>2, SumSame
<1> QED BY <1>1, <1>3

\* What stays owed is worth what it was.
LEMMA SameOwed ==
    ASSUME Books, [Next]_vars
    PROVE  /\ \A n \in Node : Unswept(n)' = Unswept(n) =>
                  Credits(Unswept(n))' = Credits(Unswept(n))
           /\ Owed' = Owed => Credits(Owed)' = Credits(Owed)
<1>1. Books' /\ CreditsSum'
    BY BooksStep, CreditsSumNext
<1>2. ASSUME NEW n \in Node, Unswept(n)' = Unswept(n)
      PROVE  Credits(Unswept(n))' = Credits(Unswept(n))
    <2>1. Unswept(n)' \subseteq SettledRequests'
        BY <1>1, OwedIsSettledNext DEF OwedWasSettled
    <2>2. Credits(Unswept(n))' = SumFunctionOnSet(CreditMap', Unswept(n)')
        BY <1>1, <2>1 DEF CreditsSum
    <2>3. SumFunctionOnSet(CreditMap', Unswept(n)) = Credits(Unswept(n))
        BY OwedIsSettled, CreditsStay DEF OwedWasSettled
    <2> QED BY <1>2, <2>2, <2>3, Zenon
<1>3. ASSUME Owed' = Owed PROVE Credits(Owed)' = Credits(Owed)
    <2>1. Owed' \subseteq SettledRequests'
        BY <1>1, OwedIsSettledNext DEF OwedWasSettled
    <2>2. Credits(Owed)' = SumFunctionOnSet(CreditMap', Owed')
        BY <1>1, <2>1 DEF CreditsSum
    <2>3. SumFunctionOnSet(CreditMap', Owed) = Credits(Owed)
        BY OwedIsSettled, CreditsStay DEF OwedWasSettled
    <2> QED BY <1>3, <2>2, <2>3, Zenon
<1> QED BY <1>2, <1>3

\* Who holds a row keeps it while others take free rows and release their own.
LEMMA LocksStay ==
    ASSUME TypeOK, NEW x \in Row, NEW h \in Request \cup Conn, lock[x] = h
    PROVE  /\ \A y \in Row, g \in Request \cup Conn : Take(y, g) => lock'[x] = h
           /\ \A g \in (Request \cup Conn) \ {h} : Release(g) => lock'[x] = h
BY SettlementAssumption DEF TypeOK, Take, Release

\* A step that neither writes nor marks, and lets the bindings keep their locks.
LEMMA EscrowKept ==
    ASSUME EscrowInv, [Next]_vars, ledger' = ledger, transferred' = transferred,
           \A c \in Sweeping' :
               /\ lock'[NodeOf[c]] = c
               /\ \/ c \in Sweeping /\ escrowed'[c] = escrowed[c]
                  \/ escrowed'[c] = Credits(Unswept(NodeOf[c]))
    PROVE  EscrowInv'
<1>1. Books /\ Books'
    BY BooksStep DEF EscrowInv
<1>2. \A n : Unswept(n)' = Unswept(n)
    BY DEF Unswept
<1>3. Owed' = Owed
    BY <1>2 DEF Owed
<1>4. EscrowEntries' = EscrowEntries
    BY DEF EscrowEntries
<1>5. Total(EscrowEntries)' = Total(EscrowEntries)
    BY <1>4, Zenon DEF Total
<1>6. Credits(Owed)' = Credits(Owed)
    BY <1>1, <1>3, SameOwed
<1>7. ASSUME NEW c \in Sweeping'
      PROVE  /\ lock'[NodeOf[c]] = c
             /\ escrowed'[c] \in Nat
             /\ escrowed'[c] <= Credits(Unswept(NodeOf[c]))'
    <2>1. NodeOf[c] \in Node
        BY SettlementAssumption DEF Sweeping
    <2> DEFINE n == NodeOf[c]
    <2>2. Credits(Unswept(n))' = Credits(Unswept(n))
        BY <1>1, <1>2, <2>1, SameOwed
    <2>3. Credits(Unswept(n)) \in Nat
        BY <1>1, UnsweptIsSettled, CreditsAre
    <2>4. \/ escrowed'[c] = escrowed[c] /\ escrowed[c] \in Nat
             /\ escrowed[c] <= Credits(Unswept(n))
          \/ escrowed'[c] = Credits(Unswept(n))
        BY DEF EscrowInv
    <2> QED BY <2>2, <2>3, <2>4
<1>8. Total(EscrowEntries) >= Credits(Owed)
    BY DEF EscrowInv
<1>9. Total(EscrowEntries)' >= Credits(Owed)'
    BY <1>5, <1>6, <1>8
<1> QED BY <1>1, <1>7, <1>9, Zenon DEF EscrowInv

\* Nothing else writes, and no other transaction takes or frees the row of a
\* node that is being bound.
LEMMA QuietKeepsEscrow ==
    ASSUME EscrowInv, [Next]_vars,
           ~\E r \in Request : Settle(r), ~\E c \in Conn : Sweep(c)
    PROVE  EscrowInv'
<1>1. TypeOK
    BY DEF EscrowInv, Books
<1>2. \A c \in Sweeping : /\ c \in Conn /\ c \notin Request /\ NodeOf[c] \in Row
                          /\ lock[NodeOf[c]] = c
    BY SettlementAssumption, Rows DEF EscrowInv, Sweeping
<1> DEFINE Kept == /\ ledger' = ledger /\ transferred' = transferred
                   /\ \A c \in Sweeping' :
                        /\ lock'[NodeOf[c]] = c
                        /\ \/ c \in Sweeping /\ escrowed'[c] = escrowed[c]
                           \/ escrowed'[c] = Credits(Unswept(NodeOf[c]))
<1> SUFFICES Kept
    BY EscrowKept
<1>3. ASSUME UNCHANGED <<bpc, escrowed, moneyVars>>,
             UNCHANGED lock \/ (\E x \in Row, r \in Request : Take(x, r))
                            \/ \E r \in Request : Release(r)
      PROVE  Kept
    <2>1. \A c \in Sweeping : lock'[NodeOf[c]] = c
        BY <1>1, <1>2, <1>3, LocksStay
    <2> QED BY <1>3, <2>1 DEF Sweeping, moneyVars
<1>4. ASSUME NEW r \in Request,
             Unmetered(r) \/ Meter(r) \/ Begin(r) \/ ReadOwner(r)
      PROVE  Kept
    BY <1>3, <1>4 DEF Unmetered, Meter, Begin, ReadOwner, bindVars, moneyVars
<1>5. ASSUME NEW r \in Request, Debit(r) PROVE Kept
    <2>1. CallerOf(r) \in User \cup {None}
        BY <1>1, <1>5, AmountsType DEF Debit, TypeOK, Typed
    <2>2. UNCHANGED lock \/ \E x \in Row : Take(x, r)
        BY <1>5, <2>1, Rows DEF Debit
    <2> QED BY <1>3, <1>5, <2>2 DEF Debit, bindVars
<1>6. ASSUME NEW r \in Request, Credit(r) PROVE Kept
    <2>1. CreditAccount(r) \in Row
        BY <1>1, Rows DEF CreditAccount, TypeOK
    <2> QED BY <1>3, <1>6, <2>1 DEF Credit, bindVars
<1>7. ASSUME NEW r \in Request, Abort(r) PROVE Kept
    BY <1>3, <1>7 DEF Abort, bindVars
<1>8. ASSUME NEW n \in Node, RevokeNode(n) PROVE Kept
    BY <1>3, <1>8 DEF RevokeNode
<1>9. ASSUME UNCHANGED vars PROVE Kept
    BY <1>3, <1>9 DEF vars, bindVars
<1>10. ASSUME NEW d \in Conn, Resolve(d) PROVE Kept
    <2>1. Sweeping' = Sweeping
        BY <1>1, <1>10 DEF Resolve, Sweeping, TypeOK
    <2> QED BY <1>2, <1>10, <2>1 DEF Resolve, moneyVars
<1>11. ASSUME NEW d \in Conn, BeginBind(d) PROVE Kept
    <2>1. NodeOf[d] \in Row
        BY SettlementAssumption, Rows
    <2>2. \A c \in Sweeping : lock'[NodeOf[c]] = c
        BY <1>1, <1>2, <1>11, <2>1, LocksStay DEF BeginBind
    <2>3. lock'[NodeOf[d]] = d /\ escrowed'[d] = Credits(Unswept(NodeOf[d]))
        BY <1>1, <1>11, <2>1 DEF BeginBind, Take, TypeOK
    <2>4. \A c \in Sweeping' :
             c = d \/ (c \in Sweeping /\ escrowed'[c] = escrowed[c])
        BY <1>1, <1>11 DEF BeginBind, Sweeping, TypeOK
    <2> QED BY <1>11, <2>2, <2>3, <2>4 DEF BeginBind, moneyVars
<1>12. ASSUME NEW d \in Conn, LockEscrow(d) PROVE Kept
    <2>1. \A c \in Sweeping : lock'[NodeOf[c]] = c
        BY <1>1, <1>2, <1>12, Rows, LocksStay DEF LockEscrow
    <2>2. Sweeping' = Sweeping
        BY <1>1, <1>12 DEF LockEscrow, Sweeping, TypeOK
    <2> QED BY <1>12, <2>1, <2>2 DEF LockEscrow, moneyVars
<1>13. ASSUME NEW d \in Conn, NothingToSweep(d) \/ AbortBind(d) PROVE Kept
    <2>1. /\ bpc' = [bpc EXCEPT ![d] = "done"] /\ Release(d)
          /\ UNCHANGED <<escrowed, moneyVars>>
        BY <1>13 DEF NothingToSweep, AbortBind, Bound
    <2>2. Sweeping' \subseteq Sweeping \ {d}
        BY <1>1, <2>1 DEF Sweeping, TypeOK
    <2>3. \A c \in Sweeping \ {d} : lock'[NodeOf[c]] = c
        BY <1>1, <1>2, <2>1, LocksStay
    <2> QED BY <2>1, <2>2, <2>3 DEF moneyVars
<1> HIDE DEF Kept
<1> QED BY <1>4, <1>5, <1>6, <1>7, <1>8, <1>9, <1>10, <1>11, <1>12, <1>13
        DEF Next, SettleStep, BindStep

LEMMA EscrowEntriesType ==
    ASSUME Books
    PROVE  /\ IsFiniteSet(EscrowEntries) /\ EscrowEntries \subseteq Entry
           /\ Total(EscrowEntries) \in Int
<1>1. EscrowEntries \subseteq ledger
    BY DEF EscrowEntries
<1>2. IsFiniteSet(EscrowEntries)
    BY <1>1, FS_Subset DEF Books
<1>3. EscrowEntries \subseteq Entry
    BY <1>1 DEF Books, TypeOK
<1> QED BY <1>2, <1>3, TotalIs

\* A settlement adds to escrow what it adds to what escrow owes.
LEMMA SettleKeepsEscrow ==
    ASSUME EscrowInv, [Next]_vars, NEW r \in Request, Settle(r)
    PROVE  EscrowInv'
<1>1. Books /\ Books' /\ CreditsSum'
    BY BooksStep, CreditsSumNext DEF EscrowInv
<1> DEFINE credit == E(Escrow, "provider_earning", r, CreditOf(r))
<1>2. /\ outcome' = outcome /\ seen' = seen
      /\ usage[r] # "settled" /\ r \notin SettledRequests
      /\ ledger' = ledger \cup Settlement(r)
      /\ Settlement(r) \subseteq Entry
      /\ \A e \in ledger : e.ref # r
      /\ \A e \in Settlement(r) : e.ref = r
    BY <1>1, SettleWrites DEF Settle
<1>3. transferred \subseteq transferred' /\ transferred' \subseteq transferred \cup {r}
    BY DEF Settle
<1>4. \A e \in Settlement(r) : e.account = Escrow => e = credit
    BY SettlementAssumption
    DEF Settlement, E, Escrow, Earnings, Developer, Revenue, CreditAccount
<1>5. \A n : /\ Unswept(n) \subseteq Unswept(n)'
             /\ Unswept(n)' \subseteq Unswept(n) \cup {r}
    <2> SUFFICES ASSUME NEW n
                 PROVE  /\ Unswept(n) \subseteq Unswept(n)'
                        /\ Unswept(n)' \subseteq Unswept(n) \cup {r}
        OBVIOUS
    <2>1. r \notin Unswept(n)
        BY <1>2 DEF Unswept
    <2> QED BY <1>2, <1>3, <2>1 DEF Unswept
<1>6. Owed \subseteq Owed' /\ Owed' \subseteq Owed \cup {r} /\ r \notin Owed
    <2>1. r \notin Owed
        BY <1>1, <1>2, OwedIsSettled DEF OwedWasSettled
    <2> QED BY <1>5, <2>1 DEF Owed
<1>7. r \in Owed' => credit \in Settlement(r)
    <2> SUFFICES ASSUME r \in Owed' PROVE credit \in Settlement(r)
        OBVIOUS
    <2>1. PICK e \in ledger' : e.account = Escrow /\ e.ref = r
        BY DEF Owed, Unswept
    <2>2. e \in Settlement(r)
        BY <1>2, <2>1
    <2> QED BY <1>4, <2>1, <2>2
<1>8. credit.account = Escrow /\ credit.amount = CreditOf(r) /\ credit.ref = r
    BY DEF E
<1>9. CreditOf(r) \in Nat
    BY <1>1, SettleWrites, AmountsType DEF Books, TypeOK, Typed
<1>10. CreditMap'[r] = CreditOf(r)
    BY <1>2, SettlementKept DEF CreditMap
<1> HIDE DEF credit
<1>11. EscrowEntries' = EscrowEntries \cup (Settlement(r) \cap {credit})
    BY <1>2, <1>4, <1>8 DEF EscrowEntries
<1>12. /\ IsFiniteSet(EscrowEntries) /\ EscrowEntries \subseteq Entry
       /\ Total(EscrowEntries) \in Int /\ Total(EscrowEntries) >= Credits(Owed)
    BY <1>1, EscrowEntriesType DEF EscrowInv
<1>13. credit \notin EscrowEntries
    BY <1>2, <1>8 DEF EscrowEntries
<1>14. /\ IsFiniteSet(Owed) /\ Credits(Owed) \in Nat
       /\ SumFunctionOnSet(CreditMap', Owed) = Credits(Owed)
       /\ Credits(Owed)' = SumFunctionOnSet(CreditMap', Owed')
       /\ \A q \in Owed' : CreditMap'[q] \in Nat
    <2>1. Owed \subseteq SettledRequests /\ Owed' \subseteq SettledRequests'
        BY <1>1, OwedIsSettled, OwedIsSettledNext DEF OwedWasSettled
    <2>2. IsFiniteSet(Owed) /\ Credits(Owed) \in Nat
        BY <1>1, <2>1, CreditsAre
    <2>3. SumFunctionOnSet(CreditMap', Owed) = Credits(Owed)
        BY <1>1, <2>1, CreditsStay
    <2> QED BY <1>1, <2>1, <2>2, <2>3 DEF CreditsSum
<1>15. Total(EscrowEntries)' >= Credits(Owed)'
    <2>1. Total(EscrowEntries)' = Total(EscrowEntries')
        BY Zenon DEF Total
    <2>2. CASE credit \in Settlement(r)
        <3>1. EscrowEntries' = EscrowEntries \cup {credit} /\ credit \in Entry
            BY <1>2, <1>11, <2>2
        <3>2. Total(EscrowEntries \cup {credit}) = Total(EscrowEntries) + CreditOf(r)
            BY <1>8, <1>12, <1>13, <3>1, TotalAdd
        <3>3. Total(EscrowEntries)' = Total(EscrowEntries) + CreditOf(r)
            BY <2>1, <3>1, <3>2, Zenon
        <3>4. CASE r \in Owed'
            <4>1. Owed' = Owed \cup {r}
                BY <1>6, <3>4
            <4> DEFINE f == CreditMap'
            <4>2. \A q \in Owed \cup {r} : f[q] \in Int
                BY <1>14, <4>1
            <4>3. IsFiniteSet(Owed) /\ r \notin Owed
                BY <1>6, <1>14
            <4> HIDE DEF f
            <4>4. SumFunctionOnSet(f, Owed \cup {r}) = f[r] + SumFunctionOnSet(f, Owed)
                BY <4>2, <4>3, SumAdd
            <4> USE DEF f
            <4>5. Credits(Owed)' = CreditOf(r) + Credits(Owed)
                BY <1>10, <1>14, <4>1, <4>4, Zenon
            <4> QED BY <1>9, <1>12, <1>14, <3>3, <4>5
        <3>5. CASE r \notin Owed'
            <4>1. Owed' = Owed
                BY <1>6, <3>5
            <4>2. Credits(Owed)' = Credits(Owed)
                BY <1>14, <4>1, Zenon
            <4> QED BY <1>9, <1>12, <1>14, <3>3, <4>2
        <3> QED BY <3>4, <3>5
    <2>3. CASE credit \notin Settlement(r)
        <3>1. EscrowEntries' = EscrowEntries /\ Owed' = Owed
            BY <1>6, <1>7, <1>11, <2>3
        <3>2. Total(EscrowEntries)' = Total(EscrowEntries)
              /\ Credits(Owed)' = Credits(Owed)
            BY <1>14, <2>1, <3>1, Zenon
        <3> QED BY <1>12, <3>2
    <2> QED BY <2>2, <2>3
<1>16. ASSUME NEW c \in Sweeping'
       PROVE  /\ lock'[NodeOf[c]] = c
              /\ escrowed'[c] \in Nat
              /\ escrowed'[c] <= Credits(Unswept(NodeOf[c]))'
    <2> DEFINE n == NodeOf[c]
    <2>1. /\ c \in Sweeping /\ c \in Conn /\ n \in Node /\ c # r
          /\ escrowed' = escrowed /\ Release(r)
        BY SettlementAssumption DEF Settle, bindVars, Sweeping
    <2>2. lock[n] = c /\ escrowed[c] \in Nat /\ escrowed[c] <= Credits(Unswept(n))
        BY <2>1 DEF EscrowInv
    <2>3. lock'[n] = c
        BY <1>1, <2>1, <2>2, Rows, LocksStay DEF Books
    <2>4. Unswept(n) \subseteq SettledRequests /\ Unswept(n)' \subseteq SettledRequests'
        BY <1>1, <2>1, OwedIsSettled, OwedIsSettledNext DEF OwedWasSettled
    <2>5. SumFunctionOnSet(CreditMap', Unswept(n)) = Credits(Unswept(n))
          /\ Credits(Unswept(n)) \in Nat
        BY <1>1, <2>4, CreditsStay, CreditsAre
    <2>6. /\ Credits(Unswept(n))' = SumFunctionOnSet(CreditMap', Unswept(n)')
          /\ Credits(Unswept(n))' \in Nat
          /\ IsFiniteSet(Unswept(n)')
          /\ \A q \in Unswept(n)' : CreditMap'[q] \in Nat
        BY <1>1, <2>4 DEF CreditsSum
    <2>7. SumFunctionOnSet(CreditMap', Unswept(n))
            <= SumFunctionOnSet(CreditMap', Unswept(n)')
        BY <1>5, <2>6, SumSubset
    <2> QED BY <2>1, <2>2, <2>3, <2>5, <2>6, <2>7
<1> QED BY <1>1, <1>15, <1>16, Zenon DEF EscrowInv

\* A sweep writes at most its two entries, and marks what it has swept.
LEMMA SweepWrites ==
    ASSUME Books, NEW c \in Conn, Sweep(c)
    PROVE  LET out == E(Escrow, "enrollment_sweep", NodeOf[c], -escrowed[c])
               in == E(Earnings(OwnerOf[Presents[c]]), "enrollment_sweep",
                       NodeOf[c], escrowed[c])
           IN  /\ ledger \subseteq ledger' /\ ledger' \subseteq ledger \cup {out, in}
               /\ transferred' = transferred \cup Unswept(NodeOf[c])
               /\ \A n : Unswept(n)' = Unswept(n) \ Unswept(NodeOf[c])
<1> DEFINE out == E(Escrow, "enrollment_sweep", NodeOf[c], -escrowed[c])
           in == E(Earnings(OwnerOf[Presents[c]]), "enrollment_sweep", NodeOf[c],
                   escrowed[c])
<1>1. ledger \subseteq ledger' /\ ledger' \subseteq ledger \cup {out, in}
    BY DEF Sweep, Insert
<1>2. transferred' = transferred \cup Unswept(NodeOf[c])
    BY DEF Sweep
<1>3. out.type = "enrollment_sweep" /\ in.type = "enrollment_sweep"
    BY DEF E
<1> HIDE DEF out, in
<1>4. ASSUME NEW n PROVE Unswept(n)' = Unswept(n) \ Unswept(NodeOf[c])
    <2> DEFINE Credited(r) == \E e \in ledger : /\ e.account = Escrow
                                                /\ e.type = "provider_earning"
                                                /\ e.ref = r
    <2>1. \A r : Credited(r)' <=> Credited(r)
        BY <1>1, <1>3
    <2>2. /\ Unswept(n) = {r \in Request \ transferred : ServedBy[r] = n /\ Credited(r)}
          /\ Unswept(n)' = {r \in Request \ transferred' :
                                ServedBy[r] = n /\ Credited(r)'}
        BY DEF Unswept
    <2> HIDE DEF Credited
    <2> QED BY <1>2, <2>1, <2>2
<1> QED BY <1>1, <1>2, <1>4 DEF out, in

\* A sweep takes out of escrow no more than the credits it marks.
LEMMA SweepKeepsEscrow ==
    ASSUME EscrowInv, [Next]_vars, NEW d \in Conn, Sweep(d)
    PROVE  EscrowInv'
<1>1. Books /\ Books' /\ CreditsSum'
    BY BooksStep, CreditsSumNext DEF EscrowInv
<1> DEFINE n == NodeOf[d]
           U == Unswept(n)
           out == E(Escrow, "enrollment_sweep", n, -escrowed[d])
           in == E(Earnings(OwnerOf[Presents[d]]), "enrollment_sweep", n, escrowed[d])
<1>2. /\ ledger \subseteq ledger' /\ ledger' \subseteq ledger \cup {out, in}
      /\ \A m : Unswept(m)' = Unswept(m) \ U
    BY <1>1, SweepWrites
<1>3. n \in Node /\ out \in Entry /\ in \in Entry
    BY <1>1, SweepEntries DEF Books
<1>4. /\ d \in Sweeping /\ lock[n] = d
      /\ escrowed[d] \in Nat /\ escrowed[d] <= Credits(U)
    <2>1. d \in Sweeping
        BY DEF Sweep, Sweeping
    <2> QED BY <2>1 DEF EscrowInv
<1>5. in.account # Escrow /\ out.account = Escrow /\ out.amount = -escrowed[d]
    BY SettlementAssumption DEF E, Escrow, Earnings
<1>6. U \subseteq Owed /\ Owed' = Owed \ U
    BY <1>2, <1>3 DEF Owed
<1> HIDE DEF out, in, U
<1>7. /\ IsFiniteSet(EscrowEntries) /\ EscrowEntries \subseteq Entry
      /\ Total(EscrowEntries) \in Int /\ Total(EscrowEntries) >= Credits(Owed)
    BY <1>1, EscrowEntriesType DEF EscrowInv
<1>8. /\ Total(EscrowEntries)' \in Int
      /\ Total(EscrowEntries)' >= Total(EscrowEntries) - escrowed[d]
    <2>1. Total(EscrowEntries)' = Total(EscrowEntries')
        BY Zenon DEF Total
    <2>2. \/ EscrowEntries' = EscrowEntries
          \/ out \notin EscrowEntries /\ EscrowEntries' = EscrowEntries \cup {out}
        BY <1>2, <1>5 DEF EscrowEntries
    <2>3. CASE EscrowEntries' = EscrowEntries
        <3>1. Total(EscrowEntries)' = Total(EscrowEntries)
            BY <2>1, <2>3, Zenon
        <3> QED BY <1>4, <1>7, <3>1
    <2>4. CASE out \notin EscrowEntries /\ EscrowEntries' = EscrowEntries \cup {out}
        <3>1. Total(EscrowEntries \cup {out}) = Total(EscrowEntries) - escrowed[d]
            BY <1>3, <1>4, <1>5, <1>7, <2>4, TotalAdd
        <3>2. Total(EscrowEntries)' = Total(EscrowEntries) - escrowed[d]
            BY <2>1, <2>4, <3>1, Zenon
        <3> QED BY <1>4, <1>7, <3>2
    <2> QED BY <2>2, <2>3, <2>4
<1>9. Credits(Owed)' \in Nat /\ Credits(Owed)' = Credits(Owed) - Credits(U)
      /\ Credits(Owed) \in Nat /\ Credits(U) \in Nat
    <2>1. Owed \subseteq SettledRequests /\ Owed' \subseteq SettledRequests'
        BY <1>1, OwedIsSettled, OwedIsSettledNext DEF OwedWasSettled
    <2>2. /\ Credits(Owed)' = SumFunctionOnSet(CreditMap', Owed')
          /\ Credits(Owed)' \in Nat
        BY <1>1, <2>1 DEF CreditsSum
    <2>3. SumFunctionOnSet(CreditMap', Owed \ U) = Credits(Owed \ U)
        BY <1>1, <2>1, CreditsStay
    <2>4. /\ IsFiniteSet(Owed \ U) /\ IsFiniteSet(U)
          /\ \A q \in Owed : CreditMap[q] \in Int
          /\ Credits(Owed \ U) = SumFunctionOnSet(CreditMap, Owed \ U)
          /\ Credits(U) = SumFunctionOnSet(CreditMap, U) /\ Credits(U) \in Nat
          /\ Credits(Owed) = SumFunctionOnSet(CreditMap, Owed) /\ Credits(Owed) \in Nat
          /\ Credits(Owed \ U) \in Nat
        <3>1. U \subseteq SettledRequests /\ Owed \ U \subseteq SettledRequests
            BY <1>6, <2>1
        <3> QED BY <1>1, <2>1, <3>1, CreditsAre
    <2>5. (Owed \ U) \cup U = Owed /\ (Owed \ U) \cap U = {}
        BY <1>6
    <2>6. \A q \in (Owed \ U) \cup U : CreditMap[q] \in Int
        BY <2>4, <2>5
    <2>7. SumFunctionOnSet(CreditMap, (Owed \ U) \cup U)
            = SumFunctionOnSet(CreditMap, Owed \ U) + SumFunctionOnSet(CreditMap, U)
        BY <2>4, <2>5, <2>6, SumUnion
    <2>8. Credits(Owed) = Credits(Owed \ U) + Credits(U)
        BY <2>4, <2>5, <2>7, Zenon
    <2>9. Credits(Owed)' = Credits(Owed \ U)
        BY <1>6, <2>2, <2>3, Zenon
    <2> QED BY <2>2, <2>4, <2>8, <2>9
<1>10. Total(EscrowEntries)' >= Credits(Owed)'
    BY <1>4, <1>7, <1>8, <1>9
<1>11. ASSUME NEW c \in Sweeping'
       PROVE  /\ lock'[NodeOf[c]] = c
              /\ escrowed'[c] \in Nat
              /\ escrowed'[c] <= Credits(Unswept(NodeOf[c]))'
    <2> DEFINE m == NodeOf[c]
    <2>1. /\ c \in Sweeping /\ c \in Conn /\ m \in Node /\ c # d
          /\ escrowed' = escrowed /\ Release(d)
        BY <1>1, SettlementAssumption DEF Sweep, Bound, Sweeping, Books, TypeOK
    <2>2. lock[m] = c /\ escrowed[c] \in Nat /\ escrowed[c] <= Credits(Unswept(m))
        BY <2>1 DEF EscrowInv
    <2>3. lock'[m] = c
        BY <1>1, <2>1, <2>2, Rows, LocksStay DEF Books
    <2>4. m # n
        BY <1>4, <2>1, <2>2
    <2>5. Unswept(m)' = Unswept(m)
        <3>1. Unswept(m) \cap U = {}
            BY <2>4 DEF Unswept, U
        <3> QED BY <1>2, <3>1
    <2>6. Credits(Unswept(m))' = Credits(Unswept(m))
        BY <1>1, <2>1, <2>5, SameOwed
    <2> QED BY <2>1, <2>2, <2>3, <2>6
<1> QED BY <1>1, <1>10, <1>11, Zenon DEF EscrowInv

LEMMA EscrowInitially == Init => EscrowInv
<1> SUFFICES ASSUME Init PROVE EscrowInv
    OBVIOUS
<1>1. Books
    BY BooksInit
<1>2. Owed = {} /\ EscrowEntries = {} /\ Sweeping = {}
    BY DEF Init, Owed, Unswept, EscrowEntries, Sweeping
<1>3. Total({}) = SumFunctionOnSet(Amounts, {})
    BY FS_EmptySet, TotalIs
<1>4. Credits({}) = SumFunctionOnSet(CreditMap, {})
    BY <1>1, CreditsAre
<1>5. Total(EscrowEntries) = 0 /\ Credits(Owed) = 0
    BY <1>2, <1>3, <1>4, SumEmpty, Zenon
<1> QED BY <1>1, <1>2, <1>5 DEF EscrowInv

LEMMA EscrowStep ==
    ASSUME EscrowInv, [Next]_vars
    PROVE  EscrowInv'
BY QuietKeepsEscrow, SettleKeepsEscrow, SweepKeepsEscrow

\* Escrow holds what it owes in every reachable state: sums are taken before
\* the escrow account is locked, but under the lock of the node they are for.
THEOREM EscrowIsSolvent == Spec => []EscrowCovers
<1>1. EscrowInv => EscrowCovers
    BY Zenon DEF EscrowInv, EscrowCovers, EscrowEntries, Owed, Balance
<1> QED BY <1>1, EscrowInitially, EscrowStep, PTL DEF Spec

-----------------------------------------------------------------------------
(* Steps.                                                                  *)

\* What is written stays: no step takes an entry out of the ledger, and once a
\* request is settled none adds an entry in its name.
SettlementIsFinal ==
    /\ ledger \subseteq ledger'
    /\ \A r \in SettledRequests : EntriesOf(r)' = EntriesOf(r)

\* A request is settled once, whatever else is committed later.
THEOREM SettledOnce == Spec => [][SettlementIsFinal]_vars
<1>1. Books /\ [Next]_vars => [SettlementIsFinal]_vars
    <2> SUFFICES ASSUME Books, [Next]_vars PROVE SettlementIsFinal
        OBVIOUS
    <2>1. \A r \in SettledRequests : EntriesOf(r)' = EntriesOf(r)
        <3> SUFFICES ASSUME NEW r \in SettledRequests
                     PROVE  EntriesOf(r)' = EntriesOf(r)
            OBVIOUS
        <3>1. r \in Request /\ r \in SettledRequests'
              /\ outcome'[r] = outcome[r] /\ seen'[r] = seen[r]
            BY SettledStay DEF SettledRequests
        <3>2. EntriesOf(r) = Settlement(r)
            BY DEF Books
        <3>3. EntriesOf(r)' = Settlement(r)'
            BY <3>1, BooksStep, Zenon DEF Books
        <3>4. Settlement(r)' = Settlement(r)
            BY <3>1, SettlementKept
        <3> QED BY <3>2, <3>3, <3>4, Zenon
    <2>2. ledger \subseteq ledger'
        <3>1. ASSUME NEW r \in Request, Settle(r) PROVE ledger \subseteq ledger'
            BY <3>1 DEF Settle, Insert
        <3>2. ASSUME NEW c \in Conn, Sweep(c) PROVE ledger \subseteq ledger'
            BY <3>2 DEF Sweep, Insert
        <3> QED BY <3>1, <3>2, OnlyTheyWrite
    <2> QED BY <2>1, <2>2 DEF SettlementIsFinal
<1> QED BY <1>1, BooksInvariant, PTL DEF Spec

-----------------------------------------------------------------------------
(* What providers hold.  A sweep moves escrow's share to an owner; a key   *)
(* that is taken in one account and free in the other makes money.         *)

LEMMA HeldType ==
    ASSUME Books
    PROVE  /\ IsFiniteSet(Held) /\ Held \subseteq Entry /\ Total(Held) \in Int
           /\ Credits(SettledRequests) \in Nat
<1>1. Held \subseteq ledger
    BY DEF Held
<1>2. IsFiniteSet(Held) /\ Held \subseteq Entry
    BY <1>1, FS_Subset DEF Books, TypeOK
<1> QED BY <1>2, TotalIs, CreditsAre

HeldIsTyped == Total(Held) \in Int

LEMMA HeldTypeNext == Books' => HeldIsTyped'
<1>1. Books => HeldIsTyped
    BY HeldType DEF HeldIsTyped
<1> QED BY <1>1, PTL

\* All that was credited, after a step.
LEMMA CreditsGrow ==
    ASSUME Books, [Next]_vars
    PROVE  /\ SettledRequests' = SettledRequests =>
                Credits(SettledRequests)' = Credits(SettledRequests)
           /\ \A r \in Request : Settle(r) =>
                Credits(SettledRequests)' = Credits(SettledRequests) + CreditOf(r)
<1> DEFINE S == SettledRequests
           f == CreditMap'
<1>1. Books' /\ CreditsSum'
    BY BooksStep, CreditsSumNext
<1>2. Credits(S)' = SumFunctionOnSet(f, S') /\ \A q \in S' : f[q] \in Nat
    BY <1>1 DEF CreditsSum
<1>3. SumFunctionOnSet(f, S) = Credits(S) /\ IsFiniteSet(S) /\ Credits(S) \in Nat
    BY CreditsStay, CreditsAre
<1>4. ASSUME S' = S PROVE Credits(S)' = Credits(S)
    BY <1>2, <1>3, <1>4, Zenon
<1>5. ASSUME NEW r \in Request, Settle(r)
      PROVE  Credits(S)' = Credits(S) + CreditOf(r)
    <2>1. /\ S' = S \cup {r} /\ r \notin S /\ outcome' = outcome /\ seen' = seen
          /\ CreditOf(r) \in Nat
        <3>1. S' = S \cup {r} /\ r \notin S /\ spc[r] = "credited"
            BY <1>5, SettleWrites
        <3>2. CreditOf(r) \in Nat
            BY <3>1, AmountsType DEF Books, TypeOK, Typed
        <3> QED BY <1>5, <3>1, <3>2 DEF Settle
    <2>2. f[r] = CreditOf(r)
        BY <2>1, SettlementKept DEF CreditMap
    <2>3. \A q \in S \cup {r} : f[q] \in Int
        BY <1>2, <2>1
    <2> HIDE DEF S, f
    <2>4. SumFunctionOnSet(f, S \cup {r}) = f[r] + SumFunctionOnSet(f, S)
        BY <1>3, <2>1, <2>3, SumAdd
    <2>5. SumFunctionOnSet(f, S \cup {r}) = CreditOf(r) + Credits(S)
        BY <1>3, <2>2, <2>4, Zenon
    <2>6. Credits(S)' = CreditOf(r) + Credits(S)
        BY <1>2, <2>1, <2>5, Zenon
    <2> QED BY <1>3, <2>1, <2>6
<1> QED BY <1>4, <1>5

\* A settlement adds its credit to what providers hold, in one account or the
\* other.
LEMMA SettleIsHeld ==
    ASSUME Books, NEW r \in Request, Settle(r)
    PROVE  Total(Held)' = Total(Held) + CreditOf(r)
<1> DEFINE credit == E(CreditAccount(r), "provider_earning", r, CreditOf(r))
           D == Held \cup {x \in {credit} : x.amount > 0}
<1>1. /\ spc[r] = "credited" /\ seen[r] \in User \cup {None}
      /\ ledger' = ledger \cup Settlement(r) /\ \A e \in ledger : e.ref # r
    BY SettleWrites
<1>2. CreditOf(r) \in Nat
    BY <1>1, AmountsType DEF Books, TypeOK, Typed
<1>3. CreditAccount(r) \in Account /\ CreditAccount(r)[1] = "provider_earnings"
    BY <1>1, Rows DEF CreditAccount, Escrow, Earnings
<1>4. /\ credit \in Entry /\ credit.amount = CreditOf(r) /\ credit.ref = r
      /\ credit.account[1] = "provider_earnings"
    BY <1>2, <1>3 DEF E, Entry, EntryType
<1>5. \A e \in Settlement(r) :
          e.account[1] = "provider_earnings" <=> e = credit
    BY <1>4 DEF Settlement, E, Developer, Revenue
<1>6. credit \in Settlement(r) <=> credit.amount > 0
    <2>1. credit \in Settlement(r) => credit.amount > 0
        BY <1>4 DEF Settlement, E, Developer, Revenue
    <2>2. credit.amount > 0 => credit \in Settlement(r)
        BY DEF Settlement
    <2> QED BY <2>1, <2>2
<1> HIDE DEF credit
<1>7. Held' = D
    BY <1>1, <1>4, <1>5, <1>6 DEF Held
<1>8. credit \notin Held
    BY <1>1, <1>4 DEF Held
<1>9. Total(D) = Total(Held) + CreditOf(r)
    BY <1>2, <1>4, <1>8, HeldType, TotalAddPositive
<1>10. Total(Held)' = Total(Held')
    BY Zenon DEF Total
<1> HIDE DEF D
<1> QED BY <1>7, <1>9, <1>10, Zenon

\* The node has been swept out of, or into, the account.
Swept(a, n) == \E e \in ledger : /\ e.account = a
                                 /\ e.type = "enrollment_sweep"
                                 /\ e.ref = n
OwnersAccount(c) == Earnings(OwnerOf[Presents[c]])
Out(c) == E(Escrow, "enrollment_sweep", NodeOf[c], -escrowed[c])
In(c) == E(OwnersAccount(c), "enrollment_sweep", NodeOf[c], escrowed[c])

\* Each of a sweep's entries is written unless its key is taken.
LEMMA SweepInserts ==
    ASSUME Books, NEW c \in Conn, Sweep(c)
    PROVE  LET one == IF Swept(Escrow, NodeOf[c]) THEN {} ELSE {Out(c)}
               two == IF Swept(OwnersAccount(c), NodeOf[c]) THEN {} ELSE {In(c)}
           IN  /\ ledger' = (ledger \cup one) \cup two
               /\ Out(c) \in one => Out(c) \notin ledger
               /\ In(c) \in two => In(c) \notin ledger \cup one
<1>1. /\ Out(c).account = Escrow /\ Out(c).type = "enrollment_sweep"
      /\ Out(c).ref = NodeOf[c]
      /\ In(c).account = OwnersAccount(c) /\ In(c).type = "enrollment_sweep"
      /\ In(c).ref = NodeOf[c]
    BY DEF Out, In, E
<1>2. ledger' = Insert({Out(c), In(c)})
    BY DEF Sweep, Out, In, OwnersAccount
<1>3. OwnersAccount(c) # Escrow
    BY SettlementAssumption DEF OwnersAccount, Earnings, Escrow
<1> QED BY <1>1, <1>2, <1>3 DEF Insert, Swept

\* What the entries of a sweep add to entries that contain all or none of them.
LEMMA SweepAdds ==
    ASSUME Books, NEW c \in Conn, Sweep(c), NEW D, D \subseteq ledger
    PROVE  LET one == IF Swept(Escrow, NodeOf[c]) THEN {} ELSE {Out(c)}
               two == IF Swept(OwnersAccount(c), NodeOf[c]) THEN {} ELSE {In(c)}
           IN  Total((D \cup one) \cup two) =
                 Total(D) - (IF Swept(Escrow, NodeOf[c]) THEN 0 ELSE escrowed[c])
                   + (IF Swept(OwnersAccount(c), NodeOf[c]) THEN 0 ELSE escrowed[c])
<1> DEFINE one == IF Swept(Escrow, NodeOf[c]) THEN {} ELSE {Out(c)}
           two == IF Swept(OwnersAccount(c), NodeOf[c]) THEN {} ELSE {In(c)}
           D1 == D \cup one
           D2 == D1 \cup two
           t1 == IF Swept(Escrow, NodeOf[c]) THEN 0 ELSE escrowed[c]
           t2 == IF Swept(OwnersAccount(c), NodeOf[c]) THEN 0 ELSE escrowed[c]
<1>1. /\ Out(c) \in one => Out(c) \notin ledger
      /\ In(c) \in two => In(c) \notin ledger \cup one
    BY SweepInserts
<1>2. /\ Out(c) \in Entry /\ Out(c).amount = -escrowed[c]
      /\ In(c) \in Entry /\ In(c).amount = escrowed[c]
      /\ escrowed[c] \in Int
    <2>1. Out(c) \in Entry /\ In(c) \in Entry
        BY SweepEntries DEF Out, In, OwnersAccount, Books
    <2> QED BY <2>1 DEF Out, In, OwnersAccount, E, Escrow, Earnings, Books, TypeOK
<1>3. D1 \subseteq ledger \cup one
    OBVIOUS
<1>4. IsFiniteSet(D) /\ D \subseteq Entry /\ Total(D) \in Int
    <2>1. IsFiniteSet(D) /\ D \subseteq Entry
        BY FS_Subset DEF Books, TypeOK
    <2> QED BY <2>1, TotalIs
<1>5. /\ IsFiniteSet(D1) /\ D1 \subseteq Entry /\ Total(D1) \in Int
      /\ Total(D1) = Total(D) - t1
    <2>1. CASE Swept(Escrow, NodeOf[c])
        <3>1. D1 = D /\ t1 = 0
            BY <2>1
        <3> HIDE DEF D1
        <3>2. IsFiniteSet(D1) /\ D1 \subseteq Entry /\ Total(D1) = Total(D)
            BY <1>4, <3>1, Zenon
        <3> QED BY <1>4, <3>1, <3>2
    <2>2. CASE ~Swept(Escrow, NodeOf[c])
        <3>1. D1 = D \cup {Out(c)} /\ t1 = escrowed[c] /\ Out(c) \notin D
            BY <1>1, <2>2
        <3>2. /\ IsFiniteSet(D \cup {Out(c)}) /\ D \cup {Out(c)} \subseteq Entry
              /\ Total(D \cup {Out(c)}) = Total(D) + Out(c).amount
            BY <1>2, <1>4, <3>1, TotalAdd
        <3> HIDE DEF D1
        <3>3. IsFiniteSet(D1) /\ D1 \subseteq Entry
              /\ Total(D1) = Total(D) + Out(c).amount
            BY <3>1, <3>2, Zenon
        <3> QED BY <1>2, <1>4, <3>1, <3>3
    <2> QED BY <2>1, <2>2
<1> HIDE DEF D1
<1>6. Total(D2) = Total(D1) + t2
    <2>1. CASE Swept(OwnersAccount(c), NodeOf[c])
        <3>1. D2 = D1 /\ t2 = 0
            BY <2>1
        <3> HIDE DEF D2
        <3>2. Total(D2) = Total(D1)
            BY <3>1, Zenon
        <3> QED BY <1>5, <3>1, <3>2
    <2>2. CASE ~Swept(OwnersAccount(c), NodeOf[c])
        <3>1. D2 = D1 \cup {In(c)} /\ t2 = escrowed[c] /\ In(c) \notin D1
            BY <1>1, <1>3, <2>2
        <3>2. Total(D1 \cup {In(c)}) = Total(D1) + In(c).amount
            BY <1>2, <1>5, <3>1, TotalAdd
        <3> HIDE DEF D2
        <3>3. Total(D2) = Total(D1) + In(c).amount
            BY <3>1, <3>2, Zenon
        <3> QED BY <1>2, <3>1, <3>3
    <2> QED BY <2>1, <2>2
<1> HIDE DEF D2
<1>7. Total(D2) = Total(D) - t1 + t2
    BY <1>5, <1>6
<1> QED BY <1>7, Zenon DEF D2, D1

LEMMA SweepIsHeld ==
    ASSUME Books, NEW c \in Conn, Sweep(c)
    PROVE  Total(Held)' =
             Total(Held) - (IF Swept(Escrow, NodeOf[c]) THEN 0 ELSE escrowed[c])
               + (IF Swept(OwnersAccount(c), NodeOf[c]) THEN 0 ELSE escrowed[c])
<1> DEFINE one == IF Swept(Escrow, NodeOf[c]) THEN {} ELSE {Out(c)}
           two == IF Swept(OwnersAccount(c), NodeOf[c]) THEN {} ELSE {In(c)}
<1>1. ledger' = (ledger \cup one) \cup two
    BY SweepInserts
<1>2. /\ Out(c).account[1] = "provider_earnings"
      /\ In(c).account[1] = "provider_earnings"
    BY DEF Out, In, OwnersAccount, E, Escrow, Earnings
<1>3. Held' = (Held \cup one) \cup two
    BY <1>1, <1>2 DEF Held
<1>4. Held \subseteq ledger
    BY DEF Held
<1>5. Total(Held)' = Total(Held')
    BY Zenon DEF Total
<1>6. Total(Held)' = Total((Held \cup one) \cup two)
    BY <1>3, <1>5, Zenon
<1> QED BY <1>4, <1>6, SweepAdds, Zenon

\* Settlements write no sweeps, and a sweep writes the two of its own.
LEMMA SweptNext ==
    ASSUME Books, [Next]_vars, NEW a, NEW n
    PROVE  /\ Swept(a, n) => Swept(a, n)'
           /\ (~\E c \in Conn : Sweep(c)) => (Swept(a, n)' => Swept(a, n))
           /\ \A c \in Conn : Sweep(c) =>
                (Swept(a, n)' <=> \/ Swept(a, n)
                                  \/ /\ n = NodeOf[c]
                                     /\ a \in {Escrow, OwnersAccount(c)})
<1>1. ASSUME NEW r \in Request, Settle(r)
      PROVE  Swept(a, n)' <=> Swept(a, n)
    <2>1. ledger' = ledger \cup Settlement(r)
          /\ \A e \in Settlement(r) : e.type # "enrollment_sweep"
        BY <1>1, SettleWrites
    <2> QED BY <2>1 DEF Swept
<1>2. ASSUME NEW c \in Conn, Sweep(c)
      PROVE  Swept(a, n)' <=> \/ Swept(a, n)
                              \/ n = NodeOf[c] /\ a \in {Escrow, OwnersAccount(c)}
    <2>1. /\ Out(c).account = Escrow /\ Out(c).type = "enrollment_sweep"
          /\ Out(c).ref = NodeOf[c]
          /\ In(c).account = OwnersAccount(c) /\ In(c).type = "enrollment_sweep"
          /\ In(c).ref = NodeOf[c]
        BY DEF Out, In, E
    <2>2. ledger' = (ledger \cup IF Swept(Escrow, NodeOf[c]) THEN {} ELSE {Out(c)})
                      \cup IF Swept(OwnersAccount(c), NodeOf[c]) THEN {} ELSE {In(c)}
        BY <1>2, SweepInserts
    <2> QED BY <2>1, <2>2 DEF Swept
<1>3. CASE (~\E r \in Request : Settle(r)) /\ (~\E c \in Conn : Sweep(c))
    <2>1. ledger' = ledger
        BY <1>3, OnlyTheyWrite
    <2>2. Swept(a, n)' <=> Swept(a, n)
        BY <2>1 DEF Swept
    <2> QED BY <1>3, <2>2
<1>4. (\E c \in Conn : Sweep(c)) => ~\E r \in Request : Settle(r)
    BY DEF Sweep, Settle, Bound, settleVars, Books, TypeOK
<1> QED BY <1>1, <1>2, <1>3, <1>4

LEMMA NothingHeldAtFirst ==
    ASSUME Init
    PROVE  Total(Held) = 0 /\ Credits(SettledRequests) = 0 /\ ledger = {}
<1>1. Books
    BY BooksInit
<1>2. Held = {} /\ SettledRequests = {} /\ ledger = {}
    BY DEF Init, Held, SettledRequests
<1>3. Total({}) = SumFunctionOnSet(Amounts, {})
    BY FS_EmptySet, TotalIs
<1>4. Credits({}) = SumFunctionOnSet(CreditMap, {})
    BY <1>1, CreditsAre
<1> QED BY <1>2, <1>3, <1>4, SumEmpty, Zenon

\* A node that has been swept at all has been swept out of escrow, and what it
\* earned has not been lost.
EarningsInv ==
    /\ EscrowInv
    /\ \A c \in Conn : Swept(OwnersAccount(c), NodeOf[c]) => Swept(Escrow, NodeOf[c])
    /\ Total(Held) >= Credits(SettledRequests)

\* Where each node has one owner, what left escrow has reached that owner.
PairedInv ==
    /\ EarningsInv
    /\ \A c \in Conn : Swept(Escrow, NodeOf[c]) => Swept(OwnersAccount(c), NodeOf[c])
    /\ Total(Held) = Credits(SettledRequests)

OneOwnerPerNode ==
    \A c, d \in Conn :
        NodeOf[c] = NodeOf[d] => OwnerOf[Presents[c]] = OwnerOf[Presents[d]]

\* How a step changes what is held, and what was credited.
LEMMA EarningsStep ==
    ASSUME EarningsInv, [Next]_vars
    PROVE  /\ EarningsInv'
           /\ OneOwnerPerNode /\ PairedInv => PairedInv'
<1> DEFINE S == SettledRequests
           Early(c) == Swept(OwnersAccount(c), NodeOf[c]) => Swept(Escrow, NodeOf[c])
           Late(c) == Swept(Escrow, NodeOf[c]) => Swept(OwnersAccount(c), NodeOf[c])
<1>1. /\ EscrowInv /\ Books /\ Books'
      /\ Total(Held) \in Int /\ Credits(S) \in Nat
      /\ Total(Held) >= Credits(S)
    BY BooksStep, HeldType DEF EarningsInv, EscrowInv
<1>2. EscrowInv'
    BY <1>1, EscrowStep
<1>3. \A c \in Conn : Early(c)'
    <2> SUFFICES ASSUME NEW c \in Conn PROVE Early(c)'
        OBVIOUS
    <2>1. Early(c)
        BY DEF EarningsInv
    <2>2. CASE \E d \in Conn : Sweep(d)
        BY <1>1, <2>1, <2>2, SweptNext
    <2>3. CASE ~\E d \in Conn : Sweep(d)
        BY <1>1, <2>1, <2>3, SweptNext
    <2> QED BY <2>2, <2>3
<1>4. ASSUME OneOwnerPerNode, PairedInv PROVE \A c \in Conn : Late(c)'
    <2> SUFFICES ASSUME NEW c \in Conn PROVE Late(c)'
        OBVIOUS
    <2>1. Late(c)
        BY <1>4 DEF PairedInv
    <2>2. ASSUME NEW d \in Conn, Sweep(d) PROVE Late(c)'
        <3>1. NodeOf[c] = NodeOf[d] => OwnersAccount(c) = OwnersAccount(d)
            BY <1>4 DEF OneOwnerPerNode, OwnersAccount
        <3> QED BY <1>1, <2>1, <2>2, <3>1, SweptNext
    <2>3. CASE ~\E d \in Conn : Sweep(d)
        BY <1>1, <2>1, <2>3, SweptNext
    <2> QED BY <2>2, <2>3
<1>5. /\ Total(Held)' >= Credits(S)'
      /\ PairedInv => Total(Held)' = Credits(S)'
    <2>1. PairedInv => /\ Total(Held) = Credits(S)
                       /\ \A c \in Conn : Late(c)
        BY DEF PairedInv
    <2>2. ASSUME NEW r \in Request, Settle(r)
          PROVE  /\ Total(Held)' = Total(Held) + CreditOf(r)
                 /\ Credits(S)' = Credits(S) + CreditOf(r)
                 /\ CreditOf(r) \in Nat
        <3>1. CreditOf(r) \in Nat
            BY <1>1, <2>2, AmountsType DEF Books, TypeOK, Typed, Settle
        <3> QED BY <1>1, <2>2, <3>1, SettleIsHeld, CreditsGrow
    <2>3. ASSUME NEW c \in Conn, Sweep(c)
          PROVE  /\ Credits(S)' = Credits(S)
                 /\ Total(Held)' >= Total(Held)
                 /\ PairedInv => Total(Held)' = Total(Held)
        <3>1. Credits(S)' = Credits(S)
            <4>1. S' = S
                BY <1>1, <2>3, SweepKeepsBooks DEF Books
            <4> QED BY <1>1, <4>1, CreditsGrow
        <3>2. c \in Sweeping
            BY <2>3 DEF Sweep, Sweeping
        <3>3. escrowed[c] \in Nat
            BY <1>1, <3>2 DEF EscrowInv
        <3>4. Total(Held)' =
                Total(Held) - (IF Swept(Escrow, NodeOf[c]) THEN 0 ELSE escrowed[c])
                  + (IF Swept(OwnersAccount(c), NodeOf[c]) THEN 0 ELSE escrowed[c])
            BY <1>1, <2>3, SweepIsHeld
        <3>5. Early(c)
            BY DEF EarningsInv
        <3> QED BY <1>1, <2>1, <3>1, <3>3, <3>4, <3>5
    <2>4. ASSUME ~\E r \in Request : Settle(r), ~\E c \in Conn : Sweep(c)
          PROVE  Total(Held)' = Total(Held) /\ Credits(S)' = Credits(S)
        <3>1. ledger' = ledger /\ S' = S
            BY <1>1, <2>4, OnlyTheyWrite DEF SettledRequests
        <3>2. Total(Held)' = Total(Held)
            BY <3>1, Zenon DEF Held, Total
        <3> QED BY <1>1, <3>1, <3>2, CreditsGrow
    <2>5. CASE \E r \in Request : Settle(r)
        BY <1>1, <2>1, <2>2, <2>5
    <2>6. CASE \E c \in Conn : Sweep(c)
        <3>1. /\ Credits(S)' = Credits(S)
              /\ Total(Held)' >= Total(Held)
              /\ PairedInv => Total(Held)' = Total(Held)
            BY <2>3, <2>6
        <3>2. Total(Held)' \in Int
            BY <1>1, HeldTypeNext DEF HeldIsTyped
        <3> QED BY <1>1, <2>1, <3>1, <3>2
    <2>7. CASE (~\E r \in Request : Settle(r)) /\ (~\E c \in Conn : Sweep(c))
        BY <1>1, <2>1, <2>4, <2>7
    <2> QED BY <2>5, <2>6, <2>7
<1>6. EarningsInv'
    BY <1>2, <1>3, <1>5 DEF EarningsInv
<1>7. ASSUME OneOwnerPerNode, PairedInv PROVE PairedInv'
    BY <1>4, <1>5, <1>6, <1>7 DEF PairedInv
<1> QED BY <1>6, <1>7

LEMMA EarningsInitially == Init => EarningsInv /\ PairedInv
BY EscrowInitially, NothingHeldAtFirst DEF EarningsInv, PairedInv, Swept

\* Providers and escrow together never hold less than was credited, whoever
\* binds a node: what leaves escrow has an account to go to.
EarningsAreNeverLost == Total(Held) >= Credits(SettledRequests)

THEOREM NothingIsLost == Spec => []EarningsAreNeverLost
<1>1. EarningsInv /\ [Next]_vars => EarningsInv'
    BY EarningsStep
<1>2. Init => EarningsInv
    BY EarningsInitially
<1>3. EarningsInv => EarningsAreNeverLost
    BY DEF EarningsInv, EarningsAreNeverLost
<1> QED BY <1>1, <1>2, <1>3, PTL DEF Spec

\* Where no node is bound to two users in turn, providers and escrow hold
\* exactly what was credited.
THEOREM EarningsAreExact ==
    ASSUME OneOwnerPerNode
    PROVE  Spec => []EarningsConserved
<1>1. PairedInv /\ [Next]_vars => PairedInv'
    BY EarningsStep DEF PairedInv
<1>2. Init => PairedInv
    BY EarningsInitially
<1>3. PairedInv => EarningsConserved
    BY DEF PairedInv, EarningsConserved
<1> QED BY <1>1, <1>2, <1>3, PTL DEF Spec

-----------------------------------------------------------------------------
(* The whole ledger.                                                       *)

\* What a request put into accounts without taking it from one: an admin's is
\* charged to nobody.
Granted(r) == IF CallerOf(r) = None THEN GrossOf(r) ELSE 0
GrantedMap == [r \in Request |-> Granted(r)]
AllGranted == SumFunctionOnSet(GrantedMap, SettledRequests)

\* All accounts together, developers', providers', escrow and the platform's,
\* are worth what requests of admins put there, and nothing else.
DoubleEntry ==
    Total(ledger) = SumFunction([r \in SettledRequests |-> Granted(r)])

BalancedInv == PairedInv /\ Total(ledger) = AllGranted

GrantedTyped == \A r \in SettledRequests : GrantedMap[r] \in Nat

LEMMA GrantedType == Books => GrantedTyped
<1> SUFFICES ASSUME Books, NEW r \in SettledRequests PROVE GrantedMap[r] \in Nat
    BY DEF GrantedTyped
<1>1. r \in Request /\ spc[r] # "running" /\ Typed
    BY DEF Books, SettledRequests, TypeOK, Typed
<1> QED BY <1>1, AmountsType DEF GrantedMap, Granted

LEMMA GrantedTypeNext == Books' => GrantedTyped'
BY GrantedType, PTL

\* What was granted stays so, and a settlement adds its own.
LEMMA GrantedGrows ==
    ASSUME Books, [Next]_vars
    PROVE  /\ SettledRequests' = SettledRequests => AllGranted' = AllGranted
           /\ \A r \in Request : Settle(r) => AllGranted' = AllGranted + Granted(r)
<1> DEFINE S == SettledRequests
           f == GrantedMap
           g == GrantedMap'
<1>1. /\ \A q \in S : f[q] \in Nat /\ g[q] = f[q]
      /\ IsFiniteSet(S)
    <2>1. ASSUME NEW q \in S PROVE g[q] = f[q]
        <3>1. q \in Request /\ outcome'[q] = outcome[q] /\ seen'[q] = seen[q]
            BY <2>1, SettledStay DEF SettledRequests
        <3>2. GrossOf(q)' = GrossOf(q) /\ CallerOf(q)' = CallerOf(q)
            BY <3>1, SettlementKept
        <3> QED BY <3>1, <3>2 DEF GrantedMap, Granted
    <2> QED BY <2>1, GrantedType DEF GrantedTyped, Books
<1>2. \A q \in S' : g[q] \in Nat
    <2>1. GrantedTyped'
        BY BooksStep, GrantedTypeNext
    <2> QED BY <2>1 DEF GrantedTyped
<1>3. AllGranted = SumFunctionOnSet(f, S) /\ AllGranted' = SumFunctionOnSet(g, S')
    BY Zenon DEF AllGranted
<1>4. ASSUME NEW r \in Request, Settle(r)
      PROVE  S' = S \cup {r} /\ r \notin S /\ g[r] = Granted(r)
    <2>1. S' = S \cup {r} /\ r \notin S
        BY <1>4, SettleWrites
    <2>2. GrossOf(r)' = GrossOf(r) /\ CallerOf(r)' = CallerOf(r)
        BY <1>4, SettlementKept DEF Settle
    <2> QED BY <2>1, <2>2 DEF GrantedMap, Granted
<1> HIDE DEF S, f, g
<1>5. SumFunctionOnSet(g, S) = SumFunctionOnSet(f, S)
      /\ SumFunctionOnSet(f, S) \in Nat
    BY <1>1, SumSame, SumNat
<1>6. ASSUME S' = S PROVE AllGranted' = AllGranted
    BY <1>3, <1>5, <1>6, Zenon
<1>7. ASSUME NEW r \in Request, Settle(r)
      PROVE  AllGranted' = AllGranted + Granted(r)
    <2>1. \A q \in S \cup {r} : g[q] \in Int
        BY <1>2, <1>4, <1>7
    <2>2. SumFunctionOnSet(g, S \cup {r}) = g[r] + SumFunctionOnSet(g, S)
        BY <1>1, <1>4, <1>7, <2>1, SumAdd
    <2>3. AllGranted' = Granted(r) + AllGranted
        BY <1>3, <1>4, <1>5, <1>7, <2>2, Zenon
    <2>4. Granted(r) \in Int
        BY <1>4, <1>7, <2>1
    <2> QED BY <1>3, <1>5, <2>3, <2>4
<1> QED BY <1>6, <1>7 DEF S

LEMMA LedgerType ==
    ASSUME Books
    PROVE  IsFiniteSet(ledger) /\ ledger \subseteq Entry /\ Total(ledger) \in Int
<1>1. IsFiniteSet(ledger) /\ ledger \subseteq Entry
    BY DEF Books, TypeOK
<1> QED BY <1>1, TotalIs

LEMMA SettleBalances ==
    ASSUME Books, NEW r \in Request, Settle(r)
    PROVE  Total(ledger)' = Total(ledger) + Granted(r)
<1> DEFINE D == Settlement(r)
<1>1. /\ spc[r] = "credited" /\ seen[r] \in User \cup {None} /\ Typed
      /\ ledger' = ledger \cup D /\ ledger \cap D = {}
      /\ IsFiniteSet(D) /\ D \subseteq Entry
    BY SettleWrites DEF Books, TypeOK, Typed
<1>2. Total(D) = Granted(r)
    BY <1>1, SettlementBalances DEF Granted
<1> HIDE DEF D
<1>3. IsFiniteSet(ledger \cup D) /\ ledger \cup D \subseteq Entry
    BY <1>1, LedgerType, FS_Union
<1>4. Total(ledger \cup D) = Total(ledger) + Total(D)
    <2>1. \A e \in ledger \cup D : Amounts[e] \in Int
        BY <1>3, TotalIs
    <2>2. SumFunctionOnSet(Amounts, ledger \cup D)
            = SumFunctionOnSet(Amounts, ledger) + SumFunctionOnSet(Amounts, D)
        BY <1>1, <2>1, LedgerType, SumUnion
    <2> QED BY <1>1, <1>3, <2>2, LedgerType, TotalIs
<1>5. Total(ledger)' = Total(ledger')
    BY Zenon DEF Total
<1> QED BY <1>1, <1>2, <1>4, <1>5, Zenon

LEMMA BalancedStep ==
    ASSUME OneOwnerPerNode, BalancedInv, [Next]_vars
    PROVE  BalancedInv'
<1> DEFINE S == SettledRequests
<1>1. /\ EarningsInv /\ EscrowInv /\ Books /\ Books' /\ PairedInv'
      /\ Total(ledger) = AllGranted /\ Total(ledger) \in Int
    BY BooksStep, EarningsStep, LedgerType
    DEF BalancedInv, PairedInv, EarningsInv, EscrowInv
<1>2. ASSUME NEW r \in Request, Settle(r) PROVE Total(ledger)' = AllGranted'
    BY <1>1, <1>2, SettleBalances, GrantedGrows
<1>3. ASSUME NEW c \in Conn, Sweep(c) PROVE Total(ledger)' = AllGranted'
    <2> DEFINE one == IF Swept(Escrow, NodeOf[c]) THEN {} ELSE {Out(c)}
               two == IF Swept(OwnersAccount(c), NodeOf[c]) THEN {} ELSE {In(c)}
    <2>1. S' = S
        BY <1>1, <1>3, SweepKeepsBooks DEF Books
    <2>2. ledger' = (ledger \cup one) \cup two
        BY <1>1, <1>3, SweepInserts
    <2>3. Total((ledger \cup one) \cup two)
            = Total(ledger) - (IF Swept(Escrow, NodeOf[c]) THEN 0 ELSE escrowed[c])
                + (IF Swept(OwnersAccount(c), NodeOf[c]) THEN 0 ELSE escrowed[c])
        BY <1>1, <1>3, SweepAdds, Zenon
    <2>4. Swept(Escrow, NodeOf[c]) <=> Swept(OwnersAccount(c), NodeOf[c])
        BY DEF BalancedInv, PairedInv, EarningsInv
    <2>5. escrowed[c] \in Int
        BY <1>1 DEF Books, TypeOK
    <2> HIDE DEF one, two
    <2>6. Total((ledger \cup one) \cup two) = Total(ledger)
        BY <1>1, <2>3, <2>4, <2>5
    <2>7. Total(ledger)' = Total(ledger')
        BY Zenon DEF Total
    <2>8. Total(ledger)' = Total(ledger)
        BY <2>2, <2>6, <2>7, Zenon
    <2> QED BY <1>1, <2>1, <2>8, GrantedGrows, Zenon
<1>4. ASSUME ~\E r \in Request : Settle(r), ~\E c \in Conn : Sweep(c)
      PROVE  Total(ledger)' = AllGranted'
    <2>1. ledger' = ledger /\ S' = S
        BY <1>1, <1>4, OnlyTheyWrite DEF SettledRequests
    <2>2. Total(ledger)' = Total(ledger)
        BY <2>1, Zenon DEF Total
    <2> QED BY <1>1, <2>1, <2>2, GrantedGrows, Zenon
<1> QED BY <1>1, <1>2, <1>3, <1>4 DEF BalancedInv

\* Where no node is bound to two users in turn, settlements, aborted ones,
\* sweeps and removals together neither make money nor lose any, over all
\* accounts of the ledger.
THEOREM LedgerBalances ==
    ASSUME OneOwnerPerNode
    PROVE  Spec => []DoubleEntry
<1>1. BalancedInv /\ [Next]_vars => BalancedInv'
    BY BalancedStep
<1>2. Init => BalancedInv
    <2> SUFFICES ASSUME Init PROVE BalancedInv
        OBVIOUS
    <2>1. PairedInv /\ SettledRequests = {} /\ ledger = {}
        BY EarningsInitially DEF Init, SettledRequests
    <2>2. Total({}) = SumFunctionOnSet(Amounts, {})
        BY FS_EmptySet, TotalIs
    <2> QED BY <2>1, <2>2, SumEmpty, Zenon DEF BalancedInv, AllGranted
<1>3. BalancedInv => DoubleEntry
    <2> SUFFICES ASSUME BalancedInv PROVE DoubleEntry
        OBVIOUS
    <2> DEFINE S == SettledRequests
               g == [r \in S |-> Granted(r)]
    <2>1. S \subseteq Request /\ IsFiniteSet(S)
        BY DEF BalancedInv, PairedInv, EarningsInv, EscrowInv, Books, SettledRequests
    <2>2. g = [r \in S |-> GrantedMap[r]]
        BY <2>1 DEF GrantedMap
    <2>3. DoubleEntry <=> Total(ledger) = SumFunction(g)
        BY Zenon DEF DoubleEntry
    <2>4. Total(ledger) = SumFunctionOnSet(GrantedMap, S)
        BY Zenon DEF BalancedInv, AllGranted
    <2> HIDE DEF S, g
    <2>5. SumFunction(g) = SumFunctionOnSet(GrantedMap, S)
        BY <2>1, <2>2, SumOfRestriction
    <2> QED BY <2>3, <2>4, <2>5, Zenon
<1> QED BY <1>1, <1>2, <1>3, PTL DEF Spec

-----------------------------------------------------------------------------
(* The order of locks.                                                     *)

\* How far a transaction has come on the way through its locks.
Progress(h) ==
    IF h \in Request
    THEN CASE spc[h] = "begun" -> 1
           [] spc[h] = "debited" -> 2
           [] spc[h] = "owned" -> 3
           [] spc[h] = "credited" -> 5
           [] OTHER -> 0
    ELSE CASE bpc[h] = "summed" -> 1
           [] bpc[h] = "locked" -> 4
           [] OTHER -> 0

\* The row a transaction waits for when its next statement finds it locked.
WaitsFor(h, x) ==
    IF h \in Request
    THEN \/ spc[h] = "begun" /\ CallerOf(h) # None /\ x = Developer(CallerOf(h))
         \/ spc[h] = "owned" /\ x = CreditAccount(h)
         \/ spc[h] = "credited" /\ x = Revenue
    ELSE \/ bpc[h] = "resolved" /\ x = NodeOf[h]
         \/ bpc[h] = "summed" /\ x = Escrow
         \/ bpc[h] = "locked" /\ x = OwnersAccount(h)

\* Which rows a transaction can have locked by when.
LockInv ==
    \A x \in Row :
        /\ \A r \in Request : lock[x] = r =>
             \/ /\ spc[r] \in {"debited", "owned", "credited"}
                /\ CallerOf(r) # None /\ x = Developer(CallerOf(r))
             \/ spc[r] = "credited" /\ x = CreditAccount(r)
        /\ \A c \in Conn : lock[x] = c =>
             \/ bpc[c] \in {"summed", "locked"} /\ x = NodeOf[c]
             \/ bpc[c] = "locked" /\ x = Escrow

\* Who waits for a row waits for one that is further on than itself: no cycle
\* of settlements and bindings, of any length, waits for itself.
LocksAreOrdered ==
    \A x \in Row, h \in Request \cup Conn :
        WaitsFor(h, x) /\ lock[x] # None => Progress(h) < Progress(lock[x])

LEMMA LockStep ==
    ASSUME TypeOK, LockInv, [Next]_vars
    PROVE  LockInv'
<1> USE DEF TypeOK
<1> DEFINE HeldByRequest(x, r) ==
               \/ /\ spc[r] \in {"debited", "owned", "credited"}
                  /\ CallerOf(r) # None /\ x = Developer(CallerOf(r))
               \/ spc[r] = "credited" /\ x = CreditAccount(r)
           HeldByConn(x, c) ==
               \/ bpc[c] \in {"summed", "locked"} /\ x = NodeOf[c]
               \/ bpc[c] = "locked" /\ x = Escrow
<1>1. /\ \A r \in Request : r \notin Conn /\ r # None
      /\ \A c \in Conn : c \notin Request /\ c # None
    BY SettlementAssumption
<1>2. LockInv <=> \A x \in Row :
                     /\ \A r \in Request : lock[x] = r => HeldByRequest(x, r)
                     /\ \A c \in Conn : lock[x] = c => HeldByConn(x, c)
    BY DEF LockInv
<1>3. LockInv' <=> \A x \in Row :
                     /\ \A r \in Request : lock'[x] = r => HeldByRequest(x, r)'
                     /\ \A c \in Conn : lock'[x] = c => HeldByConn(x, c)'
    BY DEF LockInv
\* What others hold does not change with what one transaction does.
<1>4. ASSUME NEW q \in Request, UNCHANGED bindVars,
             \A r \in Request \ {q} : /\ spc'[r] = spc[r] /\ seen'[r] = seen[r]
                                      /\ outcome'[r] = outcome[r],
             \A x \in Row, h \in (Request \cup Conn) \ {q} :
                 lock'[x] = h => lock[x] = h,
             \A x \in Row : lock'[x] = q => HeldByRequest(x, q)'
      PROVE  LockInv'
    <2>1. ASSUME NEW x \in Row, NEW r \in Request \ {q}, HeldByRequest(x, r)
          PROVE  HeldByRequest(x, r)'
        BY <1>4, <2>1 DEF CallerOf, CreditAccount
    <2>2. ASSUME NEW x \in Row, NEW c \in Conn
          PROVE  HeldByConn(x, c)' <=> HeldByConn(x, c)
        BY <1>4 DEF bindVars
    <2> HIDE DEF HeldByRequest, HeldByConn
    <2>3. ASSUME NEW x \in Row, NEW r \in Request, lock'[x] = r
          PROVE  HeldByRequest(x, r)'
        BY <1>2, <1>4, <2>1, <2>3
    <2>4. ASSUME NEW x \in Row, NEW c \in Conn, lock'[x] = c
          PROVE  HeldByConn(x, c)'
        BY <1>1, <1>2, <1>4, <2>2, <2>4
    <2> QED BY <1>3, <2>3, <2>4
<1>5. ASSUME NEW d \in Conn, UNCHANGED settleVars,
             \A c \in Conn \ {d} : bpc'[c] = bpc[c],
             \A x \in Row, h \in (Request \cup Conn) \ {d} :
                 lock'[x] = h => lock[x] = h,
             \A x \in Row : lock'[x] = d => HeldByConn(x, d)'
      PROVE  LockInv'
    <2>1. ASSUME NEW x \in Row, NEW r \in Request
          PROVE  HeldByRequest(x, r)' <=> HeldByRequest(x, r)
        BY <1>5 DEF settleVars, CallerOf, CreditAccount
    <2>2. ASSUME NEW x \in Row, NEW c \in Conn \ {d}
          PROVE  HeldByConn(x, c)' <=> HeldByConn(x, c)
        BY <1>5
    <2> HIDE DEF HeldByRequest, HeldByConn
    <2>3. ASSUME NEW x \in Row, NEW r \in Request, lock'[x] = r
          PROVE  HeldByRequest(x, r)'
        BY <1>1, <1>2, <1>5, <2>1, <2>3
    <2>4. ASSUME NEW x \in Row, NEW c \in Conn, lock'[x] = c
          PROVE  HeldByConn(x, c)'
        BY <1>2, <1>5, <2>2, <2>4
    <2> QED BY <1>3, <2>3, <2>4
<1>6. ASSUME NEW r \in Request, Unmetered(r) PROVE LockInv'
    <2>1. \A x \in Row : lock'[x] # r
        BY <1>2, <1>6 DEF Unmetered
    <2> QED BY <1>4, <1>6, <2>1 DEF Unmetered
<1>7. ASSUME NEW r \in Request, Meter(r) PROVE LockInv'
    <2>1. \A x \in Row : lock'[x] # r
        BY <1>2, <1>7 DEF Meter
    <2> QED BY <1>4, <1>7, <2>1 DEF Meter
<1>8. ASSUME NEW r \in Request, Begin(r) PROVE LockInv'
    <2>1. \A x \in Row : lock'[x] # r
        BY <1>2, <1>8 DEF Begin
    <2> QED BY <1>4, <1>8, <2>1 DEF Begin
<1>9. ASSUME NEW r \in Request, Debit(r) PROVE LockInv'
    <2>1. \A x \in Row : lock[x] # r
        BY <1>2, <1>9 DEF Debit
    <2>2. /\ spc'[r] = "debited" /\ CallerOf(r)' = CallerOf(r)
          /\ UNCHANGED <<bindVars, seen, outcome>>
          /\ \A q \in Request \ {r} : spc'[q] = spc[q]
        BY <1>9 DEF Debit, CallerOf
    <2>3. \/ UNCHANGED lock
          \/ CallerOf(r) # None /\ Take(Developer(CallerOf(r)), r)
        BY <1>9 DEF Debit
    <2>4. \A x \in Row : lock'[x] = r => HeldByRequest(x, r)'
        BY <2>1, <2>2, <2>3 DEF Take
    <2>5. \A x \in Row, h \in (Request \cup Conn) \ {r} : lock'[x] = h => lock[x] = h
        BY <2>3 DEF Take
    <2> QED BY <1>4, <2>2, <2>4, <2>5
<1>10. ASSUME NEW r \in Request, ReadOwner(r) PROVE LockInv'
    <2>1. \A x \in Row : lock[x] = r =>
              CallerOf(r) # None /\ x = Developer(CallerOf(r))
        BY <1>2, <1>10 DEF ReadOwner
    <2>2. /\ spc'[r] = "owned" /\ CallerOf(r)' = CallerOf(r)
          /\ UNCHANGED <<bindVars, lock, outcome>>
          /\ \A q \in Request \ {r} : spc'[q] = spc[q] /\ seen'[q] = seen[q]
        BY <1>10 DEF ReadOwner, CallerOf
    <2> QED BY <1>4, <2>1, <2>2
<1>11. ASSUME NEW r \in Request, Credit(r) PROVE LockInv'
    <2>1. \A x \in Row : lock[x] = r =>
              CallerOf(r) # None /\ x = Developer(CallerOf(r))
        BY <1>2, <1>11 DEF Credit
    <2>2. /\ spc'[r] = "credited" /\ CallerOf(r)' = CallerOf(r)
          /\ CreditAccount(r)' = CreditAccount(r)
          /\ UNCHANGED <<bindVars, seen, outcome>>
          /\ \A q \in Request \ {r} : spc'[q] = spc[q]
        BY <1>11 DEF Credit, CallerOf, CreditAccount
    <2>3. UNCHANGED lock \/ Take(CreditAccount(r), r)
        BY <1>11 DEF Credit
    <2>4. \A x \in Row : lock'[x] = r => HeldByRequest(x, r)'
        BY <2>1, <2>2, <2>3 DEF Take
    <2>5. \A x \in Row, h \in (Request \cup Conn) \ {r} : lock'[x] = h => lock[x] = h
        BY <2>3 DEF Take
    <2> QED BY <1>4, <2>2, <2>4, <2>5
<1>12. ASSUME NEW r \in Request, Settle(r) \/ Abort(r) PROVE LockInv'
    <2>1. /\ UNCHANGED <<bindVars, seen, outcome>> /\ Release(r)
          /\ \A q \in Request \ {r} : spc'[q] = spc[q]
        BY <1>12 DEF Settle, Abort
    <2>2. \A x \in Row : lock'[x] # r
        BY <1>1, <2>1 DEF Release
    <2>3. \A x \in Row, h \in (Request \cup Conn) \ {r} : lock'[x] = h => lock[x] = h
        BY <1>1, <2>1 DEF Release
    <2> QED BY <1>4, <2>1, <2>2, <2>3
<1>13. ASSUME NEW d \in Conn, Resolve(d) PROVE LockInv'
    <2>1. \A x \in Row : lock'[x] # d
        BY <1>2, <1>13 DEF Resolve
    <2> QED BY <1>5, <1>13, <2>1 DEF Resolve
<1>14. ASSUME NEW d \in Conn, BeginBind(d) PROVE LockInv'
    <2>1. \A x \in Row : lock[x] # d
        BY <1>2, <1>14 DEF BeginBind
    <2>2. /\ bpc'[d] = "summed" /\ UNCHANGED settleVars /\ Take(NodeOf[d], d)
          /\ \A c \in Conn \ {d} : bpc'[c] = bpc[c]
        BY <1>14 DEF BeginBind
    <2>3. \A x \in Row : lock'[x] = d => HeldByConn(x, d)'
        BY <2>1, <2>2 DEF Take
    <2>4. \A x \in Row, h \in (Request \cup Conn) \ {d} : lock'[x] = h => lock[x] = h
        BY <2>2 DEF Take
    <2> QED BY <1>5, <2>2, <2>3, <2>4
<1>15. ASSUME NEW d \in Conn, LockEscrow(d) PROVE LockInv'
    <2>1. \A x \in Row : lock[x] = d => x = NodeOf[d]
        BY <1>2, <1>15 DEF LockEscrow
    <2>2. /\ bpc'[d] = "locked" /\ UNCHANGED settleVars /\ Take(Escrow, d)
          /\ \A c \in Conn \ {d} : bpc'[c] = bpc[c]
        BY <1>15 DEF LockEscrow
    <2>3. \A x \in Row : lock'[x] = d => HeldByConn(x, d)'
        BY <2>1, <2>2 DEF Take
    <2>4. \A x \in Row, h \in (Request \cup Conn) \ {d} : lock'[x] = h => lock[x] = h
        BY <2>2 DEF Take
    <2> QED BY <1>5, <2>2, <2>3, <2>4
<1>16. ASSUME NEW d \in Conn, NothingToSweep(d) \/ Sweep(d) \/ AbortBind(d)
       PROVE  LockInv'
    <2>1. /\ UNCHANGED settleVars /\ Release(d)
          /\ \A c \in Conn \ {d} : bpc'[c] = bpc[c]
        BY <1>16 DEF NothingToSweep, Sweep, AbortBind, Bound
    <2>2. \A x \in Row : lock'[x] # d
        BY <1>1, <2>1 DEF Release
    <2>3. \A x \in Row, h \in (Request \cup Conn) \ {d} : lock'[x] = h => lock[x] = h
        BY <1>1, <2>1 DEF Release
    <2> QED BY <1>5, <2>1, <2>2, <2>3
<1>17. CASE (\E n \in Node : RevokeNode(n)) \/ UNCHANGED vars
    <2>1. UNCHANGED <<settleVars, bpc, lock>>
        BY <1>17 DEF RevokeNode, vars, bindVars
    <2> QED BY <2>1 DEF LockInv, settleVars, CallerOf, CreditAccount
<1> HIDE DEF HeldByRequest, HeldByConn
<1> QED BY <1>6, <1>7, <1>8, <1>9, <1>10, <1>11, <1>12, <1>13, <1>14, <1>15,
           <1>16, <1>17 DEF Next, SettleStep, BindStep

\* The tables' rows and the accounts' kinds are told apart.
LEMMA RowsApart ==
    /\ \A u \in User, v \in User \cup {Platform} : Developer(u) # Earnings(v)
    /\ \A u \in User : Developer(u) # Revenue
    /\ \A u \in User \cup {Platform} : Earnings(u) # Revenue
    /\ \A u \in User : Earnings(u) # Escrow
    /\ \A n \in Node, a \in Account : n # a
BY SettlementAssumption, RowAssumption
DEF Developer, Earnings, Revenue, Escrow

LEMMA LocksOrdered == TypeOK /\ LockInv => LocksAreOrdered
<1> SUFFICES ASSUME TypeOK, LockInv, NEW x \in Row,
                    NEW h \in Request \cup Conn, WaitsFor(h, x), lock[x] # None
             PROVE  Progress(h) < Progress(lock[x])
    BY DEF LocksAreOrdered
<1>1. \A r \in Request : r \notin Conn
    BY SettlementAssumption
<1>2. \A r \in Request : spc[r] # "running" => CallerOf(r) \in User \cup {None}
    BY AmountsType DEF TypeOK, Typed
<1>3. \A r \in Request : CreditAccount(r) = Escrow
                         \/ \E u \in User : CreditAccount(r) = Earnings(u)
    BY DEF CreditAccount, TypeOK
<1>4. \A c \in Conn : NodeOf[c] \in Node /\ OwnerOf[Presents[c]] \in User
    BY SettlementAssumption
<1> DEFINE g == lock[x]
<1>5. g \in Request \cup Conn
    BY DEF TypeOK
\* Who has locked a row that this one waits for.
<1>6. CASE g \in Request
    <2>1. CASE /\ spc[g] \in {"debited", "owned", "credited"}
               /\ CallerOf(g) \in User /\ x = Developer(CallerOf(g))
        <3>1. h \in Request /\ spc[h] = "begun"
            BY <1>1, <1>3, <1>4, <2>1, RowsApart
            DEF WaitsFor, Escrow, OwnersAccount, Developer, Account
        <3> QED BY <1>6, <2>1, <3>1 DEF Progress
    <2>2. CASE spc[g] = "credited" /\ x = CreditAccount(g)
        <3>1. /\ h \in Request => spc[h] \in {"begun", "owned"}
              /\ h \notin Request => bpc[h] \in {"summed", "locked", "resolved"}
            BY <1>3, <1>6, <2>2, RowsApart DEF WaitsFor, Escrow
        <3> QED BY <1>1, <1>6, <2>2, <3>1 DEF Progress
    <2> QED BY <1>2, <1>6, <2>1, <2>2 DEF LockInv
<1>7. CASE g \in Conn
    <2>1. CASE bpc[g] \in {"summed", "locked"} /\ x = NodeOf[g]
        <3>1. h \notin Request /\ bpc[h] = "resolved"
            BY <1>2, <1>3, <1>4, <2>1, <1>7, RowsApart, Rows
            DEF WaitsFor, OwnersAccount, Account, Developer, Earnings, Revenue, Escrow
        <3> QED BY <1>1, <1>7, <2>1, <3>1 DEF Progress
    <2>2. CASE bpc[g] = "locked" /\ x = Escrow
        <3>1. /\ h \in Request => spc[h] \in {"begun", "owned"}
              /\ h \notin Request => bpc[h] \in {"summed", "resolved"}
            BY <1>1, <1>4, <2>2, RowsApart DEF WaitsFor, Escrow, OwnersAccount
        <3> QED BY <1>1, <1>7, <2>2, <3>1 DEF Progress
    <2> QED BY <1>7, <2>1, <2>2 DEF LockInv
<1> QED BY <1>5, <1>6, <1>7

LEMMA LockInitially == Init => LockInv
BY SettlementAssumption DEF Init, LockInv

\* No deadlock among settlements and bindings: the safety half of
\* SettlementsEnd, for any number of them.
THEOREM NoCycleOfWaiters == Spec => []LocksAreOrdered
<1>1. TypeOK /\ LockInv /\ [Next]_vars => LockInv'
    BY LockStep
<1> QED BY <1>1, LockInitially, LocksOrdered, SettlementTypes, PTL DEF Spec

-----------------------------------------------------------------------------
(* The pool.                                                               *)

\* No more transactions are open than the pool has connections.
PoolKept == IsFiniteSet(Transactions) /\ Cardinality(Transactions) <= PoolSize

\* A transaction waits for no row, nor for a second connection (NodeOwner's).
CanGoOn(h) ==
    /\ \A x \in Row : WaitsFor(h, x) => lock[x] = None
    /\ h \in Request /\ spc[h] = "debited" => ConnectionFree

\* When no open transaction can go on, the pool has run out: every connection
\* is held by a settlement that waits for its second one, or by a transaction
\* such a settlement keeps waiting.
OnlyThePoolStalls ==
    \/ Transactions = {}
    \/ \E h \in Transactions : CanGoOn(h)
    \/ /\ Cardinality(Transactions) = PoolSize
       /\ \A h \in Transactions : Progress(h) <= 2
       /\ \E r \in Request : spc[r] = "debited"

LEMMA PoolStep ==
    ASSUME TypeOK, PoolKept, [Next]_vars
    PROVE  PoolKept'
<1>1. \A r \in Request : r \notin Conn
    BY SettlementAssumption
<1>2. ASSUME NEW h, ConnectionFree, Transactions' \subseteq Transactions \cup {h}
      PROVE  PoolKept'
    <2>1. /\ IsFiniteSet(Transactions \cup {h})
          /\ Cardinality(Transactions \cup {h}) <= Cardinality(Transactions) + 1
          /\ Cardinality(Transactions) \in Nat
        BY FS_AddElement, FS_CardinalityType DEF PoolKept
    <2>2. /\ IsFiniteSet(Transactions')
          /\ Cardinality(Transactions') <= Cardinality(Transactions \cup {h})
          /\ Cardinality(Transactions') \in Nat
          /\ Cardinality(Transactions \cup {h}) \in Nat
        BY <1>2, <2>1, FS_Subset, FS_CardinalityType
    <2> QED BY <1>2, <2>1, <2>2, SettlementAssumption DEF ConnectionFree, PoolKept
<1>3. ASSUME Transactions' \subseteq Transactions
      PROVE  PoolKept'
    <2>1. /\ IsFiniteSet(Transactions')
          /\ Cardinality(Transactions') <= Cardinality(Transactions)
          /\ Cardinality(Transactions') \in Nat
          /\ Cardinality(Transactions) \in Nat
        BY <1>3, FS_Subset, FS_CardinalityType DEF PoolKept
    <2> QED BY <2>1, SettlementAssumption DEF PoolKept
<1>4. ASSUME NEW r \in Request, Begin(r) PROVE PoolKept'
    <2>1. ConnectionFree /\ Transactions' \subseteq Transactions \cup {r}
        BY <1>4 DEF Begin, Transactions, bindVars, TypeOK
    <2> QED BY <1>2, <2>1
<1>5. ASSUME NEW c \in Conn, BeginBind(c) PROVE PoolKept'
    <2>1. ConnectionFree /\ Transactions' \subseteq Transactions \cup {c}
        BY <1>5 DEF BeginBind, Transactions, settleVars, TypeOK
    <2> QED BY <1>2, <2>1
<1>6. ASSUME NEW r \in Request,
             Unmetered(r) \/ Meter(r) \/ Debit(r) \/ ReadOwner(r) \/ Credit(r)
                \/ Settle(r) \/ Abort(r)
      PROVE  PoolKept'
    <2>1. UNCHANGED bpc /\ \A q \in Request \ {r} : spc'[q] = spc[q]
        BY <1>6 DEF Unmetered, Meter, Debit, ReadOwner, Credit, Settle, Abort,
                    bindVars, TypeOK
    <2>2. spc'[r] \in InTx => spc[r] \in InTx
        BY <1>6 DEF Unmetered, Meter, Debit, ReadOwner, Credit, Settle, Abort,
                    TypeOK, InTx
    <2>3. Transactions' \subseteq Transactions
        BY <2>1, <2>2 DEF Transactions
    <2> QED BY <1>3, <2>3
<1>7. ASSUME NEW c \in Conn,
             Resolve(c) \/ LockEscrow(c) \/ NothingToSweep(c) \/ Sweep(c)
                \/ AbortBind(c)
      PROVE  PoolKept'
    <2>1. UNCHANGED spc /\ \A d \in Conn \ {c} : bpc'[d] = bpc[d]
        BY <1>7 DEF Resolve, LockEscrow, NothingToSweep, Sweep, AbortBind, Bound,
                    settleVars, TypeOK
    <2>2. bpc'[c] \in {"summed", "locked"} => bpc[c] \in {"summed", "locked"}
        BY <1>7 DEF Resolve, LockEscrow, NothingToSweep, Sweep, AbortBind, Bound,
                    TypeOK
    <2>3. Transactions' \subseteq Transactions
        BY <2>1, <2>2 DEF Transactions
    <2> QED BY <1>3, <2>3
<1>8. CASE (\E n \in Node : RevokeNode(n)) \/ UNCHANGED vars
    <2>1. Transactions' = Transactions
        BY <1>8 DEF RevokeNode, vars, settleVars, bindVars, Transactions
    <2> QED BY <1>3, <2>1
<1> QED BY <1>4, <1>5, <1>6, <1>7, <1>8 DEF Next, SettleStep, BindStep

LEMMA Furthest ==
    ASSUME Transactions # {}
    PROVE  \E h \in Transactions : \A g \in Transactions : Progress(g) <= Progress(h)
<1>1. \A h : Progress(h) \in 0..5
    BY DEF Progress
<1> DEFINE T == Transactions
           Reach(k) == \E h \in T : Progress(h) >= k
<1>2. Reach(0)
    BY <1>1
<1>3. PICK k \in 0..5 : Reach(k) /\ ~Reach(k + 1)
    <2>1. ~Reach(6)
        BY <1>1
    <2> HIDE DEF Reach
    <2> QED BY <1>2, <2>1
<1> QED BY <1>1, <1>3

LEMMA StallsOfThePool ==
    ASSUME TypeOK, LockInv, PoolKept
    PROVE  OnlyThePoolStalls
<1> SUFFICES ASSUME Transactions # {}
             PROVE  \/ \E h \in Transactions : CanGoOn(h)
                    \/ /\ Cardinality(Transactions) = PoolSize
                       /\ \A h \in Transactions : Progress(h) <= 2
                       /\ \E r \in Request : spc[r] = "debited"
    BY DEF OnlyThePoolStalls
<1>1. PICK h \in Transactions : \A g \in Transactions : Progress(g) <= Progress(h)
    BY Furthest
<1>2. Transactions \subseteq Request \cup Conn
    BY DEF Transactions
\* Whoever has locked a row has a transaction open.
<1>3. \A x \in Row : lock[x] # None => lock[x] \in Transactions
    BY DEF TypeOK, LockInv, Transactions, InTx
<1>4. \A g : Progress(g) \in 0..5
    BY DEF Progress
<1>5. ASSUME NEW x \in Row, WaitsFor(h, x), lock[x] # None
      PROVE  FALSE
    <2>1. Progress(h) < Progress(lock[x])
        BY <1>2, <1>5, LocksOrdered DEF LocksAreOrdered
    <2>2. Progress(lock[x]) <= Progress(h)
        BY <1>1, <1>3, <1>5
    <2> QED BY <1>4, <2>1, <2>2
<1>6. CASE h \in Request /\ spc[h] = "debited" /\ ~ConnectionFree
    <2>1. Progress(h) = 2
        BY <1>6 DEF Progress
    <2>2. Cardinality(Transactions) \in Nat
        BY FS_CardinalityType DEF PoolKept
    <2>3. Cardinality(Transactions) = PoolSize
        BY <1>6, <2>2, SettlementAssumption DEF ConnectionFree, PoolKept
    <2> QED BY <1>1, <1>6, <2>1, <2>3
<1> QED BY <1>5, <1>6 DEF CanGoOn

\* Settlements and registrations bring each other to a halt in one way only:
\* they hold all connections of the pool, some settlement among them needs a
\* second one, and the others wait for a row of such a settlement.
THEOREM OnlyPoolDeadlock == Spec => [](PoolKept /\ OnlyThePoolStalls)
<1>1. Init => PoolKept
    <2> SUFFICES ASSUME Init PROVE PoolKept
        OBVIOUS
    <2>1. Transactions = {}
        BY DEF Init, Transactions, InTx
    <2> QED BY <2>1, FS_EmptySet, SettlementAssumption DEF PoolKept
<1>2. TypeOK /\ PoolKept /\ [Next]_vars => PoolKept'
    BY PoolStep
<1>3. TypeOK /\ LockInv /\ [Next]_vars => LockInv'
    BY LockStep
<1>4. TypeOK /\ LockInv /\ PoolKept => OnlyThePoolStalls
    BY StallsOfThePool
<1> QED BY <1>1, <1>2, <1>3, <1>4, LockInitially, SettlementTypes, PTL DEF Spec
=============================================================================
