------------------------------ MODULE Pricing ------------------------------
(***************************************************************************)
(* What a request costs (coordinator/store/billing.go): the coordinator's  *)
(* own token estimate, the tolerance within which a provider's count is    *)
(* believed, the charge and its split.  Amounts are micro-USD.  They are   *)
(* unbounded here; in the code they are int64, which a product of tokens   *)
(* and rate stays within for any price below $90 million per 1M tokens and *)
(* any request below 100,000 tokens.                                       *)
(***************************************************************************)
EXTENDS Integers

CONSTANTS
    InRate, OutRate,   \* price of a Unit of tokens
    Unit,              \* 1,000,000 in the code
    MinCharge,         \* MinChargeMicro
    FeePercent         \* PlatformFeePercent, from the environment

ASSUME PriceAssumption ==
    /\ {InRate, OutRate, Unit} \subseteq Nat \ {0}
    /\ MinCharge \in Nat
    /\ FeePercent \in Int

\* Of a text of len bytes.
EstimateTokens(len) == IF len \div 4 < 1 THEN 1 ELSE len \div 4

\* Mutant of CountsMatch: only a count below the estimate is suspicious.
CountsMatchFromBelow(est, count) ==
    IF count <= 0 THEN est <= 2 ELSE 4 * (est - count) <= count

\* The estimate is within 25% of the provider's count.
CountsMatch(est, count) ==
    IF count <= 0 THEN est <= 2
    ELSE /\ 4 * (est - count) <= count
         /\ 4 * (count - est) <= count

\* The count that is billed; reported is {} or holds the provider's count.
Billed(est, reported) ==
    IF \E count \in reported : CountsMatch(est, count)
    THEN CHOOSE count \in reported : CountsMatch(est, count)
    ELSE est

CeilDiv(a, b) == IF a <= 0 THEN 0 ELSE (a + b - 1) \div b

Gross(in, out) ==
    LET sum == CeilDiv(in * InRate, Unit) + CeilDiv(out * OutRate, Unit) IN
    IF in <= 0 /\ out <= 0 THEN 0
    ELSE IF sum < MinCharge THEN MinCharge ELSE sum

\* SplitProviderFee; the provider gets the remainder.
PlatformFee(gross) ==
    LET percent == IF FeePercent < 0 THEN 0
                   ELSE IF FeePercent > 100 THEN 100 ELSE FeePercent
    IN  (gross * percent) \div 100

\* Mutant of ProviderCredit: the provider's share is rounded by itself.
ProviderCreditRounded(gross) == (gross * (100 - FeePercent)) \div 100

ProviderCredit(gross) == gross - PlatformFee(gross)
=============================================================================
