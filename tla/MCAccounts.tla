----------------------------- MODULE MCAccounts -----------------------------
(* Values of Accounts' constants for TLC.                                  *)
EXTENDS Accounts

CONSTANTS u1

\* One user and one payment, whose webhook comes twice at once.
OneUser == [p \in Payment |-> u1]
Amounts == [p \in Payment |-> 3]
Twice == [d \in Delivery |-> CHOOSE p \in Payment : TRUE]
Calls == [r \in Request |-> u1]
=============================================================================
