---------------------------- MODULE MCSettlement ----------------------------
(* Values of Settlement's constants for TLC.                               *)
EXTENDS Settlement

CONSTANTS r1, r2, n1, c1, c2, k1, k2, dev, own, other

\* One node.
OnOneNode == [r \in Request |-> n1]
ConnsOfOneNode == [c \in Conn |-> n1]
\* The first registration presents a login token, the second another credential.
InTurn == [c \in Conn |-> IF c = c1 THEN k1 ELSE k2]
OneOwner == [k \in Credential |-> own]
TwoOwners == [k \in Credential |-> IF k = k1 THEN own ELSE other]

\* A failed dispatch; an answer with an honest count, an inflated one, none;
\* an answer to the admin; a caller that left.
Out(caller, status, text, counts) ==
    [caller |-> caller, status |-> status, prompt |-> 8, text |-> text,
     provIn |-> IF status = "completed" THEN {2} ELSE {}, provOut |-> counts]
Outcomes == {Out(dev, "failed", 0, {}), Out(dev, "completed", 24, {8}),
             Out(dev, "completed", 24, {40}), Out(dev, "timeout", 24, {}),
             Out(None, "completed", 24, {8}), Out(dev, "cancelled", 24, {})}
OneOutcome == {Out(dev, "completed", 24, {8})}
=============================================================================
