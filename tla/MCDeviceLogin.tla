---------------------------- MODULE MCDeviceLogin ---------------------------
(* Values of DeviceLogin's constants for TLC.                              *)
EXTENDS DeviceLogin

CONSTANTS a1, a2, p1, p2, p3, m1

\* Two logins on one Mac; two polls of the first may overlap.
TwoPollsAndOne == [p \in Poll |-> IF p = p3 THEN a2 ELSE a1]
OnOneMac == [a \in Attempt |-> m1]
=============================================================================
