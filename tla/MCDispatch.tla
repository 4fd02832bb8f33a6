----------------------------- MODULE MCDispatch -----------------------------
(* Values of Dispatch's constants for TLC.                                 *)
EXTENDS DispatchInvariants

CONSTANTS n1, c1, c2

\* One machine, which may connect more than once.
OneNode == [c \in Conn |-> n1]
=============================================================================
