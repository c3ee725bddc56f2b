---------------------------- MODULE MCPivotDemo ----------------------------
(* Instances of PivotDemo for TLC. *)
EXTENDS PivotDemo, TLC

CONSTANTS r1, r2, r3

Runs3  == {r1, r2, r3}
AnyOwner == {Nobody, Before}
=============================================================================
