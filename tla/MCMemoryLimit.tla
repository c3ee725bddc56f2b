--------------------------- MODULE MCMemoryLimit ---------------------------
(* Instances of MemoryLimit for TLC. *)
EXTENDS MemoryLimit, TLC

CONSTANTS p1, p2

Parents2 == {p1, p2}
=============================================================================
