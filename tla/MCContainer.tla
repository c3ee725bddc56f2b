---------------------------- MODULE MCContainer ----------------------------
(* Instances of Container for TLC. *)
EXTENDS Container, TLC

CONSTANTS r1, r2

MCRuns == {r1, r2}
MCSymmetry == Permutations(MCRuns)

\* con1 as an operator prepares it by hand.
ReadySpaces == {{"con", "readOnly", "mnt"}}
\* ... and every way it can be incomplete.
AnySpaces == {{}, {"con"}, {"con", "mnt"}, {"con", "readOnly", "mnt"}}

FreshRoots == {{}, {"proc", "dev"}}
AnyRoots   == {{}, {"oldRoot"}, {"proc", "dev"}}
=============================================================================
