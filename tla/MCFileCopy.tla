----------------------------- MODULE MCFileCopy -----------------------------
(* Instances of FileCopy for TLC. *)
EXTENDS FileCopy, TLC

CONSTANTS c1, c2, c3

Copiers3 == {c1, c2, c3}

\* Distinct bytes, so that a lost, doubled or foreign one shows; one source is
\* longer than the buffer, one empty.
Source3 == (c1 :> <<"a", "b", "c">>) @@ (c2 :> <<"x">>) @@ (c3 :> <<>>)
Mixed == {c1, c3}
=============================================================================
