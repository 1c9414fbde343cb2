------------------------- MODULE MCAnalyzeIdempotency -------------------------
(* Instances of AnalyzeIdempotency for TLC: model values and symmetry. *)
EXTENDS AnalyzeIdempotency, TLC

CONSTANTS r1, r2, r3

MCRequests == {r1, r2, r3}
Symmetry   == Permutations(MCRequests)
==============================================================================
