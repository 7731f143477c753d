----------------------------- MODULE MCBulkOut -----------------------------
(* BulkOut on small instances. *)
EXTENDS BulkOut, TLC

\* The sending contexts are interchangeable.
Symmetry == Permutations(Ctx)
=============================================================================
