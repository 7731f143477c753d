------------------------------ MODULE MCBulkIn ------------------------------
(* BulkIn on a ring of two contexts. *)
EXTENDS BulkIn
=============================================================================
