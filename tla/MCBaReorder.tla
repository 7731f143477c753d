---------------------------- MODULE MCBaReorder -----------------------------
(* A window of three, numbers that wrap at 16 and two entries of the table. *)
EXTENDS BaReorder
=============================================================================
