---------------------------- MODULE MCMlmeQueue -----------------------------
(* A ring of two slots and one sender beside the tasklet and the handlers. *)
EXTENDS MlmeQueue
=============================================================================
