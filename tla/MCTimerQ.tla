------------------------------ MODULE MCTimerQ ------------------------------
(* A periodic and a one-shot timer, and a pool of two nodes. *)
EXTENDS TimerQ
=============================================================================
