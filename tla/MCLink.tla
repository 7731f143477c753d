------------------------------- MODULE MCLink -------------------------------
(* The access point in range is the first of two candidates; two requests, one
   fault. *)
EXTENDS Link

Candidates == <<"ap", "gone">>
=============================================================================
