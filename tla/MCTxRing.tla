------------------------------ MODULE MCTxRing ------------------------------
(* Small instance of TxRing: about five frames fill the ring. *)
EXTENDS TxRing

MCBatches == { [kind |-> "single", parts |-> <<4>>],
               [kind |-> "frag",   parts |-> <<1, 1>>],
               [kind |-> "multi",  parts |-> <<2, 2>>] }
=============================================================================
