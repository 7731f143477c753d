-------------------------------- MODULE Air ---------------------------------
(***************************************************************************)
(* What the station and the access point share: each side's MLME queue,    *)
(* which the other side's frames enter in the order they were sent, or     *)
(* never. MlmeQueue models the queue itself; here it is a sequence. A      *)
(* local message is [t |-> type], a confirmation also has ok, an EAPOL-Key *)
(* frame has the replay counter r, the nonce n and the key k of its MIC.   *)
(* A pairwise key is the pair of the nonces it was derived from.           *)
(***************************************************************************)
EXTENDS Naturals, Sequences

CONSTANT MaxFaults \* bound: frames lost, stations sent away, timers that expire early

ASSUME AirAssumption == MaxFaults \in Nat

VARIABLES
  staQ, apQ,  \* the MLME queues
  nonce,      \* the last value GenRandom returned
  faults      \* the faults so far

air == <<staQ, apQ, nonce, faults>>

NoKey == <<0, 0>>

\* WpaState, in the order of the enumeration.
AS_NOTUSE == 0
AS_INITPSK == 1
AS_PTKSTART == 2
AS_PTKINIT_NEGOTIATING == 3
AS_PTKINITDONE == 4

Msg(t) == [t |-> t]
Conf(t, ok) == [t |-> t, ok |-> ok]
KeyFrame(t, r, n, k) == [t |-> t, r |-> r, n |-> n, k |-> k]

KeyFrames  == {"MSG1", "MSG2", "MSG3", "MSG4"}
MgmtFrames == {"PEER_AUTH_ODD", "PEER_AUTH_EVEN", "PEER_ASSOC_REQ", "PEER_ASSOC_RSP",
               "PEER_DISASSOC_REQ", "PEER_DEAUTH"}

StaGets(t) == staQ # <<>> /\ Head(staQ).t = t
ApGets(t)  == apQ # <<>> /\ Head(apQ).t = t

Fault == faults < MaxFaults /\ faults' = faults + 1

\* A timer expires when nothing is on its way any more, which is why it was
\* armed; that it expires while an answer is still coming counts as a fault.
Expires == IF staQ = <<>> /\ apQ = <<>> THEN UNCHANGED faults ELSE Fault

\* A frame nobody receives: lost on the air, dropped by a full queue or by the
\* receive path. Nothing depends on it before its turn, so it leaves then.
Lose ==
  /\ Fault
  /\ \/ staQ # <<>> /\ Head(staQ).t \in KeyFrames \union MgmtFrames
        /\ staQ' = Tail(staQ) /\ UNCHANGED apQ
     \/ apQ # <<>> /\ Head(apQ).t \in KeyFrames \union MgmtFrames
        /\ apQ' = Tail(apQ) /\ UNCHANGED staQ
  /\ UNCHANGED nonce
=============================================================================
