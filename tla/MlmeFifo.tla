------------------------------ MODULE MlmeFifo ------------------------------
(***************************************************************************)
(* What the state machines of the driver rely on from the MLME queue: a    *)
(* first-in first-out queue with one consumer. A message accepted is       *)
(* handled once, as it was written, in the order of acceptance, unless the *)
(* queue is cleared first. The promise ends with `broken`: the queue makes *)
(* it only as long as no message is put where another still is.            *)
(***************************************************************************)
EXTENDS Naturals, Sequences

CONSTANTS Messages, None

VARIABLES
  queue,   \* the messages accepted and not yet taken
  taken,   \* the message being handled, or None
  broken   \* has the promise ended?

Init == queue = <<>> /\ taken = None /\ broken = FALSE

Put == \E m \in Messages : queue' = Append(queue, m) /\ UNCHANGED <<taken, broken>>

Take ==
  /\ queue # <<>> /\ taken = None
  /\ taken' = Head(queue) /\ queue' = Tail(queue)
  /\ UNCHANGED broken

Done  == taken # None /\ taken' = None /\ UNCHANGED <<queue, broken>>
Clear == queue' = <<>> /\ UNCHANGED <<taken, broken>>
Break == broken' = TRUE

Next == (~broken /\ (Put \/ Take \/ Done \/ Clear)) \/ Break

Spec == Init /\ [][Next]_<<queue, taken, broken>>
=============================================================================
