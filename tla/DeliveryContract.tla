--------------------------- MODULE DeliveryContract ---------------------------
(***************************************************************************)
(* What the outbox promises about the messages of its events, without the  *)
(* runs that send them, their batches, leases and backoffs: deliveries are *)
(* planned when their event is published and never later; a subscriber     *)
(* gets one message at most per attempt that the delivery has counted; it  *)
(* is called sent only after a message was taken; and a delivery that is   *)
(* sent or a dead letter is settled for good.                              *)
(***************************************************************************)
EXTENDS Integers

CONSTANTS Events, Subscriptions

VARIABLES
  outbox,      \* outbox[e]: what has become of event e
  status,      \* status[n]: what has become of delivery n
  attempts,    \* attempts[n]: how often somebody has taken n
  received     \* received[n]: messages that the subscriber of n got

vars == <<outbox, status, attempts, received>>

Deliveries == Events \X Subscriptions

Init ==
  /\ outbox = [e \in Events |-> "unwritten"]
  /\ status = [n \in Deliveries |-> "none"]
  /\ attempts = [n \in Deliveries |-> 0]
  /\ received = [n \in Deliveries |-> 0]

Write(e) ==
  /\ outbox[e] = "unwritten"
  /\ outbox' = [outbox EXCEPT ![e] = "pending"]
  /\ UNCHANGED <<status, attempts, received>>

\* Some pending events are published, each with all deliveries it will have.
Publish ==
  \E events \in SUBSET {e \in Events : outbox[e] = "pending"} :
    /\ outbox' = [e \in Events |-> IF e \in events THEN "published" ELSE outbox[e]]
    /\ \E planned \in SUBSET {n \in events \X Subscriptions : status[n] = "none"} :
         status' = [n \in Deliveries |-> IF n \in planned THEN "pending" ELSE status[n]]
    /\ UNCHANGED <<attempts, received>>

\* An attempt at some deliveries begins; whoever had taken them may be at it yet.
Take ==
  \E taken \in SUBSET {n \in Deliveries : status[n] \in {"pending", "processing"}} :
    /\ status' = [n \in Deliveries |-> IF n \in taken THEN "processing" ELSE status[n]]
    /\ attempts' = [n \in Deliveries |-> attempts[n] + (IF n \in taken THEN 1 ELSE 0)]
    /\ UNCHANGED <<outbox, received>>

\* The subscriber gets a message, no more of them than there were attempts.
Receive(n) ==
  /\ received[n] < attempts[n]
  /\ received' = [received EXCEPT ![n] = @ + 1]
  /\ UNCHANGED <<outbox, status, attempts>>

\* An attempt is over: the delivery is tried again or is settled.
Settle(n, result) ==
  /\ status[n] = "processing"
  /\ result = "sent" => received[n] > 0
  /\ status' = [status EXCEPT ![n] = result]
  /\ UNCHANGED <<outbox, attempts, received>>

Next ==
  \/ \E e \in Events : Write(e)
  \/ Publish
  \/ Take
  \/ \E n \in Deliveries :
       \/ Receive(n)
       \/ \E result \in {"pending", "sent", "dead_letter"} : Settle(n, result)

Spec == Init /\ [][Next]_vars
=============================================================================
