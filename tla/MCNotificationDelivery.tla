------------------------ MODULE MCNotificationDelivery ------------------------
(* Constants of NotificationDelivery for TLC. *)
EXTENDS NotificationDelivery

MCEventType == [e \in Events |-> CHOOSE type \in Types : TRUE]
=============================================================================
