------------------------ MODULE MCNotificationOutbox ------------------------
(* Instances of NotificationOutbox for TLC. *)
EXTENDS NotificationOutbox
CONSTANTS n1, n2, r1, w1, w2
=============================================================================
