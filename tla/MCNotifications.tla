--------------------------- MODULE MCNotifications --------------------------
(* Two users, the first of whom has two events. *)
EXTENDS Notifications, TLC

CONSTANTS u1, u2

FirstUsers == [e \in Event |-> IF e = 3 THEN u2 ELSE u1]
=============================================================================
