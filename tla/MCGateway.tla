------------------------------ MODULE MCGateway ------------------------------
(***************************************************************************)
(* Gateway for TLC.  One client asks for anything, the others check out:   *)
(* no other request leaves anything behind that a later one could meet.    *)
(***************************************************************************)
EXTENDS Gateway

Curious == CHOOSE n \in Call : TRUE
Checkouts == {q \in Request : q.endpoint = "createOrder"}

Requests == [n \in Call |-> IF n = Curious THEN Request ELSE Checkouts]
=============================================================================
