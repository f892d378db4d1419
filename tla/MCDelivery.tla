----------------------------- MODULE MCDelivery -----------------------------
(* All events in one partition, where their order could matter. *)
EXTENDS Delivery

CONSTANT l1

OneLane == [e \in Event |-> l1]
=============================================================================
