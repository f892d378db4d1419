--------------------------- MODULE MCCatalogLocks ----------------------------
(* Dish ids are numbers; the heap has the dishes in either order. *)
EXTENDS CatalogLocks

Keys == [id \in OrderId |-> id]
Scans == {ById, [d \in Dish |-> 9 - d]}

\* One dish, both, and one together with an id no column holds
AskedCarts == {cart \in Cart : Ordered(cart) \in {{1}, {1, 2}, {1, 3}}}
=============================================================================
