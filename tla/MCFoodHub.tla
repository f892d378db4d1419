------------------------------ MODULE MCFoodHub -----------------------------
(* Two customers after the same portion; the second one's payment declines. *)
EXTENDS FoodHubProps, TLC

CONSTANTS u1, u2, k1, r1, d1, wide

One(user, method) ==
    [userId |-> user, requestKey |-> k1, restaurantId |-> r1,
     items |-> [d \in Dish |-> IF d = d1 THEN 1 ELSE 0],
     paymentMethod |-> method]

\* One cart names a dish id no 32-bit column holds.
Unservable ==
    [One(u1, "demo_success") EXCEPT
        !.items = [d \in Dish |-> IF d = wide THEN 1 ELSE 0]]

OneUnservable == {Unservable, One(u2, "demo_success")}

\* One key for two different carts, one of which can never be served.
OneKey == {One(u1, "demo_failure"), Unservable}

TwoBuyers == {One(u1, "demo_success"), One(u2, "demo_failure")}
=============================================================================
