------------------------------- MODULE Carts --------------------------------
(***************************************************************************)
(* The data every FoodHub service exchanges: carts, price snapshots and    *)
(* their total.  A cart is kept in the form both services compare: after   *)
(* the duplicate check and the sort by dishId the item list is determined  *)
(* by the quantity of each dish, so it is a function from dishes to        *)
(* quantities, 0 meaning "not in the cart".                                *)
(***************************************************************************)
EXTENDS Integers, Functions, FiniteSets

CONSTANTS
    Restaurant,     \* restaurant ids a request may name
    Dish,           \* dish ids a request may name
    OrderId,        \* order ids, in the order the SERIAL column issues them
    User,           \* the `sub` of the bearer tokens
    RequestKey,     \* well-formed Idempotency-Key values
    Quantity,       \* quantities a cart item may have (the DTO allows 1..100)
    Price,          \* prices in VND a dish may have (the DTO allows 0..10^7)
    MaxTotalVnd,    \* the cap of reserve(): 2 * 10^9 in the code
    Null            \* no row

ASSUME DataAssumption ==
    /\ OrderId \subseteq Nat
    /\ Quantity \subseteq Nat \ {0}
    /\ Price \subseteq Nat
    /\ MaxTotalVnd \in Nat
    /\ Null \notin OrderId

\* SERIAL ids start at 1; dish ids are numbers a JSON body can carry exactly.
ASSUME IdAssumption ==
    /\ 0 \notin OrderId
    /\ IsFiniteSet(Dish)

Items == [Dish -> Quantity \cup {0}]

\* The dishes of a cart
Ordered(cart) == {d \in Dish : cart.items[d] > 0}

\* The DTO refuses an empty item list.
Cart == {cart \in [restaurantId : Restaurant, items : Items] :
            Ordered(cart) # {}}

\* A price for each dish of a cart, 0 for the others
Prices == [Dish -> Price \cup {0}]

NoPrices == [d \in Dish |-> 0]

\* items.reduce((sum, i) => sum + i.priceVnd * i.quantity, 0)
Total(items, prices) == SumFunction([d \in Dish |-> items[d] * prices[d]])

\* Every sum a cart can have, and the 0 an order starts with
Amount == {Total(items, prices) : items \in Items, prices \in Prices} \cup {0}

\* What the reservation endpoint answers: 200 with the prices of the items,
\* 409, 400 (or 404), or a 5xx.
Answer == [code : {"ok", "conflict", "bad", "error"}, prices : Prices]

Granted(prices) == [code |-> "ok", prices |-> prices]
Refused(code) == [code |-> code, prices |-> NoPrices]
=============================================================================
