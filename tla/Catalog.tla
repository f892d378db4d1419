------------------------------ MODULE Catalog -------------------------------
(***************************************************************************)
(* restaurant-service: the dishes and their stock, and the reservations    *)
(* made against them (services/restaurant/src/catalog.service.ts).  One    *)
(* action per database transaction: reserve() and release() hold a         *)
(* per-reservation advisory lock and row locks until they commit, so a     *)
(* transaction is one step here.                                           *)
(***************************************************************************)
EXTENDS Carts

CONSTANTS
    NewStock,       \* stock an administrator may put a new dish on sale with
    Restock,        \* stock an administrator may set an existing dish to
    WideDish,       \* dish ids past the 32-bit column: no row ever has one
    Unissued,       \* a row whose SERIAL id has not been issued
    Deleted         \* a row that was deleted; its id is never issued again

ASSUME CatalogAssumption ==
    /\ NewStock \subseteq Nat /\ Restock \subseteq Nat
    /\ WideDish \subseteq Dish

VARIABLES
    restaurants,    \* restaurants[r]: "unissued", "live" or "deleted"
    dishes,         \* dishes[d]: its row, Unissued or Deleted
    reservations    \* reservations[id]: its row or Null

catalogVars == <<restaurants, dishes, reservations>>

DishRow == [restaurantId : Restaurant, priceVnd : Price, stock : Nat]

Reservation ==
    [restaurantId : Restaurant, items : Items, prices : Prices,
     released : BOOLEAN]

ASSUME RowAssumption ==
    /\ Null \notin Reservation
    /\ {Unissued, Deleted} \cap DishRow = {}

CatalogTypeOK ==
    /\ restaurants \in [Restaurant -> {"unissued", "live", "deleted"}]
    /\ dishes \in [Dish -> DishRow \cup {Unissued, Deleted}]
    /\ reservations \in [OrderId -> Reservation \cup {Null}]

CatalogInit ==
    /\ restaurants = [r \in Restaurant |-> "unissued"]
    /\ dishes = [d \in Dish |-> Unissued]
    /\ reservations = [id \in OrderId |-> Null]

-----------------------------------------------------------------------------
(* Administration *)

OnSale(d) == dishes[d] \notin {Unissued, Deleted}

CreateRestaurant(r) ==
    /\ restaurants[r] = "unissued"
    /\ restaurants' = [restaurants EXCEPT ![r] = "live"]
    /\ UNCHANGED <<dishes, reservations>>

\* The foreign key cascades to the dishes; reservations have no foreign key.
RemoveRestaurant(r) ==
    /\ restaurants[r] = "live"
    /\ restaurants' = [restaurants EXCEPT ![r] = "deleted"]
    /\ dishes' = [d \in Dish |->
                    IF OnSale(d) /\ dishes[d].restaurantId = r
                    THEN Deleted ELSE dishes[d]]
    /\ UNCHANGED reservations

AddDish(r, d, price, stock) ==
    /\ restaurants[r] = "live"
    /\ dishes[d] = Unissued
    /\ d \notin WideDish
    /\ dishes' = [dishes EXCEPT ![d] =
                    [restaurantId |-> r, priceVnd |-> price, stock |-> stock]]
    /\ UNCHANGED <<restaurants, reservations>>

\* The fields the PATCH body leaves out keep their value: the statement
\* assigns only the columns that are present.
UpdateDish(r, d, price, stock) ==
    /\ OnSale(d)
    /\ dishes[d].restaurantId = r
    /\ dishes' = [dishes EXCEPT ![d].priceVnd = price, ![d].stock = stock]
    /\ UNCHANGED <<restaurants, reservations>>

RemoveDish(r, d) ==
    /\ OnSale(d)
    /\ dishes[d].restaurantId = r
    /\ dishes' = [dishes EXCEPT ![d] = Deleted]
    /\ UNCHANGED <<restaurants, reservations>>

PutOnSale ==
    \E r \in Restaurant :
        \/ CreateRestaurant(r)
        \/ \E d \in Dish, price \in Price, stock \in NewStock :
               AddDish(r, d, price, stock)

TakeOffSale ==
    \E r \in Restaurant :
        \/ RemoveRestaurant(r)
        \/ \E d \in Dish : RemoveDish(r, d)

Reprice ==
    \E r \in Restaurant, d \in Dish, price \in Price :
        OnSale(d) /\ UpdateDish(r, d, price, dishes[d].stock)

SetStock ==
    \E r \in Restaurant, d \in Dish, stock \in Restock :
        OnSale(d) /\ \E price \in Price \cup {dishes[d].priceVnd} :
            UpdateDish(r, d, price, stock)

Administer == PutOnSale \/ TakeOffSale \/ Reprice \/ SetStock

-----------------------------------------------------------------------------
(* Reservations *)

\* Mutated form: stock > quantity - 2 for stock >= quantity
UnavailableOffByOne(cart, d) ==
    \/ ~OnSale(d)
    \/ dishes[d].restaurantId # cart.restaurantId
    \/ dishes[d].stock + 1 < cart.items[d]

\* The conditional UPDATE of one item matches no row.
Unavailable(cart, d) ==
    \/ ~OnSale(d)
    \/ dishes[d].restaurantId # cart.restaurantId
    \/ dishes[d].stock < cart.items[d]

PricesNow(cart) ==
    [d \in Dish |-> IF d \in Ordered(cart) THEN dishes[d].priceVnd ELSE 0]

\* A wide id sorts after every issued one, so the loop reaches it, and the
\* database client rejects it, only when the other dishes are available.
Overflows(cart) ==
    /\ Ordered(cart) \cap WideDish # {}
    /\ \A d \in Ordered(cart) \ WideDish : ~Unavailable(cart, d)

\* Mutated form: the earlier reservation is not looked up
ReservableAgain(id, cart) ==
    /\ \A d \in Ordered(cart) : ~Unavailable(cart, d)
    /\ Total(cart.items, PricesNow(cart)) =< MaxTotalVnd

Reservable(id, cart) ==
    /\ reservations[id] = Null
    /\ \A d \in Ordered(cart) : ~Unavailable(cart, d)
    /\ Total(cart.items, PricesNow(cart)) =< MaxTotalVnd

SameRequest(row, cart) ==
    row.restaurantId = cart.restaurantId /\ row.items = cart.items

\* Mutated form: a repeated reservation is answered with today's prices
ReserveAnswerRepriced(id, cart) ==
    IF reservations[id] # Null
    THEN IF SameRequest(reservations[id], cart) /\ ~reservations[id].released
            /\ \A d \in Ordered(cart) : OnSale(d)
         THEN Granted(PricesNow(cart)) ELSE Refused("conflict")
    ELSE IF Reservable(id, cart)
         THEN Granted(PricesNow(cart)) ELSE Refused("conflict")

\* The response of reserve(id, cart) in the current state.
ReserveAnswer(id, cart) ==
    LET previous == reservations[id] IN
    CASE previous # Null ->
            IF SameRequest(previous, cart) /\ ~previous.released
            THEN Granted(previous.prices) ELSE Refused("conflict")
      [] previous = Null /\ Overflows(cart) -> Refused("error")
      [] previous = Null /\ ~Overflows(cart)
            /\ (\E d \in Ordered(cart) : Unavailable(cart, d)) ->
            Refused("conflict")
      [] OTHER ->
            IF Reservable(id, cart)
            THEN Granted(PricesNow(cart)) ELSE Refused("bad")

\* Every item is taken and the row written, or the transaction rolls back.
Reserve(id, cart) ==
    /\ \/ /\ Reservable(id, cart)
          /\ dishes' = [d \in Dish |->
                          IF d \in Ordered(cart)
                          THEN [dishes[d] EXCEPT !.stock = @ - cart.items[d]]
                          ELSE dishes[d]]
          /\ reservations' = [reservations EXCEPT ![id] =
                [restaurantId |-> cart.restaurantId, items |-> cart.items,
                 prices |-> PricesNow(cart), released |-> FALSE]]
       \/ /\ ~Reservable(id, cart)
          /\ UNCHANGED <<dishes, reservations>>
    /\ UNCHANGED restaurants

\* Stock of a dish that was deleted in the meantime is not given back.
Release(id) ==
    /\ reservations[id] # Null
    /\ ~reservations[id].released
    /\ dishes' = [d \in Dish |->
                    IF OnSale(d)
                    THEN [dishes[d] EXCEPT
                            !.stock = @ + reservations[id].items[d]]
                    ELSE dishes[d]]
    /\ reservations' = [reservations EXCEPT ![id].released = TRUE]
    /\ UNCHANGED restaurants

Serve ==
    \E id \in OrderId : Release(id) \/ \E cart \in Cart : Reserve(id, cart)

CatalogNext == Administer \/ Serve

CatalogSpec == CatalogInit /\ [][CatalogNext]_catalogVars

-----------------------------------------------------------------------------
(* Properties *)

Holds(id) == reservations[id] # Null /\ ~reservations[id].released

\* Portions of a dish held by the reservations in force.
Held(d) ==
    SumFunction([id \in {i \in OrderId : Holds(i)} |->
                    reservations[id].items[d]])

\* Portions are neither lost nor made: except when an administrator sets the
\* stock, what is on the shelf and what reservations hold add up to the same
\* number, through partial reservations that roll back, repeated reservations
\* under one key and repeated releases.
StockConserved ==
    [][\A d \in Dish :
        (OnSale(d) /\ OnSale(d)' /\ ~SetStock) =>
            (dishes[d].stock + Held(d))' = dishes[d].stock + Held(d)]_catalogVars

\* A reservation keeps the cart and the prices it was granted with, whatever
\* is repriced, restocked or deleted afterwards, and a release is final.
SnapshotStable ==
    [][\A id \in OrderId : reservations[id] # Null =>
        /\ reservations'[id] # Null
        /\ SameRequest(reservations'[id], reservations[id])
        /\ reservations'[id].prices = reservations[id].prices
        /\ reservations[id].released => reservations'[id].released]_catalogVars
=============================================================================
