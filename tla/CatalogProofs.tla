--------------------------- MODULE CatalogProofs ----------------------------
(* Proofs about restaurant-service: what reserve(), release() and the admin *)
(* operations keep true of the catalog and the reservations.                *)
EXTENDS Catalog, SumTheorems

-----------------------------------------------------------------------------
(* Data *)

\* A total computed from stored items and snapshot prices is one an order,
\* an event or a payment may carry.
LEMMA TotalInAmount ==
    ASSUME NEW items \in Items, NEW prices \in Prices
    PROVE  Total(items, prices) \in Amount
BY DEF Amount

\* The quantity of a dish in a cart is a number, 0 if it is not ordered.
LEMMA QuantityInNat ==
    ASSUME NEW items \in Items, NEW d \in Dish
    PROVE  items[d] \in Nat
<1>1. items[d] \in Quantity \cup {0}
  BY DEF Items
<1>2. \A q \in Quantity \cup {0} : q \in Nat
  BY DataAssumption
<1> QED BY <1>1, <1>2

\* No total is negative.
LEMMA AmountInNat ==
    ASSUME NEW amount \in Amount
    PROVE  amount \in Nat
<1>1. ASSUME NEW items \in Items, NEW prices \in Prices
      PROVE  Total(items, prices) \in Nat
  <2> DEFINE cost == [d \in Dish |-> items[d] * prices[d]]
  <2>1. ASSUME NEW d \in Dish
        PROVE  cost[d] \in Nat
    <3>1. items[d] \in Nat
      BY QuantityInNat
    <3>2. prices[d] \in Price \cup {0}
      BY DEF Prices
    <3>3. \A p \in Price \cup {0} : p \in Nat
      BY DataAssumption
    <3>4. \A a, b \in Nat : a * b \in Nat
      OBVIOUS
    <3> QED BY <3>1, <3>2, <3>3, <3>4
  <2>2. Total(items, prices) = SumFunctionOnSet(cost, Dish)
    BY DEF Total, SumFunction
  <2> HIDE DEF cost
  <2> QED BY <2>1, <2>2, IdAssumption, SumNat
<1> QED BY <1>1 DEF Amount

\* The price snapshot of a request that names no dish.
LEMMA NoPricesInPrices == NoPrices \in Prices
BY DEF NoPrices, Prices

-----------------------------------------------------------------------------
(* restaurant-service *)

\* reserve() reads a price for every dish it takes.
LEMMA PricesOfReservable ==
    ASSUME CatalogTypeOK, NEW id \in OrderId, NEW cart, Reservable(id, cart)
    PROVE  PricesNow(cart) \in Prices
<1>1. \A d \in Ordered(cart) : dishes[d].priceVnd \in Price
  BY DEF CatalogTypeOK, Reservable, Unavailable, OnSale, DishRow, Ordered
<1> QED BY <1>1 DEF PricesNow, Prices

\* Whatever reserve() answers is a well-formed response.
LEMMA AnswerInAnswer ==
    ASSUME CatalogTypeOK, NEW id \in OrderId, NEW cart
    PROVE  ReserveAnswer(id, cart) \in Answer
<1>1. \A code \in {"conflict", "bad", "error"} : Refused(code) \in Answer
  BY NoPricesInPrices DEF Refused, Answer
<1>2. \A prices \in Prices : Granted(prices) \in Answer
  BY DEF Granted, Answer
<1>3. reservations[id] # Null => reservations[id].prices \in Prices
  BY DEF CatalogTypeOK, Reservation
<1> QED BY <1>1, <1>2, <1>3, PricesOfReservable DEF ReserveAnswer

\* A granted answer tells the prices of the reservation in force after it.
LEMMA GrantedIsReserved ==
    ASSUME CatalogTypeOK, NEW id \in OrderId, NEW cart,
           cart.items \in Items, cart.restaurantId \in Restaurant,
           Reserve(id, cart), ReserveAnswer(id, cart).code = "ok"
    PROVE  /\ reservations'[id] # Null
           /\ ReserveAnswer(id, cart).prices = reservations'[id].prices
<1>1. CASE reservations[id] # Null
  BY <1>1 DEF ReserveAnswer, Reserve, Reservable, Granted, Refused
<1>2. CASE reservations[id] = Null
  <2>1. Reservable(id, cart)
    BY <1>2 DEF ReserveAnswer, Refused
  <2>2. ReserveAnswer(id, cart) = Granted(PricesNow(cart))
    BY <1>2, <2>1 DEF ReserveAnswer, Refused, Overflows, Reservable
  <2>3. reservations'[id] =
            [restaurantId |-> cart.restaurantId, items |-> cart.items,
             prices |-> PricesNow(cart), released |-> FALSE]
    BY <2>1 DEF Reserve, CatalogTypeOK
  <2>4. PricesNow(cart) \in Prices
    BY <2>1, PricesOfReservable
  <2>5. reservations'[id] \in Reservation
    BY <2>3, <2>4 DEF Reservation
  <2>6. reservations'[id] # Null
    BY <2>5, RowAssumption
  <2>7. reservations'[id].prices = PricesNow(cart)
    BY <2>3
  <2>8. ReserveAnswer(id, cart).prices = PricesNow(cart)
    BY <2>2 DEF Granted
  <2> QED BY <2>6, <2>7, <2>8
<1> QED BY <1>1, <1>2

\* What reserve(id, cart) does to the reservations: it may write the row of
\* id, if there is none, and touches no other.
LEMMA ReserveEffect ==
    ASSUME CatalogTypeOK, NEW id \in OrderId, NEW cart, Reserve(id, cart)
    PROVE  /\ \A o \in OrderId : (o # id \/ reservations[o] # Null) =>
                reservations'[o] = reservations[o]
           /\ reservations[id] = Null /\ reservations'[id] # Null =>
                /\ SameRequest(reservations'[id], cart)
                /\ ~reservations'[id].released
                /\ Total(cart.items, reservations'[id].prices) =< MaxTotalVnd
<1>1. CASE ~Reservable(id, cart)
  BY <1>1 DEF Reserve
<1>2. CASE Reservable(id, cart)
  <2>1. \A o \in OrderId : o # id => reservations'[o] = reservations[o]
    BY <1>2 DEF Reserve, CatalogTypeOK
  <2>2. reservations'[id] =
            [restaurantId |-> cart.restaurantId, items |-> cart.items,
             prices |-> PricesNow(cart), released |-> FALSE]
    BY <1>2 DEF Reserve, CatalogTypeOK
  <2>3. Total(cart.items, PricesNow(cart)) =< MaxTotalVnd
    BY <1>2 DEF Reservable
  <2> QED BY <1>2, <2>1, <2>2, <2>3 DEF Reservable, SameRequest
<1> QED BY <1>1, <1>2

\* A dish on sale is a row, and stays one when its stock changes.
LEMMA RowOnSale ==
    ASSUME CatalogTypeOK, NEW d \in Dish, OnSale(d)
    PROVE  /\ dishes[d] \in DishRow
           /\ dishes[d].stock \in Nat /\ dishes[d].priceVnd \in Price
           /\ \A n \in Nat : [dishes[d] EXCEPT !.stock = n] \in DishRow
<1>1. dishes[d] \in DishRow
  BY DEF CatalogTypeOK, OnSale
<1> QED BY <1>1 DEF DishRow

\* The transactions and the admin operations keep the catalog well-formed.
LEMMA ReserveType ==
    ASSUME CatalogTypeOK, NEW id \in OrderId, NEW cart, Reserve(id, cart),
           cart.items \in Items, cart.restaurantId \in Restaurant
    PROVE  CatalogTypeOK'
<1>1. CASE ~Reservable(id, cart)
  BY <1>1 DEF Reserve, CatalogTypeOK
<1>2. CASE Reservable(id, cart)
  <2>1. PricesNow(cart) \in Prices
    BY <1>2, PricesOfReservable
  <2>2. [restaurantId |-> cart.restaurantId, items |-> cart.items,
         prices |-> PricesNow(cart), released |-> FALSE] \in Reservation
    BY <2>1 DEF Reservation
  <2>3. reservations' \in [OrderId -> Reservation \cup {Null}]
    BY <1>2, <2>2 DEF Reserve, CatalogTypeOK
  <2>4. ASSUME NEW d \in Ordered(cart)
        PROVE  [dishes[d] EXCEPT !.stock = @ - cart.items[d]] \in DishRow
    <3>1. d \in Dish /\ cart.items[d] \in Nat
      BY QuantityInNat DEF Ordered
    <3>2. OnSale(d) /\ ~(dishes[d].stock < cart.items[d])
      BY <1>2 DEF Reservable, Unavailable
    <3>3. dishes[d].stock \in Nat
      BY <3>1, <3>2, RowOnSale
    <3>4. dishes[d].stock - cart.items[d] \in Nat
      BY <3>1, <3>2, <3>3
    <3> QED BY <3>1, <3>2, <3>4, RowOnSale
  <2>5. dishes' \in [Dish -> DishRow \cup {Unissued, Deleted}]
    BY <1>2, <2>4 DEF Reserve, CatalogTypeOK
  <2> QED BY <2>3, <2>5 DEF Reserve, CatalogTypeOK
<1> QED BY <1>1, <1>2

\* The release of a reservation keeps the types: stock comes back, the row is
\* stamped.
LEMMA ReleaseType ==
    ASSUME CatalogTypeOK, NEW id \in OrderId, Release(id)
    PROVE  CatalogTypeOK'
<1>1. reservations[id] \in Reservation
  BY DEF Release, CatalogTypeOK
<1>2. reservations' \in [OrderId -> Reservation \cup {Null}]
  BY <1>1 DEF Release, CatalogTypeOK, Reservation
<1>3. \A d \in Dish : reservations[id].items[d] \in Nat
  BY <1>1, QuantityInNat DEF Reservation
<1>4. ASSUME NEW d \in Dish, OnSale(d)
      PROVE  [dishes[d] EXCEPT !.stock = @ + reservations[id].items[d]] \in DishRow
  <2>1. dishes[d].stock + reservations[id].items[d] \in Nat
    BY <1>3, <1>4, RowOnSale
  <2> QED BY <1>4, <2>1, RowOnSale
<1>5. dishes' \in [Dish -> DishRow \cup {Unissued, Deleted}]
  BY <1>4 DEF Release, CatalogTypeOK
<1> QED BY <1>2, <1>5 DEF Release, CatalogTypeOK

\* The administrator's writes keep the types.
LEMMA AdministerType ==
    ASSUME CatalogTypeOK, Administer
    PROVE  CatalogTypeOK' /\ UNCHANGED reservations
<1> USE CatalogAssumption DEF CatalogTypeOK
<1>1. ASSUME NEW r \in Restaurant, CreateRestaurant(r)
      PROVE  CatalogTypeOK' /\ UNCHANGED reservations
  BY <1>1 DEF CreateRestaurant
<1>2. ASSUME NEW r \in Restaurant, RemoveRestaurant(r)
      PROVE  CatalogTypeOK' /\ UNCHANGED reservations
  BY <1>2 DEF RemoveRestaurant
<1>3. ASSUME NEW r \in Restaurant, NEW d \in Dish, NEW price \in Price,
             NEW stock \in NewStock, AddDish(r, d, price, stock)
      PROVE  CatalogTypeOK' /\ UNCHANGED reservations
  BY <1>3 DEF AddDish, DishRow
<1>4. ASSUME NEW r \in Restaurant, NEW d \in Dish, NEW price \in Price,
             NEW stock \in Nat, UpdateDish(r, d, price, stock)
      PROVE  CatalogTypeOK' /\ UNCHANGED reservations
  BY <1>4 DEF UpdateDish, OnSale, DishRow
<1>5. ASSUME NEW r \in Restaurant, NEW d \in Dish, RemoveDish(r, d)
      PROVE  CatalogTypeOK' /\ UNCHANGED reservations
  BY <1>5 DEF RemoveDish
<1>6. ASSUME NEW d \in Dish, OnSale(d)
      PROVE  dishes[d].stock \in Nat /\ dishes[d].priceVnd \in Price
  BY <1>6, RowOnSale
<1>7. CASE PutOnSale
  BY <1>1, <1>3, <1>7 DEF PutOnSale
<1>8. CASE TakeOffSale
  BY <1>2, <1>5, <1>8 DEF TakeOffSale
<1>9. CASE Reprice
  BY <1>4, <1>6, <1>9 DEF Reprice
<1>10. CASE SetStock
  <2>1. PICK r \in Restaurant, d \in Dish, stock \in Restock :
            OnSale(d) /\ \E price \in Price \cup {dishes[d].priceVnd} :
                UpdateDish(r, d, price, stock)
    BY <1>10 DEF SetStock
  <2> QED BY <1>4, <1>6, <2>1
<1> QED BY <1>7, <1>8, <1>9, <1>10 DEF Administer

-----------------------------------------------------------------------------
(* The theorems *)

\* Every step of the catalogue keeps its types.
LEMMA CatalogStepType ==
    ASSUME CatalogTypeOK, [CatalogNext]_catalogVars
    PROVE  CatalogTypeOK'
<1>1. CASE Administer
  BY <1>1, AdministerType
<1>2. CASE Serve
  <2>1. \A cart \in Cart : cart.items \in Items /\ cart.restaurantId \in Restaurant
    BY DEF Cart
  <2> QED BY <1>2, <2>1, ReleaseType, ReserveType DEF Serve
<1>3. CASE UNCHANGED catalogVars
  BY <1>3 DEF CatalogTypeOK, catalogVars
<1> QED BY <1>1, <1>2, <1>3 DEF CatalogNext

\* The catalog and the reservations keep their types: no stock goes below 0.
THEOREM CatalogTypeCorrect == CatalogSpec => []CatalogTypeOK
<1>1. CatalogInit => CatalogTypeOK
  BY DEF CatalogInit, CatalogTypeOK
<1> QED BY <1>1, CatalogStepType, PTL DEF CatalogSpec

\* A reservation keeps its cart and its prices, and a release is final.
THEOREM SnapshotsStable == CatalogSpec => SnapshotStable
<1>1. ASSUME CatalogTypeOK, [CatalogNext]_catalogVars, NEW id \in OrderId,
             reservations[id] # Null
      PROVE  /\ reservations'[id] # Null
             /\ SameRequest(reservations'[id], reservations[id])
             /\ reservations'[id].prices = reservations[id].prices
             /\ reservations[id].released => reservations'[id].released
  <2>1. CASE reservations'[id] = reservations[id]
    BY <1>1, <2>1 DEF SameRequest
  <2>2. CASE Release(id)
    <3>1. reservations[id] \in Reservation
      BY <1>1 DEF CatalogTypeOK
    <3>2. reservations'[id] = [reservations[id] EXCEPT !.released = TRUE]
      BY <1>1, <2>2 DEF Release, CatalogTypeOK
    <3>3. reservations'[id] \in Reservation
      BY <3>1, <3>2 DEF Reservation
    <3> QED BY <3>1, <3>2, <3>3, RowAssumption DEF SameRequest, Reservation
  <2>3. CASE Serve /\ ~Release(id)
    <3>1. ASSUME NEW i \in OrderId, i # id, Release(i)
          PROVE  reservations'[id] = reservations[id]
      BY <1>1, <3>1 DEF Release, CatalogTypeOK
    <3>2. ASSUME NEW i \in OrderId, NEW cart \in Cart, Reserve(i, cart)
          PROVE  reservations'[id] = reservations[id]
      BY <1>1, <3>2, ReserveEffect
    <3> QED BY <2>1, <2>3, <3>1, <3>2 DEF Serve
  <2>4. CASE Administer
    BY <1>1, <2>1, <2>4, AdministerType
  <2>5. CASE UNCHANGED catalogVars
    BY <2>1, <2>5 DEF catalogVars
  <2> QED BY <1>1, <2>2, <2>3, <2>4, <2>5 DEF CatalogNext
<1>2. CatalogTypeOK /\ [CatalogNext]_catalogVars =>
        [\A id \in OrderId : reservations[id] # Null =>
            /\ reservations'[id] # Null
            /\ SameRequest(reservations'[id], reservations[id])
            /\ reservations'[id].prices = reservations[id].prices
            /\ reservations[id].released => reservations'[id].released]_catalogVars
  BY <1>1
<1> QED BY <1>2, CatalogTypeCorrect, PTL DEF CatalogSpec, SnapshotStable

-----------------------------------------------------------------------------
(* Portions are neither lost nor made *)

\* The reservations in force in a table of rows, and what each holds of d
Holding(rows) == {id \in OrderId : rows[id] # Null /\ ~rows[id].released}
Portions(rows, d) == [id \in Holding(rows) |-> rows[id].items[d]]
PortionsHeld(rows, d) == SumFunctionOnSet(Portions(rows, d), Holding(rows))

\* There are finitely many reservations, so that their portions have a sum.
FinitelyReserved == IsFiniteSet({id \in OrderId : reservations[id] # Null})

LEMMA HeldIsSum ==
    ASSUME NEW d \in Dish
    PROVE  /\ Held(d) = PortionsHeld(reservations, d)
           /\ Held(d)' = PortionsHeld(reservations', d)
BY DEF Held, Holds, SumFunction, Portions, Holding, PortionsHeld

\* The reservations of a well-formed table hold natural numbers.
LEMMA PortionsInNat ==
    ASSUME NEW rows \in [OrderId -> Reservation \cup {Null}],
           IsFiniteSet({id \in OrderId : rows[id] # Null}), NEW d \in Dish
    PROVE  /\ IsFiniteSet(Holding(rows))
           /\ \A id \in Holding(rows) :
                /\ Portions(rows, d)[id] = rows[id].items[d]
                /\ Portions(rows, d)[id] \in Nat
           /\ PortionsHeld(rows, d) \in Nat
<1>1. IsFiniteSet(Holding(rows))
  <2>1. Holding(rows) \in SUBSET {id \in OrderId : rows[id] # Null}
    BY DEF Holding
  <2> QED BY <2>1, FS_Subset
<1>2. ASSUME NEW id \in Holding(rows)
      PROVE  /\ Portions(rows, d)[id] = rows[id].items[d]
             /\ Portions(rows, d)[id] \in Nat
  <2>1. rows[id].items \in Items
    BY DEF Holding, Reservation
  <2>2. Portions(rows, d)[id] = rows[id].items[d]
    BY DEF Portions
  <2> QED BY <2>1, <2>2, QuantityInNat
<1> QED BY <1>1, <1>2, SumNat DEF PortionsHeld

\* A row that comes into force adds its quantity to what is held.
LEMMA OneMoreHolds ==
    ASSUME NEW rows \in [OrderId -> Reservation \cup {Null}],
           NEW more \in [OrderId -> Reservation \cup {Null}],
           IsFiniteSet({id \in OrderId : rows[id] # Null}),
           IsFiniteSet({id \in OrderId : more[id] # Null}),
           NEW id \in OrderId, id \notin Holding(rows), id \in Holding(more),
           \A o \in OrderId \ {id} :
                /\ o \in Holding(more) <=> o \in Holding(rows)
                /\ o \in Holding(rows) => more[o].items = rows[o].items,
           NEW d \in Dish
    PROVE  PortionsHeld(more, d) = PortionsHeld(rows, d) + more[id].items[d]
<1>1. Holding(more) \ {id} = Holding(rows)
  BY DEF Holding
<1>2. PortionsHeld(more, d) =
        Portions(more, d)[id] + SumFunctionOnSet(Portions(more, d), Holding(rows))
  BY <1>1, PortionsInNat, SumRemove DEF PortionsHeld
<1>3. ASSUME NEW o \in Holding(rows)
      PROVE  Portions(more, d)[o] = Portions(rows, d)[o]
  <2>1. o \in Holding(more) /\ more[o].items = rows[o].items
    BY <1>1 DEF Holding
  <2> QED BY <2>1 DEF Portions
<1>4. SumFunctionOnSet(Portions(more, d), Holding(rows)) = PortionsHeld(rows, d)
  BY <1>3, PortionsInNat, SumSame DEF PortionsHeld
<1>5. Portions(more, d)[id] = more[id].items[d] /\ more[id].items[d] \in Nat
      /\ PortionsHeld(rows, d) \in Nat
  BY PortionsInNat
<1> QED BY <1>2, <1>4, <1>5

\* A step adds at most one reservation.
LEMMA FinitelyReservedKept ==
    ASSUME CatalogTypeOK, FinitelyReserved, [CatalogNext]_catalogVars
    PROVE  FinitelyReserved'
<1> DEFINE Rows == {id \in OrderId : reservations[id] # Null}
<1>1. ASSUME NEW id, {o \in OrderId : reservations'[o] # Null} \subseteq Rows \cup {id}
      PROVE  FinitelyReserved'
  <2>1. IsFiniteSet(Rows \cup {id})
    BY FS_AddElement DEF FinitelyReserved
  <2> QED BY <1>1, <2>1, FS_Subset DEF FinitelyReserved
<1>2. CASE Administer \/ UNCHANGED catalogVars
  BY <1>1, <1>2, AdministerType DEF catalogVars
<1>3. ASSUME NEW id \in OrderId, Release(id)
      PROVE  FinitelyReserved'
  BY <1>1, <1>3 DEF Release, CatalogTypeOK
<1>4. ASSUME NEW id \in OrderId, NEW cart \in Cart, Reserve(id, cart)
      PROVE  FinitelyReserved'
  BY <1>1, <1>4, ReserveEffect
<1> QED BY <1>2, <1>3, <1>4 DEF CatalogNext, Serve

\* What the lemmas about tables of rows need of a step of the catalogue
LEMMA TablesOfStep ==
    ASSUME CatalogTypeOK, FinitelyReserved, [CatalogNext]_catalogVars
    PROVE  /\ reservations \in [OrderId -> Reservation \cup {Null}]
           /\ reservations' \in [OrderId -> Reservation \cup {Null}]
           /\ IsFiniteSet({id \in OrderId : reservations[id] # Null})
           /\ IsFiniteSet({id \in OrderId : reservations'[id] # Null})
BY CatalogStepType, FinitelyReservedKept DEF CatalogTypeOK, FinitelyReserved

\* A new reservation holds the quantities of its cart.
LEMMA ReserveHolds ==
    ASSUME CatalogTypeOK, FinitelyReserved, NEW d \in Dish,
           NEW id \in OrderId, NEW cart \in Cart, Reserve(id, cart),
           Reservable(id, cart)
    PROVE  Held(d)' = Held(d) + cart.items[d]
<1>1. [CatalogNext]_catalogVars
  BY DEF CatalogNext, Serve
<1>2. reservations' = [reservations EXCEPT ![id] =
        [restaurantId |-> cart.restaurantId, items |-> cart.items,
         prices |-> PricesNow(cart), released |-> FALSE]]
  BY DEF Reserve
<1>3. reservations'[id] =
            [restaurantId |-> cart.restaurantId, items |-> cart.items,
             prices |-> PricesNow(cart), released |-> FALSE]
  BY <1>2 DEF CatalogTypeOK
<1>4. reservations'[id] # Null
  <2>1. cart.items \in Items /\ cart.restaurantId \in Restaurant
    BY DEF Cart
  <2>2. reservations'[id] \in Reservation
    BY <1>3, <2>1, PricesOfReservable DEF Reservation
  <2> QED BY <2>2, RowAssumption
<1>5. \A o \in OrderId \ {id} : reservations'[o] = reservations[o]
  BY <1>2 DEF CatalogTypeOK
<1>6. id \notin Holding(reservations) /\ id \in Holding(reservations')
      /\ reservations'[id].items = cart.items
  BY <1>3, <1>4 DEF Holding, Reservable
<1>7. \A o \in OrderId \ {id} :
        /\ o \in Holding(reservations') <=> o \in Holding(reservations)
        /\ o \in Holding(reservations) =>
                reservations'[o].items = reservations[o].items
  BY <1>5 DEF Holding
<1>8. PortionsHeld(reservations', d) =
        PortionsHeld(reservations, d) + reservations'[id].items[d]
  BY <1>1, <1>6, <1>7, TablesOfStep, OneMoreHolds
<1> QED BY <1>6, <1>8, HeldIsSum

\* A release gives back what its reservation held.
LEMMA ReleaseGivesBack ==
    ASSUME CatalogTypeOK, FinitelyReserved, NEW d \in Dish,
           NEW id \in OrderId, Release(id)
    PROVE  Held(d) = Held(d)' + reservations[id].items[d]
<1>1. [CatalogNext]_catalogVars
  BY DEF CatalogNext, Serve
<1>2. reservations[id] \in Reservation /\ id \in Holding(reservations)
  BY DEF Release, CatalogTypeOK, Holding
<1>3. reservations'[id].released
  BY <1>2 DEF Release, CatalogTypeOK, Reservation
<1>4. \A o \in OrderId \ {id} : reservations'[o] = reservations[o]
  BY DEF Release, CatalogTypeOK
<1>5. id \notin Holding(reservations')
  BY <1>3 DEF Holding
<1>6. \A o \in OrderId \ {id} :
        /\ o \in Holding(reservations) <=> o \in Holding(reservations')
        /\ o \in Holding(reservations') =>
                reservations[o].items = reservations'[o].items
  BY <1>4 DEF Holding
<1>7. PortionsHeld(reservations, d) =
        PortionsHeld(reservations', d) + reservations[id].items[d]
  BY <1>1, <1>2, <1>5, <1>6, TablesOfStep, OneMoreHolds
<1> QED BY <1>7, HeldIsSum

\* The administrator moves no portions but by setting the stock of a dish.
LEMMA AdministerConserves ==
    ASSUME CatalogTypeOK, Administer, ~SetStock, NEW d \in Dish,
           OnSale(d), OnSale(d)'
    PROVE  dishes'[d].stock = dishes[d].stock
<1> USE DEF CatalogTypeOK
<1>1. ASSUME NEW r \in Restaurant, CreateRestaurant(r)
      PROVE  dishes'[d].stock = dishes[d].stock
  BY <1>1 DEF CreateRestaurant
<1>2. ASSUME NEW r \in Restaurant, RemoveRestaurant(r)
      PROVE  dishes'[d].stock = dishes[d].stock
  BY <1>2 DEF RemoveRestaurant, OnSale
<1>3. ASSUME NEW r \in Restaurant, NEW e \in Dish, NEW price, NEW stock,
             AddDish(r, e, price, stock)
      PROVE  dishes'[d].stock = dishes[d].stock
  BY <1>3 DEF AddDish, OnSale
<1>4. ASSUME NEW r \in Restaurant, NEW e \in Dish, NEW price \in Price,
             UpdateDish(r, e, price, dishes[e].stock)
      PROVE  dishes'[d].stock = dishes[d].stock
  <2>1. dishes[e] \in DishRow
    BY <1>4 DEF UpdateDish, OnSale
  <2> QED BY <1>4, <2>1 DEF UpdateDish, DishRow
<1>5. ASSUME NEW r \in Restaurant, NEW e \in Dish, RemoveDish(r, e)
      PROVE  dishes'[d].stock = dishes[d].stock
  BY <1>5 DEF RemoveDish, OnSale
<1>6. CASE PutOnSale
  BY <1>1, <1>3, <1>6 DEF PutOnSale
<1>7. CASE TakeOffSale
  BY <1>2, <1>5, <1>7 DEF TakeOffSale
<1>8. CASE Reprice
  BY <1>4, <1>8 DEF Reprice
<1> QED BY <1>6, <1>7, <1>8 DEF Administer

\* reserve() moves portions from the shelf into the reservation.
LEMMA ReserveConserves ==
    ASSUME CatalogTypeOK, FinitelyReserved, NEW d \in Dish, OnSale(d),
           NEW id \in OrderId, NEW cart \in Cart, Reserve(id, cart),
           Reservable(id, cart)
    PROVE  dishes'[d].stock = dishes[d].stock - cart.items[d]
<1>1. dishes[d] \in DishRow /\ dishes[d].stock \in Nat
  BY RowOnSale
<1>2. dishes'[d] = IF d \in Ordered(cart)
                   THEN [dishes[d] EXCEPT !.stock = @ - cart.items[d]]
                   ELSE dishes[d]
  BY DEF Reserve
<1>3. CASE d \in Ordered(cart)
  BY <1>1, <1>2, <1>3 DEF DishRow
<1>4. CASE d \notin Ordered(cart)
  <2>1. cart.items[d] = 0
    BY <1>4, QuantityInNat DEF Ordered, Cart
  <2> QED BY <1>1, <1>2, <1>4, <2>1
<1> QED BY <1>3, <1>4

\* Whatever a step of the catalogue does, the shelf and the reservations in
\* force together keep their portions.
LEMMA StepConserves ==
    ASSUME CatalogTypeOK, FinitelyReserved, [CatalogNext]_catalogVars,
           NEW d \in Dish, OnSale(d), OnSale(d)', ~SetStock
    PROVE  dishes'[d].stock + Held(d)' = dishes[d].stock + Held(d)
<1>1. dishes[d] \in DishRow /\ dishes[d].stock \in Nat
  BY RowOnSale
<1>2. Held(d) \in Nat /\ Held(d)' \in Nat
  BY TablesOfStep, PortionsInNat, HeldIsSum
<1>3. CASE UNCHANGED <<dishes, reservations>>
  BY <1>3, HeldIsSum
<1>4. CASE Administer
  <2>1. dishes'[d].stock = dishes[d].stock
    BY <1>4, AdministerConserves
  <2>2. UNCHANGED reservations
    BY <1>4, AdministerType
  <2> QED BY <2>1, <2>2, HeldIsSum
<1>5. ASSUME NEW id \in OrderId, Release(id)
      PROVE  dishes'[d].stock + Held(d)' = dishes[d].stock + Held(d)
  <2>1. reservations[id].items \in Items
    BY <1>5 DEF Release, CatalogTypeOK, Reservation
  <2>2. reservations[id].items[d] \in Nat
    BY <2>1, QuantityInNat
  <2>3. dishes'[d].stock = dishes[d].stock + reservations[id].items[d]
    BY <1>1, <1>5 DEF Release, DishRow
  <2>4. Held(d) = Held(d)' + reservations[id].items[d]
    BY <1>5, ReleaseGivesBack
  <2> QED BY <1>1, <1>2, <2>2, <2>3, <2>4
<1>6. ASSUME NEW id \in OrderId, NEW cart \in Cart, Reserve(id, cart)
      PROVE  dishes'[d].stock + Held(d)' = dishes[d].stock + Held(d)
  <2>1. CASE ~Reservable(id, cart)
    BY <1>3, <1>6, <2>1 DEF Reserve
  <2>2. CASE Reservable(id, cart)
    <3>1. dishes'[d].stock = dishes[d].stock - cart.items[d]
      BY <1>6, <2>2, ReserveConserves
    <3>2. Held(d)' = Held(d) + cart.items[d]
      BY <1>6, <2>2, ReserveHolds
    <3>3. cart.items[d] \in Nat
      BY QuantityInNat DEF Cart
    <3> QED BY <1>1, <1>2, <3>1, <3>2, <3>3
  <2> QED BY <2>1, <2>2
<1> QED BY <1>3, <1>4, <1>5, <1>6 DEF CatalogNext, Serve, catalogVars

\* StockConserved: except when an administrator sets the stock of a dish, the
\* portions on the shelf and those held by reservations in force add up to the
\* same number after every step, for any number of reservations.
THEOREM PortionsConserved == CatalogSpec => StockConserved
<1>1. CatalogInit => CatalogTypeOK /\ FinitelyReserved
  <2>1. ASSUME CatalogInit
        PROVE  {id \in OrderId : reservations[id] # Null} = {}
    BY <2>1 DEF CatalogInit
  <2> QED BY <2>1, FS_EmptySet DEF CatalogInit, CatalogTypeOK, FinitelyReserved
<1>2. CatalogTypeOK /\ FinitelyReserved /\ [CatalogNext]_catalogVars =>
        CatalogTypeOK' /\ FinitelyReserved'
  BY CatalogStepType, FinitelyReservedKept
<1>3. CatalogTypeOK /\ FinitelyReserved /\ [CatalogNext]_catalogVars =>
        [\A d \in Dish :
            (OnSale(d) /\ OnSale(d)' /\ ~SetStock) =>
                (dishes[d].stock + Held(d))' = dishes[d].stock + Held(d)]_catalogVars
  BY StepConserves
<1> QED BY <1>1, <1>2, <1>3, PTL DEF CatalogSpec, StockConserved

=============================================================================
