----------------------------- MODULE SmokeProofs -----------------------------
(* Proofs about the smoke test: for any number of requests in the burst, any  *)
(* number of recovery timers, any page size and whatever the services do      *)
(* between two of its lines, only a status can make it fail.                  *)
EXTENDS Smoke, FoodHubProofs

USE DEF Exists, InStatus

-----------------------------------------------------------------------------
(* The inductive invariant, part by part                                     *)

\* Order 1 is the first checkout, order 2 the declined one, the others are
\* those of the burst.
Late == OrderId \ {1, 2}

\* The lines at which order 1 is not there yet, or may be undecided
Opening == {"restaurant", "dishes", "order"}

\* The lines from the declined checkout on
Closing == {"accepted", "cancelled", "restored", "burst", "counted", "delete"}

IsOrderOf(o, s) == SameKey(o, s) /\ SameCart(o, s)

\* The orders are those of the script, in its order.
ScriptInv ==
    /\ Exists(1) <=> line \notin Opening
    /\ Exists(1) => IsOrderOf(1, First)
    /\ Exists(2) <=> line \in Closing
    /\ Exists(2) => IsOrderOf(2, Declined)
    /\ \A o \in Late : Exists(o) =>
        /\ line \in {"burst", "counted", "delete"}
        /\ \E h \in Handler : IsOrderOf(o, LastPortion(h))
    /\ \A o, p \in Late :
        (Exists(o) /\ Exists(p) /\ orders[o].requestKey = orders[p].requestKey) => o = p

Reserved(o) == reservations[o] # Null

\* The portions of a dish that are sold: in a reservation, and not returned
Sold(d) ==
    CASE d = "rice" -> IF Reserved(1) THEN 2 ELSE 0
      [] d = "soup" -> IF Reserved(1) THEN 1 ELSE 0
      [] d = "declined" -> IF Reserved(2) /\ ~reservations[2].released THEN 1 ELSE 0
      [] d = "last" -> IF \E o \in Late : Reserved(o) THEN 1 ELSE 0

OnMenu(d) ==
    [restaurantId |-> "smoke", priceVnd |-> Menu[d].priceVnd,
     stock |-> Menu[d].stock - Sold(d)]

\* The shelf is the menu without what is sold, and the last portion is sold once.
ShopInv ==
    /\ \A d \in Dish : dishes[d] \in {Unissued, OnMenu(d)}
    /\ line \notin {"restaurant", "dishes"} => \A d \in Dish : dishes[d] = OnMenu(d)
    /\ \A o, p \in Late : Reserved(o) /\ Reserved(p) => o = p
    /\ Reserved(1) => reservations[1].prices =
            [d \in Dish |-> IF d \in Ordered(First) THEN Menu[d].priceVnd ELSE 0]

\* The restaurant refuses an order only if its stock has been returned or if
\* the last portion is another's.
Lost(o) ==
    \/ o = 2 /\ Reserved(2) /\ reservations[2].released
    \/ o \in Late /\ \E p \in Late \ {o} : Reserved(p)

RefusalInv ==
    /\ \A c \in Caller : calls[c].at = "answered" =>
        /\ calls[c].answer.code \in {"ok", "conflict"}
        /\ calls[c].answer.code = "conflict" => Lost(calls[c].orderId)
    /\ \A o \in OrderId : (Exists(o) /\ orders[o].failure) => Lost(o)

\* The order whose POST handler h may be working on
WorksOn(h, o) ==
    \/ h = Single /\ o = 1 /\ line \in {"ordered", "retried"}
    \/ h = Single /\ o = 2 /\ line = "accepted"
    \/ o \in Late /\ line = "burst" /\ orders[o].requestKey = h

HandlerInv ==
    /\ answers \in [Handler -> {0, 201, 409}]
    /\ \A h \in Handler : calls[h] # Idle =>
        answers[h] = 0 /\ WorksOn(h, calls[h].orderId)

Decided(o) == Exists(o) /\ orders[o].status # "RESERVING"

\* What an answer says of the order it is about
AnswerInv ==
    /\ (line = "ordered" /\ answers[Single] # 0) => answers[Single] = 201 /\ Decided(1)
    /\ line \notin Opening \cup {"ordered"} => Decided(1)
    /\ line = "retried" => answers[Single] \in {0, 201}
    /\ line = "conflict" => answers[Single] = 409
    /\ line = "accepted" => answers[Single] \in {0, 201} \/ Lost(2)
    /\ \A o \in Late : (Exists(o) /\ answers[orders[o].requestKey] # 0) =>
        Decided(o) /\ (answers[orders[o].requestKey] = 409 => Lost(o))
    /\ line \in {"counted", "delete"} => \A h \in Handler :
        answers[h] # 0 /\ \E o \in Late : Exists(o) /\ orders[o].requestKey = h

\* How far the kitchen is with order 1
KitchenInv ==
    /\ line \in {"ordered", "retry", "retried", "other", "conflict", "total",
                 "early", "paid"} => orders[1].status \notin {"CONFIRMED", "READY"}
    /\ line \in {"payment", "confirm"} => InStatus(1, "PAID")
    /\ line = "ready" => InStatus(1, "CONFIRMED")
    /\ line \in {"again", "inbox", "decline"} \cup Closing => InStatus(1, "READY")

FailureInv ==
    failed => line \in {"cancelled", "counted"} /\ (line = "cancelled" => Lost(2))

\* Until the restaurant is deleted
SmokeInv ==
    /\ failed \in BOOLEAN
    /\ FailureInv
    /\ line # "done" =>
        ScriptInv /\ ShopInv /\ RefusalInv /\ HandlerInv /\ AnswerInv /\ KitchenInv

-----------------------------------------------------------------------------
(* The script is a client of FoodHub                                         *)

LEMMA SingleHandles == Single \in Handler
BY SmokeAssumption DEF Single

\* Each POST is one a client may send, and is answered at once or handled.
LEMMA PostIsSubmit ==
    ASSUME NEW h \in Handler, NEW s \in Requests, Post(h, s)
    PROVE  OrderStep \/ UNCHANGED vars
<1>1. UNCHANGED <<catalogVars, paymentVars, bus, faults>>
  BY DEF Post
<1>2. CASE Conflicts(s)
  BY <1>1, <1>2 DEF Post, vars
<1>3. CASE ~Conflicts(s)
  <2>1. Submit(h)
    BY <1>3, SmokeAssumption DEF Post, Submit
  <2> QED BY <1>1, <2>1 DEF OrderStep
<1> QED BY <1>2, <1>3

LEMMA IdempotencyIsClient ==
    ASSUME Idempotency
    PROVE  [Next]_vars
<1>1. First \in Requests /\ OtherCart \in Requests
  BY DEF Requests
<1> QED BY <1>1, SingleHandles, PostIsSubmit DEF Idempotency, Answers, See, Next

LEMMA PatchIsClient ==
    ASSUME NEW status \in {"CONFIRMED", "READY"}, Patch(status)
    PROVE  [Next]_vars
<1>1. ASSUME Transition(1, status), UNCHANGED <<catalogVars, paymentVars, bus, faults>>
      PROVE  OrderStep
  BY <1>1, SmokeAssumption DEF OrderStep
<1> QED BY <1>1 DEF Patch, Next

LEMMA KitchenIsClient ==
    ASSUME Kitchen
    PROVE  [Next]_vars
BY PatchIsClient DEF Kitchen, See, Eventually

LEMMA DeclineIsClient ==
    ASSUME Decline
    PROVE  [Next]_vars
<1>1. Declined \in Requests
  BY DEF Requests
<1> QED BY <1>1, SingleHandles, PostIsSubmit DEF Decline, Answers, Eventually, Next

LEMMA BurstIsClient ==
    ASSUME Burst
    PROVE  [Next]_vars
<1>1. \A h \in Handler : LastPortion(h) \in Requests
  BY DEF Requests
<1> QED BY <1>1, PostIsSubmit DEF Burst, See, Next

\* What the administrator of the test does, an administrator may do.
LEMMA AdminIsClient ==
    ASSUME AddRestaurant \/ AddDishes \/ Delete
    PROVE  Next
<1>1. \A d \in Dish : Menu[d].priceVnd \in Price /\ Menu[d].stock \in NewStock
  BY SmokeAssumption
<1>2. "smoke" \in Restaurant
  BY SmokeAssumption
<1>3. Administer
  BY <1>1, <1>2
  DEF AddRestaurant, AddDishes, Delete, Administer, PutOnSale, TakeOffSale
<1> QED BY <1>3 DEF AddRestaurant, AddDishes, Delete, AdminStep, Next

LEMMA ServicesAreThere ==
    ASSUME Services
    PROVE  Next
<1>1. CASE FinishStep
  BY <1>1 DEF FinishStep, OrderStep, Next
<1> QED BY <1>1 DEF Services, Next

LEMMA ScriptStep ==
    ASSUME [Services \/ Script]_smokeVars
    PROVE  [Next]_vars
<1>1. CASE Services
  BY <1>1, ServicesAreThere
<1>2. CASE Script
  BY <1>2, IdempotencyIsClient, KitchenIsClient, DeclineIsClient, BurstIsClient,
     AdminIsClient DEF Script
<1>3. CASE UNCHANGED smokeVars
  BY <1>3 DEF smokeVars
<1> QED BY <1>1, <1>2, <1>3

\* Whatever the script and the services do together, the services do for some
\* client of theirs: all that is proved of FoodHub holds during the test.
THEOREM ScriptIsClient == SmokeSpec => Spec
<1>1. SmokeInit => Init
  BY DEF SmokeInit
<1>2. [Services \/ Script]_smokeVars => [Next]_vars
  BY ScriptStep
<1> QED BY <1>1, <1>2, PTL DEF SmokeSpec, Spec

-----------------------------------------------------------------------------
(* What is on the menu and in the carts                                      *)

LEMMA DishesOnMenu == Dish = {"rice", "soup", "last", "declined"}
BY SmokeAssumption DEF Menu

LEMMA FirstCart ==
    /\ First.restaurantId = "smoke" /\ First.paymentMethod = "demo_success"
    /\ First.userId = "customer" /\ First.requestKey = "key"
    /\ First.items["rice"] = 2 /\ First.items["soup"] = 1
    /\ First.items["last"] = 0 /\ First.items["declined"] = 0
BY DishesOnMenu DEF First, Checkout

LEMMA DeclinedCart ==
    /\ Declined.restaurantId = "smoke" /\ Declined.paymentMethod = "demo_failure"
    /\ Declined.userId = "customer" /\ Declined.requestKey = "declined"
    /\ Declined.items["rice"] = 0 /\ Declined.items["soup"] = 0
    /\ Declined.items["last"] = 0 /\ Declined.items["declined"] = 1
BY DishesOnMenu DEF Declined, Checkout

LEMMA LastCart ==
    ASSUME NEW h \in Handler
    PROVE  LET s == LastPortion(h) IN
           /\ s.restaurantId = "smoke" /\ s.paymentMethod = "demo_success"
           /\ s.userId = "customer" /\ s.requestKey = h
           /\ s.items["rice"] = 0 /\ s.items["soup"] = 0
           /\ s.items["last"] = 1 /\ s.items["declined"] = 0
BY DishesOnMenu DEF LastPortion, Checkout

\* A total is the sum over the four dishes.
LEMMA FourSum ==
    ASSUME NEW items \in [Dish -> Int], NEW prices \in [Dish -> Int]
    PROVE  Total(items, prices) =
            items["rice"] * prices["rice"] + items["soup"] * prices["soup"]
            + items["last"] * prices["last"] + items["declined"] * prices["declined"]
<1> DEFINE f == [d \in Dish |-> items[d] * prices[d]]
           Sum(S) == SumFunctionOnSet(f, S)
<1>1. DOMAIN f = Dish /\ IsFiniteSet(Dish)
  BY IdAssumption
<1>2. /\ f["rice"] = items["rice"] * prices["rice"]
      /\ f["soup"] = items["soup"] * prices["soup"]
      /\ f["last"] = items["last"] * prices["last"]
      /\ f["declined"] = items["declined"] * prices["declined"]
      /\ \A d \in Dish : f[d] \in Int
  BY DishesOnMenu
<1> HIDE DEF f
<1>3. Total(items, prices) = Sum(Dish)
  BY <1>1 DEF Total, SumFunction, f
<1> DEFINE D3 == {"soup", "last", "declined"}
           D2 == {"last", "declined"}
           D1 == {"declined"}
<1>4. IsFiniteSet(D3) /\ IsFiniteSet(D2) /\ IsFiniteSet(D1)
  BY <1>1, DishesOnMenu, FS_Subset
<1>5. Sum(Dish) = f["rice"] + Sum(D3)
  <2>1. Dish \ {"rice"} = D3
    BY DishesOnMenu
  <2> QED BY <1>1, <1>2, <2>1, DishesOnMenu, SumRemove
<1>6. Sum(D3) = f["soup"] + Sum(D2)
  <2>1. D3 \ {"soup"} = D2 /\ "soup" \in D3 /\ \A y \in D3 : f[y] \in Int
    BY <1>2, DishesOnMenu
  <2> QED BY <1>4, <2>1, SumRemove
<1>7. Sum(D2) = f["last"] + Sum(D1)
  <2>1. D2 \ {"last"} = D1 /\ "last" \in D2 /\ \A y \in D2 : f[y] \in Int
    BY <1>2, DishesOnMenu
  <2> QED BY <1>4, <2>1, SumRemove
<1>8. Sum(D1) = f["declined"] + 0
  <2>1. D1 \ {"declined"} = {} /\ "declined" \in D1 /\ \A y \in D1 : f[y] \in Int
    BY <1>2, DishesOnMenu
  <2> QED BY <1>4, <2>1, SumRemove, SumEmpty
<1>9. \A d \in Dish : f[d] \in Int
  BY <1>2
<1> HIDE DEF Sum
<1> QED BY <1>2, <1>3, <1>5, <1>6, <1>7, <1>8, <1>9, DishesOnMenu

-----------------------------------------------------------------------------
(* What the invariant says of the orders                                     *)

\* Every order is one of the script.
LEMMA OrdersOfScript ==
    ASSUME ScriptInv, NEW o \in OrderId, Exists(o)
    PROVE  /\ line \notin {"restaurant", "dishes"}
           /\ o = 1 => IsOrderOf(o, First)
           /\ o = 2 => IsOrderOf(o, Declined)
           /\ o \in Late => \E h \in Handler : IsOrderOf(o, LastPortion(h))
           /\ o = 1 \/ o = 2 \/ o \in Late
BY DEF ScriptInv, Late, Opening, Closing

LEMMA MethodOfOrder ==
    ASSUME ScriptInv, NEW o \in OrderId, Exists(o), o # 2
    PROVE  orders[o].paymentMethod = "demo_success"
<1>1. CASE o = 1
  BY <1>1, OrdersOfScript, FirstCart DEF IsOrderOf, SameCart
<1>2. ASSUME NEW h \in Handler, IsOrderOf(o, LastPortion(h))
      PROVE  orders[o].paymentMethod = "demo_success"
  BY <1>2, LastCart DEF IsOrderOf, SameCart
<1> QED BY <1>1, <1>2, OrdersOfScript

\* Only the declined checkout is cancelled without a failure, ...
LEMMA DeclinedOnly ==
    ASSUME IInv, ScriptInv, NEW o \in OrderId, Exists(o),
           orders[o].status = "CANCELLED", ~orders[o].failure
    PROVE  o = 2
<1>1. payments[o] # Null /\ payments[o].status = "FAILED"
  BY DEF IInv, RowInv, OrderInv
<1>2. orders[o].paymentMethod = "demo_failure"
  BY <1>1 DEF IInv, RowInv, PaymentAgrees
<1> QED BY <1>2, MethodOfOrder

\* ... so that only its portions are ever returned.
LEMMA ReturnedOnly ==
    ASSUME IInv, ScriptInv, NEW o \in OrderId, Reserved(o)
    PROVE  /\ Exists(o)
           /\ SameRequest(reservations[o], CartOf(o))
           /\ reservations[o].released => o = 2
<1>1. ReservationInv(o)
  BY DEF IInv, RowInv
<1> QED BY <1>1, DeclinedOnly DEF ReservationInv, Reserved

\* An order of the burst that is decided was bought, or lost the last portion.
LEMMA LateDecided ==
    ASSUME IInv, ScriptInv, RefusalInv, NEW o \in Late, Decided(o)
    PROVE  \/ Reserved(o) /\ ~orders[o].failure
           \/ Lost(o) /\ orders[o].failure
<1>1. o \in OrderId /\ o # 2 /\ o # 1 /\ Exists(o)
  BY DEF Late, Decided
<1>2. orders[o] \in Order
  BY <1>1 DEF IInv, TypeOK, OrdersTypeOK
<1>3. orders[o].failure => Lost(o)
  BY <1>1 DEF RefusalInv
<1>4. CASE orders[o].failure
  BY <1>3, <1>4
<1>5. CASE ~orders[o].failure
  <2>1. orders[o].status # "CANCELLED"
    BY <1>1, <1>5, DeclinedOnly
  <2>2. orders[o].status \in Bought
    BY <1>2, <2>1 DEF Decided, Order, Status, Bought
  <2>3. Reserved(o)
    BY <1>1, <2>2 DEF IInv, RowInv, OrderInv, Reserved
  <2> QED BY <1>5, <2>3
<1> QED BY <1>4, <1>5

\* Once decided, the first checkout is bought, for 22.
LEMMA FirstDecided ==
    ASSUME IInv, ScriptInv, ShopInv, RefusalInv, Decided(1)
    PROVE  /\ orders[1].status \in Bought
           /\ Reserved(1)
           /\ orders[1].totalVnd = 22
<1>1. 1 \in OrderId /\ Exists(1)
  BY SmokeAssumption DEF Decided
<1>2. orders[1] \in Order
  BY <1>1 DEF IInv, TypeOK, OrdersTypeOK
<1>3. ~orders[1].failure
  BY <1>1 DEF RefusalInv, Lost, Late
<1>4. orders[1].status # "CANCELLED"
  BY <1>1, <1>3, DeclinedOnly
<1>5. orders[1].status \in Bought
  BY <1>2, <1>4 DEF Decided, Order, Status, Bought
<1>6. Reserved(1) /\ orders[1].totalVnd = Total(orders[1].items, reservations[1].prices)
  BY <1>1, <1>5 DEF IInv, RowInv, OrderInv, Reserved
<1>7. orders[1].items = First.items
  BY <1>1, OrdersOfScript DEF IsOrderOf, SameCart
<1>8. reservations[1].prices =
            [d \in Dish |-> IF d \in Ordered(First) THEN Menu[d].priceVnd ELSE 0]
  BY <1>6 DEF ShopInv
<1>9. orders[1].items \in [Dish -> Int]
  <2>1. Quantity \cup {0} \subseteq Int
    BY DataAssumption
  <2> QED BY <1>2, <2>1 DEF Order, Items
<1>10. /\ reservations[1].prices \in [Dish -> Int]
       /\ reservations[1].prices["rice"] = 9 /\ reservations[1].prices["soup"] = 4
       /\ reservations[1].prices["last"] = 0 /\ reservations[1].prices["declined"] = 0
  BY <1>8, FirstCart, DishesOnMenu DEF Ordered, Menu
<1>11. orders[1].totalVnd = 2 * 9 + 1 * 4 + 0 * 0 + 0 * 0
  BY <1>6, <1>7, <1>9, <1>10, FourSum, FirstCart
<1> QED BY <1>5, <1>6, <1>11

-----------------------------------------------------------------------------
(* The shelf                                                                 *)

LEMMA SoldOfDish ==
    /\ Sold("rice") = IF Reserved(1) THEN 2 ELSE 0
    /\ Sold("soup") = IF Reserved(1) THEN 1 ELSE 0
    /\ Sold("declined") = IF Reserved(2) /\ ~reservations[2].released THEN 1 ELSE 0
    /\ Sold("last") = IF \E o \in Late : Reserved(o) THEN 1 ELSE 0
BY DEF Sold

LEMMA MenuOfDish ==
    /\ Menu["rice"].stock = 10 /\ Menu["rice"].priceVnd = 9
    /\ Menu["soup"].stock = 10 /\ Menu["soup"].priceVnd = 4
    /\ Menu["last"].stock = 1 /\ Menu["last"].priceVnd = 2
    /\ Menu["declined"].stock = 2 /\ Menu["declined"].priceVnd = 3
BY DEF Menu

\* What is on the menu is on sale.
LEMMA MenuOnSale ==
    ASSUME CatalogTypeOK, NEW d \in Dish, dishes[d] = OnMenu(d)
    PROVE  /\ OnSale(d)
           /\ dishes[d].restaurantId = "smoke"
           /\ dishes[d].priceVnd = Menu[d].priceVnd
           /\ dishes[d].stock = Menu[d].stock - Sold(d)
<1>1. Menu[d].priceVnd \in Price /\ "smoke" \in Restaurant
  BY SmokeAssumption
<1>2. Menu[d].stock - Sold(d) \in Nat
  BY DishesOnMenu, MenuOfDish, SoldOfDish
<1>3. OnMenu(d) \in DishRow
  BY <1>1, <1>2 DEF OnMenu, DishRow
<1>4. OnSale(d)
  BY <1>3, RowAssumption DEF OnSale
<1> QED BY <1>4 DEF OnMenu

\* The answer to a request for a reservation that was made.
LEMMA AskedAgain ==
    ASSUME IInv, ScriptInv, NEW o \in OrderId, Reserved(o)
    PROVE  /\ ~Reservable(o, CartOf(o))
           /\ ReserveAnswer(o, CartOf(o)).code \in {"ok", "conflict"}
           /\ ReserveAnswer(o, CartOf(o)).code = "conflict" => Lost(o)
<1>1. SameRequest(reservations[o], CartOf(o)) /\ (reservations[o].released => o = 2)
  BY ReturnedOnly
<1>2. ~Reservable(o, CartOf(o))
  BY DEF Reservable, Reserved
<1>3. ReserveAnswer(o, CartOf(o)) =
        IF ~reservations[o].released THEN Granted(reservations[o].prices)
        ELSE Refused("conflict")
  BY <1>1 DEF ReserveAnswer, Reserved
<1> QED BY <1>1, <1>2, <1>3 DEF Granted, Refused, Lost

\* The portions an order asks for
LEMMA CartOfScript ==
    ASSUME IInv, ScriptInv, NEW o \in OrderId, Exists(o)
    PROVE  LET cart == CartOf(o) IN
           /\ cart.restaurantId = "smoke"
           /\ cart.items \in [Dish -> Nat]
           /\ cart.items["rice"] = IF o = 1 THEN 2 ELSE 0
           /\ cart.items["soup"] = IF o = 1 THEN 1 ELSE 0
           /\ cart.items["declined"] = IF o = 2 THEN 1 ELSE 0
           /\ cart.items["last"] = IF o \in Late THEN 1 ELSE 0
           /\ o = 1 => cart.items = First.items
<1>1. CartOf(o).items \in [Dish -> Nat]
  <2>1. CartOf(o).items \in Items
    BY CartOfTyped DEF IInv, TypeOK
  <2>2. Quantity \cup {0} \subseteq Nat
    BY DataAssumption
  <2> QED BY <2>1, <2>2 DEF Items
<1>2. CASE o = 1
  BY <1>1, <1>2, OrdersOfScript, FirstCart DEF IsOrderOf, SameCart, CartOf, Late
<1>3. CASE o = 2
  BY <1>1, <1>3, OrdersOfScript, DeclinedCart DEF IsOrderOf, SameCart, CartOf, Late
<1>4. ASSUME NEW h \in Handler, o \in Late, IsOrderOf(o, LastPortion(h))
      PROVE  /\ CartOf(o).restaurantId = "smoke"
             /\ CartOf(o).items["rice"] = 0 /\ CartOf(o).items["soup"] = 0
             /\ CartOf(o).items["declined"] = 0 /\ CartOf(o).items["last"] = 1
             /\ o # 1 /\ o # 2
  BY <1>4, LastCart DEF IsOrderOf, SameCart, CartOf, Late
<1> QED BY <1>1, <1>2, <1>3, <1>4, OrdersOfScript

\* The last portion is another's.
LEMMA SoldOut ==
    ASSUME IInv, ScriptInv, ShopInv, NEW o \in Late, Exists(o), ~Reserved(o),
           NEW p \in Late, Reserved(p)
    PROVE  /\ ~Reservable(o, CartOf(o))
           /\ ReserveAnswer(o, CartOf(o)) = Refused("conflict")
           /\ Lost(o)
<1>1. o \in OrderId /\ CatalogTypeOK
  BY DEF Late, IInv, TypeOK
<1>2. "last" \in Dish /\ dishes["last"] = OnMenu("last")
  BY <1>1, DishesOnMenu, OrdersOfScript DEF ShopInv
<1>3. dishes["last"].stock = 0
  BY <1>1, <1>2, MenuOnSale, MenuOfDish, SoldOfDish
<1>4. CartOf(o).items["last"] = 1
  BY <1>1, CartOfScript
<1>5. "last" \in Ordered(CartOf(o)) /\ Unavailable(CartOf(o), "last")
  BY <1>2, <1>3, <1>4 DEF Ordered, Unavailable
<1>6. ~Overflows(CartOf(o))
  BY SmokeAssumption DEF Overflows
<1>7. ReserveAnswer(o, CartOf(o)) = Refused("conflict")
  BY <1>5, <1>6 DEF ReserveAnswer, Reserved
<1> QED BY <1>5, <1>7 DEF Reservable, Lost

\* What is there for an order that has no reservation yet
LEMMA InStock ==
    ASSUME IInv, ScriptInv, ShopInv, NEW o \in OrderId, Exists(o), ~Reserved(o),
           o \in Late => \A p \in Late : ~Reserved(p)
    PROVE  /\ Reservable(o, CartOf(o))
           /\ ReserveAnswer(o, CartOf(o)) = Granted(PricesNow(CartOf(o)))
           /\ \A d \in Dish : dishes[d] = OnMenu(d)
<1> DEFINE cart == CartOf(o)
           prices == PricesNow(cart)
<1>1. CatalogTypeOK
  BY DEF IInv, TypeOK
<1>2. \A d \in Dish : dishes[d] = OnMenu(d)
  BY OrdersOfScript DEF ShopInv
<1>3. /\ cart.restaurantId = "smoke" /\ cart.items \in [Dish -> Nat]
      /\ cart.items["rice"] = IF o = 1 THEN 2 ELSE 0
      /\ cart.items["soup"] = IF o = 1 THEN 1 ELSE 0
      /\ cart.items["declined"] = IF o = 2 THEN 1 ELSE 0
      /\ cart.items["last"] = IF o \in Late THEN 1 ELSE 0
  BY CartOfScript
<1>4. o \in Late => o # 1 /\ o # 2
  BY DEF Late
<1> HIDE DEF cart
<1>5. ASSUME NEW d \in Dish
      PROVE  ~Unavailable(cart, d) /\ dishes[d].priceVnd = Menu[d].priceVnd
  <2>1. /\ OnSale(d) /\ dishes[d].restaurantId = "smoke"
        /\ dishes[d].priceVnd = Menu[d].priceVnd
        /\ dishes[d].stock = Menu[d].stock - Sold(d)
    BY <1>1, <1>2, MenuOnSale
  <2>2. ~Reserved(o)
    BY DEF Reserved
  <2>3. cart.items[d] =< Menu[d].stock - Sold(d) /\ Menu[d].stock - Sold(d) \in Int
    BY <1>3, <1>4, <2>2, DishesOnMenu, MenuOfDish, SoldOfDish
  <2>4. ~(dishes[d].stock < cart.items[d])
    BY <1>3, <2>1, <2>3
  <2> QED BY <1>3, <2>1, <2>4 DEF Unavailable
<1>6. ~Overflows(cart)
  BY SmokeAssumption DEF Overflows
<1>7. \A d \in Dish : prices[d] = IF cart.items[d] > 0 THEN Menu[d].priceVnd ELSE 0
  BY <1>5 DEF PricesNow, Ordered
<1>8. prices \in [Dish -> Int] /\ cart.items \in [Dish -> Int]
  <2>1. \A d \in Dish : prices[d] \in Int
    BY <1>7, DishesOnMenu, MenuOfDish
  <2> QED BY <1>3, <2>1 DEF PricesNow
<1>9. Total(cart.items, prices) =< 22
  <2> HIDE DEF prices
  <2>1. Total(cart.items, prices) =
            cart.items["rice"] * prices["rice"] + cart.items["soup"] * prices["soup"]
            + cart.items["last"] * prices["last"]
            + cart.items["declined"] * prices["declined"]
    BY <1>8, FourSum
  <2>2. CASE o = 1
    <3>1. cart.items["last"] = 0 /\ cart.items["declined"] = 0
      BY <1>3, <1>4, <2>2
    <3> QED BY <1>3, <1>7, <2>1, <2>2, <3>1, DishesOnMenu, MenuOfDish
  <2>3. CASE o = 2
    <3>1. cart.items["last"] = 0 /\ cart.items["rice"] = 0 /\ cart.items["soup"] = 0
      BY <1>3, <1>4, <2>3
    <3> QED BY <1>3, <1>7, <2>1, <2>3, <3>1, DishesOnMenu, MenuOfDish
  <2>4. CASE o \in Late
    <3>1. /\ cart.items["rice"] = 0 /\ cart.items["soup"] = 0
          /\ cart.items["declined"] = 0
      BY <1>3, <1>4, <2>4
    <3> QED BY <1>3, <1>7, <2>1, <2>4, <3>1, DishesOnMenu, MenuOfDish
  <2> QED BY <2>2, <2>3, <2>4 DEF Late
<1>10. Total(cart.items, prices) =< MaxTotalVnd
  <2>1. Total(cart.items, prices) \in Int
    <3> HIDE DEF prices
    <3>1. \A d \in Dish : cart.items[d] \in Int /\ prices[d] \in Int
      BY <1>8
    <3> QED BY <1>8, <3>1, FourSum, DishesOnMenu
  <2> QED BY <1>9, <2>1, SmokeAssumption, DataAssumption
<1>11. Reservable(o, cart)
  BY <1>5, <1>10 DEF Reservable, Reserved, Ordered
<1>12. ReserveAnswer(o, cart) = Granted(prices)
  BY <1>5, <1>6, <1>11 DEF ReserveAnswer, Reserved, Ordered
<1> QED BY <1>2, <1>11, <1>12 DEF cart

\* A reservation is made: what is taken from the shelf is what is now sold.
LEMMA TakenFromShelf ==
    ASSUME IInv, ScriptInv, ShopInv, NEW o \in OrderId, Exists(o), ~Reserved(o),
           o \in Late => \A p \in Late : ~Reserved(p),
           Reserve(o, CartOf(o)), line' = line
    PROVE  ShopInv'
<1> DEFINE cart == CartOf(o)
           row == [restaurantId |-> cart.restaurantId, items |-> cart.items,
                   prices |-> PricesNow(cart), released |-> FALSE]
<1>1. CatalogTypeOK
  BY DEF IInv, TypeOK
<1>2. Reservable(o, cart) /\ \A d \in Dish : dishes[d] = OnMenu(d)
  BY InStock
<1>3. reservations' = [reservations EXCEPT ![o] = row]
  BY <1>2 DEF Reserve
<1>4. row # Null
  <2>1. PricesNow(cart) \in Prices
    BY <1>1, <1>2, PricesOfReservable
  <2>2. cart.items \in Items /\ cart.restaurantId \in Restaurant
    BY CartOfTyped DEF IInv, TypeOK
  <2>3. row \in Reservation
    BY <2>1, <2>2 DEF Reservation
  <2> QED BY <2>3, RowAssumption
<1>5. /\ reservations'[o] = row
      /\ \A p \in OrderId : p # o => reservations'[p] = reservations[p]
  BY <1>1, <1>3 DEF CatalogTypeOK
<1>6. \A p \in OrderId : Reserved(p)' <=> (Reserved(p) \/ p = o)
  BY <1>4, <1>5 DEF Reserved
<1>7. o = 1 \/ o = 2 \/ o \in Late
  BY DEF Late
<1>8. 1 \in OrderId /\ 2 \in OrderId /\ Late \subseteq OrderId
      /\ 1 \notin Late /\ 2 \notin Late
  BY SmokeAssumption DEF Late
<1>9. /\ cart.items \in [Dish -> Nat]
      /\ cart.items["rice"] = IF o = 1 THEN 2 ELSE 0
      /\ cart.items["soup"] = IF o = 1 THEN 1 ELSE 0
      /\ cart.items["declined"] = IF o = 2 THEN 1 ELSE 0
      /\ cart.items["last"] = IF o \in Late THEN 1 ELSE 0
  BY CartOfScript
<1>10. ~Reserved(o)
  OBVIOUS
<1>11. Sold("rice")' = IF Reserved(1)' THEN 2 ELSE 0
  BY DEF Sold
<1>12. Sold("soup")' = IF Reserved(1)' THEN 1 ELSE 0
  BY DEF Sold
<1>13. Sold("declined")' =
        IF Reserved(2)' /\ ~reservations'[2].released THEN 1 ELSE 0
  BY DEF Sold
<1>14. Sold("last")' = IF \E p \in Late : Reserved(p)' THEN 1 ELSE 0
  BY DEF Sold
<1>15. row.released = FALSE
  OBVIOUS
<1> HIDE DEF row, cart
<1>16. ASSUME NEW d \in Dish
       PROVE  Sold(d)' = Sold(d) + cart.items[d] /\ Sold(d) \in Int
  <2>1. CASE d = "rice"
    BY <1>6, <1>7, <1>8, <1>9, <1>10, <1>11, <2>1, SoldOfDish
  <2>2. CASE d = "soup"
    BY <1>6, <1>7, <1>8, <1>9, <1>10, <1>12, <2>2, SoldOfDish
  <2>3. CASE d = "declined"
    BY <1>5, <1>6, <1>7, <1>8, <1>9, <1>10, <1>13, <1>15, <2>3, SoldOfDish
  <2>4. CASE d = "last"
    BY <1>6, <1>7, <1>8, <1>9, <1>10, <1>14, <2>4, SoldOfDish
  <2> QED BY <2>1, <2>2, <2>3, <2>4, DishesOnMenu
<1>17. ASSUME NEW d \in Dish PROVE dishes'[d] = OnMenu(d)'
  <2>1. dishes'[d] = IF d \in Ordered(cart)
                     THEN [dishes[d] EXCEPT !.stock = @ - cart.items[d]] ELSE dishes[d]
    BY <1>2 DEF Reserve, cart
  <2>2. Menu[d].stock \in Int /\ cart.items[d] \in Nat
    BY <1>9, DishesOnMenu, MenuOfDish
  <2>3. OnMenu(d)' = [restaurantId |-> "smoke", priceVnd |-> Menu[d].priceVnd,
                      stock |-> Menu[d].stock - Sold(d)']
    BY DEF OnMenu
  <2>4. Menu[d].stock - Sold(d)' = (Menu[d].stock - Sold(d)) - cart.items[d]
    BY <1>16, <2>2
  <2>5. d \notin Ordered(cart) => cart.items[d] = 0
    BY <2>2 DEF Ordered
  <2>6. CASE d \in Ordered(cart)
    <3>1. dishes'[d] = [dishes[d] EXCEPT !.stock = @ - cart.items[d]]
      BY <2>1, <2>6
    <3>2. dishes[d] = [restaurantId |-> "smoke", priceVnd |-> Menu[d].priceVnd,
                       stock |-> Menu[d].stock - Sold(d)]
      BY <1>2 DEF OnMenu
    <3>3. dishes'[d] = [restaurantId |-> "smoke", priceVnd |-> Menu[d].priceVnd,
                        stock |-> (Menu[d].stock - Sold(d)) - cart.items[d]]
      BY <3>1, <3>2
    <3> QED BY <2>3, <2>4, <3>3
  <2>7. CASE d \notin Ordered(cart)
    <3>1. Menu[d].stock - Sold(d)' = Menu[d].stock - Sold(d)
      BY <1>16, <2>2, <2>5, <2>7
    <3> QED BY <1>2, <2>1, <2>3, <2>7, <3>1 DEF OnMenu
  <2> QED BY <2>6, <2>7
<1>18. \A p, q \in Late : Reserved(p)' /\ Reserved(q)' => p = q
  BY <1>6, <1>8 DEF ShopInv
<1>19. Reserved(1)' => reservations'[1].prices =
            [d \in Dish |-> IF d \in Ordered(First) THEN Menu[d].priceVnd ELSE 0]
  <2>1. CASE o = 1
    <3>1. Ordered(cart) = Ordered(First)
      BY <2>1, CartOfScript DEF Ordered, cart
    <3>2. \A d \in Dish : dishes[d].priceVnd = Menu[d].priceVnd
      BY <1>1, <1>2, MenuOnSale
    <3>3. PricesNow(cart) =
            [d \in Dish |-> IF d \in Ordered(First) THEN Menu[d].priceVnd ELSE 0]
      BY <3>1, <3>2 DEF PricesNow
    <3> QED BY <1>5, <2>1, <3>3 DEF row
  <2>2. CASE o # 1
    BY <1>5, <1>6, <1>8, <2>2 DEF ShopInv
  <2> QED BY <2>1, <2>2
<1> QED BY <1>17, <1>18, <1>19 DEF ShopInv

\* The portion of the declined checkout goes back.
LEMMA ReturnedToShelf ==
    ASSUME IInv, ScriptInv, ShopInv, Release(2), line' = line
    PROVE  ShopInv'
<1> DEFINE items == reservations[2].items
<1>1. CatalogTypeOK /\ 2 \in OrderId /\ 1 \in OrderId
  BY SmokeAssumption DEF IInv, TypeOK
<1>2. Reserved(2) /\ ~reservations[2].released
  BY DEF Release, Reserved
<1>3. Exists(2) /\ items = CartOf(2).items
  BY <1>1, <1>2, ReturnedOnly DEF SameRequest
<1>4. \A d \in Dish : dishes[d] = OnMenu(d)
  BY <1>1, <1>3, OrdersOfScript DEF ShopInv
<1>5. /\ items \in [Dish -> Nat]
      /\ items["rice"] = 0 /\ items["soup"] = 0
      /\ items["declined"] = 1 /\ items["last"] = 0
  BY <1>1, <1>3, CartOfScript DEF Late
<1>6. reservations[2] \in Reservation
  BY <1>1, <1>2 DEF CatalogTypeOK, Reserved
<1>7. /\ reservations'[2] = [reservations[2] EXCEPT !.released = TRUE]
      /\ \A p \in OrderId : p # 2 => reservations'[p] = reservations[p]
  BY <1>1 DEF Release, CatalogTypeOK
<1>8. reservations'[2] \in Reservation /\ reservations'[2].released = TRUE
  BY <1>6, <1>7 DEF Reservation
<1>9. \A p \in OrderId : Reserved(p)' <=> Reserved(p)
  BY <1>2, <1>7, <1>8, RowAssumption DEF Reserved
<1>10. Late \subseteq OrderId
  BY DEF Late
<1>11. Sold("rice")' = IF Reserved(1)' THEN 2 ELSE 0
  BY DEF Sold
<1>12. Sold("soup")' = IF Reserved(1)' THEN 1 ELSE 0
  BY DEF Sold
<1>13. Sold("declined")' =
        IF Reserved(2)' /\ ~reservations'[2].released THEN 1 ELSE 0
  BY DEF Sold
<1>14. Sold("last")' = IF \E p \in Late : Reserved(p)' THEN 1 ELSE 0
  BY DEF Sold
<1> HIDE DEF items
<1>15. ASSUME NEW d \in Dish
       PROVE  Sold(d)' = Sold(d) - items[d] /\ Sold(d) \in Int
  <2>1. CASE d = "rice"
    BY <1>1, <1>5, <1>9, <1>11, <2>1, SoldOfDish
  <2>2. CASE d = "soup"
    BY <1>1, <1>5, <1>9, <1>12, <2>2, SoldOfDish
  <2>3. CASE d = "declined"
    BY <1>2, <1>5, <1>8, <1>13, <2>3, SoldOfDish
  <2>4. CASE d = "last"
    BY <1>5, <1>9, <1>10, <1>14, <2>4, SoldOfDish
  <2> QED BY <2>1, <2>2, <2>3, <2>4, DishesOnMenu
<1>16. ASSUME NEW d \in Dish PROVE dishes'[d] = OnMenu(d)'
  <2>1. OnSale(d)
    BY <1>1, <1>4, MenuOnSale
  <2>2. dishes'[d] = [dishes[d] EXCEPT !.stock = @ + items[d]]
    BY <2>1 DEF Release, items
  <2>3. dishes[d] = [restaurantId |-> "smoke", priceVnd |-> Menu[d].priceVnd,
                     stock |-> Menu[d].stock - Sold(d)]
    BY <1>4 DEF OnMenu
  <2>4. dishes'[d] = [restaurantId |-> "smoke", priceVnd |-> Menu[d].priceVnd,
                      stock |-> (Menu[d].stock - Sold(d)) + items[d]]
    BY <2>2, <2>3
  <2>5. Menu[d].stock \in Int /\ items[d] \in Nat
    BY <1>5, DishesOnMenu, MenuOfDish
  <2>6. Menu[d].stock - Sold(d)' = (Menu[d].stock - Sold(d)) + items[d]
    BY <1>15, <2>5
  <2> QED BY <2>4, <2>6 DEF OnMenu
<1>17. \A p, q \in Late : Reserved(p)' /\ Reserved(q)' => p = q
  BY <1>9, <1>10 DEF ShopInv
<1>18. Reserved(1)' => reservations'[1].prices =
            [d \in Dish |-> IF d \in Ordered(First) THEN Menu[d].priceVnd ELSE 0]
  BY <1>1, <1>7, <1>9 DEF ShopInv
<1> QED BY <1>16, <1>17, <1>18 DEF ShopInv

-----------------------------------------------------------------------------
(* What the services do between two lines of the script                      *)

\* A reservation is never taken back, nor is the return of one.
OnRecord ==
    \A o \in OrderId : Reserved(o) =>
        /\ Reserved(o)'
        /\ reservations[o].released => reservations'[o].released

LEMMA LostForGood ==
    ASSUME OnRecord
    PROVE  \A o \in OrderId : Lost(o) => Lost(o)'
BY SmokeAssumption DEF OnRecord, Lost, Late

\* The restaurant serves the request for an order.
LEMMA Served ==
    ASSUME IInv, ScriptInv, ShopInv, NEW o \in OrderId, Exists(o),
           Reserve(o, CartOf(o)), line' = line
    PROVE  /\ ShopInv' /\ OnRecord
           /\ ReserveAnswer(o, CartOf(o)).code \in {"ok", "conflict"}
           /\ ReserveAnswer(o, CartOf(o)).code = "conflict" => Lost(o)
<1>1. OnRecord
  <2>1. CatalogTypeOK
    BY DEF IInv, TypeOK
  <2> QED BY <2>1, ReserveEffect DEF OnRecord, Reserved
<1>2. ~Reservable(o, CartOf(o)) => UNCHANGED <<dishes, reservations>>
  BY DEF Reserve
<1>3. UNCHANGED <<dishes, reservations>> => ShopInv'
  BY DEF ShopInv, OnMenu, Sold, Reserved
<1>4. CASE Reserved(o)
  BY <1>1, <1>2, <1>3, <1>4, AskedAgain
<1>5. ASSUME ~Reserved(o), o \in Late, NEW p \in Late, Reserved(p)
      PROVE  /\ ~Reservable(o, CartOf(o)) /\ Lost(o)
             /\ ReserveAnswer(o, CartOf(o)).code = "conflict"
  BY <1>5, SoldOut DEF Refused
<1>6. CASE ~Reserved(o) /\ o \in Late /\ \E p \in Late : Reserved(p)
  BY <1>1, <1>2, <1>3, <1>5, <1>6
<1>7. CASE ~Reserved(o) /\ (o \in Late => \A p \in Late : ~Reserved(p))
  <2>1. ReserveAnswer(o, CartOf(o)).code = "ok"
    BY <1>7, InStock DEF Granted
  <2> QED BY <1>1, <1>7, <2>1, TakenFromShelf
<1> QED BY <1>4, <1>6, <1>7

\* An order stays the same request.
RequestKept(o) ==
    /\ Exists(o)' <=> Exists(o)
    /\ Exists(o) =>
        /\ orders'[o].userId = orders[o].userId
        /\ orders'[o].requestKey = orders[o].requestKey
        /\ orders'[o].restaurantId = orders[o].restaurantId
        /\ orders'[o].items = orders[o].items
        /\ orders'[o].paymentMethod = orders[o].paymentMethod

\* What a step of the services may do to an order besides: a decision is final,
\* the kitchen waits for the script, and only the refusal of a lost order is
\* recorded.
OrderKept(o) ==
    /\ RequestKept(o)
    /\ Exists(o) =>
        /\ orders[o].status # "RESERVING" => orders'[o].status # "RESERVING"
        /\ orders[o].status \in {"PAID", "CONFIRMED", "READY"} =>
            orders'[o].status = orders[o].status
        /\ orders'[o].status \in {"CONFIRMED", "READY"} =>
            orders'[o].status = orders[o].status
        /\ orders'[o].failure => orders[o].failure \/ Lost(o)

LEMMA ServicesKeep ==
    ASSUME IInv, RefusalInv, Services, NEW o \in OrderId
    PROVE  OrderKept(o)
<1> USE DEF OrderKept, RequestKept
<1>1. /\ orders \in [OrderId -> Order \cup {Null}]
      /\ orders[o] # Null => orders[o] \in Order
      /\ \A row \in Order : row # Null
  BY OrderRowAssumption DEF IInv, TypeOK, OrdersTypeOK
<1>2. CASE UNCHANGED orders
  BY <1>2
<1>3. ASSUME NEW c \in Caller, FinishRefused(c)
      PROVE  OrderKept(o)
  <2>1. calls[c].orderId \in OrderId /\ Lost(calls[c].orderId)
    <3>1. calls[c].orderId \in OrderId
      BY <1>3 DEF FinishRefused, IInv, UnderWay, CallInv
    <3> QED BY <1>3, <3>1 DEF FinishRefused, RefusalInv
  <2>2. CASE o = calls[c].orderId /\ InStatus(o, "RESERVING")
    <3>1. orders'[o] = [orders[o] EXCEPT !.status = "CANCELLED", !.failure = TRUE]
      BY <1>1, <1>3, <2>2 DEF FinishRefused
    <3>2. orders'[o] \in Order
      BY <1>1, <2>2, <3>1 DEF Order, Status
    <3> QED BY <1>1, <2>1, <2>2, <3>1, <3>2 DEF Order
  <2>3. CASE ~(o = calls[c].orderId /\ InStatus(o, "RESERVING"))
    <3>1. orders'[o] = orders[o]
      BY <1>1, <1>3, <2>1, <2>3 DEF FinishRefused
    <3> QED BY <3>1
  <2> QED BY <2>2, <2>3
<1>4. ASSUME NEW c \in Caller, FinishCommit(c)
      PROVE  OrderKept(o)
  <2>1. CASE o = calls[c].orderId /\ InStatus(o, "RESERVING")
    <3>1. orders'[o] = [orders[o] EXCEPT !.status = "PENDING",
                !.totalVnd = Total(orders[o].items, calls[c].answer.prices),
                !.prices = calls[c].answer.prices]
      BY <1>1, <1>4, <2>1 DEF FinishCommit, Priced
    <3>2. orders'[o] # Null
      <4>1. orders'[o] \in Order
        <5>1. calls[c].answer.prices \in Prices
          BY <1>4 DEF FinishCommit, IInv, TypeOK, OrdersTypeOK, UnderWay, CallInv,
             Call, Answer
        <5>2. Total(orders[o].items, calls[c].answer.prices) \in Amount
          BY <1>1, <2>1, <5>1, TotalInAmount DEF Order
        <5> QED BY <1>1, <2>1, <3>1, <5>1, <5>2 DEF Order, Status
      <4> QED BY <1>1, <4>1
    <3> QED BY <1>1, <2>1, <3>1, <3>2 DEF Order
  <2>2. CASE ~(o = calls[c].orderId /\ InStatus(o, "RESERVING"))
    <3>1. orders'[o] = orders[o]
      BY <1>1, <1>4, <2>2 DEF FinishCommit, Priced
    <3> QED BY <3>1
  <2> QED BY <2>1, <2>2
<1>5. ASSUME NEW p \in OrderId, NEW succeeded, PaymentResult(p, succeeded)
      PROVE  OrderKept(o)
  <2>1. CASE o = p
    <3>1. InStatus(o, "PENDING") /\ \E status \in {"PAID", "CANCELLED"} :
            orders'[o] = [orders[o] EXCEPT !.status = status]
      BY <1>1, <1>5, <2>1 DEF PaymentResult
    <3>2. PICK status \in {"PAID", "CANCELLED"} :
            orders'[o] = [orders[o] EXCEPT !.status = status]
      BY <3>1
    <3>3. orders'[o] \in Order
      BY <1>1, <3>1, <3>2 DEF Order, Status
    <3> QED BY <1>1, <3>1, <3>2, <3>3 DEF Order
  <2>2. CASE o # p
    <3>1. orders'[o] = orders[o]
      BY <1>1, <1>5, <2>2 DEF PaymentResult
    <3> QED BY <3>1
  <2> QED BY <2>1, <2>2
<1>6. CASE FinishStep
  BY <1>2, <1>3, <1>4, <1>6 DEF FinishStep, FinishRead, FinishReturns,
     FinishUnavailable, RecoverTick, RecoverNext
<1>7. CASE \E c \in Caller : RestaurantAnswers(c)
  BY <1>2, <1>7 DEF RestaurantAnswers, FinishAnswered
<1>8. CASE Publish
  BY <1>2, <1>8 DEF Publish, PublishOrder, PublishPayment, orderVars
<1>9. CASE Consume
  <2>1. ASSUME NEW e \in bus, OrderConsumes(e)
        PROVE  OrderKept(o)
    <3>1. e.orderId \in OrderId
      BY <2>1 DEF IInv, TypeOK, OrderEvent, PaymentEvent
    <3> QED BY <1>5, <2>1, <3>1 DEF OrderConsumes
  <2> QED BY <1>2, <1>9, <2>1
      DEF Consume, PaymentConsumes, RestaurantConsumes, orderVars
<1> QED BY <1>6, <1>7, <1>8, <1>9 DEF Services

\* What a step of the services may do to a call: an answer that arrives is no
\* failure, and is a refusal only for an order that is lost; a handler starts
\* nothing of its own, and ends with a decision.
CallKept(c) ==
    /\ calls'[c].at = "answered" =>
        \/ calls'[c] = calls[c]
        \/ /\ calls'[c].answer.code \in {"ok", "conflict"}
           /\ calls'[c].answer.code = "conflict" => Lost(calls'[c].orderId)
    /\ c \in Handler =>
        /\ calls'[c] # Idle =>
            calls[c] # Idle /\ calls'[c].orderId = calls[c].orderId
        /\ (calls[c] # Idle /\ calls'[c] = Idle) =>
            /\ \A o \in OrderId : calls[c].orderId = o => Decided(o)'
            /\ StatusOf(c) \in {201, 409}
            /\ StatusOf(c) = 409 => Lost(calls[c].orderId)

\* A call that ends with a decided order, and with the refusal of a lost one.
LEMMA CallEnds ==
    ASSUME IInv, RefusalInv, NEW c \in Caller, calls'[c] = Idle,
           NEW o \in OrderId, calls[c].orderId = o, Decided(o)'
    PROVE  CallKept(c)
<1>1. /\ StatusOf(c) \in {201, 409}
      /\ StatusOf(c) = 409 => Lost(calls[c].orderId)
  BY DEF RefusalInv, StatusOf
<1> QED BY <1>1 DEF CallKept, Idle

LEMMA ServicesKeepCalls ==
    ASSUME IInv, ScriptInv, ShopInv, RefusalInv, Services, NEW c \in Caller
    PROVE  CallKept(c)
<1>1. /\ calls \in [Caller -> Call]
      /\ \A a \in Caller : calls[a].at # "idle" =>
            calls[a].orderId \in OrderId /\ Exists(calls[a].orderId)
  BY DEF IInv, TypeOK, OrdersTypeOK, UnderWay, CallInv
<1>2. CASE calls'[c] = calls[c]
  BY <1>2 DEF CallKept
<1>3. ASSUME NEW a \in Caller, NEW call, calls' = [calls EXCEPT ![a] = call], a # c
      PROVE  CallKept(c)
  BY <1>1, <1>2, <1>3
<1>4. ASSUME FinishRead(c)
      PROVE  CallKept(c)
  <2>1. CASE InStatus(calls[c].orderId, "RESERVING")
    <3>1. calls'[c] = Posting(calls[c].orderId)
      BY <1>1, <1>4, <2>1 DEF FinishRead
    <3> QED BY <1>4, <3>1 DEF FinishRead, CallKept, Posting, Idle
  <2>2. CASE ~InStatus(calls[c].orderId, "RESERVING")
    <3>1. calls'[c] = Idle /\ UNCHANGED orders
      BY <1>1, <1>4, <2>2 DEF FinishRead
    <3>2. PICK o \in OrderId : calls[c].orderId = o /\ Exists(o)
      BY <1>1, <1>4 DEF FinishRead
    <3>3. Decided(o)'
      BY <2>2, <3>1, <3>2 DEF Decided
    <3> QED BY <3>1, <3>2, <3>3, CallEnds
  <2> QED BY <2>1, <2>2
<1>5. ASSUME FinishReturns(c)
      PROVE  CallKept(c)
  <2>1. calls'[c] = Idle /\ calls[c].answer.code \in {"ok", "conflict"}
    BY <1>1, <1>5 DEF FinishReturns, FinishRefused, FinishUnavailable, FinishCommit,
       RefusalInv
  <2>2. PICK o \in OrderId : calls[c].orderId = o /\ Exists(o)
    BY <1>1, <1>5 DEF FinishReturns, FinishRefused, FinishUnavailable, FinishCommit
  <2>3. orders \in [OrderId -> Order \cup {Null}] /\ orders[o] \in Order
    BY <2>2 DEF IInv, TypeOK, OrdersTypeOK
  <2>4. orders'[o] # Null
    BY <2>2, ServicesKeep DEF OrderKept, RequestKept
  <2>5. ASSUME FinishRefused(c)
        PROVE  orders'[o].status # "RESERVING"
    BY <2>2, <2>3, <2>4, <2>5 DEF FinishRefused, Order
  <2>6. ASSUME FinishCommit(c)
        PROVE  orders'[o].status # "RESERVING"
    BY <2>2, <2>3, <2>4, <2>6 DEF FinishCommit, Priced, Order
  <2>7. orders'[o].status # "RESERVING"
    BY <1>5, <2>1, <2>5, <2>6 DEF FinishReturns, FinishUnavailable
  <2> QED BY <2>1, <2>2, <2>4, <2>7, CallEnds DEF Decided
<1>6. ASSUME NEW r \in Recoverer, RecoverTick(r) \/ RecoverNext(r)
      PROVE  CallKept(c)
  <2>1. CASE RecoverTick(r)
    BY <1>2, <2>1 DEF RecoverTick
  <2>2. CASE RecoverNext(r)
    <3>1. PICK o \in batch[r] : calls' = [calls EXCEPT ![r] = Finishing(o)]
      BY <2>2 DEF RecoverNext
    <3>2. CASE r = c
      <4>1. c \notin Handler /\ calls'[c] = Finishing(o)
        BY <1>1, <3>1, <3>2, OrdersAssumption
      <4> QED BY <4>1 DEF CallKept, Finishing
    <3>3. CASE r # c
      BY <1>3, <3>1, <3>3 DEF Caller
    <3> QED BY <3>2, <3>3
  <2> QED BY <1>6, <2>1, <2>2
<1>7. ASSUME RestaurantAnswers(c)
      PROVE  CallKept(c)
  <2> DEFINE o == calls[c].orderId
             answer == ReserveAnswer(o, CartOf(o))
  <2>1. o \in OrderId /\ Exists(o) /\ calls[c].at = "posted"
    BY <1>1, <1>7 DEF RestaurantAnswers
  <2>2. Reserve(o, CartOf(o)) /\ line' = line
    BY <1>7 DEF RestaurantAnswers, Services
  <2>3. answer.code \in {"ok", "conflict"} /\ (answer.code = "conflict" => Lost(o))
    BY <2>1, <2>2, Served
  <2>4. calls'[c] = Answered(o, answer)
    BY <1>1, <1>7 DEF RestaurantAnswers, FinishAnswered
  <2> HIDE DEF o, answer
  <2>5. calls'[c].orderId = o /\ calls'[c].answer = answer /\ calls'[c].at = "answered"
    BY <2>4 DEF Answered
  <2>6. calls'[c] # Idle /\ calls[c] # Idle
    BY <2>1, <2>5 DEF Idle
  <2> QED BY <2>3, <2>5, <2>6 DEF CallKept, o
<1>8. ASSUME NEW a \in Caller, a # c,
             FinishRead(a) \/ FinishReturns(a) \/ RestaurantAnswers(a)
      PROVE  CallKept(c)
  <2>1. \E call : calls' = [calls EXCEPT ![a] = call]
    BY <1>8 DEF FinishRead, FinishReturns, FinishRefused, FinishUnavailable,
       FinishCommit, RestaurantAnswers, FinishAnswered
  <2> QED BY <1>3, <1>8, <2>1
<1>9. CASE FinishStep
  BY <1>4, <1>5, <1>6, <1>8, <1>9 DEF FinishStep
<1>10. CASE \E a \in Caller : RestaurantAnswers(a)
  BY <1>7, <1>8, <1>10
<1>11. CASE Publish \/ Consume
  BY <1>2, <1>11 DEF Publish, PublishOrder, PublishPayment, Consume, orderVars,
     PaymentConsumes, OrderConsumes, PaymentResult, RestaurantConsumes
<1> QED BY <1>9, <1>10, <1>11 DEF Services

LEMMA ServicesKeepShop ==
    ASSUME IInv, ScriptInv, ShopInv, Services
    PROVE  ShopInv' /\ OnRecord
<1>1. line' = line
  BY DEF Services
<1>2. ASSUME UNCHANGED <<dishes, reservations>>
      PROVE  ShopInv' /\ OnRecord
  <2>1. ShopInv'
    BY <1>1, <1>2 DEF ShopInv, OnMenu, Sold, Reserved
  <2> QED BY <1>2, <2>1 DEF OnRecord, Reserved
<1>3. CASE FinishStep \/ Publish
  BY <1>2, <1>3 DEF FinishStep, Publish, PublishOrder, PublishPayment, catalogVars
<1>4. ASSUME NEW c \in Caller, RestaurantAnswers(c)
      PROVE  ShopInv' /\ OnRecord
  <2>1. PICK o \in OrderId : calls[c].orderId = o /\ Exists(o)
    BY <1>4 DEF RestaurantAnswers, IInv, UnderWay, CallInv
  <2>2. Reserve(o, CartOf(o))
    BY <1>4, <2>1 DEF RestaurantAnswers
  <2> QED BY <1>1, <2>1, <2>2, Served
<1>5. ASSUME NEW e \in bus, RestaurantConsumes(e)
      PROVE  ShopInv' /\ OnRecord
  <2>1. e \in outbox \cup paymentOutbox
    BY DEF IInv, EventsInv
  <2>2. PICK o \in OrderId : e.orderId = o
    BY <2>1 DEF IInv, EventsInv, EventInv
  <2>3. Announced(o, "order.cancelled")
    BY <1>5, <2>1, <2>2 DEF RestaurantConsumes, Announced
  <2>4. FactsAnnounced(o)
    BY DEF IInv, EventsInv, OneEventPerFact
  <2>5. o = 2
    BY <2>3, <2>4, DeclinedOnly DEF FactsAnnounced
  <2>6. Release(2)
    BY <1>5, <2>2, <2>5 DEF RestaurantConsumes
  <2>7. OnRecord
    <3>1. CatalogTypeOK /\ 2 \in OrderId
      BY <2>5 DEF IInv, TypeOK
    <3>2. \A p \in OrderId : p # 2 => reservations'[p] = reservations[p]
      BY <2>6, <3>1 DEF Release, CatalogTypeOK
    <3>3. /\ reservations[2] \in Reservation
          /\ reservations'[2] = [reservations[2] EXCEPT !.released = TRUE]
      BY <2>6, <3>1 DEF Release, CatalogTypeOK
    <3>4. reservations'[2] \in Reservation /\ reservations'[2].released
      BY <3>3 DEF Reservation
    <3> QED BY <3>2, <3>4, RowAssumption DEF OnRecord, Reserved
  <2> QED BY <1>1, <2>6, <2>7, ReturnedToShelf
<1>6. CASE Consume
  BY <1>2, <1>5, <1>6 DEF Consume, PaymentConsumes, OrderConsumes, catalogVars
<1> QED BY <1>3, <1>4, <1>6 DEF Services

\* No order more or less is expected at the next line.
SameOrders ==
    /\ line' \in Opening <=> line \in Opening
    /\ line' \in Closing <=> line \in Closing
    /\ line \in {"burst", "counted", "delete"} => line' \in {"burst", "counted", "delete"}

LEMMA ScriptInvKept ==
    ASSUME ScriptInv, SameOrders, \A o \in OrderId : RequestKept(o)
    PROVE  ScriptInv'
<1>1. /\ 1 \in OrderId /\ 2 \in OrderId /\ Late \subseteq OrderId
  BY SmokeAssumption DEF Late
<1>2. \A o \in OrderId : Exists(o)' <=> Exists(o)
  BY DEF RequestKept
<1>3. Exists(1)' => IsOrderOf(1, First)'
  BY <1>1, <1>2 DEF ScriptInv, RequestKept, IsOrderOf, SameKey, SameCart, First, Checkout
<1>4. Exists(2)' => IsOrderOf(2, Declined)'
  BY <1>1, <1>2 DEF ScriptInv, RequestKept, IsOrderOf, SameKey, SameCart, Declined, Checkout
<1>5. ASSUME NEW o \in Late, Exists(o)'
      PROVE  /\ line' \in {"burst", "counted", "delete"}
             /\ \E h \in Handler : IsOrderOf(o, LastPortion(h))'
  <2>1. Exists(o) /\ o \in OrderId
    BY <1>1, <1>2, <1>5
  <2>2. PICK h \in Handler : IsOrderOf(o, LastPortion(h))
    BY <2>1 DEF ScriptInv
  <2>3. IsOrderOf(o, LastPortion(h))'
    BY <2>1, <2>2 DEF RequestKept, IsOrderOf, SameKey, SameCart, LastPortion, Checkout
  <2> QED BY <2>1, <2>3 DEF ScriptInv, SameOrders
<1>6. \A o, p \in Late :
        (Exists(o)' /\ Exists(p)' /\ orders'[o].requestKey = orders'[p].requestKey)
            => o = p
  BY <1>1, <1>2 DEF ScriptInv, RequestKept
<1> QED BY <1>1, <1>2, <1>3, <1>4, <1>5, <1>6 DEF ScriptInv, SameOrders

LEMMA ServicesRefusalInv ==
    ASSUME IInv, IInv', RefusalInv, OnRecord,
           \A o \in OrderId : OrderKept(o), \A c \in Caller : CallKept(c)
    PROVE  RefusalInv'
<1>1. \A o \in OrderId : Lost(o) => Lost(o)'
  BY LostForGood
<1>2. ASSUME NEW c \in Caller, calls'[c].at = "answered"
      PROVE  /\ calls'[c].answer.code \in {"ok", "conflict"}
             /\ \A o \in OrderId :
                (calls'[c].answer.code = "conflict" /\ o = calls'[c].orderId) => Lost(o)
  BY <1>2 DEF CallKept, RefusalInv
<1>3. ASSUME NEW c \in Caller, calls'[c].at = "answered",
             calls'[c].answer.code = "conflict"
      PROVE  Lost(calls[c].orderId)'
  <2>1. PICK o \in OrderId : o = calls'[c].orderId
    BY <1>3 DEF IInv, UnderWay, CallInv
  <2> QED BY <1>1, <1>2, <1>3, <2>1
<1>4. ASSUME NEW o \in OrderId, Exists(o)', orders'[o].failure
      PROVE  Lost(o)'
  <2>1. Lost(o)
    BY <1>4 DEF OrderKept, RequestKept, RefusalInv
  <2> QED BY <1>1, <2>1
<1> QED BY <1>2, <1>3, <1>4 DEF RefusalInv

\* What the handlers have answered after a step of the services
AnswersKept ==
    answers' = [h \in Handler |->
        IF calls[h] # Idle /\ calls'[h] = Idle THEN StatusOf(h) ELSE answers[h]]

\* A handler that ends has decided the one order it works on.
LEMMA HandlerEnds ==
    ASSUME IInv, HandlerInv, AnswersKept, NEW h \in Handler, CallKept(h),
           answers'[h] # answers[h]
    PROVE  \E o \in OrderId :
            /\ WorksOn(h, o) /\ Decided(o)'
            /\ answers'[h] \in {201, 409}
            /\ answers'[h] = 409 => Lost(o)
<1>1. calls[h] # Idle /\ calls'[h] = Idle /\ answers'[h] = StatusOf(h)
  BY DEF AnswersKept
<1>2. calls[h].at # "idle"
  BY <1>1 DEF IInv, UnderWay, CallInv, Caller
<1>3. PICK o \in OrderId : o = calls[h].orderId
  BY <1>2 DEF IInv, UnderWay, CallInv, Caller
<1> QED BY <1>1, <1>3 DEF CallKept, HandlerInv

LEMMA ServicesHandlerInv ==
    ASSUME IInv, IInv', ScriptInv, HandlerInv, AnswersKept, line' = line,
           \A o \in OrderId : OrderKept(o), \A c \in Caller : CallKept(c)
    PROVE  HandlerInv'
<1>1. Handler \subseteq Caller
  BY DEF Caller
<1>2. answers' \in [Handler -> {0, 201, 409}]
  <2>1. \A h \in Handler : answers'[h] \in {0, 201, 409}
    BY <1>1, HandlerEnds DEF HandlerInv
  <2> QED BY <2>1 DEF AnswersKept
<1>3. ASSUME NEW h \in Handler, calls'[h] # Idle
      PROVE  answers'[h] = 0 /\ WorksOn(h, calls[h].orderId)'
  <2>1. calls[h] # Idle /\ calls'[h].orderId = calls[h].orderId
    BY <1>1, <1>3 DEF CallKept
  <2>2. answers'[h] = 0 /\ WorksOn(h, calls[h].orderId)
    BY <1>3, <2>1 DEF AnswersKept, HandlerInv
  <2>3. calls[h].at # "idle"
    BY <1>1, <2>1 DEF IInv, UnderWay, CallInv
  <2>4. PICK o \in OrderId : o = calls[h].orderId /\ Exists(o)
    BY <1>1, <2>3 DEF IInv, UnderWay, CallInv
  <2>5. orders'[o].requestKey = orders[o].requestKey
    BY <2>4 DEF OrderKept, RequestKept
  <2>6. WorksOn(h, calls[h].orderId)'
    BY <2>1, <2>2, <2>4, <2>5 DEF WorksOn
  <2> QED BY <2>2, <2>6
<1> QED BY <1>2, <1>3 DEF HandlerInv

LEMMA ServicesAnswerInv ==
    ASSUME IInv, ScriptInv, HandlerInv, AnswerInv, AnswersKept, OnRecord, line' = line,
           \A o \in OrderId : OrderKept(o), \A c \in Caller : CallKept(c)
    PROVE  AnswerInv'
<1>1. 1 \in OrderId /\ 2 \in OrderId /\ Late \subseteq OrderId /\ Handler \subseteq Caller
      /\ 1 \notin Late /\ 2 \notin Late
  BY SmokeAssumption DEF Late, Caller
<1>2. \A o \in OrderId : Decided(o) => Decided(o)'
  BY DEF OrderKept, RequestKept, Decided
<1>3. \A o \in OrderId : Lost(o) => Lost(o)'
  BY LostForGood
<1>4. ~Lost(1)
  BY <1>1 DEF Lost
<1>5. ASSUME NEW h \in Handler
      PROVE  \/ answers'[h] = answers[h]
             \/ \E o \in OrderId : /\ WorksOn(h, o) /\ Decided(o)'
                                   /\ answers'[h] \in {201, 409}
                                   /\ answers'[h] = 409 => Lost(o)
  BY <1>1, HandlerEnds
<1>6. \/ answers'[Single] = answers[Single]
      \/ line \in {"ordered", "retried", "accepted", "burst"}
  BY <1>5, SingleHandles DEF WorksOn
<1>7. line = "ordered" /\ answers'[Single] # 0 => answers'[Single] = 201 /\ Decided(1)'
  <2>1. CASE answers'[Single] = answers[Single]
    BY <1>1, <1>2, <2>1 DEF AnswerInv
  <2>2. CASE answers'[Single] # answers[Single]
    BY <1>4, <1>5, <2>2, SingleHandles DEF WorksOn
  <2> QED BY <2>1, <2>2
<1>8. line \notin Opening \cup {"ordered"} => Decided(1)'
  BY <1>1, <1>2 DEF AnswerInv
<1>9. line = "retried" => answers'[Single] \in {0, 201}
  BY <1>4, <1>5, SingleHandles DEF WorksOn, AnswerInv
<1>10. line = "conflict" => answers'[Single] = 409
  BY <1>6 DEF AnswerInv
<1>11. line = "accepted" => answers'[Single] \in {0, 201} \/ Lost(2)'
  BY <1>1, <1>3, <1>5, SingleHandles DEF WorksOn, AnswerInv
<1>12. ASSUME NEW o \in Late, Exists(o)', NEW h \in Handler,
              h = orders'[o].requestKey, answers'[h] # 0
       PROVE  Decided(o)' /\ (answers'[h] = 409 => Lost(o)')
  <2>1. o \in OrderId /\ Exists(o) /\ orders[o].requestKey = h
    BY <1>1, <1>12 DEF OrderKept, RequestKept
  <2>2. CASE answers'[h] = answers[h]
    BY <1>2, <1>3, <1>12, <2>1, <2>2 DEF AnswerInv
  <2>3. CASE answers'[h] # answers[h]
    <3>1. PICK p \in OrderId : /\ WorksOn(h, p) /\ Decided(p)'
                               /\ answers'[h] = 409 => Lost(p)
      BY <1>5, <2>3
    <3>2. line \in {"burst", "counted", "delete"}
      BY <2>1 DEF ScriptInv
    <3>3. p \in Late /\ orders[p].requestKey = h
      BY <3>1, <3>2 DEF WorksOn
    <3>4. Exists(p)
      BY <3>1 DEF OrderKept, RequestKept, Decided
    <3>5. p = o
      BY <2>1, <3>3, <3>4 DEF ScriptInv
    <3> QED BY <1>3, <2>1, <3>1, <3>5
  <2> QED BY <2>2, <2>3
<1>13. ASSUME NEW o \in Late, Exists(o)'
       PROVE  orders'[o].requestKey \in Handler
  <2>1. o \in OrderId /\ Exists(o) /\ orders'[o].requestKey = orders[o].requestKey
    BY <1>1, <1>13 DEF OrderKept, RequestKept
  <2>2. PICK h \in Handler : IsOrderOf(o, LastPortion(h))
    BY <2>1 DEF ScriptInv
  <2> QED BY <2>1, <2>2, LastCart DEF IsOrderOf, SameKey
<1>14. ASSUME line \in {"counted", "delete"}, NEW h \in Handler
       PROVE  answers'[h] # 0 /\ \E o \in Late : Exists(o)' /\ orders'[o].requestKey = h
  <2>1. answers'[h] = answers[h]
    BY <1>5, <1>14 DEF WorksOn
  <2>2. answers[h] # 0 /\ \E o \in Late : Exists(o) /\ orders[o].requestKey = h
    BY <1>14 DEF AnswerInv
  <2> QED BY <1>1, <2>1, <2>2 DEF OrderKept, RequestKept
<1> QED BY <1>7, <1>8, <1>9, <1>10, <1>11, <1>12, <1>13, <1>14 DEF AnswerInv

LEMMA ServicesKitchenInv ==
    ASSUME ScriptInv, KitchenInv, line' = line, \A o \in OrderId : OrderKept(o)
    PROVE  KitchenInv'
<1>1. OrderKept(1)
  BY SmokeAssumption
<1>2. line \notin Opening => Exists(1)
  BY DEF ScriptInv
<1> QED BY <1>1, <1>2 DEF KitchenInv, OrderKept, RequestKept, Opening

LEMMA ServicesKeepInv ==
    ASSUME IInv, IInv', SmokeInv, Services
    PROVE  SmokeInv'
<1>1. line' = line /\ failed' = failed /\ AnswersKept
  BY DEF Services, AnswersKept
<1>2. CASE line = "done"
  BY <1>1, <1>2 DEF SmokeInv, FailureInv
<1>3. CASE line # "done"
  <2>1. ScriptInv /\ ShopInv /\ RefusalInv /\ HandlerInv /\ AnswerInv /\ KitchenInv
    BY <1>3 DEF SmokeInv
  <2>2. (\A o \in OrderId : OrderKept(o)) /\ \A c \in Caller : CallKept(c)
    BY <2>1, ServicesKeep, ServicesKeepCalls
  <2>3. ShopInv' /\ OnRecord
    BY <2>1, ServicesKeepShop
  <2>4. ScriptInv'
    BY <1>1, <2>1, <2>2, ScriptInvKept DEF OrderKept, SameOrders
  <2>5. RefusalInv'
    BY <2>1, <2>2, <2>3, ServicesRefusalInv
  <2>6. HandlerInv'
    BY <1>1, <2>1, <2>2, ServicesHandlerInv
  <2>7. AnswerInv'
    BY <1>1, <2>1, <2>2, <2>3, ServicesAnswerInv
  <2>8. KitchenInv'
    BY <1>1, <2>1, <2>2, ServicesKitchenInv
  <2>9. failed' \in BOOLEAN /\ FailureInv'
    <3>1. Lost(2) => Lost(2)'
      BY <2>3, LostForGood, SmokeAssumption
    <3> QED BY <1>1, <3>1 DEF SmokeInv, FailureInv
  <2> QED BY <2>3, <2>4, <2>5, <2>6, <2>7, <2>8, <2>9 DEF SmokeInv
<1> QED BY <1>2, <1>3

-----------------------------------------------------------------------------
(* The lines that look at answers and at what is stored                      *)

\* The script goes on from one of these lines only when its request is answered
\* as it must be, or not at all.
Looked ==
    /\ ~failed /\ UNCHANGED <<vars, answers>>
    /\ line \notin Opening /\ SameOrders
    /\ line' \notin {"done", "ordered", "retried", "conflict", "accepted"}
    /\ line \in {"ordered", "retried", "accepted"} => answers[Single] # 0
    /\ line' \in {"counted", "delete"} =>
        \/ line \in {"counted", "delete"}
        \/ \A h \in Handler : answers[h] # 0 /\ \E o \in OrderId : SameKey(o, LastPortion(h))
    /\ line' = "burst" => line = "restored"

LEMMA LookedKeepsInv ==
    ASSUME IInv, SmokeInv, Looked, KitchenInv', FailureInv', failed' \in BOOLEAN,
           line # "done"
    PROVE  SmokeInv'
<1>1. ScriptInv /\ ShopInv /\ RefusalInv /\ HandlerInv /\ AnswerInv
  BY DEF SmokeInv
<1>2. /\ UNCHANGED <<orders, outbox, calls, stray, batch>>
      /\ UNCHANGED <<restaurants, dishes, reservations, answers>>
  BY DEF Looked, vars, orderVars, catalogVars
<1>3. ScriptInv'
  BY <1>1, <1>2, ScriptInvKept DEF Looked, RequestKept
<1>4. ShopInv'
  BY <1>1, <1>2 DEF ShopInv, OnMenu, Sold, Reserved, Looked, Opening
<1>5. RefusalInv'
  BY <1>1, <1>2 DEF RefusalInv, Lost, Reserved
<1>6. \A h \in Handler : calls[h] = Idle \/ line' = "burst" \/ line = "burst"
  BY <1>1 DEF HandlerInv, WorksOn, Looked
<1>7. line' = "burst" => \A h \in Handler : calls[h] = Idle
  BY <1>1 DEF HandlerInv, WorksOn, Looked
<1>8. line = "burst" => \A h \in Handler : calls[h] = Idle
  BY <1>1 DEF HandlerInv, WorksOn, Looked, SameOrders
<1>9. HandlerInv'
  BY <1>1, <1>2, <1>6, <1>7, <1>8 DEF HandlerInv
<1>10. Decided(1)
  BY <1>1 DEF AnswerInv, Looked
<1>11. \A o \in OrderId : Exists(o) /\ orders[o].requestKey \in Handler => o \in Late
  <2>1. "key" \notin Handler /\ "declined" \notin Handler
    BY SmokeAssumption
  <2> QED BY <1>1, <2>1, OrdersOfScript, FirstCart, DeclinedCart DEF IsOrderOf, SameKey
<1>12. ASSUME line' \in {"counted", "delete"}, NEW h \in Handler
       PROVE  answers[h] # 0 /\ \E o \in Late : Exists(o) /\ orders[o].requestKey = h
  BY <1>1, <1>11, <1>12, LastCart DEF AnswerInv, Looked, SameKey
<1>13. AnswerInv'
  BY <1>1, <1>2, <1>10, <1>12 DEF AnswerInv, Looked, Decided, Lost, Reserved
<1> QED BY <1>3, <1>4, <1>5, <1>9, <1>13 DEF SmokeInv

\* The four answers about the first order, and what is looked at before the
\* kitchen starts
LEMMA IdempotencyLooks ==
    ASSUME IInv, SmokeInv,
           \/ Go("ordered", "retry") /\ Answers(201)
           \/ Go("retried", "other") /\ Answers(201)
           \/ Go("conflict", "total") /\ Answers(409)
           \/ Go("total", "early") /\ See(orders[1].totalVnd = 22 /\ ~Exists(2))
    PROVE  SmokeInv'
<1>1. line \in {"ordered", "retried", "conflict", "total"} /\ ~failed
  BY DEF Go
<1>2. ScriptInv /\ ShopInv /\ RefusalInv /\ AnswerInv /\ KitchenInv
  BY <1>1 DEF SmokeInv
<1>3. line = "total" => orders[1].totalVnd = 22 /\ ~Exists(2)
  BY <1>2, FirstDecided DEF AnswerInv, ScriptInv, Opening, Closing
<1>4. failed' = FALSE
  BY <1>2, <1>3 DEF AnswerInv, Go, Answers, See, Assert
<1>5. Looked
  BY DEF Looked, SameOrders, Go, Answers, See, Opening, Closing
<1>6. KitchenInv'
  BY <1>2, <1>5 DEF KitchenInv, Looked, vars, orderVars, Go, Closing
<1> QED BY <1>1, <1>4, <1>5, <1>6, LookedKeepsInv DEF FailureInv

\* What is looked at while the kitchen works
LEMMA KitchenLooks ==
    ASSUME IInv, SmokeInv,
           \/ Go("early", "paid") /\ See(~InStatus(1, "CONFIRMED") /\ ~InStatus(1, "READY"))
           \/ Go("paid", "payment") /\ Eventually(InStatus(1, "PAID"))
           \/ Go("payment", "confirm") /\ See(payments[1] # Null /\ payments[1].amountVnd = 22)
           \/ Go("again", "inbox") /\ See(InStatus(1, "READY"))
           \/ /\ Go("inbox", "decline")
              /\ Eventually(\E e \in bus : e.topic = "order.ready" /\ e.orderId = 1)
    PROVE  SmokeInv'
<1>1. line \in {"early", "paid", "payment", "again", "inbox"} /\ failed = FALSE
  BY DEF Go, SmokeInv
<1>2. ScriptInv /\ ShopInv /\ RefusalInv /\ AnswerInv /\ KitchenInv
  BY <1>1 DEF SmokeInv
<1>3. line = "payment" => payments[1] # Null /\ payments[1].amountVnd = 22
  <2>1. orders[1].totalVnd = 22
    BY <1>1, <1>2, FirstDecided DEF AnswerInv, Opening
  <2>2. line = "payment" => payments[1] # Null
    BY <1>2, SmokeAssumption DEF KitchenInv, IInv, RowInv, OrderInv
  <2>3. payments[1] # Null => payments[1].amountVnd = orders[1].totalVnd
    BY SmokeAssumption DEF IInv, RowInv, PaymentAgrees
  <2> QED BY <2>1, <2>2, <2>3
<1>4. failed' = FALSE
  <2>1. line = "early" => ~InStatus(1, "CONFIRMED") /\ ~InStatus(1, "READY")
    BY <1>2 DEF KitchenInv
  <2>2. line = "again" => InStatus(1, "READY")
    BY <1>2 DEF KitchenInv
  <2> QED BY <1>1, <1>3, <2>1, <2>2 DEF Go, See, Assert, Eventually
<1>5. Looked
  BY DEF Looked, SameOrders, Go, See, Eventually, Opening, Closing
<1>6. KitchenInv'
  BY <1>2, <1>5 DEF KitchenInv, Looked, vars, orderVars, Go, Closing, Eventually
<1> QED BY <1>1, <1>4, <1>5, <1>6, LookedKeepsInv DEF FailureInv

\* What is looked at after the declined checkout: only its answer may be wrong.
LEMMA DeclineLooks ==
    ASSUME IInv, SmokeInv,
           \/ Go("accepted", "cancelled") /\ Answers(201)
           \/ Go("cancelled", "restored") /\ Eventually(InStatus(2, "CANCELLED"))
           \/ Go("restored", "burst") /\ Eventually(dishes["declined"].stock = 2)
    PROVE  SmokeInv'
<1>1. line \in {"accepted", "cancelled", "restored"} /\ failed = FALSE
  BY DEF Go, SmokeInv
<1>2. AnswerInv /\ KitchenInv
  BY <1>1 DEF SmokeInv
<1>3. Looked
  BY DEF Looked, SameOrders, Go, Answers, Eventually, Opening, Closing
<1>4. Lost(2)' <=> Lost(2)
  BY <1>3 DEF Looked, vars, catalogVars, Lost, Reserved
<1>5. failed' \in BOOLEAN /\ FailureInv'
  BY <1>1, <1>2, <1>4 DEF AnswerInv, FailureInv, Go, Answers, Assert, Eventually
<1>6. KitchenInv'
  BY <1>2, <1>3 DEF KitchenInv, Looked, vars, orderVars, Go, Closing
<1> QED BY <1>1, <1>3, <1>5, <1>6, LookedKeepsInv

\* After the burst the last portion is sold, and two of the rice.
LEMMA ShelfAfterBurst ==
    ASSUME IInv, ScriptInv, ShopInv, RefusalInv, AnswerInv, line = "counted"
    PROVE  dishes["last"].stock = 0 /\ dishes["rice"].stock = 8
<1>1. PICK o \in Late : Exists(o) /\ orders[o].requestKey = Single
  BY SingleHandles DEF AnswerInv
<1>2. answers[Single] # 0
  BY SingleHandles DEF AnswerInv
<1>3. Decided(o)
  BY <1>1, <1>2 DEF AnswerInv
<1>4. \E p \in Late : Reserved(p)
  <2>1. Reserved(o) \/ Lost(o)
    BY <1>3, LateDecided
  <2>2. o # 2
    BY DEF Late
  <2> QED BY <2>1, <2>2 DEF Lost
<1>5. Reserved(1)
  BY FirstDecided DEF AnswerInv, Opening
<1>6. dishes["last"] = OnMenu("last") /\ dishes["rice"] = OnMenu("rice")
  BY DishesOnMenu DEF ShopInv
<1>7. CatalogTypeOK
  BY DEF IInv, TypeOK
<1> QED BY <1>4, <1>5, <1>6, <1>7, DishesOnMenu, MenuOnSale, MenuOfDish, SoldOfDish

LEMMA BurstLooks ==
    ASSUME IInv, SmokeInv,
           \/ /\ Go("burst", "counted")
              /\ \A h \in Handler :
                   (\E o \in OrderId : SameKey(o, LastPortion(h))) /\ answers[h] # 0
              /\ See(/\ Cardinality({h \in Handler : answers[h] = 201}) = 1
                     /\ \A h \in Handler : answers[h] \in {201, 409})
           \/ /\ Go("counted", "delete")
              /\ See(dishes["last"].stock = 0 /\ dishes["rice"].stock = 8)
    PROVE  SmokeInv'
<1>1. line \in {"burst", "counted"} /\ ~failed
  BY DEF Go
<1>2. ScriptInv /\ ShopInv /\ RefusalInv /\ AnswerInv /\ KitchenInv
  BY <1>1 DEF SmokeInv
<1>3. Looked
  BY DEF Looked, SameOrders, Go, See, Opening, Closing
<1>4. failed' \in BOOLEAN /\ FailureInv'
  BY <1>2, ShelfAfterBurst DEF FailureInv, Go, See, Assert
<1>5. KitchenInv'
  BY <1>2, <1>3 DEF KitchenInv, Looked, vars, orderVars, Go, Closing
<1> QED BY <1>1, <1>3, <1>4, <1>5, LookedKeepsInv

-----------------------------------------------------------------------------
(* The lines that send a checkout                                            *)

\* A new checkout gets the next number.
LEMMA Created ==
    ASSUME IInv, NEW h \in Handler, NEW s \in Requests, CreateNew(h, s)
    PROVE  \E o \in OrderId :
            /\ ~Exists(o) /\ \A p \in OrderId : p < o => Exists(p)
            /\ \A p \in OrderId : p # o => orders'[p] = orders[p]
            /\ Exists(o)' /\ IsOrderOf(o, s)'
            /\ ~orders'[o].failure /\ orders'[o].status = "RESERVING"
            /\ calls' = [calls EXCEPT ![h] = Finishing(o)]
<1> DEFINE row == [userId |-> s.userId, requestKey |-> s.requestKey,
                   restaurantId |-> s.restaurantId, items |-> s.items,
                   paymentMethod |-> s.paymentMethod, status |-> "RESERVING",
                   totalVnd |-> 0, prices |-> NoPrices, failure |-> FALSE]
<1>1. PICK o \in OrderId :
        /\ ~Exists(o) /\ \A p \in OrderId : p < o => Exists(p)
        /\ orders' = [orders EXCEPT ![o] = row]
        /\ calls' = [calls EXCEPT ![h] = Finishing(o)]
  BY DEF CreateNew
<1>2. row # Null
  <2>1. s \in Request
    BY SmokeAssumption, OrdersAssumption
  <2>2. 0 \in Amount /\ NoPrices \in Prices
    BY NoPricesInPrices DEF Amount
  <2>3. row \in Order
    BY <2>1, <2>2 DEF Order, Request, Status
  <2> QED BY <2>3, OrderRowAssumption
<1>3. orders'[o] = row /\ \A p \in OrderId : p # o => orders'[p] = orders[p]
  BY <1>1 DEF IInv, TypeOK, OrdersTypeOK
<1>4. Exists(o)' /\ IsOrderOf(o, s)'
  BY <1>2, <1>3 DEF IsOrderOf, SameKey, SameCart
<1>5. ~orders'[o].failure /\ orders'[o].status = "RESERVING"
  BY <1>3
<1> HIDE DEF row
<1> WITNESS o \in OrderId
<1> QED BY <1>1, <1>3, <1>4, <1>5

\* A handler starts on order o.
Starts(h, o) ==
    /\ calls' = [calls EXCEPT ![h] = Finishing(o)]
    /\ answers' = [answers EXCEPT ![h] = 0]
    /\ UNCHANGED <<restaurants, dishes, reservations>>
    /\ \A p \in OrderId : p # o => orders'[p] = orders[p]
    /\ Exists(o)' /\ (orders'[o].failure => Lost(o))
    /\ WorksOn(h, o)'

LEMMA StartKeeps ==
    ASSUME IInv, ShopInv, RefusalInv, HandlerInv,
           NEW h \in Handler, NEW o \in OrderId, Starts(h, o),
           \A g \in Handler : calls[g] # Idle => line = "burst" /\ line' = "burst",
           ~Exists(o) \/ \A g \in Handler : calls[g] = Idle,
           line \notin {"restaurant", "dishes"}
    PROVE  ShopInv' /\ RefusalInv' /\ HandlerInv'
<1>1. ShopInv'
  BY DEF Starts, ShopInv, OnMenu, Sold, Reserved
<1>2. calls \in [Caller -> Call] /\ Handler \subseteq Caller
  BY DEF IInv, TypeOK, OrdersTypeOK, Caller
<1>3. calls'[h] = Finishing(o) /\ \A c \in Caller : c # h => calls'[c] = calls[c]
  BY <1>2 DEF Starts
<1>4. RefusalInv'
  <2>1. \A p \in OrderId : Lost(p) => Lost(p)'
    BY DEF Starts, Lost, Reserved
  <2>2. ASSUME NEW c \in Caller, calls'[c].at = "answered"
        PROVE  calls'[c] = calls[c]
    BY <1>3, <2>2 DEF Finishing
  <2>3. ASSUME NEW c \in Caller, calls'[c].at = "answered",
               calls'[c].answer.code = "conflict"
        PROVE  Lost(calls[c].orderId)'
    <3>1. PICK p \in OrderId : p = calls'[c].orderId
      BY <2>2, <2>3 DEF IInv, UnderWay, CallInv
    <3> QED BY <2>1, <2>2, <2>3, <3>1 DEF RefusalInv
  <2>4. ASSUME NEW p \in OrderId, Exists(p)', orders'[p].failure
        PROVE  Lost(p)'
    BY <2>1, <2>4 DEF Starts, RefusalInv
  <2> QED BY <2>2, <2>3, <2>4 DEF RefusalInv
<1>5. HandlerInv'
  <2>1. answers' \in [Handler -> {0, 201, 409}]
    BY DEF Starts, HandlerInv
  <2>2. answers'[h] = 0 /\ WorksOn(h, calls[h].orderId)'
    <3>1. calls'[h].orderId = o
      BY <1>3 DEF Finishing
    <3>2. WorksOn(h, o)'
      BY DEF Starts
    <3> QED BY <3>1, <3>2 DEF Starts, HandlerInv, WorksOn
  <2>3. ASSUME NEW g \in Handler, g # h, calls'[g] # Idle
        PROVE  answers'[g] = 0 /\ WorksOn(g, calls[g].orderId)'
    <3>1. calls'[g] = calls[g] /\ answers'[g] = answers[g]
      BY <1>2, <1>3, <2>3 DEF Starts
    <3>2. answers[g] = 0 /\ WorksOn(g, calls[g].orderId)
      BY <2>3, <3>1 DEF HandlerInv
    <3>3. line = "burst" /\ line' = "burst" /\ ~Exists(o)
      BY <2>3, <3>1
    <3>4. PICK p \in OrderId : p = calls[g].orderId /\ Exists(p)
      BY <1>2, <2>3, <3>1 DEF IInv, UnderWay, CallInv, Idle
    <3>5. orders'[p] = orders[p]
      BY <3>3, <3>4 DEF Starts
    <3>6. WorksOn(g, calls[g].orderId)'
      BY <3>1, <3>2, <3>3, <3>4, <3>5 DEF WorksOn
    <3> QED BY <3>1, <3>2, <3>6
  <2> QED BY <2>1, <2>2, <2>3 DEF HandlerInv
<1> QED BY <1>1, <1>4, <1>5

\* The first checkout
LEMMA FirstPost ==
    ASSUME IInv, SmokeInv, Go("order", "ordered"), Post(Single, First)
    PROVE  SmokeInv'
<1>1. line = "order" /\ line' = "ordered" /\ failed' = failed /\ ~failed
  BY DEF Go, Post
<1>2. ScriptInv /\ ShopInv /\ RefusalInv /\ HandlerInv
  BY <1>1 DEF SmokeInv
<1>3. 1 \in OrderId /\ 2 \in OrderId /\ OrderId \subseteq Nat \ {0}
  BY SmokeAssumption, DataAssumption, IdAssumption
<1>4. \A o \in OrderId : ~Exists(o)
  BY <1>1, <1>2 DEF ScriptInv, Opening, Closing, Late
<1>5. /\ CreateNew(Single, First) /\ answers' = [answers EXCEPT ![Single] = 0]
      /\ UNCHANGED <<restaurants, dishes, reservations>>
  BY <1>4 DEF Post, Conflicts, SameKey, CreateAgain, catalogVars
<1>6. First \in Requests
  BY DEF Requests
<1>7. PICK o \in OrderId :
            /\ ~Exists(o) /\ \A p \in OrderId : p < o => Exists(p)
            /\ \A p \in OrderId : p # o => orders'[p] = orders[p]
            /\ Exists(o)' /\ IsOrderOf(o, First)'
            /\ ~orders'[o].failure /\ orders'[o].status = "RESERVING"
            /\ calls' = [calls EXCEPT ![Single] = Finishing(o)]
  BY <1>5, <1>6, SingleHandles, Created
<1>8. o = 1
  BY <1>3, <1>4, <1>7
<1>9. \A h \in Handler : calls[h] = Idle
  BY <1>1, <1>2 DEF HandlerInv, WorksOn
<1>10. Starts(Single, o)
  BY <1>1, <1>5, <1>7, <1>8 DEF Starts, WorksOn
<1>11. ShopInv' /\ RefusalInv' /\ HandlerInv'
  BY <1>1, <1>2, <1>9, <1>10, SingleHandles, StartKeeps
<1>12. \A p \in OrderId : Exists(p)' <=> p = 1
  BY <1>4, <1>7, <1>8
<1>13. ScriptInv'
  BY <1>1, <1>3, <1>7, <1>8, <1>12 DEF ScriptInv, Opening, Closing, Late
<1>14. AnswerInv'
  BY <1>1, <1>2, <1>5, <1>12, SingleHandles DEF AnswerInv, HandlerInv, Opening, Late
<1>15. KitchenInv'
  BY <1>1, <1>7, <1>8 DEF KitchenInv, Closing
<1> QED BY <1>1, <1>11, <1>13, <1>14, <1>15 DEF SmokeInv, FailureInv

\* The same checkout again
LEMMA RetryPost ==
    ASSUME IInv, SmokeInv, Go("retry", "retried"), Post(Single, First)
    PROVE  SmokeInv'
<1>1. line = "retry" /\ line' = "retried" /\ failed' = failed /\ ~failed
  BY DEF Go, Post
<1>2. ScriptInv /\ ShopInv /\ RefusalInv /\ HandlerInv /\ AnswerInv /\ KitchenInv
  BY <1>1 DEF SmokeInv
<1>3. 1 \in OrderId /\ 2 \in OrderId
  BY SmokeAssumption
<1>4. Exists(1) /\ \A o \in OrderId : Exists(o) => o = 1
  BY <1>1, <1>2 DEF ScriptInv, Opening, Closing, Late
<1>5. IsOrderOf(1, First) /\ ~orders[1].failure
  BY <1>2, <1>3, <1>4 DEF ScriptInv, RefusalInv, Lost, Late
<1>6. ~Conflicts(First)
  BY <1>4, <1>5 DEF Conflicts, IsOrderOf, SameKey
<1>7. ~CreateNew(Single, First)
  BY <1>3, <1>5 DEF CreateNew, IsOrderOf
<1>8. /\ CreateAgain(Single, First) /\ answers' = [answers EXCEPT ![Single] = 0]
      /\ UNCHANGED <<restaurants, dishes, reservations>>
  BY <1>6, <1>7 DEF Post, catalogVars
<1>9. calls' = [calls EXCEPT ![Single] = Finishing(1)] /\ UNCHANGED orders
  BY <1>4, <1>8 DEF CreateAgain, SameKey
<1>10. \A h \in Handler : calls[h] = Idle
  BY <1>1, <1>2 DEF HandlerInv, WorksOn
<1>11. Starts(Single, 1)
  BY <1>1, <1>4, <1>5, <1>8, <1>9 DEF Starts, WorksOn
<1>12. ShopInv' /\ RefusalInv' /\ HandlerInv'
  BY <1>1, <1>2, <1>3, <1>10, <1>11, SingleHandles, StartKeeps
<1>13. ScriptInv'
  BY <1>1, <1>2, <1>9, ScriptInvKept DEF RequestKept, SameOrders, Opening, Closing
<1>14. AnswerInv'
  BY <1>1, <1>2, <1>3, <1>4, <1>8, <1>9, SingleHandles
  DEF AnswerInv, HandlerInv, Opening, Late, Decided
<1>15. KitchenInv'
  BY <1>1, <1>2, <1>9 DEF KitchenInv, Closing
<1> QED BY <1>1, <1>12, <1>13, <1>14, <1>15 DEF SmokeInv, FailureInv

\* Another cart under the key of the first checkout
LEMMA OtherCartPost ==
    ASSUME IInv, SmokeInv, Go("other", "conflict"), Post(Single, OtherCart)
    PROVE  SmokeInv'
<1>1. line = "other" /\ line' = "conflict" /\ failed' = failed /\ ~failed
  BY DEF Go, Post
<1>2. ScriptInv /\ ShopInv /\ RefusalInv /\ HandlerInv /\ AnswerInv /\ KitchenInv
  BY <1>1 DEF SmokeInv
<1>3. 1 \in OrderId /\ Exists(1) /\ IsOrderOf(1, First)
  BY <1>1, <1>2, SmokeAssumption DEF ScriptInv, Opening
<1>4. /\ OtherCart.userId = "customer" /\ OtherCart.requestKey = "key"
      /\ OtherCart.items["rice"] = 1
  BY DishesOnMenu DEF OtherCart, Checkout
<1>5. Conflicts(OtherCart)
  <2>1. SameKey(1, OtherCart) /\ orders[1].items = First.items
    BY <1>3, <1>4, FirstCart DEF IsOrderOf, SameKey, SameCart
  <2>2. First.items # OtherCart.items
    BY <1>4, FirstCart
  <2> QED BY <1>3, <2>1, <2>2 DEF Conflicts, SameCart
<1>6. /\ answers' = [answers EXCEPT ![Single] = 409]
      /\ UNCHANGED <<orders, calls, restaurants, dishes, reservations>>
  BY <1>5 DEF Post, orderVars, catalogVars
<1>7. ScriptInv'
  BY <1>1, <1>2, <1>6, ScriptInvKept DEF RequestKept, SameOrders, Opening, Closing
<1>8. ShopInv'
  BY <1>1, <1>2, <1>6 DEF ShopInv, OnMenu, Sold, Reserved
<1>9. RefusalInv'
  BY <1>2, <1>6 DEF RefusalInv, Lost, Reserved
<1>10. \A h \in Handler : calls[h] = Idle
  BY <1>1, <1>2 DEF HandlerInv, WorksOn
<1>11. HandlerInv'
  BY <1>2, <1>6, <1>10 DEF HandlerInv
<1>12. \A o \in Late : ~Exists(o)
  BY <1>1, <1>2 DEF ScriptInv
<1>13. AnswerInv'
  <2>1. answers'[Single] = 409
    BY <1>2, <1>6, SingleHandles DEF HandlerInv
  <2>2. Decided(1)'
    BY <1>1, <1>2, <1>6 DEF AnswerInv, Opening, Decided
  <2>3. \A o \in Late : ~Exists(o)'
    BY <1>6, <1>12
  <2> QED BY <1>1, <2>1, <2>2, <2>3 DEF AnswerInv
<1>14. KitchenInv'
  BY <1>1, <1>2, <1>6 DEF KitchenInv, Closing
<1> QED BY <1>1, <1>7, <1>8, <1>9, <1>11, <1>13, <1>14 DEF SmokeInv, FailureInv

\* The checkout whose payment will be declined
LEMMA DeclinedPost ==
    ASSUME IInv, SmokeInv, Go("decline", "accepted"), Post(Single, Declined)
    PROVE  SmokeInv'
<1>1. line = "decline" /\ line' = "accepted" /\ failed' = failed /\ ~failed
  BY DEF Go, Post
<1>2. ScriptInv /\ ShopInv /\ RefusalInv /\ HandlerInv /\ AnswerInv /\ KitchenInv
  BY <1>1 DEF SmokeInv
<1>3. 1 \in OrderId /\ 2 \in OrderId /\ OrderId \subseteq Nat \ {0}
  BY SmokeAssumption, DataAssumption, IdAssumption
<1>4. /\ Exists(1) /\ IsOrderOf(1, First)
      /\ \A o \in OrderId : Exists(o) => o = 1
  BY <1>1, <1>2 DEF ScriptInv, Opening, Closing, Late
<1>5. \A o \in OrderId : ~SameKey(o, Declined)
  BY <1>4, FirstCart, DeclinedCart DEF IsOrderOf, SameKey
<1>6. /\ CreateNew(Single, Declined) /\ answers' = [answers EXCEPT ![Single] = 0]
      /\ UNCHANGED <<restaurants, dishes, reservations>>
  BY <1>5 DEF Post, Conflicts, CreateAgain, catalogVars
<1>7. Declined \in Requests
  BY DEF Requests
<1>8. PICK o \in OrderId :
            /\ ~Exists(o) /\ \A p \in OrderId : p < o => Exists(p)
            /\ \A p \in OrderId : p # o => orders'[p] = orders[p]
            /\ Exists(o)' /\ IsOrderOf(o, Declined)'
            /\ ~orders'[o].failure /\ orders'[o].status = "RESERVING"
            /\ calls' = [calls EXCEPT ![Single] = Finishing(o)]
  BY <1>6, <1>7, SingleHandles, Created
<1>9. o = 2
  BY <1>3, <1>4, <1>8
<1>10. \A h \in Handler : calls[h] = Idle
  BY <1>1, <1>2 DEF HandlerInv, WorksOn
<1>11. Starts(Single, o)
  BY <1>1, <1>6, <1>8, <1>9 DEF Starts, WorksOn
<1>12. ShopInv' /\ RefusalInv' /\ HandlerInv'
  BY <1>1, <1>2, <1>10, <1>11, SingleHandles, StartKeeps
<1>13. orders'[1] = orders[1] /\ \A p \in OrderId : Exists(p)' <=> p \in {1, 2}
  BY <1>3, <1>4, <1>8, <1>9
<1>14. ScriptInv'
  <2>1. IsOrderOf(1, First)'
    BY <1>4, <1>13 DEF IsOrderOf, SameKey, SameCart, First, Checkout
  <2>2. IsOrderOf(2, Declined)'
    BY <1>8, <1>9
  <2> QED BY <1>1, <1>3, <1>13, <2>1, <2>2 DEF ScriptInv, Opening, Closing, Late
<1>15. AnswerInv'
  <2>1. Decided(1)'
    BY <1>1, <1>2, <1>3, <1>13 DEF AnswerInv, Opening, Decided
  <2>2. answers'[Single] = 0
    BY <1>2, <1>6, SingleHandles DEF HandlerInv
  <2>3. \A p \in Late : ~Exists(p)'
    BY <1>13 DEF Late
  <2> QED BY <1>1, <2>1, <2>2, <2>3 DEF AnswerInv
<1>16. KitchenInv'
  BY <1>1, <1>2, <1>13 DEF KitchenInv, Closing
<1> QED BY <1>1, <1>12, <1>14, <1>15, <1>16 DEF SmokeInv, FailureInv

\* One of the requests for the last portion
LEMMA LastPost ==
    ASSUME IInv, SmokeInv, Go("burst", "burst"), NEW h \in Handler,
           ~\E o \in OrderId : SameKey(o, LastPortion(h)), Post(h, LastPortion(h))
    PROVE  SmokeInv'
<1>1. line = "burst" /\ line' = "burst" /\ failed' = failed /\ ~failed
  BY DEF Go, Post
<1>2. ScriptInv /\ ShopInv /\ RefusalInv /\ HandlerInv /\ AnswerInv /\ KitchenInv
  BY <1>1 DEF SmokeInv
<1>3. 1 \in OrderId /\ 2 \in OrderId /\ Late \subseteq OrderId
  BY SmokeAssumption DEF Late
<1>4. Exists(1) /\ Exists(2) /\ IsOrderOf(1, First) /\ IsOrderOf(2, Declined)
  BY <1>1, <1>2 DEF ScriptInv, Opening, Closing
<1>5. /\ CreateNew(h, LastPortion(h)) /\ answers' = [answers EXCEPT ![h] = 0]
      /\ UNCHANGED <<restaurants, dishes, reservations>>
  BY DEF Post, Conflicts, CreateAgain, catalogVars
<1>6. LastPortion(h) \in Requests
  BY DEF Requests
<1>7. PICK o \in OrderId :
            /\ ~Exists(o) /\ \A p \in OrderId : p < o => Exists(p)
            /\ \A p \in OrderId : p # o => orders'[p] = orders[p]
            /\ Exists(o)' /\ IsOrderOf(o, LastPortion(h))'
            /\ ~orders'[o].failure /\ orders'[o].status = "RESERVING"
            /\ calls' = [calls EXCEPT ![h] = Finishing(o)]
  BY <1>5, <1>6, Created
<1>8. o \in Late
  BY <1>4, <1>7 DEF Late
<1>9. orders'[o].requestKey = h
  BY <1>7, LastCart DEF IsOrderOf, SameKey
<1>10. Starts(h, o)
  BY <1>1, <1>5, <1>7, <1>8, <1>9 DEF Starts, WorksOn
<1>11. ShopInv' /\ RefusalInv' /\ HandlerInv'
  BY <1>1, <1>2, <1>7, <1>10, StartKeeps
<1>12. /\ orders'[1] = orders[1] /\ orders'[2] = orders[2]
       /\ \A p \in OrderId : Exists(p)' <=> (Exists(p) \/ p = o)
  BY <1>3, <1>4, <1>7
<1>13. ASSUME NEW p \in Late, Exists(p)
       PROVE  /\ orders'[p] = orders[p]
              /\ orders[p].requestKey \in Handler /\ orders[p].requestKey # h
              /\ \E g \in Handler : IsOrderOf(p, LastPortion(g))'
  <2>1. p \in OrderId /\ orders'[p] = orders[p]
    BY <1>3, <1>7, <1>13
  <2>2. PICK g \in Handler : IsOrderOf(p, LastPortion(g))
    BY <1>2, <1>13 DEF ScriptInv
  <2>3. orders[p].requestKey = g /\ orders[p].userId = "customer"
    BY <2>2, LastCart DEF IsOrderOf, SameKey
  <2>4. g # h
    BY <1>13, <2>1, <2>3, LastCart DEF SameKey
  <2>5. IsOrderOf(p, LastPortion(g))'
    BY <2>1, <2>2 DEF IsOrderOf, SameKey, SameCart, LastPortion, Checkout
  <2> QED BY <2>1, <2>3, <2>4, <2>5
<1>14. ScriptInv'
  <2>1. IsOrderOf(1, First)'
    BY <1>4, <1>12 DEF IsOrderOf, SameKey, SameCart, First, Checkout
  <2>2. IsOrderOf(2, Declined)'
    BY <1>4, <1>12 DEF IsOrderOf, SameKey, SameCart, Declined, Checkout
  <2>3. ASSUME NEW p \in Late, Exists(p)'
        PROVE  \E g \in Handler : IsOrderOf(p, LastPortion(g))'
    BY <1>3, <1>7, <1>12, <1>13, <2>3
  <2>4. ASSUME NEW p \in Late, NEW q \in Late, Exists(p)', Exists(q)',
               orders'[p].requestKey = orders'[q].requestKey
        PROVE  p = q
    BY <1>2, <1>3, <1>9, <1>12, <1>13, <2>4 DEF ScriptInv
  <2> QED BY <1>1, <1>3, <1>4, <1>12, <2>1, <2>2, <2>3, <2>4
      DEF ScriptInv, Opening, Closing
<1>15. AnswerInv'
  <2>1. Decided(1)'
    BY <1>1, <1>2, <1>12 DEF AnswerInv, Opening, Decided
  <2>2. answers'[h] = 0 /\ \A g \in Handler : g # h => answers'[g] = answers[g]
    BY <1>2, <1>5 DEF HandlerInv
  <2>3. ASSUME NEW p \in Late, Exists(p)', answers'[orders'[p].requestKey] # 0
        PROVE  Decided(p)' /\ (answers'[orders'[p].requestKey] = 409 => Lost(p)')
    <3>1. p # o
      BY <1>9, <2>2, <2>3
    <3>2. Exists(p)
      BY <1>3, <1>12, <2>3, <3>1
    <3>3. /\ orders'[p] = orders[p] /\ orders[p].requestKey \in Handler
          /\ orders[p].requestKey # h
      BY <1>13, <3>2
    <3>4. Lost(p) <=> Lost(p)'
      BY <1>5 DEF Lost, Reserved
    <3>5. Decided(p) /\ (answers[orders[p].requestKey] = 409 => Lost(p))
      BY <1>2, <2>2, <2>3, <3>2, <3>3 DEF AnswerInv
    <3> QED BY <2>2, <3>3, <3>4, <3>5 DEF Decided
  <2> QED BY <1>1, <2>1, <2>3 DEF AnswerInv
<1>16. KitchenInv'
  BY <1>1, <1>2, <1>12 DEF KitchenInv, Closing
<1> QED BY <1>1, <1>11, <1>14, <1>15, <1>16 DEF SmokeInv, FailureInv

-----------------------------------------------------------------------------
(* The lines that move the order on in the kitchen, and the administrator    *)

LEMMA PatchMoves ==
    ASSUME IInv, SmokeInv, ~failed,
           \/ Go("confirm", "ready") /\ Patch("CONFIRMED") /\ Assert(InStatus(1, "CONFIRMED")')
           \/ Go("ready", "again") /\ Patch("READY") /\ Assert(InStatus(1, "READY")')
    PROVE  SmokeInv'
<1>1. PICK status \in {"CONFIRMED", "READY"} :
        /\ line = IF status = "CONFIRMED" THEN "confirm" ELSE "ready"
        /\ line' = IF status = "CONFIRMED" THEN "ready" ELSE "again"
        /\ Patch(status) /\ Assert(InStatus(1, status)')
  BY DEF Go
<1>2. ScriptInv /\ ShopInv /\ RefusalInv /\ HandlerInv /\ AnswerInv /\ KitchenInv
  BY <1>1 DEF SmokeInv
<1>3. 1 \in OrderId /\ OrdersTypeOK
  BY SmokeAssumption DEF IInv, TypeOK
<1>4. InStatus(1, Expected(status))
  BY <1>1, <1>2 DEF KitchenInv, Expected
<1>5. /\ orders' = [orders EXCEPT ![1].status = status]
      /\ UNCHANGED <<calls, answers, restaurants, dishes, reservations>>
  BY <1>1, <1>4 DEF Patch, Transition, catalogVars
<1>6. StatusSet(1, status)
  BY <1>3, <1>4, <1>5, StatusChange DEF Status
<1>7. /\ orders[1] # Null /\ orders'[1] # Null /\ orders'[1].status = status
      /\ \A p \in OrderId : p # 1 => orders'[p] = orders[p]
      /\ orders'[1].userId = orders[1].userId
      /\ orders'[1].requestKey = orders[1].requestKey
      /\ orders'[1].restaurantId = orders[1].restaurantId
      /\ orders'[1].items = orders[1].items
      /\ orders'[1].paymentMethod = orders[1].paymentMethod
      /\ orders'[1].failure = orders[1].failure
  BY <1>4, <1>6 DEF StatusSet
<1>8. failed' = FALSE
  BY <1>1, <1>7 DEF Assert
<1>9. \A o \in OrderId : RequestKept(o)
  BY <1>7 DEF RequestKept
<1>10. ScriptInv'
  BY <1>1, <1>2, <1>9, ScriptInvKept DEF SameOrders, Opening, Closing
<1>11. ShopInv'
  BY <1>1, <1>2, <1>5 DEF ShopInv, OnMenu, Sold, Reserved
<1>12. RefusalInv'
  BY <1>2, <1>5, <1>7 DEF RefusalInv, Lost, Reserved
<1>13. \A h \in Handler : calls[h] = Idle
  BY <1>1, <1>2 DEF HandlerInv, WorksOn
<1>14. HandlerInv'
  BY <1>2, <1>5, <1>13 DEF HandlerInv
<1>15. \A o \in Late : ~Exists(o)'
  <2>1. \A o \in Late : ~Exists(o)
    BY <1>1, <1>2 DEF ScriptInv
  <2> QED BY <1>7, <2>1 DEF Late
<1>16. AnswerInv'
  <2>1. Decided(1)'
    BY <1>7 DEF Decided
  <2> QED BY <1>1, <1>15, <2>1 DEF AnswerInv
<1>17. KitchenInv'
  BY <1>1, <1>7 DEF KitchenInv, Closing
<1> QED BY <1>1, <1>8, <1>10, <1>11, <1>12, <1>14, <1>16, <1>17
    DEF SmokeInv, FailureInv

\* Before the first checkout nothing is ordered, reserved or answered.
LEMMA BeforeOrders ==
    ASSUME IInv, SmokeInv, line \in {"restaurant", "dishes"}
    PROVE  /\ ScriptInv /\ ShopInv /\ RefusalInv /\ HandlerInv
           /\ \A o \in OrderId : ~Exists(o) /\ ~Reserved(o)
           /\ \A h \in Handler : calls[h] = Idle
<1>1. ScriptInv /\ ShopInv /\ RefusalInv /\ HandlerInv
  BY DEF SmokeInv
<1>2. \A o \in OrderId : ~Exists(o)
  BY <1>1 DEF ScriptInv, Opening, Closing, Late
<1>3. \A o \in OrderId : ~Reserved(o)
  BY <1>2 DEF IInv, RowInv, ReservationInv, Reserved
<1>4. \A h \in Handler : calls[h] = Idle
  BY <1>1 DEF HandlerInv, WorksOn
<1> QED BY <1>1, <1>2, <1>3, <1>4

\* What is left of the invariant to show then
LEMMA OpeningKept ==
    ASSUME IInv, SmokeInv, line \in {"restaurant", "dishes"},
           line' \in {"dishes", "order"}, ~failed, ShopInv',
           UNCHANGED <<orders, calls, reservations, answers, failed>>
    PROVE  SmokeInv'
<1>1. /\ ScriptInv /\ RefusalInv /\ HandlerInv
      /\ \A o \in OrderId : ~Exists(o) /\ ~Reserved(o)
      /\ \A h \in Handler : calls[h] = Idle
  BY BeforeOrders
<1>2. ScriptInv'
  BY <1>1, ScriptInvKept DEF RequestKept, SameOrders, Opening, Closing
<1>3. RefusalInv'
  BY <1>1 DEF RefusalInv, Lost, Reserved
<1>4. HandlerInv'
  BY <1>1 DEF HandlerInv
<1>5. AnswerInv'
  BY <1>1 DEF AnswerInv, Opening, Late
<1>6. KitchenInv'
  BY DEF KitchenInv, Closing
<1> QED BY <1>2, <1>3, <1>4, <1>5, <1>6 DEF SmokeInv, FailureInv

LEMMA RestaurantAdded ==
    ASSUME IInv, SmokeInv, AddRestaurant
    PROVE  SmokeInv'
<1>1. /\ line = "restaurant" /\ line' = "dishes" /\ ~failed
      /\ UNCHANGED <<orders, calls, dishes, reservations, answers, failed>>
  BY DEF AddRestaurant, Go, CreateRestaurant, orderVars
<1>2. ShopInv'
  BY <1>1, BeforeOrders DEF ShopInv, OnMenu, Sold, Reserved
<1> QED BY <1>1, <1>2, OpeningKept

LEMMA FourDishes == Cardinality(Dish) = 4
<1> DEFINE D1 == {"rice"}
           D2 == D1 \cup {"soup"}
           D3 == D2 \cup {"last"}
<1>1. IsFiniteSet(D1) /\ Cardinality(D1) = 1
  BY FS_Singleton
<1>2. "soup" \notin D1 /\ "last" \notin D2 /\ "declined" \notin D3
  OBVIOUS
<1>3. D3 \cup {"declined"} = Dish
  BY DishesOnMenu
<1> HIDE DEF D1
<1>4. IsFiniteSet(D2) /\ Cardinality(D2) = 1 + 1
  BY <1>1, <1>2, FS_AddElement
<1> HIDE DEF D2
<1>5. IsFiniteSet(D3) /\ Cardinality(D3) = 1 + 1 + 1
  BY <1>2, <1>4, FS_AddElement
<1> HIDE DEF D3
<1>6. Cardinality(D3 \cup {"declined"}) = 1 + 1 + 1 + 1
  BY <1>2, <1>5, FS_AddElement
<1> QED BY <1>3, <1>6

\* The last of the four dishes is created when the other three are on sale.
LEMMA DishAdded ==
    ASSUME IInv, SmokeInv, AddDishes
    PROVE  SmokeInv'
<1> DEFINE Selling == {d \in Dish : OnSale(d)}
<1>1. /\ line = "dishes" /\ ~failed
      /\ line' = IF Cardinality(Selling) = 3 THEN "order" ELSE "dishes"
      /\ UNCHANGED <<orders, calls, reservations, answers, failed>>
  BY DEF AddDishes, Go, AddDish, orderVars
<1>2. PICK d \in Dish : /\ dishes[d] = Unissued
                        /\ dishes' = [dishes EXCEPT ![d] =
                            [restaurantId |-> "smoke", priceVnd |-> Menu[d].priceVnd,
                             stock |-> Menu[d].stock]]
  BY DEF AddDishes, AddDish
<1>3. ShopInv /\ \A o \in OrderId : ~Reserved(o)
  BY <1>1, BeforeOrders
<1>4. \A e \in Dish : dishes'[e] = IF e = d
                      THEN [restaurantId |-> "smoke", priceVnd |-> Menu[d].priceVnd,
                            stock |-> Menu[d].stock] ELSE dishes[e]
  BY <1>2 DEF IInv, TypeOK, CatalogTypeOK
<1>5. ASSUME NEW e \in Dish
      PROVE  Sold(e) = 0 /\ OnMenu(e)' = OnMenu(e)
  <2>1. Sold(e)' = Sold(e)
    BY <1>1 DEF Sold, Reserved
  <2>2. Sold(e) = 0
    BY <1>3, DishesOnMenu, SoldOfDish, SmokeAssumption DEF Late
  <2> QED BY <2>1, <2>2 DEF OnMenu
<1>6. dishes'[d] = OnMenu(d)'
  <2>1. Menu[d].stock - Sold(d) = Menu[d].stock
    BY <1>5, DishesOnMenu, MenuOfDish
  <2> QED BY <1>4, <1>5, <2>1 DEF OnMenu
<1>7. \A e \in Dish : dishes'[e] \in {Unissued, OnMenu(e)'}
  BY <1>3, <1>4, <1>5, <1>6 DEF ShopInv
<1>8. line' = "order" => \A e \in Dish : dishes'[e] = OnMenu(e)'
  <2>1. ASSUME Cardinality(Selling) = 3, NEW e \in Dish, e # d
        PROVE  OnSale(e)
    <3>1. IsFiniteSet(Dish \ {d}) /\ Cardinality(Dish \ {d}) = 3
      BY FourDishes, IdAssumption, FS_RemoveElement
    <3>2. Selling \in SUBSET (Dish \ {d})
      BY <1>2 DEF OnSale
    <3>3. Selling = Dish \ {d}
      BY <2>1, <3>1, <3>2, FS_Subset
    <3> QED BY <2>1, <3>3
  <2>2. ASSUME NEW e \in Dish, e # d, OnSale(e)
        PROVE  dishes'[e] = OnMenu(e)'
    BY <1>4, <1>7, <2>2 DEF OnSale
  <2> QED BY <1>1, <1>6, <2>1, <2>2
<1>9. ShopInv'
  BY <1>1, <1>3, <1>7, <1>8, SmokeAssumption DEF ShopInv, Reserved, Late
<1> QED BY <1>1, <1>9, OpeningKept

LEMMA RestaurantDeleted ==
    ASSUME SmokeInv, Delete
    PROVE  SmokeInv'
BY DEF Delete, Go, SmokeInv, FailureInv

-----------------------------------------------------------------------------
(* The invariant, and what it is for                                         *)

LEMMA ScriptKeepsInv ==
    ASSUME IInv, SmokeInv, Script
    PROVE  SmokeInv'
<1>1. CASE AddRestaurant \/ AddDishes \/ Delete
  BY <1>1, RestaurantAdded, DishAdded, RestaurantDeleted
<1>2. CASE Idempotency
  BY <1>2, IdempotencyLooks, FirstPost, RetryPost, OtherCartPost DEF Idempotency
<1>3. CASE Kitchen
  <2>1. ~failed
    BY <1>3 DEF Kitchen, Go
  <2> QED BY <1>3, <2>1, KitchenLooks, PatchMoves DEF Kitchen
<1>4. CASE Decline
  BY <1>4, DeclinedPost, DeclineLooks DEF Decline
<1>5. CASE Burst
  BY <1>5, LastPost, BurstLooks DEF Burst
<1> QED BY <1>1, <1>2, <1>3, <1>4, <1>5 DEF Script

LEMMA NothingChanges ==
    ASSUME SmokeInv, UNCHANGED smokeVars
    PROVE  SmokeInv'
<1>1. /\ UNCHANGED <<orders, calls, restaurants, dishes, reservations>>
      /\ UNCHANGED <<line, answers, failed>>
  BY DEF smokeVars, vars, orderVars, catalogVars
<1>2. FailureInv' /\ failed' \in BOOLEAN
  BY <1>1 DEF SmokeInv, FailureInv, Lost, Reserved, Late
<1>3. ASSUME line # "done"
      PROVE  ScriptInv' /\ ShopInv' /\ RefusalInv'
  <2>1. ScriptInv /\ ShopInv /\ RefusalInv
    BY <1>3 DEF SmokeInv
  <2>2. ScriptInv'
    BY <1>1, <2>1 DEF ScriptInv, IsOrderOf, SameKey, SameCart
  <2>3. ShopInv'
    BY <1>1, <2>1 DEF ShopInv, OnMenu, Sold, Reserved
  <2>4. RefusalInv'
    BY <1>1, <2>1 DEF RefusalInv, Lost, Reserved
  <2> QED BY <2>2, <2>3, <2>4
<1>4. ASSUME line # "done"
      PROVE  HandlerInv' /\ AnswerInv' /\ KitchenInv'
  BY <1>1, <1>4
  DEF SmokeInv, HandlerInv, WorksOn, AnswerInv, Decided, Lost, Reserved, KitchenInv
<1> QED BY <1>1, <1>2, <1>3, <1>4 DEF SmokeInv

LEMMA SmokeStep ==
    ASSUME IInv, IInv', SmokeInv, [Services \/ Script]_smokeVars
    PROVE  SmokeInv'
BY ServicesKeepInv, ScriptKeepsInv, NothingChanges

LEMMA SmokeStart ==
    ASSUME SmokeInit
    PROVE  SmokeInv
<1>1. /\ line = "restaurant" /\ answers = [h \in Handler |-> 0] /\ failed = FALSE
      /\ orders = [o \in OrderId |-> Null] /\ calls = [c \in Caller |-> Idle]
      /\ dishes = [d \in Dish |-> Unissued]
      /\ reservations = [o \in OrderId |-> Null]
  BY DEF SmokeInit, Init, OrdersInit, CatalogInit
<1>2. 1 \in OrderId /\ 2 \in OrderId /\ Handler \subseteq Caller
  BY SmokeAssumption DEF Caller
<1>3. \A o \in OrderId : ~Exists(o) /\ ~Reserved(o)
  BY <1>1 DEF Reserved
<1>4. ScriptInv /\ ShopInv
  BY <1>1, <1>2, <1>3 DEF ScriptInv, ShopInv, Opening, Closing, Late
<1>5. RefusalInv /\ HandlerInv
  BY <1>1, <1>2, <1>3 DEF RefusalInv, HandlerInv, Idle
<1>6. AnswerInv /\ KitchenInv
  BY <1>1, <1>3 DEF AnswerInv, KitchenInv, Opening, Closing, Late
<1> QED BY <1>1, <1>4, <1>5, <1>6 DEF SmokeInv, FailureInv

\* Whatever the services do in between, the test is where its own invariant
\* says: its orders, the shelf, what was refused, and what each answer means.
THEOREM SmokeInvariance == SmokeSpec => []SmokeInv
<1>1. SmokeInit => SmokeInv
  BY SmokeStart
<1>2. IInv /\ IInv' /\ SmokeInv /\ [Services \/ Script]_smokeVars => SmokeInv'
  BY SmokeStep
<1> QED BY <1>1, <1>2, ScriptIsClient, Invariance, PTL DEF SmokeSpec

\* When the burst is counted, the one order of it that was not refused was
\* answered 201, whatever the others were answered.
LEMMA OneOfTheBurst ==
    ASSUME IInv, SmokeInv, line = "counted"
    PROVE  /\ \A h \in Handler : answers[h] \in {201, 409}
           /\ \E p \in OrderId :
                {o \in OrderId : /\ Exists(o) /\ orders[o].requestKey \in Handler
                                 /\ answers[orders[o].requestKey] = 201
                                 /\ ~orders[o].failure} = {p}
<1>1. ScriptInv /\ ShopInv /\ RefusalInv /\ HandlerInv /\ AnswerInv
  BY DEF SmokeInv
<1>2. /\ \A h \in Handler : answers[h] \in {201, 409}
      /\ \A h \in Handler : \E o \in Late : Exists(o) /\ orders[o].requestKey = h
  BY <1>1 DEF HandlerInv, AnswerInv
<1>3. ASSUME NEW o \in OrderId, Exists(o), orders[o].requestKey \in Handler
      PROVE  o \in Late /\ Decided(o)
  <2>1. "key" \notin Handler /\ "declined" \notin Handler
    BY SmokeAssumption
  <2>2. o # 1 /\ o # 2
    BY <1>1, <1>3, <2>1, OrdersOfScript, FirstCart, DeclinedCart DEF IsOrderOf, SameKey
  <2> QED BY <1>1, <1>2, <1>3, <2>2 DEF Late, AnswerInv
<1>4. PICK p \in Late : Reserved(p)
  <2>1. PICK h \in Handler : TRUE
    BY SmokeAssumption
  <2>2. PICK o \in Late : Exists(o) /\ orders[o].requestKey = h
    BY <1>2
  <2>3. Decided(o) /\ o # 2
    BY <1>3, <2>2 DEF Late
  <2> QED BY <1>1, <2>3, LateDecided DEF Lost
<1>5. p \in OrderId /\ Exists(p) /\ orders[p].requestKey \in Handler
  <2>1. p \in OrderId /\ Exists(p)
    BY <1>1, <1>4, ReturnedOnly DEF Late
  <2>2. PICK h \in Handler : IsOrderOf(p, LastPortion(h))
    BY <1>1, <1>4, <2>1, OrdersOfScript
  <2> QED BY <2>1, <2>2, LastCart DEF IsOrderOf, SameKey
<1>6. ~Lost(p)
  BY <1>1, <1>4 DEF Lost, ShopInv, Late
<1>7. ~orders[p].failure /\ answers[orders[p].requestKey] = 201
  BY <1>1, <1>2, <1>3, <1>4, <1>5, <1>6 DEF RefusalInv, AnswerInv
<1>8. ASSUME NEW o \in OrderId, Exists(o), orders[o].requestKey \in Handler,
             ~orders[o].failure
      PROVE  o = p
  <2>1. o \in Late /\ Decided(o)
    BY <1>3, <1>8
  <2>2. Reserved(o)
    BY <1>1, <1>8, <2>1, LateDecided
  <2> QED BY <1>1, <1>4, <2>1, <2>2 DEF ShopInv
<1>9. {o \in OrderId : /\ Exists(o) /\ orders[o].requestKey \in Handler
                       /\ answers[orders[o].requestKey] = 201
                       /\ ~orders[o].failure} = {p}
  BY <1>5, <1>7, <1>8
<1> QED BY <1>2, <1>5, <1>9

LEMMA OnlyAStatus ==
    ASSUME IInv, SmokeInv
    PROVE  FailsByStatusOnly
<1> DEFINE Accepted201 == {o \in OrderId : /\ Exists(o) /\ orders[o].requestKey \in Handler
                                           /\ answers[orders[o].requestKey] = 201}
           Bought201 == {o \in Accepted201 : ~orders[o].failure}
<1>1. ASSUME failed, line = "cancelled"
      PROVE  reservations[2] # Null /\ reservations[2].released
  BY <1>1 DEF SmokeInv, FailureInv, Lost, Late, Reserved
<1>2. ASSUME line = "counted"
      PROVE  (\A h \in Handler : answers[h] \in {201, 409}) /\ Cardinality(Bought201) = 1
  <2>1. PICK p \in OrderId :
            {o \in OrderId : /\ Exists(o) /\ orders[o].requestKey \in Handler
                             /\ answers[orders[o].requestKey] = 201
                             /\ ~orders[o].failure} = {p}
    BY <1>2, OneOfTheBurst
  <2>2. Bought201 = {p}
    BY <2>1
  <2>3. Cardinality(Bought201) = 1
    BY <2>2, FS_Singleton
  <2> QED BY <1>2, <2>3, OneOfTheBurst
<1>3. failed => line \in {"cancelled", "counted"}
  BY DEF SmokeInv, FailureInv
<1> QED BY <1>1, <1>2, <1>3 DEF FailsByStatusOnly

\* Every assertion of the smoke test holds in every run of it but for two
\* statuses: the declined checkout may be answered 409 once its portion has been
\* returned, and of the burst a refused order may be answered 201; never is a
\* total, a stock or a count of portions wrong, nor is the last portion sold
\* twice or not at all.
THEOREM SmokeFailsByStatusOnly == SmokeSpec => []FailsByStatusOnly
<1>1. IInv /\ SmokeInv => FailsByStatusOnly
  BY OnlyAStatus
<1> QED BY <1>1, SmokeInvariance, ScriptIsClient, Invariance, PTL

=============================================================================
