------------------------- MODULE CatalogLocksProofs --------------------------
(* Proofs about the transactions of restaurant-service statement by          *)
(* statement: for any number of connections, dishes and restaurants, and any *)
(* order in which a cascade meets the dishes, they are atomic, they answer   *)
(* what Catalog says, and only a removal can close a circle of waits.        *)
EXTENDS CatalogLocks, CatalogProofs, WellFoundedInduction

-----------------------------------------------------------------------------
(* The inductive invariant *)

\* What the look-up found is still so: the lock taken before it protects it.
Looked(s) ==
    /\ job[s].op = "reserve" => reservations[job[s].id] = Null
    /\ job[s].op = "release" => Holds(job[s].id)
    /\ job[s].op = "remove" => restaurants[job[s].restaurant] = "live"

\* The condition under which a statement of the transaction finds the row
Meant(s, d) ==
    /\ job[s].op = "reserve" =>
            d \in Ordered(job[s].cart) /\ ~Unavailable(job[s].cart, d)
    /\ job[s].op = "release" => d \in Ordered(reservations[job[s].id])
    /\ job[s].op = "remove" => dishes[d].restaurantId = job[s].restaurant

\* What the transaction wrote is what it would write now: its row locks keep
\* the committed row as it was.
RowsCurrent(s) ==
    \A d \in DOMAIN dirty[s] :
        OnSale(d) /\ Meant(s, d) /\ dirty[s][d] = Written(s, d)

\* Items are taken in the order of their ids.
Ascending(s) ==
    job[s].op # "remove" =>
        \A d \in DOMAIN dirty[s], e \in Todo(s) : d < e

OpenInv(s) == at[s] = "items" => Looked(s) /\ RowsCurrent(s) /\ Ascending(s)

\* Nobody holds the lock of another.
Exclusive ==
    \A s, t \in Session : s # t =>
        /\ DOMAIN dirty[s] \cap DOMAIN dirty[t] = {}
        /\ HoldsFirst(t, FirstLock(t)) => ~HoldsFirst(s, FirstLock(t))

\* A reserved dish has been on sale, and no row has a wide id.
Issued ==
    /\ \A id \in OrderId : reservations[id] # Null =>
            \A d \in Ordered(reservations[id]) : dishes[d] # Unissued
    /\ \A w \in WideDish : dishes[w] = Unissued

\* The writes of each session, as functions
DirtyRows ==
    /\ dirty = [s \in Session |-> dirty[s]]
    /\ \A s \in Session :
        dirty[s] = [d \in DOMAIN dirty[s] |-> dirty[s][d]]

LocksInv ==
    /\ LocksTypeOK /\ DirtyRows /\ Issued /\ Exclusive
    /\ \A s \in Session : OpenInv(s)

-----------------------------------------------------------------------------
(* Data *)

\* A non-empty set of dishes has one with the largest id.
LEMMA LargestDish ==
    ASSUME NEW D \in SUBSET Dish, D # {}
    PROVE  \E d \in D : \A e \in D : e =< d
<1> PICK top \in Dish : \A d \in Dish : d =< top
  BY LocksAssumption
<1> DEFINE Gaps == {top - d : d \in D}
<1>1. D \subseteq Nat /\ top \in Nat /\ \A d \in D : d =< top
  BY LocksAssumption
<1>2. Gaps \subseteq Nat
  BY <1>1
<1>3. Gaps # {}
  OBVIOUS
<1>4. \E x \in Gaps : \A y \in Gaps : ~(<<y, x>> \in OpToRel(<, Nat))
  BY <1>2, <1>3, WFMin, NatLessThanWellFounded
<1>5. \E x \in Gaps : \A y \in Gaps : ~(y < x)
  BY <1>2, <1>4 DEF OpToRel
<1>6. PICK d \in D : \A e \in D : ~(top - e < top - d)
  BY <1>5
<1> QED BY <1>1, <1>6

\* What a transaction is for, by the kind of it
LEMMA JobFields ==
    ASSUME LocksTypeOK, NEW s \in Session, at[s] # "idle"
    PROVE  /\ job[s].op \in {"reserve", "release", "remove"}
           /\ job[s].op \in {"reserve", "release"} =>
                job[s].id \in OrderId /\ job[s].rank = ById
           /\ job[s].op = "reserve" =>
                /\ job[s].cart \in Cart /\ job[s].cart.items \in Items
                /\ job[s].cart.restaurantId \in Restaurant
           /\ job[s].op = "remove" => job[s].restaurant \in Restaurant
<1>1. job[s] \in Job
  BY DEF LocksTypeOK
<1>2. CASE job[s] \in Reserving
  BY <1>2, LocksAssumption DEF Reserving, Cart
<1>3. CASE job[s] \in Releasing
  BY <1>3 DEF Releasing
<1>4. CASE job[s] \in Removing
  BY <1>4 DEF Removing
<1> QED BY <1>1, <1>2, <1>3, <1>4 DEF Job

\* What is yet to do consists of dishes that are not written.
LEMMA TodoDishes ==
    ASSUME LocksTypeOK, NEW s \in Session, at[s] # "idle"
    PROVE  Todo(s) \subseteq Dish \ DOMAIN dirty[s]
<1>1. job[s].op \in {"reserve", "release", "remove"}
  BY JobFields
<1> QED BY <1>1 DEF Todo, Ordered

\* The next dish of a reservation or a release has the smallest id of those
\* yet to do.
LEMMA NextIsSmallest ==
    ASSUME LocksTypeOK, NEW s \in Session, NEW d, IsNext(s, d),
           job[s].op # "remove"
    PROVE  d \in Dish /\ \A e \in Todo(s) : d =< e
<1>1. at[s] = "items" /\ d \in Todo(s)
  BY DEF IsNext
<1>2. Todo(s) \subseteq Dish
  BY <1>1, TodoDishes
<1>3. job[s].rank = [e \in Dish |-> e]
  BY <1>1, JobFields DEF ById
<1> QED BY <1>1, <1>2, <1>3 DEF IsNext

\* A written row is of the kind the transaction writes.
LEMMA WrittenRow ==
    ASSUME LocksTypeOK, NEW s \in Session, at[s] # "idle", NEW d \in Dish,
           OnSale(d), Meant(s, d), Looked(s)
    PROVE  /\ job[s].op # "remove" =>
                Written(s, d) \in DishRow
                /\ Written(s, d).priceVnd = dishes[d].priceVnd
           /\ job[s].op = "remove" => Written(s, d) = Deleted
<1>1. CatalogTypeOK
  BY DEF LocksTypeOK
<1>2. dishes[d] \in DishRow /\ dishes[d].stock \in Nat
  BY <1>1, RowOnSale
<1>3. \A n \in Nat : /\ [dishes[d] EXCEPT !.stock = n] \in DishRow
                     /\ [dishes[d] EXCEPT !.stock = n].priceVnd = dishes[d].priceVnd
  BY <1>2 DEF DishRow
<1>4. CASE job[s].op = "reserve"
  <2>1. job[s].cart.items[d] \in Nat
    BY <1>4, JobFields, QuantityInNat
  <2>2. ~(dishes[d].stock < job[s].cart.items[d])
    BY <1>4 DEF Meant, Unavailable
  <2>3. dishes[d].stock - job[s].cart.items[d] \in Nat
    BY <1>2, <2>1, <2>2
  <2> QED BY <1>3, <1>4, <2>3 DEF Written
<1>5. CASE job[s].op = "release"
  <2>1. reservations[job[s].id] \in Reservation
    BY <1>1, <1>5, JobFields DEF Looked, Holds, CatalogTypeOK
  <2>2. reservations[job[s].id].items[d] \in Nat
    BY <2>1, QuantityInNat DEF Reservation
  <2>3. dishes[d].stock + reservations[job[s].id].items[d] \in Nat
    BY <1>2, <2>2
  <2> QED BY <1>3, <1>5, <2>3 DEF Written
<1>6. CASE job[s].op = "remove"
  BY <1>6 DEF Written
<1> QED BY <1>4, <1>5, <1>6, JobFields

-----------------------------------------------------------------------------
(* Every transaction is one step of Catalog, when it commits. *)

\* The rows a session has written, of type and as the transaction means them
LEMMA RowsOf ==
    ASSUME LocksInv, NEW s \in Session, NEW d \in DOMAIN dirty[s]
    PROVE  /\ at[s] = "items" /\ d \in Dish
           /\ OnSale(d) /\ Meant(s, d) /\ dirty[s][d] = Written(s, d)
           /\ dishes[d] \in DishRow /\ d \notin WideDish
           /\ job[s].op # "remove" =>
                dirty[s][d] \in DishRow
                /\ dirty[s][d].priceVnd = dishes[d].priceVnd
           /\ job[s].op = "remove" => dirty[s][d] = Deleted
<1>1. at[s] = "items" /\ d \in Dish
  <2>1. dirty[s] # << >>
    OBVIOUS
  <2> QED BY <2>1 DEF LocksInv, LocksTypeOK
<1>2. Looked(s) /\ OnSale(d) /\ Meant(s, d) /\ dirty[s][d] = Written(s, d)
  BY <1>1 DEF LocksInv, OpenInv, RowsCurrent
<1>3. dishes[d] \in DishRow
  BY <1>1, <1>2, RowOnSale DEF LocksInv, LocksTypeOK
<1>4. d \notin WideDish
  BY <1>2 DEF LocksInv, Issued, OnSale
<1> QED BY <1>1, <1>2, <1>3, <1>4, WrittenRow DEF LocksInv

\* A reservation that has found every item has found the dishes of the cart.
LEMMA AllTaken ==
    ASSUME LocksInv, NEW s \in Session, Finished(s, "reserve")
    PROVE  /\ DOMAIN dirty[s] = Ordered(job[s].cart)
           /\ \A d \in Ordered(job[s].cart) : ~Unavailable(job[s].cart, d)
           /\ ReadPrices(s) = PricesNow(job[s].cart)
<1>1. Ordered(job[s].cart) \subseteq DOMAIN dirty[s]
  BY DEF Finished, Todo
<1>2. \A d \in DOMAIN dirty[s] :
        /\ d \in Ordered(job[s].cart)
        /\ ~Unavailable(job[s].cart, d)
        /\ dirty[s][d].priceVnd = dishes[d].priceVnd
  BY RowsOf DEF Finished, Meant
<1>3. DOMAIN dirty[s] = Ordered(job[s].cart)
  BY <1>1, <1>2
<1> QED BY <1>2, <1>3 DEF ReadPrices, PricesNow

\* reserve() commits what Reserve does.
LEMMA ReserveCommits ==
    ASSUME LocksInv, NEW s \in Session, CommitReserve(s)
    PROVE  /\ job[s].id \in OrderId /\ job[s].cart \in Cart
           /\ Reservable(job[s].id, job[s].cart)
           /\ Reserve(job[s].id, job[s].cart)
<1> DEFINE id == job[s].id  cart == job[s].cart
<1>1. at[s] = "items" /\ job[s].op = "reserve" /\ Finished(s, "reserve")
  BY DEF CommitReserve, Finished
<1>2. id \in OrderId /\ cart \in Cart
  BY <1>1, JobFields DEF LocksInv
<1>3. reservations[id] = Null
  BY <1>1 DEF LocksInv, OpenInv, Looked
<1>4. Total(cart.items, PricesNow(cart)) =< MaxTotalVnd
  BY <1>1, AllTaken DEF CommitReserve, TotalOf
<1>5. Reservable(id, cart)
  BY <1>1, <1>3, <1>4, AllTaken DEF Reservable
<1>6. \A d \in DOMAIN dirty[s] :
        dirty[s][d] = [dishes[d] EXCEPT !.stock = @ - cart.items[d]]
  BY <1>1, RowsOf DEF Written
<1>7. dishes' = [d \in Dish |->
                    IF d \in Ordered(cart)
                    THEN [dishes[d] EXCEPT !.stock = @ - cart.items[d]]
                    ELSE dishes[d]]
  BY <1>1, <1>6, AllTaken DEF CommitReserve, CommitDishes
<1>8. reservations' = [reservations EXCEPT ![id] =
            [restaurantId |-> cart.restaurantId, items |-> cart.items,
             prices |-> PricesNow(cart), released |-> FALSE]]
  BY <1>1, AllTaken DEF CommitReserve
<1> QED BY <1>2, <1>5, <1>7, <1>8 DEF Reserve, CommitReserve

\* release() commits what Release does: an item of quantity 0 is not touched.
LEMMA ReleaseCommits ==
    ASSUME LocksInv, NEW s \in Session, CommitRelease(s)
    PROVE  job[s].id \in OrderId /\ Release(job[s].id)
<1> DEFINE id == job[s].id
<1>1. at[s] = "items" /\ job[s].op = "release" /\ Todo(s) = {}
  BY DEF CommitRelease, Finished
<1>2. id \in OrderId
  BY <1>1, JobFields DEF LocksInv
<1>3. reservations[id] # Null /\ ~reservations[id].released
  BY <1>1 DEF LocksInv, OpenInv, Looked, Holds
<1>4. CatalogTypeOK
  BY DEF LocksInv, LocksTypeOK
<1>5. reservations[id].items \in Items
  BY <1>2, <1>3, <1>4 DEF CatalogTypeOK, Reservation
<1>6. ASSUME NEW d \in Dish
      PROVE  dishes'[d] = IF OnSale(d)
                          THEN [dishes[d] EXCEPT
                                  !.stock = @ + reservations[id].items[d]]
                          ELSE dishes[d]
  <2>1. dishes'[d] = IF d \in DOMAIN dirty[s] THEN dirty[s][d] ELSE dishes[d]
    BY DEF CommitRelease, CommitDishes
  <2>2. CASE d \in DOMAIN dirty[s]
    BY <1>1, <2>1, <2>2, RowsOf DEF Written
  <2>3. CASE d \notin DOMAIN dirty[s] /\ OnSale(d)
    <3>1. d \notin Ordered(reservations[id])
      BY <1>1, <2>3 DEF Todo
    <3>2. reservations[id].items[d] = 0
      BY <1>5, <3>1, QuantityInNat DEF Ordered
    <3>3. dishes[d] \in DishRow /\ dishes[d].stock \in Nat
      BY <1>4, <2>3, RowOnSale
    <3>4. dishes[d] = [dishes[d] EXCEPT !.stock = @ + 0]
      BY <3>3 DEF DishRow
    <3> QED BY <2>1, <2>3, <3>2, <3>4
  <2>4. CASE d \notin DOMAIN dirty[s] /\ ~OnSale(d)
    BY <2>1, <2>4
  <2> QED BY <2>2, <2>3, <2>4
<1>7. dishes' = [d \in Dish |->
                    IF OnSale(d)
                    THEN [dishes[d] EXCEPT
                            !.stock = @ + reservations[id].items[d]]
                    ELSE dishes[d]]
  BY <1>6 DEF CommitRelease, CommitDishes
<1> QED BY <1>2, <1>3, <1>7 DEF Release, CommitRelease

\* The deletion of a restaurant commits what RemoveRestaurant does.
LEMMA RemoveCommits ==
    ASSUME LocksInv, NEW s \in Session, CommitRemove(s)
    PROVE  job[s].restaurant \in Restaurant /\ RemoveRestaurant(job[s].restaurant)
<1> DEFINE r == job[s].restaurant
<1>1. at[s] = "items" /\ job[s].op = "remove" /\ Todo(s) = {}
  BY DEF CommitRemove, Finished
<1>2. r \in Restaurant
  BY <1>1, JobFields DEF LocksInv
<1>3. restaurants[r] = "live"
  BY <1>1 DEF LocksInv, OpenInv, Looked
<1>4. \A d \in DOMAIN dirty[s] :
        OnSale(d) /\ dishes[d].restaurantId = r /\ dirty[s][d] = Deleted
  BY <1>1, RowsOf DEF Meant
<1>5. \A d \in Dish : OnSale(d) /\ dishes[d].restaurantId = r =>
        d \in DOMAIN dirty[s]
  BY <1>1 DEF Todo
<1>6. dishes' = [d \in Dish |->
                    IF OnSale(d) /\ dishes[d].restaurantId = r
                    THEN Deleted ELSE dishes[d]]
  BY <1>4, <1>5 DEF CommitRemove, CommitDishes
<1> QED BY <1>2, <1>3, <1>6 DEF RemoveRestaurant, CommitRemove

\* The statements of the administrator are the operations of Catalog.
LEMMA AdminCommits ==
    ASSUME LocksInv, AdminStatement
    PROVE  Administer
<1>1. CatalogTypeOK
  BY DEF LocksInv, LocksTypeOK
<1>2. PICK r \in Restaurant :
        \/ CreateRestaurant(r)
        \/ \E d \in Dish, price \in Price, stock \in NewStock :
              AddDish(r, d, price, stock)
        \/ \E d \in Dish : RemoveDish(r, d)
        \/ \E d \in Dish :
             /\ OnSale(d)
             /\ \E price \in Price \cup {dishes[d].priceVnd},
                   stock \in Restock \cup {dishes[d].stock} :
                   UpdateDish(r, d, price, stock)
  BY DEF AdminStatement
<1>3. ASSUME NEW d \in Dish, OnSale(d),
             NEW price \in Price \cup {dishes[d].priceVnd},
             NEW stock \in Restock \cup {dishes[d].stock},
             UpdateDish(r, d, price, stock)
      PROVE  Reprice \/ SetStock
  <2>1. price \in Price
    BY <1>1, <1>3, RowOnSale
  <2>2. CASE stock \in Restock
    BY <1>3, <2>2 DEF SetStock
  <2>3. CASE stock = dishes[d].stock
    BY <1>3, <2>1, <2>3 DEF Reprice
  <2> QED BY <2>2, <2>3
<1> QED BY <1>2, <1>3 DEF Administer, PutOnSale, TakeOffSale

\* The other statements show nothing to anybody.
LEMMA StepIsCatalogStep ==
    ASSUME LocksInv, [LocksNext]_locksVars
    PROVE  [CatalogNext]_catalogVars
<1> USE DEF catalogVars
<1>1. CASE AdminStatement
  BY <1>1, AdminCommits DEF CatalogNext
<1>2. ASSUME NEW s \in Session, NEW j \in Job, Begin(s, j)
      PROVE  UNCHANGED catalogVars
  BY <1>2 DEF Begin
<1>3. ASSUME NEW s \in Session, Step(s)
      PROVE  [CatalogNext]_catalogVars
  <2>1. CASE Lock(s) \/ Look(s) \/ Write(s)
    BY <2>1 DEF Lock, Look, Write
  <2>2. CASE LookDone(s) \/ RefuseWide(s) \/ RefuseUnavailable(s) \/ RefuseTotal(s)
    BY <2>2 DEF LookDone, RefuseWide, RefuseUnavailable, RefuseTotal, Rollback
  <2>3. CASE CommitReserve(s)
    BY <2>3, ReserveCommits DEF CatalogNext, Serve
  <2>4. CASE CommitRelease(s)
    BY <2>4, ReleaseCommits DEF CatalogNext, Serve
  <2>5. CASE CommitRemove(s)
    BY <2>5, RemoveCommits DEF CatalogNext, Administer, TakeOffSale
  <2> QED BY <1>3, <2>1, <2>2, <2>3, <2>4, <2>5 DEF Step
<1>4. ASSUME NEW s \in Session, Fail(s) \/ BreakDeadlock(s)
      PROVE  UNCHANGED catalogVars
  BY <1>4 DEF Fail, BreakDeadlock, Rollback
<1>5. CASE UNCHANGED locksVars
  BY <1>5 DEF locksVars
<1> QED BY <1>1, <1>2, <1>3, <1>4, <1>5 DEF LocksNext

-----------------------------------------------------------------------------
(* The invariant is inductive. *)

\* What the steps of other sessions leave to a session that is at its items
LEMMA OpenKept ==
    ASSUME LocksInv, NEW t \in Session, at[t] = "items",
           job'[t] = job[t], dirty'[t] = dirty[t],
           \A d \in DOMAIN dirty[t] : dishes'[d] = dishes[d],
           \A d \in Dish : OnSale(d)' => OnSale(d) \/ dishes[d] = Unissued,
           job[t].op \in {"reserve", "release"} =>
                reservations'[job[t].id] = reservations[job[t].id],
           job[t].op = "remove" =>
                restaurants'[job[t].restaurant] = restaurants[job[t].restaurant]
    PROVE  OpenInv(t)'
<1>1. Looked(t) /\ RowsCurrent(t) /\ Ascending(t)
  BY DEF LocksInv, OpenInv
<1>2. job[t].op \in {"reserve", "release", "remove"}
  BY JobFields DEF LocksInv
<1>3. Looked(t)'
  BY <1>1, <1>2 DEF Looked, Holds
<1>4. RowsCurrent(t)'
  <2>1. ASSUME NEW d \in DOMAIN dirty[t]
        PROVE  OnSale(d)' /\ Meant(t, d)' /\ Written(t, d)' = Written(t, d)
    <3>1. OnSale(d) /\ Meant(t, d) /\ dishes'[d] = dishes[d]
      BY <1>1 DEF RowsCurrent
    <3>2. OnSale(d)'
      BY <3>1 DEF OnSale
    <3>3. CASE job[t].op = "reserve"
      BY <3>1, <3>3 DEF Meant, Written, Unavailable, OnSale, Ordered
    <3>4. CASE job[t].op = "release"
      BY <3>1, <3>4 DEF Meant, Written, OnSale, Ordered
    <3>5. CASE job[t].op = "remove"
      BY <3>1, <3>5 DEF Meant, Written, OnSale, Ordered
    <3> QED BY <1>2, <3>2, <3>3, <3>4, <3>5
  <2> QED BY <1>1, <2>1 DEF RowsCurrent
<1>5. Ascending(t)'
  <2>1. CASE job[t].op = "reserve"
    <3>1. Todo(t)' = Todo(t)
      BY <2>1 DEF Todo, Ordered
    <3> QED BY <1>1, <3>1 DEF Ascending
  <2>2. CASE job[t].op = "release"
    <3>1. job[t].id \in OrderId /\ reservations[job[t].id] # Null
      BY <1>1, <2>2, JobFields DEF LocksInv, Looked, Holds
    <3>2. \A d \in Ordered(reservations[job[t].id]) : dishes[d] # Unissued
      BY <3>1 DEF LocksInv, Issued
    <3>3. Todo(t)' \subseteq Todo(t)
      BY <2>2, <3>2 DEF Todo, Ordered
    <3> QED BY <1>1, <3>3 DEF Ascending
  <2>3. CASE job[t].op = "remove"
    BY <2>3 DEF Ascending
  <2> QED BY <1>2, <2>1, <2>2, <2>3
<1> QED BY <1>3, <1>4, <1>5 DEF OpenInv

\* A step that ends the transaction of one session at most, and leaves the
\* rows and locks of the others alone, keeps the invariant.
LEMMA EndKept ==
    ASSUME LocksInv, CatalogTypeOK', Issued', NEW s \in Session,
           \/ /\ job' = [job EXCEPT ![s] = Null]
              /\ at' = [at EXCEPT ![s] = "idle"]
              /\ dirty' = [dirty EXCEPT ![s] = << >>]
           \/ UNCHANGED sessionVars,
           \A t \in Session : at'[t] = "items" => OpenInv(t)'
    PROVE  LocksInv'
<1> USE DEF LocksInv
<1>1. CASE UNCHANGED sessionVars
  BY <1>1 DEF sessionVars, LocksTypeOK, DirtyRows, Exclusive, OpenInv,
              HoldsFirst, FirstLock
<1>2. CASE /\ job' = [job EXCEPT ![s] = Null]
           /\ at' = [at EXCEPT ![s] = "idle"]
           /\ dirty' = [dirty EXCEPT ![s] = << >>]
  <2>1. /\ job'[s] = Null /\ at'[s] = "idle" /\ dirty'[s] = << >>
        /\ \A t \in Session \ {s} :
            job'[t] = job[t] /\ at'[t] = at[t] /\ dirty'[t] = dirty[t]
    BY <1>2 DEF LocksTypeOK, DirtyRows
  <2>2. LocksTypeOK'
    BY <1>2, <2>1 DEF LocksTypeOK
  <2>3. DirtyRows'
    BY <1>2, <2>1 DEF DirtyRows
  <2>4. Exclusive'
    <3>1. \A t \in Session : HoldsFirst(t, FirstLock(t))' =>
            t # s /\ HoldsFirst(t, FirstLock(t)) /\ FirstLock(t)' = FirstLock(t)
      BY <2>1 DEF HoldsFirst, FirstLock
    <3>2. \A t, u \in Session : HoldsFirst(t, FirstLock(u))' =>
            t # s /\ (u # s => HoldsFirst(t, FirstLock(u)))
      BY <2>1 DEF HoldsFirst, FirstLock
    <3> QED BY <2>1, <3>1, <3>2 DEF Exclusive
  <2> QED BY <2>2, <2>3, <2>4 DEF OpenInv
<1> QED BY <1>1, <1>2

\* The life of a dish is: not yet issued, a row, deleted.  A wide id is never
\* issued.
LEMMA DishLife ==
    ASSUME CatalogTypeOK, [CatalogNext]_catalogVars, NEW d \in Dish
    PROVE  /\ dishes[d] # Unissued => dishes'[d] # Unissued
           /\ dishes[d] = Deleted => dishes'[d] = Deleted
           /\ d \in WideDish /\ dishes[d] = Unissued => dishes'[d] = Unissued
<1> USE LocksAssumption, RowAssumption DEF CatalogTypeOK, OnSale
<1>1. CASE Administer
  <2>1. ASSUME NEW r \in Restaurant, CreateRestaurant(r)
        PROVE  dishes'[d] = dishes[d]
    BY <2>1 DEF CreateRestaurant
  <2>2. ASSUME NEW r \in Restaurant, RemoveRestaurant(r)
        PROVE  dishes'[d] = dishes[d] \/ (OnSale(d) /\ dishes'[d] = Deleted)
    BY <2>2 DEF RemoveRestaurant
  <2>3. ASSUME NEW r \in Restaurant, NEW e \in Dish, NEW price \in Price,
               NEW stock \in NewStock, AddDish(r, e, price, stock)
        PROVE  \/ dishes'[d] = dishes[d]
               \/ dishes[d] = Unissued /\ d \notin WideDish /\ dishes'[d] \in DishRow
    BY <2>3, CatalogAssumption DEF AddDish, DishRow
  <2>4. ASSUME NEW r \in Restaurant, NEW e \in Dish, NEW price \in Price,
               NEW stock \in Nat, UpdateDish(r, e, price, stock)
        PROVE  dishes'[d] = dishes[d] \/ (OnSale(d) /\ dishes'[d] \in DishRow)
    BY <2>4 DEF UpdateDish, DishRow
  <2>5. ASSUME NEW r \in Restaurant, NEW e \in Dish, RemoveDish(r, e)
        PROVE  dishes'[d] = dishes[d] \/ (OnSale(d) /\ dishes'[d] = Deleted)
    BY <2>5 DEF RemoveDish
  <2>6. CASE PutOnSale
    BY <2>1, <2>3, <2>6 DEF PutOnSale
  <2>7. CASE TakeOffSale
    BY <2>2, <2>5, <2>7 DEF TakeOffSale
  <2>8. CASE Reprice
    <3>1. PICK r \in Restaurant, e \in Dish, price \in Price :
            OnSale(e) /\ UpdateDish(r, e, price, dishes[e].stock)
      BY <2>8 DEF Reprice
    <3>2. dishes[e].stock \in Nat
      BY <3>1, RowOnSale
    <3> QED BY <2>4, <3>1, <3>2
  <2>9. CASE SetStock
    <3>1. PICK r \in Restaurant, e \in Dish, stock \in Restock :
            OnSale(e) /\ \E price \in Price \cup {dishes[e].priceVnd} :
                UpdateDish(r, e, price, stock)
      BY <2>9 DEF SetStock
    <3>2. dishes[e].priceVnd \in Price /\ stock \in Nat
      BY <3>1, RowOnSale, CatalogAssumption
    <3> QED BY <2>4, <3>1, <3>2
  <2> QED BY <1>1, <2>6, <2>7, <2>8, <2>9 DEF Administer
<1>2. ASSUME NEW id \in OrderId, NEW cart \in Cart, Reserve(id, cart)
      PROVE  dishes'[d] = dishes[d] \/ (OnSale(d) /\ dishes'[d] \in DishRow)
  <2>1. cart.items \in Items /\ cart.restaurantId \in Restaurant
    BY DEF Cart
  <2>2. dishes' \in [Dish -> DishRow \cup {Unissued, Deleted}]
    BY <1>2, <2>1, ReserveType DEF CatalogTypeOK
  <2>3. CASE Reservable(id, cart) /\ d \in Ordered(cart)
    <3>1. OnSale(d) /\ dishes[d] \in DishRow
      BY <2>3 DEF Reservable, Unavailable
    <3>2. dishes'[d] = [dishes[d] EXCEPT !.stock = @ - cart.items[d]]
      BY <1>2, <2>3 DEF Reserve
    <3>3. dishes[d].stock - cart.items[d] \in Nat
      <4>1. ~(dishes[d].stock < cart.items[d])
        BY <2>3 DEF Reservable, Unavailable
      <4> QED BY <2>1, <3>1, <4>1, QuantityInNat, RowOnSale
    <3> QED BY <3>1, <3>2, <3>3, RowOnSale
  <2>4. CASE ~(Reservable(id, cart) /\ d \in Ordered(cart))
    BY <1>2, <2>4 DEF Reserve
  <2> QED BY <2>3, <2>4
<1>3. ASSUME NEW id \in OrderId, Release(id)
      PROVE  dishes'[d] = dishes[d] \/ (OnSale(d) /\ dishes'[d] \in DishRow)
  <2>1. CASE OnSale(d)
    <3>1. reservations[id] \in Reservation
      BY <1>3 DEF Release
    <3>2. dishes[d].stock + reservations[id].items[d] \in Nat
      BY <2>1, <3>1, QuantityInNat, RowOnSale DEF Reservation
    <3>3. dishes'[d] =
            [dishes[d] EXCEPT !.stock = @ + reservations[id].items[d]]
      BY <1>3, <2>1 DEF Release
    <3> QED BY <2>1, <3>2, <3>3, RowOnSale
  <2>2. CASE ~OnSale(d)
    BY <1>3, <2>2 DEF Release
  <2> QED BY <2>1, <2>2
<1>4. CASE UNCHANGED catalogVars
  BY <1>4 DEF catalogVars
<1> QED BY <1>1, <1>2, <1>3, <1>4 DEF CatalogNext, Serve

\* Reserved dishes have been issued, and stay so.
LEMMA IssuedKept ==
    ASSUME CatalogTypeOK, Issued, [CatalogNext]_catalogVars
    PROVE  Issued'
<1>1. \A w \in WideDish : dishes'[w] = Unissued
  BY DishLife, CatalogAssumption DEF Issued
<1>2. ASSUME NEW o \in OrderId, reservations'[o] # Null,
             NEW d \in Dish, reservations'[o].items[d] > 0
      PROVE  dishes'[d] # Unissued
  <2>1. CASE reservations'[o] = reservations[o]
    BY <1>2, <2>1, DishLife DEF Issued, Ordered
  <2>2. ASSUME NEW id \in OrderId, Release(id)
        PROVE  /\ reservations[o] # Null
               /\ reservations'[o].items = reservations[o].items
    <3>1. reservations[id] \in Reservation
      BY <2>2 DEF Release, CatalogTypeOK
    <3> QED BY <1>2, <2>2, <3>1 DEF Release, CatalogTypeOK, Reservation
  <2>3. ASSUME NEW id \in OrderId, NEW cart \in Cart, Reserve(id, cart)
        PROVE  dishes'[d] # Unissued
    <3>1. CASE reservations[o] # Null \/ o # id
      BY <2>1, <2>3, <3>1, ReserveEffect
    <3>2. CASE reservations[o] = Null /\ o = id
      <4>1. reservations'[o].items = cart.items /\ Reservable(id, cart)
        BY <1>2, <2>3, <3>2, ReserveEffect DEF SameRequest, Reserve
      <4>2. dishes[d] # Unissued
        BY <1>2, <4>1 DEF Reservable, Unavailable, OnSale, Ordered
      <4> QED BY <4>2, DishLife
    <3> QED BY <3>1, <3>2
  <2>4. CASE Administer \/ UNCHANGED catalogVars
    BY <2>1, <2>4, AdministerType DEF catalogVars
  <2>5. CASE Serve
    <3>1. CASE \E id \in OrderId : Release(id)
      BY <1>2, <2>2, <3>1, DishLife DEF Issued, Ordered
    <3> QED BY <2>3, <2>5, <3>1 DEF Serve
  <2> QED BY <2>4, <2>5 DEF CatalogNext
<1> QED BY <1>1, <1>2 DEF Issued, Ordered


\* The step of the catalogue that a step of a session or of the administrator
\* makes keeps the types and the life of the dishes.
LEMMA CatalogKept ==
    ASSUME LocksInv, [LocksNext]_locksVars
    PROVE  /\ CatalogTypeOK' /\ Issued'
           /\ \A d \in Dish : OnSale(d)' => OnSale(d) \/ dishes[d] = Unissued
<1>1. CatalogTypeOK /\ Issued /\ [CatalogNext]_catalogVars
  BY StepIsCatalogStep DEF LocksInv, LocksTypeOK
<1> QED BY <1>1, CatalogStepType, IssuedKept, DishLife DEF OnSale

\* A session nobody disturbs: the catalog is as it was.
LEMMA OthersKept ==
    ASSUME LocksInv, UNCHANGED catalogVars, NEW t \in Session,
           job'[t] = job[t], at'[t] = at[t], dirty'[t] = dirty[t]
    PROVE  OpenInv(t)'
<1>1. CASE at[t] = "items"
  BY <1>1, OpenKept DEF catalogVars, OnSale
<1>2. CASE at[t] # "items"
  BY <1>2 DEF OpenInv
<1> QED BY <1>1, <1>2

\* The transaction ends without an effect.
LEMMA RollbackKept ==
    ASSUME LocksInv, NEW s \in Session, Rollback(s)
    PROVE  LocksInv'
<1>1. CatalogTypeOK' /\ Issued'
  BY DEF Rollback, catalogVars, LocksInv, LocksTypeOK, CatalogTypeOK, Issued,
         Ordered
<1>2. /\ at'[s] = "idle"
      /\ \A t \in Session \ {s} :
            job'[t] = job[t] /\ at'[t] = at[t] /\ dirty'[t] = dirty[t]
  BY DEF Rollback, LocksInv, LocksTypeOK, DirtyRows
<1>3. \A t \in Session : at'[t] = "items" => OpenInv(t)'
  BY <1>2, OthersKept DEF Rollback
<1> QED BY <1>1, <1>3, EndKept DEF Rollback

\* A commit writes rows that no other session has locked, and a reservation
\* or a restaurant that no other session has locked.
LEMMA CommitKept ==
    ASSUME LocksInv, NEW s \in Session,
           CommitReserve(s) \/ CommitRelease(s) \/ CommitRemove(s),
           [LocksNext]_locksVars
    PROVE  LocksInv'
<1>1. CommitDishes(s) /\ at[s] = "items"
  BY DEF CommitReserve, CommitRelease, CommitRemove, Finished
<1>2. ASSUME NEW t \in Session, at'[t] = "items"
      PROVE  OpenInv(t)'
  <2>1. t # s /\ job'[t] = job[t] /\ at[t] = "items" /\ dirty'[t] = dirty[t]
    BY <1>1, <1>2 DEF CommitDishes, LocksInv, LocksTypeOK, DirtyRows
  <2>2. \A d \in DOMAIN dirty[t] : dishes'[d] = dishes[d]
    <3>1. DOMAIN dirty[t] \subseteq Dish
      BY DEF LocksInv, LocksTypeOK
    <3> QED BY <1>1, <2>1, <3>1 DEF CommitDishes, LocksInv, Exclusive
  <2>3. FirstLock(t) # FirstLock(s)
    BY <1>1, <2>1 DEF LocksInv, Exclusive, HoldsFirst
  <2>4. job[t].op \in {"reserve", "release"} =>
            reservations'[job[t].id] = reservations[job[t].id]
    <3>1. CASE CommitRemove(s)
      BY <3>1 DEF CommitRemove
    <3>2. CASE (CommitReserve(s) \/ CommitRelease(s))
               /\ job[t].op \in {"reserve", "release"}
      <4>1. job[s].op \in {"reserve", "release"}
        BY <3>2 DEF CommitReserve, CommitRelease, Finished
      <4>2. job[s].id # job[t].id
        BY <2>3, <3>2, <4>1 DEF FirstLock
      <4>3. job[t].id \in OrderId
        BY <2>1, <3>2, JobFields DEF LocksInv
      <4> QED BY <3>2, <4>2, <4>3
              DEF CommitReserve, CommitRelease, LocksInv, LocksTypeOK,
                  CatalogTypeOK
    <3> QED BY <3>1, <3>2
  <2>5. job[t].op = "remove" =>
            restaurants'[job[t].restaurant] = restaurants[job[t].restaurant]
    <3>1. CASE CommitReserve(s) \/ CommitRelease(s)
      BY <3>1 DEF CommitReserve, CommitRelease
    <3>2. CASE CommitRemove(s) /\ job[t].op = "remove"
      <4>1. job[s].restaurant # job[t].restaurant
        BY <2>3, <3>2 DEF FirstLock, CommitRemove, Finished
      <4>2. job[t].restaurant \in Restaurant
        BY <2>1, <3>2, JobFields DEF LocksInv
      <4> QED BY <3>2, <4>1, <4>2
              DEF CommitRemove, LocksInv, LocksTypeOK, CatalogTypeOK
    <3> QED BY <3>1, <3>2
  <2> QED BY <2>1, <2>2, <2>4, <2>5, CatalogKept, OpenKept
<1> QED BY <1>1, <1>2, CatalogKept, EndKept DEF CommitDishes

\* The administrator waits for the rows a session has locked.
LEMMA AdminKept ==
    ASSUME LocksInv, AdminStatement, [LocksNext]_locksVars
    PROVE  LocksInv'
<1>1. UNCHANGED sessionVars /\ UNCHANGED reservations
  BY AdminCommits, AdministerType DEF AdminStatement, LocksInv, LocksTypeOK
<1>2. CatalogTypeOK
  BY DEF LocksInv, LocksTypeOK
<1>3. ASSUME NEW d \in Dish, Locked(d), OnSale(d)
      PROVE  dishes'[d] = dishes[d]
  <2>1. PICK r \in Restaurant :
        \/ CreateRestaurant(r)
        \/ \E e \in Dish, price \in Price, stock \in NewStock :
              AddDish(r, e, price, stock)
        \/ \E e \in Dish :
             /\ ~Locked(e)
             /\ \/ RemoveDish(r, e)
                \/ \E price \in Price \cup {dishes[e].priceVnd},
                      stock \in Restock \cup {dishes[e].stock} :
                      UpdateDish(r, e, price, stock)
    BY DEF AdminStatement
  <2>2. CASE CreateRestaurant(r)
    BY <2>2 DEF CreateRestaurant
  <2>3. CASE \E e \in Dish, price \in Price, stock \in NewStock :
                AddDish(r, e, price, stock)
    BY <1>2, <1>3, <2>3 DEF AddDish, OnSale, CatalogTypeOK
  <2>4. CASE \E e \in Dish :
                /\ ~Locked(e)
                /\ \/ RemoveDish(r, e)
                   \/ \E price \in Price \cup {dishes[e].priceVnd},
                         stock \in Restock \cup {dishes[e].stock} :
                         UpdateDish(r, e, price, stock)
    BY <1>2, <1>3, <2>4 DEF RemoveDish, UpdateDish, CatalogTypeOK
  <2> QED BY <2>1, <2>2, <2>3, <2>4
<1>4. ASSUME NEW r \in Restaurant, restaurants[r] = "live"
      PROVE  restaurants'[r] = "live"
  BY <1>2, <1>4 DEF AdminStatement, CreateRestaurant, AddDish, RemoveDish,
                    UpdateDish, CatalogTypeOK
<1>5. ASSUME NEW t \in Session, at'[t] = "items"
      PROVE  OpenInv(t)'
  <2>1. job' = job /\ at' = at /\ dirty' = dirty /\ at[t] = "items"
    BY <1>1, <1>5 DEF sessionVars
  <2>2. \A d \in DOMAIN dirty[t] : dishes'[d] = dishes[d]
    BY <1>3, RowsOf DEF Locked
  <2>3. job[t].op = "remove" =>
            restaurants'[job[t].restaurant] = restaurants[job[t].restaurant]
    BY <1>4, <2>1, JobFields DEF LocksInv, OpenInv, Looked
  <2> QED BY <1>1, <2>1, <2>2, <2>3, CatalogKept, OpenKept
<1>6. CASE Session = {}
  BY <1>6 DEF AdminStatement
<1>7. CASE Session # {}
  BY <1>1, <1>5, <1>7, CatalogKept, EndKept
<1> QED BY <1>6, <1>7

\* A transaction begins with no lock.
LEMMA BeginKept ==
    ASSUME LocksInv, NEW s \in Session, NEW j \in Job, Begin(s, j)
    PROVE  LocksInv'
<1> USE DEF LocksInv
<1>1. /\ at[s] = "idle" /\ job'[s] = j /\ at'[s] = "begun" /\ dirty' = dirty
      /\ \A t \in Session \ {s} : job'[t] = job[t] /\ at'[t] = at[t]
      /\ UNCHANGED catalogVars
  BY DEF Begin, LocksTypeOK
<1>2. dirty[s] = << >>
  BY <1>1 DEF LocksTypeOK
<1>3. j # Null
  BY JobAssumption
<1>4. LocksTypeOK'
  <2>1. CatalogTypeOK'
    BY <1>1 DEF LocksTypeOK, CatalogTypeOK, catalogVars
  <2>2. job' \in [Session -> Job \cup {Null}]
    BY DEF Begin, LocksTypeOK
  <2>3. at' \in [Session -> {"idle", "begun", "locked", "items"}]
    BY DEF Begin, LocksTypeOK
  <2>4. at'[s] = "begun" /\ job'[s] # Null /\ dirty'[s] = << >>
    BY <1>1, <1>2, <1>3
  <2>5. ASSUME NEW t \in Session
        PROVE  /\ DOMAIN dirty'[t] \subseteq Dish
               /\ \A d \in DOMAIN dirty'[t] :
                    dirty'[t][d] \in DishRow \cup {Deleted}
               /\ at'[t] = "idle" <=> job'[t] = Null
               /\ at'[t] # "items" => dirty'[t] = << >>
    BY <1>1, <2>4 DEF LocksTypeOK
  <2> QED BY <2>1, <2>2, <2>3, <2>5 DEF LocksTypeOK
<1>5. DirtyRows' /\ Issued'
  BY <1>1 DEF DirtyRows, Issued, catalogVars, Ordered
<1>6. Exclusive'
  <2>1. \A t \in Session \ {s} : FirstLock(t)' = FirstLock(t)
    BY <1>1 DEF FirstLock
  <2> QED BY <1>1, <2>1 DEF Exclusive, HoldsFirst
<1>7. \A t \in Session : OpenInv(t)'
  BY <1>1, OthersKept DEF OpenInv
<1> QED BY <1>4, <1>5, <1>6, <1>7

\* The first lock is free when it is taken.
LEMMA LockKept ==
    ASSUME LocksInv, NEW s \in Session, Lock(s)
    PROVE  LocksInv'
<1> USE DEF LocksInv
<1>1. /\ at[s] = "begun" /\ at'[s] = "locked" /\ job' = job /\ dirty' = dirty
      /\ \A t \in Session \ {s} : at'[t] = at[t]
      /\ UNCHANGED catalogVars
  BY DEF Lock, LocksTypeOK
<1>2. LocksTypeOK'
  BY <1>1 DEF Lock, LocksTypeOK, CatalogTypeOK, catalogVars
<1>3. DirtyRows' /\ Issued'
  BY <1>1 DEF DirtyRows, Issued, catalogVars, Ordered
<1>4. Exclusive'
  <2>1. \A t \in Session : FirstLock(t)' = FirstLock(t)
    BY <1>1 DEF FirstLock
  <2>2. \A t \in Session : ~HoldsFirst(t, FirstLock(s))
    BY DEF Lock
  <2> QED BY <1>1, <2>1, <2>2 DEF Exclusive, HoldsFirst
<1>5. \A t \in Session : OpenInv(t)'
  BY <1>1, OthersKept DEF OpenInv
<1> QED BY <1>2, <1>3, <1>4, <1>5

\* The look-up is made under the lock, before anything is written.
LEMMA LookKept ==
    ASSUME LocksInv, NEW s \in Session, Look(s)
    PROVE  LocksInv'
<1> USE DEF LocksInv
<1>1. /\ at[s] = "locked" /\ at'[s] = "items" /\ job' = job /\ dirty' = dirty
      /\ \A t \in Session \ {s} : at'[t] = at[t]
      /\ UNCHANGED catalogVars
  BY DEF Look, LocksTypeOK
<1>2. dirty[s] = << >>
  BY <1>1 DEF LocksTypeOK
<1>3. LocksTypeOK'
  BY <1>1 DEF Look, LocksTypeOK, CatalogTypeOK, catalogVars
<1>4. DirtyRows' /\ Issued'
  BY <1>1 DEF DirtyRows, Issued, catalogVars, Ordered
<1>5. Exclusive'
  BY <1>1 DEF Exclusive, HoldsFirst, FirstLock
<1>6. OpenInv(s)'
  <2>1. Looked(s)
    BY <1>1, JobFields DEF Look, Looked
  <2>2. Looked(s)'
    BY <1>1, <2>1 DEF Looked, Holds, catalogVars
  <2>3. RowsCurrent(s)' /\ Ascending(s)'
    BY <1>1, <1>2 DEF RowsCurrent, Ascending
  <2> QED BY <2>2, <2>3 DEF OpenInv
<1>7. \A t \in Session \ {s} : OpenInv(t)'
  BY <1>1, OthersKept
<1> QED BY <1>3, <1>4, <1>5, <1>6, <1>7

\* A statement takes the row with the smallest id of those yet to do, when
\* nobody else has it.
LEMMA WriteKept ==
    ASSUME LocksInv, NEW s \in Session, Write(s)
    PROVE  LocksInv'
<1> USE DEF LocksInv
<1>1. PICK d \in Dish :
        /\ IsNext(s, d) /\ Finds(s, d) /\ ~Locked(d)
        /\ dirty' = [dirty EXCEPT ![s] =
                [e \in DOMAIN dirty[s] \cup {d} |->
                    IF e = d THEN Written(s, d) ELSE dirty[s][e]]]
        /\ UNCHANGED <<job, at, catalogVars>>
  BY DEF Write
<1>2. at[s] = "items" /\ d \in Todo(s)
  BY <1>1 DEF IsNext
<1>3. /\ dirty'[s] = [e \in DOMAIN dirty[s] \cup {d} |->
                        IF e = d THEN Written(s, d) ELSE dirty[s][e]]
      /\ DOMAIN dirty'[s] = DOMAIN dirty[s] \cup {d}
      /\ \A t \in Session \ {s} : dirty'[t] = dirty[t]
  BY <1>1 DEF DirtyRows
<1>4. Looked(s) /\ RowsCurrent(s) /\ Ascending(s)
  BY <1>2 DEF OpenInv
<1>5. job[s].op \in {"reserve", "release", "remove"}
  BY <1>2, JobFields
<1>6. OnSale(d) /\ Meant(s, d)
  <2>1. CASE job[s].op = "reserve"
    BY <1>1, <1>2, <2>1 DEF Finds, Todo, Meant, Unavailable
  <2>2. CASE job[s].op = "release"
    BY <1>2, <2>2 DEF Todo, Meant
  <2>3. CASE job[s].op = "remove"
    BY <1>2, <2>3 DEF Todo, Meant
  <2> QED BY <1>5, <2>1, <2>2, <2>3
<1>7. Written(s, d) \in DishRow \cup {Deleted}
  BY <1>2, <1>4, <1>5, <1>6, WrittenRow
<1>8. LocksTypeOK'
  BY <1>1, <1>2, <1>3, <1>7 DEF LocksTypeOK, CatalogTypeOK, catalogVars
<1>9. DirtyRows'
  <2>1. dirty' = [t \in Session |-> dirty'[t]]
    BY <1>1 DEF DirtyRows
  <2>2. dirty'[s] = [e \in DOMAIN dirty'[s] |-> dirty'[s][e]]
    BY <1>3
  <2>3. \A t \in Session \ {s} :
            dirty'[t] = [e \in DOMAIN dirty'[t] |-> dirty'[t][e]]
    BY <1>3 DEF DirtyRows
  <2> QED BY <2>1, <2>2, <2>3 DEF DirtyRows
<1>10. Issued'
  BY <1>1 DEF Issued, catalogVars, Ordered
<1>11. Exclusive'
  <2>1. \A t \in Session : FirstLock(t)' = FirstLock(t)
    BY <1>1 DEF FirstLock
  <2>2. \A t \in Session : d \notin DOMAIN dirty[t]
    BY <1>1 DEF Locked
  <2> QED BY <1>1, <1>3, <2>1, <2>2 DEF Exclusive, HoldsFirst
<1>12. OpenInv(s)'
  <2>1. Looked(s)'
    BY <1>1, <1>4 DEF Looked, Holds, catalogVars
  <2>2. \A e \in DOMAIN dirty'[s] :
            OnSale(e) /\ Meant(s, e) /\ dirty'[s][e] = Written(s, e)
    BY <1>3, <1>4, <1>6 DEF RowsCurrent
  <2>3. RowsCurrent(s)'
    BY <1>1, <2>2 DEF RowsCurrent, OnSale, Meant, Written, Ordered,
                      Unavailable, catalogVars
  <2>4. Todo(s)' = Todo(s) \ {d}
    BY <1>1, <1>3, <1>5 DEF Todo, Ordered, OnSale, catalogVars
  <2>5. ASSUME job[s].op # "remove", NEW a \in DOMAIN dirty'[s],
               NEW e \in Todo(s)'
        PROVE  a < e
    <3>1. d =< e /\ e # d /\ e \in Todo(s)
      BY <1>1, <2>4, <2>5, NextIsSmallest
    <3>2. d \in Nat /\ e \in Nat
      BY <1>2, <3>1, TodoDishes, LocksAssumption
    <3>3. CASE a = d
      BY <3>1, <3>2, <3>3
    <3>4. CASE a \in DOMAIN dirty[s]
      BY <1>4, <2>5, <3>1, <3>4 DEF Ascending
    <3> QED BY <1>3, <3>3, <3>4
  <2>6. Ascending(s)'
    BY <1>1, <2>5 DEF Ascending
  <2> QED BY <2>1, <2>3, <2>6 DEF OpenInv
<1>13. \A t \in Session \ {s} : OpenInv(t)'
  BY <1>1, <1>3, OthersKept
<1> QED BY <1>8, <1>9, <1>10, <1>11, <1>12, <1>13

\* Every step keeps the invariant.
LEMMA LocksStep ==
    ASSUME LocksInv, [LocksNext]_locksVars
    PROVE  LocksInv'
<1>1. CASE AdminStatement
  BY <1>1, AdminKept
<1>2. ASSUME NEW s \in Session, NEW j \in Job, Begin(s, j)
      PROVE  LocksInv'
  BY <1>2, BeginKept
<1>3. ASSUME NEW s \in Session, Step(s)
      PROVE  LocksInv'
  <2>1. CASE Lock(s) \/ Look(s) \/ Write(s)
    BY <2>1, LockKept, LookKept, WriteKept
  <2>2. CASE LookDone(s) \/ RefuseWide(s) \/ RefuseUnavailable(s) \/ RefuseTotal(s)
    BY <2>2, RollbackKept
       DEF LookDone, RefuseWide, RefuseUnavailable, RefuseTotal
  <2>3. CASE CommitReserve(s) \/ CommitRelease(s) \/ CommitRemove(s)
    BY <2>3, CommitKept
  <2> QED BY <1>3, <2>1, <2>2, <2>3 DEF Step
<1>4. ASSUME NEW s \in Session, Fail(s) \/ BreakDeadlock(s)
      PROVE  LocksInv'
  BY <1>4, RollbackKept DEF Fail, BreakDeadlock
<1>5. CASE UNCHANGED locksVars
  <2>1. CatalogTypeOK' /\ Issued' /\ UNCHANGED sessionVars
    BY <1>5, CatalogKept DEF locksVars, sessionVars
  <2>2. \A t \in Session : OpenInv(t)'
    BY <1>5, OthersKept DEF locksVars, sessionVars
  <2> QED BY <2>1, <2>2
          DEF LocksInv, LocksTypeOK, DirtyRows, Exclusive, HoldsFirst,
              FirstLock, sessionVars
<1> QED BY <1>1, <1>2, <1>3, <1>4, <1>5 DEF LocksNext

-----------------------------------------------------------------------------
(* The theorems *)

\* The invariant holds of every behaviour: a transaction that is at its items
\* still has what its look-up found and the rows as it wrote them.
THEOREM LocksInvariance == LocksSpec => []LocksInv
<1>1. ASSUME LocksInit
      PROVE  LocksInv
  <2>1. CatalogTypeOK
    BY <1>1 DEF LocksInit, CatalogInit, CatalogTypeOK
  <2>2. \A s \in Session :
            at[s] = "idle" /\ job[s] = Null /\ dirty[s] = << >>
    BY <1>1 DEF LocksInit
  <2>3. LocksTypeOK
    BY <1>1, <2>1, <2>2 DEF LocksInit, LocksTypeOK
  <2>4. DirtyRows
    BY <1>1 DEF LocksInit, DirtyRows
  <2>5. Issued
    BY <1>1, CatalogAssumption DEF LocksInit, CatalogInit, Issued
  <2>6. Exclusive /\ \A s \in Session : OpenInv(s)
    BY <2>2 DEF Exclusive, HoldsFirst, OpenInv
  <2> QED BY <2>3, <2>4, <2>5, <2>6 DEF LocksInv
<1> QED BY <1>1, LocksStep, PTL DEF LocksSpec

\* Sessions, jobs, locks and uncommitted rows keep their types: a statement
\* never writes a negative stock.
THEOREM LocksTypeCorrect == LocksSpec => []LocksTypeOK
<1>1. LocksInv => LocksTypeOK
  BY DEF LocksInv
<1> QED BY <1>1, LocksInvariance, PTL

\* reserve(), release() and the deletion of a restaurant are atomic, although
\* they take their rows one by one at READ COMMITTED: the statements of any
\* number of connections implement Catalog.
THEOREM TransactionsAtomic == LocksSpec => ImplementsCatalog
<1>1. LocksInit => CatalogInit
  BY DEF LocksInit
<1>2. LocksInv /\ [LocksNext]_locksVars => [CatalogNext]_catalogVars
  BY StepIsCatalogStep
<1> QED BY <1>1, <1>2, LocksInvariance, PTL
        DEF LocksSpec, ImplementsCatalog, CatalogSpec

\* A reservation keeps its cart and prices between the statements of others.
THEOREM SnapshotsKept == LocksSpec => SnapshotStable
BY TransactionsAtomic, SnapshotsStable, PTL DEF ImplementsCatalog

\* Nor does a portion get lost or come from nowhere when transactions meet,
\* wait for each other, roll back or time out between two statements.
THEOREM PortionsKept == LocksSpec => StockConserved
BY TransactionsAtomic, PortionsConserved, PTL DEF ImplementsCatalog

\* In a circle of waits without a removal, everybody is at an item and waits
\* for a session that waits for a dish with a larger id.
LEMMA WaitsAscend ==
    ASSUME LocksInv, NEW cycle \in SUBSET Session, Deadlocked(cycle),
           \A s \in cycle : job[s].op # "remove",
           NEW s \in cycle, NEW d \in Dish, IsNext(s, d),
           \A e \in Dish : IsNext(s, e) => e = d
    PROVE  \E t \in cycle, e \in Dish : IsNext(t, e) /\ d < e
<1> USE DEF LocksInv
<1>1. at[s] = "items"
  BY DEF IsNext
<1>2. PICK t \in cycle : \E e \in DOMAIN dirty[t] : IsNext(s, e)
  BY <1>1 DEF Deadlocked, WaitsFor
<1>3. d \in DOMAIN dirty[t]
  BY <1>2 DEF LocksTypeOK
<1>4. at[t] = "items" /\ Ascending(t)
  BY <1>3, RowsOf DEF OpenInv
<1>5. PICK e \in Dish : IsNext(t, e)
  <2>1. PICK u \in cycle : WaitsFor(t, u)
    BY DEF Deadlocked
  <2> QED BY <1>4, <2>1 DEF WaitsFor, LocksTypeOK
<1>6. e \in Todo(t)
  BY <1>5 DEF IsNext
<1> QED BY <1>3, <1>4, <1>5, <1>6 DEF Ascending

\* Reservations, releases and the administrator never wait in a circle,
\* because items are sorted by id: for any number of connections and dishes,
\* only the deletion of a restaurant can close one.
THEOREM OnlyRemovalsDeadlock == LocksSpec => []DeadlockNeedsRemoval
<1>1. ASSUME LocksInv, NEW cycle \in SUBSET Session, Deadlocked(cycle),
             \A s \in cycle : job[s].op # "remove"
      PROVE  FALSE
  <2> DEFINE Awaited == {d \in Dish : \E s \in cycle : IsNext(s, d)}
  <2> USE DEF LocksInv
  <2>1. ASSUME NEW s \in cycle, NEW d, NEW e, IsNext(s, d), IsNext(s, e)
        PROVE  d = e
    <3>1. d \in Dish /\ e \in Dish /\ d =< e /\ e =< d
      BY <1>1, <2>1, NextIsSmallest DEF IsNext
    <3> QED BY <3>1, LocksAssumption
  <2>2. Awaited # {}
    <3>1. PICK s \in cycle : TRUE
      BY <1>1 DEF Deadlocked
    <3>2. PICK t \in cycle : WaitsFor(s, t)
      BY <1>1 DEF Deadlocked
    <3>3. ASSUME NEW a \in cycle, NEW b \in cycle,
                 \E d \in DOMAIN dirty[b] : IsNext(a, d)
          PROVE  Awaited # {}
      <4>1. PICK d \in DOMAIN dirty[b] : IsNext(a, d)
        BY <3>3
      <4>2. d \in Dish
        BY <1>1 DEF LocksTypeOK
      <4>3. d \in Awaited
        BY <4>1, <4>2
      <4> QED BY <4>3
    <3>4. CASE HoldsFirst(t, FirstLock(s))
      <4>1. PICK u \in cycle : WaitsFor(t, u)
        BY <1>1 DEF Deadlocked
      <4>2. at[t] # "begun"
        BY <3>4 DEF HoldsFirst
      <4>3. \E d \in DOMAIN dirty[u] : IsNext(t, d)
        BY <4>1, <4>2 DEF WaitsFor
      <4> QED BY <3>3, <4>3
    <3> QED BY <3>2, <3>3, <3>4 DEF WaitsFor
  <2>3. PICK d \in Awaited : \A e \in Awaited : e =< d
    <3> HIDE DEF Awaited
    <3> QED BY <2>2, LargestDish DEF Awaited
  <2>4. PICK s \in cycle : IsNext(s, d)
    OBVIOUS
  <2>5. \E t \in cycle, e \in Dish : IsNext(t, e) /\ d < e
    BY <1>1, <2>1, <2>4, WaitsAscend
  <2> QED BY <2>3, <2>5, LocksAssumption
<1>2. LocksInv => DeadlockNeedsRemoval
  BY <1>1 DEF DeadlockNeedsRemoval
<1> QED BY <1>2, LocksInvariance, PTL

\* What reserve() decided at each way out is what Catalog decides of the
\* catalog at that moment.
LEMMA AnswerDecided ==
    ASSUME LocksInv, NEW s \in Session, at[s] # "idle",
           job[s].op = "reserve"
    PROVE  LET answer == ReserveAnswer(job[s].id, job[s].cart)
               previous == reservations[job[s].id]
           IN /\ LookDone(s) => answer =
                    IF SameRequest(previous, job[s].cart) /\ ~previous.released
                    THEN Granted(previous.prices) ELSE Refused("conflict")
              /\ RefuseUnavailable(s) => answer = Refused("conflict")
              /\ RefuseWide(s) => answer = Refused("error")
              /\ RefuseTotal(s) => answer = Refused("bad")
              /\ CommitReserve(s) => answer = Granted(ReadPrices(s))
<1> DEFINE id == job[s].id
           cart == job[s].cart
<1> USE DEF LocksInv
<1>1. LookDone(s) => ReserveAnswer(id, cart) =
        IF SameRequest(reservations[id], cart) /\ ~reservations[id].released
        THEN Granted(reservations[id].prices) ELSE Refused("conflict")
  BY DEF LookDone, ReserveAnswer
<1>2. ASSUME at[s] = "items"
      PROVE  /\ reservations[id] = Null
             /\ \A d \in DOMAIN dirty[s] : ~Unavailable(cart, d) /\ d \notin WideDish
             /\ Todo(s) = Ordered(cart) \ DOMAIN dirty[s]
  BY <1>2, RowsOf DEF OpenInv, Looked, Meant, Todo
<1>3. ASSUME NEW d, IsNext(s, d), ~Finds(s, d)
      PROVE  at[s] = "items" /\ d \in Ordered(cart) /\ Unavailable(cart, d)
  BY <1>2, <1>3 DEF IsNext, Finds
<1>4. RefuseUnavailable(s) => ReserveAnswer(id, cart) = Refused("conflict")
  <2>1. SUFFICES ASSUME NEW d \in Dish \ WideDish, IsNext(s, d), ~Finds(s, d)
                 PROVE  ReserveAnswer(id, cart) = Refused("conflict")
    BY DEF RefuseUnavailable
  <2>2. d \in Ordered(cart) /\ Unavailable(cart, d) /\ reservations[id] = Null
    BY <1>2, <1>3, <2>1
  <2>3. ~Overflows(cart)
    BY <2>2 DEF Overflows
  <2> QED BY <2>2, <2>3 DEF ReserveAnswer
<1>5. RefuseWide(s) => ReserveAnswer(id, cart) = Refused("error")
  <2>1. SUFFICES ASSUME NEW w \in WideDish, IsNext(s, w), ~Finds(s, w)
                 PROVE  ReserveAnswer(id, cart) = Refused("error")
    BY DEF RefuseWide
  <2>2. w \in Ordered(cart) /\ reservations[id] = Null
    BY <1>2, <1>3, <2>1
  <2>3. ASSUME NEW d \in Ordered(cart) \ WideDish
        PROVE  ~Unavailable(cart, d)
    <3>1. d \in Dish /\ w \in Dish /\ d < w /\ d \in Nat /\ w \in Nat
      BY <2>3, LocksAssumption, CatalogAssumption DEF Ordered
    <3>2. d \notin Todo(s)
      BY <2>1, <3>1, NextIsSmallest
    <3>3. d \in DOMAIN dirty[s]
      BY <1>2, <1>3, <2>1, <2>3, <3>2
    <3> QED BY <1>2, <1>3, <2>1, <3>3
  <2>4. Overflows(cart)
    BY <2>2, <2>3 DEF Overflows
  <2> QED BY <2>2, <2>4 DEF ReserveAnswer
<1>6. ASSUME Finished(s, "reserve")
      PROVE  /\ reservations[id] = Null /\ ~Overflows(cart)
             /\ \A d \in Ordered(cart) : ~Unavailable(cart, d)
             /\ ReadPrices(s) = PricesNow(cart)
  <2>1. at[s] = "items" /\ DOMAIN dirty[s] = Ordered(cart)
    BY <1>6, AllTaken DEF Finished
  <2> QED BY <1>2, <1>6, <2>1, AllTaken DEF Overflows
<1>7. RefuseTotal(s) => ReserveAnswer(id, cart) = Refused("bad")
  <2>1. SUFFICES ASSUME RefuseTotal(s)
                 PROVE  ReserveAnswer(id, cart) = Refused("bad")
    OBVIOUS
  <2>2. ~Reservable(id, cart)
    BY <1>6, <2>1 DEF RefuseTotal, TotalOf, Reservable
  <2> QED BY <1>6, <2>1, <2>2 DEF RefuseTotal, ReserveAnswer
<1>8. CommitReserve(s) => ReserveAnswer(id, cart) = Granted(ReadPrices(s))
  BY <1>6, ReserveCommits DEF CommitReserve, ReserveAnswer
<1> QED BY <1>1, <1>4, <1>5, <1>7, <1>8

\* reserve() tells its caller what Catalog says, whatever comes between its
\* statements.
THEOREM AnswersAtomic == LocksSpec => AnswersAgree
<1>1. LocksInv /\ [LocksNext]_locksVars =>
        [\A s \in Session :
            (at[s] # "idle" /\ at'[s] = "idle" /\ job[s].op = "reserve") =>
            LET answer == ReserveAnswer(job[s].id, job[s].cart)
                previous == reservations[job[s].id]
            IN /\ LookDone(s) => answer =
                    IF SameRequest(previous, job[s].cart) /\ ~previous.released
                    THEN Granted(previous.prices) ELSE Refused("conflict")
               /\ RefuseUnavailable(s) => answer = Refused("conflict")
               /\ RefuseWide(s) => answer = Refused("error")
               /\ RefuseTotal(s) => answer = Refused("bad")
               /\ CommitReserve(s) => answer = Granted(ReadPrices(s))]_locksVars
  BY AnswerDecided
<1> QED BY <1>1, LocksInvariance, PTL DEF LocksSpec, AnswersAgree
=============================================================================
