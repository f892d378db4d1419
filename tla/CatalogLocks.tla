---------------------------- MODULE CatalogLocks -----------------------------
(***************************************************************************)
(* The transactions of restaurant-service statement by statement           *)
(* (services/restaurant/src/catalog.service.ts).  Catalog makes each of    *)
(* them one step; here reserve(), release() and the deletion of a          *)
(* restaurant take their locks one after the other, keep what they wrote   *)
(* to themselves, and commit or roll back.  Postgres runs them at READ     *)
(* COMMITTED: a statement sees the committed rows and the transaction's    *)
(* own, and waits for a row another transaction has written.               *)
(***************************************************************************)
EXTENDS Catalog

CONSTANTS
    Session,        \* connections of the pool of every replica
    Asked,          \* the carts order-service asks for
    LockKey,        \* LockKey[id]: hashtext(id), which may collide
    Scan            \* orders in which a cascade may come across the dishes

\* The order of `items` after the sort in reserve(), and as stored
ById == [d \in Dish |-> d]

ASSUME LocksAssumption ==
    /\ Dish \subseteq Nat
    /\ \E top \in Dish : \A d \in Dish : d =< top
    /\ Asked \subseteq Cart
    /\ \A w \in WideDish, d \in Dish \ WideDish : d < w
    /\ LockKey \in [OrderId -> Nat]
    /\ Scan \subseteq [Dish -> Nat]
    /\ Unissued # Deleted

VARIABLES
    job,            \* job[s]: what the transaction of session s is for
    at,             \* at[s]: "idle", "begun", "locked" or "items"
    dirty           \* dirty[s]: the dish rows it has written and locked

sessionVars == <<job, at, dirty>>
locksVars == <<catalogVars, sessionVars>>

Reserving == [op : {"reserve"}, id : OrderId, cart : Asked, rank : {ById}]
Releasing == [op : {"release"}, id : OrderId, rank : {ById}]
Removing == [op : {"remove"}, restaurant : Restaurant, rank : Scan]
Job == Reserving \cup Releasing \cup Removing

ASSUME JobAssumption == Null \notin Job

LocksTypeOK ==
    /\ CatalogTypeOK
    /\ job \in [Session -> Job \cup {Null}]
    /\ at \in [Session -> {"idle", "begun", "locked", "items"}]
    /\ \A s \in Session :
        /\ DOMAIN dirty[s] \subseteq Dish
        /\ \A d \in DOMAIN dirty[s] : dirty[s][d] \in DishRow \cup {Deleted}
        /\ at[s] = "idle" <=> job[s] = Null
        /\ at[s] # "items" => dirty[s] = << >>

LocksInit ==
    /\ CatalogInit
    /\ job = [s \in Session |-> Null]
    /\ at = [s \in Session |-> "idle"]
    /\ dirty = [s \in Session |-> << >>]

-----------------------------------------------------------------------------
(* What a transaction has locked and what it waits for *)

\* The first lock: an advisory lock, or the row of the restaurant
FirstLock(s) ==
    IF job[s].op = "remove" THEN <<"restaurant", job[s].restaurant>>
                            ELSE <<"advisory", LockKey[job[s].id]>>

HoldsFirst(s, lock) == at[s] \in {"locked", "items"} /\ FirstLock(s) = lock

\* A written row is locked until the transaction ends.
Locked(d) == \E s \in Session : d \in DOMAIN dirty[s]

\* The dishes its statements have yet to find.  An update that names a
\* deleted dish finds no row.
Todo(s) ==
    CASE job[s].op = "reserve" -> Ordered(job[s].cart) \ DOMAIN dirty[s]
      [] job[s].op = "release" ->
            {d \in Ordered(reservations[job[s].id]) \ DOMAIN dirty[s] : OnSale(d)}
      [] job[s].op = "remove" ->
            {d \in Dish \ DOMAIN dirty[s] :
                OnSale(d) /\ dishes[d].restaurantId = job[s].restaurant}

IsNext(s, d) ==
    /\ at[s] = "items"
    /\ d \in Todo(s)
    /\ \A e \in Todo(s) : job[s].rank[d] =< job[s].rank[e]

\* The update of this dish matches a row; that of reserve() is conditional.
Finds(s, d) == job[s].op = "reserve" => ~Unavailable(job[s].cart, d)

WaitsFor(s, t) ==
    /\ s # t
    /\ \/ at[s] = "begun" /\ HoldsFirst(t, FirstLock(s))
       \/ \E d \in DOMAIN dirty[t] : IsNext(s, d) /\ Finds(s, d)

\* Sessions that wait for each other and for nobody else
Deadlocked(cycle) ==
    cycle # {} /\ \A s \in cycle : \E t \in cycle : WaitsFor(s, t)

-----------------------------------------------------------------------------
(* The end of a transaction *)

\* Mutated form: the connection returns to the pool without a ROLLBACK
RollbackMissing(s) ==
    /\ job' = [job EXCEPT ![s] = Null]
    /\ at' = [at EXCEPT ![s] = "idle"]
    /\ UNCHANGED <<dirty, catalogVars>>

\* Mutated form: a failed transaction is left open on its connection
RollbackForgotten(s) == UNCHANGED locksVars

Rollback(s) ==
    /\ job' = [job EXCEPT ![s] = Null]
    /\ at' = [at EXCEPT ![s] = "idle"]
    /\ dirty' = [dirty EXCEPT ![s] = << >>]
    /\ UNCHANGED catalogVars

CommitDishes(s) ==
    /\ job' = [job EXCEPT ![s] = Null]
    /\ at' = [at EXCEPT ![s] = "idle"]
    /\ dirty' = [dirty EXCEPT ![s] = << >>]
    /\ dishes' = [d \in Dish |-> IF d \in DOMAIN dirty[s] THEN dirty[s][d]
                                                          ELSE dishes[d]]

\* A timeout of the transaction, a lost connection, a dead process
Fail(s) == at[s] # "idle" /\ Rollback(s)

\* Postgres finds a cycle and fails one statement of it.
BreakDeadlock(s) ==
    /\ \E cycle \in SUBSET Session : s \in cycle /\ Deadlocked(cycle)
    /\ Rollback(s)

-----------------------------------------------------------------------------
(* Locks and statements *)

\* Mutated form: the items are not sorted before they are taken
BeginUnsorted(s, j) ==
    /\ at[s] = "idle"
    /\ \E rank \in Scan : job' = [job EXCEPT ![s] = [j EXCEPT !.rank = rank]]
    /\ at' = [at EXCEPT ![s] = "begun"]
    /\ UNCHANGED <<dirty, catalogVars>>

Begin(s, j) ==
    /\ at[s] = "idle"
    /\ job' = [job EXCEPT ![s] = j]
    /\ at' = [at EXCEPT ![s] = "begun"]
    /\ UNCHANGED <<dirty, catalogVars>>

\* Mutated form: there is no advisory lock
LockNothing(s) ==
    /\ at[s] = "begun"
    /\ at' = [at EXCEPT ![s] = "locked"]
    /\ UNCHANGED <<job, dirty, catalogVars>>

\* pg_advisory_xact_lock, or the row lock of the DELETE
Lock(s) ==
    /\ at[s] = "begun"
    /\ \A t \in Session : ~HoldsFirst(t, FirstLock(s))
    /\ at' = [at EXCEPT ![s] = "locked"]
    /\ UNCHANGED <<job, dirty, catalogVars>>

\* There is nothing to do: answered from the earlier reservation, nothing to
\* release, or no such restaurant.
LookDone(s) ==
    /\ at[s] = "locked"
    /\ CASE job[s].op = "reserve" -> reservations[job[s].id] # Null
         [] job[s].op = "release" -> ~Holds(job[s].id)
         [] job[s].op = "remove" -> restaurants[job[s].restaurant] # "live"
    /\ Rollback(s)

\* Mutated form: the earlier reservation is not looked up
LookAgain(s) ==
    /\ at[s] = "locked"
    /\ job[s].op = "release" => Holds(job[s].id)
    /\ job[s].op = "remove" => restaurants[job[s].restaurant] = "live"
    /\ at' = [at EXCEPT ![s] = "items"]
    /\ UNCHANGED <<job, dirty, catalogVars>>

Look(s) ==
    /\ at[s] = "locked"
    /\ CASE job[s].op = "reserve" -> reservations[job[s].id] = Null
         [] job[s].op = "release" -> Holds(job[s].id)
         [] job[s].op = "remove" -> restaurants[job[s].restaurant] = "live"
    /\ at' = [at EXCEPT ![s] = "items"]
    /\ UNCHANGED <<job, dirty, catalogVars>>

\* What the statement makes of the row
Written(s, d) ==
    CASE job[s].op = "reserve" ->
            [dishes[d] EXCEPT !.stock = @ - job[s].cart.items[d]]
      [] job[s].op = "release" ->
            [dishes[d] EXCEPT !.stock = @ + reservations[job[s].id].items[d]]
      [] job[s].op = "remove" -> Deleted

Write(s) ==
    \E d \in Dish :
        /\ IsNext(s, d)
        /\ Finds(s, d)
        /\ ~Locked(d)
        /\ dirty' = [dirty EXCEPT ![s] =
                [e \in DOMAIN dirty[s] \cup {d} |->
                    IF e = d THEN Written(s, d) ELSE dirty[s][e]]]
        /\ UNCHANGED <<job, at, catalogVars>>

\* 500 for an id the column cannot hold
RefuseWide(s) ==
    /\ \E d \in WideDish : IsNext(s, d) /\ ~Finds(s, d)
    /\ Rollback(s)

RefuseUnavailable(s) ==
    /\ \E d \in Dish \ WideDish : IsNext(s, d) /\ ~Finds(s, d)
    /\ Rollback(s)

\* Read back after the update of each dish, in the same transaction
ReadPrices(s) ==
    [d \in Dish |-> IF d \in DOMAIN dirty[s] THEN dirty[s][d].priceVnd ELSE 0]

Finished(s, op) == at[s] = "items" /\ job[s].op = op /\ Todo(s) = {}

TotalOf(s) == Total(job[s].cart.items, ReadPrices(s))

RefuseTotal(s) ==
    /\ Finished(s, "reserve") /\ ~(TotalOf(s) =< MaxTotalVnd)
    /\ Rollback(s)

CommitReserve(s) ==
    /\ Finished(s, "reserve") /\ TotalOf(s) =< MaxTotalVnd
    /\ reservations' = [reservations EXCEPT ![job[s].id] =
            [restaurantId |-> job[s].cart.restaurantId,
             items |-> job[s].cart.items,
             prices |-> ReadPrices(s), released |-> FALSE]]
    /\ CommitDishes(s)
    /\ UNCHANGED restaurants

CommitRelease(s) ==
    /\ Finished(s, "release")
    /\ reservations' = [reservations EXCEPT ![job[s].id].released = TRUE]
    /\ CommitDishes(s)
    /\ UNCHANGED restaurants

CommitRemove(s) ==
    /\ Finished(s, "remove")
    /\ restaurants' = [restaurants EXCEPT ![job[s].restaurant] = "deleted"]
    /\ CommitDishes(s)
    /\ UNCHANGED reservations

Step(s) ==
    \/ Lock(s) \/ LookDone(s) \/ Look(s) \/ Write(s)
    \/ RefuseWide(s) \/ RefuseUnavailable(s) \/ RefuseTotal(s)
    \/ CommitReserve(s) \/ CommitRelease(s) \/ CommitRemove(s)

-----------------------------------------------------------------------------
(* Administration: one statement each, on a connection of its own, which   *)
(* waits for the row it changes.  The foreign key of a new dish waits for  *)
(* the deletion of its restaurant.                                         *)

RestaurantLocked(r) ==
    \E s \in Session : HoldsFirst(s, <<"restaurant", r>>)

AdminStatement ==
    /\ \E s \in Session : at[s] = "idle"
    /\ \E r \in Restaurant :
        \/ CreateRestaurant(r)
        \/ /\ ~RestaurantLocked(r)
           /\ \E d \in Dish, price \in Price, stock \in NewStock :
                AddDish(r, d, price, stock)
        \/ \E d \in Dish :
            /\ OnSale(d) /\ ~Locked(d)
            /\ \/ RemoveDish(r, d)
               \/ \E price \in Price \cup {dishes[d].priceVnd},
                     stock \in Restock \cup {dishes[d].stock} :
                    UpdateDish(r, d, price, stock)
    /\ UNCHANGED sessionVars

LocksNext ==
    \/ AdminStatement
    \/ \E s \in Session :
        \/ \E j \in Job : Begin(s, j)
        \/ Step(s) \/ Fail(s) \/ BreakDeadlock(s)

LocksSpec == LocksInit /\ [][LocksNext]_locksVars

\* Postgres queues who waits for a lock (strong fairness of each session) and
\* looks for deadlocks; nobody has to begin a transaction.
LocksFairSpec ==
    /\ LocksSpec
    /\ \A s \in Session :
        SF_locksVars(Step(s)) /\ WF_locksVars(BreakDeadlock(s))

-----------------------------------------------------------------------------
(* Properties *)

\* The transactions are atomic: what other transactions and the administrator
\* can see are the steps of Catalog, one per transaction.
ImplementsCatalog == CatalogSpec

\* reserve() tells its caller what Catalog says, although a concurrent or
\* repeated reservation, a release, a price change or a deletion may come
\* between any two of its statements.
AnswersAgree ==
    [][\A s \in Session :
        (at[s] # "idle" /\ at'[s] = "idle" /\ job[s].op = "reserve") =>
        LET answer == ReserveAnswer(job[s].id, job[s].cart)
            previous == reservations[job[s].id]
        IN /\ LookDone(s) => answer =
                IF SameRequest(previous, job[s].cart) /\ ~previous.released
                THEN Granted(previous.prices) ELSE Refused("conflict")
           /\ RefuseUnavailable(s) => answer = Refused("conflict")
           /\ RefuseWide(s) => answer = Refused("error")
           /\ RefuseTotal(s) => answer = Refused("bad")
           /\ CommitReserve(s) => answer = Granted(ReadPrices(s))]_locksVars

\* Because items are taken in the order of their ids, reservations, releases
\* and the administrator never wait in a circle: a deadlock needs the
\* deletion of a restaurant, which takes its dishes in the order of the heap.
DeadlockNeedsRemoval ==
    \A cycle \in SUBSET Session :
        Deadlocked(cycle) => \E s \in cycle : job[s].op = "remove"

\* Every transaction ends, and its connection is free again.
TransactionsEnd == \A s \in Session : at[s] # "idle" ~> at[s] = "idle"
=============================================================================
