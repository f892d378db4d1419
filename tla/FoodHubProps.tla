---------------------------- MODULE FoodHubProps ----------------------------
(* What checkout promises: the properties of FoodHub. *)
EXTENDS FoodHub

TypeOK ==
    /\ OrdersTypeOK /\ CatalogTypeOK /\ PaymentsTypeOK
    /\ bus \subseteq OrderEvent \cup PaymentEvent
    /\ faults \in 0..MaxFaults

-----------------------------------------------------------------------------
Bought == {"PENDING", "PAID", "CONFIRMED", "READY"}

\* Every order that is past the reservation has one in force at the
\* restaurant, for its own cart, at the prices and total the customer was
\* told - whichever of the concurrent calls of finish() completed it and
\* whatever was repriced, restocked or deleted since.
BoughtIsBacked ==
    \A o \in OrderId : (Exists(o) /\ orders[o].status \in Bought) =>
        /\ Holds(o)
        /\ SameRequest(reservations[o], CartOf(o))
        /\ orders[o].prices = reservations[o].prices
        /\ orders[o].totalVnd = Total(orders[o].items, reservations[o].prices)
        /\ orders[o].totalVnd =< MaxTotalVnd

\* A payment is for an order that reached PENDING, for its customer and at
\* its total, and with the outcome its payment method stands for.
PaymentAgrees ==
    \A o \in OrderId : payments[o] # Null =>
        /\ Exists(o) /\ orders[o].status # "RESERVING" /\ ~orders[o].failure
        /\ payments[o].userId = orders[o].userId
        /\ payments[o].amountVnd = orders[o].totalVnd
        /\ payments[o].status =
            IF orders[o].paymentMethod = "demo_failure" THEN "FAILED" ELSE "SUCCEEDED"

\* No customer is charged for an order that is cancelled, and no order is
\* cooked that was not charged, although the two are decided by different
\* services that only exchange events.
ChargedIffServed ==
    \A o \in OrderId : Exists(o) =>
        /\ orders[o].status \in {"PAID", "CONFIRMED", "READY"} =>
            payments[o] # Null /\ payments[o].status = "SUCCEEDED"
        /\ (orders[o].status = "CANCELLED" /\ payments[o] # Null) =>
            payments[o].status = "FAILED"

\* Stock goes back only for an order whose payment was declined.
ReleasedOnlyIfDeclined ==
    \A o \in OrderId : (reservations[o] # Null /\ reservations[o].released) =>
        /\ InStatus(o, "CANCELLED")
        /\ payments[o] # Null /\ payments[o].status = "FAILED"

Announced(o, topic) == \E e \in outbox \cup paymentOutbox :
                            e.topic = topic /\ e.orderId = o

FactsAnnounced(o) ==
    /\ Announced(o, "order.created") <=>
        Exists(o) /\ orders[o].status # "RESERVING" /\ ~orders[o].failure
    /\ Announced(o, "order.cancelled") <=>
        InStatus(o, "CANCELLED") /\ ~orders[o].failure
    /\ Announced(o, "order.confirmed") <=>
        InStatus(o, "CONFIRMED") \/ InStatus(o, "READY")
    /\ Announced(o, "order.ready") <=> InStatus(o, "READY")
    /\ Announced(o, "payment.succeeded") <=>
        payments[o] # Null /\ payments[o].status = "SUCCEEDED"
    /\ Announced(o, "payment.failed") <=>
        payments[o] # Null /\ payments[o].status = "FAILED"

\* Each change of state another service must hear of is announced by exactly
\* one row, and no row announces a change that did not happen: duplicates can
\* only be copies of a row, which consumers recognise.
OneEventPerFact ==
    /\ \A e, f \in outbox \cup paymentOutbox :
        (e.topic = f.topic /\ e.orderId = f.orderId) => e = f
    /\ \A o \in OrderId : FactsAnnounced(o)

\* A consumer logs a record it finds invalid and moves on, so that an order
\* whose event it refuses is never charged.  No event of the services is
\* refused, however little the order costs.
NoneRejected == \A e \in bus : Accepted(e)

-----------------------------------------------------------------------------
(* The inductive invariant the safety properties follow from *)

\* A call is about an order that exists, and the prices of a granted
\* reservation it has been told are still those of the reservation.
CallInv(c) ==
    LET o == calls[c].orderId IN
    /\ calls[c].at # "idle" => o \in OrderId /\ Exists(o)
    /\ calls[c].at = "idle" => calls[c] = Idle
    /\ calls[c].at = "answered" => calls[c].answer # Null
    /\ (calls[c].at = "answered" /\ calls[c].answer.code = "ok") =>
        /\ reservations[o] # Null
        /\ calls[c].answer.prices = reservations[o].prices

\* The reservation of an order, against the order.
ReservationInv(o) ==
    reservations[o] # Null =>
        /\ Exists(o)
        /\ SameRequest(reservations[o], CartOf(o))
        /\ Total(orders[o].items, reservations[o].prices) =< MaxTotalVnd
        /\ reservations[o].released =>
            orders[o].status = "CANCELLED" /\ ~orders[o].failure

\* The order, against its reservation and its payment.
OrderInv(o) ==
    Exists(o) =>
        /\ orders[o].failure => orders[o].status = "CANCELLED"
        /\ orders[o].status \in Bought =>
            /\ reservations[o] # Null
            /\ orders[o].prices = reservations[o].prices
            /\ orders[o].totalVnd = Total(orders[o].items, reservations[o].prices)
        /\ orders[o].status \in {"PAID", "CONFIRMED", "READY"} =>
            payments[o] # Null /\ payments[o].status = "SUCCEEDED"
        /\ (orders[o].status = "CANCELLED" /\ ~orders[o].failure) =>
            payments[o] # Null /\ payments[o].status = "FAILED"

\* What an event says is so, and stays so.
EventInv(e) ==
    LET o == e.orderId IN
    /\ o \in OrderId /\ Exists(o)
    /\ e.userId = orders[o].userId
    /\ e.topic = "order.created" =>
        /\ e.totalVnd = orders[o].totalVnd
        /\ e.paymentMethod = orders[o].paymentMethod

UnderWay ==
    /\ \A c \in Caller : CallInv(c)
    /\ \A o \in OrderId : stray[o] > 0 => Exists(o)
    /\ \A r \in Recoverer : \A o \in batch[r] : Exists(o)

RowInv ==
    /\ \A o \in OrderId : ReservationInv(o) /\ OrderInv(o)
    /\ PaymentAgrees

EventsInv ==
    /\ \A e \in outbox \cup paymentOutbox : EventInv(e)
    /\ OneEventPerFact
    /\ bus \subseteq outbox \cup paymentOutbox

\* Every answer in flight, every order and every event agrees with the rows
\* of the other services, through any interleaving of calls of finish(),
\* late reservations, recovery, payments and repeated events.
IInv == TypeOK /\ UnderWay /\ RowInv /\ EventsInv

-----------------------------------------------------------------------------
(* The abstract life of an order *)

PhaseOf(o) ==
    IF ~Exists(o) THEN "NONE"
    ELSE IF orders[o].status # "CANCELLED" THEN orders[o].status
    ELSE IF orders[o].failure THEN "REJECTED" ELSE "DECLINED"

ChargeOf(o) == IF payments[o] = Null THEN "NONE" ELSE payments[o].status

StockOf(o) ==
    IF reservations[o] = Null THEN "NONE"
    ELSE IF reservations[o].released THEN "RETURNED" ELSE "HELD"

Life == INSTANCE Lifecycle WITH
            phase <- [o \in OrderId |-> PhaseOf(o)],
            charge <- [o \in OrderId |-> ChargeOf(o)],
            stock <- [o \in OrderId |-> StockOf(o)]

\* The services together, with their retries, lost answers and repeated
\* events, do to each order only what Lifecycle allows.
ImplementsLifecycle == Life!Spec

-----------------------------------------------------------------------------
(* Liveness, under FairSpec *)

\* No checkout stays undecided, even if its caller died between the reservation
\* and the commit: the recovery timer finishes it.
CheckoutResolves ==
    \A o \in OrderId : []<>~InStatus(o, "RESERVING")

\* No order that was bought stays neither paid for nor cancelled.
PaymentSettles ==
    \A o \in OrderId : []<>~InStatus(o, "PENDING")

\* The stock of a declined order goes back on the shelf.
DeclineRestores ==
    \A o \in OrderId :
        (payments[o] # Null /\ payments[o].status = "FAILED")
            ~> (reservations[o] # Null /\ reservations[o].released)

-----------------------------------------------------------------------------
(* What the documentation and a comment say, and the code does not do *)

\* "Cancellation tells restaurant to release the reservation once."  An order
\* cancelled because the restaurant refused it never tells the restaurant.
CancellationReleases ==
    \A o \in OrderId : (InStatus(o, "CANCELLED") /\ Holds(o)) =>
        Announced(o, "order.cancelled")

\* "An interrupted RESERVING checkout is retried from its persisted request."
\* Recovery reads the first Take orders only: as many that never finish keep
\* every later one from being retried.
InterruptedIsRetried ==
    \A o \in OrderId :
        (InStatus(o, "RESERVING") /\ Ordered(CartOf(o)) \cap WideDish = {})
            ~> ~InStatus(o, "RESERVING")

\* "A persistent reservation key makes timed-out HTTP retries safe"
\* (docs/ai-journal/02_reference-snapshot.md): no call of finish() is answered 409
\* while its order is bought.
RepeatReturnsOrder ==
    [][\A h \in Handler : FinishRefused(h) =>
        orders'[calls[h].orderId].status \notin Bought]_vars
=============================================================================
