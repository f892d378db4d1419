------------------------------ MODULE FoodHub -------------------------------
(***************************************************************************)
(* Checkout across the services: order-service reserves stock at           *)
(* restaurant-service over HTTP, tells payment-service of the order        *)
(* through its outbox and Kafka, takes the payment result back the same    *)
(* way, and has the stock of a declined order released.                    *)
(*                                                                         *)
(* Events travel at least once and in any order: a committed outbox row is *)
(* published at some time, and a published event may be handled at any     *)
(* time and any number of times.  (All the events of one topic and order   *)
(* are copies of one row, so the order Kafka keeps within a partition says *)
(* nothing about the events of one order.)                                 *)
(***************************************************************************)
EXTENDS Orders, Catalog, Payments

CONSTANT MaxFaults      \* bound: calls that end early or answer 5xx

ASSUME FaultAssumption == MaxFaults \in Nat

VARIABLES
    bus,            \* the events that have reached their Kafka topic
    faults          \* how many faults there have been

vars == <<orderVars, catalogVars, paymentVars, bus, faults>>

Init ==
    /\ OrdersInit /\ CatalogInit /\ PaymentsInit
    /\ bus = {}
    /\ faults = 0

-----------------------------------------------------------------------------
(* The HTTP reservation *)

\* The body of the request: the stored cart, not the one of this call.
CartOf(o) == [restaurantId |-> orders[o].restaurantId, items |-> orders[o].items]

RestaurantAnswers(c) ==
    /\ calls[c].at = "posted"
    /\ LET o == calls[c].orderId IN
        /\ FinishAnswered(c, ReserveAnswer(o, CartOf(o)))
        /\ Reserve(o, CartOf(o))
    /\ UNCHANGED <<paymentVars, bus, faults>>

\* The reservation transaction fails or times out and rolls back.
RestaurantFails(c) ==
    /\ faults < MaxFaults /\ faults' = faults + 1
    /\ FinishAnswered(c, Refused("error"))
    /\ UNCHANGED <<catalogVars, paymentVars, bus>>

StrayServed(o) ==
    /\ StrayGone(o)
    /\ Reserve(o, CartOf(o))
    /\ UNCHANGED <<paymentVars, bus, faults>>

StrayLost(o) ==
    /\ StrayGone(o)
    /\ UNCHANGED <<catalogVars, paymentVars, bus, faults>>

CallFails(c) ==
    /\ faults < MaxFaults /\ faults' = faults + 1
    /\ Abandon(c)
    /\ UNCHANGED <<catalogVars, paymentVars, bus>>

-----------------------------------------------------------------------------
(* Steps inside order-service *)

Submit(h) == \E s \in Submission : CreateNew(h, s) \/ CreateAgain(h, s)

FinishReturns(c) == FinishRefused(c) \/ FinishUnavailable(c) \/ FinishCommit(c)

OrderStep ==
    /\ \/ \E h \in Handler : Submit(h)
       \/ \E c \in Caller : FinishRead(c) \/ FinishReturns(c)
       \/ \E r \in Recoverer : RecoverTick(r) \/ RecoverNext(r)
       \/ \E o \in OrderId, status \in {"CONFIRMED", "READY"} :
              Transition(o, status)
    /\ UNCHANGED <<catalogVars, paymentVars, bus, faults>>

AdminStep ==
    /\ Administer
    /\ UNCHANGED <<orderVars, paymentVars, bus, faults>>

-----------------------------------------------------------------------------
(* Events *)

PublishOrder(e) ==
    /\ e \in outbox \ bus
    /\ bus' = bus \cup {e}
    /\ UNCHANGED <<orderVars, catalogVars, paymentVars, faults>>

PublishPayment(e) ==
    /\ e \in paymentOutbox \ bus
    /\ bus' = bus \cup {e}
    /\ UNCHANGED <<orderVars, catalogVars, paymentVars, faults>>

\* Mutated form: !totalVnd for totalVnd < 0
AcceptedPaid(e) ==
    /\ e.orderId >= 1
    /\ e.topic = "order.created" =>
        e.totalVnd > 0 /\ e.paymentMethod \in Method

\* What eachMessage demands of an event before it hands it to the handler.
Accepted(e) ==
    /\ e.orderId >= 1
    /\ e.topic = "order.created" =>
        e.totalVnd >= 0 /\ e.paymentMethod \in Method

PaymentConsumes(e) ==
    /\ e \in bus /\ Accepted(e)
    /\ e.topic = "order.created"
    /\ Process(e)
    /\ UNCHANGED <<orderVars, catalogVars, bus, faults>>

OrderConsumes(e) ==
    /\ e \in bus /\ Accepted(e)
    /\ e.topic \in PaymentTopic
    /\ PaymentResult(e.orderId, e.topic = "payment.succeeded")
    /\ UNCHANGED <<catalogVars, paymentVars, bus, faults>>

RestaurantConsumes(e) ==
    /\ e \in bus /\ Accepted(e)
    /\ e.topic = "order.cancelled"
    /\ Release(e.orderId)
    /\ UNCHANGED <<orderVars, paymentVars, bus, faults>>

Publish == \E e \in outbox \cup paymentOutbox : PublishOrder(e) \/ PublishPayment(e)

Consume ==
    \E e \in bus : PaymentConsumes(e) \/ OrderConsumes(e) \/ RestaurantConsumes(e)

-----------------------------------------------------------------------------
Next ==
    \/ OrderStep
    \/ AdminStep
    \/ \E c \in Caller :
        RestaurantAnswers(c) \/ RestaurantFails(c) \/ CallFails(c)
    \/ \E o \in OrderId : StrayServed(o) \/ StrayLost(o)
    \/ Publish
    \/ Consume

Spec == Init /\ [][Next]_vars

\* The services keep running: a call that can go on does, the recovery timer
\* fires, committed rows are published and events are handled.  Clients,
\* administrators and faults are free to do nothing.
Fairness ==
    /\ \A c \in Caller :
        /\ WF_vars(FinishRead(c) /\ UNCHANGED <<catalogVars, paymentVars, bus, faults>>)
        /\ WF_vars(RestaurantAnswers(c))
        /\ WF_vars(FinishReturns(c) /\ UNCHANGED <<catalogVars, paymentVars, bus, faults>>)
    /\ \A r \in Recoverer :
        WF_vars(/\ RecoverTick(r) \/ RecoverNext(r)
                /\ UNCHANGED <<catalogVars, paymentVars, bus, faults>>)
    /\ WF_vars(Publish)
    /\ WF_vars(Consume)

FairSpec == Spec /\ Fairness
=============================================================================
