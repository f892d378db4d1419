------------------------------- MODULE Orders -------------------------------
(***************************************************************************)
(* order-service (services/order/src/orders.service.ts): the orders and    *)
(* their outbox, and the calls of create() and finish() that are in        *)
(* progress.  A call awaits three times in finish() - the read, the HTTP   *)
(* reservation, the final transaction - and other calls, other replicas    *)
(* and the recovery timer run in between; each stretch between two awaits  *)
(* that touches shared state is one action.  What the restaurant answers   *)
(* is left to the module that composes the services.                       *)
(***************************************************************************)
EXTENDS Carts, FiniteSets

CONSTANTS
    Handler,        \* request handlers of POST /orders, of every replica
    Recoverer,      \* the recovery timers, one per replica
    Submission,     \* the POST /orders requests clients may send
    Take            \* how many orders one recovery pass reads: 50 in the code

Caller == Handler \cup Recoverer

Method == {"demo_success", "demo_failure"}

Request ==
    [userId : User, requestKey : RequestKey, restaurantId : Restaurant,
     items : Items, paymentMethod : Method]

ASSUME OrdersAssumption ==
    /\ Handler \cap Recoverer = {}
    /\ Submission \subseteq Request
    /\ \A s \in Submission : Ordered(s) # {}
    /\ Take \in Nat \ {0}

VARIABLES
    orders,         \* orders[o]: its row or Null
    outbox,         \* the rows of the outbox table, published or not
    calls,          \* calls[c]: what caller c is doing
    stray,          \* stray[o]: reservation requests for o still under way
                    \*           whose caller has stopped waiting
    batch           \* batch[r]: orders recovery pass r has yet to try

orderVars == <<orders, outbox, calls, stray, batch>>

Status == {"RESERVING", "PENDING", "PAID", "CONFIRMED", "READY", "CANCELLED"}

Order ==
    [userId : User, requestKey : RequestKey, restaurantId : Restaurant,
     items : Items, paymentMethod : Method, status : Status,
     totalVnd : Amount, prices : Prices, failure : BOOLEAN]

OrderTopic ==
    {"order.created", "order.confirmed", "order.ready", "order.cancelled"}

\* n tells apart the rows of one topic and order, whose uuids differ; a field
\* the payload does not have is Null, or 0 for the total.
OrderEvent ==
    [topic : OrderTopic, orderId : OrderId, n : Nat, userId : User,
     totalVnd : Amount, paymentMethod : Method \cup {Null}]

ASSUME OrderRowAssumption == Null \notin Order /\ Null \notin Answer

\* A caller is idle, is about to run finish(orderId), has its reservation
\* request under way, or has the answer to it.
Idle == [at |-> "idle", orderId |-> Null, answer |-> Null]
Finishing(o) == [at |-> "finish", orderId |-> o, answer |-> Null]
Posting(o) == [at |-> "posted", orderId |-> o, answer |-> Null]
Answered(o, answer) == [at |-> "answered", orderId |-> o, answer |-> answer]

Call ==
    [at : {"idle", "finish", "posted", "answered"},
     orderId : OrderId \cup {Null}, answer : Answer \cup {Null}]

OrdersTypeOK ==
    /\ orders \in [OrderId -> Order \cup {Null}]
    /\ outbox \subseteq OrderEvent
    /\ calls \in [Caller -> Call]
    /\ stray \in [OrderId -> Nat]
    /\ batch \in [Recoverer -> SUBSET OrderId]

OrdersInit ==
    /\ orders = [o \in OrderId |-> Null]
    /\ outbox = {}
    /\ calls = [c \in Caller |-> Idle]
    /\ stray = [o \in OrderId |-> 0]
    /\ batch = [r \in Recoverer |-> {}]

Exists(o) == orders[o] # Null

InStatus(o, status) == Exists(o) /\ orders[o].status = status

\* tx.outbox.create: a row of its own, whatever rows there already are
Event(topic, o, total, method) ==
    [topic |-> topic, orderId |-> o,
     n |-> Cardinality({e \in outbox : e.topic = topic /\ e.orderId = o}) + 1,
     userId |-> orders[o].userId, totalVnd |-> total, paymentMethod |-> method]

-----------------------------------------------------------------------------
(* create() *)

SameKey(o, s) ==
    /\ Exists(o)
    /\ orders[o].userId = s.userId /\ orders[o].requestKey = s.requestKey

SameCart(o, s) ==
    /\ orders[o].restaurantId = s.restaurantId
    /\ orders[o].items = s.items
    /\ orders[o].paymentMethod = s.paymentMethod

\* The upsert inserts the row ...
CreateNew(h, s) ==
    /\ calls[h] = Idle
    /\ ~\E o \in OrderId : SameKey(o, s)
    /\ \E o \in OrderId :
        /\ ~Exists(o) /\ \A p \in OrderId : p < o => Exists(p)
        /\ orders' = [orders EXCEPT ![o] =
            [userId |-> s.userId, requestKey |-> s.requestKey,
             restaurantId |-> s.restaurantId, items |-> s.items,
             paymentMethod |-> s.paymentMethod, status |-> "RESERVING",
             totalVnd |-> 0, prices |-> NoPrices, failure |-> FALSE]]
        /\ calls' = [calls EXCEPT ![h] = Finishing(o)]
    /\ UNCHANGED <<outbox, stray, batch>>

\* ... or finds it.  Another cart under the same key and a recorded failure
\* are answered 409 at once and change nothing.
CreateAgain(h, s) ==
    /\ calls[h] = Idle
    /\ \E o \in OrderId :
        /\ SameKey(o, s) /\ SameCart(o, s) /\ ~orders[o].failure
        /\ calls' = [calls EXCEPT ![h] = Finishing(o)]
    /\ UNCHANGED <<orders, outbox, stray, batch>>

-----------------------------------------------------------------------------
(* finish() *)

\* The order is read; unless it is RESERVING it is the answer.
FinishRead(c) ==
    /\ calls[c].at = "finish"
    /\ calls' = [calls EXCEPT ![c] =
        IF InStatus(@.orderId, "RESERVING") THEN Posting(@.orderId) ELSE Idle]
    /\ UNCHANGED <<orders, outbox, stray, batch>>

\* The restaurant's answer arrives while the caller still waits for it.
FinishAnswered(c, answer) ==
    /\ calls[c].at = "posted"
    /\ calls' = [calls EXCEPT ![c] = Answered(@.orderId, answer)]
    /\ UNCHANGED <<orders, outbox, stray, batch>>

\* Mutated form: the failure is recorded whatever has become of the order
FinishRefusedLate(c) ==
    /\ calls[c].at = "answered"
    /\ calls[c].answer.code \in {"conflict", "bad"}
    /\ orders' = [orders EXCEPT ![calls[c].orderId].status = "CANCELLED",
                                ![calls[c].orderId].failure = TRUE]
    /\ calls' = [calls EXCEPT ![c] = Idle]
    /\ UNCHANGED <<outbox, stray, batch>>

\* 400, 404 or 409: the failure is recorded unless the order has moved on.
FinishRefused(c) ==
    /\ calls[c].at = "answered"
    /\ calls[c].answer.code \in {"conflict", "bad"}
    /\ LET o == calls[c].orderId IN
        orders' = IF InStatus(o, "RESERVING")
                  THEN [orders EXCEPT ![o].status = "CANCELLED",
                                      ![o].failure = TRUE]
                  ELSE orders
    /\ calls' = [calls EXCEPT ![c] = Idle]
    /\ UNCHANGED <<outbox, stray, batch>>

\* Any other answer leaves the order to a retry.
FinishUnavailable(c) ==
    /\ calls[c].at = "answered"
    /\ calls[c].answer.code = "error"
    /\ calls' = [calls EXCEPT ![c] = Idle]
    /\ UNCHANGED <<orders, outbox, stray, batch>>

\* What the final transaction does to the order
Priced(o, prices) ==
    [orders EXCEPT ![o].status = "PENDING",
                   ![o].totalVnd = Total(orders[o].items, prices),
                   ![o].prices = prices]

\* Mutated form: the update does not ask for status RESERVING
FinishCommitLate(c) ==
    /\ calls[c].at = "answered"
    /\ calls[c].answer.code = "ok"
    /\ LET o == calls[c].orderId IN
        /\ orders' = Priced(o, calls[c].answer.prices)
        /\ outbox' = outbox \cup {Event("order.created", o,
                        orders'[o].totalVnd, orders[o].paymentMethod)}
    /\ calls' = [calls EXCEPT ![c] = Idle]
    /\ UNCHANGED <<stray, batch>>

\* Mutated form: the event carries the total read before the reservation
FinishCommitStaleTotal(c) ==
    /\ calls[c].at = "answered"
    /\ calls[c].answer.code = "ok"
    /\ LET o == calls[c].orderId IN
        /\ InStatus(o, "RESERVING")
        /\ orders' = Priced(o, calls[c].answer.prices)
        /\ outbox' = outbox \cup {Event("order.created", o,
                        orders[o].totalVnd, orders[o].paymentMethod)}
    /\ calls' = [calls EXCEPT ![c] = Idle]
    /\ UNCHANGED <<stray, batch>>

\* Mutated form: the event is not written with the order
FinishCommitSilent(c) ==
    /\ calls[c].at = "answered"
    /\ calls[c].answer.code = "ok"
    /\ LET o == calls[c].orderId IN
        orders' = IF InStatus(o, "RESERVING")
                  THEN Priced(o, calls[c].answer.prices) ELSE orders
    /\ calls' = [calls EXCEPT ![c] = Idle]
    /\ UNCHANGED <<outbox, stray, batch>>

\* The final transaction: total, items, status and event, or nothing if
\* another call got there first.
FinishCommit(c) ==
    /\ calls[c].at = "answered"
    /\ calls[c].answer.code = "ok"
    /\ LET o == calls[c].orderId
           prices == calls[c].answer.prices
           total == Total(orders[o].items, prices)
       IN \/ /\ InStatus(o, "RESERVING")
             /\ orders' = Priced(o, prices)
             /\ outbox' = outbox \cup
                    {Event("order.created", o, total, orders[o].paymentMethod)}
          \/ /\ ~InStatus(o, "RESERVING")
             /\ UNCHANGED <<orders, outbox>>
    /\ calls' = [calls EXCEPT ![c] = Idle]
    /\ UNCHANGED <<stray, batch>>

\* The call ends early: the four-second timeout, a connection that breaks, a
\* transaction that fails, or the death of the process.  The request it may
\* have under way can still reach the restaurant.  A recovery pass survives a
\* failed call and goes on with its batch; it does not survive its process.
Abandon(c) ==
    /\ calls[c] # Idle
    /\ calls' = [calls EXCEPT ![c] = Idle]
    /\ stray' = IF calls[c].at = "posted"
                THEN [stray EXCEPT ![calls[c].orderId] = @ + 1] ELSE stray
    /\ batch' \in {batch} \cup {[batch EXCEPT ![r] = {}] : r \in {c} \cap Recoverer}
    /\ UNCHANGED <<orders, outbox>>

\* A request nobody waits for reaches the restaurant, or is lost.
StrayGone(o) ==
    /\ stray[o] > 0
    /\ stray' = [stray EXCEPT ![o] = @ - 1]
    /\ UNCHANGED <<orders, outbox, calls, batch>>

-----------------------------------------------------------------------------
(* recover() *)

Reserving == {o \in OrderId : InStatus(o, "RESERVING")}

\* Mutated form: one order short of the page
PendingShort ==
    {o \in Reserving : Cardinality({p \in Reserving : p < o}) < Take - 1}

\* The first Take orders still RESERVING, by id.
Pending == {o \in Reserving : Cardinality({p \in Reserving : p < o}) < Take}

RecoverTick(r) ==
    /\ batch[r] = {} /\ calls[r] = Idle
    /\ batch' = [batch EXCEPT ![r] = Pending]
    /\ UNCHANGED <<orders, outbox, calls, stray>>

RecoverNext(r) ==
    /\ calls[r] = Idle
    /\ \E o \in batch[r] :
        /\ \A p \in batch[r] : o =< p
        /\ calls' = [calls EXCEPT ![r] = Finishing(o)]
        /\ batch' = [batch EXCEPT ![r] = @ \ {o}]
    /\ UNCHANGED <<orders, outbox, stray>>

-----------------------------------------------------------------------------
(* transition() and paymentResult() *)

\* The one status a transition may start from
Expected(status) == IF status = "CONFIRMED" THEN "PAID" ELSE "CONFIRMED"

\* Repeating a transition, or asking for one out of turn, changes nothing.
Transition(o, status) ==
    LET topic == IF status = "READY" THEN "order.ready" ELSE "order.confirmed"
    IN /\ InStatus(o, Expected(status))
       /\ orders' = [orders EXCEPT ![o].status = status]
       /\ outbox' = outbox \cup {Event(topic, o, orders[o].totalVnd, Null)}
       /\ UNCHANGED <<calls, stray, batch>>

\* Mutated form: the cancellation is announced whatever the result
PaymentResultCancels(o, succeeded) ==
    /\ InStatus(o, "PENDING")
    /\ orders' = [orders EXCEPT ![o].status =
                    IF succeeded THEN "PAID" ELSE "CANCELLED"]
    /\ outbox' = outbox \cup {Event("order.cancelled", o, 0, Null)}
    /\ UNCHANGED <<calls, stray, batch>>

\* Mutated form: the cancellation is not announced
PaymentResultSilent(o, succeeded) ==
    /\ InStatus(o, "PENDING")
    /\ orders' = [orders EXCEPT ![o].status =
                    IF succeeded THEN "PAID" ELSE "CANCELLED"]
    /\ UNCHANGED <<outbox, calls, stray, batch>>

\* Only a PENDING order takes a payment result, so redelivery is harmless.
PaymentResult(o, succeeded) ==
    /\ InStatus(o, "PENDING")
    /\ orders' = [orders EXCEPT ![o].status =
                    IF succeeded THEN "PAID" ELSE "CANCELLED"]
    /\ outbox' = IF succeeded THEN outbox
                 ELSE outbox \cup {Event("order.cancelled", o, 0, Null)}
    /\ UNCHANGED <<calls, stray, batch>>
=============================================================================
