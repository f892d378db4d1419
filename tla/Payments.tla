------------------------------ MODULE Payments ------------------------------
(***************************************************************************)
(* payment-service (services/payment/src/payments.service.ts): one payment *)
(* per order, written with its outbox row under an advisory lock on the    *)
(* order id, so that process() is one step.                                *)
(***************************************************************************)
EXTENDS Carts, FiniteSets

VARIABLES
    payments,       \* payments[o]: its row or Null
    paymentOutbox   \* the rows of the outbox table, published or not

paymentVars == <<payments, paymentOutbox>>

Payment ==
    [userId : User, amountVnd : Amount, status : {"SUCCEEDED", "FAILED"}]

PaymentTopic == {"payment.succeeded", "payment.failed"}

PaymentEvent ==
    [topic : PaymentTopic, orderId : OrderId, n : Nat, userId : User,
     totalVnd : Amount, paymentMethod : {Null}]

ASSUME PaymentAssumption == Null \notin Payment

PaymentsTypeOK ==
    /\ payments \in [OrderId -> Payment \cup {Null}]
    /\ paymentOutbox \subseteq PaymentEvent

PaymentsInit ==
    /\ payments = [o \in OrderId |-> Null]
    /\ paymentOutbox = {}

\* Mutated form: the earlier payment is not looked up
ProcessAgain(event) ==
    LET o == event.orderId
        success == event.paymentMethod # "demo_failure"
        topic == IF success THEN "payment.succeeded" ELSE "payment.failed"
    IN /\ payments' = [payments EXCEPT ![o] =
            [userId |-> event.userId, amountVnd |-> event.totalVnd,
             status |-> IF success THEN "SUCCEEDED" ELSE "FAILED"]]
       /\ paymentOutbox' = paymentOutbox \cup
            {[topic |-> topic, orderId |-> o,
              n |-> Cardinality({e \in paymentOutbox : e.orderId = o}) + 1,
              userId |-> event.userId, totalVnd |-> event.totalVnd,
              paymentMethod |-> Null]}

\* An order.created event: any number of deliveries, at any time, one charge.
Process(event) ==
    LET o == event.orderId
        success == event.paymentMethod # "demo_failure"
        topic == IF success THEN "payment.succeeded" ELSE "payment.failed"
    IN /\ payments[o] = Null
       /\ payments' = [payments EXCEPT ![o] =
            [userId |-> event.userId, amountVnd |-> event.totalVnd,
             status |-> IF success THEN "SUCCEEDED" ELSE "FAILED"]]
       /\ paymentOutbox' = paymentOutbox \cup
            {[topic |-> topic, orderId |-> o,
              n |-> Cardinality({e \in paymentOutbox : e.orderId = o}) + 1,
              userId |-> event.userId, totalVnd |-> event.totalVnd,
              paymentMethod |-> Null]}
=============================================================================
