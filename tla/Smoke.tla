------------------------------- MODULE Smoke --------------------------------
(***************************************************************************)
(* The smoke test (scripts/smoke.mjs) as the client of FoodHub: it sends   *)
(* its requests and makes its assertions in order, and the services, their *)
(* timers and their consumers do what they do in between.  What it asks    *)
(* about health, logins and permissions is in Gateway; prices are in units *)
(* of 5000 VND.  The deadlines of eventually() are left out.               *)
(***************************************************************************)
EXTENDS FoodHub

VARIABLES
    line,       \* how far the script is
    answers,    \* answers[h]: the status of the POST /orders it handled, or 0
    failed      \* an assertion was wrong

smokeVars == <<vars, line, answers, failed>>

\* What dish() creates
Menu == [rice     |-> [priceVnd |-> 9, stock |-> 10],
         soup     |-> [priceVnd |-> 4, stock |-> 10],
         last     |-> [priceVnd |-> 2, stock |-> 1],
         declined |-> [priceVnd |-> 3, stock |-> 2]]

\* The body of a POST /orders under a key
Checkout(key, quantity, method) ==
    [userId |-> "customer", requestKey |-> key, restaurantId |-> "smoke",
     items |-> [d \in Dish |-> IF d \in DOMAIN quantity THEN quantity[d] ELSE 0],
     paymentMethod |-> method]

First == Checkout("key", [rice |-> 2, soup |-> 1], "demo_success")
OtherCart == Checkout("key", [rice |-> 1], "demo_success")
Declined == Checkout("declined", [declined |-> 1], "demo_failure")
LastPortion(h) == Checkout(h, [last |-> 1], "demo_success")

Requests == {First, OtherCart, Declined} \cup {LastPortion(h) : h \in Handler}

\* The database is new, the keys of the burst are new, and nothing is too long
\* or too expensive to be stored.
ASSUME SmokeAssumption ==
    /\ Dish = DOMAIN Menu /\ WideDish = {} /\ "smoke" \in Restaurant
    /\ \A d \in Dish : Menu[d].priceVnd \in Price /\ Menu[d].stock \in NewStock
    /\ Submission = Requests /\ 22 =< MaxTotalVnd
    /\ {1, 2} \subseteq OrderId
    /\ Handler # {} /\ IsFiniteSet(Handler) /\ Handler \cap {"key", "declined"} = {}

SmokeInit ==
    /\ Init
    /\ line = "restaurant"
    /\ answers = [h \in Handler |-> 0]
    /\ failed = FALSE

-----------------------------------------------------------------------------
(* The services, with nothing failing *)

\* The status a handler ends its request with: 409 for a refusal, 503 for an
\* error, and 201 with the order for everything else.
StatusOf(h) ==
    CASE calls[h].at = "answered" /\ calls[h].answer.code \in {"conflict", "bad"} -> 409
      [] calls[h].at = "answered" /\ calls[h].answer.code = "error" -> 503
      [] OTHER -> 201

FinishStep ==
    /\ \/ \E c \in Caller : FinishRead(c) \/ FinishReturns(c)
       \/ \E r \in Recoverer : RecoverTick(r) \/ RecoverNext(r)
    /\ UNCHANGED <<catalogVars, paymentVars, bus, faults>>

Services ==
    /\ \/ FinishStep
       \/ \E c \in Caller : RestaurantAnswers(c)
       \/ Publish \/ Consume
    /\ answers' = [h \in Handler |->
            IF calls[h] # Idle /\ calls'[h] = Idle THEN StatusOf(h) ELSE answers[h]]
    /\ UNCHANGED <<line, failed>>

-----------------------------------------------------------------------------
(* The script *)

Go(from, to) == ~failed /\ line = from /\ line' = to

Assert(holds) == failed' = ~holds

\* Another cart under the key and a recorded failure are answered at once.
Conflicts(s) ==
    \E o \in OrderId : SameKey(o, s) /\ (~SameCart(o, s) \/ orders[o].failure)

Post(h, s) ==
    /\ IF Conflicts(s)
       THEN answers' = [answers EXCEPT ![h] = 409] /\ UNCHANGED orderVars
       ELSE answers' = [answers EXCEPT ![h] = 0] /\ (CreateNew(h, s) \/ CreateAgain(h, s))
    /\ UNCHANGED <<catalogVars, paymentVars, bus, faults, failed>>

\* The one handler of the requests that are made one after the other
Single == CHOOSE h \in Handler : TRUE

Answers(status) ==
    /\ answers[Single] # 0
    /\ Assert(answers[Single] = status)
    /\ UNCHANGED <<vars, answers>>

See(holds) == Assert(holds) /\ UNCHANGED <<vars, answers>>

Eventually(seen) == seen /\ UNCHANGED <<vars, answers, failed>>

AddRestaurant ==
    /\ Go("restaurant", "dishes")
    /\ CreateRestaurant("smoke")
    /\ UNCHANGED <<orderVars, paymentVars, bus, faults, answers, failed>>

AddDishes ==
    /\ Go("dishes", IF Cardinality({d \in Dish : OnSale(d)}) = 3 THEN "order" ELSE "dishes")
    /\ \E d \in Dish : AddDish("smoke", d, Menu[d].priceVnd, Menu[d].stock)
    /\ UNCHANGED <<orderVars, paymentVars, bus, faults, answers, failed>>

\* The order, the same request again, and another cart under its key
Idempotency ==
    \/ Go("order", "ordered") /\ Post(Single, First)
    \/ Go("ordered", "retry") /\ Answers(201)
    \/ Go("retry", "retried") /\ Post(Single, First)
    \/ Go("retried", "other") /\ Answers(201)
    \/ Go("other", "conflict") /\ Post(Single, OtherCart)
    \/ Go("conflict", "total") /\ Answers(409)
    \/ Go("total", "early") /\ See(orders[1].totalVnd = 22 /\ ~Exists(2))

\* PATCH status: 200 if it moves the order, 409 if it may not
Patch(status) ==
    \/ Transition(1, status) /\ UNCHANGED <<catalogVars, paymentVars, bus, faults, answers>>
    \/ ~InStatus(1, Expected(status)) /\ UNCHANGED <<vars, answers>>

Kitchen ==
    \/ Go("early", "paid") /\ See(~InStatus(1, "CONFIRMED") /\ ~InStatus(1, "READY"))
    \/ Go("paid", "payment") /\ Eventually(InStatus(1, "PAID"))
    \/ Go("payment", "confirm") /\ See(payments[1] # Null /\ payments[1].amountVnd = 22)
    \/ Go("confirm", "ready") /\ Patch("CONFIRMED") /\ Assert(InStatus(1, "CONFIRMED")')
    \/ Go("ready", "again") /\ Patch("READY") /\ Assert(InStatus(1, "READY")')
    \/ Go("again", "inbox") /\ See(InStatus(1, "READY"))
    \/ Go("inbox", "decline")
        /\ Eventually(\E e \in bus : e.topic = "order.ready" /\ e.orderId = 1)

Decline ==
    \/ Go("decline", "accepted") /\ Post(Single, Declined)
    \/ Go("accepted", "cancelled") /\ Answers(201)
    \/ Go("cancelled", "restored") /\ Eventually(InStatus(2, "CANCELLED"))
    \/ Go("restored", "burst") /\ Eventually(dishes["declined"].stock = 2)

\* Many at once for one portion: one is accepted and the others conflict.
Burst ==
    \/ /\ Go("burst", "burst")
       /\ \E h \in Handler : ~(\E o \in OrderId : SameKey(o, LastPortion(h)))
                             /\ Post(h, LastPortion(h))
    \/ /\ Go("burst", "counted")
       /\ \A h \in Handler :
            (\E o \in OrderId : SameKey(o, LastPortion(h))) /\ answers[h] # 0
       /\ See(/\ Cardinality({h \in Handler : answers[h] = 201}) = 1
              /\ \A h \in Handler : answers[h] \in {201, 409})
    \/ Go("counted", "delete")
        /\ See(dishes["last"].stock = 0 /\ dishes["rice"].stock = 8)

\* The finally block, reached here only without a failed assertion
Delete ==
    /\ Go("delete", "done")
    /\ RemoveRestaurant("smoke")
    /\ UNCHANGED <<orderVars, paymentVars, bus, faults, answers, failed>>

Script ==
    AddRestaurant \/ AddDishes \/ Idempotency \/ Kitchen \/ Decline \/ Burst \/ Delete

SmokeSpec == SmokeInit /\ [][Services \/ Script]_smokeVars

\* The script goes on when it can, and so do the services.
SmokeFairSpec == SmokeSpec /\ Fairness /\ WF_smokeVars(Script)

-----------------------------------------------------------------------------
(* Properties *)

\* In whatever order the services, the recovery timer, the outboxes and the
\* consumers do their part, the test fails in two places only, and nothing is
\* wrong there but the status: the count of the burst, when an order that was
\* refused is answered 201 as well, and the declined checkout, when it is
\* answered 409 because it was cancelled and released meanwhile.
FailsByStatusOnly ==
    LET Accepted201 == {o \in OrderId : /\ Exists(o) /\ orders[o].requestKey \in Handler
                                        /\ answers[orders[o].requestKey] = 201}
    IN failed =>
        \/ line = "cancelled" /\ reservations[2] # Null /\ reservations[2].released
        \/ /\ line = "counted"
           /\ \A h \in Handler : answers[h] \in {201, 409}
           /\ Cardinality({o \in Accepted201 : ~orders[o].failure}) = 1

\* "Full scope B smoke test passed", unless a status was wrong: every state
\* the script waits for comes.
SmokeEnds == <>(line = "done" \/ failed)
=============================================================================
