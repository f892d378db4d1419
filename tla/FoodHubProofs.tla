--------------------------- MODULE FoodHubProofs ----------------------------
(* Proofs of the safety properties of FoodHub, for every number of orders,  *)
(* callers, carts and faults.                                               *)
EXTENDS FoodHubProps, CatalogProofs, FiniteSetTheorems

USE DEF Exists, InStatus, OrderTopic, PaymentTopic

-----------------------------------------------------------------------------
(* Calls of finish() *)

\* The states a call to finishReservation goes through are calls.
LEMMA CallsTyped ==
    /\ Idle \in Call
    /\ \A o \in OrderId : Finishing(o) \in Call /\ Posting(o) \in Call
    /\ \A o \in OrderId, answer \in Answer : Answered(o, answer) \in Call
BY DEF Call, Idle, Finishing, Posting, Answered

\* What CallInv asks of one call, in the state after a step.
CallFits(call) ==
    LET o == call.orderId IN
    /\ call.at # "idle" => o \in OrderId /\ Exists(o)
    /\ call.at = "idle" => call = Idle
    /\ call.at = "answered" => call.answer # Null
    /\ (call.at = "answered" /\ call.answer.code = "ok") =>
        /\ reservations[o] # Null
        /\ call.answer.prices = reservations[o].prices

\* The rows of the services and the events are as they were.
RowsUnchanged ==
    UNCHANGED <<orders, outbox, reservations, payments, paymentOutbox, bus>>

\* A step that leaves the rows alone keeps what is said of rows and events.
LEMMA RowsFrame ==
    ASSUME RowInv, EventsInv, RowsUnchanged
    PROVE  RowInv' /\ EventsInv'
<1> USE DEF RowsUnchanged
<1>1. RowInv'
  BY DEF RowInv, ReservationInv, OrderInv, PaymentAgrees, SameRequest, CartOf, Bought
<1>2. EventsInv'
  BY DEF EventsInv, EventInv, OneEventPerFact, FactsAnnounced, Announced
<1> QED BY <1>1, <1>2

\* A step that only moves call c on, and its new state fits.
LEMMA CallStep ==
    ASSUME IInv, NEW c \in Caller, NEW call \in Call, CallFits(call),
           calls' = [calls EXCEPT ![c] = call],
           UNCHANGED <<stray, batch, restaurants, dishes>>, RowsUnchanged,
           faults' \in 0..MaxFaults
    PROVE  IInv'
<1> USE DEF RowsUnchanged
<1>1. TypeOK'
  BY DEF IInv, TypeOK, OrdersTypeOK, CatalogTypeOK, PaymentsTypeOK
<1>2. UnderWay'
  <2>1. ASSUME NEW a \in Caller PROVE CallInv(a)'
    <3>1. CASE a = c
      <4>1. calls'[c] = call
        BY DEF IInv, TypeOK, OrdersTypeOK
      <4> QED BY <3>1, <4>1 DEF CallInv, CallFits
    <3>2. CASE a # c
      <4>1. calls'[a] = calls[a]
        BY <3>2 DEF IInv, TypeOK, OrdersTypeOK
      <4> QED BY <4>1 DEF IInv, UnderWay, CallInv
    <3> QED BY <3>1, <3>2
  <2> QED BY <2>1 DEF IInv, UnderWay
<1> QED BY <1>1, <1>2, RowsFrame DEF IInv

\* Steps inside order-service leave the other services alone.
Elsewhere == UNCHANGED <<catalogVars, paymentVars, bus, faults>>

\* create() of a request that already has its order starts to finish that order.
LEMMA CreateAgainInv ==
    ASSUME IInv, NEW h \in Handler, NEW s \in Submission, CreateAgain(h, s), Elsewhere
    PROVE  IInv'
<1>1. PICK o \in OrderId : Exists(o) /\ calls' = [calls EXCEPT ![h] = Finishing(o)]
  BY DEF CreateAgain, SameKey
<1>2. CallFits(Finishing(o))
  BY <1>1 DEF CallFits, Finishing
<1>3. faults' \in 0..MaxFaults
  BY DEF Elsewhere, IInv, TypeOK
<1> QED BY <1>1, <1>2, <1>3, CallsTyped, CallStep
    DEF CreateAgain, Elsewhere, RowsUnchanged, paymentVars, catalogVars, Caller

\* The first read of finishReservation: on to the post, or nothing to do.
LEMMA FinishReadInv ==
    ASSUME IInv, NEW c \in Caller, FinishRead(c), Elsewhere
    PROVE  IInv'
<1> DEFINE o == calls[c].orderId
           call == IF InStatus(o, "RESERVING") THEN Posting(o) ELSE Idle
<1>1. o \in OrderId /\ Exists(o)
  BY DEF FinishRead, IInv, UnderWay, CallInv
<1>2. call \in Call /\ CallFits(call)
  BY <1>1, CallsTyped DEF CallFits, Posting, Idle
<1>3. calls' = [calls EXCEPT ![c] = call]
  BY DEF FinishRead
<1>4. faults' \in 0..MaxFaults
  BY DEF Elsewhere, IInv, TypeOK
<1> HIDE DEF call, o
<1> QED BY <1>2, <1>3, <1>4, CallStep
    DEF FinishRead, Elsewhere, RowsUnchanged, paymentVars, catalogVars

\* A call that is over.
LEMMA IdleFits == Idle \in Call /\ CallFits(Idle)
BY CallsTyped DEF CallFits, Idle

\* The restaurant gave no verdict: the call is over and the order still RESERVING.
LEMMA FinishUnavailableInv ==
    ASSUME IInv, NEW c \in Caller, FinishUnavailable(c), Elsewhere
    PROVE  IInv'
<1>1. faults' \in 0..MaxFaults
  BY DEF Elsewhere, IInv, TypeOK
<1> QED BY <1>1, IdleFits, CallStep
    DEF FinishUnavailable, Elsewhere, RowsUnchanged, paymentVars, catalogVars

\* The restaurant does not reserve: its rollback leaves only the answer.
LEMMA RestaurantFailsInv ==
    ASSUME IInv, NEW c \in Caller, RestaurantFails(c)
    PROVE  IInv'
<1> DEFINE o == calls[c].orderId
           call == Answered(o, Refused("error"))
<1>1. o \in OrderId /\ Exists(o)
  BY DEF RestaurantFails, FinishAnswered, IInv, UnderWay, CallInv
<1>2. Refused("error") \in Answer
  BY NoPricesInPrices DEF Refused, Answer
<1>3. call \in Call
  BY <1>1, <1>2, CallsTyped
<1>4. CallFits(call)
  BY <1>1, <1>2, OrderRowAssumption DEF CallFits, Answered, Refused
<1>5. calls' = [calls EXCEPT ![c] = call]
  BY DEF RestaurantFails, FinishAnswered
<1>6. faults' \in 0..MaxFaults
  BY FaultAssumption DEF RestaurantFails, IInv, TypeOK
<1> HIDE DEF call, o
<1> QED BY <1>3, <1>4, <1>5, <1>6, CallStep
    DEF RestaurantFails, FinishAnswered, RowsUnchanged, paymentVars, catalogVars

\* The recovery timer and the end of a call touch the batches and the stray
\* requests as well.
LEMMA RecoverTickInv ==
    ASSUME IInv, NEW r \in Recoverer, RecoverTick(r), Elsewhere
    PROVE  IInv'
<1> USE DEF RecoverTick, Elsewhere, RowsUnchanged, paymentVars, catalogVars
<1>1. Pending \in SUBSET OrderId /\ \A o \in Pending : Exists(o)
  BY DEF Pending, Reserving
<1>2. TypeOK'
  BY <1>1 DEF IInv, TypeOK, OrdersTypeOK, CatalogTypeOK, PaymentsTypeOK
<1>3. \A a \in Recoverer : \A o \in batch'[a] : Exists(o)'
  BY <1>1 DEF IInv, TypeOK, OrdersTypeOK, UnderWay
<1>4. UnderWay'
  BY <1>3 DEF IInv, UnderWay, CallInv
<1> QED BY <1>2, <1>4, RowsFrame DEF IInv

\* The recovery timer goes on to the next order of its batch.
LEMMA RecoverNextInv ==
    ASSUME IInv, NEW r \in Recoverer, RecoverNext(r), Elsewhere
    PROVE  IInv'
<1>1. PICK o \in batch[r] : /\ calls' = [calls EXCEPT ![r] = Finishing(o)]
                            /\ batch' = [batch EXCEPT ![r] = @ \ {o}]
  BY DEF RecoverNext
<1>2. r \in Caller /\ o \in OrderId /\ Exists(o)
  BY <1>1 DEF IInv, TypeOK, OrdersTypeOK, UnderWay, Caller
<1>3. Finishing(o) \in Call
  BY <1>2, CallsTyped
<1> USE DEF RecoverNext, Elsewhere, RowsUnchanged, paymentVars, catalogVars
<1>4. TypeOK'
  <2>1. calls' \in [Caller -> Call] /\ batch' \in [Recoverer -> SUBSET OrderId]
    BY <1>1, <1>2, <1>3 DEF IInv, TypeOK, OrdersTypeOK
  <2> QED BY <2>1 DEF IInv, TypeOK, OrdersTypeOK, CatalogTypeOK, PaymentsTypeOK
<1>5. ASSUME NEW a \in Caller PROVE CallInv(a)'
  <2>1. calls'[a] = IF a = r THEN Finishing(o) ELSE calls[a]
    BY <1>1, <1>2 DEF IInv, TypeOK, OrdersTypeOK
  <2>2. CASE a = r
    BY <1>2, <2>1, <2>2 DEF CallInv, Finishing
  <2>3. CASE a # r
    BY <2>1, <2>3 DEF IInv, UnderWay, CallInv
  <2> QED BY <2>2, <2>3
<1>6. \A a \in Recoverer : \A p \in batch'[a] : Exists(p)'
  BY <1>1 DEF IInv, TypeOK, OrdersTypeOK, UnderWay
<1>7. UnderWay'
  BY <1>5, <1>6 DEF IInv, UnderWay
<1> QED BY <1>4, <1>7, RowsFrame DEF IInv

\* A post that fails leaves a request that may be served later.
LEMMA CallFailsInv ==
    ASSUME IInv, NEW c \in Caller, CallFails(c)
    PROVE  IInv'
<1> USE DEF CallFails, Abandon, RowsUnchanged, paymentVars, catalogVars
<1>1. calls' \in [Caller -> Call]
  BY CallsTyped DEF IInv, TypeOK, OrdersTypeOK
<1>2. calls[c].at = "posted" => calls[c].orderId \in OrderId /\ Exists(calls[c].orderId)
  BY DEF IInv, UnderWay, CallInv
<1>3. /\ stray' \in [OrderId -> Nat]
      /\ \A o \in OrderId : stray'[o] > 0 => Exists(o)'
  BY <1>2 DEF IInv, TypeOK, OrdersTypeOK, UnderWay
<1>4. /\ batch' \in [Recoverer -> SUBSET OrderId]
      /\ \A r \in Recoverer : \A o \in batch'[r] : Exists(o)'
  BY DEF IInv, TypeOK, OrdersTypeOK, UnderWay
<1>5. TypeOK'
  BY <1>1, <1>3, <1>4, FaultAssumption
  DEF IInv, TypeOK, OrdersTypeOK, CatalogTypeOK, PaymentsTypeOK
<1>6. ASSUME NEW a \in Caller PROVE CallInv(a)'
  <2>1. calls'[a] = IF a = c THEN Idle ELSE calls[a]
    BY DEF IInv, TypeOK, OrdersTypeOK
  <2> QED BY <2>1 DEF IInv, UnderWay, CallInv, Idle
<1> QED BY <1>3, <1>4, <1>5, <1>6, RowsFrame DEF IInv, UnderWay

\* A request left behind is lost.
LEMMA StrayLostInv ==
    ASSUME IInv, NEW o \in OrderId, StrayLost(o)
    PROVE  IInv'
<1> USE DEF StrayLost, StrayGone, RowsUnchanged, paymentVars, catalogVars
<1>1. /\ stray' \in [OrderId -> Nat]
      /\ \A p \in OrderId : stray'[p] > 0 => stray[p] > 0
  BY DEF IInv, TypeOK, OrdersTypeOK
<1>2. TypeOK'
  BY <1>1 DEF IInv, TypeOK, OrdersTypeOK, CatalogTypeOK, PaymentsTypeOK
<1>3. UnderWay'
  BY <1>1 DEF IInv, UnderWay, CallInv
<1> QED BY <1>2, <1>3, RowsFrame DEF IInv

-----------------------------------------------------------------------------
(* A reservation is made: by a caller who waits for the answer, or late *)

\* The cart of a stored order is well-formed.
LEMMA CartOfTyped ==
    ASSUME OrdersTypeOK, NEW o \in OrderId, Exists(o)
    PROVE  CartOf(o).items \in Items /\ CartOf(o).restaurantId \in Restaurant
BY DEF OrdersTypeOK, CartOf, Order

\* Whoever makes it, the reservation of an order that exists fits the order,
\* and no reservation an order or a call relies on changes.
LEMMA ReserveRows ==
    ASSUME IInv, NEW o \in OrderId, Exists(o), Reserve(o, CartOf(o)),
           UNCHANGED <<orders, outbox, payments, paymentOutbox, bus>>
    PROVE  /\ CatalogTypeOK' /\ RowInv' /\ EventsInv'
           /\ \A p \in OrderId : reservations[p] # Null =>
                reservations'[p] = reservations[p]
<1>1. CatalogTypeOK /\ OrdersTypeOK
  BY DEF IInv, TypeOK
<1>2. CatalogTypeOK'
  BY <1>1, CartOfTyped, ReserveType
<1>3. /\ \A p \in OrderId : (p # o \/ reservations[p] # Null) =>
            reservations'[p] = reservations[p]
      /\ reservations[o] = Null /\ reservations'[o] # Null =>
            /\ SameRequest(reservations'[o], CartOf(o))
            /\ ~reservations'[o].released
            /\ Total(CartOf(o).items, reservations'[o].prices) =< MaxTotalVnd
  BY <1>1, ReserveEffect
<1>4. ASSUME NEW p \in OrderId PROVE ReservationInv(p)'
  <2>1. CASE reservations'[p] = reservations[p]
    BY <2>1 DEF IInv, RowInv, ReservationInv, SameRequest, CartOf
  <2>2. CASE reservations'[p] # reservations[p]
    <3>1. p = o /\ reservations[o] = Null
      BY <1>3, <2>2
    <3> QED BY <1>3, <3>1 DEF ReservationInv, SameRequest, CartOf
  <2> QED BY <2>1, <2>2
<1>5. ASSUME NEW p \in OrderId PROVE OrderInv(p)'
  <2>1. OrderInv(p)
    BY DEF IInv, RowInv
  <2> QED BY <1>3, <2>1 DEF OrderInv, Bought
<1>6. PaymentAgrees'
  BY DEF IInv, RowInv, PaymentAgrees
<1>7. EventsInv'
  BY DEF IInv, EventsInv, EventInv, OneEventPerFact, FactsAnnounced, Announced
<1> QED BY <1>2, <1>3, <1>4, <1>5, <1>6, <1>7 DEF RowInv

\* A request left behind is served with nobody waiting for the answer.
LEMMA StrayServedInv ==
    ASSUME IInv, NEW o \in OrderId, StrayServed(o)
    PROVE  IInv'
<1> USE DEF StrayServed, StrayGone, paymentVars
<1>1. Exists(o)
  BY DEF IInv, UnderWay
<1>2. /\ CatalogTypeOK' /\ RowInv' /\ EventsInv'
      /\ \A p \in OrderId : reservations[p] # Null =>
            reservations'[p] = reservations[p]
  BY <1>1, ReserveRows
<1>3. /\ stray' \in [OrderId -> Nat]
      /\ \A p \in OrderId : stray'[p] > 0 => stray[p] > 0
  BY DEF IInv, TypeOK, OrdersTypeOK
<1>4. TypeOK'
  BY <1>2, <1>3 DEF IInv, TypeOK, OrdersTypeOK, PaymentsTypeOK
<1>5. UnderWay'
  BY <1>2, <1>3 DEF IInv, UnderWay, CallInv
<1> QED BY <1>2, <1>4, <1>5 DEF IInv

\* The restaurant serves the post of a call, which now holds its answer.
LEMMA RestaurantAnswersInv ==
    ASSUME IInv, NEW c \in Caller, RestaurantAnswers(c)
    PROVE  IInv'
<1> DEFINE o == calls[c].orderId
           answer == ReserveAnswer(o, CartOf(o))
<1> USE DEF RestaurantAnswers, FinishAnswered, paymentVars
<1>1. o \in OrderId /\ Exists(o)
  BY DEF IInv, UnderWay, CallInv
<1>2. CatalogTypeOK /\ OrdersTypeOK
  BY DEF IInv, TypeOK
<1>3. /\ CatalogTypeOK' /\ RowInv' /\ EventsInv'
      /\ \A p \in OrderId : reservations[p] # Null =>
            reservations'[p] = reservations[p]
  BY <1>1, ReserveRows
<1>4. answer \in Answer
  BY <1>1, <1>2, AnswerInAnswer
<1>5. answer.code = "ok" =>
        reservations'[o] # Null /\ answer.prices = reservations'[o].prices
  BY <1>1, <1>2, CartOfTyped, GrantedIsReserved
<1>6. calls' = [calls EXCEPT ![c] = Answered(o, answer)]
  OBVIOUS
<1>7. Answered(o, answer) \in Call
  BY <1>1, <1>4, CallsTyped
<1>8. TypeOK'
  BY <1>3, <1>6, <1>7 DEF IInv, TypeOK, OrdersTypeOK, PaymentsTypeOK
<1>9. ASSUME NEW a \in Caller PROVE CallInv(a)'
  <2>1. calls'[a] = IF a = c THEN Answered(o, answer) ELSE calls[a]
    BY <1>6 DEF IInv, TypeOK, OrdersTypeOK
  <2>2. CASE a = c
    <3>1. answer # Null
      BY <1>4, OrderRowAssumption
    <3> HIDE DEF answer
    <3> QED BY <1>1, <1>5, <2>1, <2>2, <3>1 DEF CallInv, Answered
  <2>3. CASE a # c
    BY <1>3, <2>1, <2>3 DEF IInv, UnderWay, CallInv
  <2> QED BY <2>2, <2>3
<1> QED BY <1>3, <1>8, <1>9 DEF IInv, UnderWay

\* The administrator writes restaurants and dishes, never a reservation.
LEMMA AdminStepInv ==
    ASSUME IInv, AdminStep
    PROVE  IInv'
<1> USE DEF AdminStep, RowsUnchanged, paymentVars, orderVars
<1>1. CatalogTypeOK' /\ UNCHANGED reservations
  BY AdministerType DEF IInv, TypeOK
<1>2. TypeOK'
  BY <1>1 DEF IInv, TypeOK, OrdersTypeOK, PaymentsTypeOK
<1>3. UnderWay'
  BY <1>1 DEF IInv, UnderWay, CallInv
<1> QED BY <1>1, <1>2, <1>3, RowsFrame DEF IInv

\* Publishing moves an event that is in an outbox to the bus.
LEMMA PublishInv ==
    ASSUME IInv, NEW e \in outbox \cup paymentOutbox, PublishOrder(e) \/ PublishPayment(e)
    PROVE  IInv'
<1> USE DEF PublishOrder, PublishPayment, orderVars, catalogVars, paymentVars
<1>1. TypeOK'
  BY DEF IInv, TypeOK, OrdersTypeOK, CatalogTypeOK, PaymentsTypeOK
<1>2. UnderWay'
  BY DEF IInv, UnderWay, CallInv
<1>3. RowInv'
  BY DEF IInv, RowInv, ReservationInv, OrderInv, PaymentAgrees, SameRequest, CartOf, Bought
<1>4. EventsInv'
  BY DEF IInv, EventsInv, EventInv, OneEventPerFact, FactsAnnounced, Announced
<1> QED BY <1>1, <1>2, <1>3, <1>4 DEF IInv

-----------------------------------------------------------------------------
(* Steps that change an order, a payment or the events *)

\* The first event of its topic about an order is well-formed.
LEMMA EventTyped ==
    ASSUME OrdersTypeOK, NEW o \in OrderId, Exists(o), NEW topic \in OrderTopic,
           NEW total \in Amount, NEW method \in Method \cup {Null},
           ~Announced(o, topic)
    PROVE  Event(topic, o, total, method) \in OrderEvent
<1>1. {e \in outbox : e.topic = topic /\ e.orderId = o} = {}
  BY DEF Announced
<1>2. Cardinality({e \in outbox : e.topic = topic /\ e.orderId = o}) = 0
  <2>1. Cardinality({}) = 0
    BY FS_EmptySet
  <2> QED BY <1>1, <2>1
<1>3. orders[o].userId \in User
  BY DEF OrdersTypeOK, Order
<1> QED BY <1>2, <1>3 DEF Event, OrderEvent

\* The row of an order changes; the calls and batches do not notice, as long
\* as no order disappears.
LEMMA UnderWayFrame ==
    ASSUME IInv, UNCHANGED <<stray, batch, calls, reservations>>,
           \A o \in OrderId : Exists(o) => Exists(o)'
    PROVE  UnderWay'
BY DEF IInv, TypeOK, OrdersTypeOK, UnderWay, CallInv

\* Ending a call keeps what is said of the calls under way.
LEMMA UnderWayIdle ==
    ASSUME IInv, NEW c \in Caller, calls' = [calls EXCEPT ![c] = Idle],
           UNCHANGED <<stray, batch, reservations>>,
           \A o \in OrderId : Exists(o) => Exists(o)'
    PROVE  UnderWay' /\ calls' \in [Caller -> Call]
<1>1. calls' \in [Caller -> Call]
  BY CallsTyped DEF IInv, TypeOK, OrdersTypeOK
<1>2. ASSUME NEW a \in Caller PROVE CallInv(a)'
  <2>1. calls'[a] = IF a = c THEN Idle ELSE calls[a]
    BY DEF IInv, TypeOK, OrdersTypeOK
  <2> QED BY <2>1 DEF IInv, UnderWay, CallInv, Idle
<1> QED BY <1>1, <1>2 DEF IInv, TypeOK, OrdersTypeOK, UnderWay

\* create() of a new request inserts a RESERVING order and its first call.
LEMMA CreateNewInv ==
    ASSUME IInv, NEW h \in Handler, NEW s \in Submission, CreateNew(h, s), Elsewhere
    PROVE  IInv'
<1> DEFINE row == [userId |-> s.userId, requestKey |-> s.requestKey,
                   restaurantId |-> s.restaurantId, items |-> s.items,
                   paymentMethod |-> s.paymentMethod, status |-> "RESERVING",
                   totalVnd |-> 0, prices |-> NoPrices, failure |-> FALSE]
<1>1. PICK o \in OrderId : /\ ~Exists(o)
                           /\ orders' = [orders EXCEPT ![o] = row]
                           /\ calls' = [calls EXCEPT ![h] = Finishing(o)]
  BY DEF CreateNew
<1>2. s \in Request
  BY OrdersAssumption
<1>3. 0 \in Amount
  BY DEF Amount
<1>4. row \in Order
  BY <1>2, <1>3, NoPricesInPrices DEF Request, Order, Status
<1>5. row # Null
  BY <1>4, OrderRowAssumption
<1>6. \A p \in OrderId : orders'[p] = IF p = o THEN row ELSE orders[p]
  BY <1>1 DEF IInv, TypeOK, OrdersTypeOK
<1>7. row.status = "RESERVING" /\ ~row.failure
  OBVIOUS
<1>8. orders' \in [OrderId -> Order \cup {Null}]
  BY <1>1, <1>4 DEF IInv, TypeOK, OrdersTypeOK
<1> HIDE DEF row
<1>9. reservations[o] = Null /\ payments[o] = Null
  BY <1>1 DEF IInv, RowInv, ReservationInv, PaymentAgrees
<1>10. \A e \in outbox \cup paymentOutbox : e.orderId # o
  BY <1>1 DEF IInv, EventsInv, EventInv
<1> USE DEF Elsewhere, CreateNew, catalogVars, paymentVars
<1>11. h \in Caller
  BY DEF Caller
<1>12. calls' \in [Caller -> Call]
  BY <1>1, <1>11, CallsTyped DEF IInv, TypeOK, OrdersTypeOK
<1>13. TypeOK'
  BY <1>8, <1>12 DEF IInv, TypeOK, OrdersTypeOK, CatalogTypeOK, PaymentsTypeOK
<1>14. \A p \in OrderId : Exists(p) => Exists(p)'
  BY <1>5, <1>6
<1>15. ASSUME NEW a \in Caller PROVE CallInv(a)'
  <2>1. calls'[a] = IF a = h THEN Finishing(o) ELSE calls[a]
    BY <1>1, <1>11 DEF IInv, TypeOK, OrdersTypeOK
  <2>2. CASE a = h
    <3>1. calls'[a] = Finishing(o)
      BY <2>1, <2>2
    <3>2. orders'[o] # Null
      BY <1>5, <1>6
    <3> QED BY <3>1, <3>2 DEF CallInv, Finishing
  <2>3. CASE a # h
    BY <1>14, <2>1, <2>3 DEF IInv, UnderWay, CallInv
  <2> QED BY <2>2, <2>3
<1>16. UnderWay'
  BY <1>14, <1>15 DEF IInv, UnderWay, TypeOK, OrdersTypeOK
<1>17. ASSUME NEW p \in OrderId PROVE ReservationInv(p)' /\ OrderInv(p)'
  <2>1. CASE p = o
    BY <1>6, <1>7, <1>9, <2>1 DEF ReservationInv, OrderInv, Bought
  <2>2. CASE p # o
    BY <1>6, <2>2 DEF IInv, RowInv, ReservationInv, OrderInv, SameRequest, CartOf, Bought
  <2> QED BY <2>1, <2>2
<1>18. PaymentAgrees'
  BY <1>6, <1>9 DEF IInv, RowInv, PaymentAgrees
<1>19. EventsInv'
  <2>1. \A e \in (outbox \cup paymentOutbox)' : EventInv(e)'
    BY <1>6, <1>10 DEF IInv, EventsInv, EventInv
  <2>2. \A p, topic : Announced(p, topic)' <=> Announced(p, topic)
    BY DEF Announced
  <2>3. \A topic : ~Announced(o, topic)
    BY <1>10 DEF Announced
  <2>4. ASSUME NEW p \in OrderId PROVE FactsAnnounced(p)'
    <3>1. CASE p = o
      BY <1>6, <1>7, <1>9, <2>2, <2>3, <3>1 DEF FactsAnnounced
    <3>2. CASE p # o
      BY <1>6, <2>2, <3>2 DEF IInv, EventsInv, OneEventPerFact, FactsAnnounced
    <3> QED BY <3>1, <3>2
  <2> QED BY <2>1, <2>4 DEF IInv, EventsInv, OneEventPerFact
<1> QED BY <1>13, <1>16, <1>17, <1>18, <1>19 DEF IInv, RowInv

\* A refusal cancels the order, if it is still RESERVING.
LEMMA FinishRefusedInv ==
    ASSUME IInv, NEW c \in Caller, FinishRefused(c), Elsewhere
    PROVE  IInv'
<1> DEFINE o == calls[c].orderId
<1>1. o \in OrderId /\ Exists(o)
  BY DEF FinishRefused, IInv, UnderWay, CallInv
<1>2. CASE ~InStatus(o, "RESERVING")
  <2>1. RowsUnchanged /\ UNCHANGED <<stray, batch, restaurants, dishes>>
    BY <1>2 DEF FinishRefused, Elsewhere, RowsUnchanged, catalogVars, paymentVars
  <2>2. faults' \in 0..MaxFaults
    BY DEF Elsewhere, IInv, TypeOK
  <2> QED BY <2>1, <2>2, IdleFits, CallStep DEF FinishRefused
<1>3. CASE InStatus(o, "RESERVING")
  <2>1. orders' = [orders EXCEPT ![o].status = "CANCELLED", ![o].failure = TRUE]
    BY <1>3 DEF FinishRefused
  <2>2. /\ \A p \in OrderId : p # o => orders'[p] = orders[p]
        /\ orders'[o] = [orders[o] EXCEPT !.status = "CANCELLED", !.failure = TRUE]
        /\ orders[o] \in Order
    BY <1>1, <2>1 DEF IInv, TypeOK, OrdersTypeOK
  <2>3. orders'[o] \in Order
    BY <2>2 DEF Order, Status
  <2>4. orders' \in [OrderId -> Order \cup {Null}]
    BY <2>1, <2>2, <2>3 DEF IInv, TypeOK, OrdersTypeOK
  <2>5. orders'[o] # Null
    BY <2>3, OrderRowAssumption
  <2>6. /\ orders'[o].status = "CANCELLED" /\ orders'[o].failure = TRUE
        /\ orders'[o].userId = orders[o].userId
        /\ orders'[o].restaurantId = orders[o].restaurantId
        /\ orders'[o].items = orders[o].items
        /\ orders'[o].totalVnd = orders[o].totalVnd
        /\ orders'[o].paymentMethod = orders[o].paymentMethod
    BY <2>2 DEF Order
  <2> HIDE DEF o
  <2> USE DEF Elsewhere, catalogVars, paymentVars
  <2>7. UNCHANGED <<outbox, stray, batch>> /\ calls' = [calls EXCEPT ![c] = Idle]
    BY DEF FinishRefused
  <2>8. \A p \in OrderId : Exists(p) => Exists(p)'
    BY <2>2, <2>5
  <2>9. UnderWay' /\ calls' \in [Caller -> Call]
    BY <2>7, <2>8, UnderWayIdle
  <2>10. TypeOK'
    BY <2>4, <2>7, <2>9 DEF IInv, TypeOK, OrdersTypeOK, CatalogTypeOK, PaymentsTypeOK
  <2>11. payments[o] = Null
    BY <1>1, <1>3 DEF IInv, RowInv, PaymentAgrees
  <2>12. ASSUME NEW p \in OrderId PROVE ReservationInv(p)' /\ OrderInv(p)'
    <3>1. ReservationInv(p) /\ OrderInv(p)
      BY DEF IInv, RowInv
    <3>2. CASE p = o
      BY <1>3, <2>5, <2>6, <3>1, <3>2
      DEF ReservationInv, OrderInv, SameRequest, CartOf, Bought
    <3>3. CASE p # o
      BY <2>2, <3>1, <3>3
      DEF ReservationInv, OrderInv, SameRequest, CartOf, Bought
    <3> QED BY <3>2, <3>3
  <2>13. PaymentAgrees'
    BY <2>2, <2>11 DEF IInv, RowInv, PaymentAgrees
  <2>14. ASSUME NEW e \in outbox \cup paymentOutbox PROVE EventInv(e)'
    <3>1. EventInv(e)
      BY DEF IInv, EventsInv
    <3>2. CASE e.orderId = o
      BY <2>5, <2>6, <3>1, <3>2 DEF EventInv
    <3>3. CASE e.orderId # o
      BY <2>2, <3>1, <3>3 DEF EventInv
    <3> QED BY <3>2, <3>3
  <2>15. ASSUME NEW p \in OrderId PROVE FactsAnnounced(p)'
    <3>1. FactsAnnounced(p)
      BY DEF IInv, EventsInv, OneEventPerFact
    <3>2. \A topic : Announced(p, topic)' <=> Announced(p, topic)
      BY <2>7 DEF Announced
    <3>3. CASE p = o
      BY <1>3, <2>5, <2>6, <2>11, <3>1, <3>2, <3>3 DEF FactsAnnounced
    <3>4. CASE p # o
      BY <2>2, <3>1, <3>2, <3>4 DEF FactsAnnounced
    <3> QED BY <3>3, <3>4
  <2>16. EventsInv'
    BY <2>7, <2>14, <2>15 DEF IInv, EventsInv, OneEventPerFact
  <2> QED BY <2>9, <2>10, <2>12, <2>13, <2>16 DEF IInv, RowInv
<1> QED BY <1>2, <1>3

\* order-service writes these rows to its outbox.
Writes(new) == outbox' = outbox \cup new /\ UNCHANGED paymentOutbox

\* An order moves on and may announce it: what is left to show is that its
\* own row fits its reservation, its payment and its events.
LEMMA OrderMoves ==
    ASSUME IInv, NEW o \in OrderId, Exists(o),
           \A p \in OrderId : p # o => orders'[p] = orders[p],
           orders'[o] # Null,
           orders'[o].userId = orders[o].userId,
           orders'[o].restaurantId = orders[o].restaurantId,
           orders'[o].items = orders[o].items,
           orders'[o].paymentMethod = orders[o].paymentMethod,
           UNCHANGED <<reservations, payments, bus>>,
           NEW new, Writes(new),
           ReservationInv(o)', OrderInv(o)', FactsAnnounced(o)',
           payments[o] # Null =>
                /\ orders'[o].status # "RESERVING" /\ ~orders'[o].failure
                /\ orders'[o].totalVnd = orders[o].totalVnd,
           Announced(o, "order.created") =>
                orders'[o].totalVnd = orders[o].totalVnd,
           \A e \in new : e.orderId = o /\ EventInv(e)' /\ ~Announced(o, e.topic),
           \A e, f \in new : e = f
    PROVE  RowInv' /\ EventsInv'
<1> USE DEF Writes
<1>1. ASSUME NEW p \in OrderId PROVE ReservationInv(p)' /\ OrderInv(p)'
  <2>1. CASE p # o
    <3>1. ReservationInv(p) /\ OrderInv(p)
      BY DEF IInv, RowInv
    <3>2. orders'[p] = orders[p]
      BY <2>1
    <3> QED BY <3>1, <3>2 DEF ReservationInv, OrderInv, SameRequest, CartOf, Bought
  <2> QED BY <2>1
<1>2. PaymentAgrees'
  <2>1. PaymentAgrees
    BY DEF IInv, RowInv
  <2> QED BY <2>1 DEF PaymentAgrees
<1>3. ASSUME NEW e \in outbox' \cup paymentOutbox' PROVE EventInv(e)'
  <2>1. CASE e \in outbox \cup paymentOutbox
    <3>1. EventInv(e)
      BY <2>1 DEF IInv, EventsInv
    <3>2. CASE e.orderId = o
      <4>1. e.topic = "order.created" => orders'[o].totalVnd = orders[o].totalVnd
        BY <2>1, <3>2 DEF Announced
      <4> QED BY <3>1, <3>2, <4>1 DEF EventInv
    <3>3. CASE e.orderId # o
      BY <3>1, <3>3 DEF EventInv
    <3> QED BY <3>2, <3>3
  <2>2. CASE e \in new
    BY <2>2
  <2> QED BY <2>1, <2>2
<1>4. \A e, f \in outbox \cup paymentOutbox :
        (e.topic = f.topic /\ e.orderId = f.orderId) => e = f
  BY DEF IInv, EventsInv, OneEventPerFact
<1>5. \A e \in new, f \in outbox \cup paymentOutbox :
        ~(e.topic = f.topic /\ e.orderId = f.orderId)
  BY DEF Announced
<1>6. \A e, f \in outbox' \cup paymentOutbox' :
        (e.topic = f.topic /\ e.orderId = f.orderId) => e = f
  BY <1>4, <1>5
<1>7. ASSUME NEW p \in OrderId PROVE FactsAnnounced(p)'
  <2>1. CASE p # o
    <3>1. FactsAnnounced(p)
      BY DEF IInv, EventsInv, OneEventPerFact
    <3>2. \A topic : Announced(p, topic)' <=> Announced(p, topic)
      BY <2>1 DEF Announced
    <3> QED BY <2>1, <3>1, <3>2 DEF FactsAnnounced
  <2> QED BY <2>1
<1>8. bus' \subseteq outbox' \cup paymentOutbox'
  BY DEF IInv, EventsInv
<1> QED BY <1>1, <1>2, <1>3, <1>6, <1>7, <1>8 DEF RowInv, EventsInv, OneEventPerFact

\* No row of the payment outbox has a topic of order-service, and conversely.
LEMMA TopicsApart ==
    ASSUME TypeOK
    PROVE  /\ \A e \in outbox : e.topic \in OrderTopic
           /\ \A e \in paymentOutbox : e.topic \in PaymentTopic
BY DEF TypeOK, OrdersTypeOK, PaymentsTypeOK, OrderEvent, PaymentEvent

\* A reservation makes the order PENDING at the snapshot's prices, if it is
\* still RESERVING.
LEMMA FinishCommitInv ==
    ASSUME IInv, NEW c \in Caller, FinishCommit(c), Elsewhere
    PROVE  IInv'
<1>1. PICK o \in OrderId : o = calls[c].orderId /\ Exists(o)
  BY DEF FinishCommit, IInv, UnderWay, CallInv
<1>2. CASE ~InStatus(o, "RESERVING")
  <2>1. RowsUnchanged /\ UNCHANGED <<stray, batch, restaurants, dishes>>
    BY <1>1, <1>2 DEF FinishCommit, Elsewhere, RowsUnchanged, catalogVars, paymentVars
  <2>2. faults' \in 0..MaxFaults
    BY DEF Elsewhere, IInv, TypeOK
  <2> QED BY <2>1, <2>2, IdleFits, CallStep DEF FinishCommit
<1>3. CASE InStatus(o, "RESERVING")
  <2> PICK prices : prices = calls[c].answer.prices
    OBVIOUS
  <2> PICK total : total = Total(orders[o].items, prices)
    OBVIOUS
  <2> PICK event :
            event = Event("order.created", o, total, orders[o].paymentMethod)
    OBVIOUS
  <2> PICK row : row = [orders[o] EXCEPT !.status = "PENDING",
                                         !.totalVnd = total, !.prices = prices]
    OBVIOUS
  <2>1. /\ orders' = [orders EXCEPT ![o].status = "PENDING",
                                    ![o].totalVnd = total, ![o].prices = prices]
        /\ outbox' = outbox \cup {event}
        /\ calls' = [calls EXCEPT ![c] = Idle]
        /\ UNCHANGED <<stray, batch>>
    BY <1>1, <1>3 DEF FinishCommit, Priced
  <2>2. reservations[o] # Null /\ prices = reservations[o].prices
    BY <1>1 DEF FinishCommit, IInv, UnderWay, CallInv
  <2>3. prices \in Prices
    BY <1>1, <2>2 DEF IInv, TypeOK, CatalogTypeOK, Reservation
  <2>4. orders[o] \in Order /\ orders[o].items \in Items
    BY <1>1 DEF IInv, TypeOK, OrdersTypeOK, Order
  <2>5. total \in Amount
    BY <2>3, <2>4, TotalInAmount
  <2>6. row \in Order
    BY <2>3, <2>4, <2>5 DEF Order, Status
  <2>7. orders' = [orders EXCEPT ![o] = row]
    BY <1>1, <2>1 DEF IInv, TypeOK, OrdersTypeOK
  <2>8. orders' \in [OrderId -> Order \cup {Null}]
    BY <2>6, <2>7 DEF IInv, TypeOK, OrdersTypeOK
  <2>9. \A p \in OrderId : orders'[p] = IF p = o THEN row ELSE orders[p]
    BY <2>7 DEF IInv, TypeOK, OrdersTypeOK
  <2>10. row # Null
    BY <2>6, OrderRowAssumption
  <2>11. /\ row.status = "PENDING" /\ row.totalVnd = total /\ row.prices = prices
         /\ row.userId = orders[o].userId /\ row.items = orders[o].items
         /\ row.restaurantId = orders[o].restaurantId
         /\ row.paymentMethod = orders[o].paymentMethod
         /\ row.failure = orders[o].failure
    BY <2>4 DEF Order
  <2>12. OrderInv(o) /\ ReservationInv(o) /\ FactsAnnounced(o)
    BY <1>1 DEF IInv, RowInv, EventsInv, OneEventPerFact
  <2>13. ~orders[o].failure /\ ~Announced(o, "order.created")
    BY <1>3, <2>12 DEF OrderInv, FactsAnnounced
  <2>14. event \in OrderEvent
    <3>1. orders[o].paymentMethod \in Method \cup {Null}
      BY <2>4 DEF Order
    <3> QED BY <1>1, <2>5, <2>13, <3>1, EventTyped DEF IInv, TypeOK
  <2>15. /\ event.topic = "order.created" /\ event.orderId = o
         /\ event.userId = orders[o].userId /\ event.totalVnd = total
         /\ event.paymentMethod = orders[o].paymentMethod
    BY DEF Event
  <2>16. payments[o] = Null
    BY <1>1, <1>3 DEF IInv, RowInv, PaymentAgrees
  <2>17. /\ UNCHANGED <<restaurants, dishes, reservations>>
         /\ UNCHANGED <<payments, paymentOutbox, bus, faults>>
    BY DEF Elsewhere, catalogVars, paymentVars
  <2>18. /\ orders'[o] = row /\ orders'[o] # Null
         /\ orders'[o].status = "PENDING" /\ orders'[o].totalVnd = total
         /\ orders'[o].prices = prices /\ ~orders'[o].failure
         /\ orders'[o].userId = orders[o].userId
         /\ orders'[o].items = orders[o].items
         /\ orders'[o].restaurantId = orders[o].restaurantId
         /\ orders'[o].paymentMethod = orders[o].paymentMethod
    BY <1>1, <2>9, <2>10, <2>11, <2>13
  <2>19. UnderWay' /\ calls' \in [Caller -> Call]
    BY <2>1, <2>9, <2>10, <2>17, UnderWayIdle
  <2>20. TypeOK'
    BY <2>1, <2>8, <2>14, <2>17, <2>19
    DEF IInv, TypeOK, OrdersTypeOK, CatalogTypeOK, PaymentsTypeOK
  <2>21. ReservationInv(o)'
    <3>1. reservations[o].released = FALSE
      BY <1>3, <2>2, <2>4, <2>12 DEF ReservationInv, IInv, TypeOK, CatalogTypeOK, Reservation
    <3> QED BY <2>2, <2>12, <2>17, <2>18, <3>1 DEF ReservationInv, SameRequest, CartOf
  <2>22. OrderInv(o)'
    BY <2>2, <2>17, <2>18 DEF OrderInv, Bought
  <2>23. \A topic : Announced(o, topic)' <=>
                Announced(o, topic) \/ topic = "order.created"
    BY <2>1, <2>15, <2>17 DEF Announced
  <2>24. FactsAnnounced(o)'
    <3>1. \A topic \in OrderTopic \cup PaymentTopic : ~Announced(o, topic)
      BY <1>1, <1>3, <2>12, <2>13, <2>16 DEF FactsAnnounced
    <3>2. \A topic \in OrderTopic \cup PaymentTopic :
            Announced(o, topic)' <=> topic = "order.created"
      BY <2>23, <3>1
    <3> QED BY <2>16, <2>17, <2>18, <3>2 DEF FactsAnnounced
  <2>25. EventInv(event)'
    BY <1>1, <2>15, <2>18 DEF EventInv
  <2>26. RowInv' /\ EventsInv'
    <3>1. \A p \in OrderId : p # o => orders'[p] = orders[p]
      BY <2>9
    <3>2. \A e \in {event} : e.orderId = o /\ EventInv(e)' /\ ~Announced(o, e.topic)
      BY <2>13, <2>15, <2>25
    <3>3. (\A e, f \in {event} : e = f) /\ Writes({event})
      BY <2>1, <2>17 DEF Writes
    <3> QED BY <1>1, <2>13, <2>16, <2>17, <2>18, <2>21, <2>22, <2>24,
               <3>1, <3>2, <3>3, OrderMoves
  <2> QED BY <2>19, <2>20, <2>26 DEF IInv
<1> QED BY <1>2, <1>3

\* An event on the bus tells the truth.
LEMMA BusAnnounces ==
    ASSUME IInv, NEW e \in bus
    PROVE  /\ e.orderId \in OrderId /\ Exists(e.orderId) /\ EventInv(e)
           /\ Announced(e.orderId, e.topic) /\ FactsAnnounced(e.orderId)
<1>1. e \in outbox \cup paymentOutbox
  BY DEF IInv, EventsInv
<1>2. EventInv(e)
  BY <1>1 DEF IInv, EventsInv
<1>3. e.orderId \in OrderId /\ Exists(e.orderId)
  BY <1>2 DEF EventInv
<1>4. Announced(e.orderId, e.topic)
  BY <1>1 DEF Announced
<1>5. FactsAnnounced(e.orderId)
  BY <1>3 DEF IInv, EventsInv, OneEventPerFact
<1> QED BY <1>2, <1>3, <1>4, <1>5

StatusSet(o, status) ==
    /\ orders' \in [OrderId -> Order \cup {Null}]
    /\ \A p \in OrderId : p # o => orders'[p] = orders[p]
    /\ orders'[o] # Null /\ orders'[o].status = status
    /\ orders'[o].userId = orders[o].userId
    /\ orders'[o].requestKey = orders[o].requestKey
    /\ orders'[o].items = orders[o].items
    /\ orders'[o].restaurantId = orders[o].restaurantId
    /\ orders'[o].paymentMethod = orders[o].paymentMethod
    /\ orders'[o].totalVnd = orders[o].totalVnd
    /\ orders'[o].prices = orders[o].prices
    /\ orders'[o].failure = orders[o].failure

\* Changing the status of an order changes nothing else of its row.
LEMMA StatusChange ==
    ASSUME OrdersTypeOK, NEW o \in OrderId, Exists(o), NEW status \in Status,
           orders' = [orders EXCEPT ![o].status = status]
    PROVE  StatusSet(o, status)
<1>1. orders[o] \in Order
  BY DEF OrdersTypeOK
<1>2. orders' = [orders EXCEPT ![o] = [orders[o] EXCEPT !.status = status]]
  BY DEF OrdersTypeOK
<1>3. [orders[o] EXCEPT !.status = status] \in Order
  BY <1>1 DEF Order
<1>4. orders'[o] = [orders[o] EXCEPT !.status = status]
  BY <1>2 DEF OrdersTypeOK
<1>5. orders' \in [OrderId -> Order \cup {Null}]
  BY <1>2, <1>3 DEF OrdersTypeOK
<1>6. \A p \in OrderId : p # o => orders'[p] = orders[p]
  BY DEF OrdersTypeOK
<1>7. orders'[o] # Null
  BY <1>3, <1>4, OrderRowAssumption
<1> QED BY <1>1, <1>4, <1>5, <1>6, <1>7 DEF Order, StatusSet

\* The restaurant's confirm and ready move the order on and announce it.
LEMMA TransitionInv ==
    ASSUME IInv, NEW o \in OrderId, NEW status \in {"CONFIRMED", "READY"},
           Transition(o, status), Elsewhere
    PROVE  IInv'
<1> PICK topic \in OrderTopic :
        topic = IF status = "READY" THEN "order.ready" ELSE "order.confirmed"
  OBVIOUS
<1> PICK event : event = Event(topic, o, orders[o].totalVnd, Null)
  OBVIOUS
<1>1. /\ InStatus(o, IF status = "CONFIRMED" THEN "PAID" ELSE "CONFIRMED")
      /\ orders' = [orders EXCEPT ![o].status = status]
      /\ outbox' = outbox \cup {event}
      /\ UNCHANGED <<calls, stray, batch>>
  BY DEF Transition, Expected
<1>2. /\ UNCHANGED <<restaurants, dishes, reservations>>
      /\ UNCHANGED <<payments, paymentOutbox, bus, faults>>
  BY DEF Elsewhere, catalogVars, paymentVars
<1>3. OrdersTypeOK
  BY DEF IInv, TypeOK
<1>4. StatusSet(o, status)
  <2>1. status \in Status
    BY DEF Status
  <2> QED BY <1>1, <1>3, <2>1, StatusChange
<1> USE DEF StatusSet
<1>5. OrderInv(o) /\ ReservationInv(o) /\ FactsAnnounced(o)
  BY DEF IInv, RowInv, EventsInv, OneEventPerFact
<1>6. ~orders[o].failure /\ ~Announced(o, topic)
  BY <1>1, <1>5 DEF OrderInv, FactsAnnounced
<1>7. event \in OrderEvent
  <2>1. orders[o].totalVnd \in Amount
    BY <1>1, <1>3 DEF OrdersTypeOK, Order
  <2> QED BY <1>1, <1>3, <1>6, <2>1, EventTyped
<1>8. event.topic = topic /\ event.orderId = o /\ event.userId = orders[o].userId
  BY DEF Event
<1>9. TypeOK'
  BY <1>1, <1>2, <1>4, <1>7
  DEF IInv, TypeOK, OrdersTypeOK, CatalogTypeOK, PaymentsTypeOK
<1>10. UnderWay'
  BY <1>1, <1>2, <1>4, UnderWayFrame
<1>11. ReservationInv(o)'
  BY <1>1, <1>2, <1>4, <1>5 DEF ReservationInv, SameRequest, CartOf
<1>12. OrderInv(o)'
  BY <1>1, <1>2, <1>4, <1>5, <1>6 DEF OrderInv, Bought
<1>13. \A t : Announced(o, t)' <=> Announced(o, t) \/ t = topic
  BY <1>1, <1>2, <1>8 DEF Announced
<1>14. FactsAnnounced(o)'
  BY <1>1, <1>2, <1>4, <1>5, <1>6, <1>13 DEF FactsAnnounced
<1>15. EventInv(event)'
  BY <1>1, <1>4, <1>8 DEF EventInv
<1>16. RowInv' /\ EventsInv'
  <2>1. \A e \in {event} : e.orderId = o /\ EventInv(e)' /\ ~Announced(o, e.topic)
    BY <1>6, <1>8, <1>15
  <2>2. (\A e, f \in {event} : e = f) /\ Writes({event})
    BY <1>1, <1>2 DEF Writes
  <2> QED BY <1>1, <1>2, <1>4, <1>6, <1>11, <1>12, <1>14, <2>1, <2>2, OrderMoves
<1> QED BY <1>9, <1>10, <1>16 DEF IInv

\* The order service applies the verdict of a payment once, to a PENDING order.
LEMMA OrderConsumesInv ==
    ASSUME IInv, NEW e \in bus, OrderConsumes(e)
    PROVE  IInv'
<1> PICK o \in OrderId : o = e.orderId
  BY BusAnnounces
<1> PICK status \in Status :
        status = IF e.topic = "payment.succeeded" THEN "PAID" ELSE "CANCELLED"
  BY DEF Status
<1> PICK event : event = Event("order.cancelled", o, 0, Null)
  OBVIOUS
<1> PICK new : new = IF e.topic = "payment.succeeded" THEN {} ELSE {event}
  OBVIOUS
<1>1. /\ InStatus(o, "PENDING") /\ e.topic \in PaymentTopic
      /\ orders' = [orders EXCEPT ![o].status = status]
      /\ outbox' = outbox \cup new
      /\ UNCHANGED <<calls, stray, batch>>
  <2>1. CASE e.topic = "payment.succeeded"
    BY <2>1 DEF OrderConsumes, PaymentResult
  <2>2. CASE e.topic # "payment.succeeded"
    BY <2>2 DEF OrderConsumes, PaymentResult
  <2> QED BY <2>1, <2>2
<1>2. /\ UNCHANGED <<restaurants, dishes, reservations>>
      /\ UNCHANGED <<payments, paymentOutbox, bus, faults>>
  BY DEF OrderConsumes, catalogVars, paymentVars
<1>3. OrdersTypeOK
  BY DEF IInv, TypeOK
<1>4. StatusSet(o, status)
  <2>1. orders' = [orders EXCEPT ![o].status = status]
    BY <1>1
  <2>2. o \in OrderId /\ status \in Status /\ Exists(o)
    BY <1>1
  <2> QED BY <1>3, <2>1, <2>2, StatusChange
<1> USE DEF StatusSet
<1>5. /\ OrderInv(o) /\ ReservationInv(o) /\ FactsAnnounced(o)
      /\ Announced(o, e.topic)
  BY BusAnnounces DEF IInv, RowInv
<1>6. payments[o] # Null /\ payments[o].status =
            IF e.topic = "payment.succeeded" THEN "SUCCEEDED" ELSE "FAILED"
  BY <1>1, <1>5 DEF FactsAnnounced
<1>7. ~orders[o].failure /\ ~Announced(o, "order.cancelled")
  BY <1>1, <1>5 DEF OrderInv, FactsAnnounced
<1>8. event \in OrderEvent
  <2>1. 0 \in Amount
    BY DEF Amount
  <2> QED BY <1>1, <1>3, <1>7, <2>1, EventTyped
<1>9. /\ event.topic = "order.cancelled" /\ event.orderId = o
      /\ event.userId = orders[o].userId
  BY DEF Event
<1>10. TypeOK'
  <2>1. outbox' \subseteq OrderEvent
    BY <1>1, <1>3, <1>8 DEF OrdersTypeOK
  <2> QED BY <1>1, <1>2, <1>4, <2>1
      DEF IInv, TypeOK, OrdersTypeOK, CatalogTypeOK, PaymentsTypeOK
<1>11. UnderWay'
  BY <1>1, <1>2, <1>4, UnderWayFrame
<1>12. ReservationInv(o)'
  BY <1>1, <1>2, <1>4, <1>5 DEF ReservationInv, SameRequest, CartOf
<1>13. OrderInv(o)'
  BY <1>1, <1>2, <1>4, <1>5, <1>6, <1>7 DEF OrderInv, Bought
<1>14. \A t : Announced(o, t)' <=>
            Announced(o, t) \/ (status = "CANCELLED" /\ t = "order.cancelled")
  BY <1>1, <1>2, <1>9 DEF Announced
<1>15. FactsAnnounced(o)'
  BY <1>1, <1>2, <1>4, <1>5, <1>6, <1>7, <1>14 DEF FactsAnnounced
<1>16. RowInv' /\ EventsInv'
  <2>1. EventInv(event)'
    BY <1>1, <1>4, <1>9 DEF EventInv
  <2>2. \A f \in new : f.orderId = o /\ EventInv(f)' /\ ~Announced(o, f.topic)
    BY <1>7, <1>9, <2>1
  <2>3. (\A f, g \in new : f = g) /\ Writes(new)
    BY <1>1, <1>2 DEF Writes
  <2>4. orders'[o].status # "RESERVING"
    BY <1>4
  <2> QED BY <1>1, <1>2, <1>4, <1>7, <1>12, <1>13, <1>15, <2>2, <2>3, <2>4, OrderMoves
<1> QED BY <1>10, <1>11, <1>16 DEF IInv

\* The restaurant service releases the reservation of a cancelled order once.
LEMMA RestaurantConsumesInv ==
    ASSUME IInv, NEW e \in bus, RestaurantConsumes(e)
    PROVE  IInv'
<1> PICK o \in OrderId : o = e.orderId
  BY BusAnnounces
<1> USE DEF RestaurantConsumes, orderVars, paymentVars
<1>1. InStatus(o, "CANCELLED") /\ ~orders[o].failure
  BY BusAnnounces DEF FactsAnnounced
<1>2. CatalogTypeOK /\ CatalogTypeOK'
  BY ReleaseType DEF IInv, TypeOK
<1>3. reservations[o] # Null
      /\ reservations' = [reservations EXCEPT ![o].released = TRUE]
  BY DEF Release
<1>4. reservations[o] \in Reservation
  BY <1>2, <1>3 DEF CatalogTypeOK
<1>5. /\ \A p \in OrderId : p # o => reservations'[p] = reservations[p]
      /\ reservations'[o] = [reservations[o] EXCEPT !.released = TRUE]
  BY <1>2, <1>3 DEF CatalogTypeOK
<1>6. /\ reservations'[o] \in Reservation
      /\ reservations'[o].restaurantId = reservations[o].restaurantId
      /\ reservations'[o].items = reservations[o].items
      /\ reservations'[o].prices = reservations[o].prices
  BY <1>4, <1>5 DEF Reservation
<1>7. \A p \in OrderId : reservations[p] # Null =>
        reservations'[p] # Null /\ reservations'[p].prices = reservations[p].prices
  BY <1>5, <1>6, RowAssumption
<1>8. TypeOK'
  BY <1>2 DEF IInv, TypeOK, OrdersTypeOK, PaymentsTypeOK
<1>9. UnderWay'
  BY <1>7 DEF IInv, UnderWay, CallInv
<1>10. ASSUME NEW p \in OrderId PROVE ReservationInv(p)' /\ OrderInv(p)'
  <2>1. ReservationInv(p) /\ OrderInv(p)
    BY DEF IInv, RowInv
  <2>2. OrderInv(p)'
    BY <1>7, <2>1 DEF OrderInv, Bought
  <2>3. CASE p = o
    BY <1>1, <1>3, <1>6, <2>1, <2>2, <2>3 DEF ReservationInv, SameRequest, CartOf
  <2>4. CASE p # o
    BY <1>5, <2>1, <2>2, <2>4 DEF ReservationInv, SameRequest, CartOf
  <2> QED BY <2>3, <2>4, <2>2
<1>11. PaymentAgrees'
  BY DEF IInv, RowInv, PaymentAgrees
<1>12. EventsInv'
  BY DEF IInv, EventsInv, EventInv, OneEventPerFact, FactsAnnounced, Announced
<1> QED BY <1>8, <1>9, <1>10, <1>11, <1>12 DEF IInv, RowInv

\* The payment service records one payment for an order it is told of.
LEMMA PaymentConsumesInv ==
    ASSUME IInv, NEW e \in bus, PaymentConsumes(e)
    PROVE  IInv'
<1> PICK o \in OrderId : o = e.orderId
  BY BusAnnounces
<1> PICK success \in BOOLEAN : success = (e.paymentMethod # "demo_failure")
  OBVIOUS
<1> PICK topic \in PaymentTopic :
        topic = IF success THEN "payment.succeeded" ELSE "payment.failed"
  OBVIOUS
<1> PICK row : row = [userId |-> e.userId, amountVnd |-> e.totalVnd,
                      status |-> IF success THEN "SUCCEEDED" ELSE "FAILED"]
  OBVIOUS
<1> DEFINE rows == {f \in paymentOutbox : f.orderId = o}
<1> PICK n : n = Cardinality(rows) + 1
  OBVIOUS
<1> PICK event :
        event = [topic |-> topic, orderId |-> o, n |-> n, userId |-> e.userId,
                 totalVnd |-> e.totalVnd, paymentMethod |-> Null]
  OBVIOUS
<1>1. /\ payments[o] = Null /\ e.topic = "order.created"
      /\ payments' = [payments EXCEPT ![o] = row]
      /\ paymentOutbox' = paymentOutbox \cup {event}
      /\ UNCHANGED <<orderVars, catalogVars, bus, faults>>
  BY DEF PaymentConsumes, Process
<1>2. /\ UNCHANGED <<restaurants, dishes, reservations, bus, faults>>
      /\ UNCHANGED <<orders, outbox, calls, stray, batch>>
  BY <1>1 DEF catalogVars, orderVars
<1>3. /\ EventInv(e) /\ FactsAnnounced(o) /\ Announced(o, e.topic)
      /\ OrderInv(o) /\ Exists(o)
  BY BusAnnounces DEF IInv, RowInv
<1>4. orders[o].status = "PENDING" /\ ~orders[o].failure
  <2>1. orders[o].status \in Status
    BY <1>3 DEF IInv, TypeOK, OrdersTypeOK, Order
  <2> QED BY <1>1, <1>3, <2>1 DEF FactsAnnounced, OrderInv, Status
<1>5. /\ e.userId = orders[o].userId /\ e.totalVnd = orders[o].totalVnd
      /\ e.paymentMethod = orders[o].paymentMethod
      /\ e.userId \in User /\ e.totalVnd \in Amount
  <2>1. orders[o] \in Order
    BY <1>3 DEF IInv, TypeOK, OrdersTypeOK
  <2> QED BY <1>1, <1>3, <2>1 DEF EventInv, Order
<1>6. \A t \in PaymentTopic : ~Announced(o, t)
  BY <1>1, <1>3 DEF FactsAnnounced
<1>7. event \in PaymentEvent
  <2>1. rows = {}
    BY <1>6, TopicsApart DEF Announced, IInv
  <2> HIDE DEF rows
  <2>2. Cardinality(rows) = 0
    BY <2>1, FS_EmptySet
  <2>3. n \in Nat
    BY <2>2
  <2> QED BY <1>5, <2>3 DEF PaymentEvent
<1>8. event.topic = topic /\ event.orderId = o /\ event.userId = e.userId
  OBVIOUS
<1>9. row \in Payment
  BY <1>5 DEF Payment
<1>10. /\ row # Null /\ row.userId = e.userId /\ row.amountVnd = e.totalVnd
       /\ row.status = IF success THEN "SUCCEEDED" ELSE "FAILED"
  BY <1>9, PaymentAssumption
<1>11. \A p \in OrderId : payments'[p] = IF p = o THEN row ELSE payments[p]
  BY <1>1 DEF IInv, TypeOK, PaymentsTypeOK
<1>12. TypeOK'
  <2>1. payments' \in [OrderId -> Payment \cup {Null}]
    BY <1>1, <1>9 DEF IInv, TypeOK, PaymentsTypeOK
  <2>2. paymentOutbox' \subseteq PaymentEvent
    BY <1>1, <1>7 DEF IInv, TypeOK, PaymentsTypeOK
  <2> QED BY <1>2, <2>1, <2>2
      DEF IInv, TypeOK, OrdersTypeOK, CatalogTypeOK, PaymentsTypeOK
<1>13. UnderWay'
  BY <1>2 DEF IInv, UnderWay, CallInv
<1>14. ASSUME NEW p \in OrderId PROVE ReservationInv(p)' /\ OrderInv(p)'
  <2>1. ReservationInv(p) /\ OrderInv(p)
    BY DEF IInv, RowInv
  <2>2. ReservationInv(p)'
    BY <1>2, <2>1 DEF ReservationInv, SameRequest, CartOf
  <2>3. CASE p = o
    BY <1>2, <1>4, <2>1, <2>2, <2>3 DEF OrderInv, Bought
  <2>4. CASE p # o
    BY <1>2, <1>11, <2>1, <2>2, <2>4 DEF OrderInv, Bought
  <2> QED BY <2>3, <2>4
<1>15. PaymentAgrees'
  <2> SUFFICES ASSUME NEW p \in OrderId, payments'[p] # Null
               PROVE  /\ orders[p] # Null /\ orders[p].status # "RESERVING"
                      /\ ~orders[p].failure
                      /\ payments'[p].userId = orders[p].userId
                      /\ payments'[p].amountVnd = orders[p].totalVnd
                      /\ payments'[p].status =
                            IF orders[p].paymentMethod = "demo_failure"
                            THEN "FAILED" ELSE "SUCCEEDED"
    BY <1>2 DEF PaymentAgrees
  <2>1. CASE p = o
    BY <1>3, <1>4, <1>5, <1>10, <1>11, <2>1
  <2>2. CASE p # o
    BY <1>11, <2>2 DEF IInv, RowInv, PaymentAgrees
  <2> QED BY <2>1, <2>2
<1>16. \A f \in outbox' \cup paymentOutbox' : EventInv(f)'
  <2>1. EventInv(event)'
    BY <1>2, <1>3, <1>5, <1>8 DEF EventInv
  <2>2. ASSUME NEW f \in outbox \cup paymentOutbox PROVE EventInv(f)'
    BY <1>2 DEF IInv, EventsInv, EventInv
  <2> QED BY <1>1, <1>2, <2>1, <2>2
<1>17. \A f, g \in outbox' \cup paymentOutbox' :
        (f.topic = g.topic /\ f.orderId = g.orderId) => f = g
  <2>1. \A f, g \in outbox \cup paymentOutbox :
        (f.topic = g.topic /\ f.orderId = g.orderId) => f = g
    BY DEF IInv, EventsInv, OneEventPerFact
  <2>2. \A f \in outbox \cup paymentOutbox :
        ~(f.topic = event.topic /\ f.orderId = event.orderId)
    BY <1>6, <1>8 DEF Announced
  <2> QED BY <1>1, <1>2, <2>1, <2>2
<1>18. ASSUME NEW p \in OrderId PROVE FactsAnnounced(p)'
  <2>1. FactsAnnounced(p)
    BY DEF IInv, EventsInv, OneEventPerFact
  <2>2. \A t : Announced(p, t)' <=> Announced(p, t) \/ (p = o /\ t = topic)
    BY <1>1, <1>2, <1>8 DEF Announced
  <2>3. CASE p = o
    BY <1>1, <1>2, <1>10, <1>11, <2>1, <2>2, <2>3 DEF FactsAnnounced
  <2>4. CASE p # o
    BY <1>2, <1>11, <2>1, <2>2, <2>4 DEF FactsAnnounced
  <2> QED BY <2>3, <2>4
<1>19. bus' \subseteq outbox' \cup paymentOutbox'
  BY <1>1, <1>2 DEF IInv, EventsInv
<1> QED BY <1>12, <1>13, <1>14, <1>15, <1>16, <1>17, <1>18, <1>19
    DEF IInv, RowInv, EventsInv, OneEventPerFact

-----------------------------------------------------------------------------
(* The theorems *)

\* The empty databases satisfy the invariant.
LEMMA InitInv == Init => IInv
<1> SUFFICES ASSUME Init PROVE IInv
  OBVIOUS
<1> USE DEF Init, OrdersInit, CatalogInit, PaymentsInit
<1>1. TypeOK
  BY CallsTyped, FaultAssumption
  DEF TypeOK, OrdersTypeOK, CatalogTypeOK, PaymentsTypeOK
<1>2. UnderWay
  BY DEF UnderWay, CallInv, Idle
<1>3. RowInv
  BY DEF RowInv, ReservationInv, OrderInv, PaymentAgrees
<1>4. EventsInv
  BY DEF EventsInv, EventInv, OneEventPerFact, FactsAnnounced, Announced
<1> QED BY <1>1, <1>2, <1>3, <1>4 DEF IInv

\* Every step of the composed system keeps the invariant.
LEMMA StepInv == IInv /\ [Next]_vars => IInv'
<1> SUFFICES ASSUME IInv, [Next]_vars PROVE IInv'
  OBVIOUS
<1>1. CASE OrderStep
  <2>1. Elsewhere
    BY <1>1 DEF OrderStep, Elsewhere
  <2>2. CASE \E h \in Handler : Submit(h)
    BY <2>1, <2>2, CreateNewInv, CreateAgainInv DEF Submit
  <2>3. CASE \E c \in Caller : FinishRead(c) \/ FinishReturns(c)
    BY <2>1, <2>3, FinishReadInv, FinishRefusedInv, FinishUnavailableInv,
       FinishCommitInv DEF FinishReturns
  <2>4. CASE \E r \in Recoverer : RecoverTick(r) \/ RecoverNext(r)
    BY <2>1, <2>4, RecoverTickInv, RecoverNextInv
  <2>5. CASE \E o \in OrderId, status \in {"CONFIRMED", "READY"} :
                Transition(o, status)
    BY <2>1, <2>5, TransitionInv
  <2> QED BY <1>1, <2>2, <2>3, <2>4, <2>5 DEF OrderStep
<1>2. CASE AdminStep
  BY <1>2, AdminStepInv
<1>3. CASE \E c \in Caller :
            RestaurantAnswers(c) \/ RestaurantFails(c) \/ CallFails(c)
  BY <1>3, RestaurantAnswersInv, RestaurantFailsInv, CallFailsInv
<1>4. CASE \E o \in OrderId : StrayServed(o) \/ StrayLost(o)
  BY <1>4, StrayServedInv, StrayLostInv
<1>5. CASE Publish
  BY <1>5, PublishInv DEF Publish
<1>6. CASE Consume
  BY <1>6, PaymentConsumesInv, OrderConsumesInv, RestaurantConsumesInv DEF Consume
<1>7. CASE UNCHANGED vars
  <2> USE <1>7 DEF vars, orderVars, catalogVars, paymentVars
  <2>1. TypeOK'
    BY DEF IInv, TypeOK, OrdersTypeOK, CatalogTypeOK, PaymentsTypeOK
  <2>2. UnderWay'
    BY DEF IInv, UnderWay, CallInv
  <2> QED BY <2>1, <2>2, RowsFrame DEF IInv, RowsUnchanged
<1> QED BY <1>1, <1>2, <1>3, <1>4, <1>5, <1>6, <1>7 DEF Next

\* The inductive invariant: rows, answers in flight and events of all the
\* services agree, whatever interleaves with finish().
THEOREM Invariance == Spec => []IInv
BY InitInv, StepInv, PTL DEF Spec

\* Every variable keeps the type of the tables and messages it stands for.
THEOREM TypeCorrect == Spec => []TypeOK
<1>1. IInv => TypeOK
  BY DEF IInv
<1> QED BY <1>1, Invariance, PTL

\* A bought order has a reservation in force for its cart, at its prices.
THEOREM Backing == Spec => []BoughtIsBacked
<1>1. IInv => BoughtIsBacked
  <2> SUFFICES ASSUME IInv, NEW o \in OrderId, Exists(o),
                      orders[o].status \in Bought
               PROVE  /\ Holds(o)
                      /\ SameRequest(reservations[o], CartOf(o))
                      /\ orders[o].prices = reservations[o].prices
                      /\ orders[o].totalVnd =
                            Total(orders[o].items, reservations[o].prices)
                      /\ orders[o].totalVnd =< MaxTotalVnd
    BY DEF BoughtIsBacked
  <2>1. ReservationInv(o) /\ OrderInv(o)
    BY DEF IInv, RowInv
  <2>2. orders[o].status # "CANCELLED"
    BY DEF Bought
  <2>3. reservations[o] # Null /\ reservations[o] \in Reservation
    BY <2>1 DEF OrderInv, IInv, TypeOK, CatalogTypeOK
  <2>4. reservations[o].released \in BOOLEAN
    BY <2>3 DEF Reservation
  <2> QED BY <2>1, <2>2, <2>3, <2>4 DEF ReservationInv, OrderInv, Holds
<1> QED BY <1>1, Invariance, PTL

\* A payment is for the customer and the total of an order that was accepted.
THEOREM PaymentsAgree == Spec => []PaymentAgrees
<1>1. IInv => PaymentAgrees
  BY DEF IInv, RowInv
<1> QED BY <1>1, Invariance, PTL

\* No cancelled order is charged, and none is cooked that was not.
THEOREM ChargeMatchesOutcome == Spec => []ChargedIffServed
<1>1. IInv => ChargedIffServed
  <2> SUFFICES ASSUME IInv, NEW o \in OrderId, Exists(o)
               PROVE  /\ orders[o].status \in {"PAID", "CONFIRMED", "READY"} =>
                            payments[o] # Null /\ payments[o].status = "SUCCEEDED"
                      /\ (orders[o].status = "CANCELLED" /\ payments[o] # Null) =>
                            payments[o].status = "FAILED"
    BY DEF ChargedIffServed
  <2>1. OrderInv(o) /\ PaymentAgrees
    BY DEF IInv, RowInv
  <2> QED BY <2>1 DEF OrderInv, PaymentAgrees
<1> QED BY <1>1, Invariance, PTL

\* Stock is returned only for an order whose payment was declined.
THEOREM ReleaseJustified == Spec => []ReleasedOnlyIfDeclined
<1>1. IInv => ReleasedOnlyIfDeclined
  <2> SUFFICES ASSUME IInv, NEW o \in OrderId, reservations[o] # Null,
                      reservations[o].released
               PROVE  /\ InStatus(o, "CANCELLED")
                      /\ payments[o] # Null /\ payments[o].status = "FAILED"
    BY DEF ReleasedOnlyIfDeclined
  <2>1. ReservationInv(o) /\ OrderInv(o)
    BY DEF IInv, RowInv
  <2> QED BY <2>1 DEF ReservationInv, OrderInv
<1> QED BY <1>1, Invariance, PTL

\* Each announced fact is announced by one row, and only facts are.
THEOREM EventsAreFacts == Spec => []OneEventPerFact
<1>1. IInv => OneEventPerFact
  BY DEF IInv, EventsInv
<1> QED BY <1>1, Invariance, PTL

-----------------------------------------------------------------------------
(* How a step shows in the abstract life of an order: whatever calls,        *)
(* retries, lost answers and repeated events do, an order, its charge and    *)
(* its stock change only in the steps of Lifecycle.                          *)

\* What IInv does not say of declined orders: an order that was accepted has its
\* reservation for good.  Had it none, a late reservation request could take
\* stock for an order nobody will ever release.
AcceptedHasStock ==
    \A o \in OrderId :
        PhaseOf(o) \in Bought \cup {"DECLINED"} => StockOf(o) # "NONE"

\* No order but o shows a change.
OthersStay(o) ==
    \A p \in OrderId \ {o} :
        PhaseOf(p)' = PhaseOf(p) /\ ChargeOf(p)' = ChargeOf(p) /\ StockOf(p)' = StockOf(p)

LEMMA NothingShows ==
    ASSUME UNCHANGED <<orders, payments, reservations>>
    PROVE  UNCHANGED Life!lifecycleVars
<1>1. \A o \in OrderId :
        PhaseOf(o)' = PhaseOf(o) /\ ChargeOf(o)' = ChargeOf(o) /\ StockOf(o)' = StockOf(o)
  BY DEF PhaseOf, ChargeOf, StockOf
<1> QED BY <1>1 DEF Life!lifecycleVars

\* The row of order o is written, and nothing of the other services.
LEMMA RowShows ==
    ASSUME TypeOK, NEW o \in OrderId, orders'[o] # Null,
           orders' = [orders EXCEPT ![o] = orders'[o]],
           UNCHANGED <<payments, reservations>>,
           NEW to, PhaseOf(o)' = to
    PROVE  Life!Move(o, PhaseOf(o), to)
<1>1. OthersStay(o)
  BY DEF OthersStay, PhaseOf, ChargeOf, StockOf, TypeOK, OrdersTypeOK
<1>2. ChargeOf(o)' = ChargeOf(o) /\ StockOf(o)' = StockOf(o)
  BY DEF ChargeOf, StockOf
<1> QED BY <1>1, <1>2 DEF OthersStay, Life!Move

\* Only the phase of o changes from one status to another.
LEMMA StatusShows ==
    ASSUME TypeOK, NEW o \in OrderId, Exists(o),
           orders[o].status # "CANCELLED", ~orders[o].failure,
           NEW status \in Status, orders' = [orders EXCEPT ![o].status = status],
           UNCHANGED <<payments, reservations>>
    PROVE  Life!Move(o, orders[o].status,
                     IF status = "CANCELLED" THEN "DECLINED" ELSE status)
<1>1. StatusSet(o, status)
  BY StatusChange DEF TypeOK
<1>2. orders' = [orders EXCEPT ![o] = orders'[o]]
  BY <1>1 DEF StatusSet, TypeOK, OrdersTypeOK
<1>3. /\ PhaseOf(o) = orders[o].status
      /\ PhaseOf(o)' = IF status = "CANCELLED" THEN "DECLINED" ELSE status
  BY <1>1 DEF PhaseOf, StatusSet
<1>4. orders'[o] # Null
  BY <1>1 DEF StatusSet
<1> QED BY <1>2, <1>3, <1>4, RowShows

-----------------------------------------------------------------------------
(* order-service *)

LEMMA CreateNewShows ==
    ASSUME IInv, IInv', NEW h \in Handler, NEW s \in Submission, CreateNew(h, s), Elsewhere
    PROVE  Life!Next
<1>1. UNCHANGED <<payments, reservations>>
  BY DEF Elsewhere, catalogVars, paymentVars
<1>2. PICK o \in OrderId :
        /\ ~Exists(o)
        /\ orders' = [orders EXCEPT ![o] =
            [userId |-> s.userId, requestKey |-> s.requestKey,
             restaurantId |-> s.restaurantId, items |-> s.items,
             paymentMethod |-> s.paymentMethod, status |-> "RESERVING",
             totalVnd |-> 0, prices |-> NoPrices, failure |-> FALSE]]
  BY DEF CreateNew
<1>3. /\ orders' = [orders EXCEPT ![o] = orders'[o]]
      /\ orders'[o].status = "RESERVING"
  BY <1>2 DEF IInv, TypeOK, OrdersTypeOK
<1>4. orders'[o] # Null
  <2>1. 0 \in Amount /\ s \in Request
    BY OrdersAssumption DEF Amount
  <2>2. orders'[o] \in Order
    BY <1>2, <2>1, NoPricesInPrices DEF IInv, TypeOK, OrdersTypeOK, Request, Order, Status
  <2> QED BY <2>2, OrderRowAssumption
<1>5. PhaseOf(o) = "NONE" /\ PhaseOf(o)' = "RESERVING"
  BY <1>2, <1>3, <1>4 DEF PhaseOf
<1>6. Life!Place(o)
  BY <1>1, <1>3, <1>4, <1>5, RowShows DEF Life!Place, IInv
<1> QED BY <1>6 DEF Life!Next

LEMMA FinishRefusedShows ==
    ASSUME IInv, NEW c \in Caller, FinishRefused(c), Elsewhere
    PROVE  [Life!Next]_(Life!lifecycleVars)
<1>1. UNCHANGED <<payments, reservations>>
  BY DEF Elsewhere, catalogVars, paymentVars
<1>2. PICK o \in OrderId : o = calls[c].orderId /\ Exists(o)
  BY DEF FinishRefused, IInv, UnderWay, CallInv
<1>3. CASE ~InStatus(o, "RESERVING")
  BY <1>1, <1>2, <1>3, NothingShows DEF FinishRefused
<1>4. CASE InStatus(o, "RESERVING")
  <2>1. orders' = [orders EXCEPT ![o].status = "CANCELLED", ![o].failure = TRUE]
    BY <1>2, <1>4 DEF FinishRefused
  <2>2. orders[o] \in Order /\ orders \in [OrderId -> Order \cup {Null}]
    BY <1>2 DEF IInv, TypeOK, OrdersTypeOK
  <2> DEFINE w == [orders[o] EXCEPT !.status = "CANCELLED", !.failure = TRUE]
  <2>3. w \in Order /\ w.status = "CANCELLED" /\ w.failure = TRUE
    BY <2>2 DEF Order, Status
  <2>4. orders' = [orders EXCEPT ![o] = w]
    BY <2>1, <2>2
  <2> HIDE DEF w
  <2>5. orders'[o] = w /\ w # Null
    BY <2>2, <2>3, <2>4, OrderRowAssumption
  <2>6. orders' = [orders EXCEPT ![o] = orders'[o]]
    BY <2>4, <2>5
  <2>7. PhaseOf(o) = "RESERVING" /\ PhaseOf(o)' = "REJECTED"
    BY <1>4, <2>3, <2>5 DEF PhaseOf
  <2>8. Life!Reject(o)
    BY <1>1, <2>5, <2>6, <2>7, RowShows DEF Life!Reject, IInv
  <2> QED BY <2>8 DEF Life!Next
<1> QED BY <1>3, <1>4

\* Whoever commits, the reservation that was granted is still in force: it is
\* released for declined orders only.
LEMMA FinishCommitShows ==
    ASSUME IInv, IInv', NEW c \in Caller, FinishCommit(c), Elsewhere
    PROVE  [Life!Next]_(Life!lifecycleVars)
<1>1. UNCHANGED <<payments, reservations>>
  BY DEF Elsewhere, catalogVars, paymentVars
<1>2. PICK o \in OrderId : o = calls[c].orderId /\ Exists(o)
  BY DEF FinishCommit, IInv, UnderWay, CallInv
<1>3. CASE ~InStatus(o, "RESERVING")
  BY <1>1, <1>2, <1>3, NothingShows DEF FinishCommit
<1>4. CASE InStatus(o, "RESERVING")
  <2> PICK prices : prices = calls[c].answer.prices
    OBVIOUS
  <2> PICK total : total = Total(orders[o].items, prices)
    OBVIOUS
  <2>1. orders' = [orders EXCEPT ![o].status = "PENDING",
                                 ![o].totalVnd = total, ![o].prices = prices]
    BY <1>2, <1>4 DEF FinishCommit, Priced
  <2>2. orders[o] \in Order /\ orders \in [OrderId -> Order \cup {Null}]
    BY <1>2 DEF IInv, TypeOK, OrdersTypeOK
  <2> DEFINE w == [orders[o] EXCEPT !.status = "PENDING", !.totalVnd = total, !.prices = prices]
  <2>3. w.status = "PENDING"
    BY <2>2 DEF Order
  <2>4. orders' = [orders EXCEPT ![o] = w]
    BY <2>1, <2>2
  <2> HIDE DEF w
  <2>5. orders'[o] = w
    BY <2>2, <2>4
  <2>6. reservations[o] # Null
    BY <1>2 DEF FinishCommit, IInv, UnderWay, CallInv
  <2>7. w # Null
    <3>1. (reservations[o] # Null => Exists(o))'
      BY DEF IInv, RowInv, ReservationInv
    <3> QED BY <1>1, <2>5, <2>6, <3>1
  <2>8. orders' = [orders EXCEPT ![o] = orders'[o]]
    BY <2>4, <2>5
  <2>9. PhaseOf(o) = "RESERVING" /\ PhaseOf(o)' = "PENDING"
    BY <1>4, <2>3, <2>5, <2>7 DEF PhaseOf
  <2>10. StockOf(o) = "HELD"
    BY <1>4, <2>6 DEF IInv, RowInv, ReservationInv, StockOf
  <2>11. Life!Accept(o)
    BY <1>1, <2>5, <2>7, <2>8, <2>9, <2>10, RowShows DEF Life!Accept, IInv
  <2> QED BY <2>11 DEF Life!Next
<1> QED BY <1>3, <1>4

LEMMA TransitionShows ==
    ASSUME IInv, NEW o \in OrderId, NEW status \in {"CONFIRMED", "READY"},
           Transition(o, status), Elsewhere
    PROVE  Life!Next
<1>1. UNCHANGED <<payments, reservations>>
  BY DEF Elsewhere, catalogVars, paymentVars
<1>2. /\ InStatus(o, IF status = "CONFIRMED" THEN "PAID" ELSE "CONFIRMED")
      /\ orders' = [orders EXCEPT ![o].status = status]
  BY DEF Transition, Expected
<1>3. ~orders[o].failure
  BY <1>2 DEF IInv, RowInv, OrderInv
<1>4. Life!Move(o, IF status = "CONFIRMED" THEN "PAID" ELSE "CONFIRMED", status)
  BY <1>1, <1>2, <1>3, StatusShows DEF Status, IInv
<1>5. Life!Confirm(o) \/ Life!Ready(o)
  BY <1>4 DEF Life!Confirm, Life!Ready
<1> QED BY <1>5 DEF Life!Next

LEMMA OrderStepShows ==
    ASSUME IInv, IInv', OrderStep
    PROVE  [Life!Next]_(Life!lifecycleVars)
<1>1. Elsewhere
  BY DEF OrderStep, Elsewhere
<1>2. ASSUME UNCHANGED orders PROVE UNCHANGED Life!lifecycleVars
  BY <1>1, <1>2, NothingShows DEF Elsewhere, catalogVars, paymentVars
<1>3. CASE \E h \in Handler : Submit(h)
  BY <1>1, <1>2, <1>3, CreateNewShows DEF Submit, CreateAgain
<1>4. CASE \E c \in Caller : FinishRead(c) \/ FinishReturns(c)
  BY <1>1, <1>2, <1>4, FinishRefusedShows, FinishCommitShows
  DEF FinishReturns, FinishRead, FinishUnavailable
<1>5. CASE \E r \in Recoverer : RecoverTick(r) \/ RecoverNext(r)
  BY <1>2, <1>5 DEF RecoverTick, RecoverNext
<1>6. CASE \E o \in OrderId, status \in {"CONFIRMED", "READY"} : Transition(o, status)
  BY <1>1, <1>6, TransitionShows
<1> QED BY <1>3, <1>4, <1>5, <1>6 DEF OrderStep

-----------------------------------------------------------------------------
(* The other services and their events *)

\* A reservation request that comes late finds an order that waits for it or was
\* rejected: every other one has its reservation already.
LEMMA ReserveShows ==
    ASSUME IInv, IInv', AcceptedHasStock, NEW o \in OrderId, Exists(o),
           Reserve(o, CartOf(o)), UNCHANGED <<orders, payments>>
    PROVE  [Life!Next]_(Life!lifecycleVars)
<1>1. CatalogTypeOK
  BY DEF IInv, TypeOK
<1>2. /\ \A p \in OrderId : (p # o \/ reservations[p] # Null) =>
            reservations'[p] = reservations[p]
      /\ reservations[o] = Null /\ reservations'[o] # Null => ~reservations'[o].released
  BY <1>1, ReserveEffect
<1>3. OthersStay(o) /\ PhaseOf(o)' = PhaseOf(o) /\ ChargeOf(o)' = ChargeOf(o)
  BY <1>2 DEF OthersStay, PhaseOf, ChargeOf, StockOf
<1>4. CASE reservations[o] # Null \/ reservations'[o] = Null
  <2>1. StockOf(o)' = StockOf(o)
    BY <1>2, <1>4 DEF StockOf
  <2> QED BY <1>3, <2>1 DEF OthersStay, Life!lifecycleVars
<1>5. CASE reservations[o] = Null /\ reservations'[o] # Null
  <2>1. StockOf(o) = "NONE" /\ StockOf(o)' = "HELD"
    BY <1>2, <1>5 DEF StockOf
  <2>2. PhaseOf(o) \in {"RESERVING", "REJECTED"}
    <3>1. orders[o].status \in Status
      BY DEF IInv, TypeOK, OrdersTypeOK, Order
    <3> QED BY <2>1, <3>1 DEF AcceptedHasStock, PhaseOf, Bought, Status
  <2>3. Life!Hold(o)
    BY <1>3, <2>1, <2>2 DEF OthersStay, Life!Hold
  <2> QED BY <2>3 DEF Life!Next
<1> QED BY <1>4, <1>5

LEMMA PaymentConsumesShows ==
    ASSUME IInv, IInv', NEW e \in bus, PaymentConsumes(e)
    PROVE  Life!Next
<1>1. PICK o \in OrderId : o = e.orderId /\ EventInv(e) /\ Announced(o, e.topic)
                           /\ FactsAnnounced(o) /\ Exists(o)
  BY BusAnnounces
<1> PICK status \in {"SUCCEEDED", "FAILED"} :
        status = IF e.paymentMethod # "demo_failure" THEN "SUCCEEDED" ELSE "FAILED"
  OBVIOUS
<1> PICK w : w = [userId |-> e.userId, amountVnd |-> e.totalVnd, status |-> status]
  OBVIOUS
<1>2. payments' = [payments EXCEPT ![o] = w] /\ w.status = status
  BY <1>1 DEF PaymentConsumes, Process
<1>3. payments[o] = Null /\ e.topic = "order.created" /\ UNCHANGED <<orders, reservations>>
  BY <1>1 DEF PaymentConsumes, Process, orderVars, catalogVars
<1>4. /\ \A p \in OrderId : p # o => payments'[p] = payments[p]
      /\ payments'[o] = w
  BY <1>2 DEF IInv, TypeOK, PaymentsTypeOK
<1>5. PhaseOf(o) = "PENDING" /\ PhaseOf(o)' = "PENDING"
  <2>1. orders[o].status # "RESERVING" /\ ~orders[o].failure
    BY <1>1, <1>3 DEF FactsAnnounced
  <2>2. orders[o].status \in Status /\ OrderInv(o)
    BY <1>1 DEF IInv, TypeOK, OrdersTypeOK, Order, RowInv
  <2>3. orders[o].status = "PENDING"
    BY <1>1, <1>3, <2>1, <2>2 DEF OrderInv, Status
  <2> QED BY <1>1, <1>3, <2>3 DEF PhaseOf
<1>6. w # Null
  <2>1. e \in OrderEvent \/ e \in PaymentEvent
    BY DEF IInv, TypeOK
  <2>2. e.userId \in User /\ e.totalVnd \in Amount
    BY <2>1 DEF OrderEvent, PaymentEvent
  <2>3. w \in Payment
    BY <2>2 DEF Payment
  <2> QED BY <2>3, PaymentAssumption
<1>7. OthersStay(o) /\ StockOf(o)' = StockOf(o)
  BY <1>3, <1>4 DEF OthersStay, PhaseOf, ChargeOf, StockOf
<1>8. ChargeOf(o) = "NONE" /\ ChargeOf(o)' = status
  BY <1>2, <1>3, <1>4, <1>6 DEF ChargeOf
<1>9. Life!Charge(o)
  BY <1>2, <1>5, <1>7, <1>8 DEF OthersStay, Life!Charge
<1> QED BY <1>9 DEF Life!Next

LEMMA OrderConsumesShows ==
    ASSUME IInv, NEW e \in bus, OrderConsumes(e)
    PROVE  Life!Next
<1>1. PICK o \in OrderId : o = e.orderId /\ Announced(o, e.topic) /\ FactsAnnounced(o)
  BY BusAnnounces
<1>2. PICK status \in Status :
        status = IF e.topic = "payment.succeeded" THEN "PAID" ELSE "CANCELLED"
  BY DEF Status
<1>3. /\ InStatus(o, "PENDING")
      /\ orders' = [orders EXCEPT ![o].status = status]
      /\ UNCHANGED <<payments, reservations>>
  BY <1>1, <1>2 DEF OrderConsumes, PaymentResult, catalogVars, paymentVars
<1>4. ~orders[o].failure
  BY <1>3 DEF IInv, RowInv, OrderInv
<1>5. Life!Move(o, "PENDING", IF status = "CANCELLED" THEN "DECLINED" ELSE status)
  BY <1>3, <1>4, StatusShows DEF IInv
<1>6. ChargeOf(o) = IF e.topic = "payment.succeeded" THEN "SUCCEEDED" ELSE "FAILED"
  BY <1>1 DEF OrderConsumes, PaymentTopic, FactsAnnounced, ChargeOf
<1>7. Life!Settle(o)
  BY <1>2, <1>5, <1>6 DEF Life!Settle
<1> QED BY <1>7 DEF Life!Next

LEMMA RestaurantConsumesShows ==
    ASSUME IInv, NEW e \in bus, RestaurantConsumes(e)
    PROVE  Life!Next
<1>1. PICK o \in OrderId : o = e.orderId /\ Announced(o, e.topic) /\ FactsAnnounced(o)
  BY BusAnnounces
<1>2. /\ reservations[o] # Null /\ ~reservations[o].released
      /\ reservations' = [reservations EXCEPT ![o].released = TRUE]
      /\ UNCHANGED <<orders, payments>>
  BY <1>1 DEF RestaurantConsumes, Release, orderVars, paymentVars
<1>3. PhaseOf(o) = "DECLINED" /\ PhaseOf(o)' = "DECLINED"
  BY <1>1, <1>2 DEF RestaurantConsumes, FactsAnnounced, PhaseOf
<1>4. reservations[o] \in Reservation /\ reservations \in [OrderId -> Reservation \cup {Null}]
  BY <1>2 DEF IInv, TypeOK, CatalogTypeOK
<1> DEFINE w == [reservations[o] EXCEPT !.released = TRUE]
<1>5. w \in Reservation /\ w.released = TRUE
  BY <1>4 DEF Reservation
<1>6. reservations' = [reservations EXCEPT ![o] = w]
  BY <1>2, <1>4
<1> HIDE DEF w
<1>7. reservations'[o] = w /\ \A p \in OrderId : p # o => reservations'[p] = reservations[p]
  BY <1>4, <1>6
<1>8. StockOf(o) = "HELD" /\ StockOf(o)' = "RETURNED"
  BY <1>2, <1>5, <1>7, RowAssumption DEF StockOf
<1>9. OthersStay(o) /\ ChargeOf(o)' = ChargeOf(o)
  BY <1>2, <1>7 DEF OthersStay, PhaseOf, ChargeOf, StockOf
<1>10. Life!Return(o)
  BY <1>3, <1>8, <1>9 DEF OthersStay, Life!Return
<1> QED BY <1>10 DEF Life!Next

-----------------------------------------------------------------------------
(* The theorem *)

\* Every step of the services together is a step of the abstract life, or none.
LEMMA LifeStep ==
    ASSUME IInv, IInv', AcceptedHasStock, [Next]_vars
    PROVE  [Life!Next]_(Life!lifecycleVars)
<1>1. CASE OrderStep
  BY <1>1, OrderStepShows
<1>2. CASE AdminStep
  <2>1. UNCHANGED <<orders, payments, reservations>>
    BY <1>2, AdministerType DEF AdminStep, orderVars, paymentVars, IInv, TypeOK
  <2> QED BY <2>1, NothingShows
<1>3. ASSUME NEW c \in Caller, RestaurantAnswers(c)
      PROVE  [Life!Next]_(Life!lifecycleVars)
  <2>1. PICK o \in OrderId : o = calls[c].orderId /\ Exists(o)
    BY <1>3 DEF RestaurantAnswers, IInv, UnderWay, CallInv
  <2>2. Reserve(o, CartOf(o)) /\ UNCHANGED <<orders, payments>>
    BY <1>3, <2>1 DEF RestaurantAnswers, FinishAnswered, paymentVars
  <2> QED BY <2>1, <2>2, ReserveShows
<1>4. ASSUME NEW c \in Caller, RestaurantFails(c) \/ CallFails(c)
      PROVE  UNCHANGED Life!lifecycleVars
  BY <1>4, NothingShows
  DEF RestaurantFails, CallFails, FinishAnswered, Abandon, catalogVars, paymentVars
<1>5. ASSUME NEW o \in OrderId, StrayServed(o)
      PROVE  [Life!Next]_(Life!lifecycleVars)
  <2>1. Exists(o)
    BY <1>5 DEF StrayServed, StrayGone, IInv, UnderWay
  <2>2. Reserve(o, CartOf(o)) /\ UNCHANGED <<orders, payments>>
    BY <1>5 DEF StrayServed, StrayGone, paymentVars
  <2> QED BY <2>1, <2>2, ReserveShows
<1>6. ASSUME NEW o \in OrderId, StrayLost(o)
      PROVE  UNCHANGED Life!lifecycleVars
  BY <1>6, NothingShows DEF StrayLost, StrayGone, catalogVars, paymentVars
<1>7. CASE Publish
  BY <1>7, NothingShows
  DEF Publish, PublishOrder, PublishPayment, orderVars, catalogVars, paymentVars
<1>8. CASE Consume
  BY <1>8, PaymentConsumesShows, OrderConsumesShows, RestaurantConsumesShows DEF Consume
<1>9. CASE UNCHANGED vars
  BY <1>9, NothingShows DEF vars, orderVars, catalogVars, paymentVars
<1> QED BY <1>1, <1>2, <1>3, <1>4, <1>5, <1>6, <1>7, <1>8, <1>9 DEF Next

\* An accepted order had its stock when it was accepted, and no step of the
\* abstract life takes the stock of an order back to none.
LEMMA AcceptedStep ==
    ASSUME AcceptedHasStock, [Life!Next]_(Life!lifecycleVars)
    PROVE  AcceptedHasStock'
<1> SUFFICES ASSUME NEW p \in OrderId, PhaseOf(p)' \in Bought \cup {"DECLINED"}
             PROVE  StockOf(p)' # "NONE"
  BY DEF AcceptedHasStock, Bought
<1>1. CASE UNCHANGED Life!lifecycleVars
  BY <1>1 DEF Life!lifecycleVars, AcceptedHasStock
<1>2. ASSUME NEW o \in OrderId, NEW from, NEW to, Life!Move(o, from, to),
             to \in Bought \cup {"DECLINED"} =>
                from \in Bought \/ StockOf(o) # "NONE"
      PROVE  StockOf(p)' # "NONE"
  BY <1>2 DEF Life!Move, AcceptedHasStock
<1>3. ASSUME NEW o \in OrderId, Life!Hold(o) \/ Life!Charge(o) \/ Life!Return(o)
      PROVE  StockOf(p)' # "NONE"
  <2>1. PhaseOf(p)' = PhaseOf(p)
    BY <1>3 DEF Life!Hold, Life!Charge, Life!Return
  <2>2. StockOf(p)' = StockOf(p) \/ StockOf(p)' \in {"HELD", "RETURNED"}
    BY <1>3 DEF Life!Hold, Life!Charge, Life!Return
  <2> QED BY <2>1, <2>2 DEF AcceptedHasStock
<1>4. ASSUME NEW o \in OrderId,
             Life!Place(o) \/ Life!Reject(o) \/ Life!Accept(o)
             \/ Life!Settle(o) \/ Life!Confirm(o) \/ Life!Ready(o)
      PROVE  StockOf(p)' # "NONE"
  BY <1>2, <1>4
  DEF Life!Place, Life!Reject, Life!Accept, Life!Settle, Life!Confirm, Life!Ready, Bought
<1> QED BY <1>1, <1>3, <1>4 DEF Life!Next

LEMMA LifeInit == Init => Life!Init /\ AcceptedHasStock
<1> SUFFICES ASSUME Init PROVE Life!Init /\ AcceptedHasStock
  OBVIOUS
<1>1. ASSUME NEW o \in OrderId
      PROVE  PhaseOf(o) = "NONE" /\ ChargeOf(o) = "NONE" /\ StockOf(o) = "NONE"
  BY DEF Init, OrdersInit, CatalogInit, PaymentsInit, PhaseOf, ChargeOf, StockOf
<1> QED BY <1>1 DEF Life!Init, AcceptedHasStock, Bought

\* The three services with their calls, retries and events do to each order only
\* what Lifecycle allows.
THEOREM LifecycleImplemented == Spec => ImplementsLifecycle
<1>1. IInv /\ IInv' /\ AcceptedHasStock /\ [Next]_vars =>
        [Life!Next]_(Life!lifecycleVars) /\ AcceptedHasStock'
  BY LifeStep, AcceptedStep
<1> QED BY <1>1, LifeInit, Invariance, PTL DEF Spec, ImplementsLifecycle, Life!Spec

-----------------------------------------------------------------------------
(* The catalogue inside the composed services *)

\* A stored order names a dish: the DTO refuses an empty item list, and the
\* reservation request carries the stored cart.
CartsNotEmpty == \A o \in OrderId : Exists(o) => Ordered(CartOf(o)) # {}

\* The cart of an order is that of the request that created it, or does not
\* change.
CartIsOld(o) ==
    (orders[o] # Null)' =>
        \/ Exists(o) /\ orders'[o].items = orders[o].items
        \/ \E s \in Submission : orders'[o].items = s.items

LEMMA CartsStay ==
    ASSUME IInv, [Next]_vars, NEW o \in OrderId
    PROVE  CartIsOld(o)
<1> USE DEF CartIsOld
<1>1. orders[o] \in Order \cup {Null} /\ orders \in [OrderId -> Order \cup {Null}]
  BY DEF IInv, TypeOK, OrdersTypeOK
<1>2. ASSUME NEW h \in Handler, NEW s \in Submission, CreateNew(h, s)
      PROVE  CartIsOld(o)
  BY <1>1, <1>2 DEF CreateNew
<1>3. ASSUME NEW c \in Caller, FinishRefused(c)
      PROVE  CartIsOld(o)
  BY <1>1, <1>3 DEF FinishRefused, Order
<1>4. ASSUME NEW c \in Caller, FinishCommit(c)
      PROVE  CartIsOld(o)
  BY <1>1, <1>4 DEF FinishCommit, Priced, Order
<1>5. ASSUME NEW p \in OrderId, NEW status, Transition(p, status)
      PROVE  CartIsOld(o)
  BY <1>1, <1>5 DEF Transition, Order
<1>6. ASSUME NEW p \in OrderId, NEW succeeded, PaymentResult(p, succeeded)
      PROVE  CartIsOld(o)
  BY <1>1, <1>6 DEF PaymentResult, Order
<1>7. CASE UNCHANGED orders
  BY <1>7
<1>8. CASE OrderStep
  <2>1. CASE \E h \in Handler : Submit(h)
    BY <1>2, <1>7, <2>1 DEF Submit, CreateAgain
  <2>2. CASE \E c \in Caller : FinishRead(c) \/ FinishReturns(c)
    BY <1>3, <1>4, <1>7, <2>2 DEF FinishReturns, FinishRead, FinishUnavailable
  <2>3. CASE \E r \in Recoverer : RecoverTick(r) \/ RecoverNext(r)
    BY <1>7, <2>3 DEF RecoverTick, RecoverNext
  <2>4. CASE \E p \in OrderId, status \in {"CONFIRMED", "READY"} :
                Transition(p, status)
    BY <1>5, <2>4
  <2> QED BY <1>8, <2>1, <2>2, <2>3, <2>4 DEF OrderStep
<1>9. CASE AdminStep \/ UNCHANGED vars
  BY <1>7, <1>9 DEF AdminStep, orderVars, vars
<1>10. CASE \E c \in Caller :
            RestaurantAnswers(c) \/ RestaurantFails(c) \/ CallFails(c)
  BY <1>7, <1>10 DEF RestaurantAnswers, RestaurantFails, CallFails,
     FinishAnswered, Abandon
<1>11. CASE \E p \in OrderId : StrayServed(p) \/ StrayLost(p)
  BY <1>7, <1>11 DEF StrayServed, StrayLost, StrayGone
<1>12. CASE Publish
  BY <1>7, <1>12 DEF Publish, PublishOrder, PublishPayment, orderVars
<1>13. CASE Consume
  <2>1. ASSUME NEW e \in bus, OrderConsumes(e)
        PROVE  CartIsOld(o)
    <3>1. e.orderId \in OrderId
      BY <2>1 DEF IInv, TypeOK, OrderEvent, PaymentEvent
    <3> QED BY <1>6, <2>1, <3>1 DEF OrderConsumes
  <2> QED BY <1>7, <1>13, <2>1
      DEF Consume, PaymentConsumes, RestaurantConsumes, orderVars
<1> QED BY <1>8, <1>9, <1>10, <1>11, <1>12, <1>13 DEF Next

\* No order is ever stored without an item.
LEMMA CartsNotEmptyKept ==
    ASSUME IInv, CartsNotEmpty, [Next]_vars
    PROVE  CartsNotEmpty'
<1>1. ASSUME NEW o \in OrderId, Exists(o)'
      PROVE  (Ordered(CartOf(o)) # {})'
  <2>1. CASE Exists(o) /\ orders'[o].items = orders[o].items
    BY <2>1 DEF CartsNotEmpty, Ordered, CartOf
  <2>2. ASSUME NEW s \in Submission, orders'[o].items = s.items
        PROVE  (Ordered(CartOf(o)) # {})'
    BY <2>2, OrdersAssumption DEF Ordered, CartOf
  <2> QED BY <1>1, <2>1, <2>2, CartsStay DEF CartIsOld
<1> QED BY <1>1 DEF CartsNotEmpty

\* The request for the stored order is one the DTO of the restaurant accepts.
LEMMA CartOfInCart ==
    ASSUME IInv, CartsNotEmpty, NEW o \in OrderId, Exists(o)
    PROVE  CartOf(o) \in Cart
<1>1. /\ CartOf(o).items \in Items /\ CartOf(o).restaurantId \in Restaurant
      /\ Ordered(CartOf(o)) # {}
  BY CartOfTyped DEF IInv, TypeOK, CartsNotEmpty
<1> QED BY <1>1 DEF Cart, CartOf

\* What the services do together to the restaurant is what Catalog lets its
\* clients do.
LEMMA CatalogStep ==
    ASSUME IInv, CartsNotEmpty, [Next]_vars
    PROVE  [CatalogNext]_catalogVars
<1>1. ASSUME NEW o \in OrderId, Exists(o), Reserve(o, CartOf(o))
      PROVE  CatalogNext
  BY <1>1, CartOfInCart DEF CatalogNext, Serve
<1>2. CASE OrderStep \/ Publish \/ UNCHANGED vars
  BY <1>2 DEF OrderStep, Publish, PublishOrder, PublishPayment, vars
<1>3. CASE AdminStep
  BY <1>3 DEF AdminStep, CatalogNext
<1>4. CASE \E c \in Caller :
            RestaurantAnswers(c) \/ RestaurantFails(c) \/ CallFails(c)
  <2>1. ASSUME NEW c \in Caller, RestaurantAnswers(c)
        PROVE  CatalogNext
    <3>1. calls[c].orderId \in OrderId /\ Exists(calls[c].orderId)
      BY <2>1 DEF RestaurantAnswers, IInv, UnderWay, CallInv
    <3> QED BY <1>1, <2>1, <3>1 DEF RestaurantAnswers
  <2> QED BY <1>4, <2>1 DEF RestaurantFails, CallFails
<1>5. CASE \E o \in OrderId : StrayServed(o) \/ StrayLost(o)
  <2>1. ASSUME NEW o \in OrderId, StrayServed(o)
        PROVE  CatalogNext
    <3>1. Exists(o)
      BY <2>1 DEF StrayServed, StrayGone, IInv, UnderWay
    <3> QED BY <1>1, <2>1, <3>1 DEF StrayServed
  <2> QED BY <1>5, <2>1 DEF StrayLost
<1>6. CASE Consume
  <2>1. ASSUME NEW e \in bus, RestaurantConsumes(e)
        PROVE  CatalogNext
    <3>1. e.orderId \in OrderId
      BY <2>1 DEF IInv, TypeOK, OrderEvent, PaymentEvent
    <3> QED BY <2>1, <3>1 DEF RestaurantConsumes, CatalogNext, Serve
  <2> QED BY <1>6, <2>1 DEF Consume, PaymentConsumes, OrderConsumes
<1> QED BY <1>2, <1>3, <1>4, <1>5, <1>6 DEF Next

\* Seen from the restaurant, the composed services are its clients.
THEOREM RestaurantServed == Spec => CatalogSpec
<1>1. Init => CatalogInit /\ CartsNotEmpty
  BY DEF Init, OrdersInit, CartsNotEmpty
<1> QED BY <1>1, CatalogStep, CartsNotEmptyKept, Invariance, PTL
    DEF Spec, CatalogSpec

\* Through retries, requests that arrive after their caller gave up, repeated
\* order.cancelled events and dishes deleted in between, no portion is lost
\* or sold twice.
THEOREM PortionsConservedAcross == Spec => StockConserved
BY RestaurantServed, PortionsConserved, PTL

\* Nor does a reservation change its cart or its prices under an order.
THEOREM SnapshotsStableAcross == Spec => SnapshotStable
BY RestaurantServed, SnapshotsStable, PTL

-----------------------------------------------------------------------------
(* Events and the consumers' validation *)

\* Every event on its way passes the validation of the consumers: its total is
\* a natural number, its order id positive and its payment method known.
THEOREM EventsAccepted == Spec => []NoneRejected
<1>1. IInv => NoneRejected
  <2> SUFFICES ASSUME IInv, NEW e \in bus
               PROVE  Accepted(e)
    BY DEF NoneRejected
  <2>1. e \in outbox \cup paymentOutbox /\ EventInv(e) /\ e.orderId \in OrderId
    BY DEF IInv, EventsInv, EventInv
  <2>2. e.orderId >= 1
    <3>1. e.orderId \in Nat
      BY <2>1, DataAssumption
    <3>2. e.orderId # 0
      BY <2>1, IdAssumption
    <3> QED BY <3>1, <3>2
  <2>3. ASSUME e.topic = "order.created"
        PROVE  e.totalVnd >= 0 /\ e.paymentMethod \in Method
    <3>1. orders[e.orderId] \in Order
      BY <2>1 DEF IInv, TypeOK, OrdersTypeOK, EventInv
    <3>2. e.totalVnd \in Amount /\ e.paymentMethod \in Method
      BY <2>1, <2>3, <3>1 DEF EventInv, Order
    <3> QED BY <3>2, AmountInNat
  <2> QED BY <2>2, <2>3 DEF Accepted
<1> QED BY <1>1, Invariance, PTL
=============================================================================
