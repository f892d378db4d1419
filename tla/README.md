# FoodHub in TLA+

FoodHub takes food orders with five NestJS services that share nothing but HTTP
calls and Kafka topics. This directory holds a formal model of what they do
together, the TLC runs that check it on small instances, and TLAPS proofs of the
results that matter most. Paths below are relative to the repository;
`Name` is a definition of a module here.

## 1. Inventory

| Component | State | Operations | Talks to |
|---|---|---|---|
| **gateway** (`services/gateway`) | none but fixed-window counters in Redis | verify JWT, authorise, limit, proxy | every service over HTTP, 10 s timeout, then 504 |
| **restaurant-service** (`services/restaurant`) | Postgres: `Restaurant`, `Dish` (stock, price), `Reservation` (cart, price snapshot, `releasedAt`) | admin: create/rename/remove a restaurant, add/update/remove a dish; internal: `reserve`, `release`; queries | consumes `order.cancelled` |
| **order-service** (`services/order`) | Postgres: `Order`, `OrderItem`, `Outbox`; memory: calls of `finish()` in progress, the recovery timer's `recovering` flag | `create`, `finish`, `recover` (timer), `transition`, `paymentResult`; queries | HTTP to restaurant-service (4 s timeout); consumes `payment.*`, publishes `order.*` |
| **payment-service** (`services/payment`) | Postgres: `Payment`, `Outbox` | `process` | consumes `order.created`, publishes `payment.*` |
| **notification-service** (`services/notification`) | Redis: a dedupe marker per event, an inbox per user and one for the administrator | `record`, `list` | consumes all six topics |
| **event bus and outbox publishers** (`event-bus.ts`, `events.service.ts`, `payments.service.ts` `flush`) | `sentAt` of each outbox row, Kafka logs and committed offsets, a `busy` flag per process | `flush` every 500 ms, `eachMessage` | Kafka, three partitions per topic, key = order id |
| internal guards, health endpoints, start-up, query endpoints | none | stateless checks and reads | |
| **smoke test** (`scripts/smoke.mjs`) | how far the script is | requests and assertions, in order | the gateway |

How an order goes through them: `POST /orders` upserts the order by
(user, idempotency key) in status RESERVING, then `finish()` asks
restaurant-service to reserve its cart under the order's id. Granted: one local
transaction stores the priced items, the total, status PENDING and an
`order.created` outbox row. Refused (400, 404, 409): the order becomes CANCELLED
with a recorded failure, and no event is written. Anything else: the order stays
RESERVING and a retry of the client, or the recovery timer, calls `finish()`
again. `order.created` makes payment-service charge once and answer by event;
the result makes the order PAID, or CANCELLED with an `order.cancelled` event
that makes restaurant-service give the stock back. An administrator confirms a
PAID order and then marks it READY.

What is hard:

- `finish()` awaits three times - the read of the order, the HTTP reservation,
  the final transaction - and any number of calls for one order may be between
  two of them: client retries under one key, several replicas, the recovery
  timer. What a call read is stale by the time it is used.
- The HTTP call is abandoned after four seconds, but the reservation it asked
  for may still be made, later than anything else.
- A process may die between the reservation and the local commit.
- Events arrive at least once, late, and in no useful order.
- An administrator reprices, restocks and deletes dishes under running orders.
- Inside restaurant-service transactions overlap statement by statement; they
  take an advisory lock and then row locks, and the deletion of a restaurant
  takes row locks in an order of its own.
- The gateway answers 504 or 503 while a service goes on with the request, and
  the client asks again under the same key.

What makes each component correct:

| Component | Correct when | Where |
|---|---|---|
| restaurant-service | portions are conserved: reserve is all-or-nothing and at most once per id, release at most once, both at the reservation's own quantities; no stock below zero; a reservation keeps its cart and prices | `StockConserved`, `SnapshotStable`, `LocksTypeOK` |
| its transactions | each is one step to everybody else and is answered as that step; no deadlock without a deletion; all of them end | `ImplementsCatalog`, `AnswersAgree`, `DeadlockNeedsRemoval`, `TransactionsEnd` |
| order-service | a bought order is backed by a reservation at its prices, whichever call completed it; every interrupted checkout is decided; a status change and its event are one, and no event is one its consumers skip as invalid | `BoughtIsBacked`, `CheckoutResolves`, `OneEventPerFact`, `NoneRejected` |
| payment-service | one charge per order, for its customer, total and method, however often it is told | `PaymentAgrees`, `OneEventPerFact` |
| all together | charged iff served; stock goes back exactly for declined orders; an order lives the life `Lifecycle` describes | `ChargedIffServed`, `ReleasedOnlyIfDeclined`, `DeclineRestores`, `PaymentSettles`, `ImplementsLifecycle` |
| event delivery | a committed row reaches every subscribed service at least once; marked means sent, offset stored means handled; a partition keeps the order of the outbox | `ImplementsChannel`, `SentIsLogged`, `CommittedIsHandled`, `InOrder` |
| notification-service | each event is in the inboxes at most once, and not lost before the cap or the retention drops it | `ShownOnce`, `MarkedIsShown` |
| gateway | never more than twice the limit in any window, nobody refused for longer than `retry-after` says; nobody does or is shown what is not hers, whatever path she takes; a refusal is final; retries under one key are one order; every request is answered | `AtMostTwice`, `LimiterInv`, `RefusedOnlyIfFull`, `AccessControlled`, `RefusalIsFinal`, `OneOutcomePerKey`, `RetryKeepsOrder`, `EveryCallAnswered` |
| smoke test | it comes to its end, and fails only for what is wrong | `SmokeEnds`, `FailsByStatusOnly` |

`PROJECT.json` lists the hazards one by one, each at its line, with the
properties that cover it or the reason why none does.

## 2. Modules

```
Carts          carts, prices and the restaurant's answers: the shared data
 |- Catalog    restaurant-service      --- CatalogProofs
 |   |- CatalogLocks   its transactions, lock by lock; implements Catalog
 |        MCCatalogLocks               --- CatalogLocksProofs
 |- Orders     order-service                    |
 |- Payments   payment-service                  |
     FoodHub       the three services, HTTP and events between them
       FoodHubProps  the properties ----------- FoodHubProofs
         MCFoodHub     instances for TLC
       Smoke         the smoke test as a client of FoodHub   --- SmokeProofs
Lifecycle      the abstract life of one order, implemented by FoodHub

Delivery       outbox, Kafka and consumers     --- DeliveryProofs
 |- MCDelivery
Channel        at-least-once delivery, implemented by Delivery, used by FoodHub
Notifications  the inboxes in Redis            --- MCNotifications, NotificationsProofs
RateLimiter    the gateway's request counters  --- MCRateLimiter
Gateway        a request through guard, proxy and service, and its retry
                                               --- MCGateway
                 GatewayProofs, about these two
SumTheorems    sums over finite sets, used by CatalogProofs, GatewayProofs, SmokeProofs
```

**Catalog** (`catalog.service.ts`, `schema.prisma`). `restaurants`, `dishes` and
`reservations` are the three tables; an id is `Unissued`, has a row, or is
`Deleted` (SERIAL ids are not issued twice). Each transaction is one action:
`reserve()` and `release()` run under an advisory lock on the reservation id and
row locks on the dishes until they commit, and roll back as a whole. `Reserve`
is what a request does to the tables, `ReserveAnswer` what its caller is told:
the stored prices for a repeated request, 409 for another cart or a released
reservation, 409 for a dish that is gone, elsewhere or short, 400 for a total
past the cap, 500 for a dish id the 32-bit column cannot hold (`WideDish`,
which passes the DTO's `@IsInt() @Min(1)`). `Administer` is every admin
operation that changes what the rest depends on.

**CatalogLocks** takes those transactions apart. `job[s]` is what session `s` - a
connection of some replica - works on, `at[s]` how far it is, `dirty[s]` the rows
it has written, which it has locked and nobody else sees. `Lock` is
`pg_advisory_xact_lock`, or the row lock of the DELETE; `Look` reads the
reservation; `Write` is one statement on the next item, in the order `reserve()`
sorted them (`rank`) or, for the cascade of a deletion, in any order of `Scan`.
It waits while another session has the row (READ COMMITTED). `BreakDeadlock` is
Postgres failing one statement of a cycle, `Fail` everything else that rolls back.
`LockKey` is `hashtext(id)`. An administrator's statement (`AdminStatement`)
needs one row lock and is over at once, so it is one step that waits for it.
`Asked` is which carts are asked for.

**Orders** (`orders.service.ts`). `orders` and `outbox` are tables; `calls[c]`
is where caller `c` - a request handler or a recovery timer - stands in
`finish()`; `stray[o]` counts reservation requests still on the network whose
caller has given up; `batch[r]` is the page a recovery pass has yet to try. The
three awaits of `finish()` separate `CreateNew`/`CreateAgain`, `FinishRead`, the
restaurant's answer, and `FinishRefused`/`FinishUnavailable`/`FinishCommit`.
`Abandon` is every way a call can end early: timeout, broken connection, failed
transaction, death of the process. `Transition` and `PaymentResult` are one
conditional transaction each; calls they refuse change nothing and are not
steps.

**Payments** (`payments.service.ts`). `Process` is the transaction of
`process()`: the payment and its event, unless there is one already.

**FoodHub** composes them. A request of `finish()` carries the *stored* cart
(`CartOf`). `RestaurantAnswers` serves a caller that still waits,
`StrayServed`/`StrayLost` are late requests. `PublishOrder`/`PublishPayment` put
an outbox row on its topic; a published event may then be consumed any number
of times, at any time, in any order, which covers duplicate sends, redelivery
after a crash and several replicas. There is at most one row per topic and order
(`OneEventPerFact`), so ordering within a partition would forbid none of these
behaviours for one order.

**Lifecycle** is what FoodHub promises about one order without services,
messages or retries: nine kinds of steps on its phase, its charge and its
stock. `Life!Spec` is checked as a property of FoodHub; the mapping is
`PhaseOf`, `ChargeOf`, `StockOf` in FoodHubProps.

**Delivery** is how an event gets from an outbox row to a handler, once for
both services that publish. `rows`, `createdAt` and `sent` are the outbox table;
`earlier` is history: which rows were committed before. `batch[p]` and `acked[p]`
are the loop of a `flush()` in process `p` (a non-empty batch is its `busy`
flag). `wire` holds messages of failed sends, which may still arrive. `log`,
`position`, `done` and `committed` are a Kafka partition and the consumer
group's place in it: a handler has its effect (`Handle`), returns (`Resolve`),
and some time later the offset is stored (`Commit`); `Restart` is a handler that
fails, a process that dies and a partition that changes hands alike. A row's
`createdAt` is any value: it is taken before the commit, on the clock of one of
several replicas. Event ids that Kafka holds more than once are copies of one
row. The rejection of malformed events has no step: no service writes one
(`NoneRejected`).

**Channel** is what FoodHub assumes of all that: committed, then published, then
handled, in any order. FoodHub's `outbox`, `bus` and consumer steps have this
shape.

**Notifications** is `record()` and its Lua script. The clock is read (`Record`)
before the script runs (`Store`), so calls may store out of the order of their
times. Keys expire by comparison with the clock (`Marked`, `Shown`); an event
whose script found a marker, or whose call failed, is `StoreNothing`. `stored`
and `seen[e].at` are history. Events are numbers because equal scores are
ordered by the serialised item, which starts with the event id.

**RateLimiter** is the counting in `AccessGuard.canActivate`. `passed` is
history. A request that Redis counts but whose answer is lost (503) takes a place
of the window like one that is let through, so `Admit` stands for both.

**Gateway** is a client's request on its way: the counting (`Limited`), the token
(`Unauthorized`), the route (`NoRoute`), the forwarding, and the four ways back -
`Return`, `Timeout`, `Unreachable` and the refusals. `calls[n].at` is where the
gateway stands, `calls[n].up` where the request is at the service, so either may
be done while the other is not. The service's part is its InternalGuard
(`Trusted`, `Distrust`), who may do what, and, for a checkout, the awaits at
which requests of one key overlap: `Upsert`, `FinishRead`, `Finish`. `Upsert`
holds both checks of the row that `upsert()` returns, in their order: another cart
than the stored one is 409 whatever has become of the order, then a recorded
failure is. What the restaurant says is left open, and so is RateLimiter's verdict.
A token is the account it was signed for; an invalid or expired one may be refused
at any time (`Unauthorized`).

A request has a `path`, which is what the guard takes it for as the client wrote
it, and an `endpoint`, where `new URL()` leads once it has resolved "..".
`Leads` is which goes with which: a GET that begins like `/api/orders/docs/` needs
no token and may lead to any other GET of that service, or out of its prefix
(400). The service then sees an empty `x-user-id`, and what stands between the
client and the order is the controller. `row` is the order a checkout's upsert
returned, `shown` whose orders, payments or inbox a reply holds, and `found` is
history: what there was under the key when the request was made. `Asked` is who may
ask for what.

**Smoke** is `scripts/smoke.mjs` as a client of FoodHub. `line` is how far the
script is, `answers[h]` the status of the request handler `h` had, `failed` that
an assertion was wrong. Between two lines the services, the recovery timer, the
outboxes and the consumers take any steps. `Go`, `See`, `Eventually` and `Answers`
are the script's own idioms. Its burst of 100 requests is one request per handler.
`Patch` moves the order, or leaves it where it is not in the status that
`Expected` names. `SmokeAssumption` says what the script takes for granted: a new
database, keys (`randomUUID`) that are all different, a cap its carts stay below.

What the data is abstracted to: users, idempotency keys, restaurants and dishes
are model values; a cart is a restaurant and a quantity per dish (0 = not
ordered; the DTO refuses a dish listed twice); the refusal text of a failed
order is the flag `failure`. Names, timestamps and `sentAt` are left out.

## 3. Runs

| Run | Asks | Instance |
|---|---|---|
| `locks` | are the transactions of restaurant-service atomic, answered right, free of deadlocks but for deletions, and do they all end? Are portions conserved and snapshots kept meanwhile? | 2 sessions and an administrator, 2 dishes and an id past 32 bits, 2 reservation ids, prices 1..2, a cap of 1 |
| `checkout` | do the services agree about every order? Is every checkout decided, every bought order settled, and declined stock returned? Also checks `IInv`, the invariant the proofs use, of which `BoughtIsBacked` is a consequence | 2 orders after 1 portion (one pays, one is declined), 1 handler, 1 recovery timer, 2 faults |
| `retry` | does one order follow `Lifecycle`, at the price it was reserved with, when calls of it overlap, and is every event of it accepted? | 1 order, 2 handlers and the timer, prices 0..2, restocking, a cap of 1, a dish id past 32 bits, 2 faults |
| `delivery` | is nothing lost or marked early, is the order of a partition kept, and does delivery implement `Channel`, liveness included? Also checks `DeliveryInv` | 2 events, 2 replicas, pages of 2, times 1..2, 1 fault |
| `inbox` | is an event shown once, and never hidden by its marker? | 3 events of 2 users, 2 concurrent calls, cap 2, retention 2, time to 4 |
| `limiter` | how much may a client do, and when is it refused? Also checks `LimiterInv`, what a counter has to do with what passed | 2 keys with limits 1 and 2, window 3, time to 6 |
| `gateway` | is nobody shown, and does nobody do, what is not hers, is a refusal final, is a key one order through every retry, and is everyone answered? | any request and a checkout, of a customer or an administrator, 1 key, 2 carts, 2 order ids, payment-service with another token |
| `smoke` | does the smoke test come to its end, and what can make it fail? | the script's four dishes and two orders, a burst of 2 requests, the recovery timer |
| `leak`, `repeat`, `starve` | three statements of the documentation that the code does not meet (section 5) | as `checkout`, with restocking and 2 handlers for the first two, an unservable cart for the third, 1 fault |
| `retain` | a fourth one | as `inbox` |

Why the bounds are enough to be worth something. One dish with one portion and
two orders is the smallest instance with contention. Two callers that overlap
need one order, so `retry` has one order and three callers; the overlap of calls
for *different* orders goes through the stock only, and needs one caller each.
Each of `MaxFaults` lets a call time out, die or be answered 500 at every point,
with its request arriving at every later point. The lost answer followed by a
successful retry, which is the case the code is written for, needs one; two let
the retry, or the other order's call, fail as well.
`MaxTotalVnd` = 1 in `retry` makes the cap decide (a dish repriced to 2 is
refused 400), and the price 0, which `priceVnd` may be, makes an order whose total is
0. `Take` = 1 stands for the page of 50: a page as long as there are
orders would hide what happens behind it. In `locks` and `checkout` an
administrator sets no stock of an existing dish; `retry` and the proofs have
restocking. A deadlock of two sessions needs two dishes and two reservation ids
whose advisory locks differ, which is what `locks` has; ids that share a lock
overlap less, so nothing is lost without them. A release or a second reservation
under one id overlaps the first one there, and a price change or a deletion falls
between any two statements. In `gateway` two requests are a checkout and its
retry, two customers' requests or a reader's and a writer's; two order ids let a
second order for one key appear, if there could be one, and two carts a key that is
used again; one service does not trust the gateway's token. One
of the two is always a checkout, since no other request leaves anything behind that
a later one could meet. In `smoke` a burst of two is a winner and a loser,
with the recovery timer as a third caller of either.
In `delivery` two replicas and two events give every overlap of two flushes of
the same rows, and the fault a failed send whose message arrives after the
resend, a death between send and mark, or a restart of the consumer. A row with
an earlier time may be committed when a publisher is already past it. The proofs
of its safety part hold for any number of each. In `inbox` the time goes to
twice the retention, so that markers expire while an inbox
lives on, and a cap of 2 is passed by the three items the administrator gets. In `limiter` the time covers two windows in any
position; `MaxCount` = 4 is past both limits.

`CHECK_DEADLOCK FALSE`: order and dish ids are finite here, and when they are
used up the clients and administrators have nothing left to do; the stuck states
that matter are excluded by the liveness properties instead.

Fairness (`FairSpec`). Weak fairness of the services' own steps only: a call
that can go on does (`FinishRead`, the answer, `FinishReturns`), the recovery
timer of `onModuleInit` fires and works off its page (`setInterval`), committed
rows are published (`setInterval` on `flush`) and events are handled (Kafka
redelivers what was not committed). Nothing is assumed of clients,
administrators or faults: a client need not retry, an admin need not confirm.
Liveness is asked under finitely many faults (`MaxFaults`); with a restaurant
that is down for ever no checkout can be decided. The same is assumed in
`DeliveryFairSpec` of the timers and handlers, separately for each replica and
partition. The single `WF_vars(Publish)`
and `WF_vars(Consume)` are enough because every such step uses up a fact
(at most one row per fact, each consumed with effect once).

`LocksFairSpec` is strong fairness of each session's steps and weak fairness of
the deadlock detector: Postgres queues who waits for a lock, so a session that
can get it again and again does. `GatewayFairSpec` assumes that Redis answers or
its connection fails, and that the timer of `fetch` goes off; nothing of the
services or the clients. `SmokeFairSpec` is `Fairness` and a script that goes on
when it can; its deadlines are left out, so `SmokeEnds` says that what it waits
for comes, not how soon.

Every property of a passing run has a mutant in `PROJECT.json`: a definition of
the module in a form a plausible bug would give it (`...Late`, `...Again`,
`...Silent`, ...), under which the run fails.

## 4. Proofs

`CatalogProofs` and `FoodHubProofs` hold for every number of orders, callers,
dishes, restaurants, users, keys, every set of prices and quantities, every cap,
page size and number of faults. Assumptions are those the modules declare:
`DataAssumption` (ids, prices and quantities are naturals), `IdAssumption` (SERIAL
ids start at 1, and a cart has finitely many dishes), `CatalogAssumption`,
`OrdersAssumption` (handlers and timers are different callers, carts are not
empty, `Take` > 0), `FaultAssumption`, and `RowAssumption`,
`OrderRowAssumption`, `PaymentAssumption`: the markers for "no row" are not rows.
TLC evaluates all of them in every run.

| Theorem | Says |
|---|---|
| `CatalogTypeCorrect`, `SnapshotsStable` | restaurant-service alone: no stock below zero; a reservation never changes but for its one release |
| `PortionsConserved` | the portions on the shelf and those of reservations in force add up to the same number after every step but a restocking |
| `Invariance` | `Spec => []IInv` |
| `TypeCorrect`, `Backing`, `PaymentsAgree`, `ChargeMatchesOutcome`, `ReleaseJustified`, `EventsAreFacts` | the safety invariants of the `checkout` and `retry` runs |
| `EventsAccepted` | no event a service writes fails the validation of a consumer |
| `RestaurantServed`, `PortionsConservedAcross`, `SnapshotsStableAcross` | the composed services implement `Catalog`, so what it promises holds through their retries, late requests and repeated events |
| `LifecycleImplemented` | `Spec => Life!Spec` |

The inductive invariant `IInv` has four parts, each because the others cannot
be kept without it:

- `UnderWay`: what calls in progress carry is still true. A call that was told
  "granted at these prices" may sleep through anything, so the reservation must
  still have these prices when it wakes (`CallInv`); that is why a repeated
  reservation is answered with the stored prices and never changes them.
- `RowInv`: the order against its reservation and its payment. The heart is
  that a bought order has a reservation that has *not been released*, which
  needs: a released reservation belongs to an order that is CANCELLED without a
  recorded failure, and such an order has a FAILED payment.
- `EventsInv`: what an event says was so when it was written and still is, and
  there is exactly one row per fact. This is what makes late and repeated
  deliveries harmless.
- `TypeOK`.

The proof has one lemma per action, each with a step per part the action can
disturb, an `Init` lemma, and a lemma that assembles the actions into `Next`.

`EventsAccepted` asks less than it may seem: that an event carries a known method,
a positive order id and a natural number. The number is the total of the order,
and that it is one rests on `UnderWay`: it is computed from prices a call was told
long ago.

`PortionsConserved` is about a sum over a set of reservations that grows
(`Holding`). Its invariant adds to the types that only finitely many ids are
reserved (`FinitelyReserved`), without which there is no sum. A step then adds one
summand (`Reserve`, the first time), removes one (`Release`) or changes none of
them, and the lemmas show that the stock moves by the same portions the other way.
A dish that was deleted in between gets none back; `StockConserved` says so, and
`PortionsConserved` proves no more.

`RestaurantServed` carries this over to the composed services: a granted request,
one that arrives late and an `order.cancelled` that is handled are `Serve` steps,
everything else leaves the tables of the restaurant alone. `Reserve` is for a
non-empty cart, while FoodHub sends the *stored* cart of an order
(`CartOf`), whatever it is; that it is not empty is an invariant of its own
(`CartsNotEmpty`), since no step changes the cart of an order (`CartsStay`).

`SumTheorems` holds what both sums of this project rest on. The sum of the
community modules takes the elements of a set in an order nobody knows
(`CHOOSE`), and nothing is assumed of it. There is exactly one table of the sums
over all subsets of a finite set (`TableExists`, `TableUnique`), so the sum obeys
its recursive equation (`SumEquation`), and any element may be taken out first
(`SumRemove`). Instead of an induction rule, which takes an operator, the proofs
take the smallest subset that is a counterexample (`SmallestSubset`): the strict
subsets of a finite set are well-founded.

`LifecycleImplemented`: under the mapping of `FoodHubProps` (`PhaseOf`, `ChargeOf`,
`StockOf`) the whole of calls, retries, late requests and repeated events does to
an order nothing but the nine steps of `Lifecycle`. There is a lemma for each action that shows (which abstract
step it is, for which order, and that no other order shows a change); the others
are stutters. `IInv` gives most of what the abstract guards ask; `Hold` asks for
more, that a late reservation request never meets a declined order without a
reservation. That is `AcceptedHasStock`, which no step of `Lifecycle` breaks, so
it is carried along the abstract steps.

`DeliveryProofs` (from `DeliveryAssumption`, for any number of events, replicas,
partitions and faults and any page size):

| Theorem | Says |
|---|---|
| `DeliveryInvariance`, `DeliveryTypeCorrect` | `DeliveryInv`, and the types |
| `NothingMarkedEarly`, `NothingSkipped` | no row is marked before Kafka has it, no offset is stored before its events were handled |
| `OrderKept` | within a partition an event comes behind all that were written before it with an earlier time |
| `DeliveryIsChannel` | Delivery implements the safety part of `Channel` |

`OrderKept` is the one that needs thought. A row may be sent only when all that
is ahead of it is in Kafka, and a flush knows nothing of other flushes; the
strengthening is `QueueInv`: whatever is ahead of a row of a batch is in the same
batch or in Kafka. A page has it because it is a prefix by time of all unsent
rows, sending and marking keep it because the loop goes in that order, and a
failed send keeps it only because it drops the rest of the batch. Messages of
failed sends that arrive late are behind everything ahead of them for the same
reason.

`GatewayProofs` (for any number of requests, accounts, administrators, keys and
order ids, whatever the clients may ask for, and any set of services that trust the
gateway; from `GatewayAssumption`, `AskedAssumption`, `AnswerAssumption` and
`NullAssumption`, which say that "no row", the HTTP codes and the order ids are
different things):

| Theorem | Says |
|---|---|
| `GatewayInvariance`, `GatewayTypeCorrect` | `GatewayInv`, and the types |
| `AccessIsControlled` | operations of administrators are done for administrators, what is not public for holders of a token; all others are shown their own orders, payments and inbox only; an order goes back to a checkout of its owner, for its cart, under its key |
| `RefusalsAreFinal` | when a client has a refusal, no service has the request any more, or one has refused it in the same words; but for 409 the request has touched no order, and a checkout has 409 only if the order of its key is for another cart or is decided |
| `KeyHasOneOutcome` | all checkouts of a user under one key are for one order; one answered with an order gets that one, decided, with its own cart |
| `RetryFindsDecision` | a checkout made after the decision of its key is answered accordingly: placed and the same cart, not 409; failed or another cart, not an order |

`GatewayInv` says, of a single request: what it carries fits how far it has come
(`PathInv`: past the guard its `x-user-id` is its token, which a docs path has not,
and a final answer is the reply of the service), what it was shown is what its
token may see (`AccessInv`), what a service said of an order is still so
(`ReplyInv`: of the row of its upsert, whatever cart that is for), and a request
that found its order decided, or for another cart, does not pass the place where
the code looks at that (`FoundInv`: another cart and a failed order stop at
`Upsert`, a placed one at `FinishRead`). `RowsInv`, one row per user and key, makes
the order that was found the one the checkout works on; `Due` is the checkout an
order goes back to. Every step keeps owner, key, cart and decision of every row
(`Kept`), so only the request that moves needs a proof.

`RefusalsAreFinal` promises no more than the code keeps. A checkout that is
answered 409 may have created its order, and that order may be placed, by the
recovery timer or by a retry that overlaps it: this is the `repeat` disagreement
of section 5. What is excluded is a 409 while the outcome is still open.

`NotificationsProofs` (from `NotificationsAssumption`, for any number of events,
users and replicas, any `Cap` and `Retain`):

| Theorem | Says |
|---|---|
| `NotificationsInvariance`, `NotificationsTypeCorrect` | `NotificationsInv`, and the types: no inbox is longer than `Cap` |
| `NobodySeesItTwice` | no inbox shows two items of one event that were stored less than `Retain` apart |
| `MarkerHidesNothing` | while a marker keeps an event away the event is shown, or the inbox is full of later ones |

Its first half is about sorted sets: ranks counted from the top are an injection
into the numbers below the size (`RankInjection`), so trimming leaves at most
`Cap` members, and exactly `Cap` if it takes any (`TrimmedSize`, `TrimmedFull`);
hence what covers an event before the script does so after it (`Stored`). The
second half is the invariant: an item was stored `Retain` before its marker ends
at the latest (`ItemsInv`), and an inbox outlives the markers of its events
(`MarkerInv`), which is why the expiry of whole inboxes loses nothing early.

`CatalogLocksProofs` (for any number of connections, dishes, restaurants and
reservations, any keys of the advisory locks, colliding or not, and any order in
which a cascade meets the dishes; from `LocksAssumption`, which adds that dish
ids are numbers with a largest one, and `JobAssumption`):

| Theorem | Says |
|---|---|
| `LocksInvariance`, `LocksTypeCorrect` | `LocksInv`, and the types: no statement writes a negative stock |
| `TransactionsAtomic` | the statements implement `Catalog`: what a transaction does to others is its one step, when it commits |
| `AnswersAtomic` | each way out of `reserve()` is the answer of `Catalog` at that moment |
| `SnapshotsKept`, `PortionsKept` | the theorems of `CatalogProofs`, carried over by the refinement |
| `OnlyRemovalsDeadlock` | reservations, releases and the administrator never wait in a circle |

`LocksInv` is what the locks are for. Under the first lock, what the look-up found
is still so (`Looked`); under the row locks, what the transaction wrote is what it
would write now (`RowsCurrent`), so at the commit its rows are those of `Catalog`;
no two sessions have a lock in common (`Exclusive`). A session changes nothing of
what another one at its items depends on (`OpenKept`). `Ascending` is the sort of
`reserve()`: what is locked comes before what is yet to do. For releases this
needs `Issued` as well: a dish they skip because it was deleted cannot come back.
So in a circle of waits without a deletion everybody waits for a dish, and the one
who waits for the largest waits for somebody who waits for a larger one. A
deletion has no `Ascending`: in the `locks` run it closes circles, and
`BreakDeadlock` happens.

`GatewayProofs` about the rate limiter (for any number of clients, any limits and length of the window,
however far the clock goes and however high a counter; from
`RateLimiterAssumption`):

| Theorem | Says |
|---|---|
| `LimiterTypeCorrect` | a counter that lives has its time to live |
| `WindowsCounted` | `LimiterInv`: a counter is the number of requests that passed in its window, up to the limit |
| `NeverMoreThanTwice` | no stretch as long as a window holds more than twice the limit |
| `RefusedFull` | who is refused has filled the limit within the last window |

The history of a client is a function of the time, and what passed in a stretch is
a sum over it. `Fits` is the invariant of one key. While its counter lives
(`InWindow`), what passed since the window began is the counter or the limit,
whichever is less, and a stretch that reaches into the window has at most the limit
*before* it; so two limits in all, and this is why twice is the bound. When the
counter has expired (`NoWindow`), a stretch that has not ended holds at most
the limit, which is what the next window needs to begin with. A request that passes adds
one to the sum of each stretch it is in (`BetweenOneMore`); the moment of the
expiry is in `TickFits`: a stretch that has not ended by then lies within the
window that has. Requests that are refused extend nothing, so that it does end.

`SmokeProofs` (for any number of requests in the burst, any number of recovery
timers, any page size and any further order ids; from `SmokeAssumption` and the
assumptions of `FoodHub`):

| Theorem | Says |
|---|---|
| `ScriptIsClient` | every run of the test is a run of `FoodHub`, whose theorems hold of it |
| `SmokeInvariance` | `SmokeInv`: what there is at each line of the script |
| `SmokeFailsByStatusOnly` | `FailsByStatusOnly`: no assertion but two about a status can fail |

`IInv` says what the services promise any client; it cannot say that nobody else
takes the portions, nor what a script has seen so far. `SmokeInv` adds that:

- `ScriptInv`: the orders are those the script has asked for by now - the first is
  the checkout of rice and soup, the second the one to be declined, each later one
  belongs to a request of the burst of its own;
- `ShopInv`: a dish has the stock of the menu less what is `Sold`, that is in a
  reservation that was not released; one reservation at most is for the last
  portion. This is where the stock a test reads comes from;
- `RefusalInv`: the restaurant's only refusal is 409, and an order it refuses has
  `Lost` its portions: another one of the burst has the last, or its own
  reservation was released. Nothing makes up for that (`LostForGood`), and it is
  why a late answer may still be believed;
- `HandlerInv`: a handler that is busy has not answered, and works on the order of
  the line the script is at. What the recovery timer works on is not restricted;
- `AnswerInv`: an answer means its order is `Decided`, and a 409 that it is `Lost`.
  The converse is the race that makes the test fail: 201 says nothing;
- `KitchenInv`: until the script confirms the order nobody else does, and once it
  is paid nothing but the script moves it.

The steps of the services are proved first, whatever the line is (`ServicesKeepInv`,
over `OrderKept` and `CallKept`, what they may do to one order and one call), then
those of the script, line by line. A decided order of the burst is either reserved
and not failed, or failed and lost (`LateDecided`). So when the burst is counted -
each handler has answered, hence its order is decided - some order has the portion,
`ShopInv` makes it the only one, it is not `Lost`, hence it was not answered 409
(`OneOfTheBurst`). That it is one portion that is sold once, and not at most once,
uses that the burst is not empty.

Only model-checked are the liveness properties: `CheckoutResolves`,
`PaymentSettles`, `DeclineRestores`, `TransactionsEnd`, `EveryCallAnswered`,
`SmokeEnds`, and the liveness part of `ImplementsChannel`, whose safety part is
`DeliveryIsChannel`. They rest on fairness, and the prover has no rules for it
nor for `ENABLED`. Every other property of a run is a theorem.

## 5. Where code and documentation disagree

- **`leak`** - `docs/ARCHITECTURE.md:34`: "CANCELLED. Cancellation tells
  restaurant to release the reservation once." A refused order is cancelled
  without an `order.cancelled` row. If the reservation of the order exists -
  an earlier request reached the restaurant after its caller gave up and after
  another request was refused - its stock is never given back.
- **`repeat`** - `docs/ai-journal/02_reference-snapshot.md:20`: "A persistent
  reservation key makes timed-out HTTP retries safe", and `README.md:23`:
  "idempotent checkout". `finish()` throws 409 after a refusal whether or not its
  conditional update matched, so a retry is told its cart is unavailable although
  another call of the same key has just bought it.
- **`retain`** - `docs/ARCHITECTURE.md:65`: "Inboxes retain up to 100 items for
  seven days." `EXPIRE` renews the seven days of the whole inbox at each new
  event; an item stays for as long as newer ones keep coming. (The marker does
  expire, so an old event that is delivered again is shown twice.)
- **`starve`** - `docs/ARCHITECTURE.md:36`: "An interrupted RESERVING checkout is
  retried from its persisted request." Recovery reads the first 50 RESERVING
  orders by id. Orders the restaurant can only answer with 500 stay there, and
  50 of them keep all later ones from being retried.

Three more disagreements have no run of their own.

- `docs/RUNNING.md:76`: "POST /api/orders: customer token, Idempotency-Key,
  restaurantId, items." The route (`orders.controller.ts:21`) takes any identity,
  so that administrators may order as well. In Gateway they do, and
  `AccessControlled` says of an order only that a holder of its owner's token asked
  for it. The rest of that outline is `AccessControlled`, which holds.
- `scripts/smoke.mjs:92`: one of the statuses of the burst is 201.
  `create()` looks at `order.failure` in the row it has upserted, and `finish()`
  (`orders.service.ts:66`) reads the row again and returns whatever is not
  RESERVING. An order of the burst that the recovery timer has had refused in
  between is answered 201 with status CANCELLED, so the test counts a 201 too many
  and, in line 93, a 409 too few. Nothing is oversold. In Gateway this is the answer
  `o` of `FinishRead` for a failed order, and why `RetryKeepsOrder` promises nothing
  to requests that overlap the decision.
- `scripts/smoke.mjs:83`: the order to be declined is answered 201. The recovery
  timer may complete that checkout; if the order is declined and its reservation
  released before the request asks for it, the restaurant answers 409, which
  `finish()` passes on.

The last two are the only assertions of the smoke test that may fail:
`FailsByStatusOnly` shows that, and excepts them.

## 6. Not modelled

- Names of restaurants and dishes, and renaming: nothing depends on them.
- Requests the DTOs refuse before any state changes, but for their answer in
  Gateway (`RefuseMalformed`).
- Paging and contents of lists and of the query endpoints; whose orders, payments
  and inboxes they may show is in Gateway.
- `/api/health` of the gateway itself, which is a constant, and paths a service has
  no route for (its own 404).
- The ready flag of the event bus and what the health endpoints say: it depends on
  the order of kafkajs' calls and events, which the repository does not hold.
- Start-up (`main.ts`, topic creation) and `scripts/setup-env.mjs`.
- Requests that reach a service past the gateway, inside the private network.
- Deadlines of the smoke test, and its requests about health and logins, which
  are those of Gateway.
- `gateway` signing and checking of JWTs: a library.
- Replication, rebalancing and retention inside Kafka, Postgres and Redis.

## 7. Plan

Done, in this order: `Carts` and `Catalog`; `Orders`, `Payments` and `FoodHub`;
`Lifecycle` and the refinement run; `FoodHubProofs`; `Delivery`, `Channel` and
`DeliveryProofs`; `Notifications`; `RateLimiter`; `CatalogLocks`; `Gateway`;
`Smoke`; `GatewayProofs`; `NotificationsProofs`; the refinement in `FoodHubProofs`;
`CatalogLocksProofs`; `SumTheorems` with `StockConserved` in `CatalogProofs`,
`CatalogLocksProofs` and `FoodHubProofs`; the rate limiter in `GatewayProofs`;
`EventsAccepted`; `SmokeProofs`. Left:

1. Liveness of checkout with two recovery timers: the run is too long as it is.
2. Proofs of the liveness properties, if a prover for them is at hand: a checkout is
   decided because each retry of `recover()` either ends or uses up a fault.
