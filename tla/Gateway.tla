------------------------------- MODULE Gateway -------------------------------
(***************************************************************************)
(* A client's request on its way through the gateway (AccessGuard and      *)
(* ProxyController, services/gateway/src) to the guard and the controllers *)
(* of the service it is for, and the answer on its way back.  A client     *)
(* whose answer says nothing certain asks again; the service may still be  *)
(* working on the first request then.  The gateway keeps nothing between   *)
(* requests but the counters of RateLimiter, whose verdict is left open.   *)
(***************************************************************************)
EXTENDS Naturals

CONSTANTS
    Call,           \* requests that are made
    Account,        \* the demo accounts; also the tokens login() signs
    Admin,          \* the accounts with the role admin
    RequestKey,     \* well-formed Idempotency-Key values
    Cart,           \* carts that differ in restaurant, dishes or payment method
    OrderId,
    Asked,          \* Asked[n]: what client n may ask for
    Trusting,       \* services whose INTERNAL_TOKEN is the gateway's
    Null            \* no token, no key, no row

ASSUME GatewayAssumption ==
    /\ Admin \subseteq Account
    /\ Null \notin Account \cup RequestKey \cup Cart \cup OrderId

VARIABLES
    orders,         \* orders[o]: whose, under which key, for what; or Null
    calls           \* calls[n]: the request and how far it has come

gatewayVars == <<orders, calls>>

\* What the AccessGuard takes the path for, as the client wrote it
Path == {"health", "login", "docs", "menu", "other"}

\* Where the path leads once new URL() has normalised it.  "outside" is out of
\* the prefix of its service, "nowhere" a first segment that names no service
\* ("internal" is one of those).
OfAdmin == {"moveOrder", "writeMenu"}
OfOneOrder == {"readOrder", "readPayment"}
Endpoint ==
    OfAdmin \cup OfOneOrder \cup
    {"health", "docs", "menu", "login", "createOrder", "listOrders", "inbox",
     "nowhere", "outside"}

\* The docs are GETs of everything below /api/orders/docs/ and
\* /api/restaurants/docs/, and "..", which the guard does not resolve, leads on.
Leads ==
    [p \in Path |->
        CASE p = "docs" -> {"docs", "menu", "listOrders", "readOrder", "health", "outside"}
          [] p = "other" -> Endpoint \ {"login"}
          [] OTHER -> {p}]

Service ==
    [e \in OfAdmin \cup OfOneOrder \cup {"createOrder", "listOrders", "menu", "inbox"} |->
        CASE e \in {"menu", "writeMenu"} -> "restaurants"
          [] e = "readPayment" -> "payments"
          [] e = "inbox" -> "notifications"
          [] OTHER -> "orders"]

\* A token is there where the guard looks at it, a key and a cart unless one is
\* missing or not well formed, an id likewise.
Request ==
    {q \in [path : Path, endpoint : Endpoint, token : Account \cup {Null},
            key : RequestKey \cup {Null}, cart : Cart \cup {Null},
            order : OrderId \cup {Null}] :
        /\ q.endpoint \in Leads[q.path]
        /\ q.path \in {"health", "login", "docs"} => q.token = Null
        /\ q.key # Null => q.endpoint = "createOrder"
        /\ q.key = Null <=> q.cart = Null
        /\ q.order # Null => q.endpoint \in OfOneOrder}

ASSUME AskedAssumption == Asked \in [Call -> SUBSET Request]

\* "ok" is a success without an order of its own; 503 also stands for 500.
Code == {"ok", "400", "401", "403", "404", "409", "429", "503", "504"}

ASSUME AnswerAssumption == Code \cap (OrderId \cup {Null}) = {}

Row ==
    [user : Account, key : RequestKey, cart : Cart,
     state : {"reserving", "placed", "failed"}]

\* user is the x-user-id header of the request to the service, up where that
\* request is ("upserted" and "asking" are two awaits of a checkout), row the
\* order its upsert returned, reply what the service made of it, shown whose
\* orders, payments or inbox are in the reply, answer what the client got.  found
\* is history: the state of the order of its key when the request was made, or
\* "other" if that order is for another cart.
NewCall ==
    [request |-> Null, at |-> "new", user |-> Null, up |-> "none", row |-> Null,
     reply |-> Null, shown |-> {}, answer |-> Null, found |-> Null]

CallRecord ==
    [request : Request \cup {Null}, user : Account \cup {Null},
     at : {"new", "counting", "waiting", "answered"},
     up : {"none", "sent", "upserted", "asking", "served", "lost"},
     row : OrderId \cup {Null},
     reply : Code \cup OrderId \cup {Null}, shown : SUBSET Account,
     answer : Code \cup OrderId \cup {Null},
     found : {"reserving", "placed", "failed", "other", Null}]

ASSUME NullAssumption ==
    Null \notin Row \cup Request \cup {"reserving", "placed", "failed", "other"}

GatewayTypeOK ==
    /\ orders \in [OrderId -> Row \cup {Null}]
    /\ calls \in [Call -> CallRecord]
    /\ \A n \in Call :
        /\ calls[n].at = "new" <=> calls[n].request = Null
        /\ calls[n].at = "answered" <=> calls[n].answer # Null
        /\ calls[n].up = "served" <=> calls[n].reply # Null

GatewayInit ==
    /\ orders = [o \in OrderId |-> Null]
    /\ calls = [n \in Call |-> NewCall]

-----------------------------------------------------------------------------
(* The gateway *)

Answer(n, a) ==
    /\ calls' = [calls EXCEPT ![n].at = "answered", ![n].answer = a]
    /\ UNCHANGED orders

\* The order o was made by account user under key.
MadeBy(o, user, key) ==
    /\ orders[o] # Null
    /\ orders[o].user = user
    /\ orders[o].key = key

\* What there is (one order at most) under the token and key of a request
FoundFor(q) ==
    {IF orders[o].cart = q.cart THEN orders[o].state ELSE "other" :
        o \in {p \in OrderId : MadeBy(p, q.token, q.key)}}

Arrive(n, q) ==
    /\ calls[n].at = "new"
    /\ q.path # "health"
    /\ \E f \in IF FoundFor(q) = {} THEN {Null} ELSE FoundFor(q) :
          calls' = [calls EXCEPT ![n].request = q, ![n].at = "counting", ![n].found = f]
    /\ UNCHANGED orders

\* The health check of a service passes the AccessGuard before the counting.
ArriveHealth(n, q) ==
    /\ calls[n].at = "new"
    /\ q.path = "health"
    /\ calls' = [calls EXCEPT ![n].request = q, ![n].at = "waiting", ![n].up = "sent"]
    /\ UNCHANGED orders

\* 429 over the limit, 503 when Redis does not answer
Limited(n, a) ==
    /\ calls[n].at = "counting"
    /\ a \in {"429", "503"}
    /\ Answer(n, a)

\* verify() refuses an expired token, for the public menu too; for the docs the
\* guard has returned before it looks at one.
Unauthorized(n) ==
    LET q == calls[n].request IN
    /\ calls[n].at = "counting"
    /\ q.path = "other" \/ (q.path = "menu" /\ q.token # Null)
    /\ Answer(n, "401")

Authorized(n) ==
    /\ calls[n].at = "counting"
    /\ calls[n].request.path # "other" \/ calls[n].request.token # Null

\* A method other than POST meets the proxy, which knows no service "auth".
Login(n, a) ==
    /\ Authorized(n)
    /\ calls[n].request.path = "login"
    /\ a \in {"ok", "400", "401", "404"}
    /\ Answer(n, a)

NoRoute(n) ==
    /\ Authorized(n)
    /\ calls[n].request.endpoint \in {"nowhere", "outside"}
    /\ Answer(n, IF calls[n].request.endpoint = "nowhere" THEN "404" ELSE "400")

\* The service gets the normalised path, and the identity the guard has verified
\* for the path it saw.
Forward(n) ==
    /\ Authorized(n)
    /\ calls[n].request.endpoint \notin {"login", "nowhere", "outside"}
    /\ calls' = [calls EXCEPT ![n].at = "waiting", ![n].up = "sent",
                              ![n].user = calls[n].request.token]
    /\ UNCHANGED orders

\* Mutated form: the response is sent without awaiting the upstream's
ReturnUnawaited(n) ==
    /\ calls[n].at = "waiting"
    /\ Answer(n, calls[n].reply)

Return(n) ==
    /\ calls[n].at = "waiting"
    /\ calls[n].up = "served"
    /\ Answer(n, calls[n].reply)

\* Mutated form: fetch has no signal
TimeoutMissing(n) == FALSE

\* Nothing tells the service that the gateway gave up.
Timeout(n) ==
    /\ calls[n].at = "waiting"
    /\ Answer(n, "504")

UnderWay(n) == calls[n].up \in {"sent", "upserted", "asking"}

\* Mutated form: an upstream that cannot be reached is answered like a
\* service that does not exist
UnreachableAsUnknown(n, u) ==
    /\ calls[n].at = "waiting"
    /\ u = calls[n].up \/ (UnderWay(n) /\ u = "lost")
    /\ calls' = [calls EXCEPT ![n].at = "answered", ![n].answer = "404", ![n].up = u]
    /\ UNCHANGED orders

\* fetch fails, or the service dies: the request may have had its effect.
Unreachable(n, u) ==
    /\ calls[n].at = "waiting"
    /\ u = calls[n].up \/ (UnderWay(n) /\ u = "lost")
    /\ calls' = [calls EXCEPT ![n].at = "answered", ![n].answer = "503", ![n].up = u]
    /\ UNCHANGED orders

-----------------------------------------------------------------------------
(* The services *)

\* Reply r, with data of the accounts in who
Reply(n, r, who) ==
    calls' = [calls EXCEPT ![n].up = "served", ![n].reply = r, ![n].shown = who]

\* The InternalGuard of the service lets the request through.
Trusted(n) ==
    /\ calls[n].up = "sent"
    /\ calls[n].request.endpoint \in DOMAIN Service
    /\ Service[calls[n].request.endpoint] \in Trusting

Distrust(n) ==
    /\ calls[n].up = "sent"
    /\ calls[n].request.endpoint \in DOMAIN Service
    /\ Service[calls[n].request.endpoint] \notin Trusting
    /\ Reply(n, "401", {})
    /\ UNCHANGED orders

\* Health is exempt from the InternalGuard; Swagger serves the docs before it.
ServeUnguarded(n, r) ==
    /\ calls[n].up = "sent"
    /\ calls[n].request.endpoint \in {"health", "docs"}
    /\ r \in IF calls[n].request.endpoint = "health" THEN {"ok", "503"} ELSE {"ok", "404"}
    /\ Reply(n, r, {})
    /\ UNCHANGED orders

ServeMenu(n, r) ==
    /\ Trusted(n)
    /\ calls[n].request.endpoint = "menu"
    /\ r \in {"ok", "400", "404", "503"}
    /\ Reply(n, r, {})
    /\ UNCHANGED orders

\* A body or id that is not valid is refused before the role is looked at.
ServeAdmin(n, r) ==
    /\ Trusted(n)
    /\ calls[n].request.endpoint \in OfAdmin
    /\ r \in IF calls[n].user \in Admin THEN {"ok", "400", "404", "409", "503"}
                                     ELSE {"400", "403"}
    /\ Reply(n, r, {})
    /\ UNCHANGED orders

\* Mutated form: the query does not look at whose the order is
VisibleToAll(n, o) == orders[o] # Null

\* where: { id, ...(admin ? {} : { userId }) }
Visible(n, o) ==
    /\ orders[o] # Null
    /\ calls[n].user \in Admin \/ orders[o].user = calls[n].user

\* The inbox of an account, or the one of the administrators.  A page shows as
\* many orders as there are from its offset on; one before 0 is 400.
ServeList(n, r, who) ==
    LET e == calls[n].request.endpoint IN
    /\ Trusted(n)
    /\ e \in {"listOrders", "inbox"}
    /\ \/ r = "400" /\ e = "listOrders" /\ who = {}
       \/ r = "401" /\ calls[n].user = Null /\ who = {}
       \/ r = "503" /\ calls[n].user # Null /\ who = {}
       \/ r = "ok" /\ calls[n].user # Null
            /\ who \subseteq IF e = "inbox"
                             THEN IF calls[n].user \in Admin THEN Account ELSE {calls[n].user}
                             ELSE {orders[o].user : o \in {p \in OrderId : Visible(n, p)}}
    /\ Reply(n, r, who)
    /\ UNCHANGED orders

\* The payment of an order comes later than the order.  Only the orders
\* controller asks for an identity by itself.
ServeRead(n, r) ==
    LET q == calls[n].request IN
    /\ Trusted(n)
    /\ q.endpoint \in OfOneOrder
    /\ q.order # Null
    /\ \/ r = "401" /\ q.endpoint = "readOrder" /\ calls[n].user = Null
       \/ /\ q.endpoint = "readOrder" => calls[n].user # Null
          /\ \/ r = "ok" /\ Visible(n, q.order)
             \/ r = "404" /\ (~Visible(n, q.order) \/ q.endpoint = "readPayment")
             \/ r = "503"
    /\ Reply(n, r, IF r = "ok" THEN {orders[q.order].user} ELSE {})
    /\ UNCHANGED orders

\* 400 for an id, a key or a body that is missing or not well formed
RefuseMalformed(n) ==
    LET q == calls[n].request IN
    /\ Trusted(n)
    /\ \/ q.endpoint = "createOrder" /\ q.key = Null
       \/ q.endpoint \in OfOneOrder /\ q.order = Null
    /\ Reply(n, "400", {})
    /\ UNCHANGED orders

\* Mutated form: a failed order is cleared away, so that its key can be used again
UnderKeyUnlessFailed(n, o) ==
    /\ MadeBy(o, calls[n].user, calls[n].request.key)
    /\ orders[o].state # "failed"

UnderKey(n, o) == MadeBy(o, calls[n].user, calls[n].request.key)

Checkout(n) ==
    /\ Trusted(n)
    /\ calls[n].request.endpoint = "createOrder"
    /\ calls[n].request.key # Null
    /\ calls[n].user # Null

\* upsert() by (userId, requestKey).  The row it returns is refused if it is for
\* another cart, whatever has become of it, and then if it has a failure.
Upsert(n, o) ==
    LET q == calls[n].request IN
    /\ Checkout(n)
    /\ IF \E p \in OrderId : UnderKey(n, p)
       THEN UnderKey(n, o) /\ UNCHANGED orders
       ELSE /\ orders[o] = Null
            /\ orders' = [orders EXCEPT ![o] = [user |-> calls[n].user, key |-> q.key,
                                                cart |-> q.cart, state |-> "reserving"]]
    /\ calls' = IF orders'[o].cart # q.cart \/ orders'[o].state = "failed"
                THEN [calls EXCEPT ![n].row = o, ![n].up = "served", ![n].reply = "409"]
                ELSE [calls EXCEPT ![n].row = o, ![n].up = "upserted"]

\* Mutated form: finish() does not look at the status it reads
FinishReadAlways(n, o) ==
    /\ calls[n].up = "upserted" /\ o = calls[n].row
    /\ calls' = [calls EXCEPT ![n].up = "asking"]
    /\ UNCHANGED orders

\* finish() reads the row again and returns it, whatever became of it, unless
\* it is still RESERVING.
FinishRead(n, o) ==
    /\ calls[n].up = "upserted" /\ o = calls[n].row
    /\ IF orders[o].state = "reserving"
       THEN calls' = [calls EXCEPT ![n].up = "asking"]
       ELSE Reply(n, o, {orders[o].user})
    /\ UNCHANGED orders

\* The update of status RESERVING that ends finish() with outcome s
Decided(o, s) ==
    orders' = IF orders[o].state = "reserving"
              THEN [orders EXCEPT ![o].state = s] ELSE orders

\* Granted: the order is returned; refused: 409; either way whether or not the
\* update matched.
Finish(n, o) ==
    /\ calls[n].up = "asking" /\ o = calls[n].row
    /\ \/ Decided(o, "placed") /\ Reply(n, o, {orders[o].user})
       \/ Decided(o, "failed") /\ Reply(n, "409", {})

\* No answer of the restaurant or of the database at one of the awaits: the row
\* stays as it is.  A commit whose answer is lost is Recover before this.
Interrupted(n) ==
    /\ Checkout(n) \/ calls[n].up \in {"upserted", "asking"}
    /\ Reply(n, "503", {})
    /\ UNCHANGED orders

\* The recovery timer of order-service goes on without any request.
Recover(o, s) ==
    /\ orders[o] # Null
    /\ orders[o].state = "reserving"
    /\ Decided(o, s)
    /\ UNCHANGED calls

-----------------------------------------------------------------------------

AtGuard(n) ==
    \/ \E a \in Code : Limited(n, a) \/ Login(n, a)
    \/ Unauthorized(n) \/ NoRoute(n) \/ Forward(n)

Serve(n) ==
    \/ Distrust(n) \/ RefuseMalformed(n) \/ Interrupted(n)
    \/ \E r \in Code :
        \/ ServeUnguarded(n, r) \/ ServeMenu(n, r) \/ ServeAdmin(n, r) \/ ServeRead(n, r)
        \/ \E who \in SUBSET Account : ServeList(n, r, who)
    \/ \E o \in OrderId : Upsert(n, o) \/ FinishRead(n, o) \/ Finish(n, o)

GatewayNext ==
    \/ \E n \in Call :
        \/ \E q \in Asked[n] : Arrive(n, q) \/ ArriveHealth(n, q)
        \/ AtGuard(n) \/ Serve(n)
        \/ Return(n) \/ Timeout(n) \/ \E u \in {"sent", "served", "lost"} : Unreachable(n, u)
    \/ \E o \in OrderId, s \in {"placed", "failed"} : Recover(o, s)

GatewaySpec == GatewayInit /\ [][GatewayNext]_gatewayVars

\* Redis answers or its connection fails, and the timer of fetch goes off.
\* Nothing is assumed of the services.
GatewayFairSpec ==
    /\ GatewaySpec
    /\ \A n \in Call :
        /\ WF_gatewayVars(AtGuard(n))
        /\ WF_gatewayVars(Return(n) \/ Timeout(n))

-----------------------------------------------------------------------------
(* Properties *)

\* Whatever a service did or showed for a request, however long that was on its
\* way: what is an administrator's it did for an administrator; what is not public
\* it did for the holder of a token; all others saw their own orders, payments and
\* inbox only, lists and paths that only look like the docs included; and an order
\* is there because a holder of the token of its owner asked for that cart under
\* that key.  This is the "API outline" of docs/RUNNING.md but for one word, that
\* POST /api/orders takes a customer token: the code takes an administrator's too.
AccessControlled ==
    /\ \A n \in Call : calls[n].reply \in {"ok"} \cup OrderId =>
        LET q == calls[n].request IN
        /\ q.endpoint \in OfAdmin => q.token \in Admin
        /\ q.endpoint \notin {"health", "docs", "menu"} => q.token # Null
        /\ q.token \in Admin \/ calls[n].shown \subseteq {q.token}
    /\ \A o \in OrderId : orders[o] # Null =>
        \E n \in Call :
            /\ calls[n].row = o
            /\ calls[n].request.endpoint = "createOrder"
            /\ calls[n].request.token = orders[o].user
            /\ calls[n].request.key = orders[o].key
            /\ calls[n].request.cart = orders[o].cart

\* A refusal is final: no service has the request any more, or it refused it in
\* the same words.  Refused otherwise than by 409, the request has made and found
\* no order; a checkout gets 409 if the order of its key, which may be its own, is
\* for another cart or is decided.  (It may be decided the other way: see
\* RetryKeepsOrder.)  Only 503 and 504 leave the outcome open.
RefusalIsFinal ==
    \A n \in Call : calls[n].answer \in {"400", "401", "403", "404", "409", "429"} =>
        LET o == calls[n].row IN
        /\ calls[n].up \in {"none", "served"}
        /\ calls[n].reply \in {Null, calls[n].answer}
        /\ calls[n].answer # "409" => o = Null
        /\ calls[n].answer = "409" /\ calls[n].request.endpoint = "createOrder" =>
            /\ o # Null
            /\ \/ orders[o].cart # calls[n].request.cart
               \/ orders[o].state # "reserving"

\* All checkouts of one user under one key, with retries after 503 and 504 that
\* overlap the work on the first, are for one order.  A checkout that is answered
\* with an order gets that one, decided, and with the cart it asked for.
OneOutcomePerKey ==
    \A n \in Call : calls[n].request # Null /\ calls[n].request.endpoint = "createOrder" =>
        LET q == calls[n].request
            a == calls[n].answer
        IN  /\ \A o, p \in OrderId :
                MadeBy(o, q.token, q.key) /\ MadeBy(p, q.token, q.key) => o = p
            /\ a \in OrderId =>
                /\ MadeBy(a, q.token, q.key)
                /\ orders[a].cart = q.cart
                /\ orders[a].state # "reserving"

\* A checkout that is made when the order of its key is decided is answered
\* accordingly: a placed order is never refused to a retry with its cart, a failed
\* one never returned, and an order never to a request for another cart.
\* Requests that overlap the decision have no such promise.
RetryKeepsOrder ==
    \A n \in Call :
        /\ calls[n].found = "placed" => calls[n].answer # "409"
        /\ calls[n].found \in {"failed", "other"} => calls[n].answer \notin OrderId

\* Every request is answered, also when the service never does.
EveryCallAnswered ==
    \A n \in Call : calls[n].at \in {"counting", "waiting"} ~> calls[n].at = "answered"
=============================================================================
