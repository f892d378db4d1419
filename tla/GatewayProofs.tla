---------------------------- MODULE GatewayProofs ----------------------------
(***************************************************************************)
(* Proofs about the gateway.  The safety properties of Gateway, for any    *)
(* number of requests, accounts, keys and orders; and those of its rate    *)
(* limiter: for any number of keys, any limits and window, and however     *)
(* long the clock runs, no stretch of one window holds more than twice the *)
(* limit, and who is refused has filled it.                                *)
(***************************************************************************)
EXTENDS Gateway, RateLimiter, SumTheorems

-----------------------------------------------------------------------------
(* The inductive invariant *)

\* The order o is under the token and key of the request of c.
Under(c, o) == MadeBy(o, c.request.token, c.request.key)

\* One order per user and key
RowsInv ==
    \A o, p \in OrderId :
        (/\ orders[o] # Null /\ orders[p] # Null
         /\ orders[o].user = orders[p].user
         /\ orders[o].key = orders[p].key) => o = p

\* The request q is a checkout for the order o as it is.
AskedFor(q, o) ==
    /\ q.endpoint = "createOrder"
    /\ MadeBy(o, q.token, q.key)
    /\ orders[o].cart = q.cart

Due(c, o) == c.row = o /\ AskedFor(c.request, o)

\* What a call has in hand fits how far it has come: the service has the token
\* the guard let through, a checkout that is past its upsert its row, and the
\* client what the service said, if that was an order or a refusal.
PathInv(c) ==
    /\ c.at \in {"new", "counting"} => c.up = "none" /\ c.user = Null
    /\ c.at = "new" => c.found = Null
    /\ c.up # "none" => c.request # Null /\ c.user = c.request.token
    /\ c.up \in {"none", "sent"} => c.row = Null
    /\ c.up \in {"upserted", "asking"} => c.row # Null
    /\ c.row # Null => c.request.endpoint = "createOrder"
    /\ c.found # Null => c.request.endpoint = "createOrder"
    /\ c.reply \in OrderId => c.reply = c.row
    /\ c.reply \in {"400", "401", "403", "404", "429"} => c.row = Null
    /\ c.answer \in {"400", "401", "403", "404", "409", "429"} =>
        c.up \in {"none", "served"} /\ c.reply \in {Null, c.answer}
    /\ c.answer \in OrderId \cup {"409"} => c.reply = c.answer

\* What is done and shown is the administrators', the public's or one's own.
AccessInv(c) ==
    /\ c.up # "served" => c.shown = {}
    /\ c.up = "served" => c.request.token \in Admin \/ c.shown \subseteq {c.request.token}
    /\ c.reply = "ok" /\ c.request.endpoint \in OfAdmin => c.request.token \in Admin
    /\ c.reply \in {"ok"} \cup OrderId =>
        c.request.endpoint \in {"health", "docs", "menu"} \/ c.request.token # Null

\* What a service has said of an order is still so.
ReplyInv(c) ==
    /\ c.row # Null => Under(c, c.row)
    /\ c.up \in {"upserted", "asking"} => orders[c.row].cart = c.request.cart
    /\ c.reply \in OrderId =>
        orders[c.row].cart = c.request.cart /\ orders[c.row].state # "reserving"
    /\ c.reply = "409" /\ c.request.endpoint = "createOrder" =>
        /\ c.row # Null
        /\ orders[c.row].cart # c.request.cart \/ orders[c.row].state # "reserving"

\* The order of the key of c is in state s, and for its cart if same holds.
Decision(c, s, same) ==
    \E o \in OrderId :
        /\ Under(c, o)
        /\ orders[o].cart = c.request.cart <=> same
        /\ same => orders[o].state = s

\* What was decided when a request was made still is, and the request does not
\* get past the place where the code looks at it.
FoundInv(c) ==
    /\ c.found = "placed" =>
        Decision(c, "placed", TRUE) /\ c.up # "asking" /\ c.reply # "409"
    /\ c.found = "failed" =>
        /\ Decision(c, "failed", TRUE)
        /\ c.up \notin {"upserted", "asking"} /\ c.reply \notin OrderId
    /\ c.found = "other" =>
        /\ Decision(c, "other", FALSE)
        /\ c.up \notin {"upserted", "asking"} /\ c.reply \notin OrderId

CallInv(c) == PathInv(c) /\ AccessInv(c) /\ ReplyInv(c) /\ FoundInv(c)

GatewayInv ==
    /\ GatewayTypeOK
    /\ RowsInv
    /\ \A o \in OrderId : orders[o] # Null => \E n \in Call : Due(calls[n], o)
    /\ \A n \in Call : CallInv(calls[n])

\* A step keeps every row, its owner, key and cart, and what is decided.
Kept ==
    \A o \in OrderId : orders[o] # Null =>
        /\ orders'[o] # Null
        /\ orders'[o].user = orders[o].user
        /\ orders'[o].key = orders[o].key
        /\ orders'[o].cart = orders[o].cart
        /\ orders[o].state # "reserving" => orders'[o].state = orders[o].state

\* What a step does to the rows, if only o may be a new one, for q
RowsStep(o, q) ==
    /\ Kept
    /\ orders' \in [OrderId -> Row \cup {Null}]
    /\ RowsInv'
    /\ \A p \in OrderId : orders[p] = Null /\ orders'[p] # Null =>
        p = o /\ AskedFor(q, p)'

\* The conjuncts of the type invariant about one call
Consistent(c) ==
    /\ c.at = "new" <=> c.request = Null
    /\ c.at = "answered" <=> c.answer # Null
    /\ c.up = "served" <=> c.reply # Null

USE DEF CallInv, Under, MadeBy

-----------------------------------------------------------------------------
(* Requests and records *)

LEMMA RequestFacts ==
    ASSUME NEW q \in Request
    PROVE  /\ q.endpoint \in Endpoint
           /\ q.token \in Account \cup {Null}
           /\ q.key \in RequestKey \cup {Null}
           /\ q.cart \in Cart \cup {Null}
           /\ q.order \in OrderId \cup {Null}
           /\ q.key # Null => q.endpoint = "createOrder" /\ q.cart # Null
           /\ q.path = "health" => q.token = Null
BY DEF Request

LEMMA CodeFacts ==
    /\ Null \notin Code /\ Null \notin OrderId
    /\ \A r \in Code : r \notin OrderId
BY GatewayAssumption, AnswerAssumption

\* Steps that keep the rows keep what is known of a call they do not touch.
LEMMA KeptCall ==
    ASSUME NEW c \in CallRecord, Consistent(c), CallInv(c), Kept
    PROVE  CallInv(c)'
<1>1. PathInv(c)' /\ AccessInv(c)'
  BY DEF PathInv, AccessInv
<1>2. ReplyInv(c)'
  <2>1. CASE c.row = Null
    BY <2>1, CodeFacts DEF ReplyInv, PathInv, Code
  <2>2. CASE c.row # Null
    <3>1. c.row \in OrderId /\ Under(c, c.row)
      BY <2>2 DEF ReplyInv, CallRecord
    <3>2. /\ Under(c, c.row)'
          /\ orders'[c.row].cart = orders[c.row].cart
          /\ orders[c.row].state # "reserving" => orders'[c.row].state # "reserving"
      BY <3>1 DEF Kept
    <3> QED BY <3>2 DEF ReplyInv
  <2> QED BY <2>1, <2>2
<1>3. FoundInv(c)'
  <2>1. ASSUME NEW s \in {"placed", "failed", "other"}, NEW same \in BOOLEAN,
               Decision(c, s, same)
        PROVE  Decision(c, s, same)'
    BY <2>1 DEF Kept, Decision
  <2> QED BY <2>1 DEF FoundInv
<1> QED BY <1>1, <1>2, <1>3

\* What remains to be shown of a step of one call
LEMMA OneCall ==
    ASSUME GatewayInv, NEW n \in Call, NEW d \in CallRecord,
           calls' = [calls EXCEPT ![n] = d],
           calls[n].row # Null => d.row = calls[n].row /\ d.request = calls[n].request,
           RowsStep(d.row, d.request), Consistent(d), CallInv(d)'
    PROVE  GatewayInv'
<1>1. calls \in [Call -> CallRecord] /\ calls'[n] = d
  BY DEF GatewayInv, GatewayTypeOK
<1>2. GatewayTypeOK'
  BY <1>1 DEF GatewayInv, GatewayTypeOK, Consistent, RowsStep
<1>3. ASSUME NEW m \in Call PROVE CallInv(calls[m])'
  <2>1. CASE m = n
    <3>1. calls'[m] = d
      BY <1>1, <2>1
    <3> QED BY <3>1 DEF PathInv, AccessInv, ReplyInv, FoundInv, Decision
  <2>2. CASE m # n
    <3>1. PICK c \in CallRecord : c = calls[m]
      BY <1>1
    <3>2. calls'[m] = c
      BY <1>1, <2>2, <3>1
    <3>3. Consistent(c) /\ CallInv(c)
      BY <3>1 DEF GatewayInv, GatewayTypeOK, Consistent
    <3>4. CallInv(c)'
      BY <3>3, KeptCall DEF RowsStep
    <3> QED BY <3>2, <3>4 DEF PathInv, AccessInv, ReplyInv, FoundInv, Decision
  <2> QED BY <2>1, <2>2
<1>4. ASSUME NEW o \in OrderId, orders'[o] # Null
      PROVE  \E m \in Call : Due(calls[m], o)'
  <2>1. CASE orders[o] = Null
    BY <1>1, <1>4, <2>1 DEF RowsStep, Due
  <2>2. CASE orders[o] # Null
    <3>1. PICK m \in Call : Due(calls[m], o)
      BY <2>2 DEF GatewayInv
    <3>2. calls'[m].row = calls[m].row /\ calls'[m].request = calls[m].request
      BY <1>1, <3>1, CodeFacts DEF Due, AskedFor
    <3> QED BY <2>2, <3>1, <3>2 DEF Due, AskedFor, RowsStep, Kept
  <2> QED BY <2>1, <2>2
<1> QED BY <1>2, <1>3, <1>4 DEF GatewayInv, RowsStep

\* Rows that do not change are kept.
LEMMA SameRows ==
    ASSUME GatewayInv, UNCHANGED orders, NEW o, NEW q
    PROVE  RowsStep(o, q)
BY DEF GatewayInv, GatewayTypeOK, Kept, RowsInv, RowsStep

-----------------------------------------------------------------------------
(* The gateway's steps *)

LEMMA Typing ==
    ASSUME GatewayInv, NEW n \in Call
    PROVE  calls[n] \in CallRecord /\ Consistent(calls[n]) /\ CallInv(calls[n])
BY DEF GatewayInv, GatewayTypeOK, Consistent

\* The gateway answers by itself.  Once the service may have the request, only
\* with 503 and 504, which say nothing.
LEMMA AnswerStep ==
    ASSUME GatewayInv, NEW n \in Call, NEW a \in Code \ {"409"},
           NEW u \in {"none", "sent", "upserted", "asking", "served", "lost"},
           calls[n].at \in {"counting", "waiting"},
           calls[n].at = "counting" \/ a \in {"503", "504"},
           u = calls[n].up \/ (calls[n].up \notin {"none", "served"} /\ u = "lost"),
           calls' = [calls EXCEPT ![n].at = "answered", ![n].answer = a, ![n].up = u],
           UNCHANGED orders
    PROVE  GatewayInv'
<1>1. PICK c \in CallRecord : c = calls[n] /\ Consistent(c) /\ CallInv(c)
  BY Typing
<1> DEFINE d == [c EXCEPT !.at = "answered", !.answer = a, !.up = u]
<1>2. d \in CallRecord
  BY DEF CallRecord
<1>3. calls' = [calls EXCEPT ![n] = d]
  BY <1>1 DEF GatewayInv, GatewayTypeOK, CallRecord
<1>4. Consistent(d)
  BY <1>1, CodeFacts DEF Consistent, CallRecord
<1>5. PathInv(d)
  BY <1>1, CodeFacts DEF PathInv, CallRecord, Consistent
<1>6. AccessInv(d) /\ ReplyInv(d)'
  BY <1>1 DEF AccessInv, ReplyInv, CallRecord
<1>7. FoundInv(d)'
  BY <1>1 DEF FoundInv, Decision, CallRecord
<1>8. RowsStep(d.row, d.request)
  BY SameRows
<1>9. d.row = c.row /\ d.request = c.request
  BY DEF CallRecord
<1> HIDE DEF d
<1> QED BY <1>1, <1>2, <1>3, <1>4, <1>5, <1>6, <1>7, <1>8, <1>9, OneCall
    DEF PathInv, AccessInv

LEMMA AnswerAlone ==
    ASSUME GatewayInv, NEW n \in Call, NEW a \in Code \ {"409"},
           calls[n].at = "counting" \/ (calls[n].at = "waiting" /\ a = "504"),
           Answer(n, a)
    PROVE  GatewayInv'
<1>1. PICK u \in {"none", "sent", "upserted", "asking", "served", "lost"} :
        u = calls[n].up
  BY Typing DEF CallRecord
<1>2. calls' = [calls EXCEPT ![n].at = "answered", ![n].answer = a, ![n].up = u]
  BY <1>1 DEF Answer, GatewayInv, GatewayTypeOK, CallRecord
<1> QED BY <1>1, <1>2, AnswerStep DEF Answer

LEMMA AtGuardAnswers ==
    ASSUME GatewayInv, NEW n \in Call,
           \/ \E a \in Code : Limited(n, a) \/ Login(n, a)
           \/ Unauthorized(n) \/ NoRoute(n) \/ Timeout(n)
    PROVE  GatewayInv'
<1>1. CASE \E a \in Code : Limited(n, a)
  BY <1>1, AnswerAlone DEF Limited, Code
<1>2. CASE \E a \in Code : Login(n, a)
  BY <1>2, AnswerAlone DEF Login, Authorized, Code
<1>3. CASE Unauthorized(n)
  BY <1>3, AnswerAlone DEF Unauthorized, Code
<1>4. CASE NoRoute(n)
  BY <1>4, AnswerAlone DEF NoRoute, Authorized, Code
<1>5. CASE Timeout(n)
  BY <1>5, AnswerAlone DEF Timeout, Code
<1> QED BY <1>1, <1>2, <1>3, <1>4, <1>5

LEMMA UnreachableStep ==
    ASSUME GatewayInv, NEW n \in Call, NEW u \in {"sent", "served", "lost"},
           Unreachable(n, u)
    PROVE  GatewayInv'
BY AnswerStep DEF Unreachable, UnderWay, Code

\* What is decided under the key of the request is so when it is made.
LEMMA ArriveStep ==
    ASSUME GatewayInv, NEW n \in Call, NEW q \in Request, Arrive(n, q)
    PROVE  GatewayInv'
<1>1. PICK c \in CallRecord : c = calls[n] /\ Consistent(c) /\ CallInv(c)
  BY Typing
<1>2. PICK s \in {"reserving", "placed", "failed", "other", Null} :
        /\ calls' = [calls EXCEPT ![n].request = q, ![n].at = "counting", ![n].found = s]
        /\ s # Null => \E o \in OrderId :
             /\ MadeBy(o, q.token, q.key)
             /\ s = IF orders[o].cart = q.cart THEN orders[o].state ELSE "other"
  <2>1. FoundFor(q) \subseteq {"reserving", "placed", "failed", "other"}
    BY DEF GatewayInv, GatewayTypeOK, FoundFor, Row
  <2>2. PICK s \in IF FoundFor(q) = {} THEN {Null} ELSE FoundFor(q) :
          calls' = [calls EXCEPT ![n].request = q, ![n].at = "counting", ![n].found = s]
    BY DEF Arrive
  <2>3. s # Null => s \in FoundFor(q)
    BY <2>2
  <2> QED BY <2>1, <2>2, <2>3 DEF FoundFor
<1> DEFINE d == [c EXCEPT !.request = q, !.at = "counting", !.found = s]
<1>3. d \in CallRecord
  BY DEF CallRecord
<1>4. calls' = [calls EXCEPT ![n] = d]
  BY <1>1, <1>2 DEF GatewayInv, GatewayTypeOK, CallRecord
<1>5. /\ c.at = "new" /\ c.up = "none" /\ c.user = Null
      /\ c.reply = Null /\ c.answer = Null /\ c.row = Null
  BY <1>1 DEF Arrive, Consistent, PathInv
<1>6. Consistent(d)
  BY <1>1, <1>5, NullAssumption DEF Consistent, CallRecord
<1>7. s # Null => q.endpoint = "createOrder"
  <2>1. ASSUME NEW o \in OrderId, orders[o] # Null PROVE orders[o].key # Null
    BY <2>1, GatewayAssumption DEF GatewayInv, GatewayTypeOK, Row
  <2> QED BY <1>2, <2>1, RequestFacts
<1>8. PathInv(d)
  BY <1>5, <1>7, CodeFacts DEF PathInv, CallRecord, Code
<1>9. AccessInv(d) /\ ReplyInv(d)'
  BY <1>1, <1>5, CodeFacts DEF AccessInv, ReplyInv, CallRecord, Code
<1>10. FoundInv(d)'
  <2>1. d.found = s /\ d.up = "none" /\ d.reply = Null /\ d.request = q
    BY <1>5 DEF CallRecord
  <2>2. s \in {"placed", "failed", "other"} => s # Null
    BY NullAssumption
  <2>3. ASSUME NEW o \in OrderId, orders[o] # Null PROVE orders[o].state # "other"
    BY <2>3 DEF GatewayInv, GatewayTypeOK, Row
  <2>4. UNCHANGED orders
    BY DEF Arrive
  <2> HIDE DEF d
  <2>5. s \in {"placed", "failed"} => Decision(d, s, TRUE)'
    BY <1>2, <2>1, <2>2, <2>4 DEF Decision
  <2>6. s = "other" => Decision(d, s, FALSE)'
    BY <1>2, <2>1, <2>2, <2>3, <2>4 DEF Decision
  <2> QED BY <2>1, <2>5, <2>6, CodeFacts DEF FoundInv, Code
<1>11. RowsStep(d.row, d.request)
  BY SameRows DEF Arrive
<1> HIDE DEF d
<1> QED BY <1>1, <1>3, <1>4, <1>5, <1>6, <1>8, <1>9, <1>10, <1>11, OneCall
    DEF PathInv, AccessInv

LEMMA ArriveHealthStep ==
    ASSUME GatewayInv, NEW n \in Call, NEW q \in Request, ArriveHealth(n, q)
    PROVE  GatewayInv'
<1>1. PICK c \in CallRecord : c = calls[n] /\ Consistent(c) /\ CallInv(c)
  BY Typing
<1> DEFINE d == [c EXCEPT !.request = q, !.at = "waiting", !.up = "sent"]
<1>2. d \in CallRecord
  BY DEF CallRecord
<1>3. calls' = [calls EXCEPT ![n] = d]
  BY <1>1 DEF ArriveHealth, GatewayInv, GatewayTypeOK, CallRecord
<1>4. /\ c.at = "new" /\ c.reply = Null /\ c.answer = Null /\ c.found = Null
      /\ c.up = "none" /\ c.row = Null
  BY <1>1 DEF ArriveHealth, Consistent, PathInv
<1>5. c.user = Null /\ q.token = Null
  BY <1>1, <1>4, RequestFacts DEF ArriveHealth, PathInv
<1>6. Consistent(d)
  BY <1>1, <1>4, NullAssumption DEF Consistent, CallRecord
<1>7. PathInv(d)
  BY <1>4, <1>5, NullAssumption, CodeFacts DEF PathInv, CallRecord, Code, ArriveHealth
<1>8. AccessInv(d) /\ ReplyInv(d)' /\ FoundInv(d)'
  BY <1>1, <1>4, NullAssumption, CodeFacts
  DEF AccessInv, ReplyInv, FoundInv, CallRecord, Code
<1>9. RowsStep(d.row, d.request)
  BY SameRows DEF ArriveHealth
<1> HIDE DEF d
<1> QED BY <1>1, <1>2, <1>3, <1>4, <1>6, <1>7, <1>8, <1>9, OneCall DEF PathInv, AccessInv

LEMMA ForwardStep ==
    ASSUME GatewayInv, NEW n \in Call, Forward(n)
    PROVE  GatewayInv'
<1>1. PICK c \in CallRecord : c = calls[n] /\ Consistent(c) /\ CallInv(c)
  BY Typing
<1> DEFINE d == [c EXCEPT !.at = "waiting", !.up = "sent", !.user = c.request.token]
<1>2. /\ c.at = "counting" /\ c.up = "none" /\ c.reply = Null /\ c.answer = Null
      /\ c.row = Null
  BY <1>1 DEF Forward, Authorized, Consistent, PathInv
<1>3. c.request \in Request
  BY <1>1, <1>2 DEF Consistent, CallRecord
<1>4. d \in CallRecord
  BY <1>3, RequestFacts DEF CallRecord
<1>5. calls' = [calls EXCEPT ![n] = d]
  BY <1>1 DEF Forward, GatewayInv, GatewayTypeOK, CallRecord
<1>6. Consistent(d)
  BY <1>1, <1>2 DEF Consistent, CallRecord
<1>7. PathInv(d)
  BY <1>1, <1>2, <1>3, NullAssumption, CodeFacts DEF PathInv, CallRecord, Code
<1>8. AccessInv(d) /\ ReplyInv(d)'
  BY <1>1, <1>2, CodeFacts DEF AccessInv, ReplyInv, CallRecord, Code
<1>9. FoundInv(d)'
  BY <1>1, <1>2, CodeFacts DEF FoundInv, Decision, CallRecord, Code, Forward
<1>10. RowsStep(d.row, d.request)
  BY SameRows DEF Forward
<1> HIDE DEF d
<1> QED BY <1>1, <1>2, <1>4, <1>5, <1>6, <1>7, <1>8, <1>9, <1>10, OneCall
    DEF PathInv, AccessInv

\* The client gets the reply of the service, and only then a final one.
LEMMA ReturnStep ==
    ASSUME GatewayInv, NEW n \in Call, Return(n)
    PROVE  GatewayInv'
<1>1. PICK c \in CallRecord : c = calls[n] /\ Consistent(c) /\ CallInv(c)
  BY Typing
<1> DEFINE d == [c EXCEPT !.at = "answered", !.answer = c.reply]
<1>2. d \in CallRecord /\ d.row = c.row /\ d.request = c.request
  BY DEF CallRecord
<1>3. calls' = [calls EXCEPT ![n] = d]
  BY <1>1 DEF Return, Answer, GatewayInv, GatewayTypeOK, CallRecord
<1>4. c.at = "waiting" /\ c.up = "served" /\ c.reply # Null
  BY <1>1 DEF Return, Consistent
<1>5. Consistent(d)
  BY <1>1, <1>4 DEF Consistent, CallRecord
<1>6. PathInv(d) /\ AccessInv(d)
  BY <1>1, <1>4 DEF PathInv, AccessInv, CallRecord
<1>7. ReplyInv(d)' /\ FoundInv(d)'
  BY <1>1 DEF ReplyInv, FoundInv, Decision, CallRecord, Return, Answer
<1>8. RowsStep(d.row, d.request)
  BY SameRows DEF Return, Answer
<1> HIDE DEF d
<1> QED BY <1>1, <1>2, <1>3, <1>5, <1>6, <1>7, <1>8, OneCall DEF PathInv, AccessInv

-----------------------------------------------------------------------------
(* The services' steps *)

\* A service replies to a request, and changes no order.
LEMMA ReplyStep ==
    ASSUME GatewayInv, NEW n \in Call, NEW r \in Code, NEW who \in SUBSET Account,
           calls[n].up \in {"sent", "upserted", "asking"},
           Reply(n, r, who), UNCHANGED orders,
           calls[n].up # "sent" => r = "503",
           calls[n].user \in Admin \/ who \subseteq {calls[n].user},
           r = "ok" /\ calls[n].request.endpoint \in OfAdmin => calls[n].user \in Admin,
           r = "ok" => calls[n].request.endpoint \in {"health", "docs", "menu"}
                         \/ calls[n].user # Null,
           r = "409" => calls[n].request.endpoint # "createOrder"
    PROVE  GatewayInv'
<1>1. PICK c \in CallRecord : c = calls[n] /\ Consistent(c) /\ CallInv(c)
  BY Typing
<1> DEFINE d == [c EXCEPT !.up = "served", !.reply = r, !.shown = who]
<1>2. /\ d \in CallRecord /\ d.row = c.row /\ d.request = c.request /\ d.found = c.found
      /\ d.up = "served" /\ d.reply = r /\ d.shown = who
      /\ d.at = c.at /\ d.answer = c.answer /\ d.user = c.user
  BY DEF CallRecord
<1>3. calls' = [calls EXCEPT ![n] = d]
  BY <1>1 DEF Reply, GatewayInv, GatewayTypeOK, CallRecord
<1>4. /\ c.reply = Null /\ c.user = c.request.token /\ r \notin OrderId
      /\ c.row # Null => r = "503"
  BY <1>1, CodeFacts DEF Consistent, PathInv
<1>5. c.answer \notin {"400", "401", "403", "404", "409", "429"} \cup OrderId
  BY <1>1, <1>4, CodeFacts DEF PathInv
<1> HIDE DEF d
<1>6. Consistent(d)
  BY <1>1, <1>2, <1>4, CodeFacts DEF Consistent
<1>7. PathInv(d)
  BY <1>1, <1>2, <1>4, <1>5 DEF PathInv
<1>8. AccessInv(d)
  BY <1>1, <1>2, <1>4 DEF AccessInv
<1>9. ReplyInv(d)'
  BY <1>1, <1>2, <1>4 DEF ReplyInv
<1>10. c.found # Null => r # "409"
  BY <1>1 DEF PathInv
<1>11. FoundInv(d)'
  BY <1>1, <1>2, <1>4, <1>10, NullAssumption DEF FoundInv, Decision
<1>12. RowsStep(d.row, d.request)
  BY SameRows
<1> QED BY <1>1, <1>2, <1>3, <1>6, <1>7, <1>8, <1>9, <1>11, <1>12, OneCall
    DEF PathInv, AccessInv

LEMMA ServeReplies ==
    ASSUME GatewayInv, NEW n \in Call,
           \/ Distrust(n) \/ RefuseMalformed(n) \/ Interrupted(n)
           \/ \E r \in Code :
               \/ ServeUnguarded(n, r) \/ ServeMenu(n, r) \/ ServeAdmin(n, r)
               \/ ServeRead(n, r)
               \/ \E who \in SUBSET Account : ServeList(n, r, who)
    PROVE  GatewayInv'
<1>1. CASE Distrust(n)
  BY <1>1, ReplyStep DEF Distrust, Code
<1>2. CASE RefuseMalformed(n)
  BY <1>2, ReplyStep DEF RefuseMalformed, Trusted, Code
<1>3. CASE Interrupted(n)
  BY <1>3, ReplyStep DEF Interrupted, Checkout, Trusted, Code
<1>4. ASSUME NEW r \in Code, ServeUnguarded(n, r) PROVE GatewayInv'
  BY <1>4, ReplyStep DEF ServeUnguarded, OfAdmin
<1>5. ASSUME NEW r \in Code, ServeMenu(n, r) PROVE GatewayInv'
  BY <1>5, ReplyStep DEF ServeMenu, Trusted, OfAdmin
<1>6. ASSUME NEW r \in Code, ServeAdmin(n, r) PROVE GatewayInv'
  BY <1>6, ReplyStep, GatewayAssumption DEF ServeAdmin, Trusted, OfAdmin
<1>7. ASSUME NEW r \in Code, NEW who \in SUBSET Account, ServeList(n, r, who)
      PROVE  GatewayInv'
  <2>1. r = "ok" /\ calls[n].user \notin Admin => who \subseteq {calls[n].user}
    BY <1>7 DEF ServeList, Visible
  <2>2. r # "ok" => who = {}
    BY <1>7 DEF ServeList
  <2> QED BY <1>7, <2>1, <2>2, ReplyStep DEF ServeList, Trusted, OfAdmin, Code
<1>8. ASSUME NEW r \in Code, ServeRead(n, r) PROVE GatewayInv'
  <2>1. PICK o \in OrderId : o = calls[n].request.order
    <3>1. calls[n].request \in Request
      BY <1>8, Typing DEF ServeRead, Trusted, PathInv, CallRecord
    <3> QED BY <1>8, <3>1, RequestFacts DEF ServeRead
  <2>2. CASE r = "ok"
    <3>1. /\ Visible(n, o)
          /\ calls[n].request.endpoint = "readOrder" => calls[n].user # Null
      BY <1>8, <2>1, <2>2 DEF ServeRead
    <3>2. orders[o].user \in Account
      BY <3>1 DEF Visible, GatewayInv, GatewayTypeOK, Row
    <3>3. calls[n].user # Null
      BY <3>1, <3>2, GatewayAssumption DEF Visible
    <3> QED
      BY <1>8, <2>1, <2>2, <3>1, <3>2, <3>3, ReplyStep
      DEF ServeRead, Visible, Trusted, OfAdmin, OfOneOrder
  <2>3. CASE r # "ok"
    BY <1>8, <2>3, ReplyStep DEF ServeRead, Trusted, OfOneOrder
  <2> QED BY <2>2, <2>3
<1> QED BY <1>1, <1>2, <1>3, <1>4, <1>5, <1>6, <1>7, <1>8

\* The update that decides an order changes that one only, and only its state.
LEMMA DecidedRows ==
    ASSUME GatewayInv, NEW o \in OrderId, orders[o] # Null,
           NEW s \in {"placed", "failed"}, Decided(o, s), NEW q
    PROVE  /\ RowsStep(o, q)
           /\ orders'[o] # Null
           /\ orders'[o].user = orders[o].user /\ orders'[o].key = orders[o].key
           /\ orders'[o].cart = orders[o].cart
           /\ orders'[o].state # "reserving"
<1>1. orders \in [OrderId -> Row \cup {Null}] /\ orders[o] \in Row
  BY DEF GatewayInv, GatewayTypeOK
<1>2. PICK w \in Row :
        /\ orders' = [orders EXCEPT ![o] = w]
        /\ w.user = orders[o].user /\ w.key = orders[o].key /\ w.cart = orders[o].cart
        /\ w.state # "reserving"
        /\ orders[o].state # "reserving" => w = orders[o]
  <2>1. CASE orders[o].state = "reserving"
    <3> DEFINE w == [orders[o] EXCEPT !.state = s]
    <3>1. /\ w \in Row /\ w.state = s
          /\ w.user = orders[o].user /\ w.key = orders[o].key /\ w.cart = orders[o].cart
      BY <1>1 DEF Row
    <3>2. orders' = [orders EXCEPT ![o] = w]
      BY <1>1, <2>1 DEF Decided, Row
    <3> HIDE DEF w
    <3> QED BY <2>1, <3>1, <3>2
  <2>2. CASE orders[o].state # "reserving"
    BY <1>1, <2>2 DEF Decided
  <2> QED BY <2>1, <2>2
<1>3. w # Null
  BY NullAssumption
<1>4. Kept
  BY <1>1, <1>2, <1>3 DEF Kept
<1>5. RowsInv'
  BY <1>1, <1>2, <1>3 DEF RowsInv, GatewayInv
<1>6. ASSUME NEW p \in OrderId, orders[p] = Null PROVE orders'[p] = Null
  BY <1>1, <1>2, <1>6
<1> QED BY <1>1, <1>2, <1>3, <1>4, <1>5, <1>6 DEF RowsStep

\* A new row under a key that has none
LEMMA NewRow ==
    ASSUME GatewayInv, NEW o \in OrderId, orders[o] = Null, NEW w \in Row,
           \A p \in OrderId : orders[p] # Null =>
               orders[p].user # w.user \/ orders[p].key # w.key,
           orders' = [orders EXCEPT ![o] = w], NEW q, AskedFor(q, o)'
    PROVE  RowsStep(o, q)
<1>1. orders \in [OrderId -> Row \cup {Null}] /\ RowsInv
  BY DEF GatewayInv, GatewayTypeOK
<1>2. Kept
  BY <1>1 DEF Kept
<1>3. RowsInv'
  BY <1>1 DEF RowsInv
<1>4. ASSUME NEW p \in OrderId, orders[p] = Null, orders'[p] # Null PROVE p = o
  BY <1>1, <1>4
<1> QED BY <1>1, <1>2, <1>3, <1>4 DEF RowsStep

LEMMA RecoverStep ==
    ASSUME GatewayInv, NEW o \in OrderId, NEW s \in {"placed", "failed"}, Recover(o, s)
    PROVE  GatewayInv'
<1>1. Kept /\ orders' \in [OrderId -> Row \cup {Null}] /\ RowsInv'
  BY DecidedRows DEF Recover, RowsStep
<1>2. ASSUME NEW n \in Call PROVE CallInv(calls[n])'
  <2>1. PICK c \in CallRecord : c = calls[n] /\ Consistent(c) /\ CallInv(c)
    BY Typing
  <2>2. CallInv(c)'
    BY <1>1, <2>1, KeptCall
  <2>3. calls'[n] = c
    BY <2>1 DEF Recover
  <2> QED BY <2>2, <2>3 DEF PathInv, AccessInv, ReplyInv, FoundInv, Decision
<1>3. ASSUME NEW p \in OrderId, orders'[p] # Null
      PROVE  \E n \in Call : Due(calls[n], p)'
  <2>1. orders[p] # Null
    BY <1>3 DEF Recover, Decided, GatewayInv, GatewayTypeOK
  <2>2. PICK n \in Call : Due(calls[n], p)
    BY <2>1 DEF GatewayInv
  <2> QED BY <1>1, <2>1, <2>2 DEF Due, AskedFor, Kept, Recover
<1> QED BY <1>1, <1>2, <1>3 DEF Recover, GatewayInv, GatewayTypeOK

-----------------------------------------------------------------------------
(* The steps of a checkout *)

LEMMA RowRecord ==
    ASSUME NEW c \in CallRecord, NEW o \in OrderId, NEW u \in {"upserted", "asking"}
    PROVE  [c EXCEPT !.row = o, !.up = u] \in CallRecord
BY DEF CallRecord

\* The checkout goes on to its next await, not past a decision it found.
LEMMA CheckoutGoesOn ==
    ASSUME GatewayInv, NEW n \in Call, NEW c \in CallRecord, c = calls[n],
           c.request.endpoint = "createOrder", c.up \in {"sent", "upserted", "asking"},
           NEW o \in OrderId, c.row \in {Null, o},
           NEW u \in {"upserted", "asking"},
           calls' = [calls EXCEPT ![n] = [c EXCEPT !.row = o, !.up = u]],
           RowsStep(o, c.request),
           Under(c, o)', orders'[o].cart = c.request.cart,
           c.found = "placed" => u # "asking", c.found \notin {"failed", "other"}
    PROVE  GatewayInv'
<1>1. Consistent(c) /\ CallInv(c) /\ c.reply = Null
  BY Typing DEF Consistent
<1> DEFINE d == [c EXCEPT !.row = o, !.up = u]
<1>2. d \in CallRecord
  BY RowRecord
<1>3. /\ d.at = c.at /\ d.user = c.user /\ d.answer = c.answer /\ d.shown = c.shown
      /\ d.up = u /\ d.reply = Null /\ d.row = o
      /\ d.request = c.request /\ d.found = c.found
      /\ calls' = [calls EXCEPT ![n] = d]
  BY <1>1 DEF CallRecord
<1> HIDE DEF d
<1>4. Consistent(d)
  BY <1>1, <1>3 DEF Consistent
<1>5. PathInv(d) /\ AccessInv(d)
  BY <1>1, <1>3, CodeFacts DEF PathInv, AccessInv, Code
<1>6. ReplyInv(d)'
  BY <1>3, CodeFacts DEF ReplyInv, Code
<1>7. FoundInv(c)'
  BY <1>1, KeptCall DEF RowsStep
<1>8. FoundInv(d)'
  BY <1>3, <1>7, CodeFacts DEF FoundInv, Decision, Code
<1> QED BY <1>2, <1>3, <1>4, <1>5, <1>6, <1>8, OneCall DEF PathInv, AccessInv

\* The record c when its checkout is replied to
Ended(c, o, r) ==
    [c EXCEPT !.row = o, !.up = "served", !.reply = r,
              !.shown = IF r = "409" THEN {} ELSE {c.user}]

\* The checkout ends with a reply that is so of the rows after it.
LEMMA CheckoutReplies ==
    ASSUME GatewayInv, NEW n \in Call, NEW c \in CallRecord, c = calls[n],
           c.request.endpoint = "createOrder", c.user \in Account,
           c.up \in {"sent", "upserted", "asking"},
           NEW o \in OrderId, c.row \in {Null, o},
           NEW r \in Code \cup OrderId, r = "409" \/ r = o,
           calls' = [calls EXCEPT ![n] = Ended(c, o, r)],
           RowsStep(o, c.request),
           Under(c, o)',
           r = o => orders'[o].cart = c.request.cart /\ orders'[o].state # "reserving",
           r = "409" => orders'[o].cart # c.request.cart \/ orders'[o].state # "reserving",
           c.found = "placed" => r # "409",
           c.found \in {"failed", "other"} => r # o
    PROVE  GatewayInv'
<1>1. Consistent(c) /\ CallInv(c) /\ c.reply = Null /\ c.user = c.request.token
  BY Typing DEF Consistent, PathInv
<1>2. "409" \in Code /\ "409" \notin OrderId /\ r \in Code \cup OrderId /\ r # Null
      /\ r \notin {"ok", "400", "401", "403", "404", "429"}
  BY CodeFacts DEF Code
<1> DEFINE d == Ended(c, o, r)
<1>3. /\ d \in CallRecord /\ d.up = "served" /\ d.reply = r /\ d.row = o
      /\ d.shown \subseteq {c.user}
      /\ d.request = c.request /\ d.found = c.found
      /\ d.at = c.at /\ d.answer = c.answer /\ d.user = c.user
  <2>1. PICK who \in SUBSET Account :
          who \subseteq {c.user} /\ who = IF r = "409" THEN {} ELSE {c.user}
    OBVIOUS
  <2>2. d = [c EXCEPT !.row = o, !.up = "served", !.reply = r, !.shown = who]
    BY <2>1 DEF Ended
  <2> QED BY <1>2, <2>1, <2>2 DEF CallRecord
<1>4. calls' = [calls EXCEPT ![n] = d]
  OBVIOUS
<1> HIDE DEF d
<1>5. Consistent(d)
  BY <1>1, <1>2, <1>3 DEF Consistent
<1>6. c.answer \notin {"400", "401", "403", "404", "409", "429"} \cup OrderId
  BY <1>1, CodeFacts DEF PathInv
<1>7. PathInv(d)
  BY <1>1, <1>2, <1>3, <1>6, CodeFacts DEF PathInv
<1>8. AccessInv(d)
  BY <1>1, <1>2, <1>3, GatewayAssumption DEF AccessInv
<1>9. ReplyInv(d)'
  BY <1>2, <1>3, CodeFacts DEF ReplyInv
<1>10. FoundInv(c)'
  BY <1>1, KeptCall DEF RowsStep
<1>11. FoundInv(d)'
  BY <1>2, <1>3, <1>10 DEF FoundInv, Decision
<1> QED BY <1>3, <1>4, <1>5, <1>7, <1>8, <1>9, <1>11, OneCall DEF PathInv, AccessInv

\* The order a checkout works on is the one that was found, if any was.
LEMMA FoundRow ==
    ASSUME GatewayInv, NEW c \in CallRecord, CallInv(c), NEW o \in OrderId, Under(c, o)
    PROVE  /\ c.found \in {"placed", "failed"} =>
                orders[o].state = c.found /\ orders[o].cart = c.request.cart
           /\ c.found = "other" => orders[o].cart # c.request.cart
<1>1. \A p \in OrderId : Under(c, p) => p = o
  BY DEF GatewayInv, RowsInv
<1> QED BY <1>1 DEF FoundInv, Decision

\* A checkout at the service is one of an account.
LEMMA CheckoutFacts ==
    ASSUME GatewayInv, NEW n \in Call, NEW c \in CallRecord, c = calls[n],
           Checkout(n) \/ c.up \in {"upserted", "asking"}
    PROVE  /\ c.request \in Request /\ c.request.endpoint = "createOrder"
           /\ c.user = c.request.token /\ c.user \in Account /\ c.reply = Null
           /\ c.up \in {"sent", "upserted", "asking"}
           /\ c.up = "sent" <=> c.row = Null
<1>1. Consistent(c) /\ CallInv(c)
  BY Typing
<1>2. c.up \in {"sent", "upserted", "asking"}
  BY DEF Checkout, Trusted
<1>3. /\ c.request \in Request /\ c.user = c.request.token /\ c.reply = Null
      /\ c.up = "sent" <=> c.row = Null
  BY <1>1, <1>2 DEF PathInv, Consistent, CallRecord
<1>4. CASE c.row = Null
  BY <1>2, <1>3, <1>4 DEF Checkout, Trusted, CallRecord
<1>5. CASE c.row # Null
  <2>1. c.row \in OrderId /\ orders[c.row] # Null /\ orders[c.row].user = c.user
    BY <1>1, <1>3, <1>5 DEF ReplyInv, CallRecord
  <2>2. orders[c.row].user \in Account
    BY <2>1 DEF GatewayInv, GatewayTypeOK, Row
  <2> QED BY <1>1, <1>2, <1>3, <1>5, <2>1, <2>2 DEF PathInv
<1> QED BY <1>4, <1>5

LEMMA UpsertStep ==
    ASSUME GatewayInv, NEW n \in Call, NEW o \in OrderId, Upsert(n, o)
    PROVE  GatewayInv'
<1>1. PICK c \in CallRecord : c = calls[n] /\ Consistent(c) /\ CallInv(c)
  BY Typing
<1>2. /\ c.up = "sent" /\ c.reply = Null /\ c.row = Null /\ c.request \in Request
      /\ c.request.endpoint = "createOrder" /\ c.request.key # Null
      /\ c.user \in Account /\ c.user = c.request.token
  BY <1>1, CheckoutFacts DEF Upsert, Checkout, Trusted
<1>3. ASSUME NEW p \in OrderId PROVE UnderKey(n, p) <=> Under(c, p)
  BY <1>1, <1>2 DEF UnderKey
<1>4. CASE \E p \in OrderId : UnderKey(n, p)
  <2>1. Under(c, o) /\ UNCHANGED orders
    BY <1>3, <1>4 DEF Upsert
  <2>2. Under(c, o)'
    BY <2>1
  <2>3. RowsStep(o, c.request)
    BY <2>1, SameRows
  <2>4. CASE orders[o].cart # c.request.cart \/ orders[o].state = "failed"
    <3>1. calls' = [calls EXCEPT ![n] = Ended(c, o, "409")]
      <4>1. c.shown = {}
        BY <1>1, <1>2 DEF AccessInv
      <4>2. calls' = [calls EXCEPT ![n] = [c EXCEPT !.row = o, !.up = "served",
                                                    !.reply = "409"]]
        BY <1>1, <2>1, <2>4 DEF Upsert, GatewayInv, GatewayTypeOK
      <4>3. [c EXCEPT !.row = o, !.up = "served", !.reply = "409"] =
              Ended(c, o, "409")
        BY <4>1 DEF CallRecord, Ended
      <4> QED BY <4>2, <4>3
    <3>2. c.found # "placed"
      BY <1>1, <2>1, <2>4, FoundRow
    <3>3. "409" \in Code /\ "409" \notin OrderId
      BY CodeFacts DEF Code
    <3>4. o # "409" /\ (orders'[o].cart # c.request.cart \/ orders'[o].state # "reserving")
      BY <2>1, <2>4, CodeFacts DEF Code
    <3> QED BY <1>1, <1>2, <2>2, <2>3, <3>1, <3>2, <3>3, <3>4, CheckoutReplies
  <2>5. CASE orders[o].cart = c.request.cart /\ orders[o].state # "failed"
    <3>1. calls' = [calls EXCEPT ![n] = [c EXCEPT !.row = o, !.up = "upserted"]]
      BY <1>1, <2>1, <2>5 DEF Upsert, GatewayInv, GatewayTypeOK
    <3>2. c.found \notin {"failed", "other"}
      BY <1>1, <2>1, <2>5, FoundRow
    <3>3. orders'[o].cart = c.request.cart
      BY <2>1, <2>5
    <3> QED BY <1>1, <1>2, <2>2, <2>3, <3>1, <3>2, <3>3, CheckoutGoesOn
  <2> QED BY <2>4, <2>5
<1>5. CASE ~ \E p \in OrderId : UnderKey(n, p)
  <2>1. c.request.key \in RequestKey /\ c.request.cart \in Cart
    BY <1>2, RequestFacts
  <2>2. PICK w \in Row : w = [user |-> c.user, key |-> c.request.key,
                              cart |-> c.request.cart, state |-> "reserving"]
    BY <1>2, <2>1 DEF Row
  <2>3. orders[o] = Null /\ orders' = [orders EXCEPT ![o] = w]
    BY <1>1, <1>5, <2>2 DEF Upsert
  <2>4. ASSUME NEW p \in OrderId, orders[p] # Null
        PROVE  orders[p].user # w.user \/ orders[p].key # w.key
    BY <1>2, <1>3, <1>5, <2>2, <2>4
  <2>5. orders'[o] = w /\ w # Null
    BY <2>3, NullAssumption DEF GatewayInv, GatewayTypeOK
  <2>6. /\ Under(c, o)' /\ orders'[o].cart = c.request.cart
        /\ orders'[o].state = "reserving"
    BY <1>2, <2>2, <2>5
  <2>7. RowsStep(o, c.request)
    <3>1. AskedFor(c.request, o)'
      BY <1>2, <2>6 DEF AskedFor
    <3> QED BY <2>3, <2>4, <3>1, NewRow
  <2>8. calls' = [calls EXCEPT ![n] = [c EXCEPT !.row = o, !.up = "upserted"]]
    BY <1>1, <2>6 DEF Upsert, GatewayInv, GatewayTypeOK
  <2>9. c.found \notin {"placed", "failed", "other"}
    BY <1>1, <1>3, <1>5 DEF FoundInv, Decision
  <2> QED BY <1>1, <1>2, <2>6, <2>7, <2>8, <2>9, CheckoutGoesOn
<1> QED BY <1>4, <1>5

LEMMA FinishReadStep ==
    ASSUME GatewayInv, NEW n \in Call, NEW o \in OrderId, FinishRead(n, o)
    PROVE  GatewayInv'
<1>1. PICK c \in CallRecord : c = calls[n] /\ Consistent(c) /\ CallInv(c)
  BY Typing
<1>2. /\ c.up = "upserted" /\ c.row = o /\ c.request.endpoint = "createOrder"
      /\ c.user \in Account /\ c.user = c.request.token
  BY <1>1, CheckoutFacts DEF FinishRead
<1>3. /\ UNCHANGED orders /\ Under(c, o) /\ Under(c, o)'
      /\ orders[o].cart = c.request.cart /\ orders'[o].cart = c.request.cart
      /\ o # "409"
  BY <1>1, <1>2, CodeFacts DEF FinishRead, ReplyInv, Code
<1>4. RowsStep(o, c.request)
  BY <1>3, SameRows
<1>5. c.found \notin {"failed", "other"}
  BY <1>1, <1>2 DEF FoundInv
<1>6. CASE orders[o].state = "reserving"
  <2>1. calls' = [calls EXCEPT ![n] = [c EXCEPT !.row = o, !.up = "asking"]]
    <3>1. calls' = [calls EXCEPT ![n] = [c EXCEPT !.up = "asking"]]
      BY <1>1, <1>6 DEF FinishRead, GatewayInv, GatewayTypeOK
    <3>2. [c EXCEPT !.up = "asking"] = [c EXCEPT !.row = o, !.up = "asking"]
      BY <1>2 DEF CallRecord
    <3> QED BY <3>1, <3>2
  <2>2. c.found # "placed"
    BY <1>1, <1>3, <1>6, FoundRow
  <2> QED BY <1>1, <1>2, <1>3, <1>4, <1>5, <2>1, <2>2, CheckoutGoesOn
<1>7. CASE orders[o].state # "reserving"
  <2>1. calls' = [calls EXCEPT ![n] = Ended(c, o, o)]
    <3>1. calls' = [calls EXCEPT ![n] = [c EXCEPT !.up = "served", !.reply = o,
                                                  !.shown = {c.user}]]
      <4>1. orders[o].user = c.user
        BY <1>2, <1>3
      <4> QED BY <1>1, <1>7, <4>1 DEF FinishRead, Reply, GatewayInv, GatewayTypeOK
    <3>2. [c EXCEPT !.up = "served", !.reply = o, !.shown = {c.user}] = Ended(c, o, o)
      BY <1>2, <1>3, CodeFacts DEF Ended, CallRecord
    <3> QED BY <3>1, <3>2
  <2>2. orders'[o].state # "reserving"
    BY <1>3, <1>7
  <2> QED BY <1>1, <1>2, <1>3, <1>4, <1>5, <2>1, <2>2, CheckoutReplies
<1> QED BY <1>6, <1>7

LEMMA FinishStep ==
    ASSUME GatewayInv, NEW n \in Call, NEW o \in OrderId, Finish(n, o)
    PROVE  GatewayInv'
<1>1. PICK c \in CallRecord : c = calls[n] /\ Consistent(c) /\ CallInv(c)
  BY Typing
<1>2. /\ c.up = "asking" /\ c.row = o /\ c.request.endpoint = "createOrder"
      /\ c.user \in Account /\ c.user = c.request.token
  BY <1>1, CheckoutFacts DEF Finish
<1>3. Under(c, o) /\ orders[o].cart = c.request.cart /\ o # "409"
  BY <1>1, <1>2, CodeFacts DEF ReplyInv, Code
<1>4. c.found \notin {"placed", "failed", "other"}
  BY <1>1, <1>2 DEF FoundInv
<1>5. ASSUME NEW s \in {"placed", "failed"}, Decided(o, s)
      PROVE  /\ RowsStep(o, c.request)
             /\ Under(c, o)' /\ orders'[o].state # "reserving"
             /\ orders'[o].cart = c.request.cart
  <2>1. orders[o] # Null
    BY <1>3
  <2> QED BY <1>3, <1>5, <2>1, DecidedRows
<1>6. CASE Decided(o, "placed") /\ Reply(n, o, {orders[o].user})
  <2>1. calls' = [calls EXCEPT ![n] = Ended(c, o, o)]
    <3>1. calls' = [calls EXCEPT ![n] = [c EXCEPT !.up = "served", !.reply = o,
                                                  !.shown = {c.user}]]
      BY <1>1, <1>2, <1>3, <1>6 DEF Reply, GatewayInv, GatewayTypeOK
    <3>2. [c EXCEPT !.up = "served", !.reply = o, !.shown = {c.user}] = Ended(c, o, o)
      BY <1>2, <1>3, CodeFacts DEF Ended, CallRecord
    <3> QED BY <3>1, <3>2
  <2> QED BY <1>1, <1>2, <1>3, <1>4, <1>5, <1>6, <2>1, CheckoutReplies
<1>7. CASE Decided(o, "failed") /\ Reply(n, "409", {})
  <2>1. calls' = [calls EXCEPT ![n] = Ended(c, o, "409")]
    <3>1. calls' = [calls EXCEPT ![n] = [c EXCEPT !.up = "served", !.reply = "409",
                                                  !.shown = {}]]
      BY <1>1, <1>2, <1>7 DEF Reply, GatewayInv, GatewayTypeOK
    <3>2. [c EXCEPT !.up = "served", !.reply = "409", !.shown = {}] = Ended(c, o, "409")
      BY <1>2 DEF Ended, CallRecord
    <3> QED BY <3>1, <3>2
  <2>2. "409" \in Code /\ "409" \notin OrderId
    BY CodeFacts DEF Code
  <2> QED BY <1>1, <1>2, <1>3, <1>4, <1>5, <1>7, <2>1, <2>2, CheckoutReplies
<1> QED BY <1>6, <1>7 DEF Finish

-----------------------------------------------------------------------------
(* The theorems *)

LEMMA InitInv == GatewayInit => GatewayInv
<1> SUFFICES ASSUME GatewayInit PROVE GatewayInv
  OBVIOUS
<1>1. NewCall \in CallRecord
  BY DEF NewCall, CallRecord
<1>2. GatewayTypeOK
  BY <1>1 DEF GatewayInit, GatewayTypeOK, NewCall
<1>3. RowsInv
  BY DEF GatewayInit, RowsInv
<1>4. ASSUME NEW n \in Call PROVE CallInv(calls[n])
  <2>1. calls[n] = NewCall
    BY DEF GatewayInit
  <2>2. CallInv(NewCall)
    BY CodeFacts, NullAssumption
    DEF NewCall, PathInv, AccessInv, ReplyInv, FoundInv, Code
  <2> QED BY <2>1, <2>2
<1>5. \A o \in OrderId : orders[o] = Null
  BY DEF GatewayInit
<1> QED BY <1>2, <1>3, <1>4, <1>5 DEF GatewayInv

LEMMA StepInv == GatewayInv /\ [GatewayNext]_gatewayVars => GatewayInv'
<1> SUFFICES ASSUME GatewayInv, [GatewayNext]_gatewayVars PROVE GatewayInv'
  OBVIOUS
<1>1. CASE \E n \in Call : \E q \in Asked[n] : Arrive(n, q) \/ ArriveHealth(n, q)
  BY <1>1, AskedAssumption, ArriveStep, ArriveHealthStep
<1>2. CASE \E n \in Call : AtGuard(n)
  BY <1>2, AtGuardAnswers, ForwardStep DEF AtGuard
<1>3. CASE \E n \in Call : Serve(n)
  BY <1>3, ServeReplies, UpsertStep, FinishReadStep, FinishStep DEF Serve
<1>4. CASE \E n \in Call : Return(n) \/ Timeout(n)
  BY <1>4, ReturnStep, AtGuardAnswers
<1>5. CASE \E n \in Call, u \in {"sent", "served", "lost"} : Unreachable(n, u)
  BY <1>5, UnreachableStep
<1>6. CASE \E o \in OrderId, s \in {"placed", "failed"} : Recover(o, s)
  BY <1>6, RecoverStep
<1>7. CASE UNCHANGED gatewayVars
  BY <1>7 DEF gatewayVars, GatewayInv, GatewayTypeOK, RowsInv, Due, AskedFor, PathInv, AccessInv,
              ReplyInv, FoundInv, Decision
<1> QED BY <1>1, <1>2, <1>3, <1>4, <1>5, <1>6, <1>7 DEF GatewayNext

\* The inductive invariant holds of every run.
THEOREM GatewayInvariance == GatewaySpec => []GatewayInv
BY InitInv, StepInv, PTL DEF GatewaySpec

\* A request is answered when it is marked so, and replied to when it is served.
THEOREM GatewayTypeCorrect == GatewaySpec => []GatewayTypeOK
<1>1. GatewayInv => GatewayTypeOK
  BY DEF GatewayInv
<1> QED BY <1>1, GatewayInvariance, PTL

\* However requests, recoveries and lost answers interleave, administrators'
\* operations are done for administrators only, what is not public for holders of
\* a token only, everybody else sees what is her own, and every order is due to a
\* checkout of its owner for its cart under its key.
THEOREM AccessIsControlled == GatewaySpec => []AccessControlled
<1>1. ASSUME GatewayInv, NEW n \in Call, calls[n].reply \in {"ok"} \cup OrderId
      PROVE  LET q == calls[n].request IN
             /\ q.endpoint \in OfAdmin => q.token \in Admin
             /\ q.endpoint \notin {"health", "docs", "menu"} => q.token # Null
             /\ q.token \in Admin \/ calls[n].shown \subseteq {q.token}
  <2>1. PICK c \in CallRecord : c = calls[n] /\ Consistent(c) /\ CallInv(c)
    BY <1>1, Typing
  <2>2. c.up = "served"
    BY <1>1, <2>1, CodeFacts DEF Consistent, Code
  <2>3. c.reply \in OrderId => c.request.endpoint = "createOrder"
    BY <2>1, CodeFacts DEF PathInv
  <2> QED BY <1>1, <2>1, <2>2, <2>3 DEF AccessInv, OfAdmin
<1>2. ASSUME GatewayInv, NEW o \in OrderId, orders[o] # Null
      PROVE  \E n \in Call :
                /\ calls[n].row = o
                /\ calls[n].request.endpoint = "createOrder"
                /\ calls[n].request.token = orders[o].user
                /\ calls[n].request.key = orders[o].key
                /\ calls[n].request.cart = orders[o].cart
  BY <1>2 DEF GatewayInv, Due, AskedFor
<1>3. GatewayInv => AccessControlled
  BY <1>1, <1>2 DEF AccessControlled
<1> QED BY <1>3, GatewayInvariance, PTL

\* A refusal that a client gets, of the gateway or of a service, is final: no
\* service has the request, or one has refused it in the same words; and a refused
\* request has touched no order, but for a checkout with 409, whose key belongs to
\* another cart or to a decided order.
THEOREM RefusalsAreFinal == GatewaySpec => []RefusalIsFinal
<1>1. ASSUME GatewayInv, NEW n \in Call,
             calls[n].answer \in {"400", "401", "403", "404", "409", "429"}
      PROVE  LET o == calls[n].row IN
             /\ calls[n].up \in {"none", "served"}
             /\ calls[n].reply \in {Null, calls[n].answer}
             /\ calls[n].answer # "409" => o = Null
             /\ calls[n].answer = "409" /\ calls[n].request.endpoint = "createOrder" =>
                 /\ o # Null
                 /\ \/ orders[o].cart # calls[n].request.cart
                    \/ orders[o].state # "reserving"
  <2>1. PICK c \in CallRecord : c = calls[n] /\ Consistent(c) /\ CallInv(c)
    BY <1>1, Typing
  <2>2. c.up \in {"none", "served"} /\ c.reply \in {Null, c.answer}
    BY <1>1, <2>1 DEF PathInv
  <2>3. c.answer # "409" => c.row = Null
    BY <1>1, <2>1, <2>2 DEF PathInv, Consistent
  <2>4. c.answer = "409" => c.reply = "409"
    BY <2>1 DEF PathInv
  <2> QED BY <2>1, <2>2, <2>3, <2>4 DEF ReplyInv
<1>2. GatewayInv => RefusalIsFinal
  BY <1>1 DEF RefusalIsFinal
<1> QED BY <1>2, GatewayInvariance, PTL

\* Any number of checkouts of one user under one key are for one order, and one
\* that is answered with an order gets that one, for its cart and decided.
THEOREM KeyHasOneOutcome == GatewaySpec => []OneOutcomePerKey
<1>1. ASSUME GatewayInv, NEW n \in Call,
             calls[n].request # Null, calls[n].request.endpoint = "createOrder"
      PROVE  LET q == calls[n].request
                 a == calls[n].answer
             IN  /\ \A o, p \in OrderId :
                     MadeBy(o, q.token, q.key) /\ MadeBy(p, q.token, q.key) => o = p
                 /\ a \in OrderId =>
                     /\ MadeBy(a, q.token, q.key)
                     /\ orders[a].cart = q.cart
                     /\ orders[a].state # "reserving"
  <2>1. PICK c \in CallRecord : c = calls[n] /\ Consistent(c) /\ CallInv(c)
    BY <1>1, Typing
  <2>2. c.answer \in OrderId => c.reply = c.answer /\ c.row = c.answer /\ c.row # Null
    BY <2>1, CodeFacts DEF PathInv
  <2>3. ASSUME NEW o \in OrderId, NEW p \in OrderId, Under(c, o), Under(c, p)
        PROVE  o = p
    BY <1>1, <2>3 DEF GatewayInv, RowsInv
  <2> QED BY <2>1, <2>2, <2>3 DEF ReplyInv
<1>2. GatewayInv => OneOutcomePerKey
  BY <1>1 DEF OneOutcomePerKey
<1> QED BY <1>2, GatewayInvariance, PTL

\* A checkout made after the decision of its key is answered accordingly, also
\* while checkouts from before it are still under way.
THEOREM RetryFindsDecision == GatewaySpec => []RetryKeepsOrder
<1>1. ASSUME GatewayInv, NEW n \in Call
      PROVE  /\ calls[n].found = "placed" => calls[n].answer # "409"
             /\ calls[n].found \in {"failed", "other"} => calls[n].answer \notin OrderId
  BY <1>1 DEF GatewayInv, PathInv, FoundInv
<1>2. GatewayInv => RetryKeepsOrder
  BY <1>1 DEF RetryKeepsOrder
<1> QED BY <1>2, GatewayInvariance, PTL

-----------------------------------------------------------------------------
(* The rate limiter *)

-----------------------------------------------------------------------------
(* What passed between two times, for the row f of one key *)

Stretch(a, b) == {t \in Time : a =< t /\ t < b}

Between(f, a, b) == SumFunctionOnSet(f, Stretch(a, b))

LEMMA StretchFinite ==
    ASSUME NEW a, NEW b
    PROVE  IsFiniteSet(Stretch(a, b)) /\ Stretch(a, b) \subseteq Time
<1>1. IsFiniteSet(Time)
  BY FS_Interval, RateLimiterAssumption DEF Time
<1>2. Stretch(a, b) \in SUBSET Time
  BY DEF Stretch
<1> QED BY <1>1, <1>2, FS_Subset

LEMMA BetweenNat ==
    ASSUME NEW f \in [Time -> Nat], NEW a, NEW b
    PROVE  Between(f, a, b) \in Nat
BY StretchFinite, SumNat DEF Between

\* Where nothing passed outside c..d-1, no more passed than there.
LEMMA BetweenWithin ==
    ASSUME NEW f \in [Time -> Nat], NEW a, NEW b, NEW c, NEW d,
           \A t \in Time : (a =< t /\ t < b /\ ~(c =< t /\ t < d)) => f[t] = 0
    PROVE  Between(f, a, b) =< Between(f, c, d)
<1>1. \A t \in Stretch(a, b) \ Stretch(c, d) : f[t] = 0
  BY DEF Stretch
<1>2. \A t \in Stretch(a, b) \cup Stretch(c, d) : f[t] \in Nat
  BY DEF Stretch
<1> QED BY <1>1, <1>2, StretchFinite, SumWithin DEF Between

LEMMA BetweenZero ==
    ASSUME NEW f \in [Time -> Nat], NEW a, NEW b,
           \A t \in Time : (a =< t /\ t < b) => f[t] = 0
    PROVE  Between(f, a, b) = 0
BY StretchFinite, SumZero DEF Between, Stretch

LEMMA BetweenSplit ==
    ASSUME NEW f \in [Time -> Nat], NEW a \in Int, NEW m \in Int, NEW b \in Int,
           a =< m, m =< b
    PROVE  Between(f, a, b) = Between(f, a, m) + Between(f, m, b)
<1>1. \A t \in Time : t \in Int
  BY DEF Time
<1>2. /\ Stretch(a, b) = Stretch(a, m) \cup Stretch(m, b)
      /\ Stretch(a, m) \cap Stretch(m, b) = {}
  BY <1>1 DEF Stretch
<1>3. \A t \in Stretch(a, m) \cup Stretch(m, b) : f[t] \in Int
  BY DEF Stretch
<1>4. SumFunctionOnSet(f, Stretch(a, m) \cup Stretch(m, b)) =
        SumFunctionOnSet(f, Stretch(a, m)) + SumFunctionOnSet(f, Stretch(m, b))
  BY <1>2, <1>3, StretchFinite, SumUnion
<1> QED BY <1>2, <1>4 DEF Between

\* One request more at time t
LEMMA BetweenOneMore ==
    ASSUME NEW f \in [Time -> Nat], NEW t \in Time, NEW a, NEW b
    PROVE  Between([f EXCEPT ![t] = @ + 1], a, b) =
                IF a =< t /\ t < b THEN Between(f, a, b) + 1 ELSE Between(f, a, b)
<1> DEFINE g == [f EXCEPT ![t] = @ + 1]
<1>1. g[t] = f[t] + 1 /\ \A x \in Time \ {t} : g[x] = f[x]
  OBVIOUS
<1> HIDE DEF g
<1>2. CASE a =< t /\ t < b
  <2>1. t \in Stretch(a, b)
    BY <1>2 DEF Stretch
  <2>2. \A x \in Stretch(a, b) : f[x] \in Int
    BY DEF Stretch
  <2>3. \A x \in Stretch(a, b) \ {t} : g[x] = f[x]
    BY <1>1 DEF Stretch
  <2>4. Between(g, a, b) = Between(f, a, b) + 1
    BY <1>1, <2>1, <2>2, <2>3, StretchFinite, SumOneMore DEF Between
  <2> QED BY <1>2, <2>4 DEF g
<1>3. CASE ~(a =< t /\ t < b)
  <2>1. \A x \in Stretch(a, b) : g[x] = f[x]
    BY <1>1, <1>3 DEF Stretch
  <2>2. Between(g, a, b) = Between(f, a, b)
    BY <2>1, StretchFinite, SumSame DEF Between
  <2> QED BY <1>3, <2>2 DEF g
<1> QED BY <1>2, <1>3

-----------------------------------------------------------------------------
(* The inductive invariant of one key: its limit l, its counter c that        *)
(* expires at u, and what has passed, f, at time now                          *)

InWindow(l, now, c, u, f) ==
    /\ u \in now + 1 .. now + Window /\ u >= Window
    /\ Between(f, u - Window, u) = IF c < l THEN c ELSE l
    /\ \A s \in Time : u - Window < s + Window => Between(f, s, u - Window) =< l

NoWindow(l, now, f) ==
    /\ f[now] = 0
    /\ \A s \in Time : now < s + Window => Between(f, s, s + Window) =< l

Fits(l, now, c, u, f) ==
    /\ \A t \in Time : t > now => f[t] = 0
    /\ \A s \in Time : Between(f, s, s + Window) =< 2 * l
    /\ c > 0 => InWindow(l, now, c, u, f)
    /\ c = 0 => NoWindow(l, now, f)

LEMMA WindowFacts ==
    /\ Window \in Nat /\ Window > 0
    /\ \A t \in Time : t \in Nat
    /\ \A k \in Key : Limit[k] \in Nat /\ Limit[k] > 0
BY RateLimiterAssumption DEF Time

\* A request passes: the first one of a window or a later one.
LEMMA AdmitFits ==
    ASSUME NEW l \in Nat, NEW now \in Time, NEW c \in Nat, NEW u \in Nat,
           NEW f \in [Time -> Nat], Fits(l, now, c, u, f), c < l
    PROVE  Fits(l, now, c + 1, IF c = 0 THEN now + Window ELSE u,
                [f EXCEPT ![now] = @ + 1])
<1> DEFINE g == [f EXCEPT ![now] = @ + 1]
           v == IF c = 0 THEN now + Window ELSE u
<1>1. now \in Nat /\ Window \in Nat /\ Window > 0
  BY WindowFacts
<1>2. g \in [Time -> Nat] /\ \A t \in Time : t > now => g[t] = 0
  BY <1>1, WindowFacts DEF Fits
<1>3. v \in Nat /\ v \in now + 1 .. now + Window /\ v >= Window
  BY <1>1 DEF Fits, InWindow
<1>4. \A a, b : Between(g, a, b) =
            IF a =< now /\ now < b THEN Between(f, a, b) + 1 ELSE Between(f, a, b)
  BY BetweenOneMore
<1> HIDE DEF g
<1>5. Between(f, v - Window, v) = c
  <2>1. CASE c = 0
    <3>1. \A t \in Time : v - Window =< t => f[t] = 0
      BY <1>1, <2>1, WindowFacts DEF Fits, NoWindow
    <3> QED BY <2>1, <3>1, BetweenZero
  <2>2. CASE c > 0
    BY <2>2 DEF Fits, InWindow
  <2> QED BY <2>1, <2>2
<1>6. ASSUME NEW s \in Time, v - Window < s + Window
      PROVE  Between(f, s, v - Window) =< l
  <2>1. CASE c = 0
    <3>1. Between(f, s, s + Window) =< l
      BY <1>1, <1>6, <2>1, WindowFacts DEF Fits, NoWindow
    <3>2. Between(f, s, v - Window) =< Between(f, s, s + Window)
      <4>1. \A t \in Time : (s =< t /\ t < v - Window) => t < s + Window
        BY <1>1, <1>3, <1>6, WindowFacts
      <4> QED BY <4>1, BetweenWithin
    <3> QED BY <3>1, <3>2, BetweenNat
  <2>2. CASE c > 0
    BY <1>6, <2>2 DEF Fits, InWindow
  <2> QED BY <2>1, <2>2
<1>7. v - Window =< now /\ now < v
  BY <1>1, <1>3
<1>8. InWindow(l, now, c + 1, v, g)
  <2>1. Between(g, v - Window, v) = IF c + 1 < l THEN c + 1 ELSE l
    BY <1>4, <1>5, <1>7
  <2>2. ASSUME NEW s \in Time, v - Window < s + Window
        PROVE  Between(g, s, v - Window) =< l
    <3>1. ~(now < v - Window)
      BY <1>1, <1>3, <1>7
    <3> QED BY <1>4, <1>6, <2>2, <3>1
  <2> QED BY <1>3, <2>1, <2>2 DEF InWindow
<1>9. ASSUME NEW s \in Time
      PROVE  Between(g, s, s + Window) =< 2 * l
  <2> s \in Nat
    BY WindowFacts
  <2>1. CASE ~(s =< now /\ now < s + Window)
    BY <1>4, <2>1 DEF Fits
  <2>2. CASE s =< now /\ now < s + Window
    <3>1. Between(g, v - Window, v) =< l /\ Between(g, v - Window, v) \in Nat
      BY <1>2, <1>8, BetweenNat DEF InWindow
    <3>2. CASE s > v - Window
      <4>1. \A t \in Time : (s =< t /\ t < s + Window
                /\ ~(v - Window =< t /\ t < v)) => g[t] = 0
        BY <1>1, <1>2, <1>3, <3>2, WindowFacts
      <4>2. Between(g, s, s + Window) =< Between(g, v - Window, v)
        BY <1>2, <4>1, BetweenWithin
      <4> QED BY <1>2, <3>1, <4>2, BetweenNat
    <3>3. CASE s =< v - Window
      <4>1. v - Window < s + Window /\ v - Window =< s + Window
        BY <1>1, <1>3, <1>7, <2>2
      <4>2. Between(g, s, s + Window) =
                Between(g, s, v - Window) + Between(g, v - Window, s + Window)
        BY <1>1, <1>2, <1>3, <3>3, <4>1, BetweenSplit
      <4>3. Between(g, s, v - Window) =< l
        BY <1>8, <4>1 DEF InWindow
      <4>4. \A t \in Time : (v - Window =< t /\ t < s + Window
                /\ ~(v - Window =< t /\ t < v)) => g[t] = 0
        BY <1>1, <1>2, <1>3, WindowFacts
      <4>5. Between(g, v - Window, s + Window) =< Between(g, v - Window, v)
        BY <1>2, <4>4, BetweenWithin
      <4>6. /\ Between(g, s, v - Window) \in Nat
            /\ Between(g, v - Window, s + Window) \in Nat
        BY <1>2, BetweenNat
      <4> QED BY <3>1, <4>2, <4>3, <4>5, <4>6
    <3> QED BY <1>1, <1>3, <3>2, <3>3
  <2> QED BY <2>1, <2>2
<1>10. Fits(l, now, c + 1, v, g)
  BY <1>2, <1>8, <1>9 DEF Fits
<1> QED BY <1>10 DEF g

\* A request over the limit changes nothing but the counter.
LEMMA RefuseFits ==
    ASSUME NEW l \in Nat, NEW now \in Time, NEW c \in Nat, NEW u \in Nat,
           NEW f \in [Time -> Nat], Fits(l, now, c, u, f), ~(c < l), l > 0
    PROVE  Fits(l, now, c + 1, u, f)
BY DEF Fits, InWindow

\* A second goes by: a window may end, with its counter.
LEMMA TickFits ==
    ASSUME NEW l \in Nat, NEW now \in Time, NEW c \in Nat, NEW u \in Nat,
           NEW f \in [Time -> Nat], Fits(l, now, c, u, f), now + 1 \in Time
    PROVE  Fits(l, now + 1, IF u = now + 1 THEN 0 ELSE c, u, f)
<1> DEFINE e == IF u = now + 1 THEN 0 ELSE c
<1>1. now \in Nat /\ Window \in Nat /\ Window > 0
  BY WindowFacts
<1>2. \A t \in Time : t > now + 1 => f[t] = 0
  BY <1>1, WindowFacts DEF Fits
<1>3. f[now + 1] = 0
  BY <1>1 DEF Fits
<1>4. CASE e > 0
  <2>1. InWindow(l, now, c, u, f) /\ e = c /\ u # now + 1
    BY <1>4 DEF Fits
  <2>2. u \in (now + 1) + 1 .. (now + 1) + Window
    BY <1>1, <2>1 DEF InWindow
  <2>3. InWindow(l, now + 1, e, u, f)
    BY <2>1, <2>2 DEF InWindow
  <2> QED BY <1>2, <1>4, <2>3 DEF Fits
<1>5. CASE e = 0
  <2>1. ASSUME NEW s \in Time, now + 1 < s + Window
        PROVE  Between(f, s, s + Window) =< l
    <3> s \in Nat
      BY WindowFacts
    <3>1. CASE c = 0
      BY <1>1, <2>1, <3>1 DEF Fits, NoWindow
    <3>2. CASE c > 0
      <4>1. InWindow(l, now, c, u, f) /\ u = now + 1
        BY <1>5, <3>2 DEF Fits
      <4>2. \A t \in Time : (s =< t /\ t < s + Window
                /\ ~(u - Window =< t /\ t < u)) => f[t] = 0
        BY <1>1, <2>1, <4>1, WindowFacts DEF Fits
      <4>3. Between(f, s, s + Window) =< Between(f, u - Window, u)
        BY <4>2, BetweenWithin
      <4>4. Between(f, u - Window, u) =< l
        BY <4>1 DEF InWindow
      <4> QED BY <4>3, <4>4, BetweenNat
    <3> QED BY <3>1, <3>2
  <2> QED BY <1>2, <1>3, <1>5, <2>1 DEF Fits, NoWindow
<1> QED BY <1>4, <1>5

-----------------------------------------------------------------------------
(* The specification *)

AllFit == \A k \in Key : Fits(Limit[k], clock, counter[k], until[k], passed[k])

\* What the lemmas about one key need to know of the variables
LEMMA Rows ==
    ASSUME LimiterTypeOK, NEW k \in Key
    PROVE  /\ Limit[k] \in Nat /\ Limit[k] > 0 /\ clock \in Time
           /\ counter[k] \in Nat /\ until[k] \in Nat /\ passed[k] \in [Time -> Nat]
BY WindowFacts DEF LimiterTypeOK

\* The invariant says the same of each key as its three parts together.
LEMMA FitsIsInv ==
    ASSUME LimiterTypeOK
    PROVE  AllFit <=> AtMostTwice /\ LimiterInv
<1> USE WindowFacts
<1>1. ASSUME NEW k \in Key, NEW s
      PROVE  PassedFrom(k, s) = Between(passed[k], s, s + Window)
  BY DEF PassedFrom, Between, Stretch
<1>2. AtMostTwice <=> \A k \in Key : \A s \in Time :
            Between(passed[k], s, s + Window) =< 2 * Limit[k]
  BY <1>1 DEF AtMostTwice
<1>3. ASSUME NEW k \in Key, counter[k] > 0
      PROVE  WindowInv(k) <=>
                InWindow(Limit[k], clock, counter[k], until[k], passed[k])
  <2> DEFINE start == until[k] - Window
  <2>1. until[k] \in Nat /\ until[k] \in clock + 1 .. clock + Window
    BY <1>3 DEF LimiterTypeOK
  <2>2. start + Window = until[k]
    BY <2>1
  <2>3. PassedFrom(k, start) = Between(passed[k], start, until[k])
    BY <1>1, <2>2
  <2>4. \A s : SumFunctionOnSet(passed[k], {t \in Time : s =< t /\ t < start}) =
                Between(passed[k], s, start)
    BY DEF Between, Stretch
  <2> HIDE DEF start
  <2>5. WindowInv(k) <=>
            /\ until[k] >= Window
            /\ PassedFrom(k, start) =
                    IF counter[k] < Limit[k] THEN counter[k] ELSE Limit[k]
            /\ \A s \in Time : start < s + Window =>
                    Between(passed[k], s, start) =< Limit[k]
    BY <2>4 DEF WindowInv, start
  <2> QED BY <2>1, <2>3, <2>5 DEF InWindow, start
<1>4. ASSUME NEW k \in Key
      PROVE  (/\ passed[k][clock] = 0
              /\ \A s \in Time : clock < s + Window =>
                    PassedFrom(k, s) =< Limit[k])
             <=> NoWindow(Limit[k], clock, passed[k])
  BY <1>1 DEF NoWindow
<1> QED BY <1>2, <1>3, <1>4 DEF AllFit, Fits, LimiterInv

LEMMA LimiterInitFits == LimiterInit => LimiterTypeOK /\ AllFit
<1> SUFFICES ASSUME LimiterInit PROVE LimiterTypeOK /\ AllFit
  OBVIOUS
<1>1. 0 \in Time /\ MaxCount \in Nat
  BY RateLimiterAssumption DEF Time
<1>2. LimiterTypeOK
  BY <1>1 DEF LimiterInit, LimiterTypeOK
<1>3. ASSUME NEW k \in Key
      PROVE  Fits(Limit[k], clock, counter[k], until[k], passed[k])
  <2>1. \A a, b : Between(passed[k], a, b) = 0
    BY <1>2, Rows, BetweenZero DEF LimiterInit
  <2>2. /\ Limit[k] \in Nat /\ counter[k] = 0
        /\ clock \in Time /\ \A t \in Time : passed[k][t] = 0
    BY <1>1, WindowFacts DEF LimiterInit
  <2>3. NoWindow(Limit[k], clock, passed[k])
    BY <2>1, <2>2 DEF NoWindow
  <2> QED BY <2>1, <2>2, <2>3 DEF Fits
<1> QED BY <1>2, <1>3 DEF AllFit

\* The script keeps the types: it never counts an expired counter.
LEMMA CountType ==
    ASSUME LimiterTypeOK, NEW k \in Key, Count(k),
           \/ UNCHANGED passed
           \/ passed' = [passed EXCEPT ![k][clock] = @ + 1]
    PROVE  LimiterTypeOK'
<1> USE WindowFacts, RateLimiterAssumption
<1>1. clock' = clock /\ clock \in Nat
  BY DEF Count, LimiterTypeOK
<1>2. counter' \in [Key -> 0..MaxCount]
  BY DEF Count, LimiterTypeOK
<1>3. until' \in [Key -> Nat]
  BY <1>1 DEF Count, LimiterTypeOK
<1>4. passed' \in [Key -> [Time -> Nat]]
  <2>1. passed[k] \in [Time -> Nat] /\ clock \in Time
    BY DEF LimiterTypeOK
  <2>2. [passed[k] EXCEPT ![clock] = @ + 1] \in [Time -> Nat]
    BY <2>1
  <2>3. passed' \in {passed, [passed EXCEPT ![k] = [passed[k] EXCEPT ![clock] = @ + 1]]}
    BY DEF LimiterTypeOK
  <2> QED BY <2>2, <2>3 DEF LimiterTypeOK
<1>5. ASSUME NEW j \in Key, counter'[j] > 0
      PROVE  until'[j] \in clock' + 1 .. clock' + Window
  BY <1>1, <1>5 DEF Count, LimiterTypeOK
<1> QED BY <1>1, <1>2, <1>3, <1>4, <1>5 DEF LimiterTypeOK

LEMMA TickType ==
    ASSUME LimiterTypeOK, Tick
    PROVE  LimiterTypeOK'
<1> USE WindowFacts, RateLimiterAssumption
<1>1. clock' \in Time /\ clock' = clock + 1 /\ clock \in Nat
  BY DEF Tick, LimiterTypeOK, Time
<1>2. counter' \in [Key -> 0..MaxCount]
  BY DEF Tick, LimiterTypeOK
<1>3. ASSUME NEW j \in Key, counter'[j] > 0
      PROVE  until'[j] \in clock' + 1 .. clock' + Window
  <2>1. counter[j] > 0 /\ until[j] # clock + 1 /\ until' = until
    BY <1>3 DEF Tick
  <2>2. until[j] \in clock + 1 .. clock + Window
    BY <2>1 DEF LimiterTypeOK
  <2> QED BY <1>1, <2>1, <2>2
<1> QED BY <1>1, <1>2, <1>3 DEF LimiterTypeOK, Tick

\* Every step of the limiter keeps the invariant of every key.
LEMMA LimiterStep ==
    LimiterTypeOK /\ AllFit /\ [LimiterNext]_limiterVars => LimiterTypeOK' /\ AllFit'
<1> SUFFICES ASSUME LimiterTypeOK, AllFit, [LimiterNext]_limiterVars
             PROVE  LimiterTypeOK' /\ AllFit'
  OBVIOUS
<1>1. ASSUME Tick
      PROVE  LimiterTypeOK' /\ AllFit'
  <2>1. LimiterTypeOK'
    BY <1>1, TickType
  <2>2. ASSUME NEW k \in Key
        PROVE  Fits(Limit[k], clock', counter'[k], until'[k], passed'[k])
    <3>1. Fits(Limit[k], clock, counter[k], until[k], passed[k])
      BY DEF AllFit
    <3>2. clock + 1 \in Time
      BY <1>1, <2>1 DEF Tick, LimiterTypeOK
    <3>3. Fits(Limit[k], clock + 1, IF until[k] = clock + 1 THEN 0 ELSE counter[k],
               until[k], passed[k])
      BY <3>1, <3>2, Rows, TickFits
    <3> QED BY <1>1, <3>3 DEF Tick
  <2> QED BY <2>1, <2>2 DEF AllFit
<1>2. ASSUME NEW k \in Key, Admit(k)
      PROVE  LimiterTypeOK' /\ AllFit'
  <2>1. LimiterTypeOK'
    BY <1>2, CountType DEF Admit
  <2>2. ASSUME NEW j \in Key
        PROVE  Fits(Limit[j], clock', counter'[j], until'[j], passed'[j])
    <3>1. Fits(Limit[j], clock, counter[j], until[j], passed[j])
      BY DEF AllFit
    <3>2. CASE j # k
      <4>1. /\ clock' = clock /\ counter'[j] = counter[j]
            /\ until'[j] = until[j] /\ passed'[j] = passed[j]
        BY <1>2, <3>2 DEF Admit, Count, LimiterTypeOK
      <4> QED BY <3>1, <4>1
    <3>3. CASE j = k
      <4>1. /\ clock' = clock /\ counter'[k] = counter[k] + 1
            /\ until'[k] = IF counter[k] = 0 THEN clock + Window ELSE until[k]
            /\ passed'[k] = [passed[k] EXCEPT ![clock] = @ + 1]
            /\ counter'[k] =< Limit[k]
        BY <1>2 DEF Admit, Count, WithinLimit, LimiterTypeOK
      <4>2. counter[k] < Limit[k]
        BY <4>1, Rows
      <4>3. Fits(Limit[k], clock, counter[k] + 1,
                 IF counter[k] = 0 THEN clock + Window ELSE until[k],
                 [passed[k] EXCEPT ![clock] = @ + 1])
        BY <3>1, <3>3, <4>2, Rows, AdmitFits
      <4> QED BY <3>3, <4>1, <4>3
    <3> QED BY <3>2, <3>3
  <2> QED BY <2>1, <2>2 DEF AllFit
<1>3. ASSUME NEW k \in Key, Refuse(k)
      PROVE  LimiterTypeOK' /\ AllFit'
  <2>1. LimiterTypeOK'
    BY <1>3, CountType DEF Refuse
  <2>2. ASSUME NEW j \in Key
        PROVE  Fits(Limit[j], clock', counter'[j], until'[j], passed'[j])
    <3>1. Fits(Limit[j], clock, counter[j], until[j], passed[j])
      BY DEF AllFit
    <3>2. CASE j # k
      <4>1. /\ clock' = clock /\ counter'[j] = counter[j]
            /\ until'[j] = until[j] /\ passed'[j] = passed[j]
        BY <1>3, <3>2 DEF Refuse, Count, LimiterTypeOK
      <4> QED BY <3>1, <4>1
    <3>3. CASE j = k
      <4>1. clock' = clock /\ counter'[k] = counter[k] + 1 /\ passed' = passed
            /\ ~(counter'[k] =< Limit[k])
        BY <1>3 DEF Refuse, Count, WithinLimit, LimiterTypeOK
      <4>2. ~(counter[k] < Limit[k]) /\ counter[k] # 0
        BY <4>1, Rows
      <4>3. until' = until
        BY <1>3, <4>2 DEF Refuse, Count
      <4> QED BY <3>1, <3>3, <4>1, <4>2, <4>3, Rows, RefuseFits
    <3> QED BY <3>2, <3>3
  <2> QED BY <2>1, <2>2 DEF AllFit
<1>4. CASE UNCHANGED limiterVars
  BY <1>4 DEF limiterVars, LimiterTypeOK, AllFit
<1> QED BY <1>1, <1>2, <1>3, <1>4 DEF LimiterNext

-----------------------------------------------------------------------------
(* The theorems *)

\* A counter that lives has its time to live: it was set with the counter.
THEOREM LimiterTypeCorrect == LimiterSpec => []LimiterTypeOK
BY LimiterInitFits, LimiterStep, PTL DEF LimiterSpec

LEMMA LimiterInvariance == LimiterSpec => [](LimiterTypeOK /\ AllFit)
BY LimiterInitFits, LimiterStep, PTL DEF LimiterSpec

\* The counter is the number of requests that passed in its window, up to the
\* limit, whatever the windows before it held.
THEOREM WindowsCounted == LimiterSpec => []LimiterInv
<1>1. LimiterTypeOK /\ AllFit => LimiterInv
  BY FitsIsInv
<1> QED BY <1>1, LimiterInvariance, PTL

\* No stretch of the length of a window holds more than twice the limit.
THEOREM NeverMoreThanTwice == LimiterSpec => []AtMostTwice
<1>1. LimiterTypeOK /\ AllFit => AtMostTwice
  BY FitsIsInv
<1> QED BY <1>1, LimiterInvariance, PTL

\* Who is refused has filled the limit within the last Window seconds.
THEOREM RefusedFull == LimiterSpec => RefusedOnlyIfFull
<1>1. ASSUME LimiterTypeOK, AllFit, NEW k \in Key, Refuse(k)
      PROVE  \E start \in Time :
                clock < start + Window /\ PassedFrom(k, start) >= Limit[k]
  <2> DEFINE start == until[k] - Window
  <2>1. ~(counter[k] < Limit[k])
    <3>1. counter'[k] = counter[k] + 1 /\ ~(counter'[k] =< Limit[k])
      BY <1>1 DEF Refuse, Count, WithinLimit, LimiterTypeOK
    <3> QED BY <1>1, <3>1, Rows
  <2>2. counter[k] > 0
    BY <1>1, <2>1, Rows
  <2>3. InWindow(Limit[k], clock, counter[k], until[k], passed[k])
    BY <1>1, <2>2 DEF AllFit, Fits
  <2>4. start \in Time /\ clock < start + Window
    BY <1>1, <2>3, WindowFacts, RateLimiterAssumption
    DEF InWindow, LimiterTypeOK, Time
  <2>5. WindowInv(k)
    BY <1>1, <2>2, FitsIsInv DEF LimiterInv
  <2>6. PassedFrom(k, start) = Limit[k]
    BY <2>1, <2>5 DEF WindowInv
  <2>7. PassedFrom(k, start) >= Limit[k]
    BY <1>1, <2>6, Rows
  <2> QED BY <2>4, <2>7
<1>2. LimiterTypeOK /\ AllFit =>
        (\A k \in Key : Refuse(k) =>
            \E start \in Time :
                /\ clock < start + Window
                /\ PassedFrom(k, start) >= Limit[k])
  BY <1>1
<1> QED BY <1>2, LimiterInvariance, PTL DEF LimiterSpec, RefusedOnlyIfFull

=============================================================================
