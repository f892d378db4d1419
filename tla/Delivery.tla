------------------------------ MODULE Delivery ------------------------------
(***************************************************************************)
(* How a committed outbox row reaches the handler of its event: the flush  *)
(* of events.service.ts and payments.service.ts, run by every replica, and *)
(* the Kafka producer and consumer group of event-bus.ts.                  *)
(*                                                                         *)
(* A lane is one partition of one topic.  A consumer group reads each lane *)
(* on its own; the groups do not affect each other, so there is one here.  *)
(***************************************************************************)
EXTENDS Naturals, FiniteSets, Sequences

CONSTANTS
    Event,          \* the events that may be written
    Lane,           \* topic partitions
    LaneOf,         \* LaneOf[e]: from the topic and the order id of e
    Stamp,          \* the values of createdAt
    Publisher,      \* processes that run flush()
    Take,           \* how many rows one flush reads: 50 in the code
    MaxFaults,      \* bound: failed sends, deaths and restarts
    Null

ASSUME DeliveryAssumption ==
    /\ LaneOf \in [Event -> Lane]
    /\ Stamp \subseteq Nat
    /\ Take \in Nat \ {0}
    /\ MaxFaults \in Nat
    /\ Null \notin Event

VARIABLES
    rows,           \* the events whose outbox rows are committed
    createdAt,      \* createdAt[e]: set when the row's transaction starts, so
                    \*   rows need not be committed in its order
    earlier,        \* earlier[e]: the rows committed before that of e
    sent,           \* the events whose sentAt is set
    batch,          \* batch[p]: the rows this flush of p has yet to mark
    acked,          \* acked[p]: the row sent and not yet marked, or Null
    wire,           \* events of failed sends that may still reach Kafka
    log,            \* log[l]: what Kafka stores
    position,       \* position[l]: messages of the lane resolved by its owner
    done,           \* done[l]: the next one has had its effect
    committed,      \* committed[l]: the offset stored for the group
    handled,        \* the events handled at least once
    faults

outboxVars == <<rows, createdAt, earlier>>
publisherVars == <<sent, batch, acked>>
consumerVars == <<position, done, committed, handled>>
deliveryVars ==
    <<outboxVars, publisherVars, wire, log, consumerVars, faults>>

DeliveryTypeOK ==
    /\ rows \subseteq Event /\ sent \subseteq rows
    /\ createdAt \in [Event -> Stamp \cup {0}]
    /\ earlier \in [Event -> SUBSET Event]
    /\ batch \in [Publisher -> SUBSET rows]
    /\ acked \in [Publisher -> Event \cup {Null}]
    /\ wire \subseteq rows
    /\ log \in [Lane -> Seq(Event)]
    /\ position \in [Lane -> Nat] /\ committed \in [Lane -> Nat]
    /\ \A l \in Lane : committed[l] =< position[l] /\ position[l] =< Len(log[l])
    /\ done \in [Lane -> BOOLEAN]
    /\ \A l \in Lane : done[l] => position[l] < Len(log[l])
    /\ handled \subseteq rows
    /\ faults \in 0..MaxFaults

DeliveryInit ==
    /\ rows = {} /\ sent = {} /\ wire = {} /\ handled = {}
    /\ createdAt = [e \in Event |-> 0]
    /\ earlier = [e \in Event |-> {}]
    /\ batch = [p \in Publisher |-> {}]
    /\ acked = [p \in Publisher |-> Null]
    /\ log = [l \in Lane |-> <<>>]
    /\ position = [l \in Lane |-> 0] /\ committed = [l \in Lane |-> 0]
    /\ done = [l \in Lane |-> FALSE]
    /\ faults = 0

Fault == faults < MaxFaults /\ faults' = faults + 1

\* A transaction of a service commits a row.
Write(e) ==
    /\ e \notin rows
    /\ rows' = rows \cup {e}
    /\ earlier' = [earlier EXCEPT ![e] = rows]
    /\ \E t \in Stamp : createdAt' = [createdAt EXCEPT ![e] = t]
    /\ UNCHANGED <<publisherVars, wire, log, consumerVars, faults>>

-----------------------------------------------------------------------------
(* flush(): the timer of each process, one flush of a process at a time *)

\* Mutated form: rows are looked for behind the last one that was marked
UnsentByCursor ==
    {e \in rows \ sent : \A f \in sent : createdAt[f] =< createdAt[e]}

Unsent == rows \ sent

\* The first Take of them by createdAt; equal times in any order.
Pages ==
    {page \in SUBSET Unsent :
        /\ Cardinality(page) =< Take
        /\ Cardinality(page) < Take => page = Unsent
        /\ \A e \in page, f \in Unsent \ page : createdAt[e] =< createdAt[f]}

Flush(p) ==
    /\ batch[p] = {} /\ Unsent # {}
    /\ batch' \in {[batch EXCEPT ![p] = page] : page \in Pages}
    /\ UNCHANGED <<outboxVars, sent, acked, wire, log, consumerVars, faults>>

\* The rows of the batch the loop may be at.
Current(p) == {e \in batch[p] : \A f \in batch[p] : createdAt[e] =< createdAt[f]}

Stored(e) == [log EXCEPT ![LaneOf[e]] = Append(@, e)]

\* Mutated form: the send is not awaited
SendUnawaited(p) ==
    /\ acked[p] = Null
    /\ \E e \in Current(p) :
        /\ wire' = wire \cup {e}
        /\ acked' = [acked EXCEPT ![p] = e]
    /\ UNCHANGED <<outboxVars, sent, batch, log, consumerVars, faults>>

\* producer.send returns once Kafka has the message.
Send(p) ==
    /\ acked[p] = Null
    /\ \E e \in Current(p) :
        /\ log' = Stored(e)
        /\ acked' = [acked EXCEPT ![p] = e]
    /\ UNCHANGED <<outboxVars, sent, batch, wire, consumerVars, faults>>

\* Mutated form: the error is caught inside the loop, which goes on
SendFailsAlone(p) ==
    /\ Fault
    /\ acked[p] = Null
    /\ \E e \in Current(p) :
        /\ wire' = wire \cup {e}
        /\ batch' = [batch EXCEPT ![p] = @ \ {e}]
    /\ UNCHANGED <<outboxVars, sent, acked, log, consumerVars>>

\* The send throws: the rest of the batch waits for another flush.  Kafka may
\* have, or may yet get, the message.
SendFails(p) ==
    /\ Fault
    /\ acked[p] = Null
    /\ \E e \in Current(p) : wire' = wire \cup {e}
    /\ batch' = [batch EXCEPT ![p] = {}]
    /\ UNCHANGED <<outboxVars, sent, acked, log, consumerVars>>

Mark(p) ==
    /\ acked[p] # Null
    /\ sent' = sent \cup {acked[p]}
    /\ batch' = [batch EXCEPT ![p] = @ \ {acked[p]}]
    /\ acked' = [acked EXCEPT ![p] = Null]
    /\ UNCHANGED <<outboxVars, wire, log, consumerVars, faults>>

\* The update fails, or the process dies anywhere in the flush.
Die(p) ==
    /\ Fault
    /\ batch[p] # {}
    /\ batch' = [batch EXCEPT ![p] = {}]
    /\ acked' = [acked EXCEPT ![p] = Null]
    /\ UNCHANGED <<outboxVars, sent, wire, log, consumerVars>>

\* The message of a failed send is stored after all, or is gone.
Arrive(e) ==
    /\ e \in wire
    /\ wire' = wire \ {e}
    /\ log' \in {log, Stored(e)}
    /\ UNCHANGED <<outboxVars, publisherVars, consumerVars, faults>>

-----------------------------------------------------------------------------
(* eachMessage *)

\* The handler's transaction commits.
Handle(l) ==
    /\ ~done[l] /\ position[l] < Len(log[l])
    /\ handled' = handled \cup {log[l][position[l] + 1]}
    /\ done' = [done EXCEPT ![l] = TRUE]
    /\ UNCHANGED <<outboxVars, publisherVars, wire, log, position, committed, faults>>

\* The handler returns, so the message is resolved.
Resolve(l) ==
    /\ done[l]
    /\ position' = [position EXCEPT ![l] = @ + 1]
    /\ done' = [done EXCEPT ![l] = FALSE]
    /\ UNCHANGED <<outboxVars, publisherVars, wire, log, committed, handled, faults>>

\* Mutated form: the offset of a message is stored when it is fetched
CommitFetched(l) ==
    /\ position[l] < Len(log[l])
    /\ committed' = [committed EXCEPT ![l] = position[l] + 1]
    /\ UNCHANGED <<outboxVars, publisherVars, wire, log, position, done, handled, faults>>

\* The consumer stores the offset of what is resolved, now and then.
Commit(l) ==
    /\ committed[l] # position[l]
    /\ committed' = [committed EXCEPT ![l] = position[l]]
    /\ UNCHANGED <<outboxVars, publisherVars, wire, log, position, done, handled, faults>>

\* The handler fails, its process dies, or the lane is given to another
\* member of the group: it is read again from the stored offset.
Restart(l) ==
    /\ Fault
    /\ position' = [position EXCEPT ![l] = committed[l]]
    /\ done' = [done EXCEPT ![l] = FALSE]
    /\ UNCHANGED <<outboxVars, publisherVars, wire, log, committed, handled>>

-----------------------------------------------------------------------------
DeliveryNext ==
    \/ \E e \in Event : Write(e) \/ Arrive(e)
    \/ \E p \in Publisher :
        Flush(p) \/ Send(p) \/ SendFails(p) \/ Mark(p) \/ Die(p)
    \/ \E l \in Lane : Handle(l) \/ Resolve(l) \/ Commit(l) \/ Restart(l)

DeliverySpec == DeliveryInit /\ [][DeliveryNext]_deliveryVars

\* Timers fire and handlers are called; nobody has to write an event.
DeliveryFairSpec ==
    /\ DeliverySpec
    /\ \A p \in Publisher :
        /\ WF_deliveryVars(Flush(p)) /\ WF_deliveryVars(Send(p))
        /\ WF_deliveryVars(Mark(p))
    /\ \A l \in Lane :
        WF_deliveryVars(Handle(l)) /\ WF_deliveryVars(Resolve(l))

-----------------------------------------------------------------------------
(* Properties *)

Offsets(l) == 1..Len(log[l])

Logged(e) == \E i \in Offsets(LaneOf[e]) : log[LaneOf[e]][i] = e

\* No event is lost between the table and Kafka: a row is marked only once
\* Kafka has its event, whichever replica marks it and however its flush or
\* that of another one ended.
SentIsLogged == \A e \in sent : Logged(e)

\* No event is lost between Kafka and the handler: behind a stored offset
\* everything was handled, so a restart from there skips nothing.
CommittedIsHandled ==
    \A l \in Lane : \A i \in Offsets(l) :
        i =< committed[l] => log[l][i] \in handled

\* The row of e was there first and is the older one.
Ahead(e, f) ==
    /\ LaneOf[e] = LaneOf[f]
    /\ e \in earlier[f]
    /\ createdAt[e] < createdAt[f]

\* Within a partition no event is delivered before one that is ahead of it
\* has been, although several replicas send the same rows and sends fail.
InOrder ==
    \A l \in Lane : \A i \in Offsets(l) : \A e \in rows :
        Ahead(e, log[l][i]) => \E j \in 1..(i - 1) : log[l][j] = e

-----------------------------------------------------------------------------
(* The inductive invariant the safety properties follow from *)

\* What was written before a row is a row, and logs hold rows of their lane.
RowsInv ==
    /\ \A e \in rows : earlier[e] \subseteq rows
    /\ \A l \in Lane : \A i \in Offsets(l) :
        log[l][i] \in rows /\ LaneOf[log[l][i]] = l

\* A row that is sent and not yet marked is in Kafka and still in its batch.
AckedInv ==
    \A p \in Publisher : acked[p] # Null =>
        acked[p] \in batch[p] /\ Logged(acked[p])

\* A row waits, in a batch or on the wire, only behind those ahead of it.
QueueInv ==
    /\ \A p \in Publisher : \A f \in batch[p] : \A e \in rows :
        Ahead(e, f) => e \in batch[p] \/ Logged(e)
    /\ \A f \in wire : \A e \in rows : Ahead(e, f) => Logged(e)

\* What is resolved was handled, and so was a message whose handler is done.
PositionInv ==
    \A l \in Lane : \A i \in Offsets(l) :
        i =< position[l] \/ (done[l] /\ i = position[l] + 1) =>
            log[l][i] \in handled

\* Rows, batches, logs and offsets agree, whatever replicas, failed sends and
\* restarts do in between.
DeliveryInv ==
    /\ DeliveryTypeOK /\ RowsInv /\ AckedInv /\ SentIsLogged
    /\ QueueInv /\ InOrder /\ PositionInv

-----------------------------------------------------------------------------
\* The outbox, Kafka and the consumers are a channel, the one FoodHub assumes:
\* at-least-once delivery of exactly the committed rows.
Promise == INSTANCE Channel WITH
    outbox <- rows,
    bus <- {e \in rows : Logged(e)}

ImplementsChannel == Promise!FairSpec
=============================================================================
