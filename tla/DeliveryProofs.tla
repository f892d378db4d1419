--------------------------- MODULE DeliveryProofs ---------------------------
(***************************************************************************)
(* Proofs about Delivery, for any number of events, partitions, replicas   *)
(* and faults, and any page size.                                          *)
(***************************************************************************)
EXTENDS Delivery, TLAPS

\* Nothing is committed, sent or stored to begin with.
LEMMA DeliveryInitInv == DeliveryInit => DeliveryInv
<1> SUFFICES ASSUME DeliveryInit PROVE DeliveryInv
  OBVIOUS
<1> USE DEF DeliveryInit
<1>1. DeliveryTypeOK
  BY DeliveryAssumption DEF DeliveryTypeOK
<1>2. RowsInv /\ SentIsLogged /\ InOrder /\ PositionInv
  BY DEF RowsInv, SentIsLogged, InOrder, PositionInv, Offsets
<1>3. AckedInv /\ QueueInv
  BY DEF AckedInv, QueueInv
<1> QED BY <1>1, <1>2, <1>3 DEF DeliveryInv

-----------------------------------------------------------------------------
(* What storing an event does to the logs *)

\* The log of one lane grows by one event, which is logged from then on.
LEMMA LogGrows ==
    ASSUME DeliveryTypeOK, NEW e \in rows, log' = Stored(e)
    PROVE  /\ log' \in [Lane -> Seq(Event)]
           /\ \A l \in Lane :
                /\ Len(log'[l]) = IF l = LaneOf[e] THEN Len(log[l]) + 1
                                  ELSE Len(log[l])
                /\ \A i \in Offsets(l) : log'[l][i] = log[l][i]
           /\ log'[LaneOf[e]][Len(log[LaneOf[e]]) + 1] = e
           /\ LaneOf[e] \in Lane
<1>1. e \in Event /\ LaneOf[e] \in Lane /\ log \in [Lane -> Seq(Event)]
  BY DeliveryAssumption DEF DeliveryTypeOK
<1>2. \A l \in Lane :
        log'[l] = IF l = LaneOf[e] THEN Append(log[l], e) ELSE log[l]
  BY <1>1 DEF Stored
<1>3. \A l \in Lane : log[l] \in Seq(Event)
  BY <1>1
<1>4. log' \in [Lane -> Seq(Event)]
  BY <1>1, <1>3 DEF Stored
<1> QED BY <1>1, <1>2, <1>3, <1>4 DEF Offsets

\* The lengths of logs are naturals.
LEMMA LogLength ==
    ASSUME DeliveryTypeOK, NEW l \in Lane
    PROVE  /\ log[l] \in Seq(Event) /\ Len(log[l]) \in Nat
           /\ position[l] \in Nat /\ committed[l] \in Nat
BY DEF DeliveryTypeOK

\* Times are naturals.
LEMMA StampInNat ==
    ASSUME DeliveryTypeOK, NEW e \in rows
    PROVE  createdAt[e] \in Nat
<1>1. \A t \in Stamp \cup {0} : t \in Nat
  BY DeliveryAssumption
<1> QED BY <1>1 DEF DeliveryTypeOK

\* What was logged stays logged.
LEMMA StaysLogged ==
    ASSUME DeliveryTypeOK, NEW e \in rows, log' = Stored(e)
    PROVE  Logged(e)' /\ \A f \in Event : Logged(f) => Logged(f)'
<1>1. LaneOf \in [Event -> Lane] /\ e \in Event
  BY DeliveryAssumption DEF DeliveryTypeOK
<1>2. \A l \in Lane : Len(log[l]) \in Nat
  BY LogLength
<1>3. Logged(e)'
  BY <1>1, <1>2, LogGrows DEF Logged, Offsets
<1>4. ASSUME NEW f \in Event, Logged(f) PROVE Logged(f)'
  <2>1. LaneOf[f] \in Lane
    BY <1>1
  <2>2. PICK i \in Offsets(LaneOf[f]) : log[LaneOf[f]][i] = f
    BY <1>4 DEF Logged
  <2>3. log'[LaneOf[f]][i] = f
    BY <2>1, <2>2, LogGrows
  <2>4. i \in Offsets(LaneOf[f])'
    BY <1>2, <2>1, <2>2, LogGrows DEF Offsets
  <2> QED BY <2>3, <2>4 DEF Logged
<1> QED BY <1>3, <1>4

\* An event is stored when all that is ahead of it is: the logs keep what the
\* invariant says of them.
LEMMA Storing ==
    ASSUME DeliveryInv, NEW e \in rows, log' = Stored(e),
           UNCHANGED <<rows, createdAt, earlier, position, done, handled>>,
           \A f \in rows : Ahead(f, e) => Logged(f)
    PROVE  RowsInv' /\ InOrder' /\ PositionInv'
<1>1. DeliveryTypeOK /\ RowsInv /\ InOrder /\ PositionInv
  BY DEF DeliveryInv
<1>2. \A l \in Lane : Len(log[l]) \in Nat
  BY <1>1, LogLength
<1> PICK k : k = LaneOf[e]
  OBVIOUS
<1> PICK n : n = Len(log[k]) + 1
  OBVIOUS
<1>3. /\ k \in Lane /\ n \in Nat \ {0} /\ log'[k][n] = e
      /\ \A l \in Lane : \A i \in Offsets(l) : log'[l][i] = log[l][i]
  BY <1>1, <1>2, LogGrows
<1>4. ASSUME NEW l \in Lane, NEW i \in Offsets(l)'
      PROVE  i \in Offsets(l) \/ (l = k /\ i = n)
  BY <1>1, <1>2, LogGrows DEF Offsets
<1>5. RowsInv'
  BY <1>1, <1>3, <1>4 DEF RowsInv
<1>6. ASSUME NEW l \in Lane, NEW i \in Offsets(l)', NEW f \in rows,
             Ahead(f, log'[l][i])
      PROVE  \E j \in 1..(i - 1) : log'[l][j] = f
  <2>1. CASE i \in Offsets(l)
    <3>1. log'[l][i] = log[l][i]
      BY <1>3, <2>1
    <3>2. PICK j \in 1..(i - 1) : log[l][j] = f
      BY <1>1, <1>6, <2>1, <3>1 DEF InOrder
    <3>3. j \in Offsets(l)
      BY <1>2, <2>1 DEF Offsets
    <3>4. log'[l][j] = f
      BY <1>3, <3>2, <3>3
    <3> QED BY <3>4
  <2>2. CASE l = k /\ i = n
    <3>1. Ahead(f, e)
      BY <1>3, <1>6, <2>2
    <3>2. Logged(f) /\ LaneOf[f] = k
      BY <3>1 DEF Ahead
    <3>3. PICK j \in Offsets(k) : log[k][j] = f
      BY <3>2 DEF Logged
    <3>4. j \in 1..(i - 1)
      BY <1>2, <1>3, <2>2, <3>3 DEF Offsets
    <3>5. log'[l][j] = f
      BY <1>3, <2>2, <3>3
    <3> QED BY <3>4, <3>5
  <2> QED BY <1>4, <1>6, <2>1, <2>2
<1>7. InOrder'
  BY <1>6 DEF InOrder, Ahead
<1>8. ASSUME NEW l \in Lane, NEW i \in Offsets(l)',
             i =< position[l] \/ (done[l] /\ i = position[l] + 1)
      PROVE  log'[l][i] \in handled
  <2>1. i \in Offsets(l)
    BY <1>1, <1>2, <1>8 DEF DeliveryTypeOK, Offsets
  <2> QED BY <1>1, <1>3, <1>8, <2>1 DEF PositionInv
<1>9. PositionInv'
  BY <1>8 DEF PositionInv
<1> QED BY <1>5, <1>7, <1>9

-----------------------------------------------------------------------------
(* The steps *)

\* A new row is ahead of none that is there.
LEMMA WriteInv ==
    ASSUME DeliveryInv, NEW e \in Event, Write(e)
    PROVE  DeliveryInv'
<1> USE DEF publisherVars, consumerVars
<1>1. /\ e \notin rows /\ rows' = rows \cup {e}
      /\ UNCHANGED <<sent, batch, acked, wire, log, position, done, committed,
                     handled, faults>>
  BY DEF Write
<1>2. PICK t \in Stamp : createdAt' = [createdAt EXCEPT ![e] = t]
  BY DEF Write
<1>3. earlier' = [earlier EXCEPT ![e] = rows]
  BY DEF Write
<1>4. DeliveryTypeOK /\ RowsInv
  BY DEF DeliveryInv
<1>5. DeliveryTypeOK'
  BY <1>1, <1>2, <1>3, <1>4 DEF DeliveryTypeOK
<1>6. \A f \in rows : /\ createdAt'[f] = createdAt[f]
                      /\ earlier'[f] = earlier[f] /\ earlier'[f] \subseteq rows
  BY <1>1, <1>2, <1>3, <1>4 DEF DeliveryTypeOK, RowsInv
<1>7. earlier'[e] = rows
  BY <1>3, <1>4 DEF DeliveryTypeOK
<1>8. RowsInv'
  BY <1>1, <1>4, <1>6, <1>7 DEF RowsInv, Offsets
<1>9. \A f \in rows, x \in rows' : Ahead(x, f)' => x \in rows /\ Ahead(x, f)
  BY <1>1, <1>6 DEF Ahead
<1>10. AckedInv' /\ SentIsLogged' /\ PositionInv'
  BY <1>1 DEF DeliveryInv, AckedInv, SentIsLogged, PositionInv, Logged, Offsets
<1>11. QueueInv'
  <2>1. \A p \in Publisher : batch[p] \subseteq rows
    BY <1>4 DEF DeliveryTypeOK
  <2>2. wire \subseteq rows
    BY <1>4 DEF DeliveryTypeOK
  <2>3. \A f : Logged(f)' <=> Logged(f)
    BY <1>1 DEF Logged, Offsets
  <2> QED BY <1>1, <1>9, <2>1, <2>2, <2>3 DEF DeliveryInv, QueueInv
<1>12. InOrder'
  <2>1. \A l \in Lane : \A i \in Offsets(l) : log[l][i] \in rows
    BY <1>4 DEF RowsInv
  <2> QED BY <1>1, <1>9, <2>1 DEF DeliveryInv, InOrder, Offsets
<1> QED BY <1>5, <1>8, <1>10, <1>11, <1>12 DEF DeliveryInv

\* An older unsent row of a flush's view is on its page, so whatever is ahead
\* of a row of the page is on the page as well or was sent before.
LEMMA FlushInv ==
    ASSUME DeliveryInv, NEW p \in Publisher, Flush(p)
    PROVE  DeliveryInv'
<1> USE DEF outboxVars, consumerVars
<1>1. /\ batch[p] = {}
      /\ UNCHANGED <<rows, createdAt, earlier, sent, acked, wire, log, position,
                     done, committed, handled, faults>>
  BY DEF Flush
<1>2. PICK page \in Pages : batch' = [batch EXCEPT ![p] = page]
  BY DEF Flush
<1>3. DeliveryTypeOK /\ AckedInv /\ SentIsLogged /\ QueueInv
  BY DEF DeliveryInv
<1>4. page \subseteq rows
  BY DEF Pages, Unsent
<1>5. DeliveryTypeOK'
  BY <1>1, <1>2, <1>3, <1>4 DEF DeliveryTypeOK
<1>6. \A q \in Publisher : batch'[q] = IF q = p THEN page ELSE batch[q]
  BY <1>2, <1>3 DEF DeliveryTypeOK
<1>7. \A e : Logged(e)' <=> Logged(e)
  BY <1>1 DEF Logged, Offsets
<1>8. AckedInv'
  BY <1>1, <1>3, <1>6, <1>7 DEF AckedInv
<1>9. ASSUME NEW f \in page, NEW e \in rows, Ahead(e, f)
      PROVE  e \in page \/ Logged(e)
  <2>1. createdAt[e] \in Nat /\ createdAt[f] \in Nat /\ createdAt[e] < createdAt[f]
    BY <1>3, <1>4, <1>9, StampInNat DEF Ahead
  <2>2. e \notin Unsent \ page
    BY <2>1 DEF Pages
  <2> QED BY <1>3, <2>2 DEF Unsent, SentIsLogged
<1>10. \A e, f : Ahead(e, f)' <=> Ahead(e, f)
  BY <1>1 DEF Ahead
<1>11. QueueInv'
  BY <1>1, <1>3, <1>6, <1>7, <1>9, <1>10 DEF QueueInv
<1>12. RowsInv' /\ SentIsLogged' /\ InOrder' /\ PositionInv'
  BY <1>1, <1>7, <1>10
  DEF DeliveryInv, RowsInv, SentIsLogged, InOrder, PositionInv, Offsets
<1> QED BY <1>5, <1>8, <1>11, <1>12 DEF DeliveryInv

\* The oldest row of a batch has nothing ahead of it in the batch, so all that
\* is ahead of it is in Kafka.
LEMMA CurrentIsNext ==
    ASSUME DeliveryInv, NEW p \in Publisher, NEW e \in Current(p)
    PROVE  /\ e \in batch[p] /\ e \in rows
           /\ \A f \in rows : Ahead(f, e) => Logged(f)
<1>1. e \in batch[p] /\ e \in rows
  BY DEF Current, DeliveryInv, DeliveryTypeOK
<1>2. ASSUME NEW f \in rows, Ahead(f, e) PROVE Logged(f)
  <2>1. createdAt[e] \in Nat /\ createdAt[f] \in Nat /\ createdAt[f] < createdAt[e]
    BY <1>1, <1>2, StampInNat DEF DeliveryInv, Ahead
  <2>2. f \notin batch[p]
    BY <2>1 DEF Current
  <2> QED BY <1>1, <1>2, <2>2 DEF DeliveryInv, QueueInv
<1> QED BY <1>1, <1>2

\* A send that is acknowledged keeps the invariant: the event is in the log
\* before it counts as acked.
LEMMA SendInv ==
    ASSUME DeliveryInv, NEW p \in Publisher, Send(p)
    PROVE  DeliveryInv'
<1> USE DEF outboxVars, consumerVars
<1>1. UNCHANGED <<rows, createdAt, earlier, sent, batch, wire, position, done,
                  committed, handled, faults>>
  BY DEF Send
<1>2. PICK e \in Current(p) :
        log' = Stored(e) /\ acked' = [acked EXCEPT ![p] = e]
  BY DEF Send
<1>3. /\ e \in batch[p] /\ e \in rows
      /\ \A f \in rows : Ahead(f, e) => Logged(f)
  BY CurrentIsNext
<1>4. DeliveryTypeOK /\ AckedInv /\ SentIsLogged /\ QueueInv
  BY DEF DeliveryInv
<1>5. RowsInv' /\ InOrder' /\ PositionInv'
  BY <1>1, <1>2, <1>3, Storing
<1>6. Logged(e)' /\ \A f \in Event : Logged(f) => Logged(f)'
  BY <1>2, <1>3, <1>4, StaysLogged
<1>7. DeliveryTypeOK'
  <2>1. log' \in [Lane -> Seq(Event)]
    BY <1>2, <1>3, <1>4, LogGrows
  <2>2. \A l \in Lane : Len(log[l]) =< Len(log'[l]) /\ Len(log'[l]) \in Nat
    BY <1>2, <1>3, <1>4, <2>1, LogGrows, LogLength
  <2>3. \A l \in Lane : position[l] =< Len(log'[l])
                        /\ (done[l] => position[l] < Len(log'[l]))
    BY <1>4, <2>2, LogLength DEF DeliveryTypeOK
  <2> QED BY <1>1, <1>2, <1>3, <1>4, <2>1, <2>3 DEF DeliveryTypeOK
<1>8. rows \subseteq Event /\ \A q \in Publisher : batch[q] \subseteq rows
  BY <1>4 DEF DeliveryTypeOK
<1>9. AckedInv'
  <2>1. \A q \in Publisher : acked'[q] = IF q = p THEN e ELSE acked[q]
    BY <1>2, <1>4 DEF DeliveryTypeOK
  <2> QED BY <1>1, <1>3, <1>4, <1>6, <1>8, <2>1 DEF AckedInv
<1>10. SentIsLogged'
  BY <1>1, <1>4, <1>6 DEF SentIsLogged, DeliveryTypeOK
<1>11. QueueInv'
  BY <1>1, <1>4, <1>6, <1>8 DEF QueueInv, Ahead
<1> QED BY <1>5, <1>7, <1>9, <1>10, <1>11 DEF DeliveryInv

\* A send that fails keeps it: the flush gives up its batch, whether or not
\* the broker got the event.
LEMMA SendFailsInv ==
    ASSUME DeliveryInv, NEW p \in Publisher, SendFails(p)
    PROVE  DeliveryInv'
<1> USE DEF outboxVars, consumerVars
<1>1. /\ UNCHANGED <<rows, createdAt, earlier, sent, acked, log, position, done,
                     committed, handled>>
      /\ faults < MaxFaults /\ faults' = faults + 1
      /\ batch' = [batch EXCEPT ![p] = {}] /\ acked[p] = Null
  BY DEF SendFails, Fault
<1>2. PICK e \in Current(p) : wire' = wire \cup {e}
  BY DEF SendFails
<1>3. e \in rows /\ \A f \in rows : Ahead(f, e) => Logged(f)
  BY CurrentIsNext
<1>4. DeliveryTypeOK /\ AckedInv /\ QueueInv
  BY DEF DeliveryInv
<1>5. DeliveryTypeOK'
  BY <1>1, <1>2, <1>3, <1>4, DeliveryAssumption DEF DeliveryTypeOK
<1>6. \A q \in Publisher : batch'[q] = IF q = p THEN {} ELSE batch[q]
  BY <1>1, <1>4 DEF DeliveryTypeOK
<1>7. \A f : Logged(f)' <=> Logged(f)
  BY <1>1 DEF Logged, Offsets
<1>8. AckedInv'
  BY <1>1, <1>4, <1>6, <1>7 DEF AckedInv
<1>9. QueueInv'
  BY <1>1, <1>2, <1>3, <1>4, <1>6, <1>7 DEF QueueInv, Ahead
<1>10. RowsInv' /\ SentIsLogged' /\ InOrder' /\ PositionInv'
  BY <1>1, <1>7
  DEF DeliveryInv, RowsInv, SentIsLogged, InOrder, PositionInv, Offsets, Ahead
<1> QED BY <1>5, <1>8, <1>9, <1>10 DEF DeliveryInv

\* Marking keeps it: only an acked event of the batch becomes sent.
LEMMA MarkInv ==
    ASSUME DeliveryInv, NEW p \in Publisher, Mark(p)
    PROVE  DeliveryInv'
<1> USE DEF outboxVars, consumerVars
<1> PICK e : e = acked[p]
  OBVIOUS
<1>1. /\ UNCHANGED <<rows, createdAt, earlier, wire, log, position, done,
                     committed, handled, faults>>
      /\ e # Null /\ sent' = sent \cup {e}
      /\ batch' = [batch EXCEPT ![p] = @ \ {e}]
      /\ acked' = [acked EXCEPT ![p] = Null]
  BY DEF Mark
<1>2. DeliveryTypeOK /\ AckedInv /\ SentIsLogged /\ QueueInv
  BY DEF DeliveryInv
<1>3. e \in batch[p] /\ e \in rows /\ Logged(e)
  BY <1>1, <1>2 DEF AckedInv, DeliveryTypeOK
<1>4. DeliveryTypeOK'
  BY <1>1, <1>2, <1>3 DEF DeliveryTypeOK
<1>5. \A q \in Publisher :
        /\ batch'[q] = IF q = p THEN batch[q] \ {e} ELSE batch[q]
        /\ acked'[q] = IF q = p THEN Null ELSE acked[q]
  BY <1>1, <1>2 DEF DeliveryTypeOK
<1>6. \A f : Logged(f)' <=> Logged(f)
  BY <1>1 DEF Logged, Offsets
<1>7. AckedInv' /\ SentIsLogged'
  BY <1>1, <1>2, <1>3, <1>5, <1>6 DEF AckedInv, SentIsLogged
<1>8. QueueInv'
  BY <1>1, <1>2, <1>3, <1>5, <1>6 DEF QueueInv, Ahead
<1>9. RowsInv' /\ InOrder' /\ PositionInv'
  BY <1>1 DEF DeliveryInv, RowsInv, InOrder, PositionInv, Offsets, Ahead
<1> QED BY <1>4, <1>7, <1>8, <1>9 DEF DeliveryInv

\* The death of a publisher keeps it: its batch is forgotten, the rows stay unsent.
LEMMA DieInv ==
    ASSUME DeliveryInv, NEW p \in Publisher, Die(p)
    PROVE  DeliveryInv'
<1> USE DEF outboxVars, consumerVars
<1>1. /\ UNCHANGED <<rows, createdAt, earlier, sent, wire, log, position, done,
                     committed, handled>>
      /\ faults < MaxFaults /\ faults' = faults + 1
      /\ batch' = [batch EXCEPT ![p] = {}]
      /\ acked' = [acked EXCEPT ![p] = Null]
  BY DEF Die, Fault
<1>2. DeliveryTypeOK /\ AckedInv /\ QueueInv
  BY DEF DeliveryInv
<1>3. DeliveryTypeOK'
  BY <1>1, <1>2, DeliveryAssumption DEF DeliveryTypeOK
<1>4. \A q \in Publisher :
        /\ batch'[q] = IF q = p THEN {} ELSE batch[q]
        /\ acked'[q] = IF q = p THEN Null ELSE acked[q]
  BY <1>1, <1>2 DEF DeliveryTypeOK
<1>5. \A f : Logged(f)' <=> Logged(f)
  BY <1>1 DEF Logged, Offsets
<1>6. AckedInv' /\ QueueInv'
  BY <1>1, <1>2, <1>4, <1>5 DEF AckedInv, QueueInv, Ahead
<1>7. RowsInv' /\ SentIsLogged' /\ InOrder' /\ PositionInv'
  BY <1>1, <1>5
  DEF DeliveryInv, RowsInv, SentIsLogged, InOrder, PositionInv, Offsets, Ahead
<1> QED BY <1>3, <1>6, <1>7 DEF DeliveryInv

\* A late arrival keeps it: the log only grows.
LEMMA ArriveInv ==
    ASSUME DeliveryInv, NEW e \in Event, Arrive(e)
    PROVE  DeliveryInv'
<1> USE DEF outboxVars, publisherVars, consumerVars
<1>1. /\ UNCHANGED <<rows, createdAt, earlier, sent, batch, acked, position,
                     done, committed, handled, faults>>
      /\ e \in wire /\ wire' = wire \ {e}
  BY DEF Arrive
<1>2. DeliveryTypeOK /\ AckedInv /\ SentIsLogged /\ QueueInv
  BY DEF DeliveryInv
<1>3. e \in rows /\ \A f \in rows : Ahead(f, e) => Logged(f)
  BY <1>1, <1>2 DEF DeliveryTypeOK, QueueInv
<1>4. CASE log' = log
  <2>1. \A f : Logged(f)' <=> Logged(f)
    BY <1>4 DEF Logged, Offsets
  <2>2. DeliveryTypeOK'
    BY <1>1, <1>2, <1>4 DEF DeliveryTypeOK
  <2>3. AckedInv' /\ SentIsLogged'
    BY <1>1, <1>2, <2>1 DEF AckedInv, SentIsLogged
  <2>4. QueueInv'
    BY <1>1, <1>2, <2>1 DEF QueueInv, Ahead
  <2>5. RowsInv' /\ InOrder' /\ PositionInv'
    BY <1>1, <1>4 DEF DeliveryInv, RowsInv, InOrder, PositionInv, Offsets, Ahead
  <2> QED BY <2>2, <2>3, <2>4, <2>5 DEF DeliveryInv
<1>5. CASE log' = Stored(e)
  <2>1. RowsInv' /\ InOrder' /\ PositionInv'
    BY <1>1, <1>3, <1>5, Storing
  <2>2. \A f \in Event : Logged(f) => Logged(f)'
    BY <1>2, <1>3, <1>5, StaysLogged
  <2>3. DeliveryTypeOK'
    <3>1. log' \in [Lane -> Seq(Event)]
      BY <1>2, <1>3, <1>5, LogGrows
    <3>2. \A l \in Lane : Len(log[l]) =< Len(log'[l]) /\ Len(log'[l]) \in Nat
      BY <1>2, <1>3, <1>5, <3>1, LogGrows, LogLength
    <3>3. \A l \in Lane : position[l] =< Len(log'[l])
                          /\ (done[l] => position[l] < Len(log'[l]))
      BY <1>2, <3>2, LogLength DEF DeliveryTypeOK
    <3> QED BY <1>1, <1>2, <3>1, <3>3 DEF DeliveryTypeOK
  <2>4. rows \subseteq Event /\ sent \subseteq rows
        /\ \A q \in Publisher : batch[q] \subseteq rows
    BY <1>2 DEF DeliveryTypeOK
  <2>5. AckedInv' /\ SentIsLogged'
    BY <1>1, <1>2, <2>2, <2>4 DEF AckedInv, SentIsLogged
  <2>6. QueueInv'
    BY <1>1, <1>2, <2>2, <2>4 DEF QueueInv, Ahead
  <2> QED BY <2>1, <2>3, <2>5, <2>6 DEF DeliveryInv
<1> QED BY <1>4, <1>5 DEF Arrive

-----------------------------------------------------------------------------
(* The consumer *)

\* The producers do not see the consumer.
LEMMA ConsumerFrame ==
    ASSUME DeliveryInv,
           UNCHANGED <<outboxVars, publisherVars, wire, log>>
    PROVE  RowsInv' /\ AckedInv' /\ SentIsLogged' /\ QueueInv' /\ InOrder'
<1> USE DEF outboxVars, publisherVars
<1>1. \A f : Logged(f)' <=> Logged(f)
  BY DEF Logged, Offsets
<1>2. \A e, f : Ahead(e, f)' <=> Ahead(e, f)
  BY DEF Ahead
<1>3. RowsInv' /\ AckedInv' /\ SentIsLogged'
  BY <1>1 DEF DeliveryInv, RowsInv, AckedInv, SentIsLogged, Offsets
<1> QED BY <1>1, <1>2, <1>3 DEF DeliveryInv, QueueInv, InOrder, Offsets

\* Handling the next record keeps it: what was handled before stays handled.
LEMMA HandleInv ==
    ASSUME DeliveryInv, NEW l \in Lane, Handle(l)
    PROVE  DeliveryInv'
<1> PICK e : e = log[l][position[l] + 1]
  OBVIOUS
<1>1. /\ UNCHANGED <<outboxVars, publisherVars, wire, log>>
      /\ UNCHANGED <<position, committed, faults>>
      /\ position[l] < Len(log[l]) /\ handled' = handled \cup {e}
      /\ done' = [done EXCEPT ![l] = TRUE]
  BY DEF Handle
<1>2. DeliveryTypeOK /\ RowsInv /\ PositionInv
  BY DEF DeliveryInv
<1>3. position[l] + 1 \in Offsets(l)
  BY <1>1, <1>2, LogLength DEF Offsets
<1>4. e \in rows
  BY <1>2, <1>3 DEF RowsInv
<1>5. DeliveryTypeOK'
  BY <1>1, <1>2, <1>4 DEF DeliveryTypeOK, outboxVars, publisherVars
<1>6. \A k \in Lane : done'[k] = IF k = l THEN TRUE ELSE done[k]
  BY <1>1, <1>2 DEF DeliveryTypeOK
<1>7. PositionInv'
  BY <1>1, <1>2, <1>6 DEF PositionInv, Offsets
<1> QED BY <1>1, <1>5, <1>7, ConsumerFrame DEF DeliveryInv

\* The resolution of an offset keeps it: the record has been handled by then.
LEMMA ResolveInv ==
    ASSUME DeliveryInv, NEW l \in Lane, Resolve(l)
    PROVE  DeliveryInv'
<1>1. /\ UNCHANGED <<outboxVars, publisherVars, wire, log>>
      /\ UNCHANGED <<committed, handled, faults>>
      /\ done[l] /\ done' = [done EXCEPT ![l] = FALSE]
      /\ position' = [position EXCEPT ![l] = @ + 1]
  BY DEF Resolve
<1>2. DeliveryTypeOK /\ PositionInv
  BY DEF DeliveryInv
<1>3. \A k \in Lane :
        /\ done'[k] => k # l /\ done[k]
        /\ position'[k] = IF k = l THEN position[k] + 1 ELSE position[k]
  BY <1>1, <1>2 DEF DeliveryTypeOK
<1>4. \A k \in Lane : committed[k] =< position'[k] /\ position'[k] =< Len(log[k])
                      /\ (done'[k] => position'[k] < Len(log[k]))
  BY <1>1, <1>2, <1>3, LogLength DEF DeliveryTypeOK
<1>5. DeliveryTypeOK'
  BY <1>1, <1>2, <1>4 DEF DeliveryTypeOK, outboxVars, publisherVars
<1>6. PositionInv'
  <2>1. ASSUME NEW k \in Lane, NEW i \in Offsets(k)',
               i =< position'[k] \/ (done'[k] /\ i = position'[k] + 1)
        PROVE  log'[k][i] \in handled'
    <3>1. i \in Offsets(k) /\ position[k] \in Nat
      BY <1>1, <1>2, LogLength DEF Offsets
    <3>2. i =< position[k] \/ (done[k] /\ i = position[k] + 1)
      BY <1>1, <1>3, <2>1, <3>1 DEF Offsets
    <3>3. log[k][i] \in handled
      BY <1>2, <3>1, <3>2 DEF PositionInv
    <3> QED BY <1>1, <3>3
  <2> QED BY <2>1 DEF PositionInv
<1> QED BY <1>1, <1>5, <1>6, ConsumerFrame DEF DeliveryInv

\* A commit keeps it: only resolved offsets are committed.
LEMMA CommitInv ==
    ASSUME DeliveryInv, NEW l \in Lane, Commit(l)
    PROVE  DeliveryInv'
<1>1. /\ UNCHANGED <<outboxVars, publisherVars, wire, log>>
      /\ UNCHANGED <<position, done, handled, faults>>
      /\ committed' = [committed EXCEPT ![l] = position[l]]
  BY DEF Commit
<1>2. DeliveryTypeOK /\ PositionInv
  BY DEF DeliveryInv
<1>3. \A k \in Lane : committed'[k] =< position[k]
  BY <1>1, <1>2, LogLength DEF DeliveryTypeOK
<1>4. DeliveryTypeOK'
  BY <1>1, <1>2, <1>3 DEF DeliveryTypeOK, outboxVars, publisherVars
<1>5. PositionInv'
  BY <1>1, <1>2 DEF PositionInv, Offsets
<1> QED BY <1>1, <1>4, <1>5, ConsumerFrame DEF DeliveryInv

\* A restart of the consumer keeps it: it reads again from the committed offset.
LEMMA RestartInv ==
    ASSUME DeliveryInv, NEW l \in Lane, Restart(l)
    PROVE  DeliveryInv'
<1>1. /\ UNCHANGED <<outboxVars, publisherVars, wire, log>>
      /\ UNCHANGED <<committed, handled>>
      /\ faults < MaxFaults /\ faults' = faults + 1
      /\ position' = [position EXCEPT ![l] = committed[l]]
      /\ done' = [done EXCEPT ![l] = FALSE]
  BY DEF Restart, Fault
<1>2. DeliveryTypeOK /\ PositionInv
  BY DEF DeliveryInv
<1>3. \A k \in Lane :
        /\ done'[k] => k # l /\ done[k]
        /\ position'[k] = IF k = l THEN committed[k] ELSE position[k]
  BY <1>1, <1>2 DEF DeliveryTypeOK
<1>4. \A k \in Lane : committed[k] =< position'[k] /\ position'[k] =< Len(log[k])
                      /\ (done'[k] => position'[k] < Len(log[k]))
  <2>1. \A k \in Lane : committed[k] \in Nat /\ position[k] \in Nat
                        /\ Len(log[k]) \in Nat
    BY <1>2, LogLength
  <2>2. \A k \in Lane : committed[k] =< position[k] /\ position[k] =< Len(log[k])
                        /\ (done[k] => position[k] < Len(log[k]))
    BY <1>2 DEF DeliveryTypeOK
  <2> QED BY <1>3, <2>1, <2>2
<1>5. DeliveryTypeOK'
  BY <1>1, <1>2, <1>4, DeliveryAssumption
  DEF DeliveryTypeOK, outboxVars, publisherVars
<1>6. PositionInv'
  <2>1. ASSUME NEW k \in Lane, NEW i \in Offsets(k)',
               i =< position'[k] \/ (done'[k] /\ i = position'[k] + 1)
        PROVE  log'[k][i] \in handled'
    <3>1. i \in Offsets(k) /\ committed[k] \in Nat /\ position[k] \in Nat
          /\ committed[k] =< position[k]
      BY <1>1, <1>2, LogLength DEF Offsets, DeliveryTypeOK
    <3>2. i =< position[k] \/ (done[k] /\ i = position[k] + 1)
      BY <1>3, <2>1, <3>1 DEF Offsets
    <3>3. log[k][i] \in handled
      BY <1>2, <3>1, <3>2 DEF PositionInv
    <3> QED BY <1>1, <3>3
  <2> QED BY <2>1 DEF PositionInv
<1> QED BY <1>1, <1>5, <1>6, ConsumerFrame DEF DeliveryInv

-----------------------------------------------------------------------------
(* The invariant and what follows from it *)

\* Every step keeps the invariant.
LEMMA DeliveryStep == DeliveryInv /\ [DeliveryNext]_deliveryVars => DeliveryInv'
<1> SUFFICES ASSUME DeliveryInv, [DeliveryNext]_deliveryVars PROVE DeliveryInv'
  OBVIOUS
<1>1. ASSUME NEW e \in Event, Write(e) \/ Arrive(e) PROVE DeliveryInv'
  BY <1>1, WriteInv, ArriveInv
<1>2. ASSUME NEW p \in Publisher,
             Flush(p) \/ Send(p) \/ SendFails(p) \/ Mark(p) \/ Die(p)
      PROVE  DeliveryInv'
  BY <1>2, FlushInv, SendInv, SendFailsInv, MarkInv, DieInv
<1>3. ASSUME NEW l \in Lane, Handle(l) \/ Resolve(l) \/ Commit(l) \/ Restart(l)
      PROVE  DeliveryInv'
  BY <1>3, HandleInv, ResolveInv, CommitInv, RestartInv
<1>4. CASE UNCHANGED deliveryVars
  <2>1. UNCHANGED <<outboxVars, publisherVars, wire, log>>
        /\ UNCHANGED <<position, done, committed, handled, faults>>
    BY <1>4 DEF deliveryVars, consumerVars
  <2>2. DeliveryTypeOK' /\ PositionInv'
    BY <2>1 DEF DeliveryInv, DeliveryTypeOK, PositionInv, Offsets,
                outboxVars, publisherVars
  <2> QED BY <2>1, <2>2, ConsumerFrame DEF DeliveryInv
<1> QED BY <1>1, <1>2, <1>3, <1>4 DEF DeliveryNext

\* Rows, batches, logs and offsets always agree as DeliveryInv says.
THEOREM DeliveryInvariance == DeliverySpec => []DeliveryInv
<1> QED BY DeliveryInitInv, DeliveryStep, PTL DEF DeliverySpec

\* The variables of the delivery of events keep their types.
THEOREM DeliveryTypeCorrect == DeliverySpec => []DeliveryTypeOK
<1>1. DeliveryInv => DeliveryTypeOK
  BY DEF DeliveryInv
<1> QED BY <1>1, DeliveryInvariance, PTL

\* A row is marked as sent only when its event is in Kafka.
THEOREM NothingMarkedEarly == DeliverySpec => []SentIsLogged
<1>1. DeliveryInv => SentIsLogged
  BY DEF DeliveryInv
<1> QED BY <1>1, DeliveryInvariance, PTL

\* A stored offset never passes an event that was not handled.
THEOREM NothingSkipped == DeliverySpec => []CommittedIsHandled
<1>1. DeliveryInv => CommittedIsHandled
  <2> SUFFICES ASSUME DeliveryInv, NEW l \in Lane, NEW i \in Offsets(l),
                      i =< committed[l]
               PROVE  log[l][i] \in handled
    BY DEF CommittedIsHandled
  <2>1. i =< position[l]
    BY LogLength DEF DeliveryInv, DeliveryTypeOK, Offsets
  <2> QED BY <2>1 DEF DeliveryInv, PositionInv
<1> QED BY <1>1, DeliveryInvariance, PTL

\* Within a partition, events arrive behind those that are ahead of them.
THEOREM OrderKept == DeliverySpec => []InOrder
<1>1. DeliveryInv => InOrder
  BY DEF DeliveryInv
<1> QED BY <1>1, DeliveryInvariance, PTL

-----------------------------------------------------------------------------
(* Delivery implements Channel *)

Bus == {e \in rows : Logged(e)}

\* Storing an event of a row publishes it, or publishes it again.
LEMMA StoringPublishes ==
    ASSUME DeliveryInv, NEW e \in rows, log' = Stored(e),
           UNCHANGED <<rows, handled>>
    PROVE  [Promise!Next]_(Promise!channelVars)
<1>1. DeliveryTypeOK /\ RowsInv
  BY DEF DeliveryInv
<1>2. rows \subseteq Event
  BY <1>1 DEF DeliveryTypeOK
<1>3. Logged(e)' /\ \A f \in Event : Logged(f) => Logged(f)'
  BY <1>1, StaysLogged
<1>4. ASSUME NEW f \in rows, Logged(f)', f # e PROVE Logged(f)
  <2> PICK k : k = LaneOf[f]
    OBVIOUS
  <2>1. k \in Lane
    BY <1>2, DeliveryAssumption
  <2>2. PICK i \in Offsets(k)' : log'[k][i] = f
    BY <1>4 DEF Logged
  <2>3. i \in Offsets(k) \/ (k = LaneOf[e] /\ i = Len(log[k]) + 1)
    BY <1>1, <2>1, <2>2, LogGrows, LogLength DEF Offsets
  <2>4. i \in Offsets(k)
    BY <1>1, <1>4, <2>2, <2>3, LogGrows
  <2>5. log[k][i] = f
    BY <1>1, <2>1, <2>2, <2>4, LogGrows
  <2> QED BY <2>4, <2>5 DEF Logged
<1>5. Bus' = Bus \cup {e}
  BY <1>2, <1>3, <1>4 DEF Bus
<1>6. CASE e \in Bus
  <2>1. Bus' = Bus
    BY <1>5, <1>6
  <2> QED BY <2>1 DEF Bus, Promise!channelVars
<1>7. CASE e \notin Bus
  <2>1. Promise!Publish(e)
    BY <1>5, <1>7 DEF Bus, Promise!Publish
  <2> QED BY <1>2, <2>1 DEF Promise!Next
<1> QED BY <1>6, <1>7

\* Every step of the tables, Kafka and the consumers is a step of the channel
\* or none at all.
LEMMA ChannelStep ==
    DeliveryInv /\ [DeliveryNext]_deliveryVars
        => [Promise!Next]_(Promise!channelVars)
<1> SUFFICES ASSUME DeliveryInv, [DeliveryNext]_deliveryVars
             PROVE  [Promise!Next]_(Promise!channelVars)
  OBVIOUS
<1>1. DeliveryTypeOK /\ RowsInv
  BY DEF DeliveryInv
<1>2. rows \subseteq Event
  BY <1>1 DEF DeliveryTypeOK
<1>3. ASSUME UNCHANGED <<rows, log, handled>>
      PROVE  [Promise!Next]_(Promise!channelVars)
  <2>1. \A e : Logged(e)' <=> Logged(e)
    BY <1>3 DEF Logged, Offsets
  <2>2. Bus' = Bus
    BY <1>3, <2>1 DEF Bus
  <2> QED BY <1>3, <2>2 DEF Bus, Promise!channelVars
<1>4. ASSUME NEW e \in Event, Write(e)
      PROVE  [Promise!Next]_(Promise!channelVars)
  <2>1. e \notin rows /\ rows' = rows \cup {e} /\ UNCHANGED <<log, handled>>
    BY <1>4 DEF Write, consumerVars
  <2>2. ~Logged(e)
    <3>1. LaneOf[e] \in Lane
      BY DeliveryAssumption
    <3> QED BY <1>1, <2>1, <3>1 DEF Logged, RowsInv
  <2>3. \A f : Logged(f)' <=> Logged(f)
    BY <2>1 DEF Logged, Offsets
  <2>4. Bus' = Bus
    BY <2>1, <2>2, <2>3 DEF Bus
  <2>5. Promise!Write(e)
    BY <2>1, <2>4 DEF Bus, Promise!Write
  <2> QED BY <2>5 DEF Promise!Next
<1>5. ASSUME NEW e \in Event, Arrive(e)
      PROVE  [Promise!Next]_(Promise!channelVars)
  <2>1. e \in rows /\ UNCHANGED <<rows, handled>>
    BY <1>1, <1>5 DEF Arrive, DeliveryTypeOK, outboxVars, consumerVars
  <2>2. CASE log' = log
    BY <1>3, <2>1, <2>2
  <2>3. CASE log' = Stored(e)
    BY <2>1, <2>3, StoringPublishes
  <2> QED BY <1>5, <2>2, <2>3 DEF Arrive
<1>6. ASSUME NEW p \in Publisher, Send(p)
      PROVE  [Promise!Next]_(Promise!channelVars)
  <2>1. PICK e \in Current(p) : log' = Stored(e)
    BY <1>6 DEF Send
  <2>2. e \in rows
    BY CurrentIsNext
  <2>3. UNCHANGED <<rows, handled>>
    BY <1>6 DEF Send, outboxVars, consumerVars
  <2> QED BY <2>1, <2>2, <2>3, StoringPublishes
<1>7. ASSUME NEW p \in Publisher, Flush(p) \/ SendFails(p) \/ Mark(p) \/ Die(p)
      PROVE  [Promise!Next]_(Promise!channelVars)
  BY <1>3, <1>7 DEF Flush, SendFails, Mark, Die, outboxVars, consumerVars
<1>8. ASSUME NEW l \in Lane, Handle(l)
      PROVE  [Promise!Next]_(Promise!channelVars)
  <2> PICK e : e = log[l][position[l] + 1]
    OBVIOUS
  <2>1. /\ UNCHANGED <<rows, log>> /\ handled' = handled \cup {e}
        /\ position[l] < Len(log[l])
    BY <1>8 DEF Handle, outboxVars
  <2>2. position[l] + 1 \in Offsets(l)
    BY <1>1, <2>1, LogLength DEF Offsets
  <2>3. e \in rows /\ LaneOf[e] = l
    BY <1>1, <2>2 DEF RowsInv
  <2>4. e \in Bus
    BY <2>2, <2>3 DEF Bus, Logged
  <2>5. \A f : Logged(f)' <=> Logged(f)
    BY <2>1 DEF Logged, Offsets
  <2>6. Bus' = Bus
    BY <2>1, <2>5 DEF Bus
  <2>7. CASE e \in handled
    <3>1. handled' = handled
      BY <2>1, <2>7
    <3> QED BY <1>3, <2>1, <3>1
  <2>8. CASE e \notin handled
    <3>1. Promise!Handle(e)
      BY <2>1, <2>4, <2>6, <2>8 DEF Bus, Promise!Handle
    <3> QED BY <1>2, <2>3, <3>1 DEF Promise!Next
  <2> QED BY <2>7, <2>8
<1>9. ASSUME NEW l \in Lane, Resolve(l) \/ Commit(l) \/ Restart(l)
      PROVE  [Promise!Next]_(Promise!channelVars)
  BY <1>3, <1>9 DEF Resolve, Commit, Restart, outboxVars
<1>10. CASE UNCHANGED deliveryVars
  BY <1>3, <1>10 DEF deliveryVars, outboxVars, consumerVars
<1> QED BY <1>4, <1>5, <1>6, <1>7, <1>8, <1>9, <1>10 DEF DeliveryNext

\* The outboxes, Kafka and the consumer groups together deliver exactly the
\* committed events, at least once and in any order, as FoodHub assumes.
THEOREM DeliveryIsChannel == DeliverySpec => Promise!Spec
<1>1. DeliveryInit => Promise!Init
  BY DEF DeliveryInit, Promise!Init
<1> QED BY <1>1, ChannelStep, DeliveryInvariance, PTL DEF DeliverySpec, Promise!Spec
=============================================================================
