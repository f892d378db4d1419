---------------------------- MODULE Notifications ---------------------------
(***************************************************************************)
(* notification-service (notifications.service.ts): the inboxes and the    *)
(* dedupe markers it keeps in Redis.  record() reads the clock and then    *)
(* runs one Lua script; other calls of record() may run in between, and    *)
(* Kafka may deliver an event again at any time.                           *)
(***************************************************************************)
EXTENDS Naturals, FiniteSets

CONSTANTS
    Event,          \* events, in the order of their serialised forms
    User,
    UserOf,         \* UserOf[e]: the user of the event's payload
    Admin,          \* names the inbox of the administrator
    Recorder,       \* calls of record() that may be in progress
    Cap,            \* how many items an inbox keeps: 100 in the code
    Retain,         \* how long markers and inboxes live: seven days
    MaxTime,        \* bound: the clock stops
    Null

ASSUME NotificationsAssumption ==
    /\ Event \subseteq Nat
    /\ UserOf \in [Event -> User]
    /\ Admin \notin User
    /\ Cap \in Nat \ {0} /\ Retain \in Nat \ {0} /\ MaxTime \in Nat
    /\ Null \notin Event

VARIABLES
    clock,
    seen,           \* seen[e]: the marker of e; it exists until it expires
    inbox,          \* inbox[k]: the items of a sorted set
    expires,        \* expires[k]: when that set expires
    recording       \* recording[r]: what record() call r is about to store

notificationVars == <<clock, seen, inbox, expires, recording>>

Inbox == User \cup {Admin}

Time == 0..MaxTime

\* The score, at, is the clock of the service; stored is that of Redis.
Item == [event : Event, at : Time, stored : Time]

NotificationsTypeOK ==
    /\ clock \in Time
    /\ seen \in [Event -> [until : Nat, at : Time]]
    /\ inbox \in [Inbox -> SUBSET Item]
    /\ \A k \in Inbox : Cardinality(inbox[k]) =< Cap
    /\ expires \in [Inbox -> Nat]
    /\ recording \in [Recorder -> [event : Event \cup {Null}, at : Time]]

Quiet == [event |-> Null, at |-> 0]

NotificationsInit ==
    /\ clock = 0
    /\ seen = [e \in Event |-> [until |-> 0, at |-> 0]]
    /\ inbox = [k \in Inbox |-> {}]
    /\ expires = [k \in Inbox |-> 0]
    /\ recording = [r \in Recorder |-> Quiet]

Marked(e) == clock < seen[e].until

\* What Redis holds under the key of an inbox, and list() returns.
Shown(k) == IF clock < expires[k] THEN inbox[k] ELSE {}

\* A sorted set orders by score and then by member.
Above(x, y) == x.at > y.at \/ (x.at = y.at /\ x.event > y.event)

\* Mutated form: nothing is trimmed
TrimmedNever(items) == items

\* Mutated form: the trimming starts from the other end
TrimmedNewest(items) ==
    {x \in items : Cardinality({y \in items : Above(x, y)}) < Cap}

\* ZREMRANGEBYRANK 0 -101: the lowest ranks go.
Trimmed(items) ==
    {x \in items : Cardinality({y \in items : Above(y, x)}) < Cap}

\* ZADD of a member that is there changes nothing.
Added(items, item) ==
    IF \E x \in items : x.event = item.event /\ x.at = item.at
    THEN items ELSE items \cup {item}

-----------------------------------------------------------------------------
\* An event is delivered: record() reads the clock.
Record(r, e) ==
    /\ recording[r] = Quiet
    /\ recording' = [recording EXCEPT ![r] = [event |-> e, at |-> clock]]
    /\ UNCHANGED <<clock, seen, inbox, expires>>

\* Mutated form: the marker is not looked at
StoreAgain(r) ==
    LET e == recording[r].event
        item == [event |-> e, at |-> recording[r].at, stored |-> clock]
        keys == {UserOf[e], Admin}
    IN /\ e # Null
       /\ seen' = [seen EXCEPT ![e] = [until |-> clock + Retain, at |-> item.at]]
       /\ inbox' = [k \in Inbox |->
            IF k \in keys THEN Trimmed(Added(Shown(k), item)) ELSE inbox[k]]
       /\ expires' = [k \in Inbox |->
            IF k \in keys THEN clock + Retain ELSE expires[k]]
       /\ recording' = [recording EXCEPT ![r] = Quiet]
       /\ UNCHANGED clock

\* The script stores the event in both inboxes and marks it ...
Store(r) ==
    LET e == recording[r].event
        item == [event |-> e, at |-> recording[r].at, stored |-> clock]
        keys == {UserOf[e], Admin}
    IN /\ e # Null /\ ~Marked(e)
       /\ seen' = [seen EXCEPT ![e] = [until |-> clock + Retain, at |-> item.at]]
       /\ inbox' = [k \in Inbox |->
            IF k \in keys THEN Trimmed(Added(Shown(k), item)) ELSE inbox[k]]
       /\ expires' = [k \in Inbox |->
            IF k \in keys THEN clock + Retain ELSE expires[k]]
       /\ recording' = [recording EXCEPT ![r] = Quiet]
       /\ UNCHANGED clock

\* ... or finds it marked; or Redis cannot be reached, or the process dies,
\* and Kafka delivers the event again.
StoreNothing(r) ==
    /\ recording[r] # Quiet
    /\ recording' = [recording EXCEPT ![r] = Quiet]
    /\ UNCHANGED <<clock, seen, inbox, expires>>

Tick ==
    /\ clock < MaxTime
    /\ clock' = clock + 1
    /\ UNCHANGED <<seen, inbox, expires, recording>>

NotificationsNext ==
    \/ \E r \in Recorder :
        (\E e \in Event : Record(r, e)) \/ Store(r) \/ StoreNothing(r)
    \/ Tick

NotificationsSpec == NotificationsInit /\ [][NotificationsNext]_notificationVars

-----------------------------------------------------------------------------
(* Properties *)

\* Nobody sees an event twice, however often and in however many replicas it
\* is delivered, within the time its marker lives.
ShownOnce ==
    \A k \in Inbox : \A x, y \in Shown(k) :
        (x # y /\ x.event = y.event) =>
            x.stored >= y.stored + Retain \/ y.stored >= x.stored + Retain

\* A marker never hides an event that was not stored: while it lives the
\* event is shown to its user and to the administrator, unless the inbox is
\* full of later ones.
MarkedIsShown ==
    \A e \in Event : Marked(e) => \A k \in {UserOf[e], Admin} :
        \/ \E x \in Shown(k) : x.event = e
        \/ /\ Cardinality(Shown(k)) = Cap
           /\ \A x \in Shown(k) : Above(x, [event |-> e, at |-> seen[e].at])

\* "Inboxes retain up to 100 items for seven days."  Every new event starts
\* the seven days of the whole inbox anew.
RetainedSevenDays ==
    \A k \in Inbox : \A x \in Shown(k) : clock < x.stored + Retain
=============================================================================
