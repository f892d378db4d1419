------------------------- MODULE NotificationsProofs ------------------------
(***************************************************************************)
(* The inboxes of Notifications for any number of events, users and        *)
(* replicas, any size of an inbox and any lifetime of a marker.            *)
(***************************************************************************)
EXTENDS Notifications, FiniteSetTheorems, TLAPS

-----------------------------------------------------------------------------
(* Sorted sets *)

\* A sorted set has no two members of one name and score.
Distinct(S) ==
    \A x, y \in S : x.event = y.event /\ x.at = y.at => x = y

Over(S, x) == {y \in S : Above(y, x)}

\* The event e of time at is in S, or S is full of later ones.
Covers(S, e, at) ==
    \/ \E x \in S : x.event = e /\ x.at = at
    \/ /\ Cardinality(S) = Cap
       /\ \A x \in S : Above(x, [event |-> e, at |-> at])

LEMMA ItemFacts ==
    ASSUME NEW x \in Item
    PROVE  x.event \in Event /\ x.event \in Nat /\ x.at \in Time /\ x.at \in Nat
           /\ x.stored \in Time /\ x.stored \in Nat
<1>1. x.event \in Event /\ x.at \in Time /\ x.stored \in Time
  BY DEF Item
<1>2. Event \subseteq Nat /\ Time \subseteq Nat
  BY NotificationsAssumption DEF Time
<1> QED BY <1>1, <1>2

LEMMA AboveTransitive ==
    ASSUME NEW x, NEW y, NEW z,
           x.event \in Nat, y.event \in Nat, z.event \in Nat,
           x.at \in Nat, y.at \in Nat, z.at \in Nat,
           Above(x, y), Above(y, z)
    PROVE  Above(x, z)
BY DEF Above

LEMMA AboveTotal ==
    ASSUME NEW S \in SUBSET Item, Distinct(S), NEW x \in S, NEW y \in S
    PROVE  /\ x = y \/ Above(x, y) \/ Above(y, x)
           /\ ~Above(x, x)
<1>1. /\ x.event \in Nat /\ y.event \in Nat
      /\ x.at \in Nat /\ y.at \in Nat
  BY ItemFacts
<1> QED BY <1>1 DEF Above, Distinct

\* The rank of a member, counted from the top, is below the size of the set,
\* and above that of every higher member.
LEMMA Ranks ==
    ASSUME NEW S \in SUBSET Item, Distinct(S), IsFiniteSet(S), NEW x \in S
    PROVE  /\ IsFiniteSet(Over(S, x))
           /\ Cardinality(Over(S, x)) \in 0 .. Cardinality(S) - 1
           /\ \A y \in Over(S, x) :
                Cardinality(Over(S, y)) < Cardinality(Over(S, x))
<1>1. Over(S, x) \in SUBSET S /\ Over(S, x) # S
  BY AboveTotal DEF Over
<1>2. /\ IsFiniteSet(Over(S, x))
      /\ Cardinality(Over(S, x)) =< Cardinality(S)
      /\ Cardinality(Over(S, x)) # Cardinality(S)
  BY <1>1, FS_Subset
<1>3. Cardinality(S) \in Nat /\ Cardinality(Over(S, x)) \in Nat
  BY <1>2, FS_CardinalityType
<1>4. ASSUME NEW y \in Over(S, x)
      PROVE  Cardinality(Over(S, y)) < Cardinality(Over(S, x))
  <2>1. y \in S /\ Above(y, x)
    BY DEF Over
  <2>2. y \notin Over(S, y)
    BY <2>1, AboveTotal DEF Over
  <2>3. ASSUME NEW z \in Over(S, y) PROVE z \in Over(S, x)
    <3>1. z \in S /\ Above(z, y)
      BY DEF Over
    <3>2. Above(z, x)
      BY <2>1, <3>1, ItemFacts, AboveTransitive
    <3> QED BY <3>1, <3>2 DEF Over
  <2>4. /\ IsFiniteSet(Over(S, y))
        /\ Cardinality(Over(S, y)) =< Cardinality(Over(S, x))
        /\ Cardinality(Over(S, y)) # Cardinality(Over(S, x))
    BY <1>2, <2>2, <2>3, FS_Subset
  <2>5. Cardinality(Over(S, y)) \in Nat
    BY <2>4, FS_CardinalityType
  <2> QED BY <1>3, <2>4, <2>5
<1> QED BY <1>2, <1>3, <1>4

\* Members have different ranks.
LEMMA RankInjection ==
    ASSUME NEW S \in SUBSET Item, Distinct(S), IsFiniteSet(S),
           NEW T \in SUBSET S, NEW m \in Nat,
           \A x \in T : Cardinality(Over(S, x)) < m
    PROVE  [x \in T |-> Cardinality(Over(S, x))] \in Injection(T, 0 .. m - 1)
<1> DEFINE f == [x \in T |-> Cardinality(Over(S, x))]
<1>1. f \in [T -> 0 .. m - 1]
  <2>1. ASSUME NEW x \in T PROVE Cardinality(Over(S, x)) \in 0 .. m - 1
    <3>1. Cardinality(Over(S, x)) \in Nat
      BY Ranks, FS_CardinalityType
    <3> QED BY <3>1
  <2> QED BY <2>1
<1>2. ASSUME NEW x \in T, NEW y \in T, f[x] = f[y] PROVE x = y
  <2>1. Cardinality(Over(S, x)) = Cardinality(Over(S, y))
    BY <1>2
  <2>2. Cardinality(Over(S, x)) \in Nat
    BY Ranks, FS_CardinalityType
  <2>3. y \notin Over(S, x) /\ x \notin Over(S, y)
    BY <2>1, <2>2, Ranks
  <2> QED BY <2>3, AboveTotal DEF Over
<1> HIDE DEF f
<1>3. f \in Injection(T, 0 .. m - 1)
  BY <1>1, <1>2 DEF Injection, IsInjective
<1> QED BY <1>3 DEF f

\* No more than Cap members stay.
LEMMA TrimmedSize ==
    ASSUME NEW S \in SUBSET Item, Distinct(S), IsFiniteSet(S)
    PROVE  /\ Trimmed(S) \in SUBSET S /\ IsFiniteSet(Trimmed(S))
           /\ Cardinality(Trimmed(S)) =< Cap
<1>1. Trimmed(S) \in SUBSET S /\ \A x \in Trimmed(S) : Cardinality(Over(S, x)) < Cap
  BY DEF Trimmed, Over
<1>2. Cap \in Nat /\ IsFiniteSet(0 .. Cap - 1) /\ Cardinality(0 .. Cap - 1) = Cap
  BY NotificationsAssumption, FS_Interval
<1>3. [x \in Trimmed(S) |-> Cardinality(Over(S, x))]
        \in Injection(Trimmed(S), 0 .. Cap - 1)
  BY <1>1, <1>2, RankInjection
<1> QED BY <1>1, <1>2, <1>3, FS_Injection

\* If a member goes then the set is full, of members above it.
LEMMA TrimmedFull ==
    ASSUME NEW S \in SUBSET Item, Distinct(S), IsFiniteSet(S),
           NEW z \in S \ Trimmed(S)
    PROVE  /\ Cardinality(Trimmed(S)) = Cap
           /\ \A x \in Trimmed(S) : Above(x, z)
<1> DEFINE rank(x) == Cardinality(Over(S, x))
           N == Cardinality(S)
           T == Trimmed(S)
<1>1. T \in SUBSET S /\ \A x \in S : x \in T <=> rank(x) < Cap
  BY DEF Trimmed, Over
<1>2. Cap \in Nat /\ N \in Nat /\ \A x \in S : rank(x) \in 0 .. N - 1
  BY NotificationsAssumption, FS_CardinalityType, Ranks
<1>3. Cap =< rank(z) /\ rank(z) < N
  BY <1>1, <1>2
<1>4. ASSUME NEW x \in T PROVE Above(x, z)
  <2>1. x # z
    OBVIOUS
  <2>2. ~Above(z, x)
    <3>1. Above(z, x) => rank(z) < rank(x)
      BY <1>1, Ranks DEF Over
    <3> QED BY <1>1, <1>2, <1>3, <3>1
  <2> QED BY <1>1, <2>1, <2>2, AboveTotal
<1>5. Cardinality(T) = Cap
  <2>1. /\ IsFiniteSet(0 .. N - 1) /\ Cardinality(0 .. N - 1) = N
        /\ IsFiniteSet(0 .. Cap - 1) /\ Cardinality(0 .. Cap - 1) = Cap
    <3>1. ASSUME NEW m \in Nat PROVE IsFiniteSet(0 .. m - 1) /\ Cardinality(0 .. m - 1) = m
      BY FS_Interval
    <3> QED BY <1>2, <3>1
  <2>2. [x \in S |-> rank(x)] \in Injection(S, 0 .. N - 1)
    BY <1>2, RankInjection
  <2>3. [x \in S |-> rank(x)] \in Surjection(S, 0 .. N - 1)
    BY <2>1, <2>2, FS_Injection
  <2>4. \A i \in 0 .. N - 1 : \E x \in S : rank(x) = i
    BY <2>3 DEF Surjection
  <2>5. [x \in T |-> rank(x)] \in Injection(T, 0 .. Cap - 1)
    BY <1>1, <1>2, RankInjection
  <2>6. ASSUME NEW i \in 0 .. Cap - 1 PROVE \E x \in T : rank(x) = i
    <3>1. i \in 0 .. N - 1 /\ i < Cap
      BY <1>2, <1>3
    <3>2. PICK x \in S : rank(x) = i
      BY <2>4, <3>1
    <3> QED BY <1>1, <3>1, <3>2
  <2>7. [x \in T |-> rank(x)] \in Surjection(T, 0 .. Cap - 1)
    BY <2>5, <2>6 DEF Surjection, Injection
  <2> QED BY <2>1, <2>5, <2>7, FS_Injection
<1> QED BY <1>4, <1>5

\* What is trimmed still covers what the set had.
LEMMA TrimmedCovers ==
    ASSUME NEW S \in SUBSET Item, Distinct(S), IsFiniteSet(S), NEW x \in S
    PROVE  Covers(Trimmed(S), x.event, x.at)
<1>1. CASE x \in Trimmed(S)
  BY <1>1 DEF Covers
<1>2. CASE x \notin Trimmed(S)
  <2>1. Cardinality(Trimmed(S)) = Cap /\ \A y \in Trimmed(S) : Above(y, x)
    BY <1>2, TrimmedFull
  <2> QED BY <2>1 DEF Covers, Above
<1> QED BY <1>1, <1>2

\* What the script does to an inbox: it stays a sorted set of at most Cap items,
\* gets the event, and covers what it covered before.
LEMMA Stored ==
    ASSUME NEW S \in SUBSET Item, IsFiniteSet(S), Distinct(S), NEW item \in Item
    PROVE  LET T == Trimmed(Added(S, item)) IN
           /\ T \in SUBSET (S \cup {item})
           /\ IsFiniteSet(T) /\ Cardinality(T) =< Cap /\ Distinct(T)
           /\ Covers(T, item.event, item.at)
           /\ \A e \in Event, at \in Time : Covers(S, e, at) => Covers(T, e, at)
<1> DEFINE A == Added(S, item)
           T == Trimmed(A)
<1>1. /\ A \in SUBSET Item /\ A \in SUBSET (S \cup {item}) /\ S \subseteq A
      /\ A = S \/ A = S \cup {item}
      /\ \E x \in A : x.event = item.event /\ x.at = item.at
  BY DEF Added
<1>2. IsFiniteSet(A) /\ Distinct(A)
  <2>1. IsFiniteSet(S \cup {item})
    BY FS_AddElement
  <2>2. Distinct(A)
    BY DEF Distinct, Added
  <2> QED BY <1>1, <2>1, <2>2
<1> HIDE DEF A
<1>3. T \in SUBSET A /\ IsFiniteSet(T) /\ Cardinality(T) =< Cap
  BY <1>1, <1>2, TrimmedSize
<1>4. Distinct(T)
  BY <1>2, <1>3 DEF Distinct
<1>5. Covers(T, item.event, item.at)
  <2>1. PICK x \in A : x.event = item.event /\ x.at = item.at
    BY <1>1
  <2>2. Covers(T, x.event, x.at)
    BY <1>1, <1>2, TrimmedCovers
  <2> QED BY <2>1, <2>2
<1>6. ASSUME NEW e \in Event, NEW at \in Time, Covers(S, e, at)
      PROVE  Covers(T, e, at)
  <2>1. CASE \E x \in S : x.event = e /\ x.at = at
    <3>1. PICK x \in A : x.event = e /\ x.at = at
      BY <1>1, <2>1
    <3>2. Covers(T, x.event, x.at)
      BY <1>1, <1>2, TrimmedCovers
    <3> QED BY <3>1, <3>2
  <2>2. CASE /\ Cardinality(S) = Cap
             /\ \A x \in S : Above(x, [event |-> e, at |-> at])
    <3> DEFINE it == [event |-> e, at |-> at]
    <3>1. it.event \in Nat /\ it.at \in Nat
      BY NotificationsAssumption DEF Time
    <3>2. CASE T = A
      <4>1. Cardinality(S) =< Cardinality(A) /\ (Cardinality(S) = Cardinality(A) => S = A)
        BY <1>1, <1>2, FS_Subset
      <4>2. Cardinality(A) = Cap
        <5>1. Cap \in Nat /\ Cardinality(A) \in Nat
          BY <1>2, NotificationsAssumption, FS_CardinalityType
        <5> QED BY <1>3, <2>2, <3>2, <4>1, <5>1
      <4> QED BY <2>2, <3>2, <4>1, <4>2 DEF Covers
    <3>3. CASE T # A
      <4>1. PICK z \in A : z \notin T
        BY <1>3, <3>3
      <4>2. Cardinality(T) = Cap /\ \A x \in T : Above(x, z)
        BY <1>1, <1>2, <4>1, TrimmedFull
      <4>3. ASSUME NEW x \in T PROVE Above(x, it)
        <5>1. CASE x \in S
          BY <2>2, <5>1
        <5>2. CASE x \notin S
          <6>1. z \in S /\ Above(z, it)
            BY <1>1, <1>3, <2>2, <4>1, <5>2
          <6>2. x \in Item /\ z \in Item /\ Above(x, z)
            BY <1>1, <1>3, <4>2
          <6>3. x.event \in Nat /\ x.at \in Nat /\ z.event \in Nat /\ z.at \in Nat
            BY <6>2, ItemFacts
          <6> HIDE DEF it
          <6> QED BY <3>1, <6>1, <6>2, <6>3, AboveTransitive
        <5> QED BY <5>1, <5>2
      <4> QED BY <4>2, <4>3 DEF Covers
    <3> QED BY <3>2, <3>3
  <2> QED BY <1>6, <2>1, <2>2 DEF Covers
<1> QED BY <1>1, <1>3, <1>4, <1>5, <1>6 DEF A
-----------------------------------------------------------------------------
(* The inductive invariant *)

\* Inboxes are sorted sets, and what is in one was stored before now, under a
\* marker that lived for all of Retain.
ItemsInv ==
    /\ \A k \in Inbox : IsFiniteSet(inbox[k]) /\ Distinct(inbox[k])
    /\ \A k \in Inbox : \A x \in inbox[k] :
        x.stored =< clock /\ x.stored + Retain =< seen[x.event].until

\* Two items of one event were stored Retain apart, also in an inbox that has
\* expired.
OnceInv ==
    \A k \in Inbox : \A x, y \in inbox[k] :
        (x # y /\ x.event = y.event) =>
            x.stored >= y.stored + Retain \/ y.stored >= x.stored + Retain

\* An inbox lives as long as the markers of its events.
MarkerInv ==
    /\ \A e \in Event : seen[e].until =< clock + Retain
    /\ \A e \in Event : Marked(e) => \A k \in {UserOf[e], Admin} :
        /\ seen[e].until =< expires[k]
        /\ Covers(inbox[k], e, seen[e].at)

NotificationsInv == NotificationsTypeOK /\ ItemsInv /\ OnceInv /\ MarkerInv

LEMMA KeysFacts ==
    ASSUME NEW e \in Event
    PROVE  {UserOf[e], Admin} \subseteq Inbox
BY NotificationsAssumption DEF Inbox

LEMMA NotificationsInitInv == NotificationsInit => NotificationsInv
<1> SUFFICES ASSUME NotificationsInit PROVE NotificationsInv
  OBVIOUS
<1>1. IsFiniteSet({}) /\ Cardinality({}) = 0 /\ 0 \in Time
  BY FS_EmptySet, NotificationsAssumption DEF Time
<1>2. NotificationsTypeOK
  BY <1>1, NotificationsAssumption DEF NotificationsInit, NotificationsTypeOK, Quiet
<1>3. ItemsInv /\ OnceInv
  BY <1>1 DEF NotificationsInit, ItemsInv, OnceInv, Distinct
<1>4. MarkerInv
  BY NotificationsAssumption DEF NotificationsInit, MarkerInv, Marked
<1> QED BY <1>2, <1>3, <1>4 DEF NotificationsInv

\* The script: with no marker of the event alive, every earlier item of it was
\* stored Retain ago, or more.
LEMMA StoreStep ==
    ASSUME NotificationsInv, NEW r \in Recorder, Store(r)
    PROVE  NotificationsInv'
<1>1. PICK e : e = recording[r].event
  OBVIOUS
<1>2. PICK item : item = [event |-> e, at |-> recording[r].at, stored |-> clock]
  OBVIOUS
<1>3. /\ clock \in Time /\ Time \subseteq Nat /\ Retain \in Nat \ {0} /\ Cap \in Nat
      /\ inbox \in [Inbox -> SUBSET Item] /\ expires \in [Inbox -> Nat]
      /\ seen \in [Event -> [until : Nat, at : Time]]
      /\ recording \in [Recorder -> [event : Event \cup {Null}, at : Time]]
  BY NotificationsAssumption DEF NotificationsInv, NotificationsTypeOK, Time
<1>4. /\ e \in Event /\ seen[e].until =< clock
      /\ item \in Item /\ item.event = e /\ item.stored = clock
  <2>1. e # Null /\ ~Marked(e)
    BY <1>1 DEF Store
  <2>2. e \in Event /\ recording[r].at \in Time
    BY <1>1, <1>3, <2>1
  <2>3. item \in Item /\ item.event = e /\ item.stored = clock
    BY <1>2, <1>3, <2>2 DEF Item
  <2>4. seen[e].until \in Nat
    BY <1>3, <2>2
  <2> QED BY <1>3, <2>1, <2>2, <2>3, <2>4 DEF Marked
<1>5. /\ seen' = [seen EXCEPT ![e] = [until |-> clock + Retain, at |-> item.at]]
      /\ recording' = [recording EXCEPT ![r] = Quiet]
      /\ clock' = clock
      /\ inbox' = [k \in Inbox |-> IF k \in {UserOf[e], Admin}
                                   THEN Trimmed(Added(Shown(k), item)) ELSE inbox[k]]
      /\ expires' = [k \in Inbox |-> IF k \in {UserOf[e], Admin}
                                     THEN clock + Retain ELSE expires[k]]
  BY <1>1, <1>2 DEF Store
<1>6. /\ seen'[e].until = clock + Retain /\ seen'[e].at = item.at
      /\ \A f \in Event \ {e} : seen'[f] = seen[f]
      /\ \A f \in Event : seen[f].until \in Nat /\ seen[f].until =< clock + Retain
      /\ \A f \in Event : seen[f].until =< seen'[f].until
  BY <1>3, <1>4, <1>5 DEF NotificationsInv, MarkerInv
\* What the script makes of an inbox it writes to
<1>7. ASSUME NEW k \in {UserOf[e], Admin}
      PROVE  /\ inbox'[k] \in SUBSET (Shown(k) \cup {item})
             /\ inbox'[k] \in SUBSET Item
             /\ IsFiniteSet(inbox'[k]) /\ Cardinality(inbox'[k]) =< Cap
             /\ Distinct(inbox'[k])
             /\ Covers(inbox'[k], e, item.at)
             /\ \A f \in Event, at \in Time :
                    Covers(Shown(k), f, at) => Covers(inbox'[k], f, at)
  <2>1. k \in Inbox /\ inbox'[k] = Trimmed(Added(Shown(k), item))
    BY <1>4, <1>5, KeysFacts
  <2>2. Shown(k) \in SUBSET Item /\ IsFiniteSet(Shown(k)) /\ Distinct(Shown(k))
    BY <1>3, <2>1, FS_EmptySet DEF Shown, Distinct, NotificationsInv, ItemsInv
  <2>3. PICK S \in SUBSET Item : S = Shown(k)
    BY <2>2
  <2> QED BY <1>4, <2>1, <2>2, <2>3, Stored
<1>8. ASSUME NEW k \in Inbox, k \notin {UserOf[e], Admin}
      PROVE  inbox'[k] = inbox[k] /\ expires'[k] = expires[k]
  BY <1>5, <1>8
<1>9. ASSUME NEW k \in Inbox, NEW x \in inbox'[k]
      PROVE  /\ x \in inbox[k] \/ x = item
             /\ x \in Item
             /\ x \in inbox[k] => x.stored \in Nat /\ x.stored =< clock
                                  /\ x.stored + Retain =< seen[x.event].until
  <2>1. x \in inbox[k] \/ x = item
    BY <1>7, <1>8 DEF Shown
  <2>2. x \in Item
    BY <1>3, <1>4, <2>1
  <2> QED BY <2>1, <2>2, ItemFacts DEF NotificationsInv, ItemsInv
<1>10. NotificationsTypeOK'
  <2>1. inbox' \in [Inbox -> SUBSET Item]
    BY <1>3, <1>5, <1>7, <1>8
  <2>2. \A k \in Inbox : Cardinality(inbox'[k]) =< Cap
    BY <1>7, <1>8 DEF NotificationsInv, NotificationsTypeOK
  <2>3. seen' \in [Event -> [until : Nat, at : Time]]
    <3>1. clock + Retain \in Nat /\ item.at \in Time
      BY <1>3, <1>4 DEF Item
    <3> QED BY <1>3, <1>5, <3>1
  <2>4. expires' \in [Inbox -> Nat]
    BY <1>3, <1>5
  <2>5. recording' \in [Recorder -> [event : Event \cup {Null}, at : Time]]
    BY <1>3, <1>5, NotificationsAssumption DEF Quiet, Time
  <2> QED BY <1>3, <1>5, <2>1, <2>2, <2>3, <2>4, <2>5 DEF NotificationsTypeOK
<1>11. ItemsInv'
  <2>1. ASSUME NEW k \in Inbox PROVE IsFiniteSet(inbox'[k]) /\ Distinct(inbox'[k])
    BY <1>7, <1>8 DEF NotificationsInv, ItemsInv
  <2>2. ASSUME NEW k \in Inbox, NEW x \in inbox'[k]
        PROVE  x.stored =< clock /\ x.stored + Retain =< seen'[x.event].until
    <3>1. CASE x \in inbox[k]
      <4>1. /\ x.event \in Event /\ x.stored \in Nat /\ x.stored =< clock
            /\ x.stored + Retain =< seen[x.event].until
        BY <1>9, <3>1, ItemFacts
      <4>2. seen[x.event].until =< seen'[x.event].until
        BY <1>6, <4>1
      <4>3. seen[x.event].until \in Nat /\ seen'[x.event].until \in Nat
        BY <4>1, <1>3, <1>10 DEF NotificationsTypeOK
      <4> QED BY <1>3, <4>1, <4>2, <4>3
    <3>2. CASE x = item
      BY <1>3, <1>4, <1>6, <3>2
    <3> QED BY <1>9, <3>1, <3>2
  <2> QED BY <1>5, <2>1, <2>2 DEF ItemsInv, Distinct
<1>12. OnceInv'
  <2>1. ASSUME NEW k \in Inbox, NEW x \in inbox[k], x \in inbox'[k], x.event = e
        PROVE  clock >= x.stored + Retain
    <3>1. x.stored + Retain =< seen[e].until /\ x.stored \in Nat
      BY <1>9, <2>1
    <3> QED BY <1>3, <1>4, <1>6, <3>1
  <2>2. ASSUME NEW k \in Inbox, NEW x \in inbox'[k], NEW y \in inbox'[k],
               x # y, x.event = y.event
        PROVE  x.stored >= y.stored + Retain \/ y.stored >= x.stored + Retain
    <3>1. CASE x \in inbox[k] /\ y \in inbox[k]
      BY <2>2, <3>1 DEF NotificationsInv, OnceInv
    <3>2. CASE x = item
      BY <1>4, <1>9, <2>1, <2>2, <3>2
    <3>3. CASE y = item
      BY <1>4, <1>9, <2>1, <2>2, <3>3
    <3> QED BY <1>9, <3>1, <3>2, <3>3
  <2> QED BY <2>2 DEF OnceInv
<1>13. MarkerInv'
  <2>1. ASSUME NEW f \in Event PROVE seen'[f].until =< clock + Retain
    BY <1>3, <1>6
  <2>2. ASSUME NEW f \in Event, clock < seen'[f].until, NEW k \in {UserOf[f], Admin}
        PROVE  seen'[f].until =< expires'[k] /\ Covers(inbox'[k], f, seen'[f].at)
    <3>1. k \in Inbox
      BY KeysFacts
    <3>2. CASE f = e
      <4>1. expires'[k] = clock + Retain
        BY <1>5, <3>1, <3>2
      <4> QED BY <1>3, <1>6, <1>7, <2>2, <3>2, <4>1
    <3>3. CASE f # e
      <4>1. /\ seen'[f] = seen[f] /\ seen[f].at \in Time /\ seen[f].until \in Nat
            /\ clock < seen[f].until
        BY <1>3, <1>6, <2>2, <3>3
      <4>2. seen[f].until =< expires[k] /\ Covers(inbox[k], f, seen[f].at)
        BY <2>2, <4>1 DEF NotificationsInv, MarkerInv, Marked
      <4>3. Shown(k) = inbox[k]
        BY <1>3, <3>1, <4>1, <4>2 DEF Shown
      <4>4. CASE k \in {UserOf[e], Admin}
        <5>1. expires'[k] = clock + Retain
          BY <1>5, <3>1, <4>4
        <5>2. Covers(inbox'[k], f, seen[f].at)
          BY <1>7, <4>1, <4>2, <4>3, <4>4
        <5> QED BY <2>1, <4>1, <5>1, <5>2
      <4>5. CASE k \notin {UserOf[e], Admin}
        BY <1>8, <3>1, <4>1, <4>2, <4>5
      <4> QED BY <4>4, <4>5
    <3> QED BY <3>2, <3>3
  <2> QED BY <1>5, <2>1, <2>2 DEF MarkerInv, Marked, Covers, Above
<1> QED BY <1>10, <1>11, <1>12, <1>13 DEF NotificationsInv

\* Time only lets markers and inboxes expire.
LEMMA TickStep ==
    ASSUME NotificationsInv, Tick
    PROVE  NotificationsInv'
<1>1. /\ clock \in Nat /\ clock' = clock + 1 /\ clock' \in Time
      /\ UNCHANGED <<seen, inbox, expires, recording>>
  BY NotificationsAssumption DEF NotificationsInv, NotificationsTypeOK, Time, Tick
<1>2. NotificationsTypeOK'
  BY <1>1 DEF NotificationsInv, NotificationsTypeOK
<1>3. ItemsInv'
  <2>1. ASSUME NEW k \in Inbox, NEW x \in inbox[k]
        PROVE  x.stored =< clock' /\ x.stored + Retain =< seen[x.event].until
    <3>1. x \in Item
      BY DEF NotificationsInv, NotificationsTypeOK
    <3>2. x.stored \in Nat /\ x.stored =< clock /\ x.stored + Retain =< seen[x.event].until
      BY <3>1, ItemFacts DEF NotificationsInv, ItemsInv
    <3> QED BY <1>1, <3>2
  <2> QED BY <1>1, <2>1 DEF NotificationsInv, ItemsInv
<1>4. OnceInv'
  BY <1>1 DEF NotificationsInv, OnceInv
<1>5. MarkerInv'
  <2>1. ASSUME NEW e \in Event
        PROVE  /\ seen[e].until =< clock' + Retain
               /\ clock' < seen[e].until => Marked(e)
    <3>1. seen[e].until \in Nat /\ Retain \in Nat
      BY NotificationsAssumption DEF NotificationsInv, NotificationsTypeOK
    <3>2. seen[e].until =< clock + Retain
      BY DEF NotificationsInv, MarkerInv
    <3> QED BY <1>1, <3>1, <3>2 DEF Marked
  <2> QED BY <1>1, <2>1 DEF NotificationsInv, MarkerInv, Marked
<1> QED BY <1>2, <1>3, <1>4, <1>5 DEF NotificationsInv

\* Nothing that is kept changes while record() has only begun, or gives up.
LEMMA OtherSteps ==
    ASSUME NotificationsInv,
           \/ \E r \in Recorder : StoreNothing(r) \/ \E e \in Event : Record(r, e)
           \/ UNCHANGED notificationVars
    PROVE  NotificationsInv'
<1>1. UNCHANGED <<clock, seen, inbox, expires>>
  BY DEF StoreNothing, Record, notificationVars
<1>2. recording' \in [Recorder -> [event : Event \cup {Null}, at : Time]]
  BY NotificationsAssumption
  DEF StoreNothing, Record, notificationVars, Quiet, NotificationsInv,
      NotificationsTypeOK, Time
<1>3. NotificationsTypeOK'
  BY <1>1, <1>2 DEF NotificationsInv, NotificationsTypeOK
<1> QED BY <1>1, <1>3
        DEF NotificationsInv, ItemsInv, OnceInv, MarkerInv, Marked, Distinct, Covers, Above

-----------------------------------------------------------------------------
(* The theorems *)

\* The inductive invariant holds of every run.
THEOREM NotificationsInvariance == NotificationsSpec => []NotificationsInv
<1>1. NotificationsInv /\ [NotificationsNext]_notificationVars => NotificationsInv'
  BY StoreStep, TickStep, OtherSteps DEF NotificationsNext
<1> QED BY <1>1, NotificationsInitInv, PTL DEF NotificationsSpec

\* Inboxes are never longer than Cap, whatever is delivered.
THEOREM NotificationsTypeCorrect == NotificationsSpec => []NotificationsTypeOK
<1>1. NotificationsInv => NotificationsTypeOK
  BY DEF NotificationsInv
<1> QED BY <1>1, NotificationsInvariance, PTL

\* However often and in however many replicas an event is delivered, nobody is
\* shown it twice within the time its marker lives.
THEOREM NobodySeesItTwice == NotificationsSpec => []ShownOnce
<1>1. NotificationsInv => ShownOnce
  BY DEF NotificationsInv, OnceInv, ShownOnce, Shown
<1> QED BY <1>1, NotificationsInvariance, PTL

\* While a marker keeps repetitions of an event away, the event itself is shown,
\* or the inbox is full of later ones.
THEOREM MarkerHidesNothing == NotificationsSpec => []MarkedIsShown
<1>1. ASSUME NotificationsInv, NEW e \in Event, Marked(e), NEW k \in {UserOf[e], Admin}
      PROVE  \/ \E x \in Shown(k) : x.event = e
             \/ /\ Cardinality(Shown(k)) = Cap
                /\ \A x \in Shown(k) : Above(x, [event |-> e, at |-> seen[e].at])
  <2>1. k \in Inbox
    BY KeysFacts
  <2>2. seen[e].until =< expires[k] /\ Covers(inbox[k], e, seen[e].at)
    BY <1>1 DEF NotificationsInv, MarkerInv
  <2>3. seen[e].until \in Nat /\ expires[k] \in Nat /\ clock \in Nat
    BY <1>1, <2>1, NotificationsAssumption DEF NotificationsInv, NotificationsTypeOK, Time
  <2>4. Shown(k) = inbox[k]
    BY <1>1, <2>2, <2>3 DEF Shown, Marked
  <2> QED BY <2>2, <2>4 DEF Covers
<1>2. NotificationsInv => MarkedIsShown
  BY <1>1 DEF MarkedIsShown
<1> QED BY <1>2, NotificationsInvariance, PTL
=============================================================================
