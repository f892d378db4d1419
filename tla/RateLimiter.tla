---------------------------- MODULE RateLimiter -----------------------------
(***************************************************************************)
(* The limiter of the gateway's AccessGuard (services/gateway/src/auth.ts): *)
(* a Redis counter per class of request (login, api) and client address,   *)
(* incremented by every request but health checks and started anew when it *)
(* expires.  Any number of gateway processes share the counters.           *)
(***************************************************************************)
EXTENDS Integers, Functions

CONSTANTS
    Key,            \* "rate:class:ip"
    Limit,          \* Limit[k]: 20 for login, RATE_LIMIT_MAX or 300 for api
    Window,         \* how long a counter lives: 60 seconds
    MaxTime,        \* bound: the clock stops
    MaxCount        \* bound: how far a counter is counted

ASSUME RateLimiterAssumption ==
    /\ Limit \in [Key -> Nat \ {0}]
    /\ Window \in Nat \ {0} /\ MaxTime \in Nat /\ MaxCount \in Nat
    /\ \A k \in Key : MaxCount > Limit[k]

VARIABLES
    clock,
    counter,        \* counter[k]: its value, 0 when there is none
    until,          \* until[k]: when it expires
    passed          \* passed[k][t]: the requests within the limit at time t

limiterVars == <<clock, counter, until, passed>>

Time == 0..MaxTime

LimiterTypeOK ==
    /\ clock \in Time
    /\ counter \in [Key -> 0..MaxCount]
    /\ until \in [Key -> Nat]
    /\ \A k \in Key : counter[k] > 0 => until[k] \in clock + 1 .. clock + Window
    /\ passed \in [Key -> [Time -> Nat]]

LimiterInit ==
    /\ clock = 0
    /\ counter = [k \in Key |-> 0]
    /\ until = [k \in Key |-> 0]
    /\ passed = [k \in Key |-> [t \in Time |-> 0]]

\* Mutated form: every request starts the window of the counter anew
CountExtending(k) ==
    /\ counter[k] < MaxCount
    /\ counter' = [counter EXCEPT ![k] = @ + 1]
    /\ until' = [until EXCEPT ![k] = clock + Window]
    /\ UNCHANGED clock

\* Mutated form: EXPIRE is missing when the counter starts
CountWithoutExpiry(k) ==
    /\ counter[k] < MaxCount
    /\ counter' = [counter EXCEPT ![k] = @ + 1]
    /\ UNCHANGED <<clock, until>>

\* The script: INCR, and EXPIRE if that made it 1.
Count(k) ==
    /\ counter[k] < MaxCount
    /\ counter' = [counter EXCEPT ![k] = @ + 1]
    /\ until' = IF counter[k] = 0
                THEN [until EXCEPT ![k] = clock + Window] ELSE until
    /\ UNCHANGED clock

\* Mutated form: count > limit + 1 for count > limit
WithinLimitLoose(k) == counter'[k] =< Limit[k] + 1

WithinLimit(k) == counter'[k] =< Limit[k]

\* The request goes on, or ends with 503 when the answer of Redis is lost:
\* either way it took one of the places of the window.
Admit(k) ==
    /\ Count(k)
    /\ WithinLimit(k)
    /\ passed' = [passed EXCEPT ![k][clock] = @ + 1]

\* 429, with retry-after: 60
Refuse(k) ==
    /\ Count(k)
    /\ ~WithinLimit(k)
    /\ UNCHANGED passed

Tick ==
    /\ clock < MaxTime
    /\ clock' = clock + 1
    /\ counter' = [k \in Key |-> IF until[k] = clock + 1 THEN 0 ELSE counter[k]]
    /\ UNCHANGED <<until, passed>>

LimiterNext == Tick \/ \E k \in Key : Admit(k) \/ Refuse(k)

LimiterSpec == LimiterInit /\ [][LimiterNext]_limiterVars

-----------------------------------------------------------------------------
(* Properties *)

\* The requests within the limit in the Window seconds from a time on
PassedFrom(k, start) ==
    SumFunctionOnSet(passed[k], {t \in Time : start =< t /\ t < start + Window})

\* Around the edge of two windows a client can do twice as much as the limit
\* says, and in no stretch of that length any more.
AtMostTwice ==
    \A k \in Key, start \in Time : PassedFrom(k, start) =< 2 * Limit[k]

\* Why: a counter that lives counts the requests that passed in its window, up
\* to the limit, and no stretch that overlaps the window with its end holds
\* more than the limit before the window; without a counter no stretch that
\* reaches the present holds more.
WindowInv(k) ==
    LET start == until[k] - Window
        Before(s) == {t \in Time : s =< t /\ t < start}
    IN  /\ until[k] >= Window
        /\ PassedFrom(k, start) =
                IF counter[k] < Limit[k] THEN counter[k] ELSE Limit[k]
        /\ \A s \in Time : start < s + Window =>
                SumFunctionOnSet(passed[k], Before(s)) =< Limit[k]

LimiterInv ==
    \A k \in Key :
        /\ \A t \in Time : t > clock => passed[k][t] = 0
        /\ counter[k] > 0 => WindowInv(k)
        /\ counter[k] = 0 =>
            /\ passed[k][clock] = 0
            /\ \A s \in Time : clock < s + Window => PassedFrom(k, s) =< Limit[k]

\* "retry-after: 60" is true: a client is refused only while its own requests
\* of the last Window seconds fill the limit, never because it was refused
\* before or because a counter outlived its window.
RefusedOnlyIfFull ==
    [][\A k \in Key : Refuse(k) =>
        \E start \in Time :
            /\ clock < start + Window
            /\ PassedFrom(k, start) >= Limit[k]]_limiterVars
=============================================================================
