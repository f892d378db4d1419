------------------------------ MODULE Channel -------------------------------
(***************************************************************************)
(* What the services promise each other about events, with no tables, logs *)
(* or offsets in it: a committed event is published, and a published event *)
(* is handled, some time, in any order and perhaps again.                  *)
(***************************************************************************)
CONSTANT Event

VARIABLES
    outbox,     \* the events that were committed
    bus,        \* those of them that can be consumed
    handled     \* those that were handled at least once

channelVars == <<outbox, bus, handled>>

Init == outbox = {} /\ bus = {} /\ handled = {}

Write(e) ==
    /\ outbox' = outbox \cup {e}
    /\ UNCHANGED <<bus, handled>>

Publish(e) ==
    /\ e \in outbox \ bus
    /\ bus' = bus \cup {e}
    /\ UNCHANGED <<outbox, handled>>

Handle(e) ==
    /\ e \in bus \ handled
    /\ handled' = handled \cup {e}
    /\ UNCHANGED <<outbox, bus>>

Next == \E e \in Event : Write(e) \/ Publish(e) \/ Handle(e)

Spec == Init /\ [][Next]_channelVars

FairSpec ==
    /\ Spec
    /\ \A e \in Event :
        WF_channelVars(Publish(e)) /\ WF_channelVars(Handle(e))
=============================================================================
