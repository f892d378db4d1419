----------------------------- MODULE Lifecycle ------------------------------
(***************************************************************************)
(* What FoodHub promises about one order, with no services, messages or    *)
(* retries in it: how the order, the charge and the stock it holds go      *)
(* together.                                                               *)
(***************************************************************************)
CONSTANT OrderId

VARIABLES
    phase,      \* phase[o]: "NONE", an order status, or how it was cancelled
    charge,     \* charge[o]: "NONE", "SUCCEEDED" or "FAILED"
    stock       \* stock[o]: "NONE", "HELD" or "RETURNED"

lifecycleVars == <<phase, charge, stock>>

Init ==
    /\ phase = [o \in OrderId |-> "NONE"]
    /\ charge = [o \in OrderId |-> "NONE"]
    /\ stock = [o \in OrderId |-> "NONE"]

Move(o, from, to) ==
    /\ phase[o] = from
    /\ phase' = [phase EXCEPT ![o] = to]
    /\ UNCHANGED <<charge, stock>>

Place(o) == Move(o, "NONE", "RESERVING")

\* A late reservation request may still take stock for a rejected order.
Hold(o) ==
    /\ phase[o] \in {"RESERVING", "REJECTED"}
    /\ stock[o] = "NONE"
    /\ stock' = [stock EXCEPT ![o] = "HELD"]
    /\ UNCHANGED <<phase, charge>>

Reject(o) == Move(o, "RESERVING", "REJECTED")

Accept(o) == stock[o] = "HELD" /\ Move(o, "RESERVING", "PENDING")

\* At most one charge, for an accepted order only.
Charge(o) ==
    /\ phase[o] = "PENDING"
    /\ charge[o] = "NONE"
    /\ \E result \in {"SUCCEEDED", "FAILED"} :
        charge' = [charge EXCEPT ![o] = result]
    /\ UNCHANGED <<phase, stock>>

Settle(o) ==
    \/ charge[o] = "SUCCEEDED" /\ Move(o, "PENDING", "PAID")
    \/ charge[o] = "FAILED" /\ Move(o, "PENDING", "DECLINED")

Confirm(o) == Move(o, "PAID", "CONFIRMED")

Ready(o) == Move(o, "CONFIRMED", "READY")

\* Stock is returned once, and only for a declined order.
Return(o) ==
    /\ phase[o] = "DECLINED"
    /\ stock[o] = "HELD"
    /\ stock' = [stock EXCEPT ![o] = "RETURNED"]
    /\ UNCHANGED <<phase, charge>>

Next ==
    \E o \in OrderId :
        \/ Place(o) \/ Hold(o) \/ Reject(o) \/ Accept(o)
        \/ Charge(o) \/ Settle(o) \/ Confirm(o) \/ Ready(o) \/ Return(o)

Spec == Init /\ [][Next]_lifecycleVars
=============================================================================
