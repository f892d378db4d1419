SPECIFICATION DeliveryFairSpec
CONSTANTS
    l1 = l1
    Null = Null
    Event = {e1, e2}
    Lane = {l1}
    LaneOf <- OneLane
    Stamp = {1, 2}
    Publisher = {p1, p2}
    Take = 2
    MaxFaults = 1
INVARIANTS SentIsLogged CommittedIsHandled InOrder DeliveryInv
PROPERTY ImplementsChannel
CHECK_DEADLOCK FALSE
