SPECIFICATION FairSpec
CONSTANTS
    Null = Null
    Unissued = Unissued
    Deleted = Deleted
    u1 = u1
    u2 = u2
    k1 = k1
    r1 = r1
    d1 = d1
    wide = wide
    Restaurant = {r1}
    Dish = {d1}
    OrderId = {1, 2}
    User = {u1, u2}
    RequestKey = {k1}
    Quantity = {1}
    Price = {1}
    MaxTotalVnd = 6
    NewStock = {1}
    Restock = {}
    WideDish = {}
    Handler = {h1}
    Recoverer = {p1}
    Submission <- TwoBuyers
    Take = 1
    MaxFaults = 2
INVARIANTS TypeOK PaymentAgrees ChargedIffServed ReleasedOnlyIfDeclined OneEventPerFact IInv
PROPERTIES CheckoutResolves PaymentSettles DeclineRestores
CHECK_DEADLOCK FALSE
