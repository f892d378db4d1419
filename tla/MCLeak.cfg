SPECIFICATION Spec
CONSTANTS
    Null = Null
    Unissued = Unissued
    Deleted = Deleted
    u1 = u1
    u2 = u2
    k1 = k1
    r1 = r1
    d1 = d1
    wide = wide
    Restaurant = {r1}
    Dish = {d1}
    OrderId = {1, 2}
    User = {u1, u2}
    RequestKey = {k1}
    Quantity = {1}
    Price = {1}
    MaxTotalVnd = 6
    NewStock = {1}
    Restock = {1}
    WideDish = {}
    Handler = {h1, h2}
    Recoverer = {p1}
    Submission <- TwoBuyers
    Take = 1
    MaxFaults = 1
INVARIANT CancellationReleases
CHECK_DEADLOCK FALSE
