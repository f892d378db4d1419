SPECIFICATION Spec
CONSTANTS
    Null = Null
    Unissued = Unissued
    Deleted = Deleted
    u1 = u1
    u2 = u2
    k1 = k1
    r1 = r1
    d1 = d1
    wide = wide
    Restaurant = {r1}
    Dish = {d1, wide}
    OrderId = {1}
    User = {u1, u2}
    RequestKey = {k1}
    Quantity = {1}
    Price = {0, 1, 2}
    MaxTotalVnd = 1
    NewStock = {2}
    Restock = {1}
    WideDish = {wide}
    Handler = {h1, h2}
    Recoverer = {p1}
    Submission <- OneKey
    Take = 1
    MaxFaults = 2
INVARIANTS BoughtIsBacked NoneRejected
PROPERTY ImplementsLifecycle
CHECK_DEADLOCK FALSE
