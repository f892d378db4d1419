SPECIFICATION FairSpec
CONSTANTS
    Null = Null
    Unissued = Unissued
    Deleted = Deleted
    u1 = u1
    u2 = u2
    k1 = k1
    r1 = r1
    d1 = d1
    wide = wide
    Restaurant = {r1}
    Dish = {d1, wide}
    OrderId = {1, 2}
    User = {u1, u2}
    RequestKey = {k1}
    Quantity = {1}
    Price = {1}
    MaxTotalVnd = 6
    NewStock = {1}
    Restock = {}
    WideDish = {wide}
    Handler = {h1}
    Recoverer = {p1}
    Submission <- OneUnservable
    Take = 1
    MaxFaults = 1
PROPERTY InterruptedIsRetried
CHECK_DEADLOCK FALSE
