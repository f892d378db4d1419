SPECIFICATION LocksFairSpec
CONSTANTS
    Null = Null
    Unissued = Unissued
    Deleted = Deleted
    Restaurant = {r1}
    Dish = {1, 2, 3}
    OrderId = {1, 2}
    User = {u1}
    RequestKey = {k1}
    Quantity = {1}
    Price = {1, 2}
    MaxTotalVnd = 1
    NewStock = {1}
    Restock = {}
    WideDish = {3}
    Session = {s1, s2}
    LockKey <- Keys
    Scan <- Scans
    Asked <- AskedCarts
INVARIANTS LocksTypeOK DeadlockNeedsRemoval
PROPERTIES ImplementsCatalog StockConserved SnapshotStable AnswersAgree TransactionsEnd
CHECK_DEADLOCK FALSE
