\* The smoke test with two requests for the last portion and a recovery timer
CONSTANTS
    Null = Null
    Unissued = Unissued
    Deleted = Deleted
    Restaurant = {"smoke"}
    Dish = {"rice", "soup", "last", "declined"}
    OrderId = {1, 2, 3, 4}
    User = {"customer"}
    Handler = {"h1", "h2"}
    RequestKey = {"key", "declined", "h1", "h2"}
    Quantity = {1, 2}
    Price = {2, 3, 4, 9}
    MaxTotalVnd = 400000
    NewStock = {1, 2, 10}
    Restock = {}
    WideDish = {}
    Recoverer = {"p1"}
    Submission <- Requests
    Take = 50
    MaxFaults = 0
SPECIFICATION SmokeFairSpec
INVARIANT FailsByStatusOnly
PROPERTY SmokeEnds
CHECK_DEADLOCK FALSE
