\* Two requests through the gateway, the second perhaps a retry of the first;
\* payment-service was started with another INTERNAL_TOKEN
CONSTANTS
    Call = {n1, n2}
    Account = {customer, admin}
    Admin = {admin}
    RequestKey = {k1}
    Cart = {c1, c2}
    OrderId = {o1, o2}
    Asked <- Requests
    Trusting = {"orders", "restaurants", "notifications"}
    Null = Null
SPECIFICATION GatewayFairSpec
INVARIANTS GatewayTypeOK AccessControlled RefusalIsFinal OneOutcomePerKey RetryKeepsOrder
PROPERTY EveryCallAnswered
CHECK_DEADLOCK FALSE
