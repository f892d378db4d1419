SPECIFICATION LimiterSpec
CONSTANTS
    login = login
    api = api
    Key = {login, api}
    Limit <- Limits
    Window = 3
    MaxTime = 6
    MaxCount = 4
INVARIANTS LimiterTypeOK AtMostTwice LimiterInv
PROPERTY RefusedOnlyIfFull
CHECK_DEADLOCK FALSE
