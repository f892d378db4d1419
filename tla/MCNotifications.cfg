SPECIFICATION NotificationsSpec
CONSTANTS
    Null = Null
    u1 = u1
    u2 = u2
    Event = {1, 2, 3}
    User = {u1, u2}
    UserOf <- FirstUsers
    Admin = Admin
    Recorder = {r1, r2}
    Cap = 2
    Retain = 2
    MaxTime = 4
INVARIANTS NotificationsTypeOK ShownOnce MarkedIsShown
CHECK_DEADLOCK FALSE
