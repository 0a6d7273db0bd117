SPECIFICATION FairSpec
CONSTANTS
    Owner = {w1, w2}
    Address = {t1, t2}
    NULL = NULL
    Asked = {3}
    Returned = {0, 2}
    TimeSlice = 2
    MaxClock = 5
INVARIANTS HeldIsMine
PROPERTIES NeverTooSoon ImplementsTimerSet DueTimersFire
