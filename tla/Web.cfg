SPECIFICATION FairSpec
CONSTANTS
    Slots = {s1}
    Requests = {"page", "last", "missing", "empty", "cgi", "post", "late", "cut"}
    Plans <- AllPlans
    KaMax = 2
    KaTimeout = 1
    RequestTimeout = 30
    FileSize = 4
    HeaderBuffer = 2
    Room = 3
    ErrorCount = 2
    MaxClients = 3
    Resets = TRUE
    ForkFails = TRUE
INVARIANTS SlotsAccounted
PROPERTIES KeptConnectionWaits RequestIsEnded
\* Clients connect a bounded number of times, and the process may end.
CHECK_DEADLOCK FALSE
