SPECIFICATION Spec
CONSTANTS
    Max8 = 1
    Max16 = 3
    Max32 = 7
    Max64 = 31
    MsPerDay = 3
    Kilo = 2
    Records = {"r1", "r2"}
    Contents <- MCContents
    Queries = {"no query", "q"}
    MaxPlans = 1
INVARIANTS Date64IsFloored
CHECK_DEADLOCK FALSE
