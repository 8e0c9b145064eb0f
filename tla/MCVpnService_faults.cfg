SPECIFICATION Spec
CONSTANTS
    Null = Null
    StartCalls = {s1}
    StopCalls = {p1, p2}
    Loops = {j1, j2}
    TgJobs = {g1}
    s1 = s1
    p1 = p1
    p2 = p2
    j1 = j1
    j2 = j2
    g1 = g1
    Attempts = 1
    Cellular = TRUE
    Timely = FALSE
    InitErrors = TRUE
    AcceptErrors = TRUE
INVARIANTS
    TeardownIsExclusive
    TeardownIsDown
    ListenerIsOwned
PROPERTIES
    StopIsComplete
CHECK_DEADLOCK FALSE
