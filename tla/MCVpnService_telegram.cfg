SPECIFICATION Spec
CONSTANTS
    Null = Null
    StartCalls = {s1}
    StopCalls = {p1}
    Loops = {j1, j2}
    TgJobs = {g1}
    s1 = s1
    p1 = p1
    j1 = j1
    j2 = j2
    g1 = g1
    Attempts = 1
    Cellular = FALSE
    Timely = TRUE
    InitErrors = FALSE
    AcceptErrors = FALSE
INVARIANTS
    TgProxyOffWhenStopped
