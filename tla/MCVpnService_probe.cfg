SPECIFICATION Spec
CONSTANTS
    Null = Null
    StartCalls = {s1}
    StopCalls = {p1}
    Loops = {j1, j2, j3}
    TgJobs = {g1}
    s1 = s1
    p1 = p1
    j1 = j1
    j2 = j2
    j3 = j3
    g1 = g1
    Attempts = 2
    Cellular = TRUE
    Timely = TRUE
    InitErrors = FALSE
    AcceptErrors = FALSE
PROPERTIES
    ConnectedUntilAsked
