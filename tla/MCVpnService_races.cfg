SPECIFICATION Spec
CONSTANTS
    Null = Null
    StartCalls = {s1, s2}
    StopCalls = {p1}
    Loops = {j1, j2, j3, j4, j5, j6}
    TgJobs = {g1, g2}
    s1 = s1
    s2 = s2
    p1 = p1
    j1 = j1
    j2 = j2
    j3 = j3
    j4 = j4
    j5 = j5
    j6 = j6
    g1 = g1
    g2 = g2
    Attempts = 2
    Cellular = TRUE
    Timely = TRUE
    InitErrors = FALSE
    AcceptErrors = FALSE
INVARIANTS
    TypeOK
    ConnectedIsServed
PROPERTIES
    HaltedIsDown
    KeepsItsSocket
    CallsReturn
    MutexIsReleased
