SPECIFICATION Spec
CONSTANTS
    ReqLen = 4
    RespLen = 3
    BfSize = 3
    Splits = {1}
    Params = 2
    Writes = 2
    Profiles = {{}, {"client"}, {"early"}, {"client", "early"}, {"remote"}, {"client", "remote", "early"}}
INVARIANTS
    TypeOK
    RequestIntact
    RequestOrdered
    ResponseIntact
    PendingIsWatched
    NoAssertion
    AssertNoLeftover
PROPERTIES
    Refinement
