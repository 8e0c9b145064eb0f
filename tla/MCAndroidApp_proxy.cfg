SPECIFICATION Spec
CONSTANTS
    Calls = {c1, c2, c3}
    Jobs = {j1, j2, j3}
    Receivers = {"activity", "tile"}
    c1 = c1
    c2 = c2
    c3 = c3
    j1 = j1
    j2 = j2
    j3 = j3
    Null = Null
    Profiles = {{}, {"hasty", "slow"}, {"hasty", "loop"}, {"hasty", "bind"}}
INVARIANTS
    TypeOK
    NoCrash
    ListenerIsOwned
    StatusIsTrue
    InterfaceIsTrue
PROPERTIES
    CallsReturn
