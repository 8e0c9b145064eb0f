SPECIFICATION Spec
CONSTANTS
    ReqLen = 3
    RespLen = 2
    BfSize = 4
    Splits = {1}
    Params = 3
    Writes = 2
    Profiles = {{}}
INVARIANTS
    AskedInFull
PROPERTIES
    Relayed
