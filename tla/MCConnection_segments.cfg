SPECIFICATION Spec
CONSTANTS
    ReqLen = 3
    RespLen = 2
    BfSize = 4
    Splits = {1}
    Params = 1
    Writes = 3
    Profiles = {{}}
INVARIANTS
    AskedInFull
