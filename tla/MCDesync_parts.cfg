SPECIFICATION Spec
CONSTANTS
    BfSize = 17
    Sizes = {7, 8}
    Records = {2, 3}
    Hosts = {6}
    RecPositions = {0, 1, 2, 3}
    PartPositions = {0, 3, 7}
    FromEnd = {1, 6}
    MaxRecs = 2
    MaxParts = 2
    MaxOptions = 2
    MaxCalls = 2
INVARIANTS
    RecordsRejoin
    DeliveredOnce
