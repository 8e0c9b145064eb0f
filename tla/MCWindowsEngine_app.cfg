SPECIFICATION Spec
CONSTANTS
    Presets = {a}
    Tunes = {w1}
    Tests = {v1}
    a = a
    w1 = w1
    v1 = v1
    Trials = 1
    Crashes = TRUE
    Null = Null
INVARIANTS
    TypeOK
    SysProxyServed
    QuitLeavesNetwork
    ShownIsActual
PROPERTIES
    CancelledEnds
