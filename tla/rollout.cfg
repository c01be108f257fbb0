CONSTANTS
    Nil = Nil
    Orphans = Orphans
    Rollout = Rollout
    Nodes = {a, b}
    Drainable = {a}
    RemovesNodes = FALSE
    Pods = {p1, p2}
    Setups <- PlainSetup
    ReadinessTimeout = 0
    RestartSurgeTimeout = 0
    FaultKinds = {}
    MaxFaults = 0
    MaxLag = 1
    TimePasses = FALSE
    MaxConcurrentReconciles = 5
    JustElected = FALSE
    MaxRestarts = 1
SPECIFICATION RolloutSpec
SYMMETRY PodSymmetry
INVARIANTS RolloutTypeOK SharedRestorable NoLeakedSharedSurge DrainAwake RestartAwake
