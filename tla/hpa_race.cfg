CONSTANTS
    Nil = Nil
    Orphans = Orphans
    Rollout = Rollout
    Nodes = {a, b}
    Drainable = {a}
    RemovesNodes = TRUE
    Pods = {p1, p2}
    Setups <- HPASetup
    ReadinessTimeout = 1
    RestartSurgeTimeout = 1
    FaultKinds = {}
    MaxFaults = 0
    MaxLag = 1
    TimePasses = TRUE
    MaxConcurrentReconciles = 5
    JustElected = TRUE
SPECIFICATION Spec
INVARIANT HPARestored
