CONSTANTS
    Nil = Nil
    Orphans = Orphans
    Rollout = Rollout
    Nodes = {a, b}
    Drainable = {a}
    RemovesNodes = TRUE
    Pods = {p1, p2}
    Setups <- PlainSetup
    ReadinessTimeout = 0
    RestartSurgeTimeout = 0
    FaultKinds = {"edit"}
    MaxFaults = 1
    MaxLag = 1
    TimePasses = TRUE
    MaxConcurrentReconciles = 5
    JustElected = FALSE
SPECIFICATION EditedSpec
PROPERTY BoundedOperationTime
