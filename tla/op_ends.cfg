CONSTANTS
    Nil = Nil
    Orphans = Orphans
    Rollout = Rollout
    Nodes = {a, b}
    Drainable = {a}
    RemovesNodes = TRUE
    Pods = {p1, p2}
    Setups <- PlainSetup
    ReadinessTimeout = 1
    RestartSurgeTimeout = 1
    FaultKinds = {"crash", "untaint", "reset", "apiError", "edit", "optOut", "notReady"}
    MaxFaults = 1
    MaxLag = 1
    TimePasses = TRUE
    MaxConcurrentReconciles = 5
    JustElected = FALSE
SPECIFICATION EditedSpec
INVARIANTS SurgesDoNotPileUp
PROPERTIES OperationEnds
