CONSTANTS
    Nil = Nil
    Orphans = Orphans
    Rollout = Rollout
    Nodes = {a}
    Drainable = {}
    RemovesNodes = FALSE
    Pods = {p1, p2}
    Setups <- BothSetups
    ReadinessTimeout = 0
    RestartSurgeTimeout = 0
    FaultKinds = {"apiError", "clearRestart", "edit"}
    MaxFaults = 1
    MaxLag = 1
    TimePasses = TRUE
    MaxConcurrentReconciles = 5
    JustElected = FALSE
    MaxRestarts = 1
SPECIFICATION EditedRestartSpec
SYMMETRY PodSymmetry
INVARIANTS SurgesDoNotPileUp RestartAwake
