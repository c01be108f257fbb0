CONSTANTS
    Nil = Nil
    Orphans = Orphans
    Rollout = Rollout
    Nodes = {a, b}
    Drainable = {a}
    RemovesNodes = TRUE
    Pods = {p1, p2}
    Setups <- AllSetups
    ReadinessTimeout = 0
    RestartSurgeTimeout = 0
    FaultKinds = {"crash", "reset", "apiError", "load", "unstable"}
    MaxFaults = 1
    MaxLag = 1
    TimePasses = TRUE
    MaxConcurrentReconciles = 5
    JustElected = FALSE
SPECIFICATION Spec
SYMMETRY PodSymmetry
INVARIANTS TypeOK Restorable NoLeakedSurge MinReplicasKnown Available
PROPERTIES ScaleDownAfterEviction
