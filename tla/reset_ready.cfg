CONSTANTS
    Nil = Nil
    Orphans = Orphans
    Rollout = Rollout
    Nodes = {a, b}
    Drainable = {a}
    RemovesNodes = TRUE
    Pods = {p1, p2}
    Setups <- PlainSetup
    ReadinessTimeout = 1
    RestartSurgeTimeout = 1
    FaultKinds = {"reset"}
    MaxFaults = 1
    MaxLag = 1
    TimePasses = FALSE
    MaxConcurrentReconciles = 5
    JustElected = FALSE
SPECIFICATION PromptSpec
PROPERTY ResetReapplied
