CONSTANTS
    Nil = Nil
    Orphans = Orphans
    Rollout = Rollout
    Nodes = {a, b, c}
    Drainable = {a, b}
    RemovesNodes = FALSE
    Pods = {p1, p2}
    Setups <- PlainSetup
    ReadinessTimeout = 1
    RestartSurgeTimeout = 1
    FaultKinds = {"apiError"}
    MaxFaults = 1
    MaxLag = 1
    TimePasses = FALSE
    MaxConcurrentReconciles = 5
    JustElected = FALSE
SPECIFICATION PromptSpec
PROPERTIES NodeDrains
