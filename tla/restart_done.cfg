CONSTANTS
    Nil = Nil
    Orphans = Orphans
    Rollout = Rollout
    Nodes = {a}
    Drainable = {}
    RemovesNodes = FALSE
    Pods = {p1, p2}
    Setups <- PlainSetup
    ReadinessTimeout = 0
    RestartSurgeTimeout = 0
    FaultKinds = {"crash", "apiError"}
    MaxFaults = 1
    MaxLag = 1
    TimePasses = FALSE
    MaxConcurrentReconciles = 5
    JustElected = FALSE
    MaxRestarts = 1
SPECIFICATION PromptRolloutSpec
PROPERTIES RestartCompletes
