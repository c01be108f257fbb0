CONSTANTS
    Nil = Nil
    d = d
    r = r
    x = x
    y = y
    pd = pd
    pr = pr
    px = px
    py = py
    bare = bare
    batch = batch
    rsD = rsD
    rsR = rsR
    rsX = rsX
    rsY = rsY
    rsB = rsB
    Workloads <- MCWorkloads
    Deployments <- MCDeployments
    NameOf <- MCNameOf
    Pods <- MCPods
    ReplicaSetOf <- MCReplicaSetOf
    OwnerOf <- MCOwnerOf
    OptedIn <- MCOptedIn
    Rejected <- MCRejected
    MaxTaints = 1
SPECIFICATION LoopSpec
INVARIANTS LoopTypeOK NoLostWakeup
PROPERTIES EveryWorkloadServed EveryOperationEnds
CHECK_DEADLOCK FALSE
