------------------------------ MODULE Cluster -------------------------------
(***************************************************************************)
(* What the controller acts on and what acts beside it: the API server's   *)
(* workload and HPA, the informer caches that lag behind them, the nodes,  *)
(* and the workload's pods under the ReplicaSet controller, the scheduler, *)
(* the HPA controller, the drainer and a GitOps tool.  None of it is code  *)
(* of this repository: each action is what that code relies on.            *)
(*                                                                         *)
(* wl and hpa are sequences of versions: the first is what the informer    *)
(* cache shows, the last is what the API server holds, and the watch       *)
(* delivers them in order.                                                 *)
(***************************************************************************)
EXTENDS Workload, Sequences, FiniteSets

CONSTANTS
    Pods,         \* identities for live pods
    Drainable,    \* the nodes a drainer may taint
    RemovesNodes, \* whether the drainer deletes the nodes it has emptied
    Setups,       \* the configurations of the workload a behaviour may start with
    FaultKinds,   \* which disturbances may happen
    MaxFaults,    \* how many of them
    MaxLag,       \* how many versions a cache may be behind
    TimePasses    \* whether the clock advances

Disturbances == {"crash", "apiError", "reset", "unstable", "optOut", "untaint",
                 "load", "notReady", "edit", "clearRestart"}

(* spec.replicas and the HPA limits before anything happened (hpaMax = 0:  *)
(* no HPA), minAvailable of the PDB (0: no PDB), and the update strategy.  *)
Setup == [replicas : {1, Nil}, minAvailable : {0, 1},
          strategy : {"RollingUpdate", "Recreate"},
          hpaMax : Nat, hpaMin : Nat \cup {Nil}]

ASSUME ClusterAssumption ==
    /\ Nil \notin Pods
    /\ Drainable \subseteq Nodes
    /\ RemovesNodes \in BOOLEAN
    /\ Setups \subseteq Setup
    /\ FaultKinds \subseteq Disturbances
    /\ MaxFaults \in Nat
    /\ MaxLag \in Nat \ {0}
    /\ TimePasses \in BOOLEAN

ASSUME PodsAssumption == IsFiniteSet(Pods)

VARIABLES
    node,      \* status of each node
    wl,        \* versions of the workload, from the cached one to the current one
    hpa,       \* versions of the HPA's spec.minReplicas, likewise
    podNode,   \* where each live pod runs, Nil for an unused identity
    ready,     \* the live pods that are Ready
    setup,     \* the configuration of the workload
    faults     \* disturbances so far

clusterVars == <<node, wl, hpa, podNode, ready, setup, faults>>

Cached == Head(wl)
Current == wl[Len(wl)]
CachedHPA == Head(hpa)
CurrentHPA == hpa[Len(hpa)]

Live == {p \in Pods : podNode[p] # Nil}
PodsOn(n) == {p \in Pods : podNode[p] = n}

ClusterTypeOK ==
    /\ node \in [Nodes -> {"ready", "tainted", "gone"}]
    /\ wl \in Seq(Object) /\ wl # <<>>
    /\ hpa \in Seq(Nat \cup {Nil}) /\ hpa # <<>>
    /\ podNode \in [Pods -> Nodes \cup {Nil}]
    /\ ready \subseteq Pods
    /\ setup \in Setups
    /\ faults \in 0 .. MaxFaults

ClusterInit ==
    /\ node = [n \in Nodes |-> "ready"]
    /\ setup \in Setups
    /\ wl = <<[replicas |-> setup.replicas, enabled |-> "true", status |-> "stable",
               restartAt |-> Nil, restartedAt |-> Nil,
               drainState |-> "none", originalReplicas |-> Nil, drainNode |-> Nil,
               drainStart |-> Nil, hpaName |-> "none", hpaOriginalMin |-> Nil,
               restartSurgeState |-> "none", restartSurgeStart |-> Nil]>>
    /\ hpa = <<setup.hpaMin>>
    /\ \E p \in Pods, n \in Nodes :
         /\ podNode = [q \in Pods |-> IF q = p THEN n ELSE Nil]
         /\ ready = {p}
    /\ faults = 0

-----------------------------------------------------------------------------
(* Writing and watching.                                                   *)

(* A write that changes nothing makes no new version.                      *)
WriteWorkload(v) ==
    IF v = Current THEN UNCHANGED wl
    ELSE Len(wl) <= MaxLag /\ wl' = Append(wl, v)

WriteHPA(min) ==
    IF min = CurrentHPA THEN UNCHANGED hpa
    ELSE Len(hpa) <= MaxLag /\ hpa' = Append(hpa, min)

DeliverWorkload ==
    /\ Len(wl) > 1
    /\ wl' = Tail(wl)
    /\ UNCHANGED <<node, hpa, podNode, ready, setup, faults>>

DeliverHPA ==
    /\ Len(hpa) > 1
    /\ hpa' = Tail(hpa)
    /\ UNCHANGED <<node, wl, podNode, ready, setup, faults>>

Fault(kind) ==
    /\ kind \in FaultKinds
    /\ faults < MaxFaults
    /\ faults' = faults + 1

-----------------------------------------------------------------------------
(* Nodes.                                                                  *)

Taint(n) ==
    /\ n \in Drainable
    /\ node[n] = "ready"
    /\ node' = [node EXCEPT ![n] = "tainted"]
    /\ UNCHANGED <<wl, hpa, podNode, ready, setup, faults>>

Untaint(n) ==
    /\ Fault("untaint")
    /\ node[n] = "tainted"
    /\ node' = [node EXCEPT ![n] = "ready"]
    /\ UNCHANGED <<wl, hpa, podNode, ready, setup>>

(* The drainer may remove the node once its pods are gone.                 *)
DeleteNode(n) ==
    /\ RemovesNodes
    /\ node[n] = "tainted"
    /\ PodsOn(n) = {}
    /\ node' = [node EXCEPT ![n] = "gone"]
    /\ UNCHANGED <<wl, hpa, podNode, ready, setup, faults>>

-----------------------------------------------------------------------------
(* Pods.  A terminating or finished pod is invisible to every check of the *)
(* code, so a pod leaves the model when its deletion starts.               *)

CreatePod(n) ==
    /\ node[n] = "ready"
    /\ Cardinality(Live) < GetReplicas(Current)
    /\ \E p \in Pods \ Live : podNode' = [podNode EXCEPT ![p] = n]
    /\ UNCHANGED <<node, wl, hpa, ready, setup, faults>>

PodReady(n) ==
    /\ \E p \in PodsOn(n) \ ready : ready' = ready \cup {p}
    /\ UNCHANGED <<node, wl, hpa, podNode, setup, faults>>

PodNotReady(n) ==
    /\ Fault("notReady")
    /\ \E p \in PodsOn(n) \cap ready : ready' = ready \ {p}
    /\ UNCHANGED <<node, wl, hpa, podNode, setup>>

DeletePod(p) ==
    /\ podNode' = [podNode EXCEPT ![p] = Nil]
    /\ ready' = ready \ {p}
    /\ UNCHANGED <<node, wl, hpa, setup, faults>>

(* The ReplicaSet controller prefers to delete pods that are not Ready.    *)
DeleteSurplus(n) ==
    /\ Cardinality(Live) > GetReplicas(Current)
    /\ \E p \in PodsOn(n) :
         /\ p \notin ready \/ Live \subseteq ready
         /\ DeletePod(p)

(* The PDB lets an eviction pass that leaves minAvailable pods Ready.      *)
Evict(n) ==
    /\ node[n] = "tainted"
    /\ \E p \in PodsOn(n) :
         /\ Cardinality(ready \ {p}) >= setup.minAvailable
         /\ DeletePod(p)

-----------------------------------------------------------------------------
(* Other writers of the workload object.                                   *)

HPAScale ==
    /\ setup.hpaMax > 0
    /\ WriteWorkload(SetReplicas(Current, HPAMinReplicasOrDefault(CurrentHPA)))
    /\ UNCHANGED <<node, hpa, podNode, ready, setup, faults>>

HPALoad ==
    /\ Fault("load")
    /\ setup.hpaMax > 0
    /\ \E r \in HPAMinReplicasOrDefault(CurrentHPA) .. setup.hpaMax :
         WriteWorkload(SetReplicas(Current, r))
    /\ UNCHANGED <<node, hpa, podNode, ready, setup>>

(* ArgoCD or Flux puts back the replicas of the manifest.                  *)
ResetReplicas ==
    /\ Fault("reset")
    /\ setup.hpaMax = 0
    /\ GetReplicas(Current) # 1
    /\ WriteWorkload(SetReplicas(Current, 1))
    /\ UNCHANGED <<node, hpa, podNode, ready, setup>>

RolloutStarts ==
    /\ Fault("unstable")
    /\ WriteWorkload([Current EXCEPT !.status = "progressing"])
    /\ UNCHANGED <<node, hpa, podNode, ready, setup>>

RolloutEnds ==
    /\ Current.status = "progressing"
    /\ WriteWorkload([Current EXCEPT !.status = "stable"])
    /\ UNCHANGED <<node, hpa, podNode, ready, setup, faults>>

OptOut ==
    /\ Fault("optOut")
    /\ WriteWorkload([Current EXCEPT !.enabled = "none"])
    /\ UNCHANGED <<node, hpa, podNode, ready, setup>>

OtherWriter == HPAScale \/ HPALoad \/ ResetReplicas \/ RolloutStarts \/ RolloutEnds \/ OptOut
=============================================================================
