------------------------------ MODULE NodeLoop ------------------------------
(***************************************************************************)
(* NodeReconciler.Reconcile over several workloads with pods on one node:  *)
(* how pods are resolved to workloads, which of them one pass takes up,    *)
(* what becomes of the errors and requeue times of each, and what brings   *)
(* the node back on the queue.  The operation of a single workload, its    *)
(* timeouts and its stale reads are those of NodeReconciler; here it is    *)
(* its state and what it waits for.                                        *)
(***************************************************************************)
EXTENDS Naturals

CONSTANTS
    Nil,
    Workloads,    \* the Deployments and Rollouts
    Deployments,  \* which of them are Deployments
    NameOf,       \* their namespace/name; a Deployment and a Rollout may share one
    Pods,         \* the pods that start on the node
    ReplicaSetOf, \* the ReplicaSet a pod's owner references name, or Nil
    OwnerOf,      \* the workload a ReplicaSet's owner references name, or Nil
    OptedIn,      \* the workloads with the enabled annotation
    Rejected,     \* those whose patches an admission webhook may start to reject
    MaxTaints     \* how often the node is tainted

ReplicaSets == {ReplicaSetOf[p] : p \in Pods} \ {Nil}

ASSUME LoopAssumption ==
    /\ Deployments \subseteq Workloads /\ OptedIn \subseteq Workloads
    /\ Rejected \subseteq Workloads
    /\ Nil \notin Workloads /\ Nil \notin ReplicaSets
    /\ DOMAIN NameOf = Workloads /\ DOMAIN ReplicaSetOf = Pods
    /\ DOMAIN OwnerOf = ReplicaSets
    /\ \A rs \in ReplicaSets : OwnerOf[rs] \in Workloads \cup {Nil}
    /\ MaxTaints \in Nat

VARIABLES
    tainted,   \* whether the node is
    taints,    \* how often it has been
    rejecting, \* whether the webhook has started to
    onNode,    \* its pods, without those that are terminating
    surged,    \* the workloads whose second pod is Ready on another node
    state,     \* drain-state of each workload; drain-node is set iff it is not "none"
    queued,    \* whether the node's key waits for a worker
    pass       \* the reconcile under way: what is left to do, and its result so far

loopVars == <<tainted, taints, rejecting, onNode, surged, state, queued, pass>>

DrainState == {"none", "scaled-up", "ready", "draining", "done"}

(* Every requeue interval is finite; what matters is whether there is one. *)
NoPass == [kind |-> "idle", todo |-> {}, requeue |-> FALSE, failed |-> FALSE]

LoopTypeOK ==
    /\ tainted \in BOOLEAN /\ taints \in 0 .. MaxTaints
    /\ rejecting \in BOOLEAN
    /\ onNode \subseteq Pods /\ surged \subseteq Workloads
    /\ state \in [Workloads -> DrainState]
    /\ queued \in BOOLEAN
    /\ pass \in [kind : {"idle", "drain", "abort"}, todo : SUBSET Workloads,
                 requeue : BOOLEAN, failed : BOOLEAN]

LoopInit ==
    /\ tainted = FALSE /\ taints = 0 /\ rejecting = FALSE /\ onNode = Pods /\ surged = {}
    /\ state = [w \in Workloads |-> "none"]
    /\ queued = FALSE /\ pass = NoPass

-----------------------------------------------------------------------------
(* What a pass takes up.                                                   *)

ResolveWorkloadFromPod(p) ==
    IF ReplicaSetOf[p] = Nil THEN Nil ELSE OwnerOf[ReplicaSetOf[p]]

(* The deduplication key has no kind.                                      *)
workloadKey(w) == NameOf[w]

PodOnNode(w) == \E p \in onNode : ResolveWorkloadFromPod(p) = w

Resolved == {w \in Workloads : PodOnNode(w)}

Keys(ws) == {workloadKey(w) : w \in ws}

(* Of the workloads with one key, the Deployment is stored last.           *)
findWorkloadsWithDrainNode ==
    {w \in Workloads :
        /\ state[w] # "none"
        /\ w \notin Deployments =>
             ~\E d \in Deployments : state[d] # "none" /\ workloadKey(d) = workloadKey(w)}

(* One workload per key: the one of the first pod, in the cache's order.   *)
OnePerKey(ws) ==
    {s \in SUBSET ws : Keys(s) = Keys(ws) /\ \A v, w \in s :
                           workloadKey(v) = workloadKey(w) => v = w}

(* Those whose pods are on the node come first; an operation whose pod is  *)
(* gone is added unless its key is taken.                                  *)
WorkloadsOfPass ==
    {fromPods \cup {w \in findWorkloadsWithDrainNode : workloadKey(w) \notin Keys(fromPods)}
        : fromPods \in OnePerKey(Resolved)}

-----------------------------------------------------------------------------
(* Reconcile.                                                              *)

Begin(kind, ws) ==
    pass' = IF ws = {} THEN NoPass ELSE [NoPass EXCEPT !.kind = kind, !.todo = ws]

Reconcile ==
    /\ queued /\ pass.kind = "idle"
    /\ queued' = FALSE
    /\ \/ tainted /\ \E ws \in WorkloadsOfPass : Begin("drain", ws)
       \/ ~tainted /\ Begin("abort", findWorkloadsWithDrainNode)
    /\ UNCHANGED <<tainted, taints, rejecting, onNode, surged, state>>

(* Mutant: a workload waits for the operations of the others to end.       *)
Waits_OneAtATime(w) ==
    \/ state[w] = "none" /\ \E v \in Workloads : state[v] # "none"
    \/ state[w] = "scaled-up" /\ w \notin surged
    \/ state[w] = "ready" /\ PodOnNode(w)

(* Mutant: handleWaitEviction counts the pods of every workload.           *)
Waits_AnyPod(w) ==
    \/ state[w] = "scaled-up" /\ w \notin surged
    \/ state[w] = "ready" /\ onNode # {}

Waits(w) ==
    \/ state[w] = "scaled-up" /\ w \notin surged
    \/ state[w] = "ready" /\ PodOnNode(w)

(* Mutant: handlePending leaves the scale-up to handleScaleUp.             *)
Following_Pending(s) ==
    CASE s = "none" -> "pending" [] s = "scaled-up" -> "ready" [] s = "ready" -> "draining"
      [] s = "draining" -> "done" [] s = "done" -> "none"

Following(s) ==
    CASE s = "none" -> "scaled-up" [] s = "scaled-up" -> "ready" [] s = "ready" -> "draining"
      [] s = "draining" -> "done" [] s = "done" -> "none"

(* A patch that went through; the event maps the old and the new object,   *)
(* one of which has the drain-node annotation.                             *)
PatchState(w, s) ==
    /\ state' = [state EXCEPT ![w] = s]
    /\ surged' = IF s = "none" THEN surged \ {w} ELSE surged
    /\ queued' = TRUE

Fails(w) == rejecting /\ w \in Rejected

Skips(w) == state[w] = "none" /\ w \notin OptedIn

(* What reconcileWorkload returns, or that it returned an error.           *)
Outcome(w) ==
    IF Skips(w) THEN "return"
    ELSE IF Waits(w) THEN "requeue"
    ELSE IF Fails(w) THEN "error"
    ELSE IF state[w] = "done" THEN "patched" ELSE "patchedRequeue"

(* Mutant: the last workload's result is the result of the pass.           *)
Collect_LastWins(w, outcome) ==
    pass' = [pass EXCEPT !.todo = @ \ {w},
                         !.requeue = outcome \in {"requeue", "patchedRequeue"}]

(* The rest of the pass: an error is logged and the others go on, and one  *)
(* of them asking for a requeue is enough.                                 *)
Collect(w, outcome) ==
    pass' = [pass EXCEPT !.todo = @ \ {w},
                         !.requeue = @ \/ outcome \in {"requeue", "patchedRequeue"}]

reconcileWorkload(w) ==
    /\ pass.kind = "drain" /\ w \in pass.todo
    /\ Collect(w, Outcome(w))
    /\ IF Outcome(w) \in {"patched", "patchedRequeue"}
       THEN PatchState(w, Following(state[w]))
       ELSE UNCHANGED <<state, surged, queued>>
    /\ UNCHANGED <<tainted, taints, rejecting, onNode>>

(* The loop of abortWorkloadsForNode, which collects the errors.           *)
abortWorkload(w) ==
    /\ pass.kind = "abort" /\ w \in pass.todo
    /\ \/ /\ Fails(w)
          /\ pass' = [pass EXCEPT !.todo = @ \ {w}, !.failed = TRUE]
          /\ UNCHANGED <<state, surged, queued>>
       \/ /\ ~Fails(w)
          /\ PatchState(w, "none")
          /\ pass' = [pass EXCEPT !.todo = @ \ {w}]
    /\ UNCHANGED <<tainted, taints, rejecting, onNode>>

EndPass ==
    /\ pass.kind # "idle" /\ pass.todo = {}
    /\ queued' = (queued \/ pass.requeue \/ pass.failed)
    /\ pass' = NoPass
    /\ UNCHANGED <<tainted, taints, rejecting, onNode, surged, state>>

-----------------------------------------------------------------------------
(* The cluster.  The events of the surge pod are those of another node.    *)

Taint ==
    /\ ~tainted /\ taints < MaxTaints
    /\ tainted' = TRUE /\ taints' = taints + 1 /\ queued' = TRUE
    /\ UNCHANGED <<rejecting, onNode, surged, state, pass>>

Untaint ==
    /\ tainted
    /\ tainted' = FALSE /\ queued' = TRUE
    /\ UNCHANGED <<taints, rejecting, onNode, surged, state, pass>>

StartRejecting ==
    /\ ~rejecting /\ rejecting' = TRUE
    /\ UNCHANGED <<tainted, taints, onNode, surged, state, queued, pass>>

SurgePodReady(w) ==
    /\ state[w] \in {"scaled-up", "ready"} /\ w \notin surged
    /\ surged' = surged \cup {w}
    /\ UNCHANGED <<tainted, taints, rejecting, onNode, state, queued, pass>>

(* The PDB of the workload lets its pod go once the surge pod is Ready.    *)
(* Pods of no supported workload, say of a DaemonSet, stay.                *)
Evict(p) ==
    /\ tainted /\ p \in onNode
    /\ ResolveWorkloadFromPod(p) \in surged
    /\ onNode' = onNode \ {p} /\ queued' = TRUE
    /\ UNCHANGED <<tainted, taints, rejecting, surged, state, pass>>

PodComesBack(p) ==
    /\ ~tainted /\ p \notin onNode
    /\ onNode' = onNode \cup {p} /\ queued' = TRUE
    /\ UNCHANGED <<tainted, taints, rejecting, surged, state, pass>>

LoopNext ==
    \/ Reconcile \/ EndPass \/ Taint \/ Untaint \/ StartRejecting
    \/ \E w \in Workloads : reconcileWorkload(w) \/ abortWorkload(w) \/ SurgePodReady(w)
    \/ \E p \in Pods : Evict(p) \/ PodComesBack(p)

(* No node heartbeats: every wake-up is one the code asks for or watches.  *)
LoopFairness ==
    /\ WF_loopVars(Reconcile) /\ WF_loopVars(EndPass)
    /\ WF_loopVars(\E w \in Workloads : reconcileWorkload(w) \/ abortWorkload(w))
    /\ \A w \in Workloads : WF_loopVars(SurgePodReady(w))
    /\ \A p \in Pods : WF_loopVars(Evict(p))

LoopSpec == LoopInit /\ [][LoopNext]_loopVars /\ LoopFairness

-----------------------------------------------------------------------------
(* Properties.                                                             *)

(* Workloads that may expect service: nothing is wrong with them, nor with *)
(* one that shares their key.                                              *)
Healthy ==
    {w \in Workloads : \A v \in Workloads :
        workloadKey(v) = workloadKey(w) => v \in OptedIn \ Rejected}

(* A workload the node's reconcile still has something to do for.          *)
Owed(w) == state[w] # "none" \/ (tainted /\ PodOnNode(w))

(* No wake-up is lost: as long as a workload is owed something, the node's *)
(* key is queued or will be when the pass ends, or the pass has its turn   *)
(* still to come.  Nothing else would bring the node back: the events of   *)
(* the surge pod are another node's, an error is dropped and a skipped     *)
(* workload asks for nothing (the requeue of node_controller.go:96-112,    *)
(* the errors of 415-428, the maps of 615-629).                            *)
NoLostWakeup ==
    \A w \in Healthy :
        Owed(w) =>
            \/ queued \/ pass.requeue \/ pass.failed
            \/ \E v \in pass.todo : workloadKey(v) = workloadKey(w)

(* A workload on a tainted node loses its pod there, whatever becomes of   *)
(* the others: neither one whose patches are rejected for good, nor one    *)
(* that is skipped, nor one that hides it under the same key, nor one that *)
(* finishes first takes away its turn (the error handling and the requeue  *)
(* of node_controller.go:96-112, the deduplication of 57-90).              *)
EveryWorkloadServed ==
    \A w \in Healthy : tainted /\ PodOnNode(w) ~> ~PodOnNode(w) \/ ~tainted

(* Every operation ends, also one that abortWorkloadsForNode does not see  *)
(* because a Deployment of the same name hides it: the abort of the        *)
(* Deployment makes an event that brings the node back                     *)
(* (node_controller.go:415-452, 623-629).                                  *)
EveryOperationEnds ==
    \A w \in Healthy : state[w] # "none" ~> state[w] = "none"
=============================================================================
