--------------------------- MODULE NodeReconciler ---------------------------
(***************************************************************************)
(* The drain-surge half of the controller: the reconciler of tainted       *)
(* nodes, its work queue and watches, and the orphan scan that runs beside *)
(* it after a leader election.                                             *)
(*                                                                         *)
(* A reconcile of node n is one handler action, which reads the caches and *)
(* decides, followed by the API calls it decided on, each a step of its    *)
(* own that may fail, and with everything else interleaved.  The copy of   *)
(* the workload a call sends was read before: the patch carries no         *)
(* resourceVersion and overwrites what others wrote since.                 *)
(***************************************************************************)
EXTENDS Cluster

CONSTANTS
    Orphans,                  \* the goroutine that runs RecoverOrphans
    Rollout,                  \* the workload's key at the restart reconciler, and its worker
    MaxConcurrentReconciles,  \* workers of the node controller
    JustElected               \* whether behaviours start with an election, or later

ASSUME ReconcilerAssumption ==
    /\ Orphans \notin Nodes /\ Rollout \notin Nodes /\ Rollout # Orphans
    /\ MaxConcurrentReconciles \in Nat \ {0}
    /\ JustElected \in BOOLEAN

VARIABLES
    queue,      \* keys waiting for a worker, of both reconcilers' queues
    job,        \* API calls each actor has still to make
    recovery    \* progress of RecoverOrphans and the tainted nodes it listed

reconcilerVars == <<queue, job, recovery>>
vars == <<clusterVars, reconcilerVars>>

Keys == Nodes \cup {Rollout}
Actors == Keys \cup {Orphans}

(* What a run of calls is for, which fixes the order of its two calls and  *)
(* what an error or the end of it leads to:                                *)
(*   surge     workload, then HPA; ends with a requeue                     *)
(*   advance   HPA, then workload; ends with a requeue                     *)
(*   finish    HPA, then workload; ends without one                        *)
(*   abort     HPA, whose error is only logged, then workload              *)
(*   abortNode the same from abortWorkloadsForNode, which returns the error*)
Kinds == {"idle", "surge", "advance", "finish", "abort", "abortNode"}

Job == [kind : Kinds, patch : Object \cup {Nil}, hpa : Nat \cup {Nil}]

(* The drain scan, then that of the restart reconciler if it is enabled.   *)
RecoveryPhase == {"elected", "listed", "done", "restartDone"}

Idle == [kind |-> "idle", patch |-> Nil, hpa |-> Nil]

abortJob(kind, v) == [kind |-> kind, patch |-> aborted(v), hpa |-> restoreHPA(v)]

patchJob(kind, v) == [kind |-> kind, patch |-> v, hpa |-> Nil]

TypeOK ==
    /\ ClusterTypeOK
    /\ queue \subseteq Keys
    /\ job \in [Actors -> Job]
    /\ recovery \in [phase : RecoveryPhase, tainted : SUBSET Nodes]

(* A new leader reconciles every object; one that has been up for a while  *)
(* has done that and its scans.                                            *)
StartWith(keys) ==
    /\ ClusterInit
    /\ queue = IF JustElected THEN keys ELSE {}
    /\ job = [a \in Actors |-> Idle]
    /\ recovery = [phase |-> IF JustElected THEN "elected" ELSE "restartDone", tainted |-> {}]

Init == StartWith(Nodes)

-----------------------------------------------------------------------------
(* Reads of a reconcile.                                                   *)

hasDrainTaint(n) == node[n] = "tainted"

FindPodOnNode(n) == PodsOn(n) # {}

FindReadyPodOnOtherNode(n) == \E p \in ready : podNode[p] # n

findWorkloadsWithDrainNode(n) == Cached.drainNode = n

FindMatchingPDB == setup.minAvailable > 0

CanSurge == setup.strategy # "Recreate"

(* Mutant: any replica count is accepted.                                  *)
shouldProcess_AnyReplicas(v, n) ==
    /\ v.enabled = "true"
    /\ IsStable(v)
    /\ v.drainNode \in {n, Nil}
    /\ CanSurge
    /\ setup.hpaMax # 1

(* Mutant: the replica check is inverted.                                  *)
shouldProcess_Inverted(v, n) ==
    /\ v.enabled = "true"
    /\ GetReplicas(v) # 1
    /\ IsStable(v)
    /\ v.drainNode \in {n, Nil}
    /\ CanSurge
    /\ setup.hpaMax # 1

shouldProcess(v, n) ==
    /\ v.enabled = "true"
    /\ GetReplicas(v) = 1
    /\ IsStable(v)
    /\ v.drainNode \in {n, Nil}
    /\ CanSurge
    /\ setup.hpaMax # 1

HPALeavesRoom(v) == setup.hpaMax = 0 \/ setup.hpaMax >= GetReplicas(v) + 1

-----------------------------------------------------------------------------
(* How a reconcile starts and how its handler leaves.                      *)

Dequeue(n) ==
    /\ n \in queue
    /\ job[n] = Idle
    /\ Cardinality({m \in Nodes : job[m] # Idle}) < MaxConcurrentReconciles
    /\ UNCHANGED <<clusterVars, recovery>>

Call(n, j) ==
    /\ job' = [job EXCEPT ![n] = j]
    /\ queue' = queue \ {n}

Return(n) == queue' = queue \ {n} /\ UNCHANGED job

RequeueAfter(n) == UNCHANGED <<queue, job>>

(* reconcileWorkload reached its switch with the cached workload.          *)
Reconciling(n) ==
    /\ Dequeue(n)
    /\ hasDrainTaint(n)
    /\ FindPodOnNode(n) \/ findWorkloadsWithDrainNode(n)

InState(n, s) ==
    /\ Reconciling(n)
    /\ Cached.drainState = s
    /\ ~TimedOut(Cached)
    /\ Cached.drainNode \in {n, Nil}

-----------------------------------------------------------------------------
(* Reconcile and reconcileWorkload, up to the switch.                      *)

(* The node is gone or no longer tainted.                                  *)
abortWorkloadsForNode(n) ==
    /\ Dequeue(n)
    /\ ~hasDrainTaint(n)
    /\ \/ findWorkloadsWithDrainNode(n) /\ Call(n, abortJob("abortNode", Cached))
       \/ ~findWorkloadsWithDrainNode(n) /\ Return(n)

NothingOnNode(n) ==
    /\ Dequeue(n)
    /\ hasDrainTaint(n)
    /\ ~FindPodOnNode(n) /\ ~findWorkloadsWithDrainNode(n)
    /\ Return(n)

(* Checked before the owner of the operation is.                           *)
DrainTimeout(n) ==
    /\ Reconciling(n)
    /\ TimedOut(Cached)
    /\ Call(n, abortJob("abort", Cached))

OtherNodeDrains(n) ==
    /\ Reconciling(n)
    /\ Cached.drainState # "none" /\ ~TimedOut(Cached)
    /\ Cached.drainNode \notin {n, Nil}
    /\ Return(n)

SkipWorkload(n) ==
    /\ Reconciling(n)
    /\ Cached.drainState = "none"
    /\ ~shouldProcess(Cached, n) \/ ~FindMatchingPDB \/ ~HPALeavesRoom(Cached)
    /\ Return(n)

-----------------------------------------------------------------------------
(* The handlers of the switch.                                             *)

handlePending(n) ==
    /\ Reconciling(n)
    /\ Cached.drainState = "none"
    /\ shouldProcess(Cached, n) /\ FindMatchingPDB /\ HPALeavesRoom(Cached)
    /\ LET surged == GetReplicas(Cached) + 1 IN
       \/ /\ setup.hpaMax = 0
          /\ Call(n, patchJob("surge", SetReplicas(recordSurge(Cached, n), surged)))
       \/ /\ setup.hpaMax > 0 /\ IsHPAAtMinReplicas(CachedHPA, surged)
          /\ RequeueAfter(n)
       \/ /\ setup.hpaMax > 0 /\ ~IsHPAAtMinReplicas(CachedHPA, surged)
          /\ Call(n, [kind |-> "surge", hpa |-> surged,
                      patch |-> recordHPA(recordSurge(Cached, n), CachedHPA)])

(* Reentrant safety net for a state the code reads but never writes.       *)
handleScaleUp(n) ==
    /\ InState(n, "pending")
    /\ \/ /\ Cached.originalReplicas = Nil
          /\ Call(n, abortJob("abort", Cached))
       \/ /\ Cached.originalReplicas # Nil
          /\ LET original == Cached.originalReplicas
                 target == IF GetReplicas(Cached) <= original THEN original + 1
                           ELSE Cached.replicas
             IN Call(n, patchJob("advance", [Cached EXCEPT !.replicas = target,
                                                           !.drainState = "scaled-up"]))

LostOriginal(v) == v.hpaName = "none" /\ v.originalReplicas = Nil

(* Somebody put the replicas of a non-HPA workload back.                   *)
WasReset(v) ==
    /\ v.hpaName = "none" /\ v.originalReplicas # Nil
    /\ GetReplicas(v) <= v.originalReplicas

(* Mutant: the wait for the surge pod is left to events, and those of the  *)
(* surge pod go to another node.                                           *)
handleWaitReady_Sleeps(n) ==
    /\ InState(n, "scaled-up")
    /\ \/ /\ LostOriginal(Cached)
          /\ Call(n, abortJob("abort", Cached))
       \/ /\ WasReset(Cached)
          /\ Call(n, patchJob("advance", SetReplicas(Cached, Cached.originalReplicas + 1)))
       \/ /\ ~LostOriginal(Cached) /\ ~WasReset(Cached)
          /\ IF FindReadyPodOnOtherNode(n)
             THEN Call(n, patchJob("advance", [Cached EXCEPT !.drainState = "ready"]))
             ELSE Return(n)

handleWaitReady(n) ==
    /\ InState(n, "scaled-up")
    /\ \/ /\ LostOriginal(Cached)
          /\ Call(n, abortJob("abort", Cached))
       \/ /\ WasReset(Cached)
          /\ Call(n, patchJob("advance", SetReplicas(Cached, Cached.originalReplicas + 1)))
       \/ /\ ~LostOriginal(Cached) /\ ~WasReset(Cached)
          /\ FindReadyPodOnOtherNode(n)
          /\ Call(n, patchJob("advance", [Cached EXCEPT !.drainState = "ready"]))
       \/ /\ ~LostOriginal(Cached) /\ ~WasReset(Cached)
          /\ ~FindReadyPodOnOtherNode(n)
          /\ RequeueAfter(n)

(* Only a non-HPA workload gets its replicas written back.                 *)
scaledDown(v) == IF v.hpaName = "none" THEN SetReplicas(v, v.originalReplicas) ELSE v

LostHPAMin(v) == v.hpaName = "hpa" /\ v.hpaOriginalMin = Nil

(* Mutant: the pod on the node is not looked for.                          *)
handleWaitEviction_Hasty(n) ==
    /\ InState(n, "ready")
    /\ Cached.originalReplicas # Nil
    /\ Call(n, [kind |-> "advance", hpa |-> restoreHPA(Cached),
                patch |-> [scaledDown(Cached) EXCEPT !.drainState = "draining"]])

(* Without original-replicas the code restores the HPA here and again in   *)
(* abortWorkload; the second, identical patch is merged with the first.    *)
handleWaitEviction(n) ==
    /\ InState(n, "ready")
    /\ \/ FindPodOnNode(n) /\ RequeueAfter(n)
       \/ ~FindPodOnNode(n) /\ LostHPAMin(Cached) /\ Return(n)
       \/ /\ ~FindPodOnNode(n) /\ ~LostHPAMin(Cached)
          /\ Cached.originalReplicas = Nil
          /\ Call(n, abortJob("finish", Cached))
       \/ /\ ~FindPodOnNode(n) /\ ~LostHPAMin(Cached)
          /\ Cached.originalReplicas # Nil
          /\ Call(n, [kind |-> "advance", hpa |-> restoreHPA(Cached),
                      patch |-> [scaledDown(Cached) EXCEPT !.drainState = "draining"]])

handleScaleDown(n) ==
    /\ InState(n, "draining")
    /\ \/ /\ Cached.originalReplicas = Nil
          /\ Call(n, abortJob("abort", Cached))
       \/ /\ Cached.originalReplicas # Nil
          /\ Call(n, patchJob("advance", [scaledDown(Cached) EXCEPT !.drainState = "done"]))

handleCleanup(n) ==
    /\ InState(n, "done")
    /\ Call(n, patchJob("finish", clearDrainAnnotations(Cached)))

UnknownState(n) ==
    /\ InState(n, "unknown")
    /\ Call(n, abortJob("abort", Cached))

Reconcile(n) ==
    \/ abortWorkloadsForNode(n) \/ NothingOnNode(n) \/ DrainTimeout(n)
    \/ OtherNodeDrains(n) \/ SkipWorkload(n) \/ handlePending(n)
    \/ handleScaleUp(n) \/ handleWaitReady(n) \/ handleWaitEviction(n)
    \/ handleScaleDown(n) \/ handleCleanup(n) \/ UnknownState(n)

-----------------------------------------------------------------------------
(* The API calls of a job, in the order of its kind.                       *)

PatchesWorkloadNext(a) ==
    job[a].patch # Nil /\ (job[a].kind = "surge" \/ job[a].hpa = Nil)

PatchesHPANext(a) ==
    job[a].hpa # Nil /\ (job[a].kind # "surge" \/ job[a].patch = Nil)

(* The actor's calls are over; a worker's key goes back on the queue when  *)
(* the result asks for it.                                                 *)
EndJob(a, requeue) ==
    /\ job' = [job EXCEPT ![a] = Idle]
    /\ queue' = IF requeue THEN queue \cup ({a} \cap Keys) ELSE queue

AfterCall(a, rest) ==
    IF rest.patch = Nil /\ rest.hpa = Nil
    THEN EndJob(a, rest.kind \in {"surge", "advance"})
    ELSE job' = [job EXCEPT ![a] = rest] /\ UNCHANGED queue

PatchWorkload(a) ==
    /\ PatchesWorkloadNext(a)
    /\ WriteWorkload(Patch(Current, job[a].patch))
    /\ AfterCall(a, [job[a] EXCEPT !.patch = Nil])
    /\ UNCHANGED <<node, hpa, podNode, ready, setup, faults, recovery>>

PatchHPAMinReplicas(a) ==
    /\ PatchesHPANext(a)
    /\ WriteHPA(job[a].hpa)
    /\ AfterCall(a, [job[a] EXCEPT !.hpa = Nil])
    /\ UNCHANGED <<node, wl, podNode, ready, setup, faults, recovery>>

(* Mutant: every error is logged and dropped.                              *)
PatchWorkloadFails_Logged(a) ==
    /\ PatchesWorkloadNext(a)
    /\ Fault("apiError")
    /\ UNCHANGED wl \/ WriteWorkload(Patch(Current, job[a].patch))
    /\ EndJob(a, job[a].kind = "abortNode")
    /\ UNCHANGED <<node, hpa, podNode, ready, setup, recovery>>

(* The call returns an error; the server may have applied it all the same. *)
(* NodeReconciler.Reconcile logs what reconcileWorkload returns and carries*)
(* on, so only abortWorkloadsForNode gets its key retried; the restart     *)
(* reconciler returns every error.                                         *)
PatchWorkloadFails(a) ==
    /\ PatchesWorkloadNext(a)
    /\ Fault("apiError")
    /\ UNCHANGED wl \/ WriteWorkload(Patch(Current, job[a].patch))
    /\ EndJob(a, job[a].kind = "abortNode" \/ a = Rollout)
    /\ UNCHANGED <<node, hpa, podNode, ready, setup, recovery>>

(* Aborting carries on without the HPA; everything else gives up.          *)
PatchHPAFails(a) ==
    /\ PatchesHPANext(a)
    /\ Fault("apiError")
    /\ UNCHANGED hpa \/ WriteHPA(job[a].hpa)
    /\ IF job[a].kind \in {"abort", "abortNode"}
       THEN AfterCall(a, [job[a] EXCEPT !.hpa = Nil])
       ELSE EndJob(a, a = Rollout)
    /\ UNCHANGED <<node, wl, podNode, ready, setup, recovery>>

APICall(a) == PatchWorkload(a) \/ PatchHPAMinReplicas(a)

APICallFails(a) == PatchWorkloadFails(a) \/ PatchHPAFails(a)

-----------------------------------------------------------------------------
(* RecoverOrphans, once after the election: list the nodes, then the       *)
(* workloads.                                                              *)

ListNodes ==
    /\ recovery.phase = "elected"
    /\ recovery' = [phase |-> "listed", tainted |-> {n \in Nodes : hasDrainTaint(n)}]
    /\ UNCHANGED <<clusterVars, queue, job>>

AbortOrphans ==
    /\ recovery.phase = "listed"
    /\ recovery' = [phase |-> "done", tainted |-> {}]
    /\ job' = IF Cached.drainNode \notin recovery.tainted \cup {Nil}
              THEN [job EXCEPT ![Orphans] = abortJob("abort", Cached)]
              ELSE job
    /\ UNCHANGED <<clusterVars, queue>>

RecoverOrphans == ListNodes \/ AbortOrphans

-----------------------------------------------------------------------------
(* The watches: which change in the cluster puts which key on the queue.   *)

(* Mutant: a workload without drain-node annotation is mapped too.         *)
mapWorkloadToNode_Always(v) == {v.drainNode}

mapWorkloadToNode(v) == {v.drainNode} \ {Nil}

mapPodToNode(n) == {n}

Enqueue(keys) == queue' = queue \cup keys /\ UNCHANGED <<job, recovery>>

(* Any event of the Node object itself, a status heartbeat included.       *)
NodeEvent(n) == (Taint(n) \/ Untaint(n) \/ DeleteNode(n)) /\ Enqueue({n})

Heartbeat(n) ==
    /\ node[n] # "gone"
    /\ Enqueue({n})
    /\ UNCHANGED clusterVars

PodChange(n) ==
    CreatePod(n) \/ PodReady(n) \/ PodNotReady(n) \/ DeleteSurplus(n) \/ Evict(n)

PodEvent(n) == PodChange(n) /\ Enqueue(mapPodToNode(n))

(* An update event carries the old and the new object; both are mapped.    *)
UpdatedNodes == mapWorkloadToNode(wl[1]) \cup mapWorkloadToNode(wl[2])

WorkloadEvent == DeliverWorkload /\ Enqueue(UpdatedNodes)

Unwatched ==
    /\ DeliverHPA \/ OtherWriter
    /\ UNCHANGED reconcilerVars

-----------------------------------------------------------------------------
(* Crash and election of the next leader: what was in memory is lost, the  *)
(* caches are listed afresh and every object there is makes an event.      *)
RestartWith(keys) ==
    /\ Fault("crash")
    /\ wl' = <<Current>> /\ hpa' = <<CurrentHPA>>
    /\ queue' = keys
    /\ job' = [a \in Actors |-> Idle]
    /\ recovery' = [phase |-> "elected", tainted |-> {}]
    /\ UNCHANGED <<node, podNode, ready, setup>>

ListedNodes == {n \in Nodes : node[n] # "gone"} \cup mapWorkloadToNode(Current)

Failover == RestartWith(ListedNodes)

OlderJob(j) == IF j.patch = Nil THEN j ELSE [j EXCEPT !.patch = Older(@)]

Tick ==
    /\ TimePasses
    /\ wl' = [i \in DOMAIN wl |-> Older(wl[i])]
    /\ job' = [a \in Actors |-> OlderJob(job[a])]
    /\ UNCHANGED <<node, hpa, podNode, ready, setup, faults, queue, recovery>>

(* Everything but the events that the restart reconciler watches, too.     *)
DrainStep ==
    \/ \E n \in Nodes : Reconcile(n) \/ NodeEvent(n) \/ Heartbeat(n)
    \/ \E a \in Actors : APICall(a) \/ APICallFails(a)
    \/ RecoverOrphans \/ Unwatched \/ Tick

Next == DrainStep \/ (\E n \in Nodes : PodEvent(n)) \/ WorkloadEvent \/ Failover

Spec == Init /\ [][Next]_vars

-----------------------------------------------------------------------------
(* Fairness.  Workers take keys, calls return, watches deliver.            *)

ControllerFairness ==
    /\ \A n \in Nodes : WF_vars(Reconcile(n))
    /\ \A a \in Actors : WF_vars(APICall(a))
    /\ WF_vars(RecoverOrphans) /\ WF_clusterVars(DeliverWorkload)
    /\ WF_clusterVars(DeliverHPA)

(* Reconcile drops the errors of its handlers and does not ask for a retry,*)
(* so after a failed call it takes the next node status to go on.          *)
Heartbeats == \A n \in Nodes : WF_vars(Heartbeat(n))

(* The rest of the cluster does its work: pods are scheduled and become    *)
(* Ready, rollouts end, the HPA holds its minimum, the drainer retries its *)
(* evictions, kubelets post node status.                                   *)
ClusterFairness ==
    /\ Heartbeats
    /\ WF_clusterVars(\E n \in Nodes : CreatePod(n))
    /\ WF_clusterVars(\E n \in Nodes : PodReady(n))
    /\ WF_clusterVars(\E n \in Nodes : DeleteSurplus(n))
    /\ \A n \in Drainable : SF_clusterVars(Evict(n))
    /\ WF_clusterVars(HPAScale \/ RolloutEnds)

PromptSpec == Spec /\ ControllerFairness /\ ClusterFairness

-----------------------------------------------------------------------------
(* Properties.                                                             *)

(* Every version of the workload that exists somewhere: in the log between *)
(* cache and server, or in a patch about to be sent.                       *)
Versions == {wl[i] : i \in 1 .. Len(wl)} \cup ({job[a].patch : a \in Actors} \ {Nil})

Qualifies == FindMatchingPDB /\ CanSurge /\ setup.hpaMax # 1

RecordComplete(v) ==
    /\ Qualifies
    /\ v.originalReplicas = 1
    /\ v.drainNode \in Nodes
    /\ v.drainStart \in Age
    /\ \/ setup.hpaMax = 0 /\ v.hpaName = "none" /\ v.hpaOriginalMin = Nil
       \/ /\ setup.hpaMax > 0 /\ v.hpaName = "hpa"
          /\ v.hpaOriginalMin = HPAMinReplicasOrDefault(setup.hpaMin)

RecordEmpty(v) ==
    /\ v.originalReplicas = Nil /\ v.drainNode = Nil /\ v.drainStart = Nil
    /\ v.hpaName = "none" /\ v.hpaOriginalMin = Nil

(* The record of an operation is never torn and never poisoned: whatever   *)
(* stale copies are written back, in whatever order and across failovers,  *)
(* a version has either no operation at all or one with every annotation   *)
(* abort and completion need (state.go:41-53), and the recorded replicas   *)
(* and minReplicas are those from before the surge, never the surged ones  *)
(* (the re-entry guard of node_controller.go:214-222).  A workload without *)
(* PDB, or that cannot surge, never gets an operation.                     *)
Restorable ==
    \A v \in Versions :
        /\ v.drainState \in {"none", "scaled-up", "ready", "draining", "done"}
        /\ IF v.drainState = "none" THEN RecordEmpty(v) ELSE RecordComplete(v)

(* No surge outlives its record: without an HPA a workload has its one     *)
(* replica or a second one under an operation that is scaled-up or ready.  *)
(* It is what makes timeout, untaint, node deletion and orphan recovery    *)
(* restore the replicas (node_controller.go:390-411, 526-575).             *)
NoLeakedSurge ==
    setup.hpaMax = 0 =>
        \A v \in Versions :
            \/ GetReplicas(v) = 1
            \/ GetReplicas(v) = 2 /\ v.drainState \in {"scaled-up", "ready"}

(* Surges never pile up on an HPA: whatever the load makes of the replicas *)
(* and however often an operation is aborted and started again, its        *)
(* minReplicas is the owner's or the surge of a single replica, in the     *)
(* server, in the cache and in every patch about to be sent                *)
(* (node_controller.go:206-237, 498-513).                                  *)
MinReplicasKnown ==
    {hpa[i] : i \in 1 .. Len(hpa)} \cup ({job[a].hpa : a \in Actors} \ {Nil})
        \subseteq {setup.hpaMin, HPAMinReplicasOrDefault(setup.hpaMin), 2}

(* Surges do not pile up: whatever the annotations say, a workload without *)
(* HPA never gets more than one replica on top of its own and never loses  *)
(* that one, and the minReplicas of an HPA are the original or the surged  *)
(* ones (shouldProcess, the re-entry guard, and the re-applications of     *)
(* handleScaleUp and handleWaitReady).                                     *)
SurgesDoNotPileUp ==
    /\ setup.hpaMax = 0 => \A v \in Versions : GetReplicas(v) \in {1, 2}
    /\ \A i \in 1 .. Len(hpa) : HPAMinReplicasOrDefault(hpa[i]) \in
                                    {HPAMinReplicasOrDefault(setup.hpaMin), 2}

(* Zero downtime: under its PDB the workload is never without a Ready pod, *)
(* neither while it is surged nor when it is scaled back (README.md:71-95, *)
(* scenario 3).                                                            *)
Available == Cardinality(ready) >= setup.minAvailable

(* A drain is never left asleep: while one is recorded, the key of its     *)
(* node is queued, its worker has calls to make, or an event of the        *)
(* workload is on its way, whatever other nodes, the orphan scan and the   *)
(* restart reconciler write meanwhile.  The exceptions are the code's own. *)
(* Reconcile drops the error of an API call (node_controller.go:98-101),   *)
(* and that of a lost hpa-original-min-replicas in handleWaitEviction      *)
(* (node_controller.go:329-332): only the next node status helps then.  An *)
(* operation that lost its drain-node has no node to be queued for.        *)
DrainAwake ==
    \A n \in Nodes :
        /\ Current.drainState # "none" /\ Current.drainNode = n
        /\ ~LostHPAMin(Current)
        => n \in queue \/ job[n] # Idle \/ Len(wl) > 1

(* The controller scales down only once the drained node holds no pod of   *)
(* the workload any more, also when the patch that says so overwrites the  *)
(* operation of another node (handleWaitEviction).                         *)
ScaleDownAfterEviction ==
    [][Current.drainState = "ready" /\ Current'.drainState = "draining"
         => \A n \in Nodes : Current'.drainNode = n => PodsOn(n) = {}]_vars

(* The purpose of the controller: a tainted node gets rid of the pod that  *)
(* the PDB protects.                                                       *)
NodeDrains ==
    \A n \in Drainable :
        hasDrainTaint(n) ~> (PodsOn(n) = {} \/ ~hasDrainTaint(n))
=============================================================================
