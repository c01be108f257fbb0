-------------------------- MODULE RolloutReconciler -------------------------
(***************************************************************************)
(* Both halves of the controller on one Argo Rollout: the reconciler that  *)
(* surges a Rollout whose restart the PDB blocks, next to the drain of     *)
(* NodeReconciler.  They share the object, the annotations                 *)
(* original-replicas and hpa-*, the HPA, the caches and the goroutine that *)
(* recovers orphans; each has its own queue and workers.                   *)
(***************************************************************************)
EXTENDS NodeReconciler, ArgoRollouts

rolloutVars == <<vars, argoVars>>

-----------------------------------------------------------------------------
(* Reads of a reconcile.                                                   *)

isRestartStuck(v) ==
    restartPending(v) /\ v.restartAt <= graceOver /\ StalePods(v) # {}

restartCompletedByArgo(v) == ~restartPending(v) \/ StalePods(v) = {}

argoIdle(v) == ~restartPending(v)

abortRestartJob(kind, v) == [kind |-> kind, patch |-> abortedRestart(v), hpa |-> restoreHPA(v)]

-----------------------------------------------------------------------------
(* Reconcile and reconcileWorkload, up to the switch.                      *)

DequeueRollout ==
    /\ Rollout \in queue
    /\ job[Rollout] = Idle
    /\ UNCHANGED <<clusterVars, recovery, restarts, graceOver>>

(* Checked before the drain is looked for.                                 *)
RestartTimeout ==
    /\ DequeueRollout
    /\ RestartTimedOut(Cached)
    /\ Call(Rollout, abortRestartJob("abort", Cached))

yieldToDrain ==
    /\ DequeueRollout
    /\ Cached.drainState # "none" /\ ~RestartTimedOut(Cached)
    /\ \/ isRestartActive(Cached) /\ Call(Rollout, patchJob("finish", yielded(Cached)))
       \/ ~isRestartActive(Cached) /\ Return(Rollout)

InRestartState(s) ==
    /\ DequeueRollout
    /\ Cached.restartSurgeState = s
    /\ Cached.drainState = "none" /\ ~RestartTimedOut(Cached)

-----------------------------------------------------------------------------
(* The handlers of the switch.                                             *)

(* Mutant: any replica count is accepted.                                  *)
Eligible_AnyReplicas(v) == v.enabled = "true" /\ CanSurge

(* Opted in, able to surge, and of one replica.                            *)
Eligible(v) == v.enabled = "true" /\ CanSurge /\ GetReplicas(v) = 1

handleRestartPending ==
    /\ InRestartState("none")
    /\ LET surged == GetReplicas(Cached) + 1 IN
       \/ ~Eligible(Cached) /\ Return(Rollout)
       \/ /\ Eligible(Cached) /\ ~isRestartStuck(Cached)
          /\ IF restartPending(Cached) THEN RequeueAfter(Rollout) ELSE Return(Rollout)
       \/ /\ Eligible(Cached) /\ isRestartStuck(Cached) /\ ~IsStableForRestart(Cached)
          /\ RequeueAfter(Rollout)
       \/ /\ Eligible(Cached) /\ isRestartStuck(Cached) /\ IsStableForRestart(Cached)
          /\ \/ ~(FindMatchingPDB /\ HPALeavesRoom(Cached)) /\ Return(Rollout)
             \/ /\ FindMatchingPDB /\ setup.hpaMax = 0
                /\ Call(Rollout, patchJob("surge", SetReplicas(recordRestart(Cached), surged)))
             \/ /\ FindMatchingPDB /\ setup.hpaMax > 0 /\ HPALeavesRoom(Cached)
                /\ IF IsHPAAtMinReplicas(CachedHPA, surged)
                   THEN RequeueAfter(Rollout)
                   ELSE Call(Rollout, [kind |-> "surge", hpa |-> surged,
                                       patch |-> recordHPA(recordRestart(Cached), CachedHPA)])

(* For a state the code reads but never writes; it does not leave it.      *)
handleRestartScaleUp ==
    /\ InRestartState("pending")
    /\ LET original == Cached.originalReplicas IN
       \/ original = Nil /\ Call(Rollout, abortRestartJob("abort", Cached))
       \/ /\ original # Nil /\ (Cached.hpaName # "none" \/ GetReplicas(Cached) > original)
          /\ RequeueAfter(Rollout)
       \/ /\ WasReset(Cached)
          /\ Call(Rollout, patchJob("advance", SetReplicas(Cached, original + 1)))

handleRestartWaitReady ==
    /\ InRestartState("scaled-up")
    /\ \/ /\ LostOriginal(Cached)
          /\ Call(Rollout, abortRestartJob("abort", Cached))
       \/ /\ WasReset(Cached)
          /\ Call(Rollout, patchJob("advance", SetReplicas(Cached, Cached.originalReplicas + 1)))
       \/ /\ ~LostOriginal(Cached) /\ ~WasReset(Cached)
          /\ IF Cardinality(ready) >= 2
             THEN Call(Rollout, patchJob("advance", [Cached EXCEPT !.restartSurgeState = "ready"]))
             ELSE RequeueAfter(Rollout)

(* Mutant: the replicas are left to the next state.                        *)
handleRestartWaitForArgo_NoScaleDown ==
    /\ InRestartState("ready")
    /\ \/ ~restartCompletedByArgo(Cached) /\ RequeueAfter(Rollout)
       \/ /\ restartCompletedByArgo(Cached)
          /\ Call(Rollout, [kind |-> "advance", hpa |-> restoreHPA(Cached),
                            patch |-> [Cached EXCEPT !.restartSurgeState = "draining"]])

(* Without original-replicas the code restores the HPA here and again in   *)
(* abortRestartSurge; the second, identical patch is merged with the first.*)
handleRestartWaitForArgo ==
    /\ InRestartState("ready")
    /\ \/ ~restartCompletedByArgo(Cached) /\ RequeueAfter(Rollout)
       \/ /\ restartCompletedByArgo(Cached)
          /\ \/ LostHPAMin(Cached) /\ RequeueAfter(Rollout)
             \/ /\ ~LostHPAMin(Cached) /\ Cached.originalReplicas = Nil
                /\ Call(Rollout, abortRestartJob("finish", Cached))
             \/ /\ ~LostHPAMin(Cached) /\ Cached.originalReplicas # Nil
                /\ Call(Rollout, [kind |-> "advance", hpa |-> restoreHPA(Cached),
                                  patch |-> [scaledDown(Cached) EXCEPT
                                               !.restartSurgeState = "draining"]])

handleRestartScaleDown ==
    /\ InRestartState("draining")
    /\ \/ /\ Cached.originalReplicas = Nil
          /\ Call(Rollout, abortRestartJob("abort", Cached))
       \/ /\ Cached.originalReplicas # Nil
          /\ Call(Rollout, patchJob("advance", [scaledDown(Cached) EXCEPT
                                                  !.restartSurgeState = "done"]))

handleRestartCleanup ==
    /\ InRestartState("done")
    /\ Call(Rollout, patchJob("finish", clearRestartSurgeAnnotations(Cached)))

UnknownRestartState ==
    /\ InRestartState("unknown")
    /\ Call(Rollout, abortRestartJob("abort", Cached))

ReconcileRollout ==
    \/ RestartTimeout \/ yieldToDrain \/ handleRestartPending \/ handleRestartScaleUp
    \/ handleRestartWaitReady \/ handleRestartWaitForArgo \/ handleRestartScaleDown
    \/ handleRestartCleanup \/ UnknownRestartState

-----------------------------------------------------------------------------
(* RolloutReconciler.RecoverOrphans, after the drain's scan has made its   *)
(* calls.  It does not look for a drain.                                   *)
RecoverRestartOrphans ==
    /\ recovery.phase = "done" /\ job[Orphans] = Idle
    /\ recovery' = [recovery EXCEPT !.phase = "restartDone"]
    /\ job' = IF Cached.restartSurgeState # "none" /\ argoIdle(Cached)
              THEN [job EXCEPT ![Orphans] = abortRestartJob("abort", Cached)]
              ELSE job
    /\ UNCHANGED <<clusterVars, queue, restarts, graceOver>>

-----------------------------------------------------------------------------
(* The watches, of both reconcilers.                                       *)

(* Mutant: an operation under way is not enough.                           *)
relevant_Pending(v) == v.enabled = "true" /\ restartPending(v)

relevant(v) == v.restartSurgeState # "none" \/ (v.enabled = "true" /\ restartPending(v))

rolloutRelevantPredicate(v) == IF relevant(v) THEN {Rollout} ELSE {}

(* Mutant: a pod that could not be resolved makes a request of its own.    *)
mapPodToRollout_Unresolved == {Rollout, Nil}

mapPodToRollout == {Rollout}

RolloutPodEvent(n) ==
    /\ \/ PodChange(n)
       \/ ArgoEvict(n)
    /\ Enqueue(mapPodToNode(n) \cup mapPodToRollout)
    /\ UNCHANGED <<restarts, graceOver>>

RolloutEvent ==
    /\ DeliverWorkload
    /\ Enqueue(UpdatedNodes \cup rolloutRelevantPredicate(wl[2]))
    /\ UNCHANGED <<restarts, graceOver>>

(* Every Rollout and every pod makes an event for the new leader.          *)
RolloutFailover ==
    /\ RestartWith(ListedNodes \cup rolloutRelevantPredicate(Current)
                       \cup (IF Live = {} THEN {} ELSE mapPodToRollout))
    /\ UNCHANGED <<restarts, graceOver>>

Argo ==
    /\ RequestRestart \/ ClearRestart \/ GraceEnds \/ ArgoRestarts \/ ArgoFinishes
    /\ UNCHANGED reconcilerVars

RolloutInit == StartWith(Keys) /\ ArgoInit

RolloutNext ==
    /\ \/ DrainStep /\ UNCHANGED <<restarts, graceOver>>
       \/ ReconcileRollout \/ RecoverRestartOrphans \/ RolloutEvent \/ RolloutFailover \/ Argo
       \/ \E n \in Nodes : RolloutPodEvent(n)
    /\ Births

RolloutSpec == RolloutInit /\ [][RolloutNext]_rolloutVars

-----------------------------------------------------------------------------
(* Fairness, beside that of NodeReconciler.                                *)

RestartFairness ==
    /\ ControllerFairness
    /\ WF_vars(ReconcileRollout) /\ WF_vars(RecoverRestartOrphans)

(* Grace periods pass, and Argo retries its evictions every 30 seconds.    *)
ArgoFairness ==
    /\ WF_<<restarts, graceOver>>(GraceEnds)
    /\ WF_clusterVars(ArgoRestarts \/ ArgoFinishes)
    /\ \A n \in Nodes : SF_clusterVars(ArgoEvict(n))

PromptRolloutSpec == RolloutSpec /\ RestartFairness /\ ClusterFairness /\ ArgoFairness

-----------------------------------------------------------------------------
(* Properties.                                                             *)

RolloutTypeOK == TypeOK /\ ArgoTypeOK

(* The refinement mapping: an operation is open while either state machine *)
(* is in one; the replicas of a workload with HPA are not the controller's.*)
Contract == INSTANCE SurgeContract WITH
    Owned <- 1,
    open <- Current.drainState # "none" \/ Current.restartSurgeState # "none",
    replicas <- IF setup.hpaMax = 0 THEN GetReplicas(Current) ELSE 1

(* Both state machines together implement the contract: at most one more   *)
(* replica, only while one of them has an operation recorded, given back   *)
(* by the write that removes the last record, and every such period ends,  *)
(* however drain and restart surge yield to, abort or overwrite each other.*)
ContractKept == Contract!Spec

(* The purpose of the restart reconciler: a restart that the PDB blocks is *)
(* carried through by Argo (README.md:152-163, handleRestartPending to     *)
(* handleRestartWaitForArgo).                                              *)
RestartCompletes == restartPending(Current) ~> ~restartPending(Current)

SharedRecordWhole(v) ==
    /\ Qualifies
    /\ v.originalReplicas = 1
    /\ \/ setup.hpaMax = 0 /\ v.hpaName = "none" /\ v.hpaOriginalMin = Nil
       \/ /\ setup.hpaMax > 0 /\ v.hpaName = "hpa"
          /\ v.hpaOriginalMin = HPAMinReplicasOrDefault(setup.hpaMin)

SharedRecordEmpty(v) ==
    v.originalReplicas = Nil /\ v.hpaName = "none" /\ v.hpaOriginalMin = Nil

(* The record that drain and restart surge share is never torn and never   *)
(* poisoned: in every version, stored, cached or about to be written, it   *)
(* is empty, or whole with the values from before the surge.  A restart    *)
(* surge always has it; when neither operation is recorded nothing of it   *)
(* is left.  A drain may have lost it, to a restart surge that timed out   *)
(* or was an orphan (abortRestartSurge clears the shared keys), but then   *)
(* its replicas are restored: NoLeakedSharedSurge.                         *)
SharedRestorable ==
    \A v \in Versions :
        /\ v.restartSurgeState \in {"none", "scaled-up", "ready", "draining", "done"}
        /\ IF v.restartSurgeState = "none"
           THEN v.restartSurgeStart = Nil
           ELSE v.restartSurgeStart \in RestartAge /\ SharedRecordWhole(v)
        /\ v.drainState = "none" /\ v.restartSurgeState = "none" => SharedRecordEmpty(v)
        /\ SharedRecordWhole(v) \/ SharedRecordEmpty(v)

(* No surge outlives its record, whichever of the two started it, took it  *)
(* over or yielded: without an HPA a second replica exists only together   *)
(* with the recorded original and an operation that still takes it away    *)
(* (abortWorkload, abortRestartSurge, yieldToDrain).                       *)
NoLeakedSharedSurge ==
    setup.hpaMax = 0 =>
        \A v \in Versions :
            \/ GetReplicas(v) = 1
            \/ /\ GetReplicas(v) = 2 /\ v.originalReplicas = 1
               /\ \/ v.drainState \in {"scaled-up", "ready"}
                  \/ v.drainState = "none" /\ v.restartSurgeState \in {"scaled-up", "ready"}

(* A restart surge is never left asleep: while one is recorded, the key of *)
(* the Rollout is queued, its worker has calls to make, or an event that   *)
(* passes the predicate is on its way, also after any failed API call and  *)
(* any damage to the annotations.  A surge that is done waits for the end  *)
(* of a drain: the write that ends the drain ends it, too, or is such an   *)
(* event (rollout_controller.go:106-112, 498-524).                         *)
RestartAwake ==
    Current.restartSurgeState # "none" =>
        \/ Rollout \in queue \/ job[Rollout] # Idle \/ Len(wl) > 1
        \/ Current.restartSurgeState = "done" /\ Current.drainState # "none"

(* state.go:31-34, "the two operations are mutually exclusive on a given   *)
(* workload (state machine guards prevent overlap)".                       *)
Exclusive == Current.drainState = "none" \/ Current.restartSurgeState = "none"
=============================================================================
