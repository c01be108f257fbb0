----------------------- MODULE RolloutReconcilerProofs ----------------------
(***************************************************************************)
(* The safety of drain and restart surge on one Rollout, for any set of    *)
(* nodes, pods and setups, any cache lag, any number of workers, restarts  *)
(* and faults: the record they share is never torn or poisoned, no surge   *)
(* outlives it, and both together implement the safety of SurgeContract.   *)
(***************************************************************************)
EXTENDS SharedRecordProofs

-----------------------------------------------------------------------------
(* Steps of the controller.                                                *)

(* A handler that decides on calls that fit preserves the invariant.       *)
LEMMA SharedCall ==
    ASSUME SharedInv, NEW k \in Keys, NEW j, FitJob(setup, j),
           UNCHANGED <<clusterVars, recovery>>, Call(k, j)
    PROVE  SharedInv'
<1>1. job' = [job EXCEPT ![k] = j] /\ j \in Job /\ queue' \subseteq Keys
  BY DEF Call, FitJob, SharedInv
<1>2. job' \in [Actors -> Job] /\ \A a \in Actors : FitJob(setup, job'[a])
  BY <1>1 DEF SharedInv, Actors
<1>3. QED
  BY <1>1, <1>2 DEF SharedInv, clusterVars

(* A handler that returns or waits preserves it.                           *)
LEMMA SharedReturn ==
    ASSUME SharedInv, NEW k \in Keys, UNCHANGED <<clusterVars, recovery>>,
           Return(k) \/ RequeueAfter(k)
    PROVE  SharedInv'
BY DEF SharedInv, Return, RequeueAfter, clusterVars

(* The cached copies a handler reads fit.                                  *)
LEMMA CachedFit ==
    ASSUME SharedInv
    PROVE  /\ Fit(setup, Cached) /\ Fit(setup, Current)
           /\ CachedHPA \in Nat \cup {Nil} /\ GoodMin(setup, CachedHPA)
           /\ CurrentHPA \in Nat \cup {Nil} /\ GoodMin(setup, CurrentHPA)
           /\ setup \in Setup
BY FitEnds, MinsEnds, ClusterAssumption, ZenonT(60) DEF SharedInv, Cached, Current, CachedHPA, CurrentHPA

(* handlePending records the state before the surge, and takes over the    *)
(* record of a restart surge if there is one.                              *)
LEMMA SharedPending ==
    ASSUME SharedInv, NEW n \in Nodes, handlePending(n)
    PROVE  SharedInv'
<1> DEFINE v == Cached
           w == recordSurge(v, n)
<1>1. /\ Fit(setup, v) /\ setup \in Setup
      /\ CachedHPA \in Nat \cup {Nil} /\ GoodMin(setup, CachedHPA)
  BY CachedFit
<1>2. /\ Dequeue(n) /\ v.drainState = "none" /\ GetReplicas(v) = 1
      /\ setup.strategy # "Recreate" /\ setup.hpaMax # 1 /\ setup.minAvailable > 0
  BY DEF handlePending, Reconciling, shouldProcess, CanSurge, FindMatchingPDB
<1>3. setup.minAvailable # 0 /\ setup.hpaMax \in Nat
  BY <1>1, <1>2 DEF Setup
<1>4. GetReplicas(v) + 1 = 2
  BY <1>2
<1>5. \/ setup.hpaMax = 0 /\ Call(n, patchJob("surge", SetReplicas(w, 2)))
      \/ RequeueAfter(n)
      \/ /\ setup.hpaMax > 0 /\ ~IsHPAAtMinReplicas(CachedHPA, 2)
         /\ Call(n, [kind |-> "surge", hpa |-> 2, patch |-> recordHPA(w, CachedHPA)])
  BY <1>4 DEF handlePending
<1>6. UNCHANGED <<clusterVars, recovery>> /\ n \in Keys
  BY <1>2 DEF Dequeue, Keys
<1> HIDE DEF v
<1>7. v \in Object /\ v.restartSurgeState \in Written
  BY <1>1 DEF Fit
<1>8. /\ w \in Object /\ w.drainState = "scaled-up" /\ w.originalReplicas = 1
      /\ w.hpaName = v.hpaName /\ w.hpaOriginalMin = v.hpaOriginalMin
      /\ w.restartSurgeState = v.restartSurgeState
      /\ w.restartSurgeStart = v.restartSurgeStart
  BY <1>2, <1>7, SurgeRecord
<1> HIDE DEF w
<1>9. /\ w.drainState \in Written /\ w.restartSurgeState \in Written /\ Surging(w)
      /\ IF w.restartSurgeState = "none" THEN w.restartSurgeStart = Nil
                                         ELSE w.restartSurgeStart \in RestartAge
  BY <1>1, <1>7, <1>8 DEF Fit, Written, Surging
<1>10. CASE setup.hpaMax = 0 /\ Call(n, patchJob("surge", SetReplicas(w, 2)))
  <2>1. w.hpaName = "none" /\ w.hpaOriginalMin = Nil
    BY <1>1, <1>8, <1>10, SMTT(30) DEF Fit, Whole, Empty
  <2>2. Fit(setup, SetReplicas(w, 2))
    BY <1>2, <1>3, <1>8, <1>9, <1>10, <2>1, FitSurge, SMTT(30)
  <2>3. FitJob(setup, patchJob("surge", SetReplicas(w, 2)))
    BY <2>2, FitPatchJob DEF Kinds
  <2>4. QED
    BY <1>6, <1>10, <2>3, SharedCall, SMTT(30)
<1>11. CASE RequeueAfter(n)
  BY <1>6, <1>11, SharedReturn
<1>12. CASE /\ setup.hpaMax > 0 /\ ~IsHPAAtMinReplicas(CachedHPA, 2)
            /\ Call(n, [kind |-> "surge", hpa |-> 2, patch |-> recordHPA(w, CachedHPA)])
  <2> DEFINE u == recordHPA(w, CachedHPA)
  <2>1. setup.hpaMax \notin {0, 1}
    BY <1>2, <1>3, <1>12, SMTT(30)
  <2>2. Fit(setup, u)
    BY <1>1, <1>2, <1>3, <1>8, <1>9, <1>12, <2>1, FitSurgeHPA, SMTT(30)
  <2> HIDE DEF u
  <2>3. FitJob(setup, [kind |-> "surge", hpa |-> 2, patch |-> u])
    BY <2>2 DEF FitJob, Job, Kinds, Fit
  <2>4. QED
    BY <1>6, <1>12, <2>3, SharedCall, SMTT(30) DEF u
<1>13. QED
  BY <1>5, <1>10, <1>11, <1>12

(* Every handler of the drain preserves the invariant, also on a record    *)
(* that a restart surge has emptied.                                       *)
LEMMA SharedReconcile ==
    ASSUME SharedInv, NEW n \in Nodes, Reconcile(n)
    PROVE  SharedInv'
<1> DEFINE v == Cached
<1>1. Fit(setup, v) /\ n \in Keys
  BY CachedFit, SMTT(30) DEF Keys
<1>2. Dequeue(n)
  BY DEF Reconcile, abortWorkloadsForNode, NothingOnNode, DrainTimeout, OtherNodeDrains,
         SkipWorkload, handlePending, handleScaleUp, handleWaitReady, handleWaitEviction,
         handleScaleDown, handleCleanup, UnknownState, InState, Reconciling
<1>3. UNCHANGED <<clusterVars, recovery>>
  BY <1>2 DEF Dequeue
<1>4. ASSUME NEW kind \in Kinds, Call(n, abortJob(kind, v))
      PROVE  SharedInv'
  BY <1>1, <1>3, <1>4, FitAborts, SharedCall
<1>5. ASSUME NEW kind \in Kinds, NEW u, Fit(setup, u), Call(n, patchJob(kind, u))
      PROVE  SharedInv'
  BY <1>1, <1>3, <1>5, FitPatchJob, SharedCall
<1>6. CASE Return(n) \/ RequeueAfter(n)
  BY <1>1, <1>3, <1>6, SharedReturn
<1>7. CASE abortWorkloadsForNode(n)
  BY <1>4, <1>6, <1>7 DEF abortWorkloadsForNode, Kinds
<1>8. CASE NothingOnNode(n) \/ OtherNodeDrains(n) \/ SkipWorkload(n)
  BY <1>6, <1>8 DEF NothingOnNode, OtherNodeDrains, SkipWorkload
<1>9. CASE DrainTimeout(n) \/ UnknownState(n)
  BY <1>4, <1>9 DEF DrainTimeout, UnknownState, Kinds
<1>10. CASE handlePending(n)
  BY <1>10, SharedPending
<1>11. CASE handleScaleUp(n)
  BY <1>1, <1>11 DEF handleScaleUp, InState, Fit, Written
<1>12. CASE handleWaitReady(n)
  <2>1. v.drainState = "scaled-up"
    BY <1>12 DEF handleWaitReady, InState
  <2>2. v.originalReplicas # Nil => Whole(setup, v) /\ Surging(v) /\ v.originalReplicas + 1 = 2
    BY <1>1, <2>1, WholeOrEmpty DEF Surging
  <2>3. v.originalReplicas = Nil => LostOriginal(v)
    BY <1>1, WholeOrEmpty DEF Empty, LostOriginal
  <2>4. \/ Call(n, abortJob("abort", v))
        \/ v.originalReplicas # Nil /\ Call(n, patchJob("advance", SetReplicas(v, 2)))
        \/ /\ v.originalReplicas # Nil
           /\ Call(n, patchJob("advance", [v EXCEPT !.drainState = "ready"]))
        \/ RequeueAfter(n)
    BY <1>12, <2>2, <2>3, SMTT(30) DEF handleWaitReady, WasReset
  <2>5. QED
    BY <1>1, <1>4, <1>5, <1>6, <2>1, <2>2, <2>4, FitReapplied, FitReady, ZenonT(60) DEF Kinds
<1>13. CASE handleWaitEviction(n)
  <2> DEFINE u == [scaledDown(v) EXCEPT !.drainState = "draining"]
  <2>1. v.drainState = "ready"
    BY <1>13 DEF handleWaitEviction, InState
  <2>2. \/ RequeueAfter(n) \/ Return(n) \/ Call(n, abortJob("finish", v))
        \/ /\ v.originalReplicas # Nil
           /\ Call(n, [kind |-> "advance", hpa |-> restoreHPA(v), patch |-> u])
    BY <1>13 DEF handleWaitEviction
  <2>3. v.originalReplicas # Nil => Fit(setup, u)
    BY <1>1, <2>1, FitScaledDown, Zenon
  <2> HIDE DEF u
  <2>4. QED
    BY <1>1, <1>3, <1>4, <1>6, <2>2, <2>3, FitScaleDownJob, SharedCall DEF Kinds
<1>14. CASE handleScaleDown(n)
  <2> DEFINE u == [scaledDown(v) EXCEPT !.drainState = "done"]
  <2>1. v.drainState = "draining"
    BY <1>14 DEF handleScaleDown, InState
  <2>2. \/ Call(n, abortJob("abort", v))
        \/ v.originalReplicas # Nil /\ Call(n, patchJob("advance", u))
    BY <1>14 DEF handleScaleDown
  <2>3. v.originalReplicas # Nil => Fit(setup, u)
    BY <1>1, <2>1, FitScaledDown, ZenonT(60)
  <2> HIDE DEF u
  <2>4. QED
    BY <1>4, <1>5, <2>2, <2>3 DEF Kinds
<1>15. CASE handleCleanup(n)
  <2>1. v.drainState = "done" /\ Call(n, patchJob("finish", clearDrainAnnotations(v)))
    BY <1>15 DEF handleCleanup, InState
  <2>2. v \in Object /\ (setup.hpaMax = 0 => GetReplicas(v) = 1)
    BY <1>1, <2>1 DEF Fit, Surging
  <2>3. Fit(setup, clearDrainAnnotations(v))
    BY <2>2, FitCleared
  <2>4. QED
    BY <1>5, <2>1, <2>3 DEF Kinds
<1>16. QED
  BY <1>7, <1>8, <1>9, <1>10, <1>11, <1>12, <1>13, <1>14, <1>15, SMTT(30) DEF Reconcile

(* handleRestartPending starts from an empty record.                       *)
LEMMA SharedRestartPending ==
    ASSUME SharedInv, handleRestartPending
    PROVE  SharedInv'
<1> DEFINE v == Cached
           w == recordRestart(v)
<1>1. /\ Fit(setup, v) /\ setup \in Setup /\ setup.hpaMax \in Nat
      /\ CachedHPA \in Nat \cup {Nil} /\ GoodMin(setup, CachedHPA)
  BY CachedFit DEF Setup
<1>2. /\ v.restartSurgeState = "none" /\ v.drainState = "none"
      /\ UNCHANGED <<clusterVars, recovery>> /\ Rollout \in Keys
  BY DEF handleRestartPending, InRestartState, DequeueRollout, Keys
<1>3. \/ Return(Rollout) \/ RequeueAfter(Rollout)
      \/ /\ Eligible(v) /\ FindMatchingPDB /\ setup.hpaMax = 0
         /\ Call(Rollout, patchJob("surge", SetReplicas(w, GetReplicas(v) + 1)))
      \/ /\ Eligible(v) /\ FindMatchingPDB /\ setup.hpaMax > 0 /\ HPALeavesRoom(v)
         /\ ~IsHPAAtMinReplicas(CachedHPA, GetReplicas(v) + 1)
         /\ Call(Rollout, [kind |-> "surge", hpa |-> GetReplicas(v) + 1,
                           patch |-> recordHPA(w, CachedHPA)])
  BY DEF handleRestartPending
<1> HIDE DEF v
<1>4. CASE Return(Rollout) \/ RequeueAfter(Rollout)
  BY <1>2, <1>4, SharedReturn
<1>5. ASSUME Eligible(v), FindMatchingPDB
      PROVE  /\ GetReplicas(v) = 1 /\ GetReplicas(v) + 1 = 2
             /\ setup.minAvailable # 0 /\ setup.strategy # "Recreate"
             /\ w \in Object /\ w.drainState \in Written /\ w.restartSurgeState \in Written
             /\ Surging(w) /\ w.originalReplicas = 1
             /\ w.hpaName = "none" /\ w.hpaOriginalMin = Nil
             /\ IF w.restartSurgeState = "none" THEN w.restartSurgeStart = Nil
                                                ELSE w.restartSurgeStart \in RestartAge
  <2>1. GetReplicas(v) = 1 /\ setup.minAvailable # 0 /\ setup.strategy # "Recreate"
    BY <1>1, <1>5 DEF Eligible, FindMatchingPDB, CanSurge, Setup
  <2>2. v \in Object /\ Empty(v)
    BY <1>1, <1>2 DEF Fit
  <2>3. /\ w \in Object /\ w.restartSurgeState = "scaled-up" /\ w.originalReplicas = 1
        /\ w.restartSurgeStart \in RestartAge /\ w.drainState = "none"
        /\ w.hpaName = "none" /\ w.hpaOriginalMin = Nil
    BY <1>2, <2>1, <2>2, RestartRecord DEF Empty
  <2> HIDE DEF w
  <2>4. w.drainState \in Written /\ w.restartSurgeState \in Written /\ Surging(w)
    BY <2>3, SMTT(30) DEF Written, Surging
  <2>5. QED
    BY <2>1, <2>3, <2>4
<1> HIDE DEF w
<1>6. CASE /\ Eligible(v) /\ FindMatchingPDB /\ setup.hpaMax = 0
           /\ Call(Rollout, patchJob("surge", SetReplicas(w, GetReplicas(v) + 1)))
  <2>1. Fit(setup, SetReplicas(w, 2))
    BY <1>5, <1>6, FitSurge
  <2>2. FitJob(setup, patchJob("surge", SetReplicas(w, 2)))
    BY <2>1, FitPatchJob DEF Kinds
  <2>3. QED
    BY <1>2, <1>5, <1>6, <2>2, SharedCall, SMTT(30)
<1>7. CASE /\ Eligible(v) /\ FindMatchingPDB /\ setup.hpaMax > 0 /\ HPALeavesRoom(v)
           /\ ~IsHPAAtMinReplicas(CachedHPA, GetReplicas(v) + 1)
           /\ Call(Rollout, [kind |-> "surge", hpa |-> GetReplicas(v) + 1,
                             patch |-> recordHPA(w, CachedHPA)])
  <2> DEFINE u == recordHPA(w, CachedHPA)
  <2>1. GetReplicas(v) + 1 = 2
    BY <1>5, <1>7
  <2>2. setup.hpaMax \notin {0, 1}
    BY <1>1, <1>7, <2>1, SMTT(30) DEF HPALeavesRoom
  <2>3. Fit(setup, u)
    BY <1>1, <1>5, <1>7, <2>1, <2>2, FitSurgeHPA, SMTT(30)
  <2> HIDE DEF u
  <2>4. FitJob(setup, [kind |-> "surge", hpa |-> 2, patch |-> u])
    BY <2>3 DEF FitJob, Job, Kinds, Fit
  <2>5. Call(Rollout, [kind |-> "surge", hpa |-> 2, patch |-> u])
    BY <1>7, <2>1 DEF u
  <2>6. QED
    BY <1>2, <2>4, <2>5, SharedCall, SMTT(30)
<1>8. QED
  BY <1>3, <1>4, <1>6, <1>7

(* Every handler of the restart surge preserves the invariant.             *)
LEMMA SharedReconcileRollout ==
    ASSUME SharedInv, ReconcileRollout
    PROVE  SharedInv'
<1> DEFINE v == Cached
<1>1. Fit(setup, v) /\ Rollout \in Keys
  BY CachedFit, SMTT(30) DEF Keys
<1>2. UNCHANGED <<clusterVars, recovery>>
  BY DEF ReconcileRollout, RestartTimeout, yieldToDrain, handleRestartPending,
         handleRestartScaleUp, handleRestartWaitReady, handleRestartWaitForArgo,
         handleRestartScaleDown, handleRestartCleanup, UnknownRestartState, InRestartState,
         DequeueRollout
<1>3. ASSUME NEW kind \in Kinds, Call(Rollout, abortRestartJob(kind, v))
      PROVE  SharedInv'
  BY <1>1, <1>2, <1>3, FitAborts, SharedCall
<1>4. ASSUME NEW kind \in Kinds, NEW u, Fit(setup, u), Call(Rollout, patchJob(kind, u))
      PROVE  SharedInv'
  BY <1>1, <1>2, <1>4, FitPatchJob, SharedCall
<1>5. CASE Return(Rollout) \/ RequeueAfter(Rollout)
  BY <1>1, <1>2, <1>5, SharedReturn
<1>6. CASE RestartTimeout \/ UnknownRestartState
  BY <1>3, <1>6 DEF RestartTimeout, UnknownRestartState, Kinds
<1>7. CASE yieldToDrain
  <2>1. /\ v.drainState # "none"
        /\ \/ v.restartSurgeState # "none" /\ Call(Rollout, patchJob("finish", yielded(v)))
           \/ Return(Rollout)
    BY <1>7 DEF yieldToDrain, isRestartActive
  <2>2. QED
    BY <1>1, <1>4, <1>5, <2>1, FitYield, SMTT(30) DEF Kinds
<1>8. CASE handleRestartPending
  BY <1>8, SharedRestartPending
<1>9. CASE handleRestartScaleUp
  BY <1>1, <1>9 DEF handleRestartScaleUp, InRestartState, Fit, Written
<1>10. CASE handleRestartWaitReady
  <2>1. v.restartSurgeState = "scaled-up" /\ v.drainState = "none"
    BY <1>10 DEF handleRestartWaitReady, InRestartState
  <2>2. Whole(setup, v) /\ Surging(v) /\ v.originalReplicas + 1 = 2
    BY <1>1, <2>1, WholeOrEmpty DEF Surging, Fit
  <2>3. \/ Call(Rollout, abortRestartJob("abort", v))
        \/ Call(Rollout, patchJob("advance", SetReplicas(v, 2)))
        \/ Call(Rollout, patchJob("advance", [v EXCEPT !.restartSurgeState = "ready"]))
        \/ RequeueAfter(Rollout)
    BY <1>10, <2>2, SMTT(30) DEF handleRestartWaitReady
  <2>4. QED
    BY <1>1, <1>3, <1>4, <1>5, <2>1, <2>2, <2>3, FitReapplied, FitReady, ZenonT(60) DEF Kinds
<1>11. CASE handleRestartWaitForArgo
  <2> DEFINE u == [scaledDown(v) EXCEPT !.restartSurgeState = "draining"]
  <2>1. v.restartSurgeState = "ready"
    BY <1>11 DEF handleRestartWaitForArgo, InRestartState
  <2>2. \/ RequeueAfter(Rollout) \/ Call(Rollout, abortRestartJob("finish", v))
        \/ /\ v.originalReplicas # Nil
           /\ Call(Rollout, [kind |-> "advance", hpa |-> restoreHPA(v), patch |-> u])
    BY <1>11 DEF handleRestartWaitForArgo
  <2>3. v.originalReplicas # Nil => Fit(setup, u)
    BY <1>1, <2>1, FitScaledDown, ZenonT(60)
  <2> HIDE DEF u
  <2>4. QED
    BY <1>1, <1>2, <1>3, <1>5, <2>2, <2>3, FitScaleDownJob, SharedCall DEF Kinds
<1>12. CASE handleRestartScaleDown
  <2> DEFINE u == [scaledDown(v) EXCEPT !.restartSurgeState = "done"]
  <2>1. v.restartSurgeState = "draining"
    BY <1>12 DEF handleRestartScaleDown, InRestartState
  <2>2. \/ Call(Rollout, abortRestartJob("abort", v))
        \/ v.originalReplicas # Nil /\ Call(Rollout, patchJob("advance", u))
    BY <1>12 DEF handleRestartScaleDown
  <2>3. v.originalReplicas # Nil => Fit(setup, u)
    BY <1>1, <2>1, FitScaledDown, ZenonT(60)
  <2> HIDE DEF u
  <2>4. QED
    BY <1>3, <1>4, <2>2, <2>3 DEF Kinds
<1>13. CASE handleRestartCleanup
  <2>1. /\ v.restartSurgeState = "done" /\ v.drainState = "none"
        /\ Call(Rollout, patchJob("finish", clearRestartSurgeAnnotations(v)))
    BY <1>13 DEF handleRestartCleanup, InRestartState
  <2>2. v \in Object /\ v.drainState \in Written /\ (setup.hpaMax = 0 => GetReplicas(v) = 1)
    BY <1>1, <2>1 DEF Fit, Surging
  <2>3. Fit(setup, clearRestartSurgeAnnotations(v))
    BY <2>2, FitRestartCleared
  <2>4. QED
    BY <1>4, <2>1, <2>3 DEF Kinds
<1>14. QED
  BY <1>6, <1>7, <1>8, <1>9, <1>10, <1>11, <1>12, <1>13, SMTT(30) DEF ReconcileRollout

(* The server stores a version that fits, or nothing.                      *)
LEMMA FitWrite ==
    ASSUME SharedInv, NEW v, Fit(setup, v), UNCHANGED wl \/ WriteWorkload(v)
    PROVE  FitLog(setup, wl')
<1>1. wl' = wl \/ wl' = Append(wl, v)
  BY DEF WriteWorkload
<1>2. FitLog(setup, wl) /\ FitLog(setup, Append(wl, v))
  BY FitAppend DEF SharedInv
<1>3. QED
  BY <1>1, <1>2, Zenon

LEMMA FitWriteMin ==
    ASSUME SharedInv, NEW min \in Nat \cup {Nil}, GoodMin(setup, min),
           UNCHANGED hpa \/ WriteHPA(min)
    PROVE  GoodMins(setup, hpa')
<1>1. hpa' = hpa \/ hpa' = Append(hpa, min)
  BY DEF WriteHPA
<1>2. GoodMins(setup, hpa) /\ GoodMins(setup, Append(hpa, min))
  BY MinsAppend DEF SharedInv
<1>3. QED
  BY <1>1, <1>2, ZenonT(60)

(* What remains of a job that fits, fits, and so does an idle actor.       *)
LEMMA FitRest ==
    ASSUME NEW s, NEW j, FitJob(s, j)
    PROVE  /\ FitJob(s, [j EXCEPT !.patch = Nil])
           /\ FitJob(s, [j EXCEPT !.hpa = Nil])
           /\ FitJob(s, Idle)
BY DEF FitJob, Job, Idle, Kinds

(* An actor whose next job fits leaves queue and jobs as they should be.   *)
LEMMA FitJobs ==
    ASSUME SharedInv, NEW a \in Actors, NEW j, FitJob(setup, j),
           \/ AfterCall(a, j)
           \/ EndJob(a, TRUE)
           \/ EndJob(a, FALSE)
    PROVE  /\ queue' \subseteq Keys
           /\ job' \in [Actors -> Job]
           /\ \A b \in Actors : FitJob(setup, job'[b])
<1>1. FitJob(setup, Idle)
  BY FitRest
<1>2. queue' \subseteq Keys
  <2>1. queue' = queue \/ queue' = queue \cup ({a} \cap Keys)
    BY Zenon DEF AfterCall, EndJob
  <2>2. queue \subseteq Keys
    BY DEF SharedInv
  <2>3. QED
    BY <2>1, <2>2, Zenon
<1>3. PICK k : FitJob(setup, k) /\ job' = [job EXCEPT ![a] = k]
  BY <1>1 DEF AfterCall, EndJob
<1>4. QED
  BY <1>2, <1>3 DEF SharedInv, FitJob

(* Disturbances are counted.                                               *)
LEMMA SharedFaults ==
    ASSUME SharedInv, UNCHANGED faults \/ \E kind \in Disturbances : Fault(kind)
    PROVE  faults' \in 0 .. MaxFaults
BY ClusterAssumption DEF SharedInv, Fault

(* A patch of the workload, whether its error is reported or not.          *)
LEMMA SharedPatchWorkload ==
    ASSUME SharedInv, NEW a \in Actors, PatchWorkload(a) \/ PatchWorkloadFails(a)
    PROVE  SharedInv'
<1> DEFINE v == Patch(Current, job[a].patch)
           rest == [job[a] EXCEPT !.patch = Nil]
<1>1. FitJob(setup, job[a]) /\ job[a].patch # Nil
  BY SMTT(30) DEF SharedInv, PatchWorkload, PatchWorkloadFails, PatchesWorkloadNext
<1>2. Fit(setup, v)
  BY <1>1, CachedFit, FitPatch DEF FitJob
<1>3. UNCHANGED wl \/ WriteWorkload(v)
  BY DEF PatchWorkload, PatchWorkloadFails
<1>4. FitJob(setup, rest)
  BY <1>1, FitRest
<1>5. AfterCall(a, rest) \/ EndJob(a, TRUE) \/ EndJob(a, FALSE)
  BY DEF PatchWorkload, PatchWorkloadFails, EndJob
<1>6. FitLog(setup, wl')
  BY <1>2, <1>3, FitWrite
<1>7. /\ queue' \subseteq Keys /\ job' \in [Actors -> Job]
      /\ \A b \in Actors : FitJob(setup, job'[b])
  BY <1>4, <1>5, FitJobs, ZenonT(60)
<1>8. UNCHANGED <<node, hpa, podNode, ready, setup, recovery>>
  BY DEF PatchWorkload, PatchWorkloadFails
<1>9. faults' \in 0 .. MaxFaults
  BY SharedFaults DEF PatchWorkload, PatchWorkloadFails, Disturbances
<1>10. QED
  BY <1>6, <1>7, <1>8, <1>9 DEF SharedInv

(* A patch of the HPA, likewise.                                           *)
LEMMA SharedPatchHPA ==
    ASSUME SharedInv, NEW a \in Actors, PatchHPAMinReplicas(a) \/ PatchHPAFails(a)
    PROVE  SharedInv'
<1> DEFINE min == job[a].hpa
           rest == [job[a] EXCEPT !.hpa = Nil]
<1>1. FitJob(setup, job[a]) /\ min # Nil
  BY SMTT(30) DEF SharedInv, PatchHPAMinReplicas, PatchHPAFails, PatchesHPANext
<1>2. min \in Nat \cup {Nil} /\ GoodMin(setup, min)
  BY <1>1 DEF FitJob, GoodMin, Job
<1>3. UNCHANGED hpa \/ WriteHPA(min)
  BY DEF PatchHPAMinReplicas, PatchHPAFails
<1>4. FitJob(setup, rest)
  BY <1>1, FitRest
<1>5. AfterCall(a, rest) \/ EndJob(a, TRUE) \/ EndJob(a, FALSE)
  BY DEF PatchHPAMinReplicas, PatchHPAFails, EndJob
<1>6. GoodMins(setup, hpa')
  BY <1>2, <1>3, FitWriteMin, Zenon
<1>7. /\ queue' \subseteq Keys /\ job' \in [Actors -> Job]
      /\ \A b \in Actors : FitJob(setup, job'[b])
  BY <1>4, <1>5, FitJobs, ZenonT(60)
<1>8. UNCHANGED <<node, wl, podNode, ready, setup, recovery>>
  BY DEF PatchHPAMinReplicas, PatchHPAFails
<1>9. faults' \in 0 .. MaxFaults
  BY SharedFaults DEF PatchHPAMinReplicas, PatchHPAFails, Disturbances
<1>10. QED
  BY <1>6, <1>7, <1>8, <1>9 DEF SharedInv

(* Both orphan scans abort what they read from the cache.                  *)
LEMMA SharedOrphans ==
    ASSUME SharedInv, RecoverOrphans \/ RecoverRestartOrphans
    PROVE  SharedInv'
<1>1. /\ FitJob(setup, abortJob("abort", Cached))
      /\ FitJob(setup, abortRestartJob("abort", Cached))
  BY CachedFit, FitAborts DEF Kinds
<1>2. \/ job' = job
      \/ job' = [job EXCEPT ![Orphans] = abortJob("abort", Cached)]
      \/ job' = [job EXCEPT ![Orphans] = abortRestartJob("abort", Cached)]
  BY DEF RecoverOrphans, ListNodes, AbortOrphans, RecoverRestartOrphans
<1>3. job' \in [Actors -> Job] /\ \A b \in Actors : FitJob(setup, job'[b])
  BY <1>1, <1>2 DEF SharedInv, FitJob
<1>4. UNCHANGED clusterVars /\ UNCHANGED queue
  BY DEF RecoverOrphans, ListNodes, AbortOrphans, RecoverRestartOrphans
<1>5. recovery' \in [phase : RecoveryPhase, tainted : SUBSET Nodes]
  <2>1. {n \in Nodes : hasDrainTaint(n)} \in SUBSET Nodes /\ {} \in SUBSET Nodes
    OBVIOUS
  <2>2. CASE ListNodes
    BY <2>1, <2>2, SMTT(30) DEF ListNodes, RecoveryPhase
  <2>3. CASE AbortOrphans
    BY <2>1, <2>3 DEF AbortOrphans, RecoveryPhase
  <2>4. CASE RecoverRestartOrphans
    BY <2>4 DEF RecoverRestartOrphans, RecoveryPhase, SharedInv
  <2>5. QED
    BY <2>2, <2>3, <2>4 DEF RecoverOrphans
<1>6. QED
  BY <1>3, <1>4, <1>5 DEF SharedInv, clusterVars

-----------------------------------------------------------------------------
(* Steps of the cluster and of Argo.                                       *)

(* Nodes come and go.                                                      *)
LEMMA SharedNodes ==
    ASSUME SharedInv, NEW n \in Nodes, NodeEvent(n) \/ Heartbeat(n)
    PROVE  SharedInv'
<1>1. CASE NodeEvent(n)
  <2>1. node' \in [Nodes -> {"ready", "tainted", "gone"}] /\ faults' \in 0 .. MaxFaults
    BY <1>1, SharedFaults, SMTT(30) DEF NodeEvent, Taint, Untaint, DeleteNode, Disturbances, SharedInv
  <2>2. UNCHANGED <<wl, hpa, podNode, ready, setup, job, recovery>>
    BY <1>1 DEF NodeEvent, Enqueue, Taint, Untaint, DeleteNode
  <2>3. queue' \subseteq Keys
    BY <1>1 DEF NodeEvent, Enqueue, Keys, SharedInv
  <2>4. QED
    BY <2>1, <2>2, <2>3, SMTT(30) DEF SharedInv
<1>2. CASE Heartbeat(n)
  BY <1>2, SMTT(30) DEF Heartbeat, Enqueue, Keys, clusterVars, SharedInv
<1>3. QED
  BY <1>1, <1>2

(* Pods come and go.                                                       *)
LEMMA SharedPods ==
    ASSUME SharedInv, NEW n \in Nodes, RolloutPodEvent(n)
    PROVE  SharedInv'
<1>1. \/ CreatePod(n) \/ PodReady(n) \/ PodNotReady(n) \/ DeleteSurplus(n) \/ Evict(n)
      \/ ArgoEvict(n)
  BY DEF RolloutPodEvent, PodChange
<1>2. podNode' \in [Pods -> Nodes \cup {Nil}] /\ ready' \subseteq Pods
  BY <1>1, ZenonT(60) DEF CreatePod, PodReady, PodNotReady, DeleteSurplus, Evict, ArgoEvict, DeletePod,
              PodsOn, SharedInv
<1>3. UNCHANGED <<node, wl, hpa, setup>>
  BY <1>1, Zenon DEF CreatePod, PodReady, PodNotReady, DeleteSurplus, Evict, ArgoEvict, DeletePod
<1>4. faults' \in 0 .. MaxFaults
  BY <1>1, SharedFaults, ZenonT(60) DEF CreatePod, PodReady, PodNotReady, DeleteSurplus, Evict, ArgoEvict,
                            DeletePod, Disturbances
<1>5. queue' \subseteq Keys /\ UNCHANGED <<job, recovery>>
  BY DEF RolloutPodEvent, mapPodToNode, mapPodToRollout, Enqueue, Keys, SharedInv
<1>6. QED
  BY <1>2, <1>3, <1>4, <1>5 DEF SharedInv

(* What versions map to are keys.                                          *)
LEMMA FitEvent ==
    ASSUME NEW s, NEW v, Fit(s, v)
    PROVE  mapWorkloadToNode(v) \subseteq Keys /\ rolloutRelevantPredicate(v) \subseteq Keys
BY DEF mapWorkloadToNode, rolloutRelevantPredicate, Fit, Object, Keys

(* The watch delivers the next version of the Rollout.                     *)
LEMMA SharedRolloutEvent ==
    ASSUME SharedInv, RolloutEvent
    PROVE  SharedInv'
<1>1. /\ Len(wl) > 1 /\ wl' = Tail(wl)
      /\ UNCHANGED <<node, hpa, podNode, ready, setup, faults, job, recovery>>
  BY DEF RolloutEvent, DeliverWorkload, Enqueue
<1>2. FitLog(setup, wl')
  BY <1>1, FitTail DEF SharedInv
<1>3. Fit(setup, wl[1]) /\ Fit(setup, wl[2])
  BY <1>1 DEF SharedInv, FitLog
<1>4. queue' \subseteq Keys
  BY <1>3, FitEvent, SMTT(30) DEF RolloutEvent, UpdatedNodes, Enqueue, SharedInv
<1>5. QED
  BY <1>1, <1>2, <1>4 DEF SharedInv

(* The other writers leave the record and the states alone, and without an *)
(* HPA change the replicas only back to one.                               *)
LEMMA SharedOtherWriter ==
    ASSUME SharedInv, OtherWriter, UNCHANGED reconcilerVars
    PROVE  SharedInv'
<1>1. /\ Fit(setup, Current) /\ setup.hpaMax \in Nat
      /\ CurrentHPA \in Nat \cup {Nil}
  BY CachedFit DEF Setup
<1>2. PICK v : Fit(setup, v) /\ WriteWorkload(v)
  <2>1. CASE HPAScale
    <3>1. HPAMinReplicasOrDefault(CurrentHPA) \in Nat
      BY <1>1, DefaultInNat
    <3>2. setup.hpaMax # 0
      BY <1>1, <2>1 DEF HPAScale
    <3>3. Fit(setup, SetReplicas(Current, HPAMinReplicasOrDefault(CurrentHPA)))
      BY <1>1, <3>1, <3>2, FitRescaled
    <3>4. QED
      BY <2>1, <3>3 DEF HPAScale
  <2>2. CASE HPALoad
    <3>1. PICK r \in HPAMinReplicasOrDefault(CurrentHPA) .. setup.hpaMax :
            WriteWorkload(SetReplicas(Current, r))
      BY <2>2 DEF HPALoad
    <3>2. r \in Nat /\ setup.hpaMax # 0
      BY <1>1, <2>2, <3>1, DefaultInNat DEF HPALoad
    <3>3. Fit(setup, SetReplicas(Current, r))
      BY <1>1, <3>2, FitRescaled
    <3>4. QED
      BY <3>1, <3>3
  <2>3. CASE ResetReplicas
    BY <1>1, <2>3, FitRescaled DEF ResetReplicas
  <2>4. CASE RolloutStarts
    BY <1>1, <2>4, FitOthers, Zenon DEF RolloutStarts
  <2>5. CASE RolloutEnds
    BY <1>1, <2>5, FitOthers, Zenon DEF RolloutEnds
  <2>6. CASE OptOut
    BY <1>1, <2>6, FitOthers, ZenonT(60) DEF OptOut
  <2>7. QED
    BY <2>1, <2>2, <2>3, <2>4, <2>5, <2>6 DEF OtherWriter
<1>3. FitLog(setup, wl')
  BY <1>2, FitWrite
<1>4. UNCHANGED <<node, hpa, podNode, ready, setup>>
  BY DEF OtherWriter, HPAScale, HPALoad, ResetReplicas, RolloutStarts, RolloutEnds, OptOut
<1>5. faults' \in 0 .. MaxFaults
  BY SharedFaults, SMTT(30) DEF OtherWriter, HPAScale, HPALoad, ResetReplicas, RolloutStarts, RolloutEnds,
                      OptOut, Disturbances
<1>6. QED
  BY <1>3, <1>4, <1>5 DEF SharedInv, reconcilerVars

(* Neither do the operator and Argo touch them.                            *)
LEMMA SharedArgo ==
    ASSUME SharedInv, ArgoTypeOK, Argo
    PROVE  SharedInv'
<1> DEFINE status == IF Current.status = "restarting" THEN "stable" ELSE Current.status
<1>1. Fit(setup, Current) /\ Current \in Object
  BY CachedFit DEF Fit
<1>2. /\ status \in {"stable", "restarting", "progressing"}
      /\ Current.restartAt \in Nat \cup {Nil}
  BY <1>1 DEF Object
<1>3. restarts + 1 \in Nat
  BY ArgoAssumption DEF ArgoTypeOK
<1>4. PICK v : Fit(setup, v) /\ (UNCHANGED wl \/ WriteWorkload(v))
  <2>1. CASE RequestRestart
    BY <1>1, <1>3, <2>1, FitOthers, ZenonT(60) DEF RequestRestart
  <2>2. CASE ClearRestart
    <3>1. Fit(setup, [Current EXCEPT !.restartAt = Nil, !.status = status])
      BY <1>1, <1>2, FitRestart, ZenonT(60)
    <3>2. QED
      BY <2>2, <3>1 DEF ClearRestart
  <2>3. CASE GraceEnds
    BY <1>1, <2>3 DEF GraceEnds, clusterVars
  <2>4. CASE ArgoRestarts
    BY <1>1, <2>4, FitOthers, ZenonT(60) DEF ArgoRestarts
  <2>5. CASE ArgoFinishes
    <3>1. Fit(setup, [Current EXCEPT !.restartedAt = Current.restartAt, !.status = status])
      BY <1>1, <1>2, FitRestart, ZenonT(60)
    <3>2. QED
      BY <2>5, <3>1 DEF ArgoFinishes
  <2>6. QED
    BY <2>1, <2>2, <2>3, <2>4, <2>5, SMTT(30) DEF Argo
<1>5. FitLog(setup, wl')
  BY <1>4, FitWrite
<1>6. UNCHANGED <<node, hpa, podNode, ready, setup>> /\ UNCHANGED reconcilerVars
  BY DEF Argo, RequestRestart, ClearRestart, GraceEnds, ArgoRestarts, ArgoFinishes, clusterVars
<1>7. faults' \in 0 .. MaxFaults
  BY SharedFaults DEF Argo, RequestRestart, ClearRestart, GraceEnds, ArgoRestarts, ArgoFinishes,
                      clusterVars, Disturbances
<1>8. QED
  BY <1>5, <1>6, <1>7, SMTT(30) DEF SharedInv, reconcilerVars

(* A failover forgets what was in memory and reads the server.             *)
LEMMA SharedFailover ==
    ASSUME SharedInv, RolloutFailover
    PROVE  SharedInv'
<1>1. PICK keys : /\ RestartWith(keys)
                  /\ keys = ListedNodes \cup rolloutRelevantPredicate(Current)
                                \cup (IF Live = {} THEN {} ELSE mapPodToRollout)
  BY DEF RolloutFailover
<1>2. keys \subseteq Keys
  <2>1. /\ mapWorkloadToNode(Current) \subseteq Keys
        /\ rolloutRelevantPredicate(Current) \subseteq Keys
    BY CachedFit, FitEvent, SMTT(30)
  <2>2. QED
    BY <1>1, <2>1, SMTT(30) DEF ListedNodes, mapPodToRollout, Keys
<1>3. FitLog(setup, wl')
  BY <1>1, FitEnds, SMTT(30) DEF RestartWith, SharedInv, Current
<1>4. GoodMins(setup, hpa')
  BY <1>1, MinsEnds, SMTT(30) DEF RestartWith, SharedInv, CurrentHPA
<1>5. FitJob(setup, Idle) /\ Idle \in Job
  BY DEF FitJob, Idle, Job, Kinds
<1>6. job' \in [Actors -> Job] /\ \A b \in Actors : FitJob(setup, job'[b])
  BY <1>1, <1>5, SMTT(30) DEF RestartWith
<1>7. faults' \in 0 .. MaxFaults
  BY <1>1, SharedFaults, SMTT(30) DEF RestartWith, Disturbances
<1>8. UNCHANGED <<node, podNode, ready, setup>> /\ queue' = keys
  BY <1>1 DEF RestartWith
<1>9. recovery' \in [phase : RecoveryPhase, tainted : SUBSET Nodes]
  BY <1>1 DEF RestartWith, RecoveryPhase
<1>10. QED
  BY <1>2, <1>3, <1>4, <1>6, <1>7, <1>8, <1>9, SMTT(30) DEF SharedInv

(* Time ages every copy alike.                                             *)
LEMMA SharedTick ==
    ASSUME SharedInv, Tick
    PROVE  SharedInv'
<1>1. FitLog(setup, wl')
  <2>1. wl \in Seq(Object) /\ wl # <<>> /\ \A i \in 1 .. Len(wl) : Fit(setup, wl[i])
    BY DEF SharedInv, FitLog
  <2>2. wl' = [i \in 1 .. Len(wl) |-> Older(wl[i])]
    BY <2>1, SMTT(30) DEF Tick
  <2>3. \A i \in 1 .. Len(wl) : Fit(setup, Older(wl[i])) /\ Older(wl[i]) \in Object
    <3>1. ASSUME NEW i \in 1 .. Len(wl)
          PROVE  Fit(setup, Older(wl[i]))
      BY <2>1, FitOlder
    <3>2. QED
      BY <3>1 DEF Fit
  <2>4. wl' \in Seq(Object) /\ Len(wl') = Len(wl) /\ wl' # <<>>
    BY <2>1, <2>2, <2>3
  <2>5. \A i \in 1 .. Len(wl') : Fit(setup, wl'[i])
    BY <2>2, <2>3, <2>4
  <2>6. QED
    BY <2>4, <2>5 DEF FitLog
<1>2. \A b \in Actors : FitJob(setup, OlderJob(job[b])) /\ OlderJob(job[b]) \in Job
  <2> SUFFICES ASSUME NEW b \in Actors
               PROVE  FitJob(setup, OlderJob(job[b]))
    BY DEF FitJob
  <2> DEFINE j == job[b]
  <2>1. FitJob(setup, j)
    BY DEF SharedInv
  <2>2. CASE j.patch = Nil
    BY <2>1, <2>2, SMTT(30) DEF OlderJob
  <2>3. CASE j.patch # Nil
    <3>1. Fit(setup, Older(j.patch))
      BY <2>1, <2>3, FitOlder DEF FitJob
    <3>2. OlderJob(j) = [j EXCEPT !.patch = Older(j.patch)]
      BY <2>3 DEF OlderJob
    <3>3. QED
      BY <2>1, <3>1, <3>2, SMTT(30) DEF FitJob, Job, Fit
  <2>4. QED
    BY <2>2, <2>3
<1>3. job' \in [Actors -> Job] /\ \A b \in Actors : FitJob(setup, job'[b])
  BY <1>2 DEF Tick
<1>4. QED
  BY <1>1, <1>3 DEF Tick, SharedInv

-----------------------------------------------------------------------------
(* The theorems.                                                           *)

LEMMA SharedInit == RolloutInit => SharedInv /\ ArgoTypeOK
<1> SUFFICES ASSUME RolloutInit PROVE SharedInv /\ ArgoTypeOK
  OBVIOUS
<1> DEFINE v == [replicas |-> setup.replicas, enabled |-> "true", status |-> "stable",
                 restartAt |-> Nil, restartedAt |-> Nil,
                 drainState |-> "none", originalReplicas |-> Nil, drainNode |-> Nil,
                 drainStart |-> Nil, hpaName |-> "none", hpaOriginalMin |-> Nil,
                 restartSurgeState |-> "none", restartSurgeStart |-> Nil]
<1>1. StartWith(Keys) /\ ClusterInit /\ ArgoInit
  BY SMTT(30) DEF RolloutInit, StartWith
<1>2. setup \in Setups /\ setup \in Setup
  BY <1>1, ClusterAssumption, SMTT(30) DEF ClusterInit
<1>3. v \in Object /\ GetReplicas(v) = 1
  BY <1>2, SMTT(30) DEF Setup, Object, DrainState, GetReplicas
<1>4. Fit(setup, v)
  BY <1>3, SMTT(30) DEF Fit, Written, Empty
<1>5. wl = <<v>>
  BY <1>1 DEF ClusterInit
<1> HIDE DEF v
<1>6. FitLog(setup, wl)
  BY <1>3, <1>4, <1>5, SMTT(30) DEF FitLog
<1>7. GoodMins(setup, hpa)
  BY <1>1, <1>2, SMTT(30) DEF ClusterInit, GoodMins, GoodMin, Setup
<1>8. job \in [Actors -> Job] /\ \A a \in Actors : FitJob(setup, job[a])
  BY <1>1, SMTT(30) DEF StartWith, FitJob, Idle, Job, Kinds
<1>9. podNode \in [Pods -> Nodes \cup {Nil}] /\ ready \subseteq Pods
  BY <1>1, SMTT(30) DEF ClusterInit
<1>10. node \in [Nodes -> {"ready", "tainted", "gone"}] /\ faults \in 0 .. MaxFaults
  BY <1>1, ClusterAssumption, SMTT(30) DEF ClusterInit
<1>11. /\ queue \subseteq Keys
       /\ recovery \in [phase : RecoveryPhase, tainted : SUBSET Nodes]
  BY <1>1 DEF StartWith, RecoveryPhase
<1>12. ArgoTypeOK
  BY <1>1, ArgoAssumption DEF ArgoInit, ArgoTypeOK
<1>13. QED
  BY <1>2, <1>6, <1>7, <1>8, <1>9, <1>10, <1>11, <1>12, SMTT(30) DEF SharedInv

(* Restarts are counted, and no pod is younger than the last of them.      *)
LEMMA ArgoTypesNext ==
    ASSUME ArgoTypeOK, [RolloutNext]_rolloutVars
    PROVE  ArgoTypeOK'
<1>1. CASE RolloutNext
  <2>1. \/ UNCHANGED <<restarts, graceOver>>
        \/ restarts < MaxRestarts /\ restarts' = restarts + 1 /\ UNCHANGED graceOver
        \/ UNCHANGED restarts /\ graceOver' = restarts
    BY <1>1, ZenonT(60) DEF RolloutNext, ReconcileRollout, RestartTimeout, yieldToDrain,
                handleRestartPending, handleRestartScaleUp, handleRestartWaitReady,
                handleRestartWaitForArgo, handleRestartScaleDown, handleRestartCleanup,
                UnknownRestartState, InRestartState, DequeueRollout, RecoverRestartOrphans,
                RolloutEvent, RolloutFailover, RolloutPodEvent, Argo, RequestRestart,
                ClearRestart, GraceEnds, ArgoRestarts, ArgoFinishes
  <2>2. restarts' \in 0 .. MaxRestarts /\ graceOver' \in 0 .. restarts' /\ restarts <= restarts'
    BY <2>1, ArgoAssumption DEF ArgoTypeOK
  <2>3. 0 .. restarts \subseteq 0 .. restarts' /\ restarts \in 0 .. restarts /\ 0 \in 0 .. restarts
    BY <2>2, ArgoAssumption DEF ArgoTypeOK
  <2>4. Births
    BY <1>1 DEF RolloutNext
  <2>5. born' \in [Pods -> 0 .. restarts]
    BY <2>3, <2>4 DEF Births, ArgoTypeOK
  <2>6. QED
    BY <2>2, <2>3, <2>5, SMTT(30) DEF ArgoTypeOK
<1>2. CASE UNCHANGED rolloutVars
  BY <1>2 DEF rolloutVars, argoVars, ArgoTypeOK
<1>3. QED
  BY <1>1, <1>2

LEMMA SharedNext ==
    SharedInv /\ ArgoTypeOK /\ [RolloutNext]_rolloutVars => SharedInv' /\ ArgoTypeOK'
<1> SUFFICES ASSUME SharedInv, ArgoTypeOK, [RolloutNext]_rolloutVars PROVE SharedInv'
  BY ArgoTypesNext
<1>1. CASE DrainStep
  <2>1. ASSUME NEW n \in Nodes, Reconcile(n) PROVE SharedInv'
    BY <2>1, SharedReconcile
  <2>2. ASSUME NEW n \in Nodes, NodeEvent(n) \/ Heartbeat(n) PROVE SharedInv'
    BY <2>2, SharedNodes
  <2>3. ASSUME NEW a \in Actors, APICall(a) \/ APICallFails(a) PROVE SharedInv'
    BY <2>3, SharedPatchWorkload, SharedPatchHPA DEF APICall, APICallFails
  <2>4. CASE RecoverOrphans
    BY <2>4, SharedOrphans
  <2>5. CASE Unwatched
    <3>1. CASE DeliverHPA /\ UNCHANGED reconcilerVars
      <4>1. GoodMins(setup, hpa')
        BY <3>1, MinsTail DEF DeliverHPA, SharedInv
      <4>2. QED
        BY <3>1, <4>1 DEF DeliverHPA, reconcilerVars, SharedInv
    <3>2. QED
      BY <2>5, <3>1, SharedOtherWriter, SMTT(30) DEF Unwatched
  <2>6. CASE Tick
    BY <2>6, SharedTick
  <2>7. QED
    BY <1>1, <2>1, <2>2, <2>3, <2>4, <2>5, <2>6, SMTT(30) DEF DrainStep
<1>2. CASE ReconcileRollout
  BY <1>2, SharedReconcileRollout
<1>3. CASE RecoverRestartOrphans
  BY <1>3, SharedOrphans
<1>4. CASE RolloutEvent
  BY <1>4, SharedRolloutEvent
<1>5. CASE RolloutFailover
  BY <1>5, SharedFailover
<1>6. CASE Argo
  BY <1>6, SharedArgo
<1>7. ASSUME NEW n \in Nodes, RolloutPodEvent(n) PROVE SharedInv'
  BY <1>7, SharedPods, SMTT(30)
<1>8. CASE UNCHANGED rolloutVars
  BY <1>8 DEF rolloutVars, vars, clusterVars, reconcilerVars, SharedInv
<1>9. QED
  BY <1>1, <1>2, <1>3, <1>4, <1>5, <1>6, <1>7, <1>8, SMTT(30) DEF RolloutNext

(* The invariant holds in every behaviour of drain and restart surge.      *)
THEOREM AlwaysShared == RolloutSpec => [](SharedInv /\ ArgoTypeOK)
<1>1. RolloutInit => SharedInv /\ ArgoTypeOK
  BY SharedInit
<1>2. SharedInv /\ ArgoTypeOK /\ [RolloutNext]_rolloutVars => SharedInv' /\ ArgoTypeOK'
  BY SharedNext
<1>3. QED
  BY <1>1, <1>2, PTL DEF RolloutSpec

(* Type correctness of cluster, queue, jobs, recovery and restarts.        *)
THEOREM RolloutTypeCorrect == RolloutSpec => []RolloutTypeOK
<1>1. SharedInv /\ ArgoTypeOK => RolloutTypeOK
  BY DEF SharedInv, RolloutTypeOK, TypeOK, ClusterTypeOK, FitLog, GoodMins
<1>2. QED
  BY <1>1, AlwaysShared, PTL

(* Every version is one of the log or of a pending patch, and fits.        *)
LEMMA VersionsFit ==
    ASSUME SharedInv, NEW v \in Versions
    PROVE  Fit(setup, v)
<1>1. CASE v \in {wl[i] : i \in 1 .. Len(wl)}
  <2>1. FitLog(setup, wl)
    BY DEF SharedInv
  <2>2. QED
    BY <1>1, <2>1 DEF FitLog
<1>2. CASE v \in {job[a].patch : a \in Actors} \ {Nil}
  <2>1. PICK a \in Actors : v = job[a].patch /\ v # Nil
    BY <1>2
  <2>2. FitJob(setup, job[a])
    BY DEF SharedInv
  <2>3. QED
    BY <2>1, <2>2, SMTT(30) DEF FitJob
<1>3. QED
  BY <1>1, <1>2 DEF Versions

(* The record that drain and restart surge share is empty, or whole with   *)
(* the values from before the surge, in every version of the Rollout: no   *)
(* order of their writes tears or poisons it.                              *)
THEOREM SharedRecordRestorable == RolloutSpec => []SharedRestorable
<1>1. SharedInv => SharedRestorable
  <2> SUFFICES ASSUME SharedInv, NEW v \in Versions
               PROVE  /\ v.restartSurgeState \in {"none", "scaled-up", "ready", "draining", "done"}
                      /\ IF v.restartSurgeState = "none"
                         THEN v.restartSurgeStart = Nil
                         ELSE v.restartSurgeStart \in RestartAge /\ SharedRecordWhole(v)
                      /\ v.drainState = "none" /\ v.restartSurgeState = "none"
                           => SharedRecordEmpty(v)
                      /\ SharedRecordWhole(v) \/ SharedRecordEmpty(v)
    BY DEF SharedRestorable
  <2>1. Fit(setup, v)
    BY VersionsFit
  <2>2. setup.minAvailable \in Nat /\ setup.hpaMax \in Nat
    BY CachedFit DEF Setup
  <2>3. Whole(setup, v) => SharedRecordWhole(v)
    BY <2>2 DEF Whole, SharedRecordWhole, Qualifies, FindMatchingPDB, CanSurge
  <2>4. Empty(v) <=> SharedRecordEmpty(v)
    BY SMTT(30) DEF Empty, SharedRecordEmpty
  <2>5. QED
    BY <2>1, <2>3, <2>4 DEF Fit, Written
<1>2. QED
  BY <1>1, AlwaysShared, PTL

(* Without an HPA, a second replica is never seen without the record and   *)
(* the operation that will take it away, whichever of the two surged.      *)
THEOREM SharedSurgeNeverLeaks == RolloutSpec => []NoLeakedSharedSurge
<1>1. SharedInv => NoLeakedSharedSurge
  BY VersionsFit DEF NoLeakedSharedSurge, Fit, Whole, Surging
<1>2. QED
  BY <1>1, AlwaysShared, PTL

(* With both reconcilers on one HPA its minReplicas stay the owner's or    *)
(* the surge of one replica.                                               *)
THEOREM SharedMinReplicasKnown == RolloutSpec => []MinReplicasKnown
<1>1. SharedInv => MinReplicasKnown
  BY ZenonT(60) DEF SharedInv, MinReplicasKnown, GoodMins, GoodMin, FitJob
<1>2. QED
  BY <1>1, AlwaysShared, PTL

(* The refinement mapping of Contract.                                     *)
Opened == Current.drainState # "none" \/ Current.restartSurgeState # "none"
Owed == IF setup.hpaMax = 0 THEN GetReplicas(Current) ELSE 1

(* A version that fits owes nothing when no operation is recorded.         *)
Balanced == Owed \in {1, 2} /\ (~Opened => Owed = 1)

LEMMA SharedBalanced == SharedInv => Balanced
<1> SUFFICES ASSUME SharedInv PROVE Balanced
  OBVIOUS
<1>1. Fit(setup, Current)
  BY CachedFit
<1>2. QED
  BY <1>1 DEF Fit, Surging, Balanced, Opened, Owed

(* Drain and restart surge together implement the safety of the contract:  *)
(* at most one more replica, only while an operation is recorded, and      *)
(* given back no later than by the write that removes the last record.     *)
THEOREM ContractImplemented == RolloutSpec => Contract!Safe
<1>1. RolloutInit => Contract!Init
  <2> SUFFICES ASSUME RolloutInit PROVE Contract!Init
    OBVIOUS
  <2>1. Balanced
    BY SharedInit, SharedBalanced, SMTT(30)
  <2>2. ~Opened
    BY DEF RolloutInit, StartWith, ClusterInit, Current, Opened
  <2>3. QED
    BY <2>1, <2>2 DEF Contract!Init, Balanced, Opened, Owed
<1>2. Balanced /\ Balanced' => [Contract!Next]_(Contract!contractVars)
  BY DEF Contract!Next, Contract!Open, Contract!Rescale, Contract!Close,
         Contract!contractVars, Balanced, Opened, Owed
<1>3. QED
  BY <1>1, <1>2, SharedBalanced, AlwaysShared, PTL DEF Contract!Safe, RolloutSpec
=============================================================================
