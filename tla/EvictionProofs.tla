--------------------------- MODULE EvictionProofs ---------------------------
(***************************************************************************)
(* The controller scales down only after the drained node is rid of the    *)
(* workload's pods, for any set of nodes, pods and setups and whatever     *)
(* stale copy is written when, as long as no taint is withdrawn.  With one *)
(* reconciler or both, with annotations edited or not.                     *)
(***************************************************************************)
EXTENDS SurgeBoundsProofs

(* The nodes without a pod of the workload that will not get one either.   *)
Vacant == {n \in Nodes : node[n] # "ready" /\ PodsOn(n) = {}}

(* A version of the workload that may exist while the nodes of S are       *)
(* vacant: an operation past the scale-down has left its node, or lost the *)
(* annotation that names it.                                               *)
Placed(S, v) ==
    v.drainState \in {"draining", "done"} => v.drainNode \in S \cup {Nil}

PlacedLog(S, w) == \A i \in 1 .. Len(w) : Placed(S, w[i])

PlacedJob(S, j) == j.patch # Nil => Placed(S, j.patch)

(* The inductive invariant, beside SaneInv: every version of the workload, *)
(* in the log or on its way to the server, is placed.                      *)
PlacedInv ==
    /\ node \in [Nodes -> {"ready", "tainted", "gone"}]
    /\ podNode \in [Pods -> Nodes \cup {Nil}]
    /\ PlacedLog(Vacant, wl)
    /\ \A a \in Actors : PlacedJob(Vacant, job[a])

-----------------------------------------------------------------------------
(* Versions.                                                               *)

(* A write that is past the scale-down only if the version it replaces was *)
(* at the same node, or loses that node.                                   *)
Keeps(v, u) ==
    u.drainState \in {"draining", "done"} =>
        v.drainState \in {"draining", "done"} /\ u.drainNode \in {v.drainNode, Nil}

LEMMA PlacedKeeps ==
    ASSUME NEW S, NEW v, NEW u, Placed(S, v), Keeps(v, u)
    PROVE  Placed(S, u)
BY DEF Placed, Keeps

(* More vacant nodes do no harm.                                           *)
LEMMA PlacedMore ==
    ASSUME NEW S, NEW T, S \subseteq T, NEW v, Placed(S, v)
    PROVE  Placed(T, v)
BY DEF Placed

Same(v, u) == u.drainState = v.drainState /\ u.drainNode = v.drainNode

LEMMA SameKeeps ==
    ASSUME NEW v, NEW u, Same(v, u)
    PROVE  Keeps(v, u)
BY DEF Same, Keeps

(* Time, a merge patch, other writers and the restart reconciler keep the  *)
(* drain's state and node.                                                 *)
LEMMA SameWrites ==
    ASSUME NEW v \in Object
    PROVE  /\ Same(v, Older(v)) /\ \A current : Same(v, Patch(current, v))
           /\ \A r : Same(v, SetReplicas(v, r))
           /\ \A st : /\ Same(v, [v EXCEPT !.status = st])
                      /\ Same(v, [v EXCEPT !.enabled = st])
                      /\ Same(v, [v EXCEPT !.restartAt = st])
                      /\ Same(v, [v EXCEPT !.restartedAt = st])
                      /\ Same(v, [v EXCEPT !.restartSurgeState = st])
           /\ Same(v, scaledDown(v))
<1>1. Same(v, Older(v)) /\ \A current : Same(v, Patch(current, v))
  BY DEF Same, Object, Older, Patch
<1>2. \A r : Same(v, SetReplicas(v, r))
  BY DEF Same, Object, SetReplicas
<1>3. Same(v, scaledDown(v))
  BY <1>2 DEF scaledDown, Same
<1>4. \A st : /\ Same(v, [v EXCEPT !.status = st]) /\ Same(v, [v EXCEPT !.enabled = st])
              /\ Same(v, [v EXCEPT !.restartAt = st]) /\ Same(v, [v EXCEPT !.restartedAt = st])
              /\ Same(v, [v EXCEPT !.restartSurgeState = st])
  BY DEF Same, Object
<1>5. QED
  BY <1>1, <1>2, <1>3, <1>4, Zenon

LEMMA SameRestartWrites ==
    ASSUME NEW s, NEW v, Sane(s, v)
    PROVE  /\ Same(v, abortedRestart(v)) /\ Same(v, yielded(v))
           /\ Same(v, clearRestartSurgeAnnotations(v)) /\ Same(v, recordRestart(v))
<1>1. ASSUME NEW w \in Object
      PROVE  /\ Same(w, clearRestartSurgeExclusiveAnnotations(w))
             /\ Same(w, clearRestartSurgeAnnotations(w))
             /\ Same(w, recordRestart(w))
  BY DEF Same, Object, clearRestartSurgeAnnotations, clearRestartSurgeExclusiveAnnotations,
         recordRestart
<1>2. v.originalReplicas \in {Nil, 1, 2} /\ v \in Object
  BY DEF Sane
<1>3. SetReplicas(v, v.originalReplicas) \in Object
  BY <1>2, SaneScaled DEF Sane
<1>4. Same(v, SetReplicas(v, v.originalReplicas))
  BY <1>2, SameWrites
<1>5. Same(v, abortedRestart(v)) /\ Same(v, yielded(v))
  BY <1>1, <1>2, <1>3, <1>4 DEF abortedRestart, yielded, Same
<1>6. QED
  BY <1>1, <1>2, <1>5

(* An abort or a cleanup ends the operation.                               *)
LEMMA EndedWrites ==
    ASSUME NEW s, NEW v, Sane(s, v)
    PROVE  /\ clearDrainAnnotations(v).drainState = "none"
           /\ aborted(v).drainState = "none"
<1>1. \A w \in Object : clearDrainAnnotations(w).drainState = "none"
  BY DEF clearDrainAnnotations, Object
<1>2. v.originalReplicas \in {Nil, 1, 2} /\ v \in Object
  BY DEF Sane
<1>3. SetReplicas(v, v.originalReplicas) \in Object
  BY <1>2, SaneScaled DEF Sane
<1>4. QED
  BY <1>1, <1>2, <1>3 DEF aborted

(* Edits remove an operation, or leave it at its node or without one, and  *)
(* take it no further.                                                     *)
LEMMA KeepsEdits ==
    ASSUME NEW v \in Object
    PROVE  \A u \in Edits(v) \cup RestartEdits(v) : Keeps(v, u)
<1>1. ASSUME NEW u \in LostAnnotation(v) \cup ManualCleanup(v) \cup DamagedState(v)
      PROVE  Keeps(v, u)
  BY <1>1, Zenon DEF LostAnnotation, ManualCleanup, DamagedState, Object, Keeps
<1>2. ASSUME NEW u \in LostRestartAnnotation(v) \cup RestartCleanup(v) \cup DamagedRestartState(v)
      PROVE  Same(v, u)
  BY <1>2, Zenon DEF LostRestartAnnotation, RestartCleanup, DamagedRestartState, Object, Same
<1>3. QED
  BY <1>1, <1>2, SameKeeps DEF Edits, RestartEdits

-----------------------------------------------------------------------------
(* Handlers.                                                               *)

(* The step of the proof that everything else feeds: vacant nodes stay     *)
(* vacant and what is new is placed.                                       *)
LEMMA PlacedStep ==
    ASSUME node' \in [Nodes -> {"ready", "tainted", "gone"}],
           podNode' \in [Pods -> Nodes \cup {Nil}],
           Vacant \subseteq Vacant', PlacedLog(Vacant, wl'),
           \A a \in Actors : PlacedJob(Vacant, job'[a])
    PROVE  PlacedInv'
<1>1. PlacedLog(Vacant', wl')
  BY PlacedMore DEF PlacedLog
<1>2. \A a \in Actors : PlacedJob(Vacant', job'[a])
  BY PlacedMore DEF PlacedJob
<1>3. QED
  BY <1>1, <1>2 DEF PlacedInv

(* The same, of a step that moves neither nodes nor pods.                  *)
LEMMA PlacedStill ==
    ASSUME PlacedInv, UNCHANGED <<node, podNode>>, PlacedLog(Vacant, wl'),
           \A a \in Actors : PlacedJob(Vacant, job'[a])
    PROVE  PlacedInv'
<1>1. Vacant' = Vacant
  BY DEF Vacant, PodsOn
<1>2. node' \in [Nodes -> {"ready", "tainted", "gone"}] /\ podNode' \in [Pods -> Nodes \cup {Nil}]
  BY DEF PlacedInv
<1>3. QED
  BY <1>1, <1>2, PlacedStep

(* A handler that decides on placed calls, or on none.                     *)
LEMMA PlacedCall ==
    ASSUME SaneInv, PlacedInv, UNCHANGED clusterVars, NEW a \in Actors, NEW j,
           PlacedJob(Vacant, j),
           Call(a, j) \/ job' = [job EXCEPT ![a] = j]
    PROVE  PlacedInv'
<1>1. job' = [job EXCEPT ![a] = j] /\ job \in [Actors -> Job]
  BY DEF Call, SaneInv
<1>2. \A b \in Actors : job'[b] \in {j, job[b]}
  BY <1>1
<1>3. \A b \in Actors : PlacedJob(Vacant, job'[b])
  BY <1>2 DEF PlacedInv
<1>4. QED
  BY <1>3, PlacedStill DEF PlacedInv, clusterVars

LEMMA PlacedReturn ==
    ASSUME PlacedInv, UNCHANGED clusterVars, UNCHANGED job
    PROVE  PlacedInv'
BY PlacedStill DEF PlacedInv, clusterVars

(* The ends of the log.                                                    *)
LEMMA PlacedCached ==
    ASSUME SaneInv, PlacedInv
    PROVE  /\ Placed(Vacant, Cached) /\ Placed(Vacant, Current)
           /\ Sane(setup, Cached) /\ Sane(setup, Current)
           /\ Cached \in Object /\ Current \in Object
<1>1. wl \in Seq(Object) /\ wl # <<>>
  BY DEF SaneInv, SaneLog
<1>2. Cached = wl[1] /\ 1 \in 1 .. Len(wl) /\ Len(wl) \in 1 .. Len(wl)
  BY <1>1 DEF Cached
<1>3. Placed(Vacant, Cached) /\ Placed(Vacant, Current)
  BY <1>2 DEF PlacedInv, PlacedLog, Current
<1>4. QED
  BY <1>3, SaneCached DEF Sane

(* The jobs that only patch the workload, and those of the two aborts.     *)
LEMMA PlacedJobs ==
    ASSUME NEW S, NEW s, NEW v, Sane(s, v), Placed(S, v), NEW kind
    PROVE  /\ PlacedJob(S, patchJob(kind, v))
           /\ PlacedJob(S, abortJob(kind, v)) /\ PlacedJob(S, abortRestartJob(kind, v))
<1>1. Placed(S, aborted(v))
  BY EndedWrites DEF Placed
<1>2. Placed(S, abortedRestart(v))
  BY SameRestartWrites, SameKeeps, PlacedKeeps
<1>3. QED
  BY <1>1, <1>2 DEF PlacedJob, patchJob, abortJob, abortRestartJob

(* handlePending records the node it surges for.                           *)
LEMMA PlacedPending ==
    ASSUME SaneInv, PlacedInv, NEW n \in Nodes, handlePending(n)
    PROVE  PlacedInv'
<1> DEFINE v == recordSurge(Cached, n)
           w == SetReplicas(v, GetReplicas(Cached) + 1)
           u == recordHPA(v, CachedHPA)
<1>1. n \in Actors /\ UNCHANGED clusterVars /\ Cached \in Object
  BY PlacedCached DEF Actors, Keys, handlePending, Reconciling, Dequeue
<1>2. \/ Call(n, patchJob("surge", w)) \/ RequeueAfter(n)
      \/ Call(n, [kind |-> "surge", hpa |-> GetReplicas(Cached) + 1, patch |-> u])
  BY DEF handlePending
<1>3. /\ w.drainState = "scaled-up" /\ w.drainNode = n
      /\ u.drainState = "scaled-up" /\ u.drainNode = n
  BY <1>1 DEF recordSurge, recordHPA, SetReplicas, Object
<1> HIDE DEF w, u
<1>4. Placed(Vacant, w) /\ Placed(Vacant, u)
  BY <1>3 DEF Placed
<1>5. CASE RequeueAfter(n)
  BY <1>1, <1>5, PlacedReturn DEF RequeueAfter
<1>6. CASE Call(n, patchJob("surge", w))
  BY <1>1, <1>4, <1>6, PlacedCall DEF PlacedJob, patchJob
<1>7. CASE Call(n, [kind |-> "surge", hpa |-> GetReplicas(Cached) + 1, patch |-> u])
  BY <1>1, <1>4, <1>7, PlacedCall DEF PlacedJob
<1>8. QED
  BY <1>2, <1>5, <1>6, <1>7

(* handleWaitEviction is where an operation is taken past the scale-down,  *)
(* with the taint and the absence of pods read in the same reconcile, and  *)
(* for the node of that reconcile: the operation has no other.             *)
LEMMA PlacedWaitEviction ==
    ASSUME SaneInv, PlacedInv, NEW n \in Nodes, handleWaitEviction(n)
    PROVE  PlacedInv'
<1> DEFINE w == scaledDown(Cached)
           u == [w EXCEPT !.drainState = "draining"]
<1>1. n \in Actors /\ UNCHANGED clusterVars
  BY DEF Actors, Keys, handleWaitEviction, InState, Reconciling, Dequeue
<1>2. \/ RequeueAfter(n) \/ Return(n)
      \/ Call(n, abortJob("finish", Cached))
      \/ /\ ~FindPodOnNode(n)
         /\ Call(n, [kind |-> "advance", hpa |-> restoreHPA(Cached), patch |-> u])
  BY DEF handleWaitEviction
<1>3. CASE RequeueAfter(n) \/ Return(n)
  BY <1>1, <1>3, PlacedReturn DEF RequeueAfter, Return
<1>4. CASE Call(n, abortJob("finish", Cached))
  BY <1>1, <1>4, PlacedCached, PlacedJobs, PlacedCall
<1>5. CASE /\ ~FindPodOnNode(n)
           /\ Call(n, [kind |-> "advance", hpa |-> restoreHPA(Cached), patch |-> u])
  <2>1. Cached.drainNode \in {n, Nil}
    BY DEF handleWaitEviction, InState
  <2>2. n \in Vacant
    BY <1>5 DEF handleWaitEviction, InState, Reconciling, hasDrainTaint, FindPodOnNode, Vacant
  <2>3. Same(Cached, w) /\ w \in Object
    BY PlacedCached, SameWrites, SaneRestored DEF Sane
  <2> HIDE DEF w
  <2>4. u.drainState = "draining" /\ u.drainNode \in {n, Nil}
    BY <2>1, <2>3 DEF Same, Object
  <2> HIDE DEF u
  <2>5. Placed(Vacant, u)
    BY <2>2, <2>4 DEF Placed
  <2>6. QED
    BY <1>1, <1>5, <2>5, PlacedCall DEF PlacedJob
<1>6. QED
  BY <1>2, <1>3, <1>4, <1>5

(* The other handlers of a node's reconcile keep the operation at its node *)
(* and on the side of the scale-down it is, or end it.                     *)
LEMMA PlacedReconcile ==
    ASSUME SaneInv, PlacedInv, NEW n \in Nodes, Reconcile(n)
    PROVE  PlacedInv'
<1> DEFINE v == Cached
<1>1. n \in Actors /\ Placed(Vacant, v) /\ Sane(setup, v) /\ v \in Object
  BY PlacedCached, SMTT(30) DEF Actors, Keys
<1>2. Dequeue(n)
  BY DEF Reconcile, abortWorkloadsForNode, NothingOnNode, DrainTimeout, OtherNodeDrains,
         SkipWorkload, handlePending, handleScaleUp, handleWaitReady, handleWaitEviction,
         handleScaleDown, handleCleanup, UnknownState, InState, Reconciling
<1>3. UNCHANGED clusterVars
  BY <1>2 DEF Dequeue
<1>4. ASSUME Return(n) \/ RequeueAfter(n)
      PROVE  PlacedInv'
  BY <1>3, <1>4, PlacedReturn DEF Return, RequeueAfter
<1>5. ASSUME NEW kind, Call(n, abortJob(kind, v))
      PROVE  PlacedInv'
  BY <1>1, <1>3, <1>5, PlacedJobs, PlacedCall
<1>6. ASSUME NEW kind, NEW u, Keeps(v, u), Call(n, patchJob(kind, u))
      PROVE  PlacedInv'
  <2>1. PlacedJob(Vacant, patchJob(kind, u))
    BY <1>1, <1>6, PlacedKeeps DEF PlacedJob, patchJob
  <2>2. QED
    BY <1>1, <1>3, <1>6, <2>1, PlacedCall
<1>7. CASE abortWorkloadsForNode(n)
  BY <1>4, <1>5, <1>7 DEF abortWorkloadsForNode
<1>8. CASE NothingOnNode(n) \/ OtherNodeDrains(n) \/ SkipWorkload(n)
  BY <1>4, <1>8 DEF NothingOnNode, OtherNodeDrains, SkipWorkload
<1>9. CASE DrainTimeout(n) \/ UnknownState(n)
  BY <1>5, <1>9 DEF DrainTimeout, UnknownState
<1>10. CASE handlePending(n)
  BY <1>10, PlacedPending
<1>11. CASE handleScaleUp(n)
  <2>1. PICK target :
          \/ Call(n, abortJob("abort", v))
          \/ Call(n, patchJob("advance", [v EXCEPT !.replicas = target,
                                                   !.drainState = "scaled-up"]))
    BY <1>11, Zenon DEF handleScaleUp
  <2>2. v.drainState = "pending"
    BY <1>11 DEF handleScaleUp, InState
  <2>3. Keeps(v, [v EXCEPT !.replicas = target, !.drainState = "scaled-up"])
    BY <1>1, <2>2 DEF Keeps, Object
  <2>4. QED
    BY <1>5, <1>6, <2>1, <2>3, SMTT(30)
<1>12. CASE handleWaitReady(n)
  <2>1. \/ Call(n, abortJob("abort", v)) \/ RequeueAfter(n)
        \/ Call(n, patchJob("advance", SetReplicas(v, v.originalReplicas + 1)))
        \/ Call(n, patchJob("advance", [v EXCEPT !.drainState = "ready"]))
    BY <1>12 DEF handleWaitReady
  <2>2. v.drainState = "scaled-up"
    BY <1>12 DEF handleWaitReady, InState
  <2>3. Keeps(v, [v EXCEPT !.drainState = "ready"])
    BY <1>1, <2>2 DEF Keeps, Object
  <2>4. Keeps(v, SetReplicas(v, v.originalReplicas + 1))
    BY <1>1, SameWrites, SameKeeps
  <2>5. QED
    BY <1>4, <1>5, <1>6, <2>1, <2>3, <2>4
<1>13. CASE handleWaitEviction(n)
  BY <1>13, PlacedWaitEviction
<1>14. CASE handleScaleDown(n)
  <2> DEFINE w == scaledDown(v)
  <2>1. \/ Call(n, abortJob("abort", v))
        \/ Call(n, patchJob("advance", [w EXCEPT !.drainState = "done"]))
    BY <1>14 DEF handleScaleDown
  <2>2. v.drainState = "draining"
    BY <1>14 DEF handleScaleDown, InState
  <2>3. Same(v, w) /\ w \in Object
    BY <1>1, SameWrites, SaneRestored DEF Sane
  <2> HIDE DEF w
  <2>4. Keeps(v, [w EXCEPT !.drainState = "done"])
    BY <2>2, <2>3 DEF Keeps, Same, Object
  <2>5. QED
    BY <1>5, <1>6, <2>1, <2>4
<1>15. CASE handleCleanup(n)
  <2>1. Keeps(v, clearDrainAnnotations(v))
    BY <1>1, EndedWrites DEF Keeps
  <2>2. QED
    BY <1>6, <1>15, <2>1 DEF handleCleanup
<1>16. QED
  BY <1>7, <1>8, <1>9, <1>10, <1>11, <1>12, <1>13, <1>14, <1>15 DEF Reconcile

(* The restart reconciler leaves the drain's state and node as it read     *)
(* them.                                                                   *)
LEMMA PlacedReconcileRollout ==
    ASSUME SaneInv, PlacedInv, ReconcileRollout
    PROVE  PlacedInv'
<1> DEFINE v == Cached
           w == recordRestart(v)
           d == scaledDown(v)
<1>1. Rollout \in Actors /\ Placed(Vacant, v) /\ Sane(setup, v) /\ v \in Object
  BY PlacedCached, SMTT(30) DEF Actors, Keys
<1>2. UNCHANGED clusterVars
  BY DEF ReconcileRollout, RestartTimeout, yieldToDrain, handleRestartPending,
         handleRestartScaleUp, handleRestartWaitReady, handleRestartWaitForArgo,
         handleRestartScaleDown, handleRestartCleanup, UnknownRestartState, InRestartState,
         DequeueRollout
<1>3. ASSUME Return(Rollout) \/ RequeueAfter(Rollout)
      PROVE  PlacedInv'
  BY <1>2, <1>3, PlacedReturn DEF Return, RequeueAfter
<1>4. ASSUME NEW kind, Call(Rollout, abortRestartJob(kind, v))
      PROVE  PlacedInv'
  BY <1>1, <1>2, <1>4, PlacedJobs, PlacedCall
<1>5. ASSUME NEW kind, NEW min, NEW u, Same(v, u),
             Call(Rollout, [kind |-> kind, patch |-> u, hpa |-> min])
      PROVE  PlacedInv'
  <2>1. PlacedJob(Vacant, [kind |-> kind, patch |-> u, hpa |-> min])
    BY <1>1, <1>5, SameKeeps, PlacedKeeps DEF PlacedJob
  <2>2. QED
    BY <1>1, <1>2, <1>5, <2>1, PlacedCall
<1>6. ASSUME NEW kind, NEW u, Same(v, u), Call(Rollout, patchJob(kind, u))
      PROVE  PlacedInv'
  BY <1>5, <1>6 DEF patchJob
<1>7. CASE RestartTimeout \/ UnknownRestartState
  BY <1>4, <1>7 DEF RestartTimeout, UnknownRestartState
<1>8. CASE yieldToDrain
  BY <1>1, <1>3, <1>6, <1>8, SameRestartWrites DEF yieldToDrain
<1>9. CASE handleRestartPending
  <2>1. \/ Return(Rollout) \/ RequeueAfter(Rollout)
        \/ Call(Rollout, patchJob("surge", SetReplicas(w, GetReplicas(v) + 1)))
        \/ Call(Rollout, [kind |-> "surge", hpa |-> GetReplicas(v) + 1,
                          patch |-> recordHPA(w, CachedHPA)])
    BY <1>9 DEF handleRestartPending
  <2>2. /\ Same(v, SetReplicas(w, GetReplicas(v) + 1))
        /\ Same(v, recordHPA(w, CachedHPA))
    BY <1>1 DEF Same, recordRestart, SetReplicas, recordHPA, Object
  <2>3. QED
    BY <1>3, <1>5, <1>6, <2>1, <2>2
<1>10. CASE handleRestartScaleUp \/ handleRestartWaitReady
  <2>1. \/ Call(Rollout, abortRestartJob("abort", v)) \/ RequeueAfter(Rollout)
        \/ Call(Rollout, patchJob("advance", SetReplicas(v, v.originalReplicas + 1)))
        \/ Call(Rollout, patchJob("advance", [v EXCEPT !.restartSurgeState = "ready"]))
    BY <1>10 DEF handleRestartScaleUp, handleRestartWaitReady
  <2>2. QED
    BY <1>1, <1>3, <1>4, <1>6, <2>1, SameWrites, Zenon
<1>11. Same(v, d) /\ d \in Object
  BY <1>1, SameWrites, SaneRestored DEF Sane
<1>12. CASE handleRestartWaitForArgo
  <2>1. \/ RequeueAfter(Rollout) \/ Call(Rollout, abortRestartJob("finish", v))
        \/ Call(Rollout, [kind |-> "advance", hpa |-> restoreHPA(v),
                          patch |-> [d EXCEPT !.restartSurgeState = "draining"]])
    BY <1>12 DEF handleRestartWaitForArgo
  <2> HIDE DEF d
  <2>2. Same(v, [d EXCEPT !.restartSurgeState = "draining"])
    BY <1>11 DEF Same, Object
  <2>3. QED
    BY <1>3, <1>4, <1>5, <2>1, <2>2
<1>13. CASE handleRestartScaleDown
  <2>1. \/ Call(Rollout, abortRestartJob("abort", v))
        \/ Call(Rollout, patchJob("advance", [d EXCEPT !.restartSurgeState = "done"]))
    BY <1>13 DEF handleRestartScaleDown
  <2> HIDE DEF d
  <2>2. Same(v, [d EXCEPT !.restartSurgeState = "done"])
    BY <1>11 DEF Same, Object
  <2>3. QED
    BY <1>4, <1>6, <2>1, <2>2
<1>14. CASE handleRestartCleanup
  BY <1>1, <1>6, <1>14, SameRestartWrites DEF handleRestartCleanup
<1>15. QED
  BY <1>7, <1>8, <1>9, <1>10, <1>12, <1>13, <1>14 DEF ReconcileRollout

-----------------------------------------------------------------------------
(* API calls, other writers, watches, failover and time.                   *)

(* The server stores a placed version, or nothing.                         *)
LEMMA PlacedWrite ==
    ASSUME SaneInv, PlacedInv, NEW v, Placed(Vacant, v), UNCHANGED wl \/ WriteWorkload(v)
    PROVE  PlacedLog(Vacant, wl')
<1>1. wl \in Seq(Object) /\ PlacedLog(Vacant, wl)
  BY DEF SaneInv, SaneLog, PlacedInv
<1>2. wl' = wl \/ wl' = Append(wl, v)
  BY DEF WriteWorkload
<1>3. CASE wl' = Append(wl, v)
  <2>1. Len(wl') = Len(wl) + 1 /\ Len(wl) \in Nat
    BY <1>1, <1>3
  <2>2. \A i \in 1 .. Len(wl') : wl'[i] = IF i = Len(wl) + 1 THEN v ELSE wl[i]
    BY <1>1, <1>3, <2>1
  <2>3. QED
    BY <1>1, <2>1, <2>2 DEF PlacedLog
<1>4. QED
  BY <1>1, <1>2, <1>3, Zenon

(* A step that writes a version with the server's operation in it.         *)
LEMMA PlacedWriter ==
    ASSUME SaneInv, PlacedInv, NEW v, Keeps(Current, v), WriteWorkload(v),
           UNCHANGED <<node, podNode, job>>
    PROVE  PlacedInv'
<1>1. PlacedLog(Vacant, wl')
  BY PlacedCached, PlacedKeeps, PlacedWrite
<1>2. QED
  BY <1>1, PlacedStill DEF PlacedInv

(* The calls of a job, whether their errors are reported or not.           *)
LEMMA PlacedAPICall ==
    ASSUME SaneInv, PlacedInv, NEW a \in Actors, APICall(a) \/ APICallFails(a)
    PROVE  PlacedInv'
<1> DEFINE j == job[a]
           v == Patch(Current, j.patch)
<1>1. SaneJob(setup, j) /\ PlacedJob(Vacant, j) /\ j \in Job /\ job \in [Actors -> Job]
  BY DEF SaneInv, PlacedInv
<1>2. UNCHANGED <<node, podNode>>
  BY DEF APICall, APICallFails, PatchWorkload, PatchHPAMinReplicas, PatchWorkloadFails,
         PatchHPAFails
<1>3. UNCHANGED wl \/ (j.patch # Nil /\ WriteWorkload(v))
  BY DEF APICall, APICallFails, PatchWorkload, PatchHPAMinReplicas, PatchWorkloadFails,
         PatchHPAFails, PatchesWorkloadNext
<1>4. ASSUME j.patch # Nil
      PROVE  Placed(Vacant, v)
  <2>1. j.patch \in Object /\ Placed(Vacant, j.patch)
    BY <1>1, <1>4 DEF SaneJob, Sane, PlacedJob
  <2>2. QED
    BY <2>1, SameWrites, SameKeeps, PlacedKeeps
<1>5. PlacedLog(Vacant, wl')
  <2>1. CASE UNCHANGED wl
    BY <2>1 DEF PlacedInv
  <2>2. CASE j.patch # Nil /\ WriteWorkload(v)
    BY <1>4, <2>2, PlacedWrite
  <2>3. QED
    BY <1>3, <2>1, <2>2
<1>6. PICK k \in {Idle, [j EXCEPT !.patch = Nil], [j EXCEPT !.hpa = Nil]} :
        job' = [job EXCEPT ![a] = k]
  BY DEF APICall, APICallFails, PatchWorkload, PatchHPAMinReplicas, PatchWorkloadFails,
         PatchHPAFails, AfterCall, EndJob
<1>7. k.patch \in {Nil, j.patch}
  BY <1>1, <1>6 DEF Idle, Job
<1>8. PlacedJob(Vacant, k)
  BY <1>1, <1>7 DEF PlacedJob
<1>9. \A b \in Actors : job'[b] \in {k, job[b]}
  BY <1>1, <1>6
<1>10. \A b \in Actors : PlacedJob(Vacant, job'[b])
  BY <1>8, <1>9 DEF PlacedInv
<1>11. QED
  BY <1>2, <1>5, <1>10, PlacedStill

(* Both orphan scans abort what they read from the cache.                  *)
LEMMA PlacedOrphans ==
    ASSUME SaneInv, PlacedInv, RecoverOrphans \/ RecoverRestartOrphans
    PROVE  PlacedInv'
<1>1. UNCHANGED clusterVars /\ Orphans \in Actors
  BY DEF RecoverOrphans, ListNodes, AbortOrphans, RecoverRestartOrphans, Actors
<1>2. \/ UNCHANGED job
      \/ job' = [job EXCEPT ![Orphans] = abortJob("abort", Cached)]
      \/ job' = [job EXCEPT ![Orphans] = abortRestartJob("abort", Cached)]
  BY DEF RecoverOrphans, ListNodes, AbortOrphans, RecoverRestartOrphans
<1>3. /\ PlacedJob(Vacant, abortJob("abort", Cached))
      /\ PlacedJob(Vacant, abortRestartJob("abort", Cached))
  BY PlacedCached, PlacedJobs
<1>4. QED
  BY <1>1, <1>2, <1>3, PlacedCall, PlacedReturn

(* A vacant node stays vacant as long as its taint is not withdrawn: the   *)
(* scheduler places pods on ready nodes only.                              *)
LEMMA PlacedNodesAndPods ==
    ASSUME PlacedInv, "untaint" \notin FaultKinds, NEW n \in Nodes, UNCHANGED job,
           \/ NodeEvent(n) \/ Heartbeat(n) \/ PodChange(n) \/ ArgoEvict(n)
    PROVE  PlacedInv'
<1>1. /\ node \in [Nodes -> {"ready", "tainted", "gone"}]
      /\ podNode \in [Pods -> Nodes \cup {Nil}]
  BY DEF PlacedInv
<1>2. ASSUME UNCHANGED wl, node' \in [Nodes -> {"ready", "tainted", "gone"}],
             podNode' \in [Pods -> Nodes \cup {Nil}], Vacant \subseteq Vacant'
      PROVE  PlacedInv'
  BY <1>2, PlacedStep DEF PlacedInv
<1>3. CASE Heartbeat(n) \/ PodReady(n) \/ PodNotReady(n)
  <2>1. UNCHANGED <<node, podNode, wl>>
    BY <1>3 DEF Heartbeat, PodReady, PodNotReady, clusterVars
  <2>2. QED
    BY <1>1, <1>2, <2>1 DEF Vacant, PodsOn
<1>4. CASE NodeEvent(n)
  <2>1. PICK st \in {"tainted", "gone"} : node' = [node EXCEPT ![n] = st]
    BY <1>4 DEF NodeEvent, Taint, Untaint, DeleteNode, Fault
  <2>2. UNCHANGED <<podNode, wl>>
    BY <1>4 DEF NodeEvent, Taint, Untaint, DeleteNode
  <2>3. Vacant \subseteq Vacant'
    BY <1>1, <2>1, <2>2 DEF Vacant, PodsOn
  <2>4. QED
    BY <1>1, <1>2, <2>1, <2>2, <2>3
<1>5. CASE CreatePod(n)
  <2>1. PICK p \in Pods : podNode' = [podNode EXCEPT ![p] = n]
    BY <1>5, Zenon DEF CreatePod
  <2>2. UNCHANGED <<node, wl>> /\ node[n] = "ready"
    BY <1>5 DEF CreatePod
  <2>3. Vacant \subseteq Vacant'
    BY <1>1, <2>1, <2>2 DEF Vacant, PodsOn
  <2>4. QED
    BY <1>1, <1>2, <2>1, <2>2, <2>3
<1>6. CASE DeleteSurplus(n) \/ Evict(n) \/ ArgoEvict(n)
  <2>1. PICK p \in Pods : DeletePod(p)
    BY <1>6, Zenon DEF DeleteSurplus, Evict, ArgoEvict, PodsOn
  <2>2. podNode' = [podNode EXCEPT ![p] = Nil] /\ UNCHANGED <<node, wl>>
    BY <2>1 DEF DeletePod
  <2>3. Vacant \subseteq Vacant'
    BY <1>1, <2>2, NilAssumption DEF Vacant, PodsOn
  <2>4. QED
    BY <1>1, <1>2, <2>2, <2>3
<1>7. QED
  BY <1>3, <1>4, <1>5, <1>6 DEF PodChange

(* The watches deliver the next version of the workload or of the HPA.     *)
LEMMA PlacedDeliver ==
    ASSUME SaneInv, PlacedInv, UNCHANGED job, DeliverWorkload \/ DeliverHPA
    PROVE  PlacedInv'
<1>1. wl \in Seq(Object) /\ wl # <<>> /\ PlacedLog(Vacant, wl)
  BY DEF SaneInv, SaneLog, PlacedInv
<1>2. PlacedLog(Vacant, Tail(wl))
  <2>1. Len(Tail(wl)) = Len(wl) - 1 /\ Len(wl) \in Nat
    BY <1>1
  <2>2. \A i \in 1 .. Len(Tail(wl)) : Tail(wl)[i] = wl[i + 1]
    BY <1>1
  <2>3. QED
    BY <1>1, <2>1, <2>2 DEF PlacedLog
<1>3. PlacedLog(Vacant, wl') /\ UNCHANGED <<node, podNode>>
  BY <1>1, <1>2, Zenon DEF DeliverWorkload, DeliverHPA
<1>4. QED
  BY <1>3, PlacedStill DEF PlacedInv

(* The other writers of the object, and Argo.                              *)
LEMMA PlacedOtherWriter ==
    ASSUME SaneInv, PlacedInv, UNCHANGED job, OtherWriter \/ Argo
    PROVE  PlacedInv'
<1> DEFINE v == Current
           calm == IF v.status = "restarting" THEN "stable" ELSE v.status
<1>1. v \in Object
  BY PlacedCached
<1>2. UNCHANGED <<node, podNode>>
  BY DEF OtherWriter, HPAScale, HPALoad, ResetReplicas, RolloutStarts, RolloutEnds, OptOut,
         Argo, RequestRestart, ClearRestart, GraceEnds, ArgoRestarts, ArgoFinishes, clusterVars
<1>3. CASE GraceEnds
  BY <1>3, PlacedReturn DEF GraceEnds
<1>4. CASE ~GraceEnds
  <2>1. PICK u : Same(v, u) /\ WriteWorkload(u)
    <3>1. CASE HPAScale \/ HPALoad \/ ResetReplicas
      BY <1>1, <3>1, SameWrites DEF HPAScale, HPALoad, ResetReplicas
    <3>2. CASE RolloutStarts \/ RolloutEnds \/ OptOut
      BY <1>1, <3>2, SameWrites, Zenon DEF RolloutStarts, RolloutEnds, OptOut
    <3>3. CASE RequestRestart \/ ArgoRestarts
      BY <1>1, <3>3, SameWrites, Zenon DEF RequestRestart, ArgoRestarts
    <3>4. CASE ClearRestart
      <4>1. WriteWorkload([v EXCEPT !.restartAt = Nil, !.status = calm])
        BY <1>1, <3>4 DEF ClearRestart, Object
      <4>2. Same(v, [v EXCEPT !.restartAt = Nil, !.status = calm])
        BY <1>1 DEF Same, Object
      <4>3. QED
        BY <4>1, <4>2
    <3>5. CASE ArgoFinishes
      <4>1. WriteWorkload([v EXCEPT !.restartedAt = v.restartAt, !.status = calm])
        BY <1>1, <3>5 DEF ArgoFinishes, Object
      <4>2. Same(v, [v EXCEPT !.restartedAt = v.restartAt, !.status = calm])
        BY <1>1 DEF Same, Object
      <4>3. QED
        BY <4>1, <4>2
    <3>6. QED
      BY <1>4, <3>1, <3>2, <3>3, <3>4, <3>5 DEF OtherWriter, Argo
  <2>2. QED
    BY <1>2, <2>1, SameKeeps, PlacedWriter
<1>5. QED
  BY <1>3, <1>4

(* Edits of the annotations, of either operation.                          *)
LEMMA PlacedEdited ==
    ASSUME SaneInv, PlacedInv, EditAnnotations \/ EditRestartAnnotations
    PROVE  PlacedInv'
<1>1. PICK v : Keeps(Current, v) /\ WriteWorkload(v)
  BY PlacedCached, KeepsEdits DEF EditAnnotations, EditRestartAnnotations
<1>2. UNCHANGED <<node, podNode, job>>
  BY DEF EditAnnotations, EditRestartAnnotations, reconcilerVars
<1>3. QED
  BY <1>1, <1>2, PlacedWriter

(* A failover forgets what was in memory and reads the server.             *)
LEMMA PlacedFailover ==
    ASSUME SaneInv, PlacedInv, NEW keys, RestartWith(keys)
    PROVE  PlacedInv'
<1>1. wl' = <<Current>> /\ job' = [a \in Actors |-> Idle] /\ UNCHANGED <<node, podNode>>
  BY DEF RestartWith
<1>2. PlacedLog(Vacant, wl')
  BY <1>1, PlacedCached DEF PlacedLog
<1>3. \A a \in Actors : PlacedJob(Vacant, job'[a])
  BY <1>1 DEF PlacedJob, Idle
<1>4. QED
  BY <1>1, <1>2, <1>3, PlacedStill

(* Time ages every copy alike.                                             *)
LEMMA PlacedTick ==
    ASSUME SaneInv, PlacedInv, Tick
    PROVE  PlacedInv'
<1>1. wl \in Seq(Object) /\ PlacedLog(Vacant, wl)
  BY DEF SaneInv, SaneLog, PlacedInv
<1>2. wl' = [i \in 1 .. Len(wl) |-> Older(wl[i])]
  BY <1>1, SMTT(30) DEF Tick
<1>3. ASSUME NEW v \in Object, Placed(Vacant, v)
      PROVE  Placed(Vacant, Older(v))
  BY <1>3, SameWrites, SameKeeps, PlacedKeeps
<1>4. PlacedLog(Vacant, wl')
  <2>1. Len(wl') = Len(wl)
    BY <1>1, <1>2
  <2>2. ASSUME NEW i \in 1 .. Len(wl)
        PROVE  Placed(Vacant, wl'[i])
    <3>1. wl[i] \in Object /\ Placed(Vacant, wl[i])
      BY <1>1 DEF PlacedLog
    <3>2. QED
      BY <1>2, <1>3, <3>1
  <2>3. QED
    BY <2>1, <2>2 DEF PlacedLog
<1>5. ASSUME NEW a \in Actors
      PROVE  PlacedJob(Vacant, job'[a])
  <2>1. /\ job[a] \in Job /\ PlacedJob(Vacant, job[a]) /\ SaneJob(setup, job[a])
        /\ job'[a] = OlderJob(job[a])
    BY DEF SaneInv, PlacedInv, Tick
  <2>2. CASE job[a].patch = Nil
    BY <2>1, <2>2 DEF OlderJob, PlacedJob
  <2>3. CASE job[a].patch # Nil
    <3>1. job'[a].patch = Older(job[a].patch)
      BY <2>1, <2>3 DEF OlderJob, Job
    <3>2. QED
      BY <1>3, <2>1, <2>3, <3>1 DEF PlacedJob, SaneJob, Sane
  <2>4. QED
    BY <2>2, <2>3
<1>6. QED
  BY <1>4, <1>5, PlacedStill DEF Tick

-----------------------------------------------------------------------------
(* The invariant in every specification.                                   *)

LEMMA PlacedInit == ASSUME NEW keys, StartWith(keys) PROVE PlacedInv
<1>1. /\ node \in [Nodes -> {"ready", "tainted", "gone"}]
      /\ podNode \in [Pods -> Nodes \cup {Nil}]
  BY DEF StartWith, ClusterInit
<1>2. Len(wl) = 1 /\ wl[1].drainState = "none"
  BY DEF StartWith, ClusterInit
<1>3. PlacedLog(Vacant, wl)
  BY <1>2 DEF PlacedLog, Placed
<1>4. \A a \in Actors : PlacedJob(Vacant, job[a])
  BY DEF StartWith, Idle, PlacedJob
<1>5. QED
  BY <1>1, <1>3, <1>4 DEF PlacedInv

(* Every step that drain alone and both reconcilers together share.        *)
LEMMA PlacedDrainStep ==
    ASSUME SaneInv, PlacedInv, "untaint" \notin FaultKinds, DrainStep
    PROVE  PlacedInv'
<1>1. ASSUME NEW n \in Nodes, Reconcile(n) \/ NodeEvent(n) \/ Heartbeat(n)
      PROVE  PlacedInv'
  BY <1>1, PlacedReconcile, PlacedNodesAndPods DEF NodeEvent, Heartbeat, Enqueue
<1>2. ASSUME NEW a \in Actors, APICall(a) \/ APICallFails(a)
      PROVE  PlacedInv'
  BY <1>2, PlacedAPICall
<1>3. CASE Unwatched
  BY <1>3, PlacedDeliver, PlacedOtherWriter DEF Unwatched, reconcilerVars
<1>4. QED
  BY <1>1, <1>2, <1>3, PlacedOrphans, PlacedTick DEF DrainStep

LEMMA PlacedNext ==
    ASSUME "untaint" \notin FaultKinds
    PROVE  PlacedInv /\ SaneInv /\ [EditedNext]_vars => PlacedInv'
<1> SUFFICES ASSUME PlacedInv, SaneInv, [EditedNext]_vars PROVE PlacedInv'
  OBVIOUS
<1>1. CASE DrainStep
  BY <1>1, PlacedDrainStep
<1>2. ASSUME NEW n \in Nodes, PodEvent(n)
      PROVE  PlacedInv'
  BY <1>2, PlacedNodesAndPods DEF PodEvent, Enqueue
<1>3. CASE WorkloadEvent
  BY <1>3, PlacedDeliver DEF WorkloadEvent, Enqueue
<1>4. CASE Failover
  BY <1>4, PlacedFailover DEF Failover
<1>5. CASE EditAnnotations
  BY <1>5, PlacedEdited
<1>6. CASE UNCHANGED vars
  BY <1>6, PlacedReturn DEF vars, reconcilerVars
<1>7. QED
  BY <1>1, <1>2, <1>3, <1>4, <1>5, <1>6 DEF EditedNext, Next

LEMMA PlacedRolloutNext ==
    ASSUME "untaint" \notin FaultKinds
    PROVE  PlacedInv /\ SaneRolloutInv /\ [EditedRestartNext]_rolloutVars => PlacedInv'
<1> SUFFICES ASSUME PlacedInv, SaneInv, [EditedRestartNext]_rolloutVars PROVE PlacedInv'
  BY DEF SaneRolloutInv
<1>1. CASE DrainStep
  BY <1>1, PlacedDrainStep
<1>2. CASE ReconcileRollout
  BY <1>2, PlacedReconcileRollout
<1>3. CASE RecoverRestartOrphans
  BY <1>3, PlacedOrphans
<1>4. CASE RolloutEvent
  BY <1>4, PlacedDeliver DEF RolloutEvent, Enqueue
<1>5. CASE RolloutFailover
  BY <1>5, PlacedFailover DEF RolloutFailover
<1>6. CASE Argo
  BY <1>6, PlacedOtherWriter DEF Argo, reconcilerVars
<1>7. ASSUME NEW n \in Nodes, RolloutPodEvent(n)
      PROVE  PlacedInv'
  BY <1>7, PlacedNodesAndPods DEF RolloutPodEvent, Enqueue
<1>8. CASE EditRestartAnnotations
  BY <1>8, PlacedEdited
<1>9. CASE UNCHANGED rolloutVars
  BY <1>9, PlacedReturn DEF rolloutVars, vars, reconcilerVars
<1>10. QED
  BY <1>1, <1>2, <1>3, <1>4, <1>5, <1>6, <1>7, <1>8, <1>9 DEF EditedRestartNext, RolloutNext

-----------------------------------------------------------------------------
(* The theorems.                                                           *)

(* A step either moves pods or writes the workload.                        *)
LEMMA PodsOrWorkload ==
    ASSUME [EditedNext]_vars \/ [EditedRestartNext]_rolloutVars
    PROVE  UNCHANGED podNode \/ UNCHANGED wl
<1>1. ASSUME NEW n \in Nodes, PodEvent(n) \/ RolloutPodEvent(n)
      PROVE  UNCHANGED wl
  BY <1>1, ZenonT(60) DEF PodEvent, RolloutPodEvent, PodChange, CreatePod, PodReady,
                     PodNotReady, DeleteSurplus, Evict, ArgoEvict, DeletePod
<1>2. CASE WorkloadEvent \/ Failover \/ EditAnnotations \/ RolloutEvent \/ RolloutFailover
           \/ EditRestartAnnotations
  BY <1>2, SMTT(30) DEF WorkloadEvent, DeliverWorkload, Failover, RestartWith, EditAnnotations,
              RolloutEvent, RolloutFailover, EditRestartAnnotations
<1>3. CASE ReconcileRollout
  BY <1>3, Zenon DEF ReconcileRollout, RestartTimeout, yieldToDrain, handleRestartPending,
       handleRestartScaleUp, handleRestartWaitReady, handleRestartWaitForArgo,
       handleRestartScaleDown, handleRestartCleanup, UnknownRestartState, InRestartState,
       DequeueRollout, clusterVars
<1>4. CASE RecoverRestartOrphans \/ Argo
  BY <1>4 DEF RecoverRestartOrphans, Argo, RequestRestart, ClearRestart, GraceEnds,
              ArgoRestarts, ArgoFinishes, clusterVars
<1>5. CASE UNCHANGED vars \/ UNCHANGED rolloutVars
  BY <1>5 DEF rolloutVars, vars, clusterVars
<1>6. CASE DrainStep
  BY <1>6, DrainStepPods
<1>7. QED
  BY <1>1, <1>2, <1>3, <1>4, <1>5, <1>6
     DEF EditedNext, Next, EditedRestartNext, RolloutNext

(* What the invariant says of the write that announces the scale-down.     *)
LEMMA PlacedScaleDown ==
    ASSUME SaneInv', PlacedInv', [EditedNext]_vars \/ [EditedRestartNext]_rolloutVars,
           Current.drainState = "ready", Current'.drainState = "draining"
    PROVE  \A n \in Nodes : Current'.drainNode = n => PodsOn(n) = {}
<1>1. UNCHANGED podNode
  <2>1. CASE UNCHANGED wl
    BY <2>1 DEF Current
  <2>2. QED
    BY <2>1, PodsOrWorkload
<1>2. wl' \in Seq(Object) /\ wl' # <<>>
  BY DEF SaneInv, SaneLog
<1>3. Len(wl') \in 1 .. Len(wl')
  BY <1>2
<1>4. Placed(Vacant', Current')
  BY <1>3 DEF PlacedInv, PlacedLog, Current
<1>5. Current'.drainNode \in Vacant' \cup {Nil}
  BY <1>4 DEF Placed
<1>6. QED
  BY <1>1, <1>5, NilAssumption DEF Vacant, PodsOn

(* A drain announces its scale-down only when the drained node is rid of   *)
(* the workload's pods: of the node named in the version it writes, even   *)
(* where a late patch overwrites another node's operation, and whatever is *)
(* done to the annotations.                                                *)
THEOREM EditedScaleDownAfterEviction ==
    ASSUME "untaint" \notin FaultKinds
    PROVE  EditedSpec => ScaleDownAfterEviction
<1>1. EditedSpec => Init /\ [][EditedNext]_vars
  BY PTL DEF EditedSpec
<1>2. Init => PlacedInv
  BY PlacedInit DEF Init
<1>3. PlacedInv /\ SaneInv /\ [EditedNext]_vars => PlacedInv'
  BY PlacedNext
<1>4. SaneInv' /\ PlacedInv' /\ [EditedNext]_vars =>
        [Current.drainState = "ready" /\ Current'.drainState = "draining"
           => \A n \in Nodes : Current'.drainNode = n => PodsOn(n) = {}]_vars
  BY PlacedScaleDown
<1>5. QED
  BY <1>1, <1>2, <1>3, <1>4, AlwaysSane, PTL DEF ScaleDownAfterEviction

(* The same of the drain as the controller runs it.                        *)
THEOREM DrainScaleDownAfterEviction ==
    ASSUME "untaint" \notin FaultKinds
    PROVE  Spec => ScaleDownAfterEviction
<1>1. [Next]_vars => [EditedNext]_vars
  BY DEF EditedNext
<1>2. Init => PlacedInv
  BY PlacedInit DEF Init
<1>3. PlacedInv /\ SaneInv /\ [EditedNext]_vars => PlacedInv'
  BY PlacedNext
<1>4. SaneInv' /\ PlacedInv' /\ [EditedNext]_vars =>
        [Current.drainState = "ready" /\ Current'.drainState = "draining"
           => \A n \in Nodes : Current'.drainNode = n => PodsOn(n) = {}]_vars
  BY PlacedScaleDown
<1>5. QED
  BY <1>1, <1>2, <1>3, <1>4, AlwaysSane, PTL DEF Spec, ScaleDownAfterEviction

(* The same beside a restart surge, which aborts, yields and overwrites on *)
(* the same Rollout.                                                       *)
THEOREM RolloutScaleDownAfterEviction ==
    ASSUME "untaint" \notin FaultKinds
    PROVE  EditedRestartSpec => ScaleDownAfterEviction
<1>1. RolloutInit => PlacedInv
  BY PlacedInit DEF RolloutInit
<1>2. PlacedInv /\ SaneRolloutInv /\ [EditedRestartNext]_rolloutVars => PlacedInv'
  BY PlacedRolloutNext
<1>3. SaneRolloutInv' /\ PlacedInv' /\ [EditedRestartNext]_rolloutVars =>
        [Current.drainState = "ready" /\ Current'.drainState = "draining"
           => \A n \in Nodes : Current'.drainNode = n => PodsOn(n) = {}]_vars
  BY PlacedScaleDown DEF SaneRolloutInv
<1>4. QED
  BY <1>1, <1>2, <1>3, AlwaysSaneRollout, PTL DEF EditedRestartSpec, ScaleDownAfterEviction
=============================================================================
