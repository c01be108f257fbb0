--------------------------- MODULE NodeLoopProofs ---------------------------
(***************************************************************************)
(* The node's reconcile over any number of workloads and pods, with any    *)
(* ownership among them and any names they share, loses no wake-up.        *)
(***************************************************************************)
EXTENDS NodeLoop, TLAPS

-----------------------------------------------------------------------------
(* What a pass takes up.                                                   *)

(* An operation on the node is found, or the one that hides it under the   *)
(* same key is.                                                            *)
LEMMA OperationsFound ==
    ASSUME NEW w \in Workloads, state[w] # "none"
    PROVE  \E v \in findWorkloadsWithDrainNode : workloadKey(v) = workloadKey(w)
<1>1. CASE w \in findWorkloadsWithDrainNode
  BY <1>1
<1>2. CASE w \notin findWorkloadsWithDrainNode
  <2>1. PICK d \in Deployments : state[d] # "none" /\ workloadKey(d) = workloadKey(w)
    BY <1>2 DEF findWorkloadsWithDrainNode
  <2>2. d \in findWorkloadsWithDrainNode
    BY <2>1, LoopAssumption DEF findWorkloadsWithDrainNode
  <2>3. QED
    BY <2>1, <2>2
<1>3. QED
  BY <1>1, <1>2

(* A pass over a tainted node has every key with a pod there or an         *)
(* operation for it.                                                       *)
LEMMA PassCoversKeys ==
    ASSUME NEW ws \in WorkloadsOfPass
    PROVE  /\ ws \subseteq Workloads
           /\ \A w \in Workloads :
                PodOnNode(w) \/ state[w] # "none" =>
                    \E v \in ws : workloadKey(v) = workloadKey(w)
<1>1. PICK fromPods \in OnePerKey(Resolved) :
        ws = fromPods \cup {w \in findWorkloadsWithDrainNode :
                              workloadKey(w) \notin Keys(fromPods)}
  BY DEF WorkloadsOfPass
<1>2. fromPods \subseteq Resolved /\ Keys(fromPods) = Keys(Resolved)
  BY <1>1 DEF OnePerKey
<1>3. ws \subseteq Workloads
  BY <1>1, <1>2 DEF Resolved, findWorkloadsWithDrainNode
<1>4. ASSUME NEW k \in Keys(fromPods)
      PROVE  \E v \in ws : workloadKey(v) = k
  BY <1>1 DEF Keys
<1>5. ASSUME NEW w \in Workloads, PodOnNode(w)
      PROVE  \E v \in ws : workloadKey(v) = workloadKey(w)
  <2>1. workloadKey(w) \in Keys(Resolved)
    BY <1>5 DEF Keys, Resolved
  <2>2. QED
    BY <1>2, <1>4, <2>1
<1>6. ASSUME NEW w \in Workloads, state[w] # "none"
      PROVE  \E v \in ws : workloadKey(v) = workloadKey(w)
  <2>1. PICK u \in findWorkloadsWithDrainNode : workloadKey(u) = workloadKey(w)
    BY <1>6, OperationsFound
  <2>2. CASE workloadKey(u) \in Keys(fromPods)
    BY <1>4, <2>1, <2>2
  <2>3. CASE workloadKey(u) \notin Keys(fromPods)
    BY <1>1, <2>1, <2>3
  <2>4. QED
    BY <2>2, <2>3
<1>7. QED
  BY <1>3, <1>5, <1>6

-----------------------------------------------------------------------------
(* Types.                                                                  *)

(* The reconcile under way.                                                *)
Pass == [kind : {"idle", "drain", "abort"}, todo : SUBSET Workloads,
         requeue : BOOLEAN, failed : BOOLEAN]

(* A pass starts with its workloads and no result.                         *)
LEMMA BeginType ==
    ASSUME NEW kind \in {"drain", "abort"}, NEW ws \in SUBSET Workloads, Begin(kind, ws)
    PROVE  /\ pass' \in Pass /\ pass'.todo = ws
           /\ pass'.requeue = FALSE /\ pass'.failed = FALSE
BY Zenon DEF Begin, NoPass, Pass

LEMMA FollowingType == \A s \in DrainState : Following(s) \in DrainState
BY DEF Following, DrainState

LEMMA PatchStateType ==
    ASSUME LoopTypeOK, NEW w \in Workloads, NEW s \in DrainState, PatchState(w, s)
    PROVE  state' \in [Workloads -> DrainState] /\ surged' \subseteq Workloads /\ queued' = TRUE
BY DEF LoopTypeOK, PatchState

LEMMA LoopTypeNext == LoopTypeOK /\ [LoopNext]_loopVars => LoopTypeOK'
<1> SUFFICES ASSUME LoopTypeOK, [LoopNext]_loopVars PROVE LoopTypeOK'
  OBVIOUS
<1>1. pass \in Pass /\ NoPass \in Pass
  BY DEF LoopTypeOK, Pass, NoPass
<1>2. CASE Reconcile
  <2>1. pass' \in Pass
    <3>1. findWorkloadsWithDrainNode \subseteq Workloads
      BY DEF findWorkloadsWithDrainNode
    <3>2. QED
      BY <1>2, <3>1, PassCoversKeys, BeginType, Zenon DEF Reconcile
  <2>2. QED
    BY <1>2, <2>1, Zenon DEF Reconcile, LoopTypeOK, Pass
<1>3. ASSUME NEW w \in Workloads, reconcileWorkload(w)
      PROVE  LoopTypeOK'
  <2>1. pass' \in Pass
    BY <1>1, <1>3, Zenon DEF reconcileWorkload, Collect, Pass
  <2>2. state' \in [Workloads -> DrainState] /\ surged' \subseteq Workloads /\ queued' \in BOOLEAN
    <3>1. Following(state[w]) \in DrainState
      BY FollowingType DEF LoopTypeOK
    <3>2. QED
      BY <1>3, <3>1, PatchStateType, Zenon DEF reconcileWorkload, LoopTypeOK
  <2>3. QED
    BY <1>3, <2>1, <2>2 DEF reconcileWorkload, LoopTypeOK, Pass
<1>4. ASSUME NEW w \in Workloads, abortWorkload(w)
      PROVE  LoopTypeOK'
  <2>1. pass' \in Pass
    BY <1>1, <1>4, Zenon DEF abortWorkload, Pass
  <2>2. state' \in [Workloads -> DrainState] /\ surged' \subseteq Workloads /\ queued' \in BOOLEAN
    <3>1. "none" \in DrainState
      BY DEF DrainState
    <3>2. QED
      BY <1>4, <3>1, PatchStateType, Zenon DEF abortWorkload, LoopTypeOK
  <2>3. QED
    BY <1>4, <2>1, <2>2 DEF abortWorkload, LoopTypeOK, Pass
<1>5. CASE EndPass
  BY <1>1, <1>5 DEF EndPass, LoopTypeOK, Pass
<1>6. CASE Taint
  BY <1>6, LoopAssumption DEF Taint, LoopTypeOK
<1>7. CASE Untaint \/ StartRejecting
  BY <1>7, Zenon DEF Untaint, StartRejecting, LoopTypeOK
<1>8. ASSUME NEW w \in Workloads, SurgePodReady(w)
      PROVE  LoopTypeOK'
  BY <1>8 DEF SurgePodReady, LoopTypeOK
<1>9. ASSUME NEW p \in Pods, Evict(p) \/ PodComesBack(p)
      PROVE  LoopTypeOK'
  BY <1>9, Zenon DEF Evict, PodComesBack, LoopTypeOK
<1>10. CASE UNCHANGED loopVars
  BY <1>10 DEF loopVars, LoopTypeOK
<1>11. QED
  BY <1>2, <1>3, <1>4, <1>5, <1>6, <1>7, <1>8, <1>9, <1>10 DEF LoopNext

(* The variables of the loop stay in their types.                          *)
THEOREM LoopTyped == LoopSpec => []LoopTypeOK
<1>1. LoopInit => LoopTypeOK
  <2> SUFFICES ASSUME LoopInit PROVE LoopTypeOK
    OBVIOUS
  <2>1. 0 \in 0 .. MaxTaints
    BY LoopAssumption
  <2>2. state \in [Workloads -> DrainState]
    BY DEF LoopInit, DrainState
  <2>3. pass \in Pass
    BY DEF LoopInit, NoPass, Pass
  <2>4. QED
    BY <2>1, <2>2, <2>3, Zenon DEF LoopInit, LoopTypeOK, Pass
<1>2. LoopTypeOK /\ [LoopNext]_loopVars => LoopTypeOK'
  BY LoopTypeNext
<1>3. QED
  BY <1>1, <1>2, PTL DEF LoopSpec

-----------------------------------------------------------------------------
(* Wake-ups.                                                               *)

(* What wakes the node for w.                                              *)
Awake(w) ==
    \/ queued \/ pass.requeue \/ pass.failed
    \/ \E v \in pass.todo : workloadKey(v) = workloadKey(w)

(* A healthy workload shares its key with nobody that is skipped or        *)
(* rejected, so a turn under that key waits, with a requeue, or patches,   *)
(* which is an event.                                                      *)
LEMMA TurnTaken ==
    ASSUME LoopTypeOK, NEW w \in Healthy, NEW v \in Workloads, reconcileWorkload(v),
           workloadKey(v) = workloadKey(w)
    PROVE  queued' \/ pass'.requeue
<1>1. ~Skips(v) /\ ~Fails(v)
  BY DEF Healthy, Skips, Fails
<1>2. Outcome(v) \in {"requeue", "patched", "patchedRequeue"}
  BY <1>1 DEF Outcome
<1>3. CASE Outcome(v) = "requeue"
  BY <1>3, Zenon DEF reconcileWorkload, Collect, LoopTypeOK
<1>4. CASE Outcome(v) # "requeue"
  BY <1>2, <1>4 DEF reconcileWorkload, PatchState
<1>5. QED
  BY <1>3, <1>4

(* A turn of another key takes nothing away.                               *)
LEMMA TurnOfAnother ==
    ASSUME LoopTypeOK, NEW w \in Workloads, NEW v \in Workloads, reconcileWorkload(v),
           workloadKey(v) # workloadKey(w), Awake(w)
    PROVE  Awake(w)'
<1>1. /\ pass'.todo = pass.todo \ {v} /\ pass'.failed = pass.failed
      /\ pass.requeue => pass'.requeue
  BY DEF reconcileWorkload, Collect, LoopTypeOK
<1>2. queued => queued'
  BY Zenon DEF reconcileWorkload, PatchState
<1>3. QED
  BY <1>1, <1>2 DEF Awake, workloadKey

LEMMA WakeupNext ==
    LoopTypeOK /\ NoLostWakeup /\ [LoopNext]_loopVars => NoLostWakeup'
<1> SUFFICES ASSUME LoopTypeOK, NoLostWakeup, [LoopNext]_loopVars,
                    NEW w \in Healthy, Owed(w)'
             PROVE  Awake(w)'
  BY DEF NoLostWakeup, Awake, Healthy, workloadKey
<1>1. w \in Workloads /\ (Owed(w) => Awake(w))
  BY DEF NoLostWakeup, Awake, Healthy
<1>2. CASE Reconcile
  <2>1. Owed(w)
    BY <1>2 DEF Reconcile, Owed, PodOnNode, ResolveWorkloadFromPod
  <2>2. CASE tainted
    <3>1. PICK ws \in WorkloadsOfPass : Begin("drain", ws)
      BY <1>2, <2>2 DEF Reconcile
    <3>2. \E v \in ws : workloadKey(v) = workloadKey(w)
      BY <1>1, <2>1, PassCoversKeys DEF Owed
    <3>3. pass'.todo = ws
      BY <3>1, PassCoversKeys, BeginType, Zenon
    <3>4. QED
      BY <3>2, <3>3 DEF Awake, workloadKey
  <2>3. CASE ~tainted
    <3>1. Begin("abort", findWorkloadsWithDrainNode)
      BY <1>2, <2>3 DEF Reconcile
    <3>2. \E v \in findWorkloadsWithDrainNode : workloadKey(v) = workloadKey(w)
      BY <1>1, <2>1, <2>3, OperationsFound DEF Owed
    <3>3. findWorkloadsWithDrainNode \subseteq Workloads
      BY DEF findWorkloadsWithDrainNode
    <3>4. pass'.todo = findWorkloadsWithDrainNode
      BY <3>1, <3>3, BeginType, Zenon
    <3>5. QED
      BY <3>2, <3>4 DEF Awake, workloadKey
  <2>4. QED
    BY <2>2, <2>3
<1>3. ASSUME NEW v \in Workloads, reconcileWorkload(v)
      PROVE  Awake(w)'
  <2>1. CASE workloadKey(v) = workloadKey(w)
    BY <1>3, <2>1, TurnTaken DEF Awake
  <2>2. CASE Outcome(v) \in {"patched", "patchedRequeue"}
    BY <1>3, <2>2 DEF reconcileWorkload, PatchState, Awake
  <2>3. CASE Outcome(v) \notin {"patched", "patchedRequeue"} /\ workloadKey(v) # workloadKey(w)
    <3>1. Owed(w)
      BY <1>3, <2>3 DEF reconcileWorkload, Owed, PodOnNode, ResolveWorkloadFromPod
    <3>2. QED
      BY <1>1, <1>3, <2>3, <3>1, TurnOfAnother
  <2>4. QED
    BY <2>1, <2>2, <2>3
<1>4. ASSUME NEW v \in Workloads, abortWorkload(v)
      PROVE  Awake(w)'
  BY <1>4, Zenon DEF abortWorkload, PatchState, LoopTypeOK, Awake
<1>5. CASE EndPass
  <2>1. Owed(w)
    BY <1>5 DEF EndPass, Owed, PodOnNode, ResolveWorkloadFromPod
  <2>2. QED
    BY <1>1, <1>5, <2>1, Zenon DEF EndPass, Awake
<1>6. CASE Taint \/ Untaint
  BY <1>6 DEF Taint, Untaint, Awake
<1>7. ASSUME NEW p \in Pods, Evict(p) \/ PodComesBack(p)
      PROVE  Awake(w)'
  BY <1>7 DEF Evict, PodComesBack, Awake
<1>8. ASSUME UNCHANGED <<tainted, onNode, state, queued, pass>>
      PROVE  Awake(w)'
  BY <1>1, <1>8 DEF Owed, PodOnNode, ResolveWorkloadFromPod, Awake, workloadKey
<1>9. ASSUME NEW v \in Workloads, SurgePodReady(v)
      PROVE  Awake(w)'
  BY <1>8, <1>9 DEF SurgePodReady
<1>10. CASE StartRejecting \/ UNCHANGED loopVars
  BY <1>8, <1>10 DEF StartRejecting, loopVars
<1>11. QED
  BY <1>2, <1>3, <1>4, <1>5, <1>6, <1>7, <1>9, <1>10 DEF LoopNext

(* The node is woken for every workload that is owed something, whatever   *)
(* becomes of the others in its pass: errors that Reconcile only logs,     *)
(* workloads it skips, one that hides another under its key.               *)
THEOREM LoopKeepsWakeups == LoopSpec => []NoLostWakeup
<1>1. LoopInit => NoLostWakeup
  BY DEF LoopInit, NoLostWakeup, Owed, Healthy
<1>2. LoopTypeOK /\ NoLostWakeup /\ [LoopNext]_loopVars => NoLostWakeup'
  BY WakeupNext
<1>3. QED
  BY <1>1, <1>2, LoopTyped, PTL DEF LoopSpec
=============================================================================
