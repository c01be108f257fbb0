------------------------- MODULE AvailabilityProofs -------------------------
(***************************************************************************)
(* Zero downtime for any set of nodes, pods and setups: neither a surge,   *)
(* nor its removal, nor an eviction that the PDB lets pass takes the last  *)
(* Ready pod of a workload with a PDB away, with one reconciler or both,   *)
(* with annotations edited or not.                                         *)
(***************************************************************************)
EXTENDS SurgeBoundsProofs, FiniteSetTheorems

(* What the controller has no hold on: a Ready pod stays Ready while it    *)
(* lives, and the owner does not let the HPA scale to zero.                *)
Undisturbed == "notReady" \notin FaultKinds /\ setup.hpaMin # 0

(* The inductive invariant, beside SaneInv: a Ready pod is a live one, and *)
(* there are enough of them.                                               *)
PodsInv ==
    /\ podNode \in [Pods -> Nodes \cup {Nil}]
    /\ ready \subseteq Live
    /\ Undisturbed => Available

-----------------------------------------------------------------------------
(* Cardinalities.                                                          *)

(* The Ready pods can be counted.                                          *)
LEMMA ReadyFinite ==
    ASSUME PodsInv
    PROVE  IsFiniteSet(Live) /\ IsFiniteSet(ready)
<1>1. Live \subseteq Pods
  BY DEF Live
<1>2. IsFiniteSet(Live)
  BY <1>1, PodsAssumption, FS_Subset
<1>3. QED
  BY <1>2, FS_Subset DEF PodsInv

(* Under the owner's minReplicas nobody scales the workload to zero.       *)
LEMMA NeverToZero ==
    ASSUME SaneInv, setup.hpaMin # 0
    PROVE  GetReplicas(Current) \in Nat /\ GetReplicas(Current) >= 1
<1>1. Default(setup) # 0
  BY DEF Default, HPAMinReplicasOrDefault
<1>2. GetReplicas(Current) # 0 /\ Current \in Object
  BY <1>1, SaneCached DEF Sane
<1>3. GetReplicas(Current) \in Nat
  BY <1>2 DEF GetReplicas, Object
<1>4. QED
  BY <1>2, <1>3

-----------------------------------------------------------------------------
(* Steps.                                                                  *)

(* What does not touch the pods.                                           *)
LEMMA PodsUntouched ==
    ASSUME PodsInv, UNCHANGED <<podNode, ready, setup>>
    PROVE  PodsInv'
BY DEF PodsInv, Live, Undisturbed, Available

(* A pod is scheduled, or turns Ready.                                     *)
LEMMA PodsCreated ==
    ASSUME PodsInv, SaneInv, NEW n \in Nodes, CreatePod(n) \/ PodReady(n)
    PROVE  PodsInv'
<1>1. n # Nil
  BY NilAssumption
<1>2. CASE CreatePod(n)
  <2>1. PICK p \in Pods \ Live : podNode' = [podNode EXCEPT ![p] = n]
    BY <1>2, Zenon DEF CreatePod
  <2>2. podNode' \in [Pods -> Nodes \cup {Nil}] /\ Live \subseteq Live'
    BY <1>1, <2>1 DEF PodsInv, Live
  <2>3. UNCHANGED <<ready, setup>>
    BY <1>2 DEF CreatePod
  <2>4. QED
    BY <2>2, <2>3 DEF PodsInv, Undisturbed, Available
<1>3. CASE PodReady(n)
  <2>1. PICK p \in PodsOn(n) : ready' = ready \cup {p}
    BY <1>3 DEF PodReady
  <2>2. p \in Live /\ UNCHANGED <<podNode, setup>>
    BY <1>1, <1>3 DEF PodReady, PodsOn, Live
  <2>3. Live' = Live /\ ready' \subseteq Live
    BY <2>1, <2>2 DEF PodsInv, Live
  <2>4. IsFiniteSet(ready') /\ ready \subseteq ready'
    BY <2>1, <2>3, ReadyFinite, FS_Subset
  <2>5. /\ Cardinality(ready) <= Cardinality(ready')
        /\ Cardinality(ready) \in Nat /\ Cardinality(ready') \in Nat
    BY <2>4, ReadyFinite, FS_Subset, FS_CardinalityType
  <2>6. setup.minAvailable \in Nat
    BY SaneCached DEF Setup
  <2>7. Available => Available'
    BY <2>2, <2>5, <2>6 DEF Available
  <2>8. QED
    BY <2>2, <2>3, <2>7 DEF PodsInv, Undisturbed
<1>4. QED
  BY <1>2, <1>3

(* A pod is deleted: evicted, with leave of the PDB, or as a surplus.      *)
LEMMA PodsDeleted ==
    ASSUME PodsInv, SaneInv, NEW n \in Nodes, DeleteSurplus(n) \/ Evict(n) \/ ArgoEvict(n)
    PROVE  PodsInv'
<1>1. PICK p \in PodsOn(n) :
        /\ DeletePod(p)
        /\ \/ Cardinality(ready \ {p}) >= setup.minAvailable
           \/ /\ Cardinality(Live) > GetReplicas(Current)
              /\ p \notin ready \/ Live \subseteq ready
  BY Zenon DEF DeleteSurplus, Evict, ArgoEvict
<1>2. /\ podNode' = [podNode EXCEPT ![p] = Nil] /\ ready' = ready \ {p}
      /\ UNCHANGED setup
  BY <1>1 DEF DeletePod
<1>3. p \in Pods /\ podNode[p] = n /\ n # Nil
  BY NilAssumption DEF PodsOn
<1>4. podNode' \in [Pods -> Nodes \cup {Nil}] /\ ready' \subseteq Live'
  BY <1>2, <1>3 DEF PodsInv, Live
<1>5. setup.minAvailable \in {0, 1}
  BY SaneCached DEF Setup
<1>6. ASSUME Undisturbed
      PROVE  Cardinality(ready \ {p}) >= setup.minAvailable
  <2>1. CASE p \notin ready
    <3>1. ready \ {p} = ready
      BY <2>1
    <3>2. QED
      BY <1>6, <3>1 DEF PodsInv, Available
  <2>2. CASE p \in ready /\ Cardinality(Live) > GetReplicas(Current) /\ Live \subseteq ready
    <3>1. ready = Live
      BY <2>2 DEF PodsInv
    <3>2. Cardinality(ready) \in Nat /\ Cardinality(ready) > 1
      BY <1>6, <2>2, <3>1, NeverToZero, ReadyFinite, FS_CardinalityType DEF Undisturbed
    <3>3. Cardinality(ready \ {p}) = Cardinality(ready) - 1
      BY <2>2, ReadyFinite, FS_RemoveElement, Zenon
    <3>4. QED
      BY <1>5, <3>2, <3>3
  <2>3. QED
    BY <1>1, <2>1, <2>2
<1>7. QED
  BY <1>2, <1>4, <1>6 DEF PodsInv, Undisturbed, Available

(* The pods under both reconcilers and Argo.                               *)
LEMMA PodsChanged ==
    ASSUME PodsInv, SaneInv, NEW n \in Nodes, PodChange(n) \/ ArgoEvict(n)
    PROVE  PodsInv'
<1>1. CASE PodNotReady(n)
  <2>1. ~Undisturbed /\ UNCHANGED <<podNode, setup>> /\ ready' \subseteq ready
    BY <1>1 DEF PodNotReady, Fault, Undisturbed
  <2>2. QED
    BY <2>1 DEF PodsInv, Live, Undisturbed
<1>2. QED
  BY <1>1, PodsCreated, PodsDeleted DEF PodChange

(* Whatever else happens leaves the pods alone.                            *)
LEMMA PodsDrainStep ==
    ASSUME PodsInv, DrainStep
    PROVE  PodsInv'
BY DrainStepPods, PodsUntouched

LEMMA PodsInit == ASSUME NEW keys, StartWith(keys) PROVE PodsInv
<1>1. PICK p \in Pods, n \in Nodes :
        podNode = [q \in Pods |-> IF q = p THEN n ELSE Nil] /\ ready = {p}
  BY DEF StartWith, ClusterInit
<1>2. n # Nil
  BY NilAssumption
<1>3. podNode \in [Pods -> Nodes \cup {Nil}] /\ ready \subseteq Live
  BY <1>1, <1>2 DEF Live
<1>4. Cardinality(ready) = 1
  BY <1>1, FS_Singleton, Zenon
<1>5. setup.minAvailable \in {0, 1}
  BY ClusterAssumption DEF StartWith, ClusterInit, Setup
<1>6. QED
  BY <1>3, <1>4, <1>5 DEF PodsInv, Available

LEMMA PodsNext == PodsInv /\ SaneInv /\ [EditedNext]_vars => PodsInv'
<1> SUFFICES ASSUME PodsInv, SaneInv, [EditedNext]_vars PROVE PodsInv'
  OBVIOUS
<1>1. ASSUME NEW n \in Nodes, PodEvent(n)
      PROVE  PodsInv'
  BY <1>1, PodsChanged DEF PodEvent
<1>2. CASE WorkloadEvent \/ Failover \/ EditAnnotations \/ UNCHANGED vars
  <2>1. UNCHANGED <<podNode, ready, setup>>
    BY <1>2 DEF WorkloadEvent, DeliverWorkload, Failover, RestartWith, EditAnnotations, vars,
                clusterVars
  <2>2. QED
    BY <2>1, PodsUntouched
<1>3. QED
  BY <1>1, <1>2, PodsDrainStep DEF EditedNext, Next

LEMMA PodsRolloutNext ==
    PodsInv /\ SaneRolloutInv /\ [EditedRestartNext]_rolloutVars => PodsInv'
<1> SUFFICES ASSUME PodsInv, SaneInv, [EditedRestartNext]_rolloutVars PROVE PodsInv'
  BY DEF SaneRolloutInv
<1>1. ASSUME NEW n \in Nodes, RolloutPodEvent(n)
      PROVE  PodsInv'
  BY <1>1, PodsChanged DEF RolloutPodEvent
<1>2. CASE ReconcileRollout
  <2>1. UNCHANGED clusterVars
    BY <1>2 DEF ReconcileRollout, RestartTimeout, yieldToDrain, handleRestartPending,
         handleRestartScaleUp, handleRestartWaitReady, handleRestartWaitForArgo,
         handleRestartScaleDown, handleRestartCleanup, UnknownRestartState, InRestartState,
         DequeueRollout
  <2>2. QED
    BY <2>1, PodsUntouched, SMTT(30) DEF clusterVars
<1>3. CASE RecoverRestartOrphans \/ RolloutEvent \/ RolloutFailover \/ EditRestartAnnotations
  <2>1. UNCHANGED <<podNode, ready, setup>>
    BY <1>3 DEF RecoverRestartOrphans, RolloutEvent, DeliverWorkload, RolloutFailover, RestartWith,
                EditRestartAnnotations, clusterVars
  <2>2. QED
    BY <2>1, PodsUntouched
<1>4. CASE Argo \/ UNCHANGED rolloutVars
  <2>1. UNCHANGED <<podNode, ready, setup>>
    BY <1>4 DEF Argo, RequestRestart, ClearRestart, GraceEnds, ArgoRestarts, ArgoFinishes,
                rolloutVars, vars, clusterVars
  <2>2. QED
    BY <2>1, PodsUntouched
<1>5. QED
  BY <1>1, <1>2, <1>3, <1>4, PodsDrainStep DEF EditedRestartNext, RolloutNext

-----------------------------------------------------------------------------
(* The theorems.                                                           *)

(* A workload under a PDB keeps a Ready pod through every drain and every  *)
(* failure of it, also when its annotations are edited meanwhile.          *)
THEOREM EditedDrainAvailable == EditedSpec => [](Undisturbed => Available)
<1>1. EditedSpec => Init /\ [][EditedNext]_vars
  BY PTL DEF EditedSpec
<1>2. Init => PodsInv
  BY PodsInit DEF Init
<1>3. PodsInv /\ SaneInv /\ [EditedNext]_vars => PodsInv'
  BY PodsNext
<1>4. PodsInv => (Undisturbed => Available)
  BY DEF PodsInv
<1>5. QED
  BY <1>1, <1>2, <1>3, <1>4, AlwaysSane, PTL

(* The same of the drain as the controller runs it.                        *)
THEOREM DrainAvailable == Spec => [](Undisturbed => Available)
<1>1. [Next]_vars => [EditedNext]_vars
  BY DEF EditedNext
<1>2. Init => PodsInv
  BY PodsInit DEF Init
<1>3. PodsInv /\ SaneInv /\ [EditedNext]_vars => PodsInv'
  BY PodsNext
<1>4. PodsInv => (Undisturbed => Available)
  BY DEF PodsInv
<1>5. QED
  BY <1>1, <1>2, <1>3, <1>4, AlwaysSane, PTL DEF Spec

(* The same of a Rollout whose drain and restart surge meet, with Argo     *)
(* evicting the pods of a restart beside the drainer.                      *)
THEOREM RolloutAvailable == EditedRestartSpec => [](Undisturbed => Available)
<1>1. RolloutInit => PodsInv
  BY PodsInit DEF RolloutInit
<1>2. PodsInv /\ SaneRolloutInv /\ [EditedRestartNext]_rolloutVars => PodsInv'
  BY PodsRolloutNext
<1>3. PodsInv => (Undisturbed => Available)
  BY DEF PodsInv
<1>4. QED
  BY <1>1, <1>2, <1>3, AlwaysSaneRollout, PTL DEF EditedRestartSpec
=============================================================================
