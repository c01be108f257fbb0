----------------------------- MODULE ArgoRollouts ---------------------------
(***************************************************************************)
(* What an Argo Rollout adds to the cluster: restarts that an operator     *)
(* asks for with spec.restartAt, and Argo's PodRestarter, which evicts the *)
(* pods older than that through the eviction API and reports the end in    *)
(* status.restartedAt.  External code, as restart_detect.go relies on it.  *)
(***************************************************************************)
EXTENDS Cluster

CONSTANT MaxRestarts   \* how many restarts are asked for

ASSUME ArgoAssumption == MaxRestarts \in Nat

VARIABLES
    restarts,    \* restarts asked for so far
    graceOver,   \* the latest of them whose grace period has passed
    born         \* for each live pod, how many restarts had been asked for when it was created

argoVars == <<restarts, graceOver, born>>

ArgoTypeOK ==
    /\ restarts \in 0 .. MaxRestarts
    /\ graceOver \in 0 .. restarts
    /\ born \in [Pods -> 0 .. restarts]

ArgoInit == restarts = 0 /\ graceOver = 0 /\ born = [p \in Pods |-> 0]

restartPending(v) == v.restartAt # Nil /\ v.restartedAt # v.restartAt

(* The live pods created before the restart of v.                          *)
StalePods(v) == {p \in Live : v.restartAt # Nil /\ born[p] < v.restartAt}

(* What becomes of the pods' ages when the pods change.                    *)
Births ==
    born' = [p \in Pods |-> IF podNode'[p] = Nil THEN 0
                            ELSE IF podNode[p] = Nil THEN restarts ELSE born[p]]

-----------------------------------------------------------------------------
(* The operator.                                                           *)

RequestRestart ==
    /\ restarts < MaxRestarts
    /\ restarts' = restarts + 1
    /\ WriteWorkload([Current EXCEPT !.restartAt = restarts + 1])
    /\ UNCHANGED <<node, hpa, podNode, ready, setup, faults, graceOver>>

ClearRestart ==
    /\ Fault("clearRestart")
    /\ Current.restartAt # Nil
    /\ WriteWorkload([Current EXCEPT !.restartAt = Nil,
                                     !.status = IF @ = "restarting" THEN "stable" ELSE @])
    /\ UNCHANGED <<node, hpa, podNode, ready, setup, restarts, graceOver>>

(* RestartSurgeGracePeriod has gone by since the last request.             *)
GraceEnds ==
    /\ graceOver' = restarts
    /\ UNCHANGED <<clusterVars, restarts>>

-----------------------------------------------------------------------------
(* Argo.                                                                   *)

(* The phase turns to Progressing, "rollout is restarting".                *)
ArgoRestarts ==
    /\ restartPending(Current) /\ Current.status = "stable"
    /\ WriteWorkload([Current EXCEPT !.status = "restarting"])
    /\ UNCHANGED <<node, hpa, podNode, ready, setup, faults, restarts, graceOver>>

ArgoEvict(n) ==
    /\ restartPending(Current)
    /\ \E p \in PodsOn(n) \cap StalePods(Current) :
         /\ Cardinality(ready \ {p}) >= setup.minAvailable
         /\ DeletePod(p)

ArgoFinishes ==
    /\ restartPending(Current) /\ StalePods(Current) = {}
    /\ WriteWorkload([Current EXCEPT !.restartedAt = Current.restartAt,
                                     !.status = IF @ = "restarting" THEN "stable" ELSE @])
    /\ UNCHANGED <<node, hpa, podNode, ready, setup, faults, restarts, graceOver>>
=============================================================================
