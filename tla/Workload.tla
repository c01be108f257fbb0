------------------------------ MODULE Workload ------------------------------
(***************************************************************************)
(* A drainable workload (Deployment or Argo Rollout) as the controller     *)
(* sees it: spec.replicas, the rollout status it reads, and the            *)
(* annotations that hold the whole state of an operation.  Pure operators  *)
(* only: what the accessors read, what a handler changes in its copy, and  *)
(* what the merge patch of a copy makes of the object in the API server.   *)
(***************************************************************************)
EXTENDS Integers

CONSTANTS
    Nil,               \* an absent field or annotation, or one that does not parse
    Nodes,             \* the nodes of the cluster
    ReadinessTimeout,  \* Config.ReadinessTimeout, in clock ticks
    RestartSurgeTimeout   \* Config.RestartSurgeTimeout, likewise

ASSUME NilAssumption == Nil \notin Int /\ Nil \notin Nodes
ASSUME TimeoutAssumption == ReadinessTimeout \in Nat /\ RestartSurgeTimeout \in Nat

DrainState == {"none", "pending", "scaled-up", "ready", "draining", "done"}

(* An RFC3339 start annotation has whole seconds, so what the code derives  *)
(* from it is an apparent age; past ReadinessTimeout nothing else is told   *)
(* apart (the 3 * ReadinessTimeout branch takes the same abort).            *)
Age == 0 .. (ReadinessTimeout + 1)
RestartAge == 0 .. (RestartSurgeTimeout + 1)

(* Fields named after the annotations; "none" is the empty string an absent *)
(* annotation reads as.  "status" is what IsStable and IsStableForRestart   *)
(* make of phase and conditions.  The restarts of a Rollout are numbered;   *)
(* spec.restartAt and status.restartedAt hold such a number.                *)
Object ==
    [replicas          : Nat \cup {Nil},
     enabled           : {"none", "true"},
     status            : {"stable", "restarting", "progressing"},
     restartAt         : Nat \cup {Nil},
     restartedAt       : Nat \cup {Nil},
     drainState        : DrainState \cup {"unknown"},
     originalReplicas  : Nat \cup {Nil},
     drainNode         : Nodes \cup {Nil},
     drainStart        : Age \cup {Nil},
     hpaName           : {"none", "hpa"},
     hpaOriginalMin    : Nat \cup {Nil},
     restartSurgeState : DrainState \cup {"unknown"},
     restartSurgeStart : RestartAge \cup {Nil}]

ASSUME AbsentAssumption == Nil \notin Object

-----------------------------------------------------------------------------
(* Accessors.                                                              *)

GetReplicas(v) == IF v.replicas = Nil THEN 1 ELSE v.replicas

IsStable(v) == v.status = "stable"

(* Mutant: the phase has to be Healthy, as for a drain.                    *)
IsStableForRestart_Healthy(v) == IsStable(v)

(* A pending restart is all that keeps the Rollout from being Healthy.     *)
IsStableForRestart(v) == v.status \in {"stable", "restarting"}

SetReplicas(v, r) == [v EXCEPT !.replicas = r]

HPAMinReplicasOrDefault(min) == IF min = Nil THEN 1 ELSE min

IsHPAAtMinReplicas(min, target) == min # Nil /\ min >= target

-----------------------------------------------------------------------------
(* The operation recorded in the annotations.                              *)

isActive(v) == v.drainState \notin {"none", "done"}

(* Mutant: the age of the operation is never looked at.                    *)
TimedOut_Never(v) == FALSE

TimedOut(v) == isActive(v) /\ v.drainStart # Nil /\ v.drainStart > ReadinessTimeout

(* One clock tick later. *)
Older(v) ==
    [v EXCEPT !.drainStart = IF @ \in 0 .. ReadinessTimeout THEN @ + 1 ELSE @,
              !.restartSurgeStart = IF @ \in 0 .. RestartSurgeTimeout THEN @ + 1 ELSE @]

(* Mutant: the node pointer is left behind.                                *)
clearDrainAnnotations_KeepNode(v) ==
    [v EXCEPT !.drainState = "none", !.originalReplicas = Nil,
              !.drainStart = Nil, !.hpaName = "none", !.hpaOriginalMin = Nil,
              !.restartSurgeState = "none", !.restartSurgeStart = Nil]

clearDrainAnnotations(v) ==
    [v EXCEPT !.drainState = "none", !.originalReplicas = Nil, !.drainNode = Nil,
              !.drainStart = Nil, !.hpaName = "none", !.hpaOriginalMin = Nil,
              !.restartSurgeState = "none", !.restartSurgeStart = Nil]

(* What handlePending records for node n; the HPA part is recordHPA.       *)
recordSurge(v, n) ==
    [v EXCEPT !.drainState = "scaled-up", !.originalReplicas = GetReplicas(v),
              !.drainNode = n, !.drainStart = 0]

recordHPA(v, min) ==
    [v EXCEPT !.hpaName = "hpa", !.hpaOriginalMin = HPAMinReplicasOrDefault(min)]

(* Mutant: the replicas are not put back.                                  *)
aborted_Forgetful(v) == clearDrainAnnotations(v)

(* Mutant: with an HPA the surge is subtracted from whatever it made of    *)
(* the replicas.                                                           *)
aborted_Decrement(v) ==
    clearDrainAnnotations(
        IF v.originalReplicas = Nil THEN v
        ELSE SetReplicas(v, IF v.hpaName = "hpa" THEN GetReplicas(v) - 1
                            ELSE v.originalReplicas))

(* The copy abortWorkload patches: replicas restored when the recorded     *)
(* count parses, every owned annotation gone.                              *)
aborted(v) ==
    clearDrainAnnotations(
        IF v.originalReplicas = Nil THEN v ELSE SetReplicas(v, v.originalReplicas))

(* Mutant: the recorded value is lost on the way.                          *)
restoreHPA_Unset(v) == IF v.hpaName = "none" THEN Nil ELSE 0

(* The minReplicas restoreHPA sends: Nil when there is nothing to send,    *)
(* because no HPA is recorded or because its value does not parse.         *)
restoreHPA(v) == IF v.hpaName = "none" THEN Nil ELSE v.hpaOriginalMin

-----------------------------------------------------------------------------
(* The restart-surge operation, which shares original-replicas and the HPA *)
(* annotations with the drain.                                             *)

isRestartActive(v) == v.restartSurgeState \notin {"none", "done"}

RestartTimedOut(v) ==
    isRestartActive(v) /\ v.restartSurgeStart # Nil /\ v.restartSurgeStart > RestartSurgeTimeout

recordRestart(v) ==
    [v EXCEPT !.restartSurgeState = "scaled-up", !.originalReplicas = GetReplicas(v),
              !.restartSurgeStart = 0]

clearRestartSurgeExclusiveAnnotations(v) ==
    [v EXCEPT !.restartSurgeState = "none", !.restartSurgeStart = Nil]

(* Mutant: the shared record is left to the drain.                         *)
clearRestartSurgeAnnotations_KeepShared(v) == clearRestartSurgeExclusiveAnnotations(v)

clearRestartSurgeAnnotations(v) ==
    [clearRestartSurgeExclusiveAnnotations(v) EXCEPT
        !.originalReplicas = Nil, !.hpaName = "none", !.hpaOriginalMin = Nil]

(* Mutant: the replicas are not put back.                                  *)
abortedRestart_Forgetful(v) == clearRestartSurgeAnnotations(v)

(* The copy abortRestartSurge patches; drain-state, drain-node and         *)
(* drain-start stay.                                                       *)
abortedRestart(v) ==
    clearRestartSurgeAnnotations(
        IF v.originalReplicas = Nil THEN v ELSE SetReplicas(v, v.originalReplicas))

(* The copy yieldToDrain patches.                                          *)
yielded(v) ==
    clearRestartSurgeExclusiveAnnotations(
        IF v.hpaName = "none" /\ v.originalReplicas # Nil
        THEN SetReplicas(v, v.originalReplicas) ELSE v)

-----------------------------------------------------------------------------
(* Patch: a JSON merge patch without resourceVersion.  Every annotation of *)
(* the copy is set, every owned key the copy lacks is deleted, and         *)
(* spec.replicas is always written; status and spec.restartAt stay the     *)
(* server's.                                                               *)
Patch(current, copy) ==
    [copy EXCEPT !.enabled = IF copy.enabled = "true" THEN "true" ELSE current.enabled,
                 !.status = current.status, !.restartAt = current.restartAt,
                 !.restartedAt = current.restartedAt]
=============================================================================
