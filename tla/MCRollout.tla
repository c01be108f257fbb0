------------------------------ MODULE MCRollout -----------------------------
(* Instances of RolloutReconciler for TLC.                                 *)
EXTENDS RolloutReconciler, TLC

Plain == [replicas |-> 1, minAvailable |-> 1, strategy |-> "RollingUpdate",
          hpaMax |-> 0, hpaMin |-> Nil]
PlainSetup == {Plain}

PodSymmetry == Permutations(Pods)

-----------------------------------------------------------------------------
(* The behaviours of RolloutSpec that the liveness half of the contract is *)
(* checked on: the watch delivers a version before anything else happens   *)
(* (the copies in calls under way still grow stale), the clock advances    *)
(* between API calls, and no node status puts a key on the queue that      *)
(* nothing else would.                                                     *)

TickBetweenCalls == (\A a \in Actors : job[a] = Idle) /\ Tick

DrainBesideRestart ==
    \/ \E n \in Nodes : Reconcile(n) \/ NodeEvent(n)
    \/ \E a \in Actors : APICall(a)
    \/ TickBetweenCalls

ContractNext ==
    /\ \/ RolloutEvent
       \/ /\ Len(wl) = 1
          /\ \/ DrainBesideRestart /\ UNCHANGED <<restarts, graceOver>>
             \/ ReconcileRollout \/ Argo
             \/ \E n \in Nodes : RolloutPodEvent(n)
    /\ Births

(* Each worker takes its keys and gets answers to its calls, the watch     *)
(* delivers, time passes; the pods and Argo may do nothing at all.         *)
ContractFairness ==
    /\ \A n \in Drainable : WF_vars(Reconcile(n) \/ APICall(n))
    /\ WF_vars(ReconcileRollout \/ APICall(Rollout))
    /\ WF_clusterVars(DeliverWorkload)
    /\ WF_vars(TickBetweenCalls)

ContractSpec == RolloutInit /\ [][ContractNext]_rolloutVars /\ ContractFairness
=============================================================================
