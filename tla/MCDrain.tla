------------------------------- MODULE MCDrain ------------------------------
(* Instances of NodeReconciler and DrainClaims for TLC.                    *)
EXTENDS DrainClaims, TLC

(* A Deployment, a Rollout that leaves spec.replicas out, and one with an  *)
(* HPA whose minReplicas is left to its default.                           *)
Plain == [replicas |-> 1, minAvailable |-> 1, strategy |-> "RollingUpdate",
          hpaMax |-> 0, hpaMin |-> Nil]
Defaulted == [Plain EXCEPT !.replicas = Nil]
WithHPA == [Plain EXCEPT !.hpaMax = 3]

(* Workloads the controller has to leave alone.                            *)
NoPDB == [Plain EXCEPT !.minAvailable = 0]
Recreating == [Plain EXCEPT !.strategy = "Recreate"]
TightHPA == [Plain EXCEPT !.hpaMax = 1]

PlainSetup == {Plain}
PlainSetups == {Plain, Defaulted, NoPDB, Recreating}
HPASetup == {WithHPA}
HPASetups == {WithHPA, TightHPA}
AllSetups == PlainSetups \cup HPASetups

(* Pod identities are interchangeable.                                     *)
PodSymmetry == Permutations(Pods)
=============================================================================
