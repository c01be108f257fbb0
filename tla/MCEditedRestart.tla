--------------------------- MODULE MCEditedRestart --------------------------
(* Instances of EditedRestart for TLC.                                     *)
EXTENDS EditedRestart, TLC

Plain == [replicas |-> 1, minAvailable |-> 1, strategy |-> "RollingUpdate",
          hpaMax |-> 0, hpaMin |-> Nil]
BothSetups == {Plain, [Plain EXCEPT !.hpaMax = 2]}

PodSymmetry == Permutations(Pods)
=============================================================================
