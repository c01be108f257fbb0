------------------------------- MODULE MCEdited -----------------------------
(* Instances of EditedAnnotations for TLC.                                 *)
EXTENDS EditedAnnotations

PlainSetup == {[replicas |-> 1, minAvailable |-> 1, strategy |-> "RollingUpdate",
                hpaMax |-> 0, hpaMin |-> Nil]}
=============================================================================
