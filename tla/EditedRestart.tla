---------------------------- MODULE EditedRestart ---------------------------
(***************************************************************************)
(* RolloutReconciler when somebody edits the annotations of the drain, of  *)
(* the restart surge, or those they share: the damage that the error paths *)
(* of the handlers are written for, and the states they read but never     *)
(* write.                                                                  *)
(***************************************************************************)
EXTENDS RolloutReconciler, EditedAnnotations

LostRestartAnnotation(v) ==
    {[v EXCEPT !.restartSurgeState = "none"], [v EXCEPT !.restartSurgeStart = Nil]}

DamagedRestartState(v) ==
    {[v EXCEPT !.restartSurgeState = "pending"], [v EXCEPT !.restartSurgeState = "unknown"],
     [v EXCEPT !.restartSurgeState = "pending", !.originalReplicas = Nil]}

(* The manual cleanup, for the keys of a restart surge.                    *)
RestartCleanup(v) ==
    {[v EXCEPT !.restartSurgeState = "none", !.restartSurgeStart = Nil,
               !.originalReplicas = Nil]}

RestartEdits(v) ==
    LostRestartAnnotation(v) \cup RestartCleanup(v)
        \cup (IF v.restartSurgeState = "none" THEN {} ELSE DamagedRestartState(v))

EditRestartAnnotations ==
    /\ Fault("edit")
    /\ \E v \in (Edits(Current) \cup RestartEdits(Current)) \ {Current} : WriteWorkload(v)
    /\ UNCHANGED <<node, hpa, podNode, ready, setup, reconcilerVars, argoVars>>

EditedRestartNext == RolloutNext \/ EditRestartAnnotations

EditedRestartSpec == RolloutInit /\ [][EditedRestartNext]_rolloutVars
=============================================================================
