----------------------------- MODULE DrainClaims ----------------------------
(***************************************************************************)
(* Sentences of the documentation about drain-surge that the code does not *)
(* keep in every interleaving.  Each is stated as the README has it; TLC   *)
(* finds the behaviour of NodeReconciler that breaks it.                   *)
(***************************************************************************)
EXTENDS NodeReconciler

MidSurge(v) == v.drainState \in {"scaled-up", "ready"}

(* README.md:54, "detects external resets of spec.replicas mid-surge and   *)
(* re-applies": replicas put back during a surge rise again, unless the    *)
(* surge is over.                                                          *)
ResetReapplied == MidSurge(Current) /\ WasReset(Current)
                      ~> ~MidSurge(Current) \/ ~WasReset(Current)

(* README.md:53, "patches minReplicas ... restores on completion": once no *)
(* operation is recorded and no call is under way, the HPA has its         *)
(* minReplicas back.                                                       *)
HPARestored ==
    Current.drainState = "none" /\ (\A a \in Actors : job[a] = Idle)
        => HPAMinReplicasOrDefault(CurrentHPA) = HPAMinReplicasOrDefault(setup.hpaMin)
=============================================================================
