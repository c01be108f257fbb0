---------------------------- MODULE SurgeContract ---------------------------
(***************************************************************************)
(* What the owner of a workload without HPA is promised, whoever runs the  *)
(* operation and however often it is retried, aborted or taken over: the   *)
(* controller adds at most one replica, only while an operation is open,   *)
(* gives the replicas back no later than the operation closes, and closes  *)
(* every operation.                                                        *)
(***************************************************************************)
EXTENDS Integers

CONSTANT Owned   \* the replicas the owner asked for

VARIABLES
    open,      \* whether an operation is recorded on the workload
    replicas   \* the workload's replicas

contractVars == <<open, replicas>>

Init == open = FALSE /\ replicas = Owned

Open == ~open /\ open' = TRUE /\ replicas' \in {Owned, Owned + 1}

Rescale == open /\ open' = TRUE /\ replicas' \in {Owned, Owned + 1}

Close == open /\ open' = FALSE /\ replicas' = Owned

Next == Open \/ Rescale \/ Close

Safe == Init /\ [][Next]_contractVars

Spec == Safe /\ (open ~> ~open)
=============================================================================
