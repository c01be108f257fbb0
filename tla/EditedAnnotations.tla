-------------------------- MODULE EditedAnnotations -------------------------
(***************************************************************************)
(* NodeReconciler when somebody edits the controller's annotations: the    *)
(* manual cleanup of README.md:448-457 and the damage that the error paths *)
(* of the handlers are written for.                                        *)
(***************************************************************************)
EXTENDS NodeReconciler

(* Each annotation alone may be gone, or hold what does not parse.         *)
LostAnnotation(v) ==
    {[v EXCEPT !.drainState = "none"], [v EXCEPT !.originalReplicas = Nil],
     [v EXCEPT !.drainNode = Nil], [v EXCEPT !.drainStart = Nil],
     [v EXCEPT !.hpaName = "none"], [v EXCEPT !.hpaOriginalMin = Nil]}

(* States of an operation that the code reads but never writes.            *)
DamagedState(v) ==
    {[v EXCEPT !.drainState = "pending"], [v EXCEPT !.drainState = "unknown"],
     [v EXCEPT !.drainState = "pending", !.originalReplicas = Nil]}

ManualCleanup(v) ==
    {[v EXCEPT !.drainState = "none", !.originalReplicas = Nil,
               !.drainNode = Nil, !.drainStart = Nil]}

Edits(v) ==
    LostAnnotation(v) \cup ManualCleanup(v)
        \cup (IF v.drainState = "none" THEN {} ELSE DamagedState(v))

EditAnnotations ==
    /\ Fault("edit")
    /\ \E v \in Edits(Current) \ {Current} : WriteWorkload(v)
    /\ UNCHANGED <<node, hpa, podNode, ready, setup, reconcilerVars>>

EditedNext == Next \/ EditAnnotations

EditedSpec ==
    /\ Init /\ [][EditedNext]_vars
    /\ ControllerFairness /\ WF_vars(Tick) /\ Heartbeats

-----------------------------------------------------------------------------
(* Properties.                                                             *)

(* The pods are waited for, and without drain-start that has no limit      *)
(* (node_controller.go:130).                                               *)
Untimed(v) == v.drainState \in {"scaled-up", "ready"} /\ v.drainStart = Nil

(* Without drain-node an operation is found only by the pod on the node,   *)
(* and by no scan once the pod has left (node_controller.go:79-96).        *)
Unowned(v) == v.drainState # "none" /\ v.drainNode = Nil

(* Bounded operations: an operation on the server ends, by completion or   *)
(* by abort, whatever the pods do and whatever annotation is damaged, with *)
(* two exceptions that are the code's own: a wait without drain-start, and *)
(* an operation without drain-node.  BoundedOperationTime shows them.      *)
OperationEnds ==
    Current.drainState # "none"
        ~> Current.drainState = "none" \/ Untimed(Current) \/ Unowned(Current)

(* README.md:57, "Stale/timeout aborts - bounded operation time; replicas  *)
(* always restored on overrun".                                            *)
BoundedOperationTime == Current.drainState # "none" ~> Current.drainState = "none"
=============================================================================
