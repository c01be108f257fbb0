------------------------------ MODULE MCNodeLoop ----------------------------
(* An instance of NodeLoop for TLC: a Deployment and a Rollout of the same *)
(* name, a Deployment that an admission webhook may reject, a Rollout that *)
(* is not opted in, and two pods of no supported workload.                 *)
EXTENDS NodeLoop, TLC

CONSTANTS d, r, x, y, pd, pr, px, py, bare, batch, rsD, rsR, rsX, rsY, rsB

MCWorkloads == {d, r, x, y}
MCDeployments == {d, x}
MCNameOf == d :> "app" @@ r :> "app" @@ x :> "rejected" @@ y :> "skipped"
MCPods == {pd, pr, px, py, bare, batch}
MCReplicaSetOf == pd :> rsD @@ pr :> rsR @@ px :> rsX @@ py :> rsY
                      @@ bare :> Nil @@ batch :> rsB
MCOwnerOf == rsD :> d @@ rsR :> r @@ rsX :> x @@ rsY :> y @@ rsB :> Nil
MCOptedIn == {d, r, x}
MCRejected == {x}
=============================================================================
