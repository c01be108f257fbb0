# k8s-drain-surge in TLA+

k8s-drain-surge lets a node be drained when the only pod of a workload is
protected by a PodDisruptionBudget with `minAvailable: 1`. It adds one replica,
waits until that pod is Ready elsewhere, waits for the eviction of the old pod,
and takes the replica away again. A second state machine does the same for an
Argo Rollout whose restart the PDB blocks. All state of such an operation lives
in annotations of the workload. This directory models both state machines,
checks them with TLC and proves their main invariants with TLAPS.

## The system

| Part | Source | State | Operations |
| --- | --- | --- | --- |
| Drain state machine | `node_controller.go` | annotations of the workload, `minReplicas` of the HPA | `Reconcile`, `reconcileWorkload`, the `handle*` functions, `abortWorkload`, `abortWorkloadsForNode` |
| Restart surge | `rollout_controller.go`, `restart_detect.go` | `restart-surge-*` and the shared annotations | the `handleRestart*` functions, `yieldToDrain`, `abortRestartSurge` |
| Annotation record | `state.go` | `drain-state`, `original-replicas`, `drain-node`, `drain-start`, `hpa-*`, `restart-surge-*` | parse, clear |
| Workload adapters | `workload.go` | `spec.replicas`, status | accessors, merge patch |
| Scaler helpers | `scaler.go` | none | PDB, HPA and pod queries, HPA patch |
| Watches and queues | `SetupWithManager`, `map*To*` | work queues, workers | enqueue, requeue |
| Orphan recovery | both `RecoverOrphans`, `cmd/controller/main.go` | none | two scans in one goroutine after the election, beside the workers |
| Configuration | `internal/config/config.go` | none | parse, validate |

The files without a directory are those of `internal/controller`.

The parts meet in the workload object. Reads come from informer caches that
lag. Writes are JSON merge patches without `resourceVersion`, made from the copy
that was read: every annotation of the copy is set, every owned key it lacks is
deleted, and `spec.replicas` is always written. The last writer wins, with
whatever it read earlier. A surge of a workload with an HPA takes two patches
(workload, then HPA), and so does the way back (HPA, then workload). Between any
two steps another worker, the orphan scan, a crash, the HPA controller, a GitOps
tool or the owner may act. That is what makes the code hard to test, and what
the model keeps.

On a Rollout the two state machines share `original-replicas` and the `hpa-*`
annotations. The restart side gives way to a drain (`yieldToDrain`), but its
timeout and its orphan scan do not look for one.

What the parts have to guarantee:

- *record*: never torn, never poisoned by surged values (`Restorable`,
  `SharedRestorable`);
- *state machines*: no surge without a record that ends it (`NoLeakedSurge`,
  `NoLeakedSharedSurge`, `MinReplicasKnown`), no scale-down before the eviction
  (`ScaleDownAfterEviction`), availability (`Available`), an end to every
  operation (`OperationEnds`), a drained node (`NodeDrains`), a finished restart
  (`RestartCompletes`);
- *both together*: the contract with the owner (`ContractKept`);
- *error paths*: an edited or half cleaned record does not make surges pile up
  (`SurgesDoNotPileUp`), and blocks an operation in two cases only
  (`OperationEnds`, `BoundedOperationTime`);
- *queues and watches*: no operation on record is left without a reconcile, a
  call or an event to come (`DrainAwake`, `RestartAwake`);
- *the loop over a node's workloads*: one that fails, is skipped or shares a key
  takes nothing from the others (`NoLostWakeup`, `EveryWorkloadServed`,
  `EveryOperationEnds`).

## Modules

| Module | Models |
| --- | --- |
| `Workload` | the object with its annotations, the accessors, what each handler changes in its copy, the merge patch |
| `Cluster` | the environment: API server and caches, nodes, pods, evictions, HPA controller, GitOps, owner (external code) |
| `NodeReconciler` | the drain controller: handlers, API calls, queue, watches, orphan scan, failover; specifications and properties |
| `ArgoRollouts` | restarts of a Rollout and Argo's PodRestarter (external code) |
| `RolloutReconciler` | the restart reconciler composed with `NodeReconciler` on one Rollout; the refinement mapping |
| `SurgeContract` | the abstract specification of an operation: open, rescale by one, give back and close |
| `EditedAnnotations`, `EditedRestart` | `NodeReconciler` and `RolloutReconciler` plus somebody who edits the annotations |
| `NodeLoop` | `NodeReconciler.Reconcile` over several workloads of one node |
| `DrainClaims` | sentences of the repository's README that the code does not keep |
| `MCDrain`, `MCEdited`, `MCRollout`, `MCEditedRestart`, `MCNodeLoop` | instances for TLC |
| `NodeReconcilerProofs` | the record and the surge of a drain alone |
| `SharedRecordProofs`, `RolloutReconcilerProofs` | the same of drain and restart surge on one Rollout, and the refinement: lemmas about copies of the Rollout, then steps and theorems |
| `SurgeBoundsProofs` | bounds that survive any edit of the annotations |
| `AvailabilityProofs`, `EvictionProofs` | the last Ready pod; the scale-down after the eviction |
| `WakeupProofs` | no operation is left asleep |
| `NodeLoopProofs` | the loop over a node's workloads |

`ArgoRollouts` and `NodeReconciler` extend `Cluster`, which extends `Workload`;
`RolloutReconciler` extends both. `NodeLoop` stands alone.

### State

- `wl` and `hpa` are sequences of versions. The first element is what the cache
  shows, the last is what the API server holds, `Deliver*` drops the first.
  `MaxLag` bounds how far a cache may be behind.
- `job[a]` holds the API calls actor `a` still has to make: the copy to patch,
  the `minReplicas` to send, and a kind that fixes their order and what an error
  leads to. Actors are the worker of each node, the worker of the Rollout, and
  the orphan scan (`Orphans`).
- `queue` holds the keys of both reconcilers. A key whose worker is busy is
  taken up only after the worker is done, as in the controller-runtime queue.
- `recovery` is the progress of the recovery goroutine (drain scan, then restart
  scan), with the tainted nodes it listed.
- `node`, `podNode`, `ready`, `setup`, `faults` describe the environment.
- `restarts`, `graceOver`, `born` tell which restarts were asked for, which of
  them have outlived the grace period, and which pods are older than which.

`"none"` stands for the empty string of an absent annotation, `Nil` for an absent
number or one that does not parse. A start time is kept as its age, which stops
growing past the timeout; `Tick` ages every copy, those in flight included.
`spec.restartAt` and `status.restartedAt` hold the number of a restart.

### Actions

One reconcile is one handler action, which reads the caches and decides,
followed by one action per API call. Handlers that return, or that return
`RequeueAfter`, make no call. Requeued keys stay in the queue, so the requeue
interval is any length of time. A failed call (`PatchWorkloadFails`,
`PatchHPAFails`) may or may not have reached the server. The action names are
those of the Go functions; the branches of `Reconcile` and `reconcileWorkload`
before the `switch` are `abortWorkloadsForNode`, `NothingOnNode`,
`DrainTimeout`, `OtherNodeDrains` and `SkipWorkload` for the drain, and
`RestartTimeout` and `yieldToDrain` for the restart surge.

`Failover` is a crash followed by an election: jobs and queue are lost, the
caches are listed afresh, every object makes an event, and the recovery goroutine
starts again. `JustElected` lets behaviours start with an election, too.

In `NodeLoop` a pass resolves the node's pods, takes one workload per key, calls
`reconcileWorkload` for each, and combines their errors and requeue times
(`Collect`, `EndPass`). The operation of one workload is its state and what it
waits for.

### Abstractions

- One workload in all modules but `NodeLoop`. `Setup` says whether it is a
  Deployment with `Recreate`, its PDB's `minAvailable`, and which limits its HPA
  has. That the HPA and the PDB belong to the workload is part of the setup.
- Node and pod caches do not lag. The argument, which no run checks: while a
  node stays tainted it gets no new pods, so a stale pod cache shows an evicted
  pod for longer and `handleWaitEviction` waits longer. Where a stale Ready pod
  misleads `handleWaitReady`, the PDB still guards the eviction.
- A pod leaves the model when its deletion starts: every query of the code
  skips terminating pods.
- `IsStable` and `IsStableForRestart` are verdicts on a status of three values,
  not on the phase, message and conditions they are computed from.
- In the branches of `handleWaitEviction` and `handleRestartWaitForArgo` without
  `original-replicas`, the HPA is restored twice with the same value; the model
  sends it once.
- Errors of cached reads are not modelled; errors of writes are.
- The grace period of a restart ends at any time after the request.
- An edit removes any one annotation or makes it unparsable, whether an operation
  is on record or not; or it sets the state of an operation under way to one that
  the code reads but never writes (`pending`, an unknown word); or it is the
  manual cleanup of README.md:448-457 or its counterpart for a restart surge. A value that parses and is wrong is not
  modelled: the code has no means to tell it from a right one.
- `NodeLoop` delivers the event of a patch at once, and has no timeouts and no
  API errors other than those of a webhook that rejects one workload for good;
  the rest is the business of `NodeReconciler`.

## Runs

| Run | Checks | Shows |
| --- | --- | --- |
| `drain` | `TypeOK`, `Restorable`, `NoLeakedSurge`, `MinReplicasKnown`, `Available`, `ScaleDownAfterEviction` | one drain over all setups (replicas set or left out, no PDB, `Recreate`, HPA with and without room), with timeouts and one crash, API error, GitOps reset, load change or rollout at any point |
| `op_ends` | `SurgesDoNotPileUp`, `OperationEnds` | operations end after a crash, a withdrawn taint, a reset, a failed API call, an opt-out, a pod that loses readiness, or an edit, unless the edit took `drain-start` or `drain-node` |
| `node_drains` | `NodeDrains` | two nodes are drained, the first surge possibly landing on the second; each loses its pod within the timeout, despite an API error |
| `rollout` | `RolloutTypeOK`, `SharedRestorable`, `NoLeakedSharedSurge`, `DrainAwake`, `RestartAwake` | drain and restart surge race on one Rollout with stale copies |
| `contract` | `SharedRestorable`, `NoLeakedSharedSurge`, `ContractKept` | both state machines with their timeouts implement `SurgeContract`, liveness included, with the drain in each of its states beside a restart surge |
| `restart_edited` | `SurgesDoNotPileUp`, `RestartAwake` | a restart surge, with and without HPA, under an edit of its annotations, an API error or a restart that the operator clears |
| `restart_done` | `RestartCompletes` | a blocked restart is carried through by Argo, across a crash or an API error |
| `node_loop` | `LoopTypeOK`, `NoLostWakeup`, `EveryWorkloadServed`, `EveryOperationEnds` | four workloads on one node: two under one key, one whose patches may be rejected, one not opted in; two pods of none |

Bounds, and why they are enough for what the properties tell apart:

- Two nodes (three in `node_drains`, so that there is one left; one in
  `restart_edited` and `restart_done`, where no node is drained) and two pod identities: a surge needs two, and a
  third replica would already break a property. `Drainable` are the nodes that
  may be tainted, each once unless a taint is withdrawn.
- Timeouts of 0 or 1 tick. An age is fresh or expired, with one value in between
  where the timeout is 1; the code tells nothing else apart, since the branch
  for three times the timeout takes the same abort.
- `TimePasses = FALSE` restricts a run to the time before the timeouts. The
  liveness runs use it for what has to happen *within* the timeout
  (`node_drains`, `restart_done`); `rollout` uses it for size, and leaves
  timeouts to `contract` and the proofs.
- `contract` explores both state machines with time, and pays for it elsewhere
  (`ContractNext`): the watch delivers before anybody acts on the workload again, the clock
  advances between calls only, and nodes post no status. Stale caches are the
  business of `rollout`, which has none of these restrictions, and of
  `ContractImplemented`. Neither run has an election, so that the restart orphan
  scan beside a drain is covered by the proofs alone.
- `op_ends` has no HPA, and no run edits the annotations of a drain on a
  workload that has one, nor those of both operations at once:
  `DrainSurgesBounded`, `RestartSurgesBounded` and `DrainStaysAwake` cover these.
- `MaxLag = 1`: each cache is up to date or one version behind. Older copies come
  from jobs in flight, of which every actor has one.
- `MaxFaults = 1` disturbance of the run's `FaultKinds`. Ordinary concurrency
  (stale copies, several workers, orphan scan, timeouts) is not counted.
- `MaxRestarts = 1`, `MaxTaints = 1` (`node_loop`): an operation that has ended
  leaves no record, so that a second one starts like the first. The proofs do not
  depend on this.
- `MaxConcurrentReconciles = 5` as in the code; it never binds with two nodes.

`node_loop` has `CHECK_DEADLOCK FALSE`: without heartbeats the system rests once
the node is dealt with. Pods are symmetric in the runs without liveness.

`ScaleDownAfterEviction` is checked without withdrawn taints. When a taint goes
away between the decision of `handleWaitEviction` and its patch, a pod may be
scheduled back on the node, and TLC finds this when `untaint` is added to the
`FaultKinds` of `drain`. The node meant is the one named in the version that is
written: a late patch may overwrite the operation of another node.

`Available` is partly a property of the environment: `Evict` respects the PDB and
`DeleteSurplus` prefers pods that are not Ready. What the code adds is that no
write, however stale, takes the replicas below one. The run leaves out the loss
of readiness (`notReady`), which empties the set of Ready pods without any action
of the controller.

`DrainAwake` names the exceptions that the code makes. `NodeReconciler.Reconcile`
drops the errors of its handlers, so it is checked without `apiError`; with it in
the `FaultKinds` of `rollout` TLC finds the sleeping operation. An operation that
has lost `drain-node` has no node to be queued for. And one of the dropped
errors needs no failing call: `handleWaitEviction` cannot restore an HPA whose
`hpa-original-min-replicas` is lost, and waits for the next node status or the
timeout. The restart reconciler returns its errors, and `RestartAwake` holds with
them. Its exception is a surge that is `done` under a drain: it returns without a
requeue, and the write that ends the drain clears the restart annotations, too, or
is an event that passes the predicate.

`OperationEnds` has two exceptions. Without a `drain-start` that parses, neither
timeout is looked at (`node_controller.go:130`), so a wait for a pod to become
Ready or to be evicted has no limit (`Untimed`). And without `drain-node` an
operation belongs to the node whose pod leads to the workload, and to none once
that pod has left (`Unowned`). Everything else that an edit can do ends in an
abort or a completion.

### Claims that do not hold

Each of these runs ends in a counterexample.

| Run | Sentence | What happens |
| --- | --- | --- |
| `reset_ready` | README.md:54 "detects external resets of `spec.replicas` mid-surge and re-applies" | only `handleWaitReady` and `handleScaleUp` do; in `ready` the operation waits for its timeout |
| `op_bounded` | README.md:57 "bounded operation time; replicas always restored on overrun" | the `drain-start` annotation is lost in `scaled-up`, and the surge pod never becomes Ready: the operation stays open with two replicas |
| `hpa_race` | README.md:53 "restores on completion" | the orphan scan listed the nodes before this one was tainted, and aborts between the two patches of `handlePending`; the HPA stays raised, and `IsHPAAtMinReplicas` keeps later operations from starting |
| `exclusive` | `state.go:31-34` "mutually exclusive ... (state machine guards prevent overlap)" | `shouldProcess` does not look at `restart-surge-state`: a drain starts when a restart surge has scaled down but not yet cleaned up |

The `ready` state meets the same reset from inside the controller: `yieldToDrain`
restores the replicas and leaves it to the drain to raise them again
(`rollout_controller.go:101-105`), which a drain does in `scaled-up` only.

Two more weaknesses are in the model without a run of their own. A failed HPA
patch of an abort is logged and the record cleared all the same
(`node_controller.go:395`), which leaves `minReplicas` raised. And a patch made
from a copy that was read before an opt-out writes `enabled` back
(`workload.go:47`).

`reset_ready` has `TimePasses = FALSE`. After the timeout the operation is
aborted and a new one may start.

### Fairness

- `ControllerFairness`, `RestartFairness`: workers take queued keys, API calls
  return, watches deliver, the orphan scans run. controller-runtime and the API
  server guarantee this.
- `Tick` in `EditedSpec`: the clock advances.
- `ContractFairness`: the same for the actors of `contract`, with the clock of
  that run. Nothing is assumed of pods, kubelets and Argo: that every operation
  closes is due to the controller's own timeouts and steps.
- `Heartbeats`: kubelets post node status, and the controller watches nodes
  without a predicate. It is assumed because `NodeReconciler.Reconcile` logs the
  error of a handler and returns without asking for a retry, so after a failed
  call the next node event has to bring the operation on. The restart reconciler
  returns its errors and needs no such help.
- `ClusterFairness` in `PromptSpec` and `PromptRolloutSpec`: pods are scheduled
  and become Ready, rollouts end, the HPA holds its minimum. The eviction is
  strongly fair: the drainer retries, and may find the PDB satisfied only now
  and then.
- `ArgoFairness`: grace periods pass, Argo reports, and it retries its evictions
  (strongly fair for the same reason).
- `LoopFairness` has no heartbeats: every wake-up in `NodeLoop` is one that the
  code asks for or watches.

Weak fairness on the cluster's variables, not on all, keeps a step that only
queues a key from counting as progress.

## Proofs

All theorems hold for any nodes, pods and setups, any lag, any timeouts, any
number of workers and restarts, and any number and kind of faults, except where
the table names a restriction.

| Theorem | States |
| --- | --- |
| `TypeCorrect` | `Spec => []TypeOK` |
| `RecordAlwaysRestorable` | `Spec => []Restorable` |
| `SurgeNeverLeaks` | `Spec => []NoLeakedSurge` |
| `MinReplicasAlwaysKnown` | `Spec => []MinReplicasKnown` |
| `RolloutTypeCorrect` | `RolloutSpec => []RolloutTypeOK` |
| `SharedRecordRestorable` | `RolloutSpec => []SharedRestorable` |
| `SharedSurgeNeverLeaks` | `RolloutSpec => []NoLeakedSharedSurge` |
| `SharedMinReplicasKnown` | `RolloutSpec => []MinReplicasKnown` |
| `ContractImplemented` | `RolloutSpec => Contract!Safe` |
| `DrainSurgesBounded` | `EditedSpec => []SurgesDoNotPileUp` |
| `RestartSurgesBounded` | `EditedRestartSpec => []SurgesDoNotPileUp` |
| `DrainAvailable`, `EditedDrainAvailable`, `RolloutAvailable` | `Spec`, `EditedSpec`, `EditedRestartSpec` imply `[](Undisturbed => Available)` |
| `DrainScaleDownAfterEviction`, `EditedScaleDownAfterEviction`, `RolloutScaleDownAfterEviction` | without withdrawn taints, the same three imply `ScaleDownAfterEviction` |
| `DrainStaysAwake`, `DrainStaysAwakeOnRollout` | without failing API calls, `EditedSpec` and `EditedRestartSpec` imply `[]DrainAwake` |
| `RestartStaysAwake` | `EditedRestartSpec => []RestartAwake` |
| `LoopTyped` | `LoopSpec => []LoopTypeOK` |
| `LoopKeepsWakeups` | `LoopSpec => []NoLostWakeup` |

**Drain alone** (`NodeReconcilerProofs`). None of the properties is inductive,
because a patch that is still to be sent becomes the current version later. The
invariant `Inv` therefore speaks of every version in `wl`, every copy in a job,
every version in `hpa` and every `minReplicas` in a job. `Good(s, v)` says of a
version that its record is empty or whole, and that without HPA its replicas fit
its state; `GoodMin` says that a `minReplicas` is the owner's or the surge. The
step that needs an argument is `handlePending` with an HPA (`UnsurgedMin`): the
re-entry guard excludes the surged value, so what is recorded is the owner's.
Everything else follows from one lemma per operator (`GoodPatch`, `GoodAbort`,
`GoodScaledDown`, ...) and one per action.

**Drain and restart surge** (`RolloutReconcilerProofs`). `Good` fails here: a
restart surge that times out, or that the orphan scan aborts, clears the shared
record under a running drain. `Fit` is what remains true. The record is empty or
whole; a restart surge on record always has it; a drain may have lost it, but
only to a write that put the replicas back. A version with two replicas has the
record and a state that leads to a scale-down (`Surging`). Two steps carry the
argument: the merge patch of a stale copy, where the written version fits because
the copy does and the patch takes all owned fields from it; and `handlePending`
on a Rollout whose restart surge is on record, where the drain takes the record
over and the recorded original must still be one. `SharedInv` says `Fit` of every
version and every copy in flight.

**Refinement.** `Contract` maps an operation to *open* when either state is
recorded, and the replicas to themselves (to the owner's with an HPA, whose
controller owns them). The current version satisfies `Balanced`: replicas of
one or two, and one when closed. With that every step of `RolloutNext` maps to
`Open`, `Rescale`, `Close` or a stutter. The liveness half of the contract is
checked by `contract`.

**Edited annotations** (`SurgeBoundsProofs`). An edit may remove or damage any
annotation of either operation at any time, whichever is on record, so an invariant that ties the record to the state of the
operation does not survive it. `Sane` speaks of values only: what is recorded is
lost or is from before a surge, and without HPA the replicas are one or two. It
holds of every version and every copy in flight (`SaneInv`), and the argument
never looks at `drain-state` or `restart-surge-state`. The steps that could break
it are those that record or compute a new value. `shouldProcess` and `Eligible`
admit one replica only, so a new operation records one and asks for two; the
guards on `minReplicas` (`IsHPAAtMinReplicas`, the re-entry guard of
`handlePending`) do the same for the HPA; every abort and error path writes back
what is recorded or leaves the replicas alone. Because `EditedNext` and `EditedRestartNext` contain `Next`
and `RolloutNext`, the later theorems build on `SaneInv` instead of `Inv`.

**Availability** (`AvailabilityProofs`). `PodsInv` adds to `SaneInv` that Ready
pods are live and that there are enough of them. From `SaneInv` no write scales
to zero (`NeverToZero`); the rest is counting: `DeleteSurplus` takes a Ready pod
only if more than `spec.replicas` are live and no other is left, an eviction only
if the PDB has one to spare. `Undisturbed` excludes what the controller has no
hold on: a pod that loses readiness by itself, and an owner who sets the HPA's
`minReplicas` to zero. Without the first, TLC violates `Available` in one step.

**Eviction** (`EvictionProofs`). `ScaleDownAfterEviction` speaks of the moment at
which the patch is stored, the code decides earlier and on a cached copy. The
invariant `PlacedInv` therefore says of every version in the log and every copy in
flight that, if it is past the scale-down, its `drain-node` is lost or *vacant*:
tainted or gone, and without a pod of the workload. A vacant node stays vacant as long as
no taint is withdrawn, so a patch may be as late as it likes. Most writes keep
state and node of the copy, lose the node or end the operation (`Keeps`); only
`handleWaitEviction` takes a version past the scale-down, and its guard makes the
node vacant.

**Wake-ups** (`WakeupProofs`). A key leaves the queue when its handler returns or
hands calls to its worker, and the worker ends without a requeue unless the job
asks for one. `SettledInv` says of every worker's job that it asks for a requeue
or that its last call is a patch that ends the operation. Each handler's verdict
is a settled job, a requeue, or a return on a copy with which the key may sleep
(`NodeVerdict`, `RolloutVerdict`). The copy may be stale, but then an event is on
its way; if none is, the copy is current (`UpToDate`). A patch that changes the
object makes an event, and one that does not finds the operation already ended
(`PatchWorkloadAwake`). The last event that is delivered is that of the current
version, and it is mapped to whoever has an operation in it (`DeliveryWakes`); so
is the list of a new leader (`ElectionWakes`). `DrainAwake` and `RestartAwake`
are the part of "every operation ends" that needs no fairness.

**Loop** (`NodeLoopProofs`). `NoLostWakeup` together with `LoopTypeOK` is
inductive. A workload that is owed something keeps the node's key queued, or the
pass has asked for a requeue, or a workload of the same key still has its turn in
the pass. `PassCoversKeys` shows that a pass begins with a workload for every key
that is owed something, `TurnTaken` that a turn of such a workload leaves a patch
event or a requeue behind, and `TurnOfAnother` that the turn of another one takes
nothing away. Here the fairness of `LoopFairness` starts: from `NoLostWakeup` it
makes `EveryWorkloadServed` and `EveryOperationEnds`.

The assumptions are those of the modules: `Nil` is neither a number nor a node,
a pod or an object, there are finitely many pods, timeouts and bounds are natural numbers,
setups have one replica before the operation, and `Orphans` and `Rollout` are
neither nodes nor equal; in `NodeLoop`, that the functions of the instance have
the domains and ranges their comments say.

Every invariant and action property that a passing run checks is proved. Only
model-checked are the liveness properties, since fairness and `ENABLED` are beyond
the prover: `OperationEnds`, `NodeDrains`, `RestartCompletes`,
`EveryWorkloadServed`, `EveryOperationEnds`, and the half of `ContractKept` that
says every operation closes.

## Not modelled

- `internal/config`: flags and range checks without state. A model would repeat
  the comparisons of `Validate`. The timeouts it yields are constants.
- `FindMatchingPDB`, `requirementsMatch` and the selectors: the comparison of
  label requirements is sequential and stateless; the setup gives its result.
- The conditions behind `IsStable`, for the same reason.
- Errors of cached reads, which come up when a cache has not synced.
- Logging, Kubernetes events, metrics, the Helm chart, and the construction of
  the manager in `main.go` apart from the election and the recovery goroutine.
