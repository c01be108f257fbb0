----------------------------- MODULE WakeupProofs ---------------------------
(***************************************************************************)
(* No operation is left asleep, for any set of nodes, pods and setups, any *)
(* cache lag and any number of workers, faults and edits: a restart surge  *)
(* never, a drain as long as no API call fails.                            *)
(***************************************************************************)
EXTENDS SurgeBoundsProofs

(* Whether object v still shows an operation of key k.                     *)
Shows(k, v) == IF k = Rollout THEN v.restartSurgeState # "none" ELSE v.drainState # "none"

(* A job of key k that asks for a requeue, or ends the operation with its  *)
(* last call.                                                              *)
Settled(k, j) ==
    \/ j.kind \in {"surge", "advance"}
    \/ /\ j.hpa # Nil => j.patch # Nil
       /\ j.patch # Nil => ~Shows(k, j.patch)

(* What the wake-ups rest on, beside SaneInv.                              *)
SettledInv == \A k \in Keys : Settled(k, job[k])

(* Key k has nothing to do for object v but to wait for events.            *)
MaySleep(k, v) ==
    IF k = Rollout
    THEN \/ v.restartSurgeState = "none"
         \/ v.restartSurgeState = "done" /\ v.drainState # "none"
    ELSE v.drainState = "none" \/ v.drainNode # k \/ LostHPAMin(v)

(* A step that puts no operation to sleep.                                 *)
KeepsAwake ==
    /\ SettledInv'
    /\ DrainAwake => DrainAwake'
    /\ RestartAwake => RestartAwake'

-----------------------------------------------------------------------------
(* Versions and jobs.                                                      *)

(* With a single version in the log, what the cache shows is current.      *)
LEMMA UpToDate ==
    ASSUME SaneInv, ~(Len(wl) > 1)
    PROVE  Len(wl) = 1 /\ Cached = Current
<1>1. wl \in Seq(Object) /\ wl # <<>>
  BY DEF SaneInv, SaneLog
<1>2. Len(wl) \in Nat /\ Len(wl) # 0 /\ Head(wl) = wl[1]
  BY <1>1
<1>3. \A m \in Nat : m # 0 /\ ~(m > 1) => m = 1
  OBVIOUS
<1>4. Len(wl) = 1
  BY <1>2, <1>3, Zenon
<1>5. QED
  BY <1>2, <1>4 DEF Cached, Current

(* A write that changes something makes an event.                          *)
LEMMA WriteMakesEvent ==
    ASSUME SaneInv, NEW v, WriteWorkload(v)
    PROVE  (wl' = wl /\ v = Current) \/ Len(wl') > 1
<1>1. wl \in Seq(Object) /\ wl # <<>>
  BY DEF SaneInv, SaneLog
<1>2. QED
  BY <1>1 DEF WriteWorkload

(* Only an idle actor has nothing to send.                                 *)
LEMMA NotIdle ==
    ASSUME NEW j, j.kind # "idle" \/ j.patch # Nil \/ j.hpa # Nil
    PROVE  j # Idle
BY DEF Idle

LEMMA IdleSettled == \A k : Settled(k, Idle)
BY DEF Settled, Idle

(* A job that asks for a requeue.                                          *)
LEMMA AdvanceSettled ==
    ASSUME NEW k, NEW kind \in {"surge", "advance"}, NEW v, NEW min
    PROVE  /\ Settled(k, [kind |-> kind, patch |-> v, hpa |-> min])
           /\ [kind |-> kind, patch |-> v, hpa |-> min] # Idle
BY DEF Settled, Idle

(* A job whose copy shows no operation.                                    *)
LEMMA EndSettled ==
    ASSUME NEW k, NEW kind \in {"finish", "abort", "abortNode"}, NEW v \in Object, NEW min,
           ~Shows(k, v)
    PROVE  /\ Settled(k, [kind |-> kind, patch |-> v, hpa |-> min])
           /\ [kind |-> kind, patch |-> v, hpa |-> min] # Idle
<1>1. v # Nil
  BY AbsentAssumption
<1>2. QED
  BY <1>1 DEF Settled, Idle

(* What ends an operation of a node's worker and of the Rollout's.         *)
LEMMA EndsShown ==
    ASSUME NEW s, NEW v, Sane(s, v)
    PROVE  /\ \A k : k # Rollout => ~Shows(k, aborted(v)) /\ ~Shows(k, clearDrainAnnotations(v))
           /\ ~Shows(Rollout, abortedRestart(v)) /\ ~Shows(Rollout, yielded(v))
           /\ ~Shows(Rollout, clearRestartSurgeAnnotations(v))
<1>1. \A w \in Object : /\ clearDrainAnnotations(w).drainState = "none"
                        /\ clearRestartSurgeExclusiveAnnotations(w).restartSurgeState = "none"
                        /\ clearRestartSurgeAnnotations(w).restartSurgeState = "none"
  BY DEF clearDrainAnnotations, clearRestartSurgeAnnotations,
         clearRestartSurgeExclusiveAnnotations, Object
<1>2. v.originalReplicas \in {Nil, 1, 2} /\ v \in Object
  BY DEF Sane
<1>3. SetReplicas(v, v.originalReplicas) \in Object
  BY <1>2, SaneScaled DEF Sane
<1>4. aborted(v).drainState = "none" /\ clearDrainAnnotations(v).drainState = "none"
  BY <1>1, <1>2, <1>3 DEF aborted
<1>5. /\ abortedRestart(v).restartSurgeState = "none" /\ yielded(v).restartSurgeState = "none"
      /\ clearRestartSurgeAnnotations(v).restartSurgeState = "none"
  BY <1>1, <1>2, <1>3 DEF abortedRestart, yielded
<1>6. QED
  BY <1>4, <1>5 DEF Shows

-----------------------------------------------------------------------------
(* Steps in general.                                                       *)

(* While an event of the workload is on its way everybody is awake.        *)
LEMMA EventWakes ==
    ASSUME Len(wl') > 1
    PROVE  DrainAwake' /\ RestartAwake'
BY DEF DrainAwake, RestartAwake

(* A step that leaves the log alone and takes no key and no worker away.   *)
LEMMA CalmStep ==
    ASSUME wl' = wl, queue \subseteq queue',
           \A k \in Keys : job[k] # Idle => job'[k] # Idle
    PROVE  (DrainAwake => DrainAwake') /\ (RestartAwake => RestartAwake')
<1>1. Current' = Current /\ Rollout \in Keys /\ Nodes \subseteq Keys
  BY DEF Current, Keys
<1>2. DrainAwake => DrainAwake'
  BY <1>1 DEF DrainAwake, LostHPAMin
<1>3. RestartAwake => RestartAwake'
  BY <1>1 DEF RestartAwake
<1>4. QED
  BY <1>2, <1>3

(* A step of one key leaves the others awake, and the key itself if it     *)
(* does not show an operation, or stays queued or busy.                    *)
LEMMA KeyStep ==
    ASSUME wl' = wl, NEW k \in Keys, queue \ {k} \subseteq queue',
           \A i \in Keys \ {k} : job'[i] = job[i],
           k \in queue' \/ job'[k] # Idle \/ Len(wl) > 1 \/ MaySleep(k, Current)
    PROVE  (DrainAwake => DrainAwake') /\ (RestartAwake => RestartAwake')
<1>1. Current' = Current /\ Rollout \in Keys /\ Nodes \subseteq Keys /\ Rollout \notin Nodes
  BY ReconcilerAssumption DEF Current, Keys
<1>2. ASSUME DrainAwake PROVE DrainAwake'
  <2> SUFFICES ASSUME NEW n \in Nodes, Current.drainState # "none", Current.drainNode = n,
                      ~LostHPAMin(Current)
               PROVE  n \in queue' \/ job'[n] # Idle \/ Len(wl) > 1
    BY <1>1 DEF DrainAwake, LostHPAMin
  <2>1. n \in queue \/ job[n] # Idle \/ Len(wl) > 1
    BY <1>2 DEF DrainAwake
  <2>2. QED
    BY <1>1, <2>1 DEF MaySleep
<1>3. ASSUME RestartAwake PROVE RestartAwake'
  BY <1>1, <1>3 DEF RestartAwake, MaySleep
<1>4. QED
  BY <1>2, <1>3

(* A handler's verdict on key k: calls, a requeue, or nothing more to do.  *)
Verdict(k) ==
    \/ \E j : Call(k, j) /\ Settled(k, j) /\ j # Idle
    \/ RequeueAfter(k)
    \/ Return(k) /\ MaySleep(k, Cached)

LEMMA VerdictAwake ==
    ASSUME SaneInv, SettledInv, NEW k \in Keys, k \in queue, wl' = wl, Verdict(k)
    PROVE  KeepsAwake
<1>1. job \in [Actors -> Job] /\ Keys \subseteq Actors
  BY DEF SaneInv, Actors
<1>2. CASE \E j : Call(k, j) /\ Settled(k, j) /\ j # Idle
  <2>1. PICK j : Call(k, j) /\ Settled(k, j) /\ j # Idle
    BY <1>2
  <2>2. job'[k] = j /\ \A i \in Keys \ {k} : job'[i] = job[i]
    BY <1>1, <2>1 DEF Call
  <2>3. SettledInv'
    BY <2>1, <2>2 DEF SettledInv, Settled, Shows
  <2>4. QED
    BY <2>1, <2>2, <2>3, KeyStep DEF Call, KeepsAwake
<1>3. CASE RequeueAfter(k)
  BY <1>3, CalmStep DEF RequeueAfter, SettledInv, Settled, Shows, KeepsAwake
<1>4. CASE Return(k) /\ MaySleep(k, Cached)
  <2>1. SettledInv'
    BY <1>4 DEF Return, SettledInv, Settled, Shows
  <2>2. Len(wl) > 1 \/ Cached = Current
    BY UpToDate
  <2>3. queue \ {k} \subseteq queue' /\ job' = job
    BY <1>4 DEF Return
  <2>4. QED
    BY <1>4, <2>1, <2>2, <2>3, KeyStep DEF KeepsAwake
<1>5. QED
  BY <1>2, <1>3, <1>4 DEF Verdict

-----------------------------------------------------------------------------
(* The reconciles.                                                         *)

LEMMA NodeJobs ==
    ASSUME NEW s, NEW v, Sane(s, v), NEW n \in Nodes
    PROVE  /\ \A kind \in {"finish", "abort", "abortNode"} :
                Settled(n, abortJob(kind, v)) /\ abortJob(kind, v) # Idle
           /\ LET j == patchJob("finish", clearDrainAnnotations(v)) IN
                Settled(n, j) /\ j # Idle
<1>1. n # Rollout
  BY ReconcilerAssumption
<1>2. aborted(v) \in Object /\ clearDrainAnnotations(v) \in Object
  BY SaneRestored, SaneCleared DEF Sane
<1>3. ~Shows(n, aborted(v)) /\ ~Shows(n, clearDrainAnnotations(v))
  BY <1>1, EndsShown
<1>4. \A kind \in {"finish", "abort", "abortNode"} :
        Settled(n, abortJob(kind, v)) /\ abortJob(kind, v) # Idle
  BY <1>2, <1>3, EndSettled DEF abortJob
<1>5. LET j == patchJob("finish", clearDrainAnnotations(v)) IN Settled(n, j) /\ j # Idle
  BY <1>2, <1>3, EndSettled DEF patchJob
<1>6. QED
  BY <1>4, <1>5

LEMMA AdvanceJobs ==
    ASSUME NEW k, NEW kind \in {"surge", "advance"}
    PROVE  \A v : Settled(k, patchJob(kind, v)) /\ patchJob(kind, v) # Idle
BY AdvanceSettled DEF patchJob

(* The three ways to leave a handler, one by one.                          *)
LEMMA CallVerdict ==
    ASSUME NEW k, NEW j, Call(k, j), Settled(k, j), j # Idle
    PROVE  Verdict(k)
BY DEF Verdict

LEMMA RequeueVerdict ==
    ASSUME NEW k, RequeueAfter(k)
    PROVE  Verdict(k)
BY DEF Verdict

LEMMA NodeReturn ==
    ASSUME NEW n \in Nodes, Return(n),
           Cached.drainState = "none" \/ Cached.drainNode # n \/ LostHPAMin(Cached)
    PROVE  Verdict(n)
BY ReconcilerAssumption DEF Verdict, MaySleep

LEMMA NodeEnds ==
    ASSUME NEW s, NEW v, Sane(s, v), NEW n \in Nodes
    PROVE  /\ \A kind \in {"finish", "abort", "abortNode"} :
                Call(n, abortJob(kind, v)) => Verdict(n)
           /\ Call(n, patchJob("finish", clearDrainAnnotations(v))) => Verdict(n)
BY NodeJobs, CallVerdict

LEMMA AdvanceVerdict ==
    ASSUME NEW k, NEW kind \in {"surge", "advance"}, NEW v, NEW min,
           \/ Call(k, patchJob(kind, v))
           \/ Call(k, [kind |-> kind, patch |-> v, hpa |-> min])
    PROVE  Verdict(k)
BY AdvanceSettled, CallVerdict DEF patchJob

(* A reconcile of node n lets the node sleep only if it has no operation,  *)
(* or one whose HPA record is lost.                                        *)
LEMMA NodeVerdict ==
    ASSUME SaneInv, NEW n \in Nodes, Reconcile(n)
    PROVE  n \in queue /\ UNCHANGED clusterVars /\ Verdict(n)
<1> DEFINE v == Cached
<1>1. Sane(setup, v)
  BY SaneCached
<1>2. Dequeue(n)
  BY DEF Reconcile, abortWorkloadsForNode, NothingOnNode, DrainTimeout, OtherNodeDrains,
         SkipWorkload, handlePending, handleScaleUp, handleWaitReady, handleWaitEviction,
         handleScaleDown, handleCleanup, UnknownState, InState, Reconciling
<1> SUFFICES Verdict(n)
  BY <1>2 DEF Dequeue
<1>3. CASE abortWorkloadsForNode(n)
  BY <1>1, <1>3, NodeEnds, NodeReturn DEF abortWorkloadsForNode, findWorkloadsWithDrainNode
<1>4. CASE NothingOnNode(n)
  BY <1>4, NodeReturn DEF NothingOnNode, findWorkloadsWithDrainNode
<1>5. CASE DrainTimeout(n)
  BY <1>1, <1>5, NodeEnds DEF DrainTimeout
<1>6. CASE OtherNodeDrains(n)
  BY <1>6, NodeReturn DEF OtherNodeDrains
<1>7. CASE SkipWorkload(n)
  BY <1>7, NodeReturn DEF SkipWorkload
<1>8. CASE handlePending(n)
  BY <1>8, AdvanceVerdict, RequeueVerdict, Zenon DEF handlePending
<1>9. CASE handleScaleUp(n)
  BY <1>1, <1>9, NodeEnds, AdvanceVerdict, Zenon DEF handleScaleUp
<1>10. CASE handleWaitReady(n)
  BY <1>1, <1>10, NodeEnds, AdvanceVerdict, RequeueVerdict, Zenon DEF handleWaitReady
<1>11. CASE handleWaitEviction(n)
  BY <1>1, <1>11, NodeEnds, AdvanceVerdict, RequeueVerdict, NodeReturn, Zenon
     DEF handleWaitEviction
<1>12. CASE handleScaleDown(n)
  BY <1>1, <1>12, NodeEnds, AdvanceVerdict, Zenon DEF handleScaleDown
<1>13. CASE handleCleanup(n) \/ UnknownState(n)
  BY <1>1, <1>13, NodeEnds DEF handleCleanup, UnknownState
<1>14. QED
  BY <1>3, <1>4, <1>5, <1>6, <1>7, <1>8, <1>9, <1>10, <1>11, <1>12, <1>13, Zenon
     DEF Reconcile

-----------------------------------------------------------------------------
(* The same for the reconcile of the Rollout.                              *)

LEMMA RolloutReturn ==
    ASSUME Return(Rollout),
           \/ Cached.restartSurgeState = "none"
           \/ Cached.restartSurgeState = "done" /\ Cached.drainState # "none"
    PROVE  Verdict(Rollout)
BY DEF Verdict, MaySleep

LEMMA RolloutEnd ==
    ASSUME NEW s, NEW v, Sane(s, v)
    PROVE  /\ \A kind \in {"finish", "abort"} :
                Call(Rollout, abortRestartJob(kind, v)) => Verdict(Rollout)
           /\ Call(Rollout, patchJob("finish", yielded(v))) => Verdict(Rollout)
           /\ Call(Rollout, patchJob("finish", clearRestartSurgeAnnotations(v)))
                => Verdict(Rollout)
<1>1. /\ abortedRestart(v) \in Object /\ yielded(v) \in Object
      /\ clearRestartSurgeAnnotations(v) \in Object
  BY SaneRestored, SaneCleared DEF Sane
<1>2. /\ ~Shows(Rollout, abortedRestart(v)) /\ ~Shows(Rollout, yielded(v))
      /\ ~Shows(Rollout, clearRestartSurgeAnnotations(v))
  BY EndsShown
<1>3. ASSUME NEW u \in Object, ~Shows(Rollout, u), NEW kind \in {"finish", "abort"}, NEW min,
             Call(Rollout, [kind |-> kind, patch |-> u, hpa |-> min])
      PROVE  Verdict(Rollout)
  BY <1>3, EndSettled, CallVerdict
<1>4. QED
  BY <1>1, <1>2, <1>3, Zenon DEF abortRestartJob, patchJob

(* A reconcile of the Rollout lets it sleep only if it has no restart      *)
(* surge, or one that is done and waits for a drain.                       *)
LEMMA RolloutVerdict ==
    ASSUME SaneInv, ReconcileRollout
    PROVE  Rollout \in queue /\ UNCHANGED clusterVars /\ Verdict(Rollout)
<1> DEFINE v == Cached
<1>1. Sane(setup, v)
  BY SaneCached
<1>2. DequeueRollout
  BY DEF ReconcileRollout, RestartTimeout, yieldToDrain, handleRestartPending,
         handleRestartScaleUp, handleRestartWaitReady, handleRestartWaitForArgo,
         handleRestartScaleDown, handleRestartCleanup, UnknownRestartState, InRestartState
<1> SUFFICES Verdict(Rollout)
  BY <1>2 DEF DequeueRollout
<1>3. CASE RestartTimeout \/ UnknownRestartState
  BY <1>1, <1>3, RolloutEnd DEF RestartTimeout, UnknownRestartState
<1>4. CASE yieldToDrain
  BY <1>1, <1>4, RolloutEnd, RolloutReturn DEF yieldToDrain, isRestartActive
<1>5. CASE handleRestartPending
  BY <1>5, AdvanceVerdict, RequeueVerdict, RolloutReturn, Zenon
     DEF handleRestartPending, InRestartState
<1>6. CASE handleRestartScaleUp
  BY <1>1, <1>6, RolloutEnd, AdvanceVerdict, RequeueVerdict, Zenon DEF handleRestartScaleUp
<1>7. CASE handleRestartWaitReady
  BY <1>1, <1>7, RolloutEnd, AdvanceVerdict, RequeueVerdict, Zenon DEF handleRestartWaitReady
<1>8. CASE handleRestartWaitForArgo
  BY <1>1, <1>8, RolloutEnd, AdvanceVerdict, RequeueVerdict, Zenon
     DEF handleRestartWaitForArgo
<1>9. CASE handleRestartScaleDown
  BY <1>1, <1>9, RolloutEnd, AdvanceVerdict, Zenon DEF handleRestartScaleDown
<1>10. CASE handleRestartCleanup
  BY <1>1, <1>10, RolloutEnd DEF handleRestartCleanup
<1>11. QED
  BY <1>3, <1>4, <1>5, <1>6, <1>7, <1>8, <1>9, <1>10, Zenon DEF ReconcileRollout

-----------------------------------------------------------------------------
(* The API calls.                                                          *)

(* A step beside the workers, which may write the workload.                *)
LEMMA WorkersStep ==
    ASSUME SettledInv, wl' = wl \/ Len(wl') > 1, queue \subseteq queue',
           \A k \in Keys : job'[k] = job[k]
    PROVE  KeepsAwake
<1>1. SettledInv'
  BY DEF SettledInv, Settled, Shows
<1>2. CASE wl' = wl
  BY <1>1, <1>2, CalmStep DEF KeepsAwake
<1>3. CASE Len(wl') > 1
  BY <1>1, <1>3, EventWakes DEF KeepsAwake
<1>4. QED
  BY <1>2, <1>3

(* What remains of a settled job is settled.                               *)
LEMMA RestSettled ==
    ASSUME NEW k, NEW j \in Job, Settled(k, j)
    PROVE  /\ j.kind = "surge" \/ j.hpa = Nil => Settled(k, [j EXCEPT !.patch = Nil])
           /\ Settled(k, [j EXCEPT !.hpa = Nil])
BY DEF Settled, Job

LEMMA AfterCallSettled ==
    ASSUME SaneInv, SettledInv, NEW k \in Keys, NEW j, Settled(k, j),
           AfterCall(k, j) \/ \E requeue \in BOOLEAN : EndJob(k, requeue)
    PROVE  SettledInv' /\ (\A i \in Keys \ {k} : job'[i] = job[i]) /\ queue \subseteq queue'
<1>1. PICK i : Settled(k, i) /\ job' = [job EXCEPT ![k] = i]
  BY IdleSettled DEF AfterCall, EndJob
<1>2. job'[k] = i /\ \A m \in Keys \ {k} : job'[m] = job[m]
  BY <1>1 DEF SaneInv, Actors
<1>3. SettledInv'
  BY <1>1, <1>2 DEF SettledInv, Settled, Shows
<1>4. queue \subseteq queue'
  BY DEF AfterCall, EndJob
<1>5. QED
  BY <1>2, <1>3, <1>4

(* A worker whose call is over asks for a requeue, has more calls to make, *)
(* or may sleep.                                                           *)
LEMMA AfterCallAwake ==
    ASSUME SaneInv, SettledInv, NEW k \in Keys, NEW j, Settled(k, j), AfterCall(k, j),
           \/ Len(wl') > 1
           \/ wl' = wl /\ (\/ j.kind \in {"surge", "advance"}
                           \/ j.patch # Nil \/ j.hpa # Nil
                           \/ MaySleep(k, Current))
    PROVE  KeepsAwake
<1>1. SettledInv' /\ (\A i \in Keys \ {k} : job'[i] = job[i]) /\ queue \subseteq queue'
  BY AfterCallSettled
<1>2. CASE Len(wl') > 1
  BY <1>1, <1>2, EventWakes DEF KeepsAwake
<1>3. CASE /\ wl' = wl
           /\ \/ j.kind \in {"surge", "advance"} \/ j.patch # Nil \/ j.hpa # Nil
              \/ MaySleep(k, Current)
  <2>1. k \in queue' \/ job'[k] # Idle \/ MaySleep(k, Current)
    <3>1. CASE j.patch = Nil /\ j.hpa = Nil
      BY <1>3, <3>1 DEF AfterCall, EndJob
    <3>2. CASE j.patch # Nil \/ j.hpa # Nil
      <4>1. job'[k] = j
        BY <3>2 DEF AfterCall, SaneInv, Actors
      <4>2. QED
        BY <3>2, <4>1, NotIdle
    <3>3. QED
      BY <3>1, <3>2
  <2>2. QED
    BY <1>1, <1>3, <2>1, KeyStep DEF KeepsAwake
<1>4. QED
  BY <1>2, <1>3

(* A merge patch leaves the states of its copy behind.                     *)
LEMMA PatchShows ==
    ASSUME NEW current, NEW v \in Object
    PROVE  /\ Patch(current, v).drainState = v.drainState
           /\ Patch(current, v).restartSurgeState = v.restartSurgeState
BY DEF Patch, Object

LEMMA PatchWorkloadAwake ==
    ASSUME SaneInv, SettledInv, NEW k \in Keys, PatchWorkload(k)
    PROVE  KeepsAwake
<1> DEFINE j == job[k]
           rest == [j EXCEPT !.patch = Nil]
<1>1. j \in Job /\ Settled(k, j) /\ j.patch # Nil /\ (j.kind = "surge" \/ j.hpa = Nil)
  BY DEF SaneInv, SettledInv, Actors, PatchWorkload, PatchesWorkloadNext
<1>2. j.patch \in Object /\ rest.kind = j.kind /\ rest.hpa = j.hpa
  BY <1>1 DEF Job
<1>3. Settled(k, rest) /\ AfterCall(k, rest)
  BY <1>1, RestSettled, Zenon DEF PatchWorkload
<1>4. (wl' = wl /\ Patch(Current, j.patch) = Current) \/ Len(wl') > 1
  BY WriteMakesEvent DEF PatchWorkload
<1> HIDE DEF j, rest
<1>5. CASE Len(wl') > 1
  BY <1>3, <1>5, AfterCallAwake
<1>6. CASE wl' = wl /\ Patch(Current, j.patch) = Current
  <2>1. Shows(k, Current) <=> Shows(k, j.patch)
    BY <1>2, <1>6, PatchShows DEF Shows
  <2>2. j.kind \in {"surge", "advance"} \/ ~Shows(k, Current)
    BY <1>1, <2>1 DEF Settled
  <2>3. ~Shows(k, Current) => MaySleep(k, Current)
    BY DEF Shows, MaySleep
  <2>4. QED
    BY <1>2, <1>3, <1>6, <2>2, <2>3, AfterCallAwake
<1>7. QED
  BY <1>4, <1>5, <1>6

LEMMA PatchHPAAwake ==
    ASSUME SaneInv, SettledInv, NEW k \in Keys, PatchesHPANext(k), wl' = wl,
           AfterCall(k, [job[k] EXCEPT !.hpa = Nil])
    PROVE  KeepsAwake
<1> DEFINE j == job[k]
           rest == [j EXCEPT !.hpa = Nil]
<1>1. j \in Job /\ Settled(k, j) /\ j.hpa # Nil
  BY DEF SaneInv, SettledInv, Actors, PatchesHPANext
<1>2. Settled(k, rest) /\ rest.kind = j.kind /\ rest.patch = j.patch
  BY <1>1, RestSettled, Zenon DEF Job
<1>3. rest.kind \in {"surge", "advance"} \/ rest.patch # Nil
  BY <1>1, <1>2 DEF Settled
<1> HIDE DEF j, rest
<1>4. AfterCall(k, rest)
  BY DEF j, rest
<1>5. QED
  BY <1>2, <1>3, <1>4, AfterCallAwake

(* An orphan scan's calls are no worker's.                                 *)
LEMMA OrphansCall ==
    ASSUME SaneInv, SettledInv, APICall(Orphans) \/ APICallFails(Orphans)
    PROVE  KeepsAwake
<1>1. Orphans \notin Keys
  BY ReconcilerAssumption DEF Keys
<1>2. (\E j : job' = [job EXCEPT ![Orphans] = j]) /\ queue \subseteq queue'
  BY Zenon DEF APICall, APICallFails, PatchWorkload, PatchHPAMinReplicas, PatchWorkloadFails,
         PatchHPAFails, AfterCall, EndJob
<1>3. \A k \in Keys : job'[k] = job[k]
  BY <1>1, <1>2 DEF SaneInv, Actors
<1>4. wl' = wl \/ \E v : WriteWorkload(v)
  BY Zenon DEF APICall, APICallFails, PatchWorkload, PatchHPAMinReplicas, PatchWorkloadFails,
         PatchHPAFails
<1>5. wl' = wl \/ Len(wl') > 1
  BY <1>4, WriteMakesEvent
<1>6. QED
  BY <1>2, <1>3, <1>5, WorkersStep

(* A call that succeeds puts nobody to sleep.                              *)
LEMMA CallAwake ==
    ASSUME SaneInv, SettledInv, NEW a \in Actors, APICall(a)
    PROVE  KeepsAwake
<1>1. CASE a \in Keys
  BY <1>1, PatchWorkloadAwake, PatchHPAAwake DEF APICall, PatchHPAMinReplicas
<1>2. CASE a = Orphans
  BY <1>2, OrphansCall
<1>3. QED
  BY <1>1, <1>2 DEF Actors

(* Nor does one that fails, except the node it was made for.               *)
LEMMA FailedCallAwake ==
    ASSUME SaneInv, SettledInv, NEW a \in Actors, APICallFails(a)
    PROVE  "apiError" \in FaultKinds /\ SettledInv' /\ (RestartAwake => RestartAwake')
<1>1. "apiError" \in FaultKinds
  BY DEF APICallFails, PatchWorkloadFails, PatchHPAFails, Fault
<1>2. CASE a = Orphans
  BY <1>1, <1>2, OrphansCall DEF KeepsAwake
<1>3. CASE a \in Keys /\ PatchHPAFails(a) /\ job[a].kind \in {"abort", "abortNode"}
  BY <1>1, <1>3, PatchHPAAwake DEF PatchHPAFails, KeepsAwake
<1>4. ASSUME a \in Keys, wl' = wl \/ Len(wl') > 1, NEW requeue \in BOOLEAN,
             a = Rollout => requeue, EndJob(a, requeue)
      PROVE  SettledInv' /\ (RestartAwake => RestartAwake')
  <2>1. SettledInv' /\ (\A i \in Keys \ {a} : job'[i] = job[i]) /\ queue \subseteq queue'
    BY <1>4, IdleSettled, AfterCallSettled, Zenon
  <2>2. CASE Len(wl') > 1
    BY <2>1, <2>2, EventWakes
  <2>3. CASE wl' = wl
    <3>1. Rollout \in queue' \/ job'[Rollout] = job[Rollout]
      BY <1>4, <2>1 DEF EndJob, Keys
    <3>2. RestartAwake => RestartAwake'
      BY <2>1, <2>3, <3>1 DEF RestartAwake, Current
    <3>3. QED
      BY <2>1, <3>2
  <2>4. QED
    BY <1>4, <2>2, <2>3
<1>5. CASE a \in Keys /\ PatchWorkloadFails(a)
  <2>1. wl' = wl \/ Len(wl') > 1
    BY <1>5, WriteMakesEvent DEF PatchWorkloadFails
  <2>2. QED
    BY <1>1, <1>4, <1>5, <2>1, Zenon DEF PatchWorkloadFails
<1>6. CASE a \in Keys /\ PatchHPAFails(a) /\ job[a].kind \notin {"abort", "abortNode"}
  BY <1>1, <1>4, <1>6, Zenon DEF PatchHPAFails
<1>7. QED
  BY <1>2, <1>3, <1>5, <1>6 DEF Actors, APICallFails

-----------------------------------------------------------------------------
(* The watches, a new leader and the clock.                                *)

(* The last version that is delivered wakes whom it concerns.              *)
LEMMA DeliveryWakes ==
    ASSUME SaneInv, DeliverWorkload
    PROVE  /\ UpdatedNodes \subseteq queue' => DrainAwake'
           /\ rolloutRelevantPredicate(wl[2]) \subseteq queue' => RestartAwake'
<1>1. wl \in Seq(Object) /\ Len(wl) > 1 /\ wl' = Tail(wl)
  BY DEF SaneInv, SaneLog, DeliverWorkload
<1>2. CASE Len(wl') > 1
  BY <1>2, EventWakes
<1>3. CASE ~(Len(wl') > 1)
  <2>1. Current' = wl[2]
    <3>1. Len(wl) \in Nat /\ Len(wl') = Len(wl) - 1 /\ \A i \in 1 .. Len(wl) - 1 : wl'[i] = wl[i + 1]
      BY <1>1
    <3>2. \A m \in Nat : m > 1 /\ ~(m - 1 > 1) => m = 2
      OBVIOUS
    <3>3. Len(wl) = 2
      BY <1>1, <1>3, <3>1, <3>2, Zenon
    <3>4. Len(wl') = 1 /\ wl'[1] = wl[2]
      BY <3>1, <3>3
    <3>5. QED
      BY <3>4 DEF Current
  <2>2. UpdatedNodes \subseteq queue' => DrainAwake'
    BY <2>1, NilAssumption DEF UpdatedNodes, mapWorkloadToNode, DrainAwake
  <2>3. rolloutRelevantPredicate(wl[2]) \subseteq queue' => RestartAwake'
    BY <2>1 DEF rolloutRelevantPredicate, relevant, RestartAwake
  <2>4. QED
    BY <2>2, <2>3
<1>4. QED
  BY <1>2, <1>3

(* The new leader's lists hold whoever has an operation.                   *)
LEMMA ElectionWakes ==
    ASSUME SaneInv, NEW keys, RestartWith(keys)
    PROVE  /\ SettledInv'
           /\ mapWorkloadToNode(Current) \subseteq keys => DrainAwake'
           /\ rolloutRelevantPredicate(Current) \subseteq keys => RestartAwake'
<1>1. Current' = Current /\ queue' = keys
  BY DEF RestartWith, Current
<1>2. \A k \in Keys : job'[k] = Idle
  BY DEF RestartWith, Actors
<1>3. SettledInv'
  BY <1>2, IdleSettled DEF SettledInv, Settled, Shows
<1>4. mapWorkloadToNode(Current) \subseteq keys => DrainAwake'
  BY <1>1, NilAssumption DEF mapWorkloadToNode, DrainAwake
<1>5. rolloutRelevantPredicate(Current) \subseteq keys => RestartAwake'
  BY <1>1 DEF rolloutRelevantPredicate, relevant, RestartAwake
<1>6. QED
  BY <1>3, <1>4, <1>5

(* A clock tick ages what is written and what is about to be.              *)
LEMMA OlderShows ==
    ASSUME NEW v \in Object
    PROVE  /\ Older(v).drainState = v.drainState /\ Older(v).drainNode = v.drainNode
           /\ Older(v).restartSurgeState = v.restartSurgeState
           /\ LostHPAMin(Older(v)) <=> LostHPAMin(v)
BY DEF Older, Object, LostHPAMin

LEMMA OlderSettled ==
    ASSUME NEW s, NEW k, NEW j, SaneJob(s, j), Settled(k, j)
    PROVE  Settled(k, OlderJob(j)) /\ (j # Idle => OlderJob(j) # Idle)
<1>1. CASE j.patch = Nil
  BY <1>1 DEF OlderJob
<1>2. CASE j.patch # Nil
  <2> DEFINE o == OlderJob(j)
  <2>1. j \in Job /\ Sane(s, j.patch) /\ j.patch \in Object
    BY <1>2 DEF SaneJob, Sane
  <2>2. Older(j.patch) \in Object
    BY <2>1, SaneOlder DEF Sane
  <2>3. Older(j.patch) # Nil
    BY <2>2, AbsentAssumption
  <2>4. o.kind = j.kind /\ o.hpa = j.hpa /\ o.patch = Older(j.patch)
    BY <1>2, <2>1 DEF OlderJob, Job
  <2> HIDE DEF o
  <2>5. Shows(k, Older(j.patch)) <=> Shows(k, j.patch)
    BY <2>1, OlderShows DEF Shows
  <2>6. Settled(k, o)
    BY <1>2, <2>3, <2>4, <2>5 DEF Settled
  <2>7. o # Idle
    BY <2>3, <2>4, NotIdle
  <2>8. QED
    BY <2>6, <2>7 DEF o
<1>3. QED
  BY <1>1, <1>2

LEMMA TickAwake ==
    ASSUME SaneInv, SettledInv, Tick
    PROVE  KeepsAwake
<1>1. wl \in Seq(Object) /\ wl # <<>> /\ Len(wl) \in Nat
  BY DEF SaneInv, SaneLog
<1>2. Len(wl) \in 1 .. Len(wl) /\ DOMAIN wl = 1 .. Len(wl)
  BY <1>1
<1>3. wl' = [i \in 1 .. Len(wl) |-> Older(wl[i])]
  BY <1>2 DEF Tick
<1>4. Len(wl') = Len(wl)
  BY <1>1, <1>3
<1>5. Current \in Object /\ Current' = Older(Current)
  BY <1>1, <1>2, <1>3, <1>4 DEF Current
<1>6. \A k \in Keys : job'[k] = OlderJob(job[k]) /\ SaneJob(setup, job[k]) /\ Settled(k, job[k])
  BY DEF Tick, Actors, SaneInv, SettledInv
<1>7. \A k \in Keys : Settled(k, job'[k]) /\ (job[k] # Idle => job'[k] # Idle)
  BY <1>6, OlderSettled
<1>8. SettledInv'
  BY <1>7 DEF SettledInv, Settled, Shows
<1>9. queue' = queue /\ Nodes \subseteq Keys /\ Rollout \in Keys
  BY DEF Tick, Keys
<1>10. /\ Current'.drainState = Current.drainState /\ Current'.drainNode = Current.drainNode
       /\ Current'.restartSurgeState = Current.restartSurgeState
       /\ LostHPAMin(Current)' <=> LostHPAMin(Current)
  BY <1>5, OlderShows DEF LostHPAMin
<1>11. DrainAwake => DrainAwake'
  BY <1>4, <1>7, <1>9, <1>10 DEF DrainAwake
<1>12. RestartAwake => RestartAwake'
  BY <1>4, <1>7, <1>9, <1>10 DEF RestartAwake
<1>13. QED
  BY <1>8, <1>11, <1>12 DEF KeepsAwake

-----------------------------------------------------------------------------
(* All steps.                                                              *)

(* Writers of the workload that are no workers of the controller.          *)
LEMMA WriterAwake ==
    ASSUME SaneInv, SettledInv, UNCHANGED <<queue, job>>,
           OtherWriter \/ EditAnnotations \/ EditRestartAnnotations \/ Argo
    PROVE  KeepsAwake
<1>1. wl' = wl \/ \E v : WriteWorkload(v)
  BY Zenon DEF OtherWriter, HPAScale, HPALoad, ResetReplicas, RolloutStarts, RolloutEnds, OptOut,
         EditAnnotations, EditRestartAnnotations, Argo, RequestRestart, ClearRestart,
         GraceEnds, ArgoRestarts, ArgoFinishes, clusterVars
<1>2. wl' = wl \/ Len(wl') > 1
  BY <1>1, WriteMakesEvent
<1>3. QED
  BY <1>2, WorkersStep

(* Events of nodes and pods only add keys.                                 *)
LEMMA EventAwake ==
    ASSUME SettledInv, NEW keys, Enqueue(keys), wl' = wl
    PROVE  KeepsAwake
BY WorkersStep DEF Enqueue

LEMMA NodesAndPodsCalm ==
    ASSUME NEW n, \/ Taint(n) \/ Untaint(n) \/ DeleteNode(n) \/ UNCHANGED clusterVars
                  \/ PodChange(n) \/ ArgoEvict(n)
    PROVE  wl' = wl
BY Zenon DEF Taint, Untaint, DeleteNode, clusterVars, PodChange, CreatePod, PodReady, PodNotReady,
       DeleteSurplus, Evict, ArgoEvict, DeletePod

LEMMA OrphansAwake ==
    ASSUME SaneInv, SettledInv, RecoverOrphans \/ RecoverRestartOrphans
    PROVE  KeepsAwake
<1>1. Orphans \notin Keys
  BY ReconcilerAssumption DEF Keys
<1>2. wl' = wl /\ queue' = queue /\ \E j : job' = job \/ job' = [job EXCEPT ![Orphans] = j]
  BY Zenon DEF RecoverOrphans, ListNodes, AbortOrphans, RecoverRestartOrphans, clusterVars
<1>3. \A k \in Keys : job'[k] = job[k]
  BY <1>1, <1>2 DEF SaneInv, Actors
<1>4. QED
  BY <1>2, <1>3, WorkersStep

(* What every step preserves: settled jobs, restart surges awake, and      *)
(* drains awake as long as no API call fails.                              *)
LEMMA DrainStepAwake ==
    ASSUME SaneInv, SettledInv, DrainStep
    PROVE  /\ SettledInv'
           /\ "apiError" \notin FaultKinds /\ DrainAwake => DrainAwake'
           /\ RestartAwake => RestartAwake'
<1>1. ASSUME NEW n \in Nodes, Reconcile(n)
      PROVE  KeepsAwake
  BY <1>1, NodeVerdict, VerdictAwake DEF Keys, clusterVars
<1>2. ASSUME NEW n \in Nodes, NodeEvent(n) \/ Heartbeat(n)
      PROVE  KeepsAwake
  BY <1>2, NodesAndPodsCalm, EventAwake, Zenon DEF NodeEvent, Heartbeat
<1>3. ASSUME NEW a \in Actors, APICall(a)
      PROVE  KeepsAwake
  BY <1>3, CallAwake
<1>4. ASSUME NEW a \in Actors, APICallFails(a)
      PROVE  "apiError" \in FaultKinds /\ SettledInv' /\ (RestartAwake => RestartAwake')
  BY <1>4, FailedCallAwake
<1>5. CASE RecoverOrphans
  BY <1>5, OrphansAwake DEF KeepsAwake
<1>6. CASE Unwatched
  <2>1. UNCHANGED <<queue, job>>
    BY <1>6 DEF Unwatched, reconcilerVars
  <2>2. CASE DeliverHPA
    BY <2>1, <2>2, WorkersStep DEF DeliverHPA, KeepsAwake
  <2>3. CASE OtherWriter
    BY <2>1, <2>3, WriterAwake DEF KeepsAwake
  <2>4. QED
    BY <1>6, <2>2, <2>3 DEF Unwatched
<1>7. CASE Tick
  BY <1>7, TickAwake DEF KeepsAwake
<1>8. QED
  BY <1>1, <1>2, <1>3, <1>4, <1>5, <1>6, <1>7, Zenon DEF DrainStep, KeepsAwake

LEMMA DrainNextAwake ==
    ASSUME SaneInv, SettledInv, [EditedNext]_vars
    PROVE  SettledInv' /\ ("apiError" \notin FaultKinds /\ DrainAwake => DrainAwake')
<1>1. CASE DrainStep
  BY <1>1, DrainStepAwake
<1>2. ASSUME NEW n \in Nodes, PodEvent(n)
      PROVE  KeepsAwake
  BY <1>2, NodesAndPodsCalm, EventAwake, Zenon DEF PodEvent
<1>3. CASE WorkloadEvent
  <2>1. SettledInv' /\ UpdatedNodes \subseteq queue'
    BY <1>3 DEF WorkloadEvent, Enqueue, SettledInv, Settled, Shows
  <2>2. QED
    BY <1>3, <2>1, DeliveryWakes DEF WorkloadEvent
<1>4. CASE Failover
  BY <1>4, ElectionWakes DEF Failover, ListedNodes
<1>5. CASE EditAnnotations
  BY <1>5, WriterAwake DEF EditAnnotations, reconcilerVars, KeepsAwake
<1>6. CASE UNCHANGED vars
  BY <1>6, WorkersStep DEF vars, clusterVars, reconcilerVars, KeepsAwake
<1>7. QED
  BY <1>1, <1>2, <1>3, <1>4, <1>5, <1>6, Zenon DEF EditedNext, Next, KeepsAwake

LEMMA RolloutNextAwake ==
    ASSUME SaneInv, SettledInv, [EditedRestartNext]_rolloutVars
    PROVE  /\ SettledInv'
           /\ "apiError" \notin FaultKinds /\ DrainAwake => DrainAwake'
           /\ RestartAwake => RestartAwake'
<1>1. CASE DrainStep
  BY <1>1, DrainStepAwake
<1>2. CASE ReconcileRollout
  BY <1>2, RolloutVerdict, VerdictAwake DEF Keys, clusterVars, KeepsAwake
<1>3. CASE RecoverRestartOrphans
  BY <1>3, OrphansAwake DEF KeepsAwake
<1>4. CASE RolloutEvent
  <2>1. /\ SettledInv' /\ UpdatedNodes \subseteq queue'
        /\ rolloutRelevantPredicate(wl[2]) \subseteq queue'
    BY <1>4 DEF RolloutEvent, Enqueue, SettledInv, Settled, Shows
  <2>2. QED
    BY <1>4, <2>1, DeliveryWakes DEF RolloutEvent
<1>5. CASE RolloutFailover
  BY <1>5, ElectionWakes DEF RolloutFailover, ListedNodes
<1>6. CASE Argo
  BY <1>6, WriterAwake DEF Argo, reconcilerVars, KeepsAwake
<1>7. ASSUME NEW n \in Nodes, RolloutPodEvent(n)
      PROVE  KeepsAwake
  BY <1>7, NodesAndPodsCalm, EventAwake, Zenon DEF RolloutPodEvent
<1>8. CASE EditRestartAnnotations
  BY <1>8, WriterAwake DEF EditRestartAnnotations, reconcilerVars, KeepsAwake
<1>9. CASE UNCHANGED rolloutVars
  BY <1>9, WorkersStep DEF rolloutVars, vars, clusterVars, reconcilerVars, KeepsAwake
<1>10. QED
  BY <1>1, <1>2, <1>3, <1>4, <1>5, <1>6, <1>7, <1>8, <1>9, Zenon
     DEF EditedRestartNext, RolloutNext, KeepsAwake

(* Behaviours start without an operation.                                  *)
LEMMA AwakeInit ==
    ASSUME NEW keys, StartWith(keys)
    PROVE  SettledInv /\ DrainAwake /\ RestartAwake
<1>1. Current.drainState = "none" /\ Current.restartSurgeState = "none"
  BY DEF StartWith, ClusterInit, Current
<1>2. \A k \in Keys : job[k] = Idle
  BY DEF StartWith, Actors
<1>3. SettledInv
  BY <1>2, IdleSettled DEF SettledInv
<1>4. QED
  BY <1>1, <1>3 DEF DrainAwake, RestartAwake

-----------------------------------------------------------------------------
(* The theorems.                                                           *)

(* The inductive invariants.                                               *)
DrainAwakeInv == SaneInv /\ SettledInv /\ ("apiError" \notin FaultKinds => DrainAwake)

RolloutAwakeInv == SaneRolloutInv /\ DrainAwakeInv /\ RestartAwake

LEMMA DrainAlwaysAwake == Init /\ [][EditedNext]_vars => []DrainAwakeInv
<1>1. Init => DrainAwakeInv
  BY SaneInit, AwakeInit DEF Init, DrainAwakeInv
<1>2. DrainAwakeInv /\ [EditedNext]_vars => DrainAwakeInv'
  BY SaneNext, DrainNextAwake DEF DrainAwakeInv
<1>3. QED
  BY <1>1, <1>2, PTL

LEMMA RolloutAlwaysAwake == EditedRestartSpec => []RolloutAwakeInv
<1>1. RolloutInit => RolloutAwakeInv
  BY SaneInit, AwakeInit DEF RolloutInit, ArgoInit, RolloutAwakeInv, DrainAwakeInv,
                             SaneRolloutInv
<1>2. RolloutAwakeInv /\ [EditedRestartNext]_rolloutVars => RolloutAwakeInv'
  BY SaneRolloutNext, RolloutNextAwake DEF RolloutAwakeInv, DrainAwakeInv, SaneRolloutInv
<1>3. QED
  BY <1>1, <1>2, PTL DEF EditedRestartSpec

(* As long as no API call fails no drain is left asleep, whatever is done  *)
(* to its annotations: every return of a handler and every end of its      *)
(* calls leaves the node queued, an event on its way, or the operation     *)
(* over, also across failovers and with stale caches                       *)
(* (NodeReconciler.Reconcile and mapWorkloadToNode).                       *)
THEOREM DrainStaysAwake ==
    ASSUME "apiError" \notin FaultKinds
    PROVE  EditedSpec => []DrainAwake
<1>1. EditedSpec => Init /\ [][EditedNext]_vars
  BY PTL DEF EditedSpec
<1>2. DrainAwakeInv => DrainAwake
  BY DEF DrainAwakeInv
<1>3. QED
  BY <1>1, <1>2, DrainAlwaysAwake, PTL

(* The same beside the restart reconciler, which writes the same object    *)
(* and whose own annotations are edited.                                   *)
THEOREM DrainStaysAwakeOnRollout ==
    ASSUME "apiError" \notin FaultKinds
    PROVE  EditedRestartSpec => []DrainAwake
<1>1. RolloutAwakeInv => DrainAwake
  BY DEF RolloutAwakeInv, DrainAwakeInv
<1>2. QED
  BY <1>1, RolloutAlwaysAwake, PTL

(* A restart surge is never left asleep, also when any API call may fail   *)
(* and whatever is done to its annotations (RolloutReconciler.Reconcile,   *)
(* which returns every error, and rolloutRelevantPredicate).               *)
THEOREM RestartStaysAwake == EditedRestartSpec => []RestartAwake
<1>1. RolloutAwakeInv => RestartAwake
  BY DEF RolloutAwakeInv
<1>2. QED
  BY <1>1, RolloutAlwaysAwake, PTL
=============================================================================
