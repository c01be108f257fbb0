------------------------ MODULE NodeReconcilerProofs ------------------------
(***************************************************************************)
(* The safety of drain-surge for any set of nodes, pods and setups, any    *)
(* cache lag, any number of workers and any faults: the record of an       *)
(* operation is whole and right, and no surge outlives it.                 *)
(***************************************************************************)
EXTENDS NodeReconciler, TLAPS

(* A version of the workload that may exist under setup s.                 *)
Good(s, v) ==
    /\ v \in Object
    /\ v.drainState \in {"none", "scaled-up", "ready", "draining", "done"}
    /\ v.drainState = "none" =>
         /\ v.originalReplicas = Nil /\ v.drainNode = Nil /\ v.drainStart = Nil
         /\ v.hpaName = "none" /\ v.hpaOriginalMin = Nil
    /\ v.drainState # "none" =>
         /\ s.minAvailable # 0 /\ s.strategy # "Recreate" /\ s.hpaMax # 1
         /\ v.originalReplicas = 1 /\ v.drainNode \in Nodes /\ v.drainStart \in Age
         /\ \/ s.hpaMax = 0 /\ v.hpaName = "none" /\ v.hpaOriginalMin = Nil
            \/ /\ s.hpaMax # 0 /\ v.hpaName = "hpa"
               /\ v.hpaOriginalMin = HPAMinReplicasOrDefault(s.hpaMin)
    /\ s.hpaMax = 0 =>
         \/ GetReplicas(v) = 1
         \/ GetReplicas(v) = 2 /\ v.drainState \in {"scaled-up", "ready"}

(* A minReplicas the HPA may have under setup s.                           *)
GoodMin(s, min) == min \in {s.hpaMin, HPAMinReplicasOrDefault(s.hpaMin), 2}

GoodLog(s, w) ==
    /\ w \in Seq(Object) /\ w # <<>>
    /\ \A i \in 1 .. Len(w) : Good(s, w[i])

GoodMins(s, h) ==
    /\ h \in Seq(Nat \cup {Nil}) /\ h # <<>>
    /\ \A i \in 1 .. Len(h) : GoodMin(s, h[i])

GoodJob(s, j) ==
    /\ j \in Job
    /\ j.patch # Nil => Good(s, j.patch)
    /\ j.hpa \in {Nil, HPAMinReplicasOrDefault(s.hpaMin), 2}

(* The inductive invariant: every copy of the workload, in the log or on   *)
(* its way to the server, is good, and so is every minReplicas.            *)
Inv ==
    /\ node \in [Nodes -> {"ready", "tainted", "gone"}]
    /\ podNode \in [Pods -> Nodes \cup {Nil}]
    /\ ready \subseteq Pods
    /\ setup \in Setups
    /\ faults \in 0 .. MaxFaults
    /\ queue \subseteq Keys
    /\ recovery \in [phase : RecoveryPhase, tainted : SUBSET Nodes]
    /\ GoodLog(setup, wl)
    /\ GoodMins(setup, hpa)
    /\ job \in [Actors -> Job]
    /\ \A a \in Actors : GoodJob(setup, job[a])

-----------------------------------------------------------------------------
(* An absent annotation is not a number, and no HPA is not an HPA without  *)
(* room.                                                                   *)

LEMMA ZeroIsNotOne == 0 # 1
OBVIOUS

LEMMA OneIsNotNil == 1 # Nil
BY NilAssumption

LEMMA TwoIsNotNil == 2 # Nil
BY NilAssumption

-----------------------------------------------------------------------------
(* Logs of versions.                                                       *)

(* What WriteWorkload appends is good if the written version is.           *)
LEMMA LogAppend ==
    ASSUME NEW s, NEW w, NEW v, GoodLog(s, w), Good(s, v)
    PROVE  GoodLog(s, Append(w, v))
<1>1. v \in Object
  BY DEF Good
<1>2. QED
  BY <1>1 DEF GoodLog

(* What the watch has not delivered yet is good.                           *)
LEMMA LogTail ==
    ASSUME NEW s, NEW w, GoodLog(s, w), Len(w) > 1
    PROVE  GoodLog(s, Tail(w))
<1>1. w \in Seq(Object) /\ Len(w) \in Nat
  BY DEF GoodLog
<1>2. /\ Tail(w) \in Seq(Object) /\ Len(Tail(w)) = Len(w) - 1
      /\ \A i \in 1 .. Len(w) - 1 : Tail(w)[i] = w[i + 1]
  BY <1>1
<1>3. Tail(w) # <<>>
  <2>1. Len(Tail(w)) # 0
    BY <1>1, <1>2
  <2>2. Len(<<>>) = 0
    OBVIOUS
  <2>3. QED
    BY <2>1, <2>2, Zenon
<1>4. ASSUME NEW i \in 1 .. Len(w) - 1
      PROVE  Good(s, Tail(w)[i])
  <2>1. i + 1 \in 1 .. Len(w)
    BY <1>1
  <2>2. Good(s, w[i + 1])
    BY <2>1 DEF GoodLog
  <2>3. QED
    BY <1>2, <2>2
<1>5. QED
  BY <1>2, <1>3, <1>4 DEF GoodLog

(* The cached version and the current one are good.                        *)
LEMMA LogEnds ==
    ASSUME NEW s, NEW w, GoodLog(s, w)
    PROVE  Good(s, Head(w)) /\ Good(s, w[Len(w)]) /\ GoodLog(s, <<w[Len(w)]>>)
<1>1. Len(w) \in 1 .. Len(w) /\ 1 \in 1 .. Len(w) /\ Head(w) = w[1]
  BY DEF GoodLog
<1>2. Good(s, Head(w)) /\ Good(s, w[Len(w)])
  BY <1>1 DEF GoodLog
<1>3. w[Len(w)] \in Object
  BY <1>2 DEF Good
<1>4. GoodLog(s, <<w[Len(w)]>>)
  BY <1>2, <1>3 DEF GoodLog
<1>5. QED
  BY <1>2, <1>4

(* The same three facts about the versions of minReplicas.                 *)
LEMMA MinsAppend ==
    ASSUME NEW s, NEW h, NEW min \in Nat \cup {Nil}, GoodMins(s, h), GoodMin(s, min)
    PROVE  GoodMins(s, Append(h, min))
BY DEF GoodMins

LEMMA MinsTail ==
    ASSUME NEW s, NEW h, GoodMins(s, h), Len(h) > 1
    PROVE  GoodMins(s, Tail(h))
BY DEF GoodMins

LEMMA MinsEnds ==
    ASSUME NEW s, NEW h, GoodMins(s, h)
    PROVE  /\ Head(h) \in Nat \cup {Nil} /\ GoodMin(s, Head(h))
           /\ GoodMins(s, <<h[Len(h)]>>)
           /\ h[Len(h)] \in Nat \cup {Nil} /\ GoodMin(s, h[Len(h)])
BY DEF GoodMins

-----------------------------------------------------------------------------
(* What the handlers make of a good version.                               *)

(* Versions with the same record of an operation.                          *)
SameRecord(u, v) ==
    /\ u.originalReplicas = v.originalReplicas /\ u.drainNode = v.drainNode
    /\ u.drainStart = v.drainStart /\ u.hpaName = v.hpaName
    /\ u.hpaOriginalMin = v.hpaOriginalMin

(* A version that differs neither in record nor in replicas is as good.    *)
LEMMA GoodSame ==
    ASSUME NEW s, NEW v, Good(s, v), NEW u \in Object, u.replicas = v.replicas,
           u.drainState = v.drainState, SameRecord(u, v)
    PROVE  Good(s, u)
BY DEF Good, SameRecord, GetReplicas

(* A clock tick ages the start annotations and nothing else.               *)
LEMMA GoodOlder ==
    ASSUME NEW s, NEW v, Good(s, v)
    PROVE  Good(s, Older(v))
<1> DEFINE next(age, limit) == IF age \in 0 .. limit THEN age + 1 ELSE age
           d == next(v.drainStart, ReadinessTimeout)
           r == next(v.restartSurgeStart, RestartSurgeTimeout)
           o == Older(v)
<1>1. v \in Object
  BY DEF Good
<1>2. /\ \A age \in Age \cup {Nil} :
           /\ next(age, ReadinessTimeout) \in Age \cup {Nil}
           /\ age \in Age => next(age, ReadinessTimeout) \in Age
           /\ age = Nil => next(age, ReadinessTimeout) = Nil
      /\ \A age \in RestartAge \cup {Nil} :
           next(age, RestartSurgeTimeout) \in RestartAge \cup {Nil}
  BY TimeoutAssumption, NilAssumption DEF Age, RestartAge
<1>3. /\ d \in Age \cup {Nil} /\ r \in RestartAge \cup {Nil}
      /\ v.drainStart \in Age => d \in Age
      /\ v.drainStart = Nil => d = Nil
  BY <1>1, <1>2 DEF Object
<1>4. o = [v EXCEPT !.drainStart = d, !.restartSurgeStart = r]
  BY <1>1 DEF Older, Object
<1> HIDE DEF next, d, r, o
<1>5. o \in Object
  BY <1>1, <1>3, <1>4, ZenonT(60) DEF Object
<1>6. /\ o.replicas = v.replicas /\ o.drainState = v.drainState
      /\ o.originalReplicas = v.originalReplicas /\ o.drainNode = v.drainNode
      /\ o.drainStart = d /\ o.hpaName = v.hpaName
      /\ o.hpaOriginalMin = v.hpaOriginalMin
  BY <1>1, <1>4 DEF Object
<1>7. Good(s, o)
  BY <1>3, <1>5, <1>6 DEF Good, GetReplicas
<1>8. QED
  BY <1>7 DEF o

(* A merge patch takes the record and the replicas from the copy.          *)
LEMMA GoodPatch ==
    ASSUME NEW s, NEW v, NEW current, Good(s, v), Good(s, current)
    PROVE  Good(s, Patch(current, v))
<1> DEFINE p == Patch(current, v)
<1>1. v \in Object /\ current \in Object
  BY DEF Good
<1>2. p \in Object
  <2> DEFINE e == IF v.enabled = "true" THEN "true" ELSE current.enabled
  <2>1. e \in {"none", "true"}
    BY <1>1 DEF Object
  <2> HIDE DEF e
  <2>2. /\ current.status \in {"stable", "restarting", "progressing"}
        /\ current.restartAt \in Nat \cup {Nil} /\ current.restartedAt \in Nat \cup {Nil}
    BY <1>1 DEF Object
  <2>3. \A st \in {"stable", "restarting", "progressing"}, x, y \in Nat \cup {Nil} :
          [v EXCEPT !.enabled = e, !.status = st, !.restartAt = x, !.restartedAt = y] \in Object
    BY <1>1, <2>1, ZenonT(60) DEF Object
  <2>4. QED
    BY <2>2, <2>3, ZenonT(60) DEF e, Patch
<1>3. p.replicas = v.replicas /\ p.drainState = v.drainState /\ SameRecord(p, v)
  BY <1>1 DEF Patch, Object, SameRecord
<1> HIDE DEF p
<1>4. Good(s, p)
  BY <1>2, <1>3, GoodSame
<1>5. QED
  BY <1>4 DEF p

(* clearDrainAnnotations leaves a whole, empty record, provided the        *)
(* replicas have been put back.                                            *)
LEMMA GoodCleared ==
    ASSUME NEW s, NEW v, v \in Object, s.hpaMax = 0 => GetReplicas(v) = 1
    PROVE  Good(s, clearDrainAnnotations(v))
<1> DEFINE c == clearDrainAnnotations(v)
<1>1. c \in Object
  <2>1. "none" \in DrainState \cup {"unknown"}
    BY DEF DrainState
  <2>2. QED
    BY <2>1, ZenonT(60) DEF clearDrainAnnotations, Object
<1>2. /\ c.replicas = v.replicas /\ c.drainState = "none" /\ c.originalReplicas = Nil
      /\ c.drainNode = Nil /\ c.drainStart = Nil /\ c.hpaName = "none" /\ c.hpaOriginalMin = Nil
  BY DEF clearDrainAnnotations, Object
<1>3. QED
  BY <1>1, <1>2 DEF Good, GetReplicas

(* abortWorkload restores what its record says and forgets it.             *)
LEMMA GoodAbort ==
    ASSUME NEW s, NEW v, Good(s, v), NEW kind \in Kinds
    PROVE  GoodJob(s, abortJob(kind, v))
<1> DEFINE u == IF v.originalReplicas = Nil THEN v ELSE SetReplicas(v, v.originalReplicas)
<1>1. u \in Object /\ (s.hpaMax = 0 => GetReplicas(u) = 1)
  <2>1. CASE v.originalReplicas = Nil
    <3>1. v.drainState = "none" /\ v \in Object
      <4>1. 1 # Nil
        BY OneIsNotNil
      <4>2. v.drainState # "none" => v.originalReplicas = 1
        BY DEF Good
      <4>3. v \in Object
        BY DEF Good
      <4>4. QED
        BY <2>1, <4>1, <4>2, <4>3
    <3>2. s.hpaMax = 0 => GetReplicas(v) = 1
      BY <3>1 DEF Good
    <3>3. QED
      BY <2>1, <3>1, <3>2
  <2>2. CASE v.originalReplicas # Nil
    <3>1. v.originalReplicas = 1 /\ v \in Object
      BY <2>2 DEF Good
    <3>2. [v EXCEPT !.replicas = 1] \in Object /\ [v EXCEPT !.replicas = 1].replicas = 1
      BY <3>1 DEF Object
    <3>3. QED
      BY <2>2, <3>1, <3>2, NilAssumption DEF SetReplicas, GetReplicas
  <2>3. QED
    BY <2>1, <2>2
<1>2. Good(s, aborted(v))
  BY <1>1, GoodCleared DEF aborted
<1>3. /\ restoreHPA(v) \in Nat \cup {Nil}
      /\ restoreHPA(v) \in {Nil, HPAMinReplicasOrDefault(s.hpaMin), 2}
  BY DEF restoreHPA, Good, Object
<1>4. QED
  BY <1>2, <1>3 DEF GoodJob, abortJob, Job, Good

(* A job that patches the workload only.                                   *)
LEMMA GoodPatchJob ==
    ASSUME NEW s, NEW v, Good(s, v), NEW kind \in Kinds
    PROVE  GoodJob(s, patchJob(kind, v))
BY DEF GoodJob, patchJob, Job, Good

(* A handler that moves a recorded operation on, and perhaps its replicas, *)
(* keeps the version good.                                                 *)
LEMMA GoodAdvance ==
    ASSUME NEW s, NEW v, Good(s, v), v.drainState # "none",
           NEW u \in Object, SameRecord(u, v),
           u.drainState \in {"scaled-up", "ready", "draining", "done"},
           s.hpaMax = 0 => \/ GetReplicas(u) = 1
                           \/ GetReplicas(u) = 2 /\ u.drainState \in {"scaled-up", "ready"}
    PROVE  Good(s, u)
BY DEF Good, SameRecord

(* The HPA may set any replicas, anyone may set one replica.               *)
LEMMA GoodRescaled ==
    ASSUME NEW s, NEW v, Good(s, v), NEW r \in Nat, s.hpaMax = 0 => r = 1
    PROVE  Good(s, SetReplicas(v, r))
<1> DEFINE u == SetReplicas(v, r)
<1>1. v \in Object
  BY DEF Good
<1>2. u \in Object /\ u.replicas = r /\ u.drainState = v.drainState /\ SameRecord(u, v)
  BY <1>1 DEF Object, SetReplicas, SameRecord
<1> HIDE DEF u
<1>3. s.hpaMax = 0 => GetReplicas(u) = 1
  BY <1>2, NilAssumption DEF GetReplicas
<1>4. Good(s, u)
  BY <1>2, <1>3 DEF Good, SameRecord
<1>5. QED
  BY <1>4 DEF u

(* A rollout that starts or ends, and an owner who opts out, leave the     *)
(* record and the replicas alone.                                          *)
LEMMA GoodRestatus ==
    ASSUME NEW s, NEW v, Good(s, v), NEW st \in {"stable", "restarting", "progressing"}
    PROVE  Good(s, [v EXCEPT !.status = st]) /\ Good(s, [v EXCEPT !.enabled = "none"])
<1> DEFINE u == [v EXCEPT !.status = st]
           w == [v EXCEPT !.enabled = "none"]
<1>1. v \in Object
  BY DEF Good
<1>2. u \in Object /\ u.replicas = v.replicas /\ u.drainState = v.drainState /\ SameRecord(u, v)
  BY <1>1 DEF Object, SameRecord
<1>3. w \in Object /\ w.replicas = v.replicas /\ w.drainState = v.drainState /\ SameRecord(w, v)
  BY <1>1 DEF Object, SameRecord
<1> HIDE DEF u, w
<1>4. Good(s, u) /\ Good(s, w)
  BY <1>2, <1>3, GoodSame
<1>5. QED
  BY <1>4 DEF u, w

(* An unset minReplicas counts as one.                                     *)
LEMMA DefaultInNat ==
    ASSUME NEW min \in Nat \cup {Nil}
    PROVE  HPAMinReplicasOrDefault(min) \in Nat
BY DEF HPAMinReplicasOrDefault

(* IsHPAAtMinReplicas recognises the surge target.                         *)
LEMMA ReentryGuard ==
    ASSUME NEW min \in Nat \cup {Nil}, ~IsHPAAtMinReplicas(min, 2)
    PROVE  min # 2
BY TwoIsNotNil DEF IsHPAAtMinReplicas

(* The record handlePending starts with.                                   *)
LEMMA SurgeRecord ==
    ASSUME NEW v \in Object, NEW n \in Nodes, GetReplicas(v) = 1
    PROVE  LET w == recordSurge(v, n)
           IN  /\ w \in Object
               /\ w.drainState = "scaled-up" /\ w.originalReplicas = 1 /\ w.drainNode = n
               /\ w.drainStart \in Age
               /\ w.hpaName = v.hpaName /\ w.hpaOriginalMin = v.hpaOriginalMin
               /\ w.restartSurgeState = v.restartSurgeState
               /\ w.restartSurgeStart = v.restartSurgeStart
<1> DEFINE w == [v EXCEPT !.drainState = "scaled-up", !.originalReplicas = 1,
                          !.drainNode = n, !.drainStart = 0]
<1>1. 0 \in Age
  BY TimeoutAssumption DEF Age
<1>2. w \in Object
  BY <1>1, ZenonT(60) DEF Object, DrainState
<1>3. /\ w.drainState = "scaled-up" /\ w.originalReplicas = 1 /\ w.drainNode = n
      /\ w.drainStart = 0 /\ w.hpaName = v.hpaName /\ w.hpaOriginalMin = v.hpaOriginalMin
      /\ w.restartSurgeState = v.restartSurgeState /\ w.restartSurgeStart = v.restartSurgeStart
  BY DEF Object
<1>4. w = recordSurge(v, n)
  BY DEF recordSurge
<1>5. QED
  BY <1>1, <1>2, <1>3, <1>4, Zenon

(* handlePending without an HPA: the surge and its record in one patch.    *)
LEMMA GoodSurge ==
    ASSUME NEW s, NEW v, NEW n \in Nodes, Good(s, v), v.drainState = "none",
           GetReplicas(v) = 1, s.minAvailable # 0, s.strategy # "Recreate", s.hpaMax = 0
    PROVE  Good(s, SetReplicas(recordSurge(v, n), 2))
<1> DEFINE u == SetReplicas(recordSurge(v, n), 2)
<1>1. v \in Object /\ v.hpaName = "none" /\ v.hpaOriginalMin = Nil
  BY DEF Good
<1> DEFINE w == recordSurge(v, n)
<1>2. /\ w \in Object
      /\ w.drainState = "scaled-up" /\ w.originalReplicas = 1 /\ w.drainNode = n
      /\ w.drainStart \in Age /\ w.hpaName = "none" /\ w.hpaOriginalMin = Nil
  BY <1>1, SurgeRecord
<1> HIDE DEF w
<1>3. u \in Object
  BY <1>2 DEF SetReplicas, Object, w
<1>4. /\ u.drainState = "scaled-up" /\ u.originalReplicas = 1 /\ u.drainNode = n
      /\ u.drainStart \in Age /\ u.hpaName = "none" /\ u.hpaOriginalMin = Nil /\ u.replicas = 2
  BY <1>2 DEF SetReplicas, Object, w
<1> HIDE DEF u
<1>5. GetReplicas(u) = 2
  BY <1>4, TwoIsNotNil DEF GetReplicas
<1>6. s.hpaMax # 1
  BY ZeroIsNotOne
<1>7. Good(s, u)
  BY <1>3, <1>4, <1>5, <1>6 DEF Good
<1>8. QED
  BY <1>7 DEF u

(* The re-entry guard lets only a minReplicas from before the surge into   *)
(* the record.                                                             *)
LEMMA UnsurgedMin ==
    ASSUME NEW s, NEW min \in Nat \cup {Nil}, GoodMin(s, min), ~IsHPAAtMinReplicas(min, 2)
    PROVE  HPAMinReplicasOrDefault(min) = HPAMinReplicasOrDefault(s.hpaMin)
<1> DEFINE d == HPAMinReplicasOrDefault(s.hpaMin)
<1>1. min # 2
  BY ReentryGuard
<1>2. min = s.hpaMin \/ min = d
  BY <1>1 DEF GoodMin
<1>3. d # Nil
  BY OneIsNotNil DEF HPAMinReplicasOrDefault
<1>4. QED
  BY <1>2, <1>3 DEF HPAMinReplicasOrDefault

(* handlePending with an HPA.                                              *)
LEMMA GoodSurgeHPA ==
    ASSUME NEW s, NEW v, NEW n \in Nodes, NEW min \in Nat \cup {Nil},
           Good(s, v), GoodMin(s, min), v.drainState = "none", GetReplicas(v) = 1,
           s.minAvailable # 0, s.strategy # "Recreate", s.hpaMax \notin {0, 1},
           ~IsHPAAtMinReplicas(min, 2)
    PROVE  Good(s, recordHPA(recordSurge(v, n), min))
<1> DEFINE u == recordHPA(recordSurge(v, n), min)
<1>1. v \in Object
  BY DEF Good
<1> DEFINE w == recordSurge(v, n)
<1>2. /\ w \in Object
      /\ w.drainState = "scaled-up" /\ w.originalReplicas = 1 /\ w.drainNode = n
      /\ w.drainStart \in Age
  BY <1>1, SurgeRecord
<1> HIDE DEF w
<1>3. HPAMinReplicasOrDefault(min) \in Nat
  BY DefaultInNat
<1>4. HPAMinReplicasOrDefault(min) = HPAMinReplicasOrDefault(s.hpaMin)
  BY UnsurgedMin
<1>5. u \in Object
  BY <1>2, <1>3, ZenonT(60) DEF recordHPA, Object, w
<1>6. /\ u.drainState = "scaled-up" /\ u.originalReplicas = 1 /\ u.drainNode = n
      /\ u.drainStart \in Age /\ u.hpaName = "hpa"
      /\ u.hpaOriginalMin = HPAMinReplicasOrDefault(min)
  BY <1>2 DEF recordHPA, Object, w
<1> HIDE DEF u
<1>7. Good(s, u)
  BY <1>2, <1>4, <1>5, <1>6 DEF Good
<1>8. QED
  BY <1>7 DEF u

-----------------------------------------------------------------------------
(* Steps.                                                                  *)

(* A handler that decides on good calls preserves the invariant.           *)
LEMMA InvCall ==
    ASSUME Inv, NEW n \in Nodes, NEW j, GoodJob(setup, j), Dequeue(n), Call(n, j)
    PROVE  Inv'
BY DEF Inv, Dequeue, Call, GoodJob, Actors, Keys, clusterVars

(* A handler that returns or waits preserves it.                           *)
LEMMA InvReturn ==
    ASSUME Inv, NEW n \in Nodes, Dequeue(n), Return(n) \/ RequeueAfter(n)
    PROVE  Inv'
BY DEF Inv, Dequeue, Return, RequeueAfter, clusterVars

(* The cached copies a handler reads are good.                             *)
LEMMA CachedGood ==
    ASSUME Inv
    PROVE  /\ Good(setup, Cached) /\ Good(setup, Current)
           /\ CachedHPA \in Nat \cup {Nil} /\ GoodMin(setup, CachedHPA)
           /\ CurrentHPA \in Nat \cup {Nil} /\ GoodMin(setup, CurrentHPA)
           /\ setup \in Setup
BY LogEnds, MinsEnds, ClusterAssumption, Zenon DEF Inv, Cached, Current, CachedHPA, CurrentHPA

(* handlePending records the state before the surge.                       *)
LEMMA InvPending ==
    ASSUME Inv, NEW n \in Nodes, handlePending(n)
    PROVE  Inv'
<1>1. /\ Good(setup, Cached) /\ setup \in Setup
      /\ CachedHPA \in Nat \cup {Nil} /\ GoodMin(setup, CachedHPA)
  BY CachedGood
<1>2. /\ Dequeue(n) /\ Cached.drainState = "none" /\ GetReplicas(Cached) = 1
      /\ setup.strategy # "Recreate" /\ setup.hpaMax # 1 /\ setup.minAvailable > 0
  BY DEF handlePending, Reconciling, shouldProcess, CanSurge, FindMatchingPDB
<1>3. setup.minAvailable # 0 /\ setup.hpaMax \in Nat
  BY <1>1, <1>2 DEF Setup
<1>4. GetReplicas(Cached) + 1 = 2
  BY <1>2
<1>5. \/ setup.hpaMax = 0 /\ Call(n, patchJob("surge", SetReplicas(recordSurge(Cached, n), 2)))
      \/ RequeueAfter(n)
      \/ /\ setup.hpaMax > 0 /\ ~IsHPAAtMinReplicas(CachedHPA, 2)
         /\ Call(n, [kind |-> "surge", hpa |-> 2,
                     patch |-> recordHPA(recordSurge(Cached, n), CachedHPA)])
  BY <1>4 DEF handlePending
<1>6. CASE setup.hpaMax = 0 /\ Call(n, patchJob("surge", SetReplicas(recordSurge(Cached, n), 2)))
  <2>1. Good(setup, SetReplicas(recordSurge(Cached, n), 2))
    BY <1>1, <1>2, <1>3, <1>6, GoodSurge
  <2>2. GoodJob(setup, patchJob("surge", SetReplicas(recordSurge(Cached, n), 2)))
    BY <2>1, GoodPatchJob DEF Kinds
  <2>3. QED
    BY <1>2, <1>6, <2>2, InvCall
<1>7. CASE RequeueAfter(n)
  BY <1>2, <1>7, InvReturn
<1>8. CASE /\ setup.hpaMax > 0 /\ ~IsHPAAtMinReplicas(CachedHPA, 2)
           /\ Call(n, [kind |-> "surge", hpa |-> 2,
                       patch |-> recordHPA(recordSurge(Cached, n), CachedHPA)])
  <2> DEFINE u == recordHPA(recordSurge(Cached, n), CachedHPA)
  <2>1. setup.hpaMax \notin {0, 1}
    BY <1>2, <1>3, <1>8
  <2>2. Good(setup, u)
    BY <1>1, <1>2, <1>3, <1>8, <2>1, GoodSurgeHPA
  <2> HIDE DEF u
  <2>3. GoodJob(setup, [kind |-> "surge", hpa |-> 2, patch |-> u])
    BY <2>2 DEF GoodJob, Job, Kinds, Good
  <2>4. QED
    BY <1>2, <1>8, <2>3, InvCall DEF u
<1>9. QED
  BY <1>5, <1>6, <1>7, <1>8

(* handleWaitReady keeps the record and the surge.                         *)
LEMMA InvWaitReady ==
    ASSUME Inv, NEW n \in Nodes, handleWaitReady(n)
    PROVE  Inv'
<1> DEFINE v == Cached
<1>1. Good(setup, v)
  BY CachedGood
<1>2. Dequeue(n) /\ v.drainState = "scaled-up"
  BY DEF handleWaitReady, InState, Reconciling
<1> HIDE DEF v
<1>3. v.originalReplicas = 1 /\ v \in Object /\ v.drainState # "none"
  BY <1>1, <1>2 DEF Good
<1>4. \/ Call(n, abortJob("abort", v))
      \/ Call(n, patchJob("advance", SetReplicas(v, 2)))
      \/ Call(n, patchJob("advance", [v EXCEPT !.drainState = "ready"]))
      \/ RequeueAfter(n)
  <2>1. v.originalReplicas + 1 = 2
    BY <1>3
  <2>2. QED
    BY <2>1 DEF handleWaitReady, v
<1>5. CASE Call(n, abortJob("abort", v))
  <2>1. GoodJob(setup, abortJob("abort", v))
    BY <1>1, GoodAbort DEF Kinds
  <2>2. QED
    BY <1>2, <1>5, <2>1, InvCall
<1>6. CASE Call(n, patchJob("advance", SetReplicas(v, 2)))
  <2> DEFINE u == SetReplicas(v, 2)
  <2>1. u \in Object /\ SameRecord(u, v) /\ u.drainState = "scaled-up" /\ GetReplicas(u) = 2
    BY <1>2, <1>3, TwoIsNotNil DEF SetReplicas, Object, SameRecord, GetReplicas
  <2>2. Good(setup, u)
    BY <1>1, <1>3, <2>1, GoodAdvance
  <2>3. GoodJob(setup, patchJob("advance", SetReplicas(v, 2)))
    BY <2>2, GoodPatchJob DEF Kinds
  <2>4. QED
    BY <1>2, <1>6, <2>3, InvCall
<1>7. CASE Call(n, patchJob("advance", [v EXCEPT !.drainState = "ready"]))
  <2> DEFINE u == [v EXCEPT !.drainState = "ready"]
  <2>1. u \in Object /\ SameRecord(u, v) /\ u.drainState = "ready"
    BY <1>3 DEF Object, DrainState, SameRecord
  <2>2. setup.hpaMax = 0 => GetReplicas(u) \in {1, 2}
    BY <1>1, <1>3 DEF Good, GetReplicas, Object
  <2>3. Good(setup, u)
    BY <1>1, <1>3, <2>1, <2>2, GoodAdvance, Zenon
  <2> HIDE DEF u
  <2>4. GoodJob(setup, patchJob("advance", u))
    BY <2>3, GoodPatchJob DEF Kinds
  <2>5. QED
    BY <1>2, <1>7, <2>4, InvCall DEF u
<1>8. CASE RequeueAfter(n)
  BY <1>2, <1>8, InvReturn
<1>9. QED
  BY <1>4, <1>5, <1>6, <1>7, <1>8

(* scaledDown puts the recorded replicas back.                             *)
LEMMA GoodScaledDown ==
    ASSUME NEW s, NEW v, Good(s, v), v.drainState # "none", NEW st \in {"draining", "done"}
    PROVE  Good(s, [scaledDown(v) EXCEPT !.drainState = st])
<1> DEFINE w == scaledDown(v)
           u == [w EXCEPT !.drainState = st]
<1>1. /\ v \in Object /\ v.originalReplicas = 1
      /\ v.hpaName # "none" => s.hpaMax # 0
  BY DEF Good
<1>2. w \in Object /\ SameRecord(w, v) /\ (s.hpaMax = 0 => GetReplicas(w) = 1)
  <2>1. CASE v.hpaName = "none"
    <3>1. w = [v EXCEPT !.replicas = 1]
      BY <1>1, <2>1 DEF scaledDown, SetReplicas
    <3>2. QED
      BY <1>1, <3>1, OneIsNotNil DEF Object, SameRecord, GetReplicas
  <2>2. CASE v.hpaName # "none"
    BY <1>1, <2>2 DEF scaledDown, SameRecord
  <2>3. QED
    BY <2>1, <2>2
<1> HIDE DEF w
<1>3. /\ u \in Object /\ u.drainState = st /\ SameRecord(u, v)
      /\ s.hpaMax = 0 => GetReplicas(u) = 1
  BY <1>2 DEF Object, DrainState, SameRecord, GetReplicas
<1>4. Good(s, u)
  BY <1>3, GoodAdvance, Zenon
<1>5. QED
  BY <1>4 DEF w

(* handleWaitEviction keeps the record until the replicas are back.        *)
LEMMA InvWaitEviction ==
    ASSUME Inv, NEW n \in Nodes, handleWaitEviction(n)
    PROVE  Inv'
<1> DEFINE v == Cached
           u == [scaledDown(v) EXCEPT !.drainState = "draining"]
           j == [kind |-> "advance", hpa |-> restoreHPA(v), patch |-> u]
<1>1. Good(setup, v)
  BY CachedGood
<1>2. Dequeue(n) /\ v.drainState = "ready"
  BY DEF handleWaitEviction, InState, Reconciling
<1>3. \/ RequeueAfter(n) \/ Return(n)
      \/ Call(n, abortJob("finish", v))
      \/ Call(n, j)
  BY DEF handleWaitEviction
<1> HIDE DEF v
<1>4. CASE RequeueAfter(n) \/ Return(n)
  BY <1>2, <1>4, InvReturn
<1>5. CASE Call(n, abortJob("finish", v))
  <2>1. GoodJob(setup, abortJob("finish", v))
    BY <1>1, GoodAbort DEF Kinds
  <2>2. QED
    BY <1>2, <1>5, <2>1, InvCall
<1>6. CASE Call(n, j)
  <2>1. Good(setup, u)
    BY <1>1, <1>2, GoodScaledDown, ZenonT(60)
  <2>2. /\ restoreHPA(v) \in Nat \cup {Nil}
        /\ restoreHPA(v) \in {Nil, HPAMinReplicasOrDefault(setup.hpaMin), 2}
    BY <1>1 DEF restoreHPA, Good, Object
  <2> HIDE DEF u
  <2>3. GoodJob(setup, j)
    BY <2>1, <2>2 DEF GoodJob, Job, Kinds, Good
  <2>4. QED
    BY <1>2, <1>6, <2>3, InvCall DEF j
<1>7. QED
  BY <1>3, <1>4, <1>5, <1>6

(* Every handler of a reconcile preserves the invariant.  handleScaleUp    *)
(* and UnknownState meet no state the controller ever writes.              *)
LEMMA InvReconcile ==
    ASSUME Inv, NEW n \in Nodes, Reconcile(n)
    PROVE  Inv'
<1>1. Good(setup, Cached)
  BY CachedGood
<1>2. \A kind \in Kinds : GoodJob(setup, abortJob(kind, Cached))
  BY <1>1, GoodAbort
<1>3. ASSUME Dequeue(n), NEW kind \in Kinds, Call(n, abortJob(kind, Cached))
      PROVE  Inv'
  BY <1>2, <1>3, InvCall
<1>4. CASE abortWorkloadsForNode(n)
  BY <1>3, <1>4, InvReturn DEF abortWorkloadsForNode, Kinds
<1>5. CASE NothingOnNode(n)
  BY <1>5, InvReturn DEF NothingOnNode
<1>6. CASE DrainTimeout(n)
  BY <1>3, <1>6 DEF DrainTimeout, Reconciling, Kinds
<1>7. CASE OtherNodeDrains(n)
  BY <1>7, InvReturn DEF OtherNodeDrains, Reconciling
<1>8. CASE SkipWorkload(n)
  BY <1>8, InvReturn DEF SkipWorkload, Reconciling
<1>9. CASE handlePending(n)
  BY <1>9, InvPending
<1>10. CASE handleScaleUp(n)
  BY <1>1, <1>10 DEF handleScaleUp, InState, Good
<1>11. CASE handleWaitReady(n)
  BY <1>11, InvWaitReady
<1>12. CASE handleWaitEviction(n)
  BY <1>12, InvWaitEviction
<1>13. CASE handleScaleDown(n)
  <2> DEFINE u == [scaledDown(Cached) EXCEPT !.drainState = "done"]
  <2>1. Dequeue(n) /\ Cached.drainState = "draining"
    BY <1>13 DEF handleScaleDown, InState, Reconciling
  <2>2. Good(setup, u)
    BY <1>1, <2>1, GoodScaledDown, ZenonT(60)
  <2> HIDE DEF u
  <2>3. GoodJob(setup, patchJob("advance", u))
    BY <2>2, GoodPatchJob DEF Kinds
  <2>4. Call(n, abortJob("abort", Cached)) \/ Call(n, patchJob("advance", u))
    BY <1>13 DEF handleScaleDown, u
  <2>5. QED
    BY <1>3, <2>1, <2>3, <2>4, InvCall DEF Kinds
<1>14. CASE handleCleanup(n)
  <2> DEFINE u == clearDrainAnnotations(Cached)
  <2>1. Dequeue(n) /\ Cached.drainState = "done" /\ Call(n, patchJob("finish", u))
    BY <1>14 DEF handleCleanup, InState, Reconciling
  <2>2. Cached \in Object /\ (setup.hpaMax = 0 => GetReplicas(Cached) = 1)
    BY <1>1, <2>1 DEF Good
  <2>3. Good(setup, u)
    BY <2>2, GoodCleared
  <2> HIDE DEF u
  <2>4. GoodJob(setup, patchJob("finish", u))
    BY <2>3, GoodPatchJob DEF Kinds
  <2>5. QED
    BY <2>1, <2>4, InvCall
<1>15. CASE UnknownState(n)
  BY <1>1, <1>15 DEF UnknownState, InState, Good
<1>16. QED
  BY <1>4, <1>5, <1>6, <1>7, <1>8, <1>9, <1>10, <1>11, <1>12, <1>13, <1>14, <1>15
     DEF Reconcile

(* The server stores a good version, or nothing.                           *)
LEMMA GoodWrite ==
    ASSUME Inv, NEW v, Good(setup, v), UNCHANGED wl \/ WriteWorkload(v)
    PROVE  GoodLog(setup, wl')
<1>1. wl' = wl \/ wl' = Append(wl, v)
  BY DEF WriteWorkload
<1>2. GoodLog(setup, wl) /\ GoodLog(setup, Append(wl, v))
  BY LogAppend DEF Inv
<1>3. QED
  BY <1>1, <1>2, Zenon

LEMMA GoodWriteMin ==
    ASSUME Inv, NEW min \in Nat \cup {Nil}, GoodMin(setup, min), UNCHANGED hpa \/ WriteHPA(min)
    PROVE  GoodMins(setup, hpa')
<1>1. hpa' = hpa \/ hpa' = Append(hpa, min)
  BY DEF WriteHPA
<1>2. GoodMins(setup, hpa) /\ GoodMins(setup, Append(hpa, min))
  BY MinsAppend DEF Inv
<1>3. QED
  BY <1>1, <1>2, Zenon

(* What remains of a good job is good, and so is an idle actor.            *)
LEMMA GoodRest ==
    ASSUME NEW s, NEW j, GoodJob(s, j)
    PROVE  /\ GoodJob(s, [j EXCEPT !.patch = Nil])
           /\ GoodJob(s, [j EXCEPT !.hpa = Nil])
           /\ GoodJob(s, Idle)
BY DEF GoodJob, Job, Idle, Kinds

(* An actor whose next job is good leaves queue and jobs as they should be.*)
LEMMA GoodJobs ==
    ASSUME Inv, NEW a \in Actors, NEW j, GoodJob(setup, j),
           \/ AfterCall(a, j)
           \/ EndJob(a, TRUE)
           \/ EndJob(a, FALSE)
    PROVE  /\ queue' \subseteq Keys
           /\ job' \in [Actors -> Job]
           /\ \A b \in Actors : GoodJob(setup, job'[b])
<1>1. GoodJob(setup, Idle)
  BY GoodRest
<1>2. queue' \subseteq Keys
  <2>1. queue' = queue \/ queue' = queue \cup ({a} \cap Keys)
    BY Zenon DEF AfterCall, EndJob
  <2>2. queue \subseteq Keys
    BY DEF Inv
  <2>3. QED
    BY <2>1, <2>2, Zenon
<1>3. PICK k : GoodJob(setup, k) /\ job' = [job EXCEPT ![a] = k]
  BY <1>1 DEF AfterCall, EndJob
<1>4. QED
  BY <1>2, <1>3 DEF Inv, GoodJob

(* Disturbances are counted.                                               *)
LEMMA FaultsBounded ==
    ASSUME Inv, UNCHANGED faults \/ \E kind \in Disturbances : Fault(kind)
    PROVE  faults' \in 0 .. MaxFaults
BY ClusterAssumption DEF Inv, Fault

(* A patch of the workload, whether its error is reported or not.          *)
LEMMA InvPatchWorkload ==
    ASSUME Inv, NEW a \in Actors, PatchWorkload(a) \/ PatchWorkloadFails(a)
    PROVE  Inv'
<1> DEFINE v == Patch(Current, job[a].patch)
           rest == [job[a] EXCEPT !.patch = Nil]
<1>1. GoodJob(setup, job[a]) /\ job[a].patch # Nil
  BY DEF Inv, PatchWorkload, PatchWorkloadFails, PatchesWorkloadNext
<1>2. Good(setup, v)
  BY <1>1, CachedGood, GoodPatch DEF GoodJob
<1>3. UNCHANGED wl \/ WriteWorkload(v)
  BY DEF PatchWorkload, PatchWorkloadFails
<1>4. GoodJob(setup, rest)
  BY <1>1, GoodRest
<1>5. AfterCall(a, rest) \/ EndJob(a, TRUE) \/ EndJob(a, FALSE)
  BY DEF PatchWorkload, PatchWorkloadFails, EndJob
<1>6. GoodLog(setup, wl')
  BY <1>2, <1>3, GoodWrite
<1>7. /\ queue' \subseteq Keys /\ job' \in [Actors -> Job]
      /\ \A b \in Actors : GoodJob(setup, job'[b])
  BY <1>4, <1>5, GoodJobs, ZenonT(60)
<1>8. UNCHANGED <<node, hpa, podNode, ready, setup, recovery>>
  BY DEF PatchWorkload, PatchWorkloadFails
<1>9. faults' \in 0 .. MaxFaults
  BY FaultsBounded DEF PatchWorkload, PatchWorkloadFails, Disturbances
<1>10. QED
  BY <1>6, <1>7, <1>8, <1>9 DEF Inv

(* A patch of the HPA, likewise.                                           *)
LEMMA InvPatchHPA ==
    ASSUME Inv, NEW a \in Actors, PatchHPAMinReplicas(a) \/ PatchHPAFails(a)
    PROVE  Inv'
<1> DEFINE min == job[a].hpa
           rest == [job[a] EXCEPT !.hpa = Nil]
<1>1. GoodJob(setup, job[a]) /\ min # Nil
  BY DEF Inv, PatchHPAMinReplicas, PatchHPAFails, PatchesHPANext
<1>2. min \in Nat \cup {Nil} /\ GoodMin(setup, min)
  BY <1>1 DEF GoodJob, GoodMin, Job
<1>3. UNCHANGED hpa \/ WriteHPA(min)
  BY DEF PatchHPAMinReplicas, PatchHPAFails
<1>4. GoodJob(setup, rest)
  BY <1>1, GoodRest
<1>5. AfterCall(a, rest) \/ EndJob(a, TRUE) \/ EndJob(a, FALSE)
  BY Zenon DEF PatchHPAMinReplicas, PatchHPAFails
<1>6. GoodMins(setup, hpa')
  BY <1>2, <1>3, GoodWriteMin, ZenonT(60)
<1>7. /\ queue' \subseteq Keys /\ job' \in [Actors -> Job]
      /\ \A b \in Actors : GoodJob(setup, job'[b])
  BY <1>4, <1>5, GoodJobs, ZenonT(60)
<1>8. UNCHANGED <<node, wl, podNode, ready, setup, recovery>>
  BY DEF PatchHPAMinReplicas, PatchHPAFails
<1>9. faults' \in 0 .. MaxFaults
  BY FaultsBounded DEF PatchHPAMinReplicas, PatchHPAFails, Disturbances
<1>10. QED
  BY <1>6, <1>7, <1>8, <1>9 DEF Inv

(* The orphan scan aborts what it read from the cache.                     *)
LEMMA InvRecoverOrphans ==
    ASSUME Inv, RecoverOrphans
    PROVE  Inv'
<1>1. CASE ListNodes
  <2>1. {n \in Nodes : hasDrainTaint(n)} \in SUBSET Nodes
    OBVIOUS
  <2>2. recovery' \in [phase : RecoveryPhase, tainted : SUBSET Nodes]
    BY <1>1, <2>1 DEF ListNodes, RecoveryPhase
  <2>3. QED
    BY <1>1, <2>2 DEF ListNodes, clusterVars, Inv
<1>2. CASE AbortOrphans
  <2>1. GoodJob(setup, abortJob("abort", Cached))
    BY CachedGood, GoodAbort DEF Kinds
  <2>2. job' \in [Actors -> Job] /\ \A b \in Actors : GoodJob(setup, job'[b])
    <3>1. job' = job \/ job' = [job EXCEPT ![Orphans] = abortJob("abort", Cached)]
      BY <1>2 DEF AbortOrphans
    <3>2. QED
      BY <2>1, <3>1 DEF Inv, GoodJob
  <2>3. QED
    BY <1>2, <2>2 DEF AbortOrphans, RecoveryPhase, clusterVars, Inv
<1>3. QED
  BY <1>1, <1>2 DEF RecoverOrphans

(* Nodes and pods come and go.                                             *)
LEMMA InvNodesAndPods ==
    ASSUME Inv, NEW n \in Nodes, NodeEvent(n) \/ Heartbeat(n) \/ PodEvent(n)
    PROVE  Inv'
<1>1. CASE NodeEvent(n)
  <2>1. node' \in [Nodes -> {"ready", "tainted", "gone"}] /\ faults' \in 0 .. MaxFaults
    BY <1>1, FaultsBounded DEF NodeEvent, Taint, Untaint, DeleteNode, Disturbances, Inv
  <2>2. UNCHANGED <<wl, hpa, podNode, ready, setup, job, recovery>>
    BY <1>1 DEF NodeEvent, Enqueue, Taint, Untaint, DeleteNode
  <2>3. queue' \subseteq Keys
    BY <1>1 DEF NodeEvent, Enqueue, Keys, Inv
  <2>4. QED
    BY <2>1, <2>2, <2>3 DEF Inv
<1>2. CASE Heartbeat(n)
  BY <1>2 DEF Heartbeat, Enqueue, Keys, clusterVars, Inv
<1>3. CASE PodEvent(n)
  <2>1. CreatePod(n) \/ PodReady(n) \/ PodNotReady(n) \/ DeleteSurplus(n) \/ Evict(n)
    BY <1>3 DEF PodEvent, PodChange
  <2>2. podNode' \in [Pods -> Nodes \cup {Nil}] /\ ready' \subseteq Pods
    BY <2>1, Zenon DEF CreatePod, PodReady, PodNotReady, DeleteSurplus, Evict, DeletePod, PodsOn, Inv
  <2>3. UNCHANGED <<node, wl, hpa, setup>>
    BY <2>1, Zenon DEF CreatePod, PodReady, PodNotReady, DeleteSurplus, Evict, DeletePod
  <2>4. faults' \in 0 .. MaxFaults
    BY <2>1, FaultsBounded, ZenonT(60)
       DEF CreatePod, PodReady, PodNotReady, DeleteSurplus, Evict, DeletePod, Disturbances
  <2>5. queue' \subseteq Keys /\ UNCHANGED <<job, recovery>>
    BY <1>3 DEF PodEvent, mapPodToNode, Enqueue, Keys, Inv
  <2>6. QED
    BY <2>2, <2>3, <2>4, <2>5 DEF Inv
<1>4. QED
  BY <1>1, <1>2, <1>3

(* Good versions map to nodes.                                             *)
LEMMA GoodEvent ==
    ASSUME NEW s, NEW v, Good(s, v)
    PROVE  mapWorkloadToNode(v) \subseteq Nodes
BY DEF mapWorkloadToNode, Good, Object

(* The watch delivers the next version of the workload.                    *)
LEMMA InvWorkloadEvent ==
    ASSUME Inv, WorkloadEvent
    PROVE  Inv'
<1>1. Len(wl) > 1 /\ wl' = Tail(wl) /\ UNCHANGED <<node, hpa, podNode, ready, setup, faults, job, recovery>>
  BY DEF WorkloadEvent, DeliverWorkload, Enqueue
<1>2. GoodLog(setup, wl')
  BY <1>1, LogTail DEF Inv
<1>3. Good(setup, wl[1]) /\ Good(setup, wl[2])
  BY <1>1 DEF Inv, GoodLog
<1>4. queue' \subseteq Keys
  BY <1>3, GoodEvent DEF WorkloadEvent, UpdatedNodes, Enqueue, Keys, Inv
<1>5. QED
  BY <1>1, <1>2, <1>4 DEF Inv

(* The other writers of the workload change neither record nor, without an *)
(* HPA, replicas other than back to one.                                   *)
LEMMA InvOtherWriter ==
    ASSUME Inv, OtherWriter, UNCHANGED reconcilerVars
    PROVE  Inv'
<1>1. /\ Good(setup, Current) /\ setup.hpaMax \in Nat
      /\ CurrentHPA \in Nat \cup {Nil}
  BY CachedGood DEF Setup
<1>2. PICK v : Good(setup, v) /\ WriteWorkload(v)
  <2>1. CASE HPAScale
    <3>1. HPAMinReplicasOrDefault(CurrentHPA) \in Nat
      BY <1>1, DefaultInNat
    <3>2. setup.hpaMax # 0
      BY <1>1, <2>1 DEF HPAScale
    <3>3. Good(setup, SetReplicas(Current, HPAMinReplicasOrDefault(CurrentHPA)))
      BY <1>1, <3>1, <3>2, GoodRescaled
    <3>4. QED
      BY <2>1, <3>3 DEF HPAScale
  <2>2. CASE HPALoad
    <3>1. PICK r \in HPAMinReplicasOrDefault(CurrentHPA) .. setup.hpaMax :
            WriteWorkload(SetReplicas(Current, r))
      BY <2>2 DEF HPALoad
    <3>2. r \in Nat /\ setup.hpaMax # 0
      BY <1>1, <2>2, <3>1, DefaultInNat DEF HPALoad
    <3>3. Good(setup, SetReplicas(Current, r))
      BY <1>1, <3>2, GoodRescaled
    <3>4. QED
      BY <3>1, <3>3
  <2>3. CASE ResetReplicas
    BY <1>1, <2>3, GoodRescaled DEF ResetReplicas
  <2>4. CASE RolloutStarts
    BY <1>1, <2>4, GoodRestatus, Zenon DEF RolloutStarts
  <2>5. CASE RolloutEnds
    BY <1>1, <2>5, GoodRestatus, Zenon DEF RolloutEnds
  <2>6. CASE OptOut
    BY <1>1, <2>6, GoodRestatus, ZenonT(60) DEF OptOut
  <2>7. QED
    BY <2>1, <2>2, <2>3, <2>4, <2>5, <2>6 DEF OtherWriter
<1>3. GoodLog(setup, wl')
  BY <1>2, GoodWrite
<1>4. UNCHANGED <<node, hpa, podNode, ready, setup>>
  BY DEF OtherWriter, HPAScale, HPALoad, ResetReplicas, RolloutStarts, RolloutEnds, OptOut
<1>5. faults' \in 0 .. MaxFaults
  BY FaultsBounded DEF OtherWriter, HPAScale, HPALoad, ResetReplicas, RolloutStarts, RolloutEnds,
                       OptOut, Disturbances
<1>6. QED
  BY <1>3, <1>4, <1>5 DEF Inv, reconcilerVars

(* A failover forgets what was in memory and reads the server.             *)
LEMMA InvFailover ==
    ASSUME Inv, Failover
    PROVE  Inv'
<1>1. GoodLog(setup, wl')
  BY LogEnds DEF Failover, RestartWith, Inv, Current
<1>2. GoodMins(setup, hpa')
  BY MinsEnds DEF Failover, RestartWith, Inv, CurrentHPA
<1>3. queue' \subseteq Keys
  BY CachedGood, GoodEvent DEF Failover, RestartWith, ListedNodes, Keys
<1>4. GoodJob(setup, Idle) /\ Idle \in Job
  BY DEF GoodJob, Idle, Job, Kinds
<1>5. job' \in [Actors -> Job] /\ \A b \in Actors : GoodJob(setup, job'[b])
  BY <1>4 DEF Failover, RestartWith
<1>6. faults' \in 0 .. MaxFaults
  BY FaultsBounded DEF Failover, RestartWith, Disturbances
<1>7. UNCHANGED <<node, podNode, ready, setup>>
  BY DEF Failover, RestartWith
<1>8. recovery' \in [phase : RecoveryPhase, tainted : SUBSET Nodes]
  BY DEF Failover, RestartWith, RecoveryPhase
<1>9. QED
  BY <1>1, <1>2, <1>3, <1>5, <1>6, <1>7, <1>8 DEF Inv

(* Time ages every copy alike.                                             *)
LEMMA InvTick ==
    ASSUME Inv, Tick
    PROVE  Inv'
<1>1. GoodLog(setup, wl')
  <2>1. wl \in Seq(Object) /\ wl # <<>> /\ \A i \in 1 .. Len(wl) : Good(setup, wl[i])
    BY DEF Inv, GoodLog
  <2>2. wl' = [i \in 1 .. Len(wl) |-> Older(wl[i])]
    BY <2>1, SMTT(30) DEF Tick
  <2>3. \A i \in 1 .. Len(wl) : Good(setup, Older(wl[i])) /\ Older(wl[i]) \in Object
    <3>1. ASSUME NEW i \in 1 .. Len(wl)
          PROVE  Good(setup, Older(wl[i]))
      BY <2>1, GoodOlder
    <3>2. QED
      BY <3>1 DEF Good
  <2>4. wl' \in Seq(Object) /\ Len(wl') = Len(wl) /\ wl' # <<>>
    BY <2>1, <2>2, <2>3
  <2>5. \A i \in 1 .. Len(wl') : Good(setup, wl'[i])
    BY <2>2, <2>3, <2>4
  <2>6. QED
    BY <2>4, <2>5 DEF GoodLog
<1>2. \A b \in Actors : GoodJob(setup, OlderJob(job[b])) /\ OlderJob(job[b]) \in Job
  <2> SUFFICES ASSUME NEW b \in Actors
               PROVE  GoodJob(setup, OlderJob(job[b]))
    BY DEF GoodJob
  <2> DEFINE j == job[b]
  <2>1. GoodJob(setup, j)
    BY DEF Inv
  <2>2. CASE j.patch = Nil
    BY <2>1, <2>2, SMTT(30) DEF OlderJob
  <2>3. CASE j.patch # Nil
    <3>1. Good(setup, Older(j.patch))
      BY <2>1, <2>3, GoodOlder DEF GoodJob
    <3>2. OlderJob(j) = [j EXCEPT !.patch = Older(j.patch)]
      BY <2>3 DEF OlderJob
    <3>3. QED
      BY <2>1, <3>1, <3>2 DEF GoodJob, Job, Good
  <2>4. QED
    BY <2>2, <2>3
<1>3. job' \in [Actors -> Job] /\ \A b \in Actors : GoodJob(setup, job'[b])
  BY <1>2 DEF Tick
<1>4. QED
  BY <1>1, <1>3 DEF Tick, Inv

-----------------------------------------------------------------------------
(* The theorems.                                                           *)

LEMMA InvInit == Init => Inv
<1> SUFFICES ASSUME Init PROVE Inv
  OBVIOUS
<1> DEFINE v == [replicas |-> setup.replicas, enabled |-> "true", status |-> "stable",
                 restartAt |-> Nil, restartedAt |-> Nil,
                 drainState |-> "none", originalReplicas |-> Nil, drainNode |-> Nil,
                 drainStart |-> Nil, hpaName |-> "none", hpaOriginalMin |-> Nil,
                 restartSurgeState |-> "none", restartSurgeStart |-> Nil]
<1>1. setup \in Setups /\ setup \in Setup
  BY ClusterAssumption DEF Init, StartWith, ClusterInit
<1>2. v \in Object /\ GetReplicas(v) = 1
  BY <1>1, SMTT(30) DEF Setup, Object, DrainState, GetReplicas
<1>3. Good(setup, v)
  BY <1>2 DEF Good
<1>4. wl = <<v>>
  BY DEF Init, StartWith, ClusterInit
<1> HIDE DEF v
<1>5. GoodLog(setup, wl)
  BY <1>2, <1>3, <1>4 DEF GoodLog
<1>6. GoodMins(setup, hpa)
  BY <1>1 DEF Init, StartWith, ClusterInit, GoodMins, GoodMin, Setup
<1>7. job \in [Actors -> Job] /\ \A a \in Actors : GoodJob(setup, job[a])
  BY DEF Init, StartWith, GoodJob, Idle, Job, Kinds
<1>8. podNode \in [Pods -> Nodes \cup {Nil}] /\ ready \subseteq Pods
  BY DEF Init, StartWith, ClusterInit
<1>9. node \in [Nodes -> {"ready", "tainted", "gone"}] /\ faults \in 0 .. MaxFaults
  BY ClusterAssumption DEF Init, StartWith, ClusterInit
<1>10. /\ queue \subseteq Keys
       /\ recovery \in [phase : RecoveryPhase, tainted : SUBSET Nodes]
  BY DEF Init, StartWith, Keys, RecoveryPhase
<1>11. QED
  BY <1>1, <1>5, <1>6, <1>7, <1>8, <1>9, <1>10 DEF Inv

LEMMA InvNext == Inv /\ [Next]_vars => Inv'
<1> SUFFICES ASSUME Inv, [Next]_vars PROVE Inv'
  OBVIOUS
<1>1. ASSUME NEW n \in Nodes, Reconcile(n) PROVE Inv'
  BY <1>1, InvReconcile
<1>2. ASSUME NEW n \in Nodes, NodeEvent(n) \/ Heartbeat(n) \/ PodEvent(n) PROVE Inv'
  BY <1>2, InvNodesAndPods
<1>3. ASSUME NEW a \in Actors, APICall(a) \/ APICallFails(a) PROVE Inv'
  BY <1>3, InvPatchWorkload, InvPatchHPA DEF APICall, APICallFails
<1>4. CASE RecoverOrphans
  BY <1>4, InvRecoverOrphans
<1>5. CASE WorkloadEvent
  BY <1>5, InvWorkloadEvent
<1>6. CASE Unwatched
  <2>1. CASE DeliverHPA /\ UNCHANGED reconcilerVars
    <3>1. GoodMins(setup, hpa')
      BY <2>1, MinsTail DEF DeliverHPA, Inv
    <3>2. QED
      BY <2>1, <3>1 DEF DeliverHPA, reconcilerVars, Inv
  <2>2. QED
    BY <1>6, <2>1, InvOtherWriter DEF Unwatched
<1>7. CASE Failover
  BY <1>7, InvFailover
<1>8. CASE Tick
  BY <1>8, InvTick
<1>9. CASE UNCHANGED vars
  BY <1>9 DEF vars, clusterVars, reconcilerVars, Inv
<1>10. QED
  BY <1>1, <1>2, <1>3, <1>4, <1>5, <1>6, <1>7, <1>8, <1>9 DEF Next, DrainStep

(* The invariant holds in every behaviour of the controller.               *)
THEOREM AlwaysInv == Spec => []Inv
<1>1. Init => Inv
  BY InvInit
<1>2. Inv /\ [Next]_vars => Inv'
  BY InvNext
<1>3. QED
  BY <1>1, <1>2, PTL DEF Spec

(* Type correctness of cluster, queue, jobs and recovery.                  *)
THEOREM TypeCorrect == Spec => []TypeOK
<1>1. Inv => TypeOK
  BY DEF Inv, TypeOK, ClusterTypeOK, GoodLog, GoodMins
<1>2. QED
  BY <1>1, AlwaysInv, PTL

(* Every version is one of the log or of a pending patch, and good.        *)
LEMMA VersionsGood ==
    ASSUME Inv, NEW v \in Versions
    PROVE  Good(setup, v)
<1>1. CASE v \in {wl[i] : i \in 1 .. Len(wl)}
  <2>1. GoodLog(setup, wl)
    BY Zenon DEF Inv
  <2>2. QED
    BY <1>1, <2>1 DEF GoodLog
<1>2. CASE v \in {job[a].patch : a \in Actors} \ {Nil}
  <2>1. PICK a \in Actors : v = job[a].patch /\ v # Nil
    BY <1>2
  <2>2. GoodJob(setup, job[a])
    BY DEF Inv
  <2>3. QED
    BY <2>1, <2>2, ZenonT(30) DEF GoodJob
<1>3. QED
  BY <1>1, <1>2 DEF Versions

(* The record of an operation is whole and holds the values from before    *)
(* the surge, in every version of the workload, for every cluster.         *)
THEOREM RecordAlwaysRestorable == Spec => []Restorable
<1>1. Inv => Restorable
  <2> SUFFICES ASSUME Inv, NEW v \in Versions
               PROVE  /\ v.drainState \in {"none", "scaled-up", "ready", "draining", "done"}
                      /\ IF v.drainState = "none" THEN RecordEmpty(v) ELSE RecordComplete(v)
    BY DEF Restorable
  <2>1. Good(setup, v)
    BY VersionsGood
  <2>2. setup.minAvailable \in Nat /\ setup.hpaMax \in Nat
    BY CachedGood DEF Setup
  <2>3. CASE v.drainState = "none"
    BY <2>1, <2>3 DEF Good, RecordEmpty
  <2>4. CASE v.drainState # "none"
    <3>1. setup.minAvailable > 0 /\ (setup.hpaMax # 0 => setup.hpaMax > 0)
      BY <2>1, <2>2, <2>4 DEF Good
    <3>2. QED
      BY <2>1, <2>4, <3>1 DEF Good, RecordComplete, Qualifies, FindMatchingPDB, CanSurge
  <2>5. QED
    BY <2>3, <2>4
<1>2. QED
  BY <1>1, AlwaysInv, PTL

(* Without an HPA, a second replica is never seen without the operation    *)
(* that will take it away.                                                 *)
THEOREM SurgeNeverLeaks == Spec => []NoLeakedSurge
<1>1. Inv => NoLeakedSurge
  BY VersionsGood, SMTT(30) DEF NoLeakedSurge, Good
<1>2. QED
  BY <1>1, AlwaysInv, PTL

(* The HPA's minReplicas is the owner's or the surge of one replica.       *)
THEOREM MinReplicasAlwaysKnown == Spec => []MinReplicasKnown
<1>1. Inv => MinReplicasKnown
  BY DEF Inv, MinReplicasKnown, GoodMins, GoodMin, GoodJob
<1>2. QED
  BY <1>1, AlwaysInv, PTL
=============================================================================
