-------------------------- MODULE SurgeBoundsProofs -------------------------
(***************************************************************************)
(* What holds of the replicas and of minReplicas whatever anybody does to  *)
(* the annotations: surges do not pile up and nothing is scaled to zero.   *)
(* The argument never looks at the state of an operation, so it covers     *)
(* both reconcilers with and without edits, for any set of nodes, pods and *)
(* setups, any cache lag, and any number of workers, faults and edits.     *)
(***************************************************************************)
EXTENDS EditedAnnotations, EditedRestart, TLAPS

Default(s) == HPAMinReplicasOrDefault(s.hpaMin)

(* A version of the workload that may exist under setup s.  The recorded   *)
(* values are those from before a surge or lost, the replicas without an   *)
(* HPA are the workload's own one or one more, and zero replicas take an   *)
(* owner who allows the HPA to go there.                                   *)
Sane(s, v) ==
    /\ v \in Object
    /\ v.originalReplicas \in {Nil, 1}
    /\ v.hpaOriginalMin \in {Nil, Default(s)}
    /\ s.hpaMax = 0 => GetReplicas(v) \in {1, 2}
    /\ Default(s) # 0 => GetReplicas(v) # 0

SaneMin(s, min) == min \in Nat \cup {Nil} /\ min \in {s.hpaMin, Default(s), 2}

SaneLog(s, w) ==
    /\ w \in Seq(Object) /\ w # <<>>
    /\ \A i \in 1 .. Len(w) : Sane(s, w[i])

SaneMins(s, h) ==
    /\ h \in Seq(Nat \cup {Nil}) /\ h # <<>>
    /\ \A i \in 1 .. Len(h) : SaneMin(s, h[i])

SaneJob(s, j) ==
    /\ j \in Job
    /\ j.patch # Nil => Sane(s, j.patch)
    /\ j.hpa \in {Nil, Default(s), 2}

(* The inductive invariant: every copy of the workload, in the log or on   *)
(* its way to the server, is sane, and so is every minReplicas.            *)
SaneInv ==
    /\ setup \in Setups
    /\ SaneLog(setup, wl)
    /\ SaneMins(setup, hpa)
    /\ job \in [Actors -> Job]
    /\ \A a \in Actors : SaneJob(setup, job[a])

-----------------------------------------------------------------------------
(* Absent values are not numbers.                                          *)

LEMMA NumbersAreNotNil == \A k \in Nat : k # Nil
BY NilAssumption

(* The setup's default minReplicas is a number.                            *)
LEMMA DefaultType ==
    ASSUME NEW s \in Setup
    PROVE  Default(s) \in Nat
BY DEF Default, Setup, HPAMinReplicasOrDefault

-----------------------------------------------------------------------------
(* Logs of versions.                                                       *)

(* What WriteWorkload appends is sane if the written version is.           *)
LEMMA SaneAppend ==
    ASSUME NEW s, NEW w, NEW v, SaneLog(s, w), Sane(s, v)
    PROVE  SaneLog(s, Append(w, v))
<1>1. v \in Object
  BY DEF Sane
<1>2. QED
  BY <1>1 DEF SaneLog

(* The watch takes the oldest version away and adds none.                  *)
LEMMA TailOf ==
    ASSUME NEW S, NEW w \in Seq(S), Len(w) > 1
    PROVE  /\ Tail(w) \in Seq(S) /\ Tail(w) # <<>>
           /\ \A i \in 1 .. Len(Tail(w)) : \E k \in 1 .. Len(w) : Tail(w)[i] = w[k]
<1>1. Len(w) \in Nat
  OBVIOUS
<1>2. /\ Tail(w) \in Seq(S) /\ Len(Tail(w)) = Len(w) - 1
      /\ \A i \in 1 .. Len(w) - 1 : Tail(w)[i] = w[i + 1]
  BY <1>1
<1>3. Tail(w) # <<>>
  <2>1. Len(Tail(w)) # 0
    BY <1>1, <1>2
  <2>2. Len(<<>>) = 0
    OBVIOUS
  <2>3. QED
    BY <2>1, <2>2, ZenonT(60)
<1>4. \A i \in 1 .. Len(w) - 1 : i + 1 \in 1 .. Len(w)
  BY <1>1
<1>5. QED
  BY <1>2, <1>3, <1>4

(* What the watch has not delivered yet is sane.                           *)
LEMMA SaneTail ==
    ASSUME NEW s, NEW w, SaneLog(s, w), Len(w) > 1
    PROVE  SaneLog(s, Tail(w))
BY TailOf DEF SaneLog

(* The cached version and the current one are sane.                        *)
LEMMA SaneEnds ==
    ASSUME NEW s, NEW w, SaneLog(s, w)
    PROVE  Sane(s, Head(w)) /\ Sane(s, w[Len(w)]) /\ SaneLog(s, <<w[Len(w)]>>)
<1>1. Len(w) \in 1 .. Len(w) /\ 1 \in 1 .. Len(w) /\ Head(w) = w[1]
  BY DEF SaneLog
<1>2. Sane(s, Head(w)) /\ Sane(s, w[Len(w)])
  BY <1>1 DEF SaneLog
<1>3. w[Len(w)] \in Object
  BY <1>2 DEF Sane
<1>4. SaneLog(s, <<w[Len(w)]>>)
  BY <1>2, <1>3 DEF SaneLog
<1>5. QED
  BY <1>2, <1>4

(* The same three facts about the versions of minReplicas.                 *)
LEMMA SaneMinsLog ==
    ASSUME NEW s, NEW h, SaneMins(s, h)
    PROVE  /\ \A min : SaneMin(s, min) => SaneMins(s, Append(h, min))
           /\ Len(h) > 1 => SaneMins(s, Tail(h))
           /\ SaneMin(s, Head(h)) /\ SaneMin(s, h[Len(h)])
           /\ SaneMins(s, <<h[Len(h)]>>)
<1>1. h \in Seq(Nat \cup {Nil}) /\ h # <<>> /\ \A i \in 1 .. Len(h) : SaneMin(s, h[i])
  BY DEF SaneMins
<1>2. ASSUME NEW min, SaneMin(s, min)
      PROVE  SaneMins(s, Append(h, min))
  BY <1>1, <1>2 DEF SaneMins, SaneMin
<1>3. ASSUME Len(h) > 1
      PROVE  SaneMins(s, Tail(h))
  BY <1>1, <1>3, TailOf DEF SaneMins
<1>4. SaneMin(s, Head(h)) /\ SaneMin(s, h[Len(h)])
  BY <1>1
<1>5. SaneMins(s, <<h[Len(h)]>>)
  BY <1>4 DEF SaneMins, SaneMin
<1>6. QED
  BY <1>2, <1>3, <1>4, <1>5
-----------------------------------------------------------------------------
(* What handlers, other writers and edits make of a sane version.          *)

(* A write may keep each of the fields that matter, drop it, or set it to  *)
(* the value from before a surge; the replicas may also become two.        *)
Follows(s, v, u) ==
    /\ u \in Object
    /\ u.replicas \in {v.replicas, Nil, 1, 2}
    /\ u.originalReplicas \in {v.originalReplicas, Nil, 1}
    /\ u.hpaOriginalMin \in {v.hpaOriginalMin, Nil, Default(s)}

LEMMA SaneFollows ==
    ASSUME NEW s, NEW v, Sane(s, v), NEW u, Follows(s, v, u)
    PROVE  Sane(s, u)
<1>1. GetReplicas(u) \in {GetReplicas(v), 1, 2}
  BY NumbersAreNotNil DEF Follows, GetReplicas
<1>2. QED
  BY <1>1 DEF Sane, Follows

(* A clock tick ages the start annotations and nothing else.               *)
LEMMA SaneOlder ==
    ASSUME NEW s, NEW v, Sane(s, v)
    PROVE  Sane(s, Older(v))
<1> DEFINE next(age, limit) == IF age \in 0 .. limit THEN age + 1 ELSE age
           d == next(v.drainStart, ReadinessTimeout)
           r == next(v.restartSurgeStart, RestartSurgeTimeout)
           o == Older(v)
<1>1. v \in Object
  BY DEF Sane
<1>2. /\ \A age \in Age \cup {Nil} : next(age, ReadinessTimeout) \in Age \cup {Nil}
      /\ \A age \in RestartAge \cup {Nil} :
           next(age, RestartSurgeTimeout) \in RestartAge \cup {Nil}
  BY TimeoutAssumption, NilAssumption DEF Age, RestartAge
<1>3. d \in Age \cup {Nil} /\ r \in RestartAge \cup {Nil}
  BY <1>1, <1>2 DEF Object
<1>4. o = [v EXCEPT !.drainStart = d, !.restartSurgeStart = r]
  BY <1>1 DEF Older, Object
<1> HIDE DEF next, d, r, o
<1>5. o \in Object
  BY <1>1, <1>3, <1>4, ZenonT(60) DEF Object
<1>6. /\ o.replicas = v.replicas /\ o.originalReplicas = v.originalReplicas
      /\ o.hpaOriginalMin = v.hpaOriginalMin
  BY <1>1, <1>4 DEF Object
<1>7. Follows(s, v, o)
  BY <1>5, <1>6, Zenon DEF Follows
<1>8. QED
  BY <1>7, SaneFollows DEF o

(* A merge patch takes record and replicas from the copy.                  *)
LEMMA SanePatch ==
    ASSUME NEW s, NEW v, NEW current, Sane(s, v), Sane(s, current)
    PROVE  Sane(s, Patch(current, v))
<1> DEFINE p == Patch(current, v)
<1>1. v \in Object /\ current \in Object
  BY DEF Sane
<1>2. p \in Object
  <2> DEFINE e == IF v.enabled = "true" THEN "true" ELSE current.enabled
  <2>1. e \in {"none", "true"}
    BY <1>1 DEF Object
  <2> HIDE DEF e
  <2>2. /\ current.status \in {"stable", "restarting", "progressing"}
        /\ current.restartAt \in Nat \cup {Nil} /\ current.restartedAt \in Nat \cup {Nil}
    BY <1>1 DEF Object
  <2>3. \A st \in {"stable", "restarting", "progressing"}, x, y \in Nat \cup {Nil} :
          [v EXCEPT !.enabled = e, !.status = st, !.restartAt = x, !.restartedAt = y] \in Object
    BY <1>1, <2>1, ZenonT(60) DEF Object
  <2>4. QED
    BY <2>2, <2>3, ZenonT(60) DEF e, Patch
<1>3. /\ p.replicas = v.replicas /\ p.originalReplicas = v.originalReplicas
      /\ p.hpaOriginalMin = v.hpaOriginalMin
  BY <1>1 DEF Patch, Object
<1> HIDE DEF p
<1>4. Follows(s, v, p)
  BY <1>2, <1>3, Zenon DEF Follows
<1>5. QED
  BY <1>4, SaneFollows DEF p

(* Setting the replicas to the original or the surged count.               *)
LEMMA SaneScaled ==
    ASSUME NEW s, NEW v, Sane(s, v), NEW r \in {Nil, 1, 2}
    PROVE  Sane(s, SetReplicas(v, r))
<1> DEFINE u == SetReplicas(v, r)
<1>1. v \in Object /\ r \in Nat \cup {Nil}
  BY DEF Sane
<1>2. /\ u \in Object
      /\ u.replicas = r /\ u.originalReplicas = v.originalReplicas
      /\ u.hpaOriginalMin = v.hpaOriginalMin
  BY <1>1 DEF SetReplicas, Object
<1> HIDE DEF u
<1>3. Follows(s, v, u)
  BY <1>2, Zenon DEF Follows
<1>4. QED
  BY <1>3, SaneFollows DEF u

(* The states of the two operations, what Argo and a rollout do, and the   *)
(* owner's opt-out have no part in it.                                     *)
LEMMA SaneOther ==
    ASSUME NEW s, NEW v, Sane(s, v)
    PROVE  /\ \A st \in DrainState \cup {"unknown"} :
                /\ Sane(s, [v EXCEPT !.drainState = st])
                /\ Sane(s, [v EXCEPT !.restartSurgeState = st])
           /\ \A st \in {"stable", "restarting", "progressing"} :
                Sane(s, [v EXCEPT !.status = st])
           /\ \A k \in Nat \cup {Nil} :
                /\ Sane(s, [v EXCEPT !.restartAt = k])
                /\ Sane(s, [v EXCEPT !.restartedAt = k])
           /\ Sane(s, [v EXCEPT !.enabled = "none"])
<1>1. v \in Object
  BY DEF Sane
<1>2. ASSUME NEW st \in DrainState \cup {"unknown"}
      PROVE  /\ Follows(s, v, [v EXCEPT !.drainState = st])
             /\ Follows(s, v, [v EXCEPT !.restartSurgeState = st])
  BY <1>1 DEF Object, Follows
<1>3. ASSUME NEW st \in {"stable", "restarting", "progressing"}
      PROVE  Follows(s, v, [v EXCEPT !.status = st])
  BY <1>1 DEF Object, Follows
<1>4. ASSUME NEW k \in Nat \cup {Nil}
      PROVE  /\ Follows(s, v, [v EXCEPT !.restartAt = k])
             /\ Follows(s, v, [v EXCEPT !.restartedAt = k])
  BY <1>1 DEF Object, Follows
<1>5. Follows(s, v, [v EXCEPT !.enabled = "none"])
  BY <1>1 DEF Object, Follows
<1>6. QED
  BY <1>2, <1>3, <1>4, <1>5, SaneFollows

(* The records that handlePending and handleRestartPending start with, of  *)
(* a workload with one replica.                                            *)
LEMMA SaneRecord ==
    ASSUME NEW s, NEW v, Sane(s, v), GetReplicas(v) = 1, NEW n \in Nodes
    PROVE  Sane(s, recordSurge(v, n))
<1> DEFINE u == [v EXCEPT !.drainState = "scaled-up", !.originalReplicas = 1,
                          !.drainNode = n, !.drainStart = 0]
<1>1. v \in Object /\ 0 \in Age /\ "scaled-up" \in DrainState \cup {"unknown"}
  BY TimeoutAssumption DEF Sane, Age, DrainState
<1>2. u \in Object
  BY <1>1, ZenonT(60) DEF Object
<1>3. /\ u.replicas = v.replicas /\ u.originalReplicas = 1
      /\ u.hpaOriginalMin = v.hpaOriginalMin
  BY <1>1 DEF Object
<1>4. u = recordSurge(v, n)
  BY DEF recordSurge
<1> HIDE DEF u
<1>5. Follows(s, v, u)
  BY <1>2, <1>3, Zenon DEF Follows
<1>6. QED
  BY <1>4, <1>5, SaneFollows

LEMMA SaneRestartRecord ==
    ASSUME NEW s, NEW v, Sane(s, v), GetReplicas(v) = 1
    PROVE  Sane(s, recordRestart(v))
<1> DEFINE u == [v EXCEPT !.restartSurgeState = "scaled-up", !.originalReplicas = 1,
                          !.restartSurgeStart = 0]
<1>1. v \in Object /\ 0 \in RestartAge /\ "scaled-up" \in DrainState \cup {"unknown"}
  BY TimeoutAssumption DEF Sane, RestartAge, DrainState
<1>2. u \in Object
  BY <1>1, ZenonT(60) DEF Object
<1>3. /\ u.replicas = v.replicas /\ u.originalReplicas = 1
      /\ u.hpaOriginalMin = v.hpaOriginalMin
  BY <1>1 DEF Object
<1>4. u = recordRestart(v)
  BY DEF recordRestart
<1> HIDE DEF u
<1>5. Follows(s, v, u)
  BY <1>2, <1>3, Zenon DEF Follows
<1>6. QED
  BY <1>4, <1>5, SaneFollows

(* The re-entry guard lets only a minReplicas from before the surge into   *)
(* the record.                                                             *)
LEMMA UnsurgedDefault ==
    ASSUME NEW s, NEW min, SaneMin(s, min), ~IsHPAAtMinReplicas(min, 2)
    PROVE  HPAMinReplicasOrDefault(min) = Default(s)
<1>1. min # 2
  BY NumbersAreNotNil DEF IsHPAAtMinReplicas
<1>2. min = s.hpaMin \/ min = Default(s)
  BY <1>1 DEF SaneMin
<1>3. Default(s) # Nil
  BY NumbersAreNotNil DEF Default, HPAMinReplicasOrDefault
<1>4. QED
  BY <1>2, <1>3 DEF Default, HPAMinReplicasOrDefault

LEMMA SaneRecordHPA ==
    ASSUME NEW s \in Setup, NEW v, Sane(s, v), NEW min, SaneMin(s, min),
           ~IsHPAAtMinReplicas(min, 2)
    PROVE  Sane(s, recordHPA(v, min))
<1> DEFINE d == HPAMinReplicasOrDefault(min)
           u == [v EXCEPT !.hpaName = "hpa", !.hpaOriginalMin = d]
<1>1. d = Default(s)
  BY UnsurgedDefault
<1>2. u \in Object
  <2>1. v \in Object /\ d \in Nat
    BY <1>1, DefaultType DEF Sane
  <2> HIDE DEF d
  <2>2. QED
    BY <2>1, ZenonT(60) DEF Object
<1>3. /\ u.replicas = v.replicas /\ u.originalReplicas = v.originalReplicas
      /\ u.hpaOriginalMin = d
  BY DEF Sane, Object
<1>4. u = recordHPA(v, min)
  BY DEF recordHPA
<1> HIDE DEF d, u
<1>5. Follows(s, v, u)
  BY <1>1, <1>2, <1>3, Zenon DEF Follows
<1>6. QED
  BY <1>4, <1>5, SaneFollows

(* Forgetting a record.                                                    *)
LEMMA SaneCleared ==
    ASSUME NEW s, NEW v, Sane(s, v)
    PROVE  /\ Sane(s, clearDrainAnnotations(v))
           /\ Sane(s, clearRestartSurgeExclusiveAnnotations(v))
           /\ Sane(s, clearRestartSurgeAnnotations(v))
<1> DEFINE c == clearDrainAnnotations(v)
           e == clearRestartSurgeExclusiveAnnotations(v)
           r == [e EXCEPT !.originalReplicas = Nil, !.hpaName = "none", !.hpaOriginalMin = Nil]
<1>1. v \in Object /\ "none" \in DrainState \cup {"unknown"}
  BY DEF Sane, DrainState
<1>2. c \in Object
  BY <1>1, ZenonT(60) DEF clearDrainAnnotations, Object
<1>3. e \in Object
  BY <1>1, ZenonT(60) DEF clearRestartSurgeExclusiveAnnotations, Object
<1>4. c.replicas = v.replicas /\ c.originalReplicas = Nil /\ c.hpaOriginalMin = Nil
  BY <1>1 DEF clearDrainAnnotations, Object
<1>5. /\ e.replicas = v.replicas /\ e.originalReplicas = v.originalReplicas
      /\ e.hpaOriginalMin = v.hpaOriginalMin
  BY <1>1 DEF clearRestartSurgeExclusiveAnnotations, Object
<1>6. r = clearRestartSurgeAnnotations(v)
  BY DEF clearRestartSurgeAnnotations
<1> HIDE DEF c, e
<1>7. r \in Object
  BY <1>3, ZenonT(60) DEF Object
<1>8. r.replicas = v.replicas /\ r.originalReplicas = Nil /\ r.hpaOriginalMin = Nil
  BY <1>3, <1>5 DEF Object
<1> HIDE DEF r
<1>9. Follows(s, v, c) /\ Follows(s, v, e) /\ Follows(s, v, r)
  BY <1>2, <1>3, <1>4, <1>5, <1>7, <1>8, Zenon DEF Follows
<1>10. QED
  BY <1>6, <1>9, SaneFollows DEF c, e

(* Putting the recorded replicas back, as abort, yield and scale-down do.  *)
LEMMA SaneRestored ==
    ASSUME NEW s, NEW v, Sane(s, v)
    PROVE  /\ Sane(s, aborted(v)) /\ Sane(s, abortedRestart(v)) /\ Sane(s, yielded(v))
           /\ Sane(s, scaledDown(v))
<1>1. v.originalReplicas \in {Nil, 1, 2}
  BY DEF Sane
<1>2. Sane(s, SetReplicas(v, v.originalReplicas))
  BY <1>1, SaneScaled
<1>3. /\ Sane(s, IF v.originalReplicas = Nil THEN v ELSE SetReplicas(v, v.originalReplicas))
      /\ Sane(s, IF v.hpaName = "none" /\ v.originalReplicas # Nil
                 THEN SetReplicas(v, v.originalReplicas) ELSE v)
      /\ Sane(s, scaledDown(v))
  BY <1>2 DEF scaledDown
<1>4. QED
  BY <1>3, SaneCleared DEF aborted, abortedRestart, yielded

(* What somebody makes of the annotations with kubectl.                    *)
LEMMA SaneEdits ==
    ASSUME NEW s, NEW v, Sane(s, v), NEW u \in Edits(v) \cup RestartEdits(v)
    PROVE  Sane(s, u)
<1>1. v \in Object /\ {"none", "pending", "unknown"} \subseteq DrainState \cup {"unknown"}
  BY DEF Sane, DrainState
<1>2. u \in Object
  <2>1. LostAnnotation(v) \subseteq Object
    BY <1>1 DEF LostAnnotation, Object
  <2>2. LostRestartAnnotation(v) \subseteq Object
    BY <1>1 DEF LostRestartAnnotation, Object
  <2>3. \A st \in {"pending", "unknown"} :
          [v EXCEPT !.drainState = st] \in Object /\ [v EXCEPT !.restartSurgeState = st] \in Object
    BY <1>1 DEF Object
  <2>4. [v EXCEPT !.drainState = "pending", !.originalReplicas = Nil] \in Object
    BY <1>1, ZenonT(60) DEF Object
  <2>5. [v EXCEPT !.restartSurgeState = "pending", !.originalReplicas = Nil] \in Object
    BY <1>1, ZenonT(60) DEF Object
  <2>6. ManualCleanup(v) \subseteq Object
    BY <1>1, ZenonT(120) DEF ManualCleanup, Object
  <2>7. RestartCleanup(v) \subseteq Object
    BY <1>1, ZenonT(180) DEF RestartCleanup, Object
  <2>8. DamagedState(v) \subseteq Object /\ DamagedRestartState(v) \subseteq Object
    BY <2>3, <2>4, <2>5, Zenon DEF DamagedState, DamagedRestartState
  <2>9. QED
    BY <2>1, <2>2, <2>6, <2>7, <2>8 DEF Edits, RestartEdits
<1> DEFINE Lossy == /\ u.replicas = v.replicas
                    /\ u.originalReplicas \in {v.originalReplicas, Nil}
                    /\ u.hpaOriginalMin \in {v.hpaOriginalMin, Nil}
<1>3. Lossy
  <2>1. ASSUME u \in LostAnnotation(v) \cup ManualCleanup(v) \cup DamagedState(v)
        PROVE  Lossy
    BY <1>1, <2>1, Zenon DEF LostAnnotation, ManualCleanup, DamagedState, Object
  <2>2. ASSUME u \in LostRestartAnnotation(v) \cup RestartCleanup(v) \cup DamagedRestartState(v)
        PROVE  Lossy
    BY <1>1, <2>2, Zenon DEF LostRestartAnnotation, RestartCleanup, DamagedRestartState, Object
  <2>3. \/ u \in LostAnnotation(v) \cup ManualCleanup(v) \cup DamagedState(v)
        \/ u \in LostRestartAnnotation(v) \cup RestartCleanup(v) \cup DamagedRestartState(v)
    BY DEF Edits, RestartEdits
  <2>4. QED
    BY <2>1, <2>2, <2>3, Zenon
<1>4. QED
  BY <1>2, <1>3, SaneFollows DEF Follows

-----------------------------------------------------------------------------
(* Jobs.                                                                   *)

(* What restoreHPA sends is the minReplicas from before the surge.         *)
LEMMA RestoredMin ==
    ASSUME NEW s, NEW v, Sane(s, v)
    PROVE  restoreHPA(v) \in Nat \cup {Nil} /\ restoreHPA(v) \in {Nil, Default(s)}
BY DEF restoreHPA, Sane, Object

LEMMA SaneJobOf ==
    ASSUME NEW s, NEW v, Sane(s, v), NEW kind \in Kinds, NEW min \in Nat \cup {Nil},
           min \in {Nil, Default(s), 2}
    PROVE  SaneJob(s, [kind |-> kind, patch |-> v, hpa |-> min])
<1>1. v \in Object
  BY DEF Sane
<1>2. QED
  BY <1>1 DEF SaneJob, Job

(* The jobs that only patch the workload, and those of the two aborts.     *)
LEMMA SaneJobs ==
    ASSUME NEW s, NEW v, Sane(s, v), NEW kind \in Kinds
    PROVE  /\ SaneJob(s, patchJob(kind, v))
           /\ SaneJob(s, abortJob(kind, v)) /\ SaneJob(s, abortRestartJob(kind, v))
<1>1. Sane(s, aborted(v)) /\ Sane(s, abortedRestart(v))
  BY SaneRestored
<1>2. restoreHPA(v) \in Nat \cup {Nil} /\ restoreHPA(v) \in {Nil, Default(s), 2}
  BY RestoredMin
<1>3. QED
  BY <1>1, <1>2, SaneJobOf, Zenon DEF patchJob, abortJob, abortRestartJob

-----------------------------------------------------------------------------
(* Handlers.                                                               *)

(* A handler that decides on sane calls, or on none, preserves the         *)
(* invariant.                                                              *)
LEMMA SaneCall ==
    ASSUME SaneInv, UNCHANGED clusterVars, NEW a \in Actors, NEW j, SaneJob(setup, j),
           Call(a, j)
    PROVE  SaneInv'
BY DEF SaneInv, Call, SaneJob, clusterVars

LEMMA SaneReturn ==
    ASSUME SaneInv, UNCHANGED clusterVars, UNCHANGED job
    PROVE  SaneInv'
BY DEF SaneInv, clusterVars

(* The cached copies a handler reads are sane.                             *)
LEMMA SaneCached ==
    ASSUME SaneInv
    PROVE  /\ Sane(setup, Cached) /\ Sane(setup, Current)
           /\ SaneMin(setup, CachedHPA) /\ SaneMin(setup, CurrentHPA)
           /\ setup \in Setup /\ setup.hpaMax \in Nat
<1>1. setup \in Setup
  BY ClusterAssumption DEF SaneInv
<1>2. setup.hpaMax \in Nat
  BY <1>1 DEF Setup
<1>3. SaneLog(setup, wl) /\ SaneMins(setup, hpa)
  BY DEF SaneInv
<1>4. Sane(setup, Cached) /\ Sane(setup, Current)
  BY <1>3, SaneEnds, Zenon DEF Cached, Current
<1>5. SaneMin(setup, CachedHPA) /\ SaneMin(setup, CurrentHPA)
  BY <1>3, SaneMinsLog, Zenon DEF CachedHPA, CurrentHPA
<1>6. QED
  BY <1>1, <1>2, <1>4, <1>5

(* The two surges of a workload with one replica, of either reconciler: on *)
(* the replicas, or on a minReplicas the guard has found not surged yet.   *)
LEMMA SaneSurges ==
    ASSUME SaneInv, NEW w, Sane(setup, w)
    PROVE  /\ SaneJob(setup, patchJob("surge", SetReplicas(w, 2)))
           /\ ~IsHPAAtMinReplicas(CachedHPA, 2) =>
                SaneJob(setup, [kind |-> "surge", hpa |-> 2, patch |-> recordHPA(w, CachedHPA)])
<1>1. SaneJob(setup, patchJob("surge", SetReplicas(w, 2)))
  BY SaneScaled, SaneJobs DEF Kinds
<1>2. ASSUME ~IsHPAAtMinReplicas(CachedHPA, 2)
      PROVE  SaneJob(setup, [kind |-> "surge", hpa |-> 2, patch |-> recordHPA(w, CachedHPA)])
  <2>1. Sane(setup, recordHPA(w, CachedHPA))
    BY <1>2, SaneCached, SaneRecordHPA
  <2>2. QED
    BY <2>1, SaneJobOf DEF Kinds
<1>3. QED
  BY <1>1, <1>2

(* handlePending.                                                          *)
LEMMA SanePending ==
    ASSUME SaneInv, NEW n \in Nodes, handlePending(n)
    PROVE  SaneInv'
<1>1. Sane(setup, Cached) /\ n \in Actors
  BY SaneCached DEF Actors, Keys
<1>2. UNCHANGED clusterVars /\ GetReplicas(Cached) = 1 /\ GetReplicas(Cached) + 1 = 2
  BY DEF handlePending, Reconciling, Dequeue, shouldProcess
<1>3. Sane(setup, recordSurge(Cached, n))
  BY <1>1, <1>2, SaneRecord
<1>4. \/ Call(n, patchJob("surge", SetReplicas(recordSurge(Cached, n), 2)))
      \/ RequeueAfter(n)
      \/ /\ ~IsHPAAtMinReplicas(CachedHPA, 2)
         /\ Call(n, [kind |-> "surge", hpa |-> 2,
                     patch |-> recordHPA(recordSurge(Cached, n), CachedHPA)])
  BY <1>2 DEF handlePending
<1>5. CASE RequeueAfter(n)
  BY <1>2, <1>5, SaneReturn DEF RequeueAfter
<1>6. QED
  BY <1>1, <1>2, <1>3, <1>4, <1>5, SaneSurges, SaneCall

(* handleScaleUp re-applies a surge that is not there yet.                 *)
LEMMA SaneScaleUp ==
    ASSUME SaneInv, NEW n \in Nodes, handleScaleUp(n)
    PROVE  SaneInv'
<1> DEFINE v == Cached
           target == IF GetReplicas(v) <= v.originalReplicas THEN v.originalReplicas + 1
                     ELSE v.replicas
           u == [v EXCEPT !.replicas = target, !.drainState = "scaled-up"]
<1>1. Sane(setup, v) /\ n \in Actors /\ UNCHANGED clusterVars
  BY SaneCached DEF handleScaleUp, InState, Reconciling, Dequeue, Actors, Keys
<1>2. \/ Call(n, abortJob("abort", v))
      \/ v.originalReplicas # Nil /\ Call(n, patchJob("advance", u))
  BY DEF handleScaleUp
<1> HIDE DEF v
<1>3. CASE Call(n, abortJob("abort", v))
  BY <1>1, <1>3, SaneJobs, SaneCall DEF Kinds
<1>4. CASE v.originalReplicas # Nil /\ Call(n, patchJob("advance", u))
  <2>1. v \in Object /\ v.originalReplicas = 1 /\ "scaled-up" \in DrainState \cup {"unknown"}
    BY <1>1, <1>4 DEF Sane, DrainState
  <2>2. target \in {2, v.replicas} /\ target \in Nat \cup {Nil}
    BY <2>1 DEF Object
  <2> HIDE DEF target
  <2>3. u \in Object
    BY <2>1, <2>2, ZenonT(60) DEF Object
  <2>4. /\ u.replicas = target /\ u.originalReplicas = v.originalReplicas
        /\ u.hpaOriginalMin = v.hpaOriginalMin
    BY <2>1 DEF Object
  <2> HIDE DEF u
  <2>5. Sane(setup, u)
    BY <1>1, <2>2, <2>3, <2>4, SaneFollows DEF Follows
  <2>6. QED
    BY <1>1, <1>4, <2>5, SaneJobs, SaneCall DEF Kinds
<1>5. QED
  BY <1>2, <1>3, <1>4

(* The jobs with which either reconciler moves an operation on.            *)
LEMMA SaneAdvances ==
    ASSUME NEW s, NEW v, Sane(s, v)
    PROVE  /\ v.originalReplicas # Nil =>
                SaneJob(s, patchJob("advance", SetReplicas(v, v.originalReplicas + 1)))
           /\ \A st \in DrainState :
                /\ SaneJob(s, patchJob("advance", [v EXCEPT !.drainState = st]))
                /\ SaneJob(s, patchJob("advance", [v EXCEPT !.restartSurgeState = st]))
                /\ SaneJob(s, patchJob("advance", [scaledDown(v) EXCEPT !.drainState = st]))
                /\ SaneJob(s, patchJob("advance", [scaledDown(v) EXCEPT !.restartSurgeState = st]))
                /\ SaneJob(s, [kind |-> "advance", hpa |-> restoreHPA(v),
                               patch |-> [scaledDown(v) EXCEPT !.drainState = st]])
                /\ SaneJob(s, [kind |-> "advance", hpa |-> restoreHPA(v),
                               patch |-> [scaledDown(v) EXCEPT !.restartSurgeState = st]])
<1>1. ASSUME v.originalReplicas # Nil
      PROVE  SaneJob(s, patchJob("advance", SetReplicas(v, v.originalReplicas + 1)))
  <2>1. v.originalReplicas + 1 = 2
    BY <1>1 DEF Sane
  <2>2. QED
    BY <2>1, SaneScaled, SaneJobs DEF Kinds
<1>2. Sane(s, scaledDown(v))
  BY SaneRestored
<1>3. restoreHPA(v) \in Nat \cup {Nil} /\ restoreHPA(v) \in {Nil, Default(s), 2}
  BY RestoredMin
<1>4. ASSUME NEW st \in DrainState, NEW u, Sane(s, u)
      PROVE  /\ SaneJob(s, patchJob("advance", [u EXCEPT !.drainState = st]))
             /\ SaneJob(s, patchJob("advance", [u EXCEPT !.restartSurgeState = st]))
             /\ SaneJob(s, [kind |-> "advance", hpa |-> restoreHPA(v),
                            patch |-> [u EXCEPT !.drainState = st]])
             /\ SaneJob(s, [kind |-> "advance", hpa |-> restoreHPA(v),
                            patch |-> [u EXCEPT !.restartSurgeState = st]])
  <2>1. Sane(s, [u EXCEPT !.drainState = st]) /\ Sane(s, [u EXCEPT !.restartSurgeState = st])
    BY <1>4, SaneOther, Zenon
  <2>2. QED
    BY <1>3, <2>1, SaneJobs, SaneJobOf DEF Kinds
<1>5. QED
  BY <1>1, <1>2, <1>4, Zenon

(* Every handler of a node's reconcile preserves the invariant.            *)
LEMMA SaneReconcile ==
    ASSUME SaneInv, NEW n \in Nodes, Reconcile(n)
    PROVE  SaneInv'
<1> DEFINE v == Cached
<1>1. Sane(setup, v) /\ n \in Actors
  BY SaneCached DEF Actors, Keys
<1>2. Dequeue(n)
  BY DEF Reconcile, abortWorkloadsForNode, NothingOnNode, DrainTimeout, OtherNodeDrains,
         SkipWorkload, handlePending, handleScaleUp, handleWaitReady, handleWaitEviction,
         handleScaleDown, handleCleanup, UnknownState, InState, Reconciling
<1>3. UNCHANGED clusterVars
  BY <1>2 DEF Dequeue
<1>4. ASSUME Return(n) \/ RequeueAfter(n)
      PROVE  SaneInv'
  BY <1>3, <1>4, SaneReturn DEF Return, RequeueAfter
<1>5. ASSUME NEW j, SaneJob(setup, j), Call(n, j)
      PROVE  SaneInv'
  BY <1>1, <1>3, <1>5, SaneCall
<1>6. ASSUME NEW kind \in {"abort", "abortNode", "finish"}, Call(n, abortJob(kind, v))
      PROVE  SaneInv'
  BY <1>1, <1>5, <1>6, SaneJobs DEF Kinds
<1>7. CASE abortWorkloadsForNode(n)
  BY <1>4, <1>6, <1>7 DEF abortWorkloadsForNode
<1>8. CASE NothingOnNode(n) \/ OtherNodeDrains(n) \/ SkipWorkload(n)
  BY <1>4, <1>8 DEF NothingOnNode, OtherNodeDrains, SkipWorkload
<1>9. CASE DrainTimeout(n) \/ UnknownState(n)
  BY <1>6, <1>9 DEF DrainTimeout, UnknownState
<1>10. CASE handlePending(n)
  BY <1>10, SanePending
<1>11. CASE handleScaleUp(n)
  BY <1>11, SaneScaleUp, SMTT(30)
<1>12. CASE handleWaitReady(n)
  <2>1. \/ Call(n, abortJob("abort", v)) \/ RequeueAfter(n)
        \/ /\ v.originalReplicas # Nil
           /\ Call(n, patchJob("advance", SetReplicas(v, v.originalReplicas + 1)))
        \/ Call(n, patchJob("advance", [v EXCEPT !.drainState = "ready"]))
    BY <1>12, SMTT(30) DEF handleWaitReady, WasReset
  <2>2. QED
    BY <1>1, <1>4, <1>5, <1>6, <2>1, SaneAdvances, Zenon DEF DrainState
<1>13. CASE handleWaitEviction(n)
  <2>1. \/ RequeueAfter(n) \/ Return(n) \/ Call(n, abortJob("finish", v))
        \/ Call(n, [kind |-> "advance", hpa |-> restoreHPA(v),
                    patch |-> [scaledDown(v) EXCEPT !.drainState = "draining"]])
    BY <1>13, SMTT(30) DEF handleWaitEviction
  <2>2. QED
    BY <1>1, <1>4, <1>5, <1>6, <2>1, SaneAdvances, Zenon DEF DrainState
<1>14. CASE handleScaleDown(n)
  <2>1. \/ Call(n, abortJob("abort", v))
        \/ Call(n, patchJob("advance", [scaledDown(v) EXCEPT !.drainState = "done"]))
    BY <1>14 DEF handleScaleDown
  <2>2. QED
    BY <1>1, <1>5, <1>6, <2>1, SaneAdvances, Zenon DEF DrainState
<1>15. CASE handleCleanup(n)
  <2>1. Call(n, patchJob("finish", clearDrainAnnotations(v)))
    BY <1>15 DEF handleCleanup
  <2>2. QED
    BY <1>1, <1>5, <2>1, SaneCleared, SaneJobs DEF Kinds
<1>16. QED
  BY <1>7, <1>8, <1>9, <1>10, <1>11, <1>12, <1>13, <1>14, <1>15 DEF Reconcile

(* handleRestartPending, with the surges of handlePending.                 *)
LEMMA SaneRestartPending ==
    ASSUME SaneInv, handleRestartPending
    PROVE  SaneInv'
<1>1. Sane(setup, Cached) /\ Rollout \in Actors /\ UNCHANGED clusterVars
  BY SaneCached DEF Actors, Keys, handleRestartPending, InRestartState, DequeueRollout
<1>2. CASE Return(Rollout) \/ RequeueAfter(Rollout)
  BY <1>1, <1>2, SaneReturn DEF Return, RequeueAfter
<1>3. CASE ~(Return(Rollout) \/ RequeueAfter(Rollout))
  <2>1. GetReplicas(Cached) = 1 /\ GetReplicas(Cached) + 1 = 2
    BY <1>3 DEF handleRestartPending, Eligible
  <2>2. Sane(setup, recordRestart(Cached))
    BY <1>1, <2>1, SaneRestartRecord
  <2>3. \/ Call(Rollout, patchJob("surge", SetReplicas(recordRestart(Cached), 2)))
        \/ /\ ~IsHPAAtMinReplicas(CachedHPA, 2)
           /\ Call(Rollout, [kind |-> "surge", hpa |-> 2,
                             patch |-> recordHPA(recordRestart(Cached), CachedHPA)])
    BY <1>3, <2>1 DEF handleRestartPending
  <2>4. QED
    BY <1>1, <2>2, <2>3, SaneSurges, SaneCall
<1>4. QED
  BY <1>2, <1>3

(* Every handler of the restart reconciler preserves the invariant.        *)
LEMMA SaneReconcileRollout ==
    ASSUME SaneInv, ReconcileRollout
    PROVE  SaneInv'
<1> DEFINE v == Cached
<1>1. Sane(setup, v) /\ Rollout \in Actors
  BY SaneCached, SMTT(30) DEF Actors, Keys
<1>2. UNCHANGED clusterVars
  BY DEF ReconcileRollout, RestartTimeout, yieldToDrain, handleRestartPending,
         handleRestartScaleUp, handleRestartWaitReady, handleRestartWaitForArgo,
         handleRestartScaleDown, handleRestartCleanup, UnknownRestartState, InRestartState,
         DequeueRollout
<1>3. ASSUME Return(Rollout) \/ RequeueAfter(Rollout)
      PROVE  SaneInv'
  BY <1>2, <1>3, SaneReturn DEF Return, RequeueAfter
<1>4. ASSUME NEW j, SaneJob(setup, j), Call(Rollout, j)
      PROVE  SaneInv'
  BY <1>1, <1>2, <1>4, SaneCall
<1>5. ASSUME NEW kind \in {"abort", "finish"}, Call(Rollout, abortRestartJob(kind, v))
      PROVE  SaneInv'
  BY <1>1, <1>4, <1>5, SaneJobs DEF Kinds
<1>6. CASE RestartTimeout \/ UnknownRestartState
  BY <1>5, <1>6 DEF RestartTimeout, UnknownRestartState
<1>7. CASE yieldToDrain
  <2>1. Call(Rollout, patchJob("finish", yielded(v))) \/ Return(Rollout)
    BY <1>7 DEF yieldToDrain
  <2>2. QED
    BY <1>1, <1>3, <1>4, <2>1, SaneRestored, SaneJobs DEF Kinds
<1>8. CASE handleRestartPending
  BY <1>8, SaneRestartPending, SMTT(30)
<1>9. CASE handleRestartScaleUp \/ handleRestartWaitReady
  <2>1. \/ Call(Rollout, abortRestartJob("abort", v)) \/ RequeueAfter(Rollout)
        \/ /\ v.originalReplicas # Nil
           /\ Call(Rollout, patchJob("advance", SetReplicas(v, v.originalReplicas + 1)))
        \/ Call(Rollout, patchJob("advance", [v EXCEPT !.restartSurgeState = "ready"]))
    BY <1>9, SMTT(30) DEF handleRestartScaleUp, handleRestartWaitReady, WasReset
  <2>2. QED
    BY <1>1, <1>3, <1>4, <1>5, <2>1, SaneAdvances, Zenon DEF DrainState
<1>10. CASE handleRestartWaitForArgo
  <2>1. \/ RequeueAfter(Rollout) \/ Call(Rollout, abortRestartJob("finish", v))
        \/ Call(Rollout, [kind |-> "advance", hpa |-> restoreHPA(v),
                          patch |-> [scaledDown(v) EXCEPT !.restartSurgeState = "draining"]])
    BY <1>10, SMTT(30) DEF handleRestartWaitForArgo
  <2>2. QED
    BY <1>1, <1>3, <1>4, <1>5, <2>1, SaneAdvances, Zenon DEF DrainState
<1>11. CASE handleRestartScaleDown
  <2>1. \/ Call(Rollout, abortRestartJob("abort", v))
        \/ Call(Rollout, patchJob("advance", [scaledDown(v) EXCEPT !.restartSurgeState = "done"]))
    BY <1>11 DEF handleRestartScaleDown
  <2>2. QED
    BY <1>1, <1>4, <1>5, <2>1, SaneAdvances, Zenon DEF DrainState
<1>12. CASE handleRestartCleanup
  <2>1. Call(Rollout, patchJob("finish", clearRestartSurgeAnnotations(v)))
    BY <1>12 DEF handleRestartCleanup
  <2>2. QED
    BY <1>1, <1>4, <2>1, SaneCleared, SaneJobs DEF Kinds
<1>13. QED
  BY <1>6, <1>7, <1>8, <1>9, <1>10, <1>11, <1>12 DEF ReconcileRollout

-----------------------------------------------------------------------------
(* API calls, other writers, watches, failover and time.                   *)

(* The server stores a sane version, or nothing.                           *)
LEMMA SaneWrite ==
    ASSUME SaneInv, NEW v, Sane(setup, v), UNCHANGED wl \/ WriteWorkload(v)
    PROVE  SaneLog(setup, wl')
<1>1. wl' = wl \/ wl' = Append(wl, v)
  BY DEF WriteWorkload
<1>2. SaneLog(setup, wl) /\ SaneLog(setup, Append(wl, v))
  BY SaneAppend DEF SaneInv
<1>3. QED
  BY <1>1, <1>2, Zenon

(* A step that writes the workload and leaves the rest alone.              *)
LEMMA SaneWriter ==
    ASSUME SaneInv, NEW v, Sane(setup, v), WriteWorkload(v), UNCHANGED <<hpa, setup, job>>
    PROVE  SaneInv'
BY SaneWrite DEF SaneInv

(* What remains of a sane job is sane, and so is an idle actor.            *)
LEMMA SaneRest ==
    ASSUME NEW s, NEW j, SaneJob(s, j)
    PROVE  /\ SaneJob(s, [j EXCEPT !.patch = Nil])
           /\ SaneJob(s, [j EXCEPT !.hpa = Nil])
BY DEF SaneJob, Job

LEMMA SaneIdle == \A s : SaneJob(s, Idle)
BY DEF SaneJob, Job, Idle, Kinds

(* The jobs of the others do not change when one actor's call is over.     *)
LEMMA SaneAfterCall ==
    ASSUME SaneInv, NEW a \in Actors, NEW j, SaneJob(setup, j),
           AfterCall(a, j) \/ \E requeue \in BOOLEAN : EndJob(a, requeue)
    PROVE  job' \in [Actors -> Job] /\ \A b \in Actors : SaneJob(setup, job'[b])
<1>1. PICK k : SaneJob(setup, k) /\ job' = [job EXCEPT ![a] = k]
  BY SaneIdle DEF AfterCall, EndJob
<1>2. QED
  BY <1>1 DEF SaneInv, SaneJob

(* A patch of the workload, whether its error is reported or not.          *)
LEMMA SanePatchWorkload ==
    ASSUME SaneInv, NEW a \in Actors, PatchWorkload(a) \/ PatchWorkloadFails(a)
    PROVE  SaneInv'
<1> DEFINE v == Patch(Current, job[a].patch)
           rest == [job[a] EXCEPT !.patch = Nil]
<1>1. SaneJob(setup, job[a]) /\ job[a].patch # Nil
  BY DEF SaneInv, PatchWorkload, PatchWorkloadFails, PatchesWorkloadNext
<1>2. Sane(setup, v)
  BY <1>1, SaneCached, SanePatch DEF SaneJob
<1>3. SaneJob(setup, rest)
  BY <1>1, SaneRest
<1>4. /\ UNCHANGED wl \/ WriteWorkload(v)
      /\ UNCHANGED <<hpa, setup>>
  BY DEF PatchWorkload, PatchWorkloadFails
<1>5. AfterCall(a, rest) \/ \E requeue \in BOOLEAN : EndJob(a, requeue)
  BY Zenon DEF PatchWorkload, PatchWorkloadFails
<1>6. SaneLog(setup, wl')
  BY <1>2, <1>4, SaneWrite
<1>7. job' \in [Actors -> Job] /\ \A b \in Actors : SaneJob(setup, job'[b])
  BY <1>3, <1>5, SaneAfterCall
<1>8. QED
  BY <1>4, <1>6, <1>7 DEF SaneInv

(* A patch of the HPA, likewise.                                           *)
LEMMA SanePatchHPA ==
    ASSUME SaneInv, NEW a \in Actors, PatchHPAMinReplicas(a) \/ PatchHPAFails(a)
    PROVE  SaneInv'
<1> DEFINE min == job[a].hpa
           rest == [job[a] EXCEPT !.hpa = Nil]
<1>1. SaneJob(setup, job[a]) /\ min # Nil
  BY DEF SaneInv, PatchHPAMinReplicas, PatchHPAFails, PatchesHPANext
<1>2. SaneMin(setup, min)
  BY <1>1 DEF SaneJob, SaneMin, Job
<1>3. SaneJob(setup, rest)
  BY <1>1, SaneRest
<1>4. /\ UNCHANGED hpa \/ WriteHPA(min)
      /\ UNCHANGED <<wl, setup>>
  BY DEF PatchHPAMinReplicas, PatchHPAFails
<1>5. AfterCall(a, rest) \/ \E requeue \in BOOLEAN : EndJob(a, requeue)
  BY Zenon DEF PatchHPAMinReplicas, PatchHPAFails
<1>6. hpa' = hpa \/ hpa' = Append(hpa, min)
  BY <1>4 DEF WriteHPA
<1>7. SaneMins(setup, hpa')
  BY <1>2, <1>6, SaneMinsLog, Zenon DEF SaneInv
<1>8. job' \in [Actors -> Job] /\ \A b \in Actors : SaneJob(setup, job'[b])
  BY <1>3, <1>5, SaneAfterCall
<1>9. QED
  BY <1>4, <1>7, <1>8 DEF SaneInv

(* Both orphan scans abort what they read from the cache.                  *)
LEMMA SaneOrphans ==
    ASSUME SaneInv, RecoverOrphans \/ RecoverRestartOrphans
    PROVE  SaneInv'
<1>1. UNCHANGED clusterVars
  BY DEF RecoverOrphans, ListNodes, AbortOrphans, RecoverRestartOrphans
<1>2. \/ UNCHANGED job
      \/ job' = [job EXCEPT ![Orphans] = abortJob("abort", Cached)]
      \/ job' = [job EXCEPT ![Orphans] = abortRestartJob("abort", Cached)]
  BY DEF RecoverOrphans, ListNodes, AbortOrphans, RecoverRestartOrphans
<1>3. /\ SaneJob(setup, abortJob("abort", Cached))
      /\ SaneJob(setup, abortRestartJob("abort", Cached))
  BY SaneCached, SaneJobs DEF Kinds
<1>4. job' \in [Actors -> Job] /\ \A b \in Actors : SaneJob(setup, job'[b])
  BY <1>2, <1>3 DEF SaneInv, SaneJob
<1>5. QED
  BY <1>1, <1>4 DEF SaneInv, clusterVars

(* Nodes and pods come and go without a word to the workload.              *)
LEMMA SaneNodesAndPods ==
    ASSUME SaneInv, NEW n \in Nodes,
           \/ NodeEvent(n) \/ Heartbeat(n)
           \/ PodChange(n) /\ UNCHANGED job
           \/ ArgoEvict(n) /\ UNCHANGED job
    PROVE  SaneInv'
<1>1. UNCHANGED job
  BY DEF NodeEvent, Heartbeat, Enqueue
<1>2. CASE NodeEvent(n) \/ Heartbeat(n)
  <2>1. UNCHANGED <<wl, hpa, setup>>
    BY <1>2 DEF NodeEvent, Heartbeat, Taint, Untaint, DeleteNode, clusterVars
  <2>2. QED
    BY <1>1, <2>1 DEF SaneInv
<1>3. CASE PodChange(n) \/ ArgoEvict(n)
  <2>1. UNCHANGED <<wl, hpa, setup>>
    BY <1>3, Zenon DEF PodChange, CreatePod, PodReady, PodNotReady, DeleteSurplus, Evict, ArgoEvict,
                       DeletePod
  <2>2. QED
    BY <1>1, <2>1 DEF SaneInv
<1>4. QED
  BY <1>2, <1>3

(* The watches deliver the next version of the workload or of the HPA.     *)
LEMMA SaneDeliver ==
    ASSUME SaneInv, UNCHANGED job, DeliverWorkload \/ DeliverHPA
    PROVE  SaneInv'
<1>1. CASE DeliverWorkload
  <2>1. SaneLog(setup, wl')
    BY <1>1, SaneTail DEF DeliverWorkload, SaneInv
  <2>2. QED
    BY <1>1, <2>1 DEF DeliverWorkload, SaneInv
<1>2. CASE DeliverHPA
  <2>1. SaneMins(setup, hpa')
    BY <1>2, SaneMinsLog, Zenon DEF DeliverHPA, SaneInv
  <2>2. QED
    BY <1>2, <2>1 DEF DeliverHPA, SaneInv
<1>3. QED
  BY <1>1, <1>2

(* The HPA controller sets the replicas to no less than a minReplicas that *)
(* is the owner's or the surged one.                                       *)
LEMMA SaneAutoscaled ==
    ASSUME NEW s \in Setup, NEW v, Sane(s, v), NEW min, SaneMin(s, min), s.hpaMax # 0,
           NEW r \in Nat, r >= HPAMinReplicasOrDefault(min)
    PROVE  Sane(s, SetReplicas(v, r))
<1> DEFINE u == SetReplicas(v, r)
<1>1. v \in Object /\ Default(s) \in Nat
  BY DefaultType DEF Sane
<1>2. HPAMinReplicasOrDefault(min) \in {Default(s), 2}
  BY <1>1, NumbersAreNotNil DEF SaneMin, Default, HPAMinReplicasOrDefault
<1>3. /\ u \in Object /\ u.replicas = r /\ u.originalReplicas = v.originalReplicas
      /\ u.hpaOriginalMin = v.hpaOriginalMin
  BY <1>1 DEF SetReplicas, Object
<1> HIDE DEF u
<1>4. Default(s) # 0 => r # 0
  BY <1>1, <1>2
<1>5. Default(s) # 0 => GetReplicas(u) # 0
  BY <1>3, <1>4 DEF GetReplicas
<1>6. Sane(s, u)
  BY <1>3, <1>5 DEF Sane
<1>7. QED
  BY <1>6 DEF u

(* The other writers of the object.                                        *)
LEMMA SaneOtherWriter ==
    ASSUME SaneInv, OtherWriter, UNCHANGED job
    PROVE  SaneInv'
<1>1. /\ Sane(setup, Current) /\ SaneMin(setup, CurrentHPA) /\ setup \in Setup
      /\ setup.hpaMax \in Nat /\ HPAMinReplicasOrDefault(CurrentHPA) \in Nat
  BY SaneCached DEF SaneMin, HPAMinReplicasOrDefault
<1>2. UNCHANGED <<hpa, setup>>
  BY DEF OtherWriter, HPAScale, HPALoad, ResetReplicas, RolloutStarts, RolloutEnds, OptOut
<1>3. PICK v : Sane(setup, v) /\ WriteWorkload(v)
  <2>1. CASE HPAScale
    BY <1>1, <2>1, SaneAutoscaled DEF HPAScale
  <2>2. CASE HPALoad
    <3>1. PICK r \in HPAMinReplicasOrDefault(CurrentHPA) .. setup.hpaMax :
            WriteWorkload(SetReplicas(Current, r))
      BY <2>2 DEF HPALoad
    <3>2. r \in Nat /\ r >= HPAMinReplicasOrDefault(CurrentHPA) /\ setup.hpaMax # 0
      BY <1>1, <2>2, <3>1 DEF HPALoad
    <3>3. QED
      BY <1>1, <3>1, <3>2, SaneAutoscaled
  <2>3. CASE ResetReplicas
    BY <1>1, <2>3, SaneScaled DEF ResetReplicas
  <2>4. CASE RolloutStarts
    BY <1>1, <2>4, SaneOther, Zenon DEF RolloutStarts
  <2>5. CASE RolloutEnds
    BY <1>1, <2>5, SaneOther, Zenon DEF RolloutEnds
  <2>6. CASE OptOut
    BY <1>1, <2>6, SaneOther, Zenon DEF OptOut
  <2>7. QED
    BY <2>1, <2>2, <2>3, <2>4, <2>5, <2>6 DEF OtherWriter
<1>4. QED
  BY <1>2, <1>3, SaneWriter

(* Restart requests and Argo's status.                                     *)
LEMMA SaneArgo ==
    ASSUME SaneInv, Argo, restarts \in Nat
    PROVE  SaneInv'
<1>1. Sane(setup, Current) /\ Current \in Object
  BY SaneCached DEF Sane
<1>2. UNCHANGED <<hpa, setup, job>>
  BY DEF Argo, RequestRestart, ClearRestart, GraceEnds, ArgoRestarts, ArgoFinishes, clusterVars,
         reconcilerVars
<1> DEFINE calm == IF Current.status = "restarting" THEN "stable" ELSE Current.status
<1>3. /\ calm \in {"stable", "restarting", "progressing"}
      /\ Current.restartAt \in Nat \cup {Nil} /\ Current.restartedAt \in Nat \cup {Nil}
  BY <1>1 DEF Object
<1>4. CASE GraceEnds
  BY <1>2, <1>4 DEF GraceEnds, clusterVars, SaneInv
<1>5. CASE RequestRestart
  <2>1. restarts + 1 \in Nat \cup {Nil}
    OBVIOUS
  <2>2. Sane(setup, [Current EXCEPT !.restartAt = restarts + 1])
    BY <1>1, <2>1, SaneOther, Zenon
  <2>3. QED
    BY <1>2, <1>5, <2>2, SaneWriter DEF RequestRestart
<1>6. CASE ClearRestart
  <2> DEFINE u == [Current EXCEPT !.restartAt = Nil]
             w == [u EXCEPT !.status = calm]
  <2>1. Sane(setup, u)
    BY <1>1, SaneOther, Zenon
  <2>2. Sane(setup, w)
    BY <1>3, <2>1, SaneOther, Zenon
  <2>3. WriteWorkload(w)
    BY <1>1, <1>6 DEF ClearRestart, Object
  <2>4. QED
    BY <1>2, <2>2, <2>3, SaneWriter
<1>7. CASE ArgoRestarts
  BY <1>1, <1>2, <1>7, SaneOther, SaneWriter, Zenon DEF ArgoRestarts
<1>8. CASE ArgoFinishes
  <2> DEFINE u == [Current EXCEPT !.restartedAt = Current.restartAt]
             w == [u EXCEPT !.status = calm]
  <2>1. Sane(setup, u)
    BY <1>1, <1>3, SaneOther, Zenon
  <2>2. Sane(setup, w)
    BY <1>3, <2>1, SaneOther, Zenon
  <2>3. WriteWorkload(w)
    BY <1>1, <1>8 DEF ArgoFinishes, Object
  <2>4. QED
    BY <1>2, <2>2, <2>3, SaneWriter
<1>9. QED
  BY <1>4, <1>5, <1>6, <1>7, <1>8 DEF Argo

(* Edits of the annotations, of either operation.                          *)
LEMMA SaneEdited ==
    ASSUME SaneInv, EditAnnotations \/ EditRestartAnnotations
    PROVE  SaneInv'
<1>1. PICK v \in Edits(Current) \cup RestartEdits(Current) : WriteWorkload(v)
  BY DEF EditAnnotations, EditRestartAnnotations
<1>2. Sane(setup, v)
  BY SaneCached, SaneEdits
<1>3. UNCHANGED <<hpa, setup, job>>
  BY DEF EditAnnotations, EditRestartAnnotations, reconcilerVars
<1>4. QED
  BY <1>1, <1>2, <1>3, SaneWriter

(* A failover forgets what was in memory and reads the server.             *)
LEMMA SaneFailover ==
    ASSUME SaneInv, NEW keys, RestartWith(keys)
    PROVE  SaneInv'
<1>1. SaneLog(setup, wl') /\ SaneMins(setup, hpa')
  BY SaneEnds, SaneMinsLog, Zenon DEF RestartWith, SaneInv, Current, CurrentHPA
<1>2. Idle \in Job
  BY DEF Idle, Job, Kinds
<1>3. job' \in [Actors -> Job] /\ \A b \in Actors : SaneJob(setup, job'[b])
  BY <1>2, SaneIdle DEF RestartWith
<1>4. QED
  BY <1>1, <1>3 DEF RestartWith, SaneInv

(* Time ages every copy alike.                                             *)
LEMMA SaneTick ==
    ASSUME SaneInv, Tick
    PROVE  SaneInv'
<1>1. SaneLog(setup, wl')
  <2>1. wl \in Seq(Object) /\ wl # <<>> /\ \A i \in 1 .. Len(wl) : Sane(setup, wl[i])
    BY DEF SaneInv, SaneLog
  <2>2. wl' = [i \in 1 .. Len(wl) |-> Older(wl[i])]
    BY <2>1, SMTT(30) DEF Tick
  <2>3. \A i \in 1 .. Len(wl) : Sane(setup, Older(wl[i])) /\ Older(wl[i]) \in Object
    <3>1. ASSUME NEW i \in 1 .. Len(wl)
          PROVE  Sane(setup, Older(wl[i]))
      BY <2>1, SaneOlder
    <3>2. QED
      BY <3>1 DEF Sane
  <2>4. wl' \in Seq(Object) /\ Len(wl') = Len(wl) /\ wl' # <<>>
    BY <2>1, <2>2, <2>3
  <2>5. \A i \in 1 .. Len(wl') : Sane(setup, wl'[i])
    BY <2>2, <2>3, <2>4
  <2>6. QED
    BY <2>4, <2>5 DEF SaneLog
<1>2. ASSUME NEW b \in Actors
      PROVE  SaneJob(setup, OlderJob(job[b])) /\ OlderJob(job[b]) \in Job
  <2> DEFINE j == job[b]
  <2>1. SaneJob(setup, j)
    BY DEF SaneInv
  <2>2. CASE j.patch = Nil
    BY <2>1, <2>2, SMTT(30) DEF OlderJob, SaneJob
  <2>3. CASE j.patch # Nil
    <3>1. Sane(setup, Older(j.patch))
      BY <2>1, <2>3, SaneOlder DEF SaneJob
    <3>2. OlderJob(j) = [j EXCEPT !.patch = Older(j.patch)]
      BY <2>3 DEF OlderJob
    <3>3. QED
      BY <2>1, <3>1, <3>2 DEF SaneJob, Job, Sane
  <2>4. QED
    BY <2>2, <2>3
<1>3. job' \in [Actors -> Job] /\ \A b \in Actors : SaneJob(setup, job'[b])
  BY <1>2 DEF Tick
<1>4. QED
  BY <1>1, <1>3 DEF Tick, SaneInv

-----------------------------------------------------------------------------
(* The invariant in every specification.                                   *)

LEMMA SaneInit == ASSUME NEW keys, StartWith(keys) PROVE SaneInv
<1> DEFINE v == [replicas |-> setup.replicas, enabled |-> "true", status |-> "stable",
                 restartAt |-> Nil, restartedAt |-> Nil,
                 drainState |-> "none", originalReplicas |-> Nil, drainNode |-> Nil,
                 drainStart |-> Nil, hpaName |-> "none", hpaOriginalMin |-> Nil,
                 restartSurgeState |-> "none", restartSurgeStart |-> Nil]
<1>1. setup \in Setups /\ setup \in Setup
  BY ClusterAssumption DEF StartWith, ClusterInit
<1>2. v \in Object /\ GetReplicas(v) = 1
  BY <1>1, SMTT(30) DEF Setup, Object, DrainState, GetReplicas
<1>3. v.originalReplicas = Nil /\ v.hpaOriginalMin = Nil
  OBVIOUS
<1>4. wl = <<v>>
  BY DEF StartWith, ClusterInit
<1> HIDE DEF v
<1>5. Sane(setup, v)
  BY <1>2, <1>3 DEF Sane
<1>6. SaneLog(setup, wl)
  BY <1>2, <1>4, <1>5, SMTT(30) DEF SaneLog
<1>7. SaneMins(setup, hpa)
  BY <1>1 DEF StartWith, ClusterInit, SaneMins, SaneMin, Setup
<1>8. Idle \in Job
  BY DEF Idle, Job, Kinds
<1>9. job \in [Actors -> Job] /\ \A a \in Actors : SaneJob(setup, job[a])
  BY <1>8, SaneIdle DEF StartWith
<1>10. QED
  BY <1>1, <1>6, <1>7, <1>9, SMTT(30) DEF SaneInv

(* Every step that drain alone and both reconcilers together share.        *)
LEMMA SaneDrainStep ==
    ASSUME SaneInv, DrainStep
    PROVE  SaneInv'
<1>1. ASSUME NEW n \in Nodes, Reconcile(n) \/ NodeEvent(n) \/ Heartbeat(n)
      PROVE  SaneInv'
  BY <1>1, SaneReconcile, SaneNodesAndPods
<1>2. ASSUME NEW a \in Actors, APICall(a) \/ APICallFails(a)
      PROVE  SaneInv'
  BY <1>2, SanePatchWorkload, SanePatchHPA DEF APICall, APICallFails
<1>3. CASE Unwatched
  BY <1>3, SaneDeliver, SaneOtherWriter DEF Unwatched, reconcilerVars
<1>4. QED
  BY <1>1, <1>2, <1>3, SaneOrphans, SaneTick DEF DrainStep

(* None of those steps moves a pod.                                        *)
LEMMA DrainStepPods ==
    ASSUME DrainStep
    PROVE  UNCHANGED <<podNode, ready, setup>>
<1>1. ASSUME NEW n \in Nodes, Reconcile(n)
      PROVE  UNCHANGED clusterVars
  BY <1>1 DEF Reconcile, abortWorkloadsForNode, NothingOnNode, DrainTimeout, OtherNodeDrains,
       SkipWorkload, handlePending, handleScaleUp, handleWaitReady, handleWaitEviction,
       handleScaleDown, handleCleanup, UnknownState, InState, Reconciling, Dequeue
<1>2. ASSUME NEW n \in Nodes, NodeEvent(n) \/ Heartbeat(n)
      PROVE  UNCHANGED <<podNode, ready, setup>>
  BY <1>2 DEF NodeEvent, Heartbeat, Taint, Untaint, DeleteNode, clusterVars
<1>3. ASSUME NEW a \in Actors, APICall(a) \/ APICallFails(a)
      PROVE  UNCHANGED <<podNode, ready, setup>>
  BY <1>3 DEF APICall, APICallFails, PatchWorkload, PatchHPAMinReplicas, PatchWorkloadFails,
              PatchHPAFails
<1>4. ASSUME Unwatched
      PROVE  UNCHANGED <<podNode, ready, setup>>
  BY <1>4 DEF Unwatched, DeliverHPA, OtherWriter, HPAScale, HPALoad, ResetReplicas,
              RolloutStarts, RolloutEnds, OptOut
<1>5. ASSUME RecoverOrphans \/ Tick
      PROVE  UNCHANGED <<podNode, ready, setup>>
  BY <1>5 DEF RecoverOrphans, ListNodes, AbortOrphans, Tick, clusterVars
<1>6. QED
  BY <1>1, <1>2, <1>3, <1>4, <1>5, SMTT(30) DEF DrainStep, clusterVars

LEMMA SaneNext == SaneInv /\ [EditedNext]_vars => SaneInv'
<1> SUFFICES ASSUME SaneInv, [EditedNext]_vars PROVE SaneInv'
  OBVIOUS
<1>1. CASE DrainStep
  BY <1>1, SaneDrainStep
<1>2. ASSUME NEW n \in Nodes, PodEvent(n)
      PROVE  SaneInv'
  BY <1>2, SaneNodesAndPods DEF PodEvent, Enqueue
<1>3. CASE WorkloadEvent
  BY <1>3, SaneDeliver DEF WorkloadEvent, Enqueue
<1>4. CASE Failover
  BY <1>4, SaneFailover DEF Failover
<1>5. CASE EditAnnotations
  BY <1>5, SaneEdited
<1>6. CASE UNCHANGED vars
  BY <1>6 DEF vars, clusterVars, reconcilerVars, SaneInv
<1>7. QED
  BY <1>1, <1>2, <1>3, <1>4, <1>5, <1>6 DEF EditedNext, Next

(* Beside a Rollout's restarts, which are counted.                         *)
SaneRolloutInv == SaneInv /\ restarts \in Nat

LEMMA SaneRolloutNext ==
    SaneRolloutInv /\ [EditedRestartNext]_rolloutVars => SaneRolloutInv'
<1> SUFFICES ASSUME SaneInv, restarts \in Nat, [EditedRestartNext]_rolloutVars
             PROVE  SaneInv' /\ restarts' \in Nat
  BY DEF SaneRolloutInv
<1>1. CASE DrainStep /\ UNCHANGED <<restarts, graceOver>>
  BY <1>1, SaneDrainStep
<1>2. CASE ReconcileRollout
  <2>1. UNCHANGED restarts
    BY <1>2 DEF ReconcileRollout, RestartTimeout, yieldToDrain, handleRestartPending,
         handleRestartScaleUp, handleRestartWaitReady, handleRestartWaitForArgo,
         handleRestartScaleDown, handleRestartCleanup, UnknownRestartState, InRestartState,
         DequeueRollout
  <2>2. QED
    BY <1>2, <2>1, SaneReconcileRollout, SMTT(30)
<1>3. CASE RecoverRestartOrphans
  BY <1>3, SaneOrphans DEF RecoverRestartOrphans
<1>4. CASE RolloutEvent
  BY <1>4, SaneDeliver DEF RolloutEvent, Enqueue
<1>5. CASE RolloutFailover
  BY <1>5, SaneFailover DEF RolloutFailover
<1>6. CASE Argo
  <2>1. restarts' \in Nat
    BY <1>6 DEF Argo, RequestRestart, ClearRestart, GraceEnds, ArgoRestarts, ArgoFinishes
  <2>2. QED
    BY <1>6, <2>1, SaneArgo
<1>7. ASSUME NEW n \in Nodes, RolloutPodEvent(n)
      PROVE  SaneInv' /\ restarts' \in Nat
  BY <1>7, SaneNodesAndPods DEF RolloutPodEvent, Enqueue
<1>8. CASE EditRestartAnnotations
  BY <1>8, SaneEdited DEF EditRestartAnnotations, argoVars
<1>9. CASE UNCHANGED rolloutVars
  BY <1>9 DEF rolloutVars, vars, clusterVars, reconcilerVars, argoVars, SaneInv
<1>10. QED
  BY <1>1, <1>2, <1>3, <1>4, <1>5, <1>6, <1>7, <1>8, <1>9 DEF EditedRestartNext, RolloutNext

(* The invariant holds of drain-surge whatever is done to its annotations. *)
THEOREM AlwaysSane == Init /\ [][EditedNext]_vars => []SaneInv
<1>1. Init => SaneInv
  BY SaneInit DEF Init
<1>2. SaneInv /\ [EditedNext]_vars => SaneInv'
  BY SaneNext
<1>3. QED
  BY <1>1, <1>2, PTL

(* It holds of both reconcilers together whatever is done to the           *)
(* annotations of a restart surge.                                         *)
THEOREM AlwaysSaneRollout == EditedRestartSpec => []SaneRolloutInv
<1>1. RolloutInit => SaneRolloutInv
  BY SaneInit DEF RolloutInit, ArgoInit, SaneRolloutInv
<1>2. SaneRolloutInv /\ [EditedRestartNext]_rolloutVars => SaneRolloutInv'
  BY SaneRolloutNext
<1>3. QED
  BY <1>1, <1>2, PTL DEF EditedRestartSpec

-----------------------------------------------------------------------------
(* The theorems.                                                           *)

LEMMA SaneBounds == SaneInv => SurgesDoNotPileUp
<1> SUFFICES ASSUME SaneInv PROVE SurgesDoNotPileUp
  OBVIOUS
<1>1. ASSUME NEW v \in Versions
      PROVE  Sane(setup, v)
  <2>1. CASE v \in {wl[i] : i \in 1 .. Len(wl)}
    <3>1. SaneLog(setup, wl)
      BY DEF SaneInv
    <3>2. QED
      BY <2>1, <3>1 DEF SaneLog
  <2>2. CASE v \in {job[a].patch : a \in Actors} \ {Nil}
    <3>1. PICK a \in Actors : v = job[a].patch /\ v # Nil
      BY <2>2
    <3>2. SaneJob(setup, job[a])
      BY DEF SaneInv
    <3>3. QED
      BY <3>1, <3>2 DEF SaneJob
  <2>3. QED
    BY <2>1, <2>2 DEF Versions
<1>2. ASSUME NEW i \in 1 .. Len(hpa)
      PROVE  HPAMinReplicasOrDefault(hpa[i]) \in {HPAMinReplicasOrDefault(setup.hpaMin), 2}
  <2>1. SaneMin(setup, hpa[i])
    BY DEF SaneInv, SaneMins
  <2>2. QED
    BY <2>1, NumbersAreNotNil DEF SaneMin, Default, HPAMinReplicasOrDefault
<1>3. setup.hpaMax = 0 => \A v \in Versions : GetReplicas(v) \in {1, 2}
  BY <1>1 DEF Sane
<1>4. QED
  BY <1>2, <1>3 DEF SurgesDoNotPileUp

(* Surges of a drain do not pile up however often, and at which moment,    *)
(* somebody removes or damages the annotations: shouldProcess and the      *)
(* re-entry guard are enough.                                              *)
THEOREM DrainSurgesBounded == EditedSpec => []SurgesDoNotPileUp
<1>1. EditedSpec => Init /\ [][EditedNext]_vars
  BY PTL DEF EditedSpec
<1>2. QED
  BY <1>1, AlwaysSane, SaneBounds, PTL

(* The same for restart surge and drain on one Rollout.                    *)
THEOREM RestartSurgesBounded == EditedRestartSpec => []SurgesDoNotPileUp
<1>1. SaneRolloutInv => SurgesDoNotPileUp
  BY SaneBounds DEF SaneRolloutInv
<1>2. QED
  BY <1>1, AlwaysSaneRollout, PTL
=============================================================================
