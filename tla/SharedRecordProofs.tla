------------------------- MODULE SharedRecordProofs -------------------------
(***************************************************************************)
(* The copies of a Rollout on which drain and restart surge work side by   *)
(* side: what it takes for one to exist, and that whatever a handler, the  *)
(* API server or another writer makes of such a copy is one again.         *)
(***************************************************************************)
EXTENDS RolloutReconciler, NodeReconcilerProofs

Written == {"none", "scaled-up", "ready", "draining", "done"}

Whole(s, v) ==
    /\ s.minAvailable # 0 /\ s.strategy # "Recreate" /\ s.hpaMax # 1
    /\ v.originalReplicas = 1
    /\ \/ s.hpaMax = 0 /\ v.hpaName = "none" /\ v.hpaOriginalMin = Nil
       \/ /\ s.hpaMax # 0 /\ v.hpaName = "hpa"
          /\ v.hpaOriginalMin = HPAMinReplicasOrDefault(s.hpaMin)

Empty(v) == v.originalReplicas = Nil /\ v.hpaName = "none" /\ v.hpaOriginalMin = Nil

Surging(v) ==
    \/ v.drainState \in {"scaled-up", "ready"}
    \/ v.drainState = "none" /\ v.restartSurgeState \in {"scaled-up", "ready"}

(* A version of the Rollout that may exist under setup s.  Unlike in Good, *)
(* a drain may have lost the record, to a restart surge that ended; then   *)
(* the replicas are back.                                                  *)
Fit(s, v) ==
    /\ v \in Object
    /\ v.drainState \in Written /\ v.restartSurgeState \in Written
    /\ v.restartSurgeState = "none" => v.restartSurgeStart = Nil
    /\ v.restartSurgeState # "none" => v.restartSurgeStart \in RestartAge /\ Whole(s, v)
    /\ v.restartSurgeState = "none" /\ v.drainState = "none" => Empty(v)
    /\ Empty(v) \/ Whole(s, v)
    /\ s.hpaMax = 0 => \/ GetReplicas(v) = 1
                       \/ GetReplicas(v) = 2 /\ Whole(s, v) /\ Surging(v)

FitLog(s, w) ==
    /\ w \in Seq(Object) /\ w # <<>>
    /\ \A i \in 1 .. Len(w) : Fit(s, w[i])

FitJob(s, j) ==
    /\ j \in Job
    /\ j.patch # Nil => Fit(s, j.patch)
    /\ j.hpa \in {Nil, HPAMinReplicasOrDefault(s.hpaMin), 2}

(* The inductive invariant: every copy of the Rollout fits.                *)
SharedInv ==
    /\ node \in [Nodes -> {"ready", "tainted", "gone"}]
    /\ podNode \in [Pods -> Nodes \cup {Nil}]
    /\ ready \subseteq Pods
    /\ setup \in Setups
    /\ faults \in 0 .. MaxFaults
    /\ queue \subseteq Keys
    /\ recovery \in [phase : RecoveryPhase, tainted : SUBSET Nodes]
    /\ FitLog(setup, wl)
    /\ GoodMins(setup, hpa)
    /\ job \in [Actors -> Job]
    /\ \A a \in Actors : FitJob(setup, job[a])

-----------------------------------------------------------------------------
(* Logs of versions.                                                       *)

(* What WriteWorkload appends fits if the written version does.            *)
LEMMA FitAppend ==
    ASSUME NEW s, NEW w, NEW v, FitLog(s, w), Fit(s, v)
    PROVE  FitLog(s, Append(w, v))
<1>1. v \in Object
  BY DEF Fit
<1>2. QED
  BY <1>1 DEF FitLog

(* What the watch has not delivered yet fits.                              *)
LEMMA FitTail ==
    ASSUME NEW s, NEW w, FitLog(s, w), Len(w) > 1
    PROVE  FitLog(s, Tail(w))
<1>1. w \in Seq(Object) /\ Len(w) \in Nat
  BY DEF FitLog
<1>2. /\ Tail(w) \in Seq(Object) /\ Len(Tail(w)) = Len(w) - 1
      /\ \A i \in 1 .. Len(w) - 1 : Tail(w)[i] = w[i + 1]
  BY <1>1
<1>3. Tail(w) # <<>>
  <2>1. Len(Tail(w)) # 0
    BY <1>1, <1>2
  <2>2. Len(<<>>) = 0
    OBVIOUS
  <2>3. QED
    BY <2>1, <2>2, ZenonT(60)
<1>4. ASSUME NEW i \in 1 .. Len(w) - 1
      PROVE  Fit(s, Tail(w)[i])
  <2>1. i + 1 \in 1 .. Len(w)
    BY <1>1
  <2>2. Fit(s, w[i + 1])
    BY <2>1 DEF FitLog
  <2>3. QED
    BY <1>2, <2>2
<1>5. QED
  BY <1>2, <1>3, <1>4 DEF FitLog

(* The cached version and the current one fit.                             *)
LEMMA FitEnds ==
    ASSUME NEW s, NEW w, FitLog(s, w)
    PROVE  Fit(s, Head(w)) /\ Fit(s, w[Len(w)]) /\ FitLog(s, <<w[Len(w)]>>)
<1>1. Len(w) \in 1 .. Len(w) /\ 1 \in 1 .. Len(w) /\ Head(w) = w[1]
  BY DEF FitLog
<1>2. Fit(s, Head(w)) /\ Fit(s, w[Len(w)])
  BY <1>1 DEF FitLog
<1>3. w[Len(w)] \in Object
  BY <1>2 DEF Fit
<1>4. FitLog(s, <<w[Len(w)]>>)
  BY <1>2, <1>3 DEF FitLog
<1>5. QED
  BY <1>2, <1>4

-----------------------------------------------------------------------------
(* What handlers and others make of a version that fits.                   *)

SameShared(u, v) ==
    /\ u.originalReplicas = v.originalReplicas
    /\ u.hpaName = v.hpaName /\ u.hpaOriginalMin = v.hpaOriginalMin

SameStates(u, v) ==
    /\ u.drainState = v.drainState /\ u.restartSurgeState = v.restartSurgeState

(* Whether a record is whole or empty is a matter of the shared fields.    *)
LEMMA SharedMatters ==
    ASSUME NEW s, NEW u, NEW v, SameShared(u, v)
    PROVE  (Whole(s, u) <=> Whole(s, v)) /\ (Empty(u) <=> Empty(v))
BY DEF Whole, Empty, SameShared

(* A recorded count is a count.                                            *)
LEMMA WholeOrEmpty ==
    ASSUME NEW s, NEW v, Fit(s, v)
    PROVE  /\ v.originalReplicas = Nil <=> Empty(v)
           /\ v.originalReplicas # Nil <=> Whole(s, v)
           /\ v.originalReplicas # Nil => v.originalReplicas = 1
           /\ v.restartSurgeState # "none" => v.originalReplicas = 1
BY OneIsNotNil DEF Fit, Whole, Empty

(* A version that differs in nothing that Fit looks at fits.               *)
LEMMA FitSame ==
    ASSUME NEW s, NEW v, Fit(s, v), NEW u \in Object, u.replicas = v.replicas,
           SameStates(u, v), SameShared(u, v),
           u.restartSurgeStart = v.restartSurgeStart
               \/ (v.restartSurgeStart \in RestartAge /\ u.restartSurgeStart \in RestartAge)
    PROVE  Fit(s, u)
<1>1. (Whole(s, u) <=> Whole(s, v)) /\ (Empty(u) <=> Empty(v))
  BY SharedMatters
<1>2. GetReplicas(u) = GetReplicas(v) /\ (Surging(u) <=> Surging(v))
  BY DEF GetReplicas, Surging, SameStates
<1>3. v.restartSurgeState = "none" => v.restartSurgeStart \notin RestartAge
  BY NilAssumption DEF Fit, RestartAge
<1>4. QED
  BY <1>1, <1>2, <1>3 DEF Fit, SameStates

(* A clock tick ages the start annotations and nothing else.               *)
LEMMA FitOlder ==
    ASSUME NEW s, NEW v, Fit(s, v)
    PROVE  Fit(s, Older(v))
<1> DEFINE next(age, limit) == IF age \in 0 .. limit THEN age + 1 ELSE age
           d == next(v.drainStart, ReadinessTimeout)
           r == next(v.restartSurgeStart, RestartSurgeTimeout)
           o == Older(v)
<1>1. v \in Object
  BY DEF Fit
<1>2. /\ \A age \in Age \cup {Nil} : next(age, ReadinessTimeout) \in Age \cup {Nil}
      /\ \A age \in RestartAge \cup {Nil} :
           /\ next(age, RestartSurgeTimeout) \in RestartAge \cup {Nil}
           /\ age \in RestartAge => next(age, RestartSurgeTimeout) \in RestartAge
           /\ age = Nil => next(age, RestartSurgeTimeout) = Nil
  BY TimeoutAssumption, NilAssumption DEF Age, RestartAge
<1>3. /\ d \in Age \cup {Nil} /\ r \in RestartAge \cup {Nil}
      /\ r = v.restartSurgeStart \/ (v.restartSurgeStart \in RestartAge /\ r \in RestartAge)
  BY <1>1, <1>2 DEF Object
<1>4. o = [v EXCEPT !.drainStart = d, !.restartSurgeStart = r]
  BY <1>1 DEF Older, Object
<1> HIDE DEF next, d, r, o
<1>5. o \in Object
  BY <1>1, <1>3, <1>4, ZenonT(60) DEF Object
<1>6. /\ o.replicas = v.replicas /\ SameStates(o, v) /\ SameShared(o, v)
      /\ o.restartSurgeStart = r
  BY <1>1, <1>4 DEF Object, SameStates, SameShared
<1>7. Fit(s, o)
  BY <1>3, <1>5, <1>6, FitSame
<1>8. QED
  BY <1>7 DEF o

(* A merge patch takes record, states and replicas from the copy.          *)
LEMMA FitPatch ==
    ASSUME NEW s, NEW v, NEW current, Fit(s, v), Fit(s, current)
    PROVE  Fit(s, Patch(current, v))
<1> DEFINE p == Patch(current, v)
           e == IF v.enabled = "true" THEN "true" ELSE current.enabled
<1>1. v \in Object /\ current \in Object
  BY DEF Fit
<1>2. p \in Object
  <2>1. e \in {"none", "true"}
    BY <1>1 DEF Object
  <2> HIDE DEF e
  <2>2. /\ current.status \in {"stable", "restarting", "progressing"}
        /\ current.restartAt \in Nat \cup {Nil} /\ current.restartedAt \in Nat \cup {Nil}
    BY <1>1 DEF Object
  <2>3. \A st \in {"stable", "restarting", "progressing"}, x, y \in Nat \cup {Nil} :
          [v EXCEPT !.enabled = e, !.status = st, !.restartAt = x, !.restartedAt = y] \in Object
    BY <1>1, <2>1, ZenonT(60) DEF Object
  <2>4. QED
    BY <2>2, <2>3, ZenonT(60) DEF e, Patch
<1>3. /\ p.replicas = v.replicas /\ SameStates(p, v) /\ SameShared(p, v)
      /\ p.restartSurgeStart = v.restartSurgeStart
  BY <1>1 DEF Patch, Object, SameStates, SameShared
<1> HIDE DEF p
<1>4. Fit(s, p)
  BY <1>2, <1>3, FitSame
<1>5. QED
  BY <1>4 DEF p

(* Every operation clears to an empty record, once the replicas are back.  *)
LEMMA FitCleared ==
    ASSUME NEW s, NEW v \in Object, s.hpaMax = 0 => GetReplicas(v) = 1
    PROVE  Fit(s, clearDrainAnnotations(v))
<1> DEFINE c == clearDrainAnnotations(v)
<1>1. c \in Object
  <2>1. "none" \in DrainState \cup {"unknown"}
    BY DEF DrainState
  <2>2. QED
    BY <2>1, ZenonT(60) DEF clearDrainAnnotations, Object
<1>2. /\ c.replicas = v.replicas /\ c.drainState = "none" /\ c.originalReplicas = Nil
      /\ c.hpaName = "none" /\ c.hpaOriginalMin = Nil
      /\ c.restartSurgeState = "none" /\ c.restartSurgeStart = Nil
  BY DEF clearDrainAnnotations, Object
<1> HIDE DEF c
<1>3. Empty(c) /\ (s.hpaMax = 0 => GetReplicas(c) = 1)
  BY <1>2 DEF Empty, GetReplicas
<1>4. Fit(s, c)
  BY <1>1, <1>2, <1>3 DEF Fit, Written
<1>5. QED
  BY <1>4 DEF c

(* A restart surge that ends takes the shared record with it, even that of *)
(* a drain.                                                                *)
LEMMA FitRestartCleared ==
    ASSUME NEW s, NEW v \in Object, v.drainState \in Written,
           s.hpaMax = 0 => GetReplicas(v) = 1
    PROVE  Fit(s, clearRestartSurgeAnnotations(v))
<1> DEFINE c == clearRestartSurgeAnnotations(v)
<1>1. c \in Object
  <2>1. "none" \in DrainState \cup {"unknown"}
    BY DEF DrainState
  <2>2. QED
    BY <2>1, ZenonT(60) DEF clearRestartSurgeAnnotations, clearRestartSurgeExclusiveAnnotations, Object
<1>2. /\ c.replicas = v.replicas /\ c.drainState = v.drainState /\ c.originalReplicas = Nil
      /\ c.hpaName = "none" /\ c.hpaOriginalMin = Nil
      /\ c.restartSurgeState = "none" /\ c.restartSurgeStart = Nil
  BY DEF clearRestartSurgeAnnotations, clearRestartSurgeExclusiveAnnotations, Object
<1> HIDE DEF c
<1>3. Empty(c) /\ (s.hpaMax = 0 => GetReplicas(c) = 1)
  BY <1>2 DEF Empty, GetReplicas
<1>4. Fit(s, c)
  BY <1>1, <1>2, <1>3 DEF Fit, Written
<1>5. QED
  BY <1>4 DEF c

(* Writing a count into the replicas changes nothing else.                 *)
LEMMA OnlyReplicas ==
    ASSUME NEW v \in Object, NEW r \in Nat
    PROVE  LET u == SetReplicas(v, r)
           IN  /\ u \in Object /\ SameShared(u, v) /\ SameStates(u, v)
               /\ u.restartSurgeStart = v.restartSurgeStart /\ GetReplicas(u) = r
<1> DEFINE u == SetReplicas(v, r)
<1>1. u \in Object
  BY DEF SetReplicas, Object
<1>2. /\ u.replicas = r /\ SameShared(u, v) /\ SameStates(u, v)
      /\ u.restartSurgeStart = v.restartSurgeStart
  BY DEF SetReplicas, Object, SameShared, SameStates
<1>3. GetReplicas(u) = r
  BY <1>2, NilAssumption DEF GetReplicas
<1>4. QED
  BY <1>1, <1>2, <1>3

(* What both aborts do first: without a record the replicas are back       *)
(* already, with one they are put back.                                    *)
LEMMA Restored ==
    ASSUME NEW s, NEW v, Fit(s, v)
    PROVE  LET u == IF v.originalReplicas = Nil THEN v ELSE SetReplicas(v, v.originalReplicas)
           IN  /\ u \in Object /\ u.drainState = v.drainState
               /\ s.hpaMax = 0 => GetReplicas(u) = 1
<1>1. v \in Object
  BY DEF Fit
<1>2. CASE v.originalReplicas = Nil
  <2>1. ~Whole(s, v)
    BY <1>2, OneIsNotNil DEF Whole
  <2>2. s.hpaMax = 0 => GetReplicas(v) = 1
    BY <2>1 DEF Fit
  <2>3. QED
    BY <1>1, <1>2, <2>2
<1>3. CASE v.originalReplicas # Nil
  <2>1. v.originalReplicas = 1 /\ 1 \in Nat
    BY <1>3, WholeOrEmpty
  <2>2. QED
    BY <1>1, <1>3, <2>1, OnlyReplicas DEF SameStates
<1>4. QED
  BY <1>2, <1>3

(* What restoreHPA sends comes from a whole record.                        *)
LEMMA FitRestore ==
    ASSUME NEW s, NEW v, Fit(s, v)
    PROVE  /\ restoreHPA(v) \in Nat \cup {Nil}
           /\ restoreHPA(v) \in {Nil, HPAMinReplicasOrDefault(s.hpaMin), 2}
BY DEF restoreHPA, Fit, Whole, Empty, Object

(* Both aborts restore what the record says and forget it.                 *)
LEMMA FitAborts ==
    ASSUME NEW s, NEW v, Fit(s, v), NEW kind \in Kinds
    PROVE  FitJob(s, abortJob(kind, v)) /\ FitJob(s, abortRestartJob(kind, v))
<1>1. v.drainState \in Written
  BY DEF Fit
<1>2. Fit(s, aborted(v)) /\ Fit(s, abortedRestart(v))
  BY <1>1, Restored, FitCleared, FitRestartCleared DEF aborted, abortedRestart
<1>3. aborted(v) \in Object /\ abortedRestart(v) \in Object
  BY <1>2 DEF Fit
<1>4. QED
  BY <1>2, <1>3, FitRestore DEF FitJob, abortJob, abortRestartJob, Job

(* A job that patches the workload only.                                   *)
LEMMA FitPatchJob ==
    ASSUME NEW s, NEW v, Fit(s, v), NEW kind \in Kinds
    PROVE  FitJob(s, patchJob(kind, v))
BY DEF FitJob, patchJob, Job, Fit

(* A handler that moves an operation on, and perhaps the replicas.         *)
LEMMA FitAdvance ==
    ASSUME NEW s, NEW v, Fit(s, v), NEW u \in Object, SameShared(u, v),
           u.drainState \in Written, u.restartSurgeState \in Written,
           u.drainState = "none" <=> v.drainState = "none",
           u.restartSurgeState = "none" <=> v.restartSurgeState = "none",
           u.restartSurgeStart = v.restartSurgeStart,
           s.hpaMax = 0 => \/ GetReplicas(u) = 1
                           \/ GetReplicas(u) = 2 /\ Whole(s, v) /\ Surging(u)
    PROVE  Fit(s, u)
<1>1. (Whole(s, u) <=> Whole(s, v)) /\ (Empty(u) <=> Empty(v))
  BY SharedMatters
<1>2. QED
  BY <1>1 DEF Fit

(* scaledDown puts the recorded replicas back; each machine then writes    *)
(* its own state.                                                          *)
LEMMA FitScaledDown ==
    ASSUME NEW s, NEW v, Fit(s, v), v.originalReplicas # Nil, NEW st \in {"draining", "done"}
    PROVE  /\ v.drainState # "none" => Fit(s, [scaledDown(v) EXCEPT !.drainState = st])
           /\ v.restartSurgeState # "none" =>
                Fit(s, [scaledDown(v) EXCEPT !.restartSurgeState = st])
<1> DEFINE w == scaledDown(v)
           d == [w EXCEPT !.drainState = st]
           r == [w EXCEPT !.restartSurgeState = st]
<1>1. /\ v \in Object /\ v.originalReplicas = 1 /\ 1 \in Nat
      /\ v.hpaName # "none" => s.hpaMax # 0
      /\ v.drainState \in Written /\ v.restartSurgeState \in Written
  BY WholeOrEmpty DEF Fit, Whole
<1>2. /\ w \in Object /\ SameShared(w, v) /\ SameStates(w, v)
      /\ w.restartSurgeStart = v.restartSurgeStart
      /\ s.hpaMax = 0 => GetReplicas(w) = 1
  <2>1. CASE v.hpaName = "none"
    <3>1. w = SetReplicas(v, 1)
      BY <1>1, <2>1 DEF scaledDown
    <3>2. QED
      BY <1>1, <3>1, OnlyReplicas
  <2>2. CASE v.hpaName # "none"
    BY <1>1, <2>2 DEF scaledDown, SameShared, SameStates
  <2>3. QED
    BY <2>1, <2>2
<1> HIDE DEF w
<1>3. st \in Written /\ st \in DrainState \cup {"unknown"} /\ st # "none"
  BY DEF Written, DrainState
<1>4. d \in Object /\ r \in Object
  BY <1>2, <1>3 DEF Object
<1>5. /\ SameShared(d, v) /\ SameShared(r, v)
      /\ d.drainState = st /\ d.restartSurgeState = v.restartSurgeState
      /\ r.restartSurgeState = st /\ r.drainState = v.drainState
      /\ d.restartSurgeStart = v.restartSurgeStart /\ r.restartSurgeStart = v.restartSurgeStart
      /\ s.hpaMax = 0 => GetReplicas(d) = 1 /\ GetReplicas(r) = 1
  BY <1>2 DEF Object, SameShared, SameStates, GetReplicas
<1> HIDE DEF d, r
<1>6. v.drainState # "none" => Fit(s, d)
  BY <1>1, <1>3, <1>4, <1>5, FitAdvance
<1>7. v.restartSurgeState # "none" => Fit(s, r)
  BY <1>1, <1>3, <1>4, <1>5, FitAdvance
<1>8. QED
  BY <1>6, <1>7 DEF d, r, w

(* yieldToDrain leaves the record to the drain, and the replicas at one.   *)
LEMMA FitYield ==
    ASSUME NEW s, NEW v, Fit(s, v), v.drainState # "none", v.restartSurgeState # "none"
    PROVE  Fit(s, yielded(v))
<1> DEFINE w == IF v.hpaName = "none" /\ v.originalReplicas # Nil
                THEN SetReplicas(v, v.originalReplicas) ELSE v
           c == clearRestartSurgeExclusiveAnnotations(w)
<1>1. /\ v \in Object /\ Whole(s, v) /\ v.originalReplicas = 1 /\ 1 \in Nat
      /\ v.drainState \in Written
  BY WholeOrEmpty DEF Fit
<1>2. /\ w \in Object /\ SameShared(w, v) /\ SameStates(w, v)
      /\ s.hpaMax = 0 => GetReplicas(w) = 1
  <2>1. CASE v.hpaName = "none"
    <3>1. w = SetReplicas(v, 1)
      BY <1>1, <2>1, OneIsNotNil
    <3>2. QED
      BY <1>1, <3>1, OnlyReplicas
  <2>2. CASE v.hpaName # "none"
    <3>1. w = v /\ s.hpaMax # 0
      BY <1>1, <2>2 DEF Whole
    <3>2. QED
      BY <1>1, <3>1 DEF SameShared, SameStates
  <2>3. QED
    BY <2>1, <2>2
<1> HIDE DEF w
<1>3. c \in Object
  <2>1. "none" \in DrainState \cup {"unknown"}
    BY DEF DrainState
  <2>2. QED
    BY <1>2, <2>1, ZenonT(60) DEF clearRestartSurgeExclusiveAnnotations, Object
<1>4. /\ SameShared(c, v) /\ c.drainState = v.drainState
      /\ c.restartSurgeState = "none" /\ c.restartSurgeStart = Nil
      /\ s.hpaMax = 0 => GetReplicas(c) = 1
  BY <1>2 DEF clearRestartSurgeExclusiveAnnotations, Object, SameShared, SameStates, GetReplicas
<1> HIDE DEF c
<1>5. Whole(s, c)
  BY <1>1, <1>4, SharedMatters
<1>6. Fit(s, c)
  BY <1>1, <1>3, <1>4, <1>5 DEF Fit, Written
<1>7. QED
  BY <1>6 DEF yielded, c, w

(* The HPA may set any replicas, anyone may set one replica.               *)
LEMMA FitRescaled ==
    ASSUME NEW s, NEW v, Fit(s, v), NEW r \in Nat, s.hpaMax = 0 => r = 1
    PROVE  Fit(s, SetReplicas(v, r))
<1> DEFINE u == SetReplicas(v, r)
<1>1. v \in Object /\ v.drainState \in Written /\ v.restartSurgeState \in Written
  BY DEF Fit
<1>2. /\ u \in Object /\ SameShared(u, v) /\ SameStates(u, v)
      /\ u.restartSurgeStart = v.restartSurgeStart /\ GetReplicas(u) = r
  BY <1>1, OnlyReplicas
<1> HIDE DEF u
<1>3. Fit(s, u)
  BY <1>1, <1>2, FitAdvance DEF SameStates
<1>4. QED
  BY <1>3 DEF u

(* Fields that others own: a change of one of them leaves record, states   *)
(* and replicas alone.                                                     *)
LEMMA FitOthers ==
    ASSUME NEW s, NEW v, Fit(s, v), NEW st \in {"stable", "restarting", "progressing"},
           NEW x \in Nat \cup {Nil}
    PROVE  /\ Fit(s, [v EXCEPT !.status = st]) /\ Fit(s, [v EXCEPT !.enabled = "none"])
           /\ Fit(s, [v EXCEPT !.restartAt = x]) /\ Fit(s, [v EXCEPT !.restartedAt = x])
<1> DEFINE a == [v EXCEPT !.status = st]
           b == [v EXCEPT !.enabled = "none"]
           c == [v EXCEPT !.restartAt = x]
           d == [v EXCEPT !.restartedAt = x]
           same(u) == /\ u.replicas = v.replicas /\ SameStates(u, v) /\ SameShared(u, v)
                      /\ u.restartSurgeStart = v.restartSurgeStart
<1>1. v \in Object
  BY DEF Fit
<1>2. a \in Object /\ same(a)
  BY <1>1 DEF Object, SameStates, SameShared
<1>3. b \in Object /\ same(b)
  BY <1>1 DEF Object, SameStates, SameShared
<1>4. c \in Object /\ same(c)
  BY <1>1 DEF Object, SameStates, SameShared
<1>5. d \in Object /\ same(d)
  BY <1>1 DEF Object, SameStates, SameShared
<1> HIDE DEF a, b, c, d
<1>6. Fit(s, a) /\ Fit(s, b) /\ Fit(s, c) /\ Fit(s, d)
  BY <1>2, <1>3, <1>4, <1>5, FitSame
<1>7. QED
  BY <1>6 DEF a, b, c, d

(* Argo changes its status together with the restart.                      *)
LEMMA FitRestart ==
    ASSUME NEW s, NEW v, Fit(s, v), NEW st \in {"stable", "restarting", "progressing"},
           NEW x \in Nat \cup {Nil}
    PROVE  /\ Fit(s, [v EXCEPT !.restartAt = x, !.status = st])
           /\ Fit(s, [v EXCEPT !.restartedAt = x, !.status = st])
<1>1. Fit(s, [v EXCEPT !.restartAt = x]) /\ Fit(s, [v EXCEPT !.restartedAt = x])
  BY FitOthers, Zenon
<1>2. /\ Fit(s, [[v EXCEPT !.restartAt = x] EXCEPT !.status = st])
      /\ Fit(s, [[v EXCEPT !.restartedAt = x] EXCEPT !.status = st])
  BY <1>1, FitOthers, Zenon
<1>3. QED
  BY <1>2

(* The record a restart surge starts with.                                 *)
LEMMA RestartRecord ==
    ASSUME NEW v \in Object, GetReplicas(v) = 1
    PROVE  LET w == recordRestart(v)
           IN  /\ w \in Object
               /\ w.restartSurgeState = "scaled-up" /\ w.originalReplicas = 1
               /\ w.restartSurgeStart \in RestartAge /\ w.drainState = v.drainState
               /\ w.hpaName = v.hpaName /\ w.hpaOriginalMin = v.hpaOriginalMin
<1> DEFINE w == [v EXCEPT !.restartSurgeState = "scaled-up", !.originalReplicas = 1,
                          !.restartSurgeStart = 0]
<1>1. 0 \in RestartAge
  BY TimeoutAssumption DEF RestartAge
<1>2. w \in Object
  <2>1. "scaled-up" \in DrainState \cup {"unknown"}
    BY DEF DrainState
  <2>2. QED
    BY <1>1, <2>1, ZenonT(60) DEF Object
<1>3. /\ w.restartSurgeState = "scaled-up" /\ w.originalReplicas = 1
      /\ w.restartSurgeStart = 0 /\ w.drainState = v.drainState
      /\ w.hpaName = v.hpaName /\ w.hpaOriginalMin = v.hpaOriginalMin
  BY DEF Object
<1>4. w = recordRestart(v)
  BY DEF recordRestart
<1>5. QED
  BY <1>1, <1>2, <1>3, <1>4, ZenonT(60)

(* What the two surges have in common: w is the copy with the operation    *)
(* recorded.  Without an HPA the surge goes into the same patch.           *)
LEMMA FitSurge ==
    ASSUME NEW s, NEW w \in Object, w.drainState \in Written, w.restartSurgeState \in Written,
           Surging(w), w.originalReplicas = 1, w.hpaName = "none", w.hpaOriginalMin = Nil,
           IF w.restartSurgeState = "none" THEN w.restartSurgeStart = Nil
                                           ELSE w.restartSurgeStart \in RestartAge,
           s.minAvailable # 0, s.strategy # "Recreate", s.hpaMax = 0
    PROVE  Fit(s, SetReplicas(w, 2))
<1> DEFINE u == SetReplicas(w, 2)
<1>1. /\ u \in Object /\ SameShared(u, w) /\ SameStates(u, w)
      /\ u.restartSurgeStart = w.restartSurgeStart /\ GetReplicas(u) = 2
  <2>1. 2 \in Nat
    OBVIOUS
  <2>2. QED
    BY <2>1, OnlyReplicas
<1> HIDE DEF u
<1>2. Whole(s, w)
  BY ZeroIsNotOne DEF Whole
<1>3. Whole(s, u) /\ Surging(u)
  BY <1>1, <1>2, SharedMatters DEF Surging, SameStates
<1>4. u.drainState # "none" \/ u.restartSurgeState # "none"
  BY <1>3 DEF Surging
<1>5. Fit(s, u)
  BY <1>1, <1>3, <1>4 DEF Fit, SameStates
<1>6. QED
  BY <1>5 DEF u

(* With an HPA its minReplicas are recorded, and the re-entry guard keeps  *)
(* surged ones out.                                                        *)
LEMMA FitSurgeHPA ==
    ASSUME NEW s, NEW w \in Object, w.drainState \in Written, w.restartSurgeState \in Written,
           Surging(w), w.originalReplicas = 1,
           IF w.restartSurgeState = "none" THEN w.restartSurgeStart = Nil
                                           ELSE w.restartSurgeStart \in RestartAge,
           NEW min \in Nat \cup {Nil}, GoodMin(s, min), ~IsHPAAtMinReplicas(min, 2),
           s.minAvailable # 0, s.strategy # "Recreate", s.hpaMax \notin {0, 1}
    PROVE  Fit(s, recordHPA(w, min))
<1> DEFINE u == recordHPA(w, min)
<1>1. /\ HPAMinReplicasOrDefault(min) \in Nat
      /\ HPAMinReplicasOrDefault(min) = HPAMinReplicasOrDefault(s.hpaMin)
  BY DefaultInNat, UnsurgedMin, SMTT(30)
<1>2. u \in Object
  <2>1. \A m \in Nat : [w EXCEPT !.hpaName = "hpa", !.hpaOriginalMin = m] \in Object
    BY ZenonT(60) DEF Object
  <2>2. QED
    BY <1>1, <2>1, ZenonT(60) DEF recordHPA
<1>3. /\ SameStates(u, w) /\ u.restartSurgeStart = w.restartSurgeStart
      /\ u.originalReplicas = 1 /\ u.hpaName = "hpa"
      /\ u.hpaOriginalMin = HPAMinReplicasOrDefault(min)
  BY DEF recordHPA, Object, SameStates
<1> HIDE DEF u
<1>4. Whole(s, u)
  BY <1>1, <1>3 DEF Whole
<1>5. u.drainState # "none" \/ u.restartSurgeState # "none"
  BY <1>3 DEF Surging, SameStates
<1>6. Fit(s, u)
  BY <1>2, <1>3, <1>4, <1>5 DEF Fit, SameStates
<1>7. QED
  BY <1>6 DEF u

(* A surge that was reset is applied again while it is recorded.           *)
LEMMA FitReapplied ==
    ASSUME NEW s, NEW v, Fit(s, v), Whole(s, v), Surging(v)
    PROVE  Fit(s, SetReplicas(v, 2))
<1> DEFINE u == SetReplicas(v, 2)
<1>1. /\ v \in Object /\ v.drainState \in Written /\ v.restartSurgeState \in Written
      /\ 2 \in Nat
  BY DEF Fit
<1>2. /\ u \in Object /\ SameShared(u, v) /\ SameStates(u, v)
      /\ u.restartSurgeStart = v.restartSurgeStart /\ GetReplicas(u) = 2
  BY <1>1, OnlyReplicas
<1> HIDE DEF u
<1>3. Surging(u)
  BY <1>2 DEF Surging, SameStates
<1>4. Fit(s, u)
  BY <1>1, <1>2, <1>3, FitAdvance DEF SameStates
<1>5. QED
  BY <1>4 DEF u

(* The surge pod is Ready: each machine writes its own state.              *)
LEMMA FitReady ==
    ASSUME NEW s, NEW v, Fit(s, v), Whole(s, v)
    PROVE  /\ v.drainState = "scaled-up" => Fit(s, [v EXCEPT !.drainState = "ready"])
           /\ v.drainState = "none" /\ v.restartSurgeState = "scaled-up" =>
                Fit(s, [v EXCEPT !.restartSurgeState = "ready"])
<1> DEFINE d == [v EXCEPT !.drainState = "ready"]
           r == [v EXCEPT !.restartSurgeState = "ready"]
<1>1. v \in Object /\ v.drainState \in Written /\ v.restartSurgeState \in Written
  BY DEF Fit
<1>2. "ready" \in DrainState \cup {"unknown"} /\ "ready" \in Written
  BY DEF DrainState, Written
<1>3. d \in Object /\ r \in Object
  BY <1>1, <1>2 DEF Object
<1>4. /\ SameShared(d, v) /\ SameShared(r, v)
      /\ d.drainState = "ready" /\ d.restartSurgeState = v.restartSurgeState
      /\ r.restartSurgeState = "ready" /\ r.drainState = v.drainState
      /\ d.restartSurgeStart = v.restartSurgeStart /\ r.restartSurgeStart = v.restartSurgeStart
      /\ GetReplicas(d) = GetReplicas(v) /\ GetReplicas(r) = GetReplicas(v)
  BY <1>1 DEF Object, SameShared, GetReplicas
<1> HIDE DEF d, r
<1>5. s.hpaMax = 0 => GetReplicas(v) = 1 \/ GetReplicas(v) = 2
  BY DEF Fit
<1>6. v.drainState = "scaled-up" => Fit(s, d)
  BY <1>1, <1>2, <1>3, <1>4, <1>5, FitAdvance, SMTT(30) DEF Surging
<1>7. v.drainState = "none" /\ v.restartSurgeState = "scaled-up" => Fit(s, r)
  BY <1>1, <1>2, <1>3, <1>4, <1>5, FitAdvance DEF Surging
<1>8. QED
  BY <1>6, <1>7 DEF d, r

(* The calls of a scale-down: the HPA first, then the workload.            *)
LEMMA FitScaleDownJob ==
    ASSUME NEW s, NEW v, Fit(s, v), NEW u, Fit(s, u)
    PROVE  FitJob(s, [kind |-> "advance", hpa |-> restoreHPA(v), patch |-> u])
<1>1. u \in Object
  BY DEF Fit
<1>2. QED
  BY <1>1, FitRestore DEF FitJob, Job, Kinds
=============================================================================
