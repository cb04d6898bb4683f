-------------------------- MODULE ReconcilerProofs --------------------------
(***************************************************************************)
(* Theorems about Reconciler, for every value of its constants: its types, *)
(* that an in-place update is written once, and that what is deleted has   *)
(* a cause.                                                                *)
(***************************************************************************)
EXTENDS Reconciler, FiniteSetTheorems, TLAPS

-----------------------------------------------------------------------------
(* Operators. *)

\* The subsets of Names that a pass counts are finite.
LEMMA CountIsNat ==
    ASSUME NEW S, S \subseteq Names
    PROVE  IsFiniteSet(S) /\ Cardinality(S) \in Nat
BY NamesAssumption, FS_Subset, FS_CardinalityType

\* The value of an int-or-percent field is a natural number.
LEMMA GetValueType ==
    ASSUME NEW v \in IntOrPercent, NEW total \in Nat, NEW up \in BOOLEAN
    PROVE  GetValue(v, total, up) \in Nat
<1> DEFINE num == v.value * total + (IF up THEN 99 ELSE 0)
<1>1. v.value \in Nat /\ v.percent \in BOOLEAN
  BY DEF IntOrPercent
<1>2. v.value * total \in Nat
  BY <1>1
<1>3. num \in Nat
  BY <1>2
<1> HIDE DEF num
<1>4. num \div 100 \in Nat
  BY <1>3
<1>5. GetValue(v, total, up) = IF ~v.percent THEN v.value ELSE num \div 100
  BY DEF GetValue, num
<1> QED
  BY <1>1, <1>4, <1>5

\* A pass uses at most maxSurge pods of surge.
LEMMA UseSurgeBound ==
    ASSUME NEW replicas \in Nat, NEW marked \in Nat, NEW outdated \in Nat
    PROVE  /\ UseSurge(replicas, marked, outdated) \in Nat
           /\ UseSurge(replicas, marked, outdated) <= Surge(replicas)
<1>1. Surge(replicas) \in Nat
  BY StrategyAssumption, GetValueType DEF Surge
<1> QED
  BY <1>1 DEF UseSurge, Smaller, Larger

\* A pass that scales out works towards at most replicas plus maxSurge pods.
LEMMA ScaleUpNumBound ==
    ASSUME NEW replicas \in Nat, NEW view, NEW rev,
           Diffs(replicas, view, rev).scaleUpNum > 0
    PROVE  /\ Diffs(replicas, view, rev).scaleUpNum \in Nat
           /\ Cardinality(Members(view)) + Diffs(replicas, view, rev).scaleUpNum
                <= replicas + Surge(replicas)
<1> DEFINE all      == Cardinality(Members(view))
           marked   == Cardinality(SpecifiedDelete(view))
           outdated == Cardinality((Members(view) \ Updated(view, rev)) \ SpecifiedDelete(view))
           use      == UseSurge(replicas, marked, outdated)
<1>1. all \in Nat /\ marked \in Nat /\ outdated \in Nat
  BY CountIsNat DEF Members, SpecifiedDelete
<1>2. use \in Nat /\ use <= Surge(replicas)
  BY <1>1, UseSurgeBound
<1>3. Surge(replicas) \in Nat
  BY StrategyAssumption, GetValueType DEF Surge
<1>4. Diffs(replicas, view, rev).scaleUpNum = Larger(-(all - (replicas + use)), 0)
  BY DEF Diffs
<1> HIDE DEF all, marked, outdated, use
<1>5. /\ Larger(-(all - (replicas + use)), 0) \in Nat
      /\ Larger(-(all - (replicas + use)), 0) > 0
           => Larger(-(all - (replicas + use)), 0) = replicas + use - all
  BY <1>1, <1>2 DEF Larger
<1>6. all + Diffs(replicas, view, rev).scaleUpNum <= replicas + Surge(replicas)
  BY <1>1, <1>2, <1>3, <1>4, <1>5
<1> QED
  BY <1>4, <1>5, <1>6 DEF all

LEMMA LargerSetCounts ==
    ASSUME NEW X, NEW Y, X \subseteq Y, Y \subseteq Names
    PROVE  /\ Cardinality(X) <= Cardinality(Y)
           /\ Cardinality(X) \in Nat /\ Cardinality(Y) \in Nat
BY CountIsNat, FS_Subset

LEMMA UnavailableType ==
    ASSUME NEW replicas \in Nat
    PROVE  Unavailable(replicas) \in Nat
<1>1. (Surge(replicas) = 0) \in BOOLEAN
  OBVIOUS
<1> QED
  BY <1>1, StrategyAssumption, GetValueType DEF Unavailable

LEMMA DiffsLimitType ==
    ASSUME NEW replicas \in Nat, NEW view, NEW rev
    PROVE  Diffs(replicas, view, rev).deleteReadyLimit \in Nat
<1> DEFINE all  == Cardinality(Members(view))
           down == Cardinality(NotRunning(view) \ SpecifiedDelete(view))
<1>1. all \in Nat /\ down \in Nat
  BY CountIsNat DEF Members, NotRunning
<1>2. Unavailable(replicas) \in Nat
  BY UnavailableType
<1>3. \/ Diffs(replicas, view, rev).deleteReadyLimit = 0
      \/ Diffs(replicas, view, rev).deleteReadyLimit = DeleteReadyLimit(replicas, all, down)
  BY DEF Diffs
<1> HIDE DEF all, down
<1>4. DeleteReadyLimit(replicas, all, down) \in Nat
  BY <1>1, <1>2 DEF DeleteReadyLimit, Larger
<1> QED
  BY <1>3, <1>4

-----------------------------------------------------------------------------
(* Types. *)

LEMMA CalculateStatusType ==
    ASSUME NEW obj \in Inplaceu, NEW view
    PROVE  CalculateStatus(obj, view) \in Status
<1>1. /\ Cardinality(Members(view)) \in Nat
      /\ Cardinality(Updated(view, obj.rev)) \in Nat
      /\ Cardinality({n \in Members(view) : IsRunning(view[n])}) \in Nat
      /\ Cardinality({n \in Members(view) : IsPodAvailable(view[n])}) \in Nat
  BY CountIsNat DEF Members, Updated
<1>2. obj.rev \in Revs /\ obj.gen \in Nat /\ obj.status.current \in Revs \cup {None}
  BY DEF Inplaceu, Status
<1> QED
  BY <1>1, <1>2 DEF CalculateStatus, Count, Status

LEMMA ActivePodsType ==
    ASSUME NEW objs \in [Names -> Pod \cup {None}]
    PROVE  ActivePods(objs) \in [Names -> Pod \cup {None}]
BY DEF ActivePods

\* A write of a pod that has the type of pods keeps the types of the API server.
LEMMA PublishType ==
    ASSUME ClusterTypeOK, NEW n \in Names, NEW p \in Pod \cup {None}, Publish(n, p)
    PROVE  /\ pods' \in [Names -> Pod \cup {None}]
           /\ watch' \in [Names -> Seq(Pod \cup {None})]
BY DEF ClusterTypeOK, Publish

LEMMA DeletedType ==
    ASSUME NEW p \in Pod, NEW q \in Deleted(p)
    PROVE  q \in Pod \cup {None}
BY DEF Deleted, Pod

LEMMA InitTypeOK == Init => TypeOK
<1> SUFFICES ASSUME Init PROVE TypeOK
  OBVIOUS
<1>1. RunningPod(InitRev) \in Pod
  BY ReconcilerAssumption DEF RunningPod, Pod
<1>2. pods \in [Names -> Pod \cup {None}]
  BY <1>1 DEF Init
<1>3. EmptyStatus \in Status
  BY DEF EmptyStatus, Status
<1>4. [replicas |-> InitReplicas, rev |-> InitRev, gen |-> 1, status |-> EmptyStatus] \in Inplaceu
  BY <1>3, ReconcilerAssumption DEF Inplaceu
<1>5. InitObject(pods) \in Inplaceu
  <2> DEFINE new == [replicas |-> InitReplicas, rev |-> InitRev, gen |-> 1, status |-> EmptyStatus]
  <2>1. CalculateStatus(new, pods) \in Status
    BY <1>4, CalculateStatusType
  <2>2. new \in Inplaceu
    BY <1>4
  <2>3. InitObject(pods) = IF InitCount = 0 THEN new
                           ELSE [new EXCEPT !.status = CalculateStatus(new, pods)]
    BY DEF InitObject
  <2> HIDE DEF new
  <2> QED
    BY <2>1, <2>2, <2>3 DEF Inplaceu
<1>6. /\ watch \in [Names -> Seq(Pod \cup {None})]
      /\ notes \in [Names -> Seq(EventKinds)]
      /\ rvExp \in [Names -> Nat \cup {NoEntry}]
  BY DEF Init
<1>7. budget \in 0 .. Budget
  BY ClusterAssumption DEF Init
<1> QED
  BY <1>2, <1>5, <1>6, <1>7 DEF Init, TypeOK, ClusterTypeOK, Steps

\* Writes of users and kubelets.
LEMMA KubeletWritesType ==
    ASSUME TypeOK, NEW n \in Names, NEW p \in Pod \cup {None}, KubeletWrites(n, p),
           budget' \in 0 .. Budget, slipped' \subseteq Names,
           UNCHANGED controllerVars
    PROVE  TypeOK'
<1>1. ClusterTypeOK'
  BY PublishType DEF KubeletWrites, TypeOK, ClusterTypeOK
<1> QED
  BY <1>1 DEF TypeOK, controllerVars

LEMMA DisturbType ==
    ASSUME ClusterTypeOK, NEW kind, Disturb(kind)
    PROVE  budget' \in 0 .. Budget /\ slipped' \subseteq Names
BY ClusterAssumption DEF ClusterTypeOK, Disturb

LEMMA SlipType ==
    ASSUME ClusterTypeOK, NEW n \in Names, Slip(n)
    PROVE  budget' \in 0 .. Budget /\ slipped' \subseteq Names
BY ClusterAssumption DEF ClusterTypeOK, Slip

LEMMA EnvironmentTypeOK ==
    ASSUME TypeOK, EnvironmentStep
    PROVE  TypeOK'
<1> USE DEF EnvironmentStep
<1>0. ClusterTypeOK
  BY DEF TypeOK
<1>1. ASSUME NEW n \in Names, Kubelet(n) PROVE TypeOK'
  <2>1. pods[n] # None /\ pods[n] \in Pod /\ budget' \in 0 .. Budget /\ slipped' \subseteq Names
    BY <1>0, <1>1, ClusterAssumption
    DEF Kubelet, PodRuns, PodReady, PodGone, KubeletWrites, CanWrite, Calm, ClusterTypeOK
  <2>2. \E p \in Pod \cup {None} : KubeletWrites(n, p)
    <3>1. CASE PodRuns(n)
      <4>1. [pods[n] EXCEPT !.phase = "Running"] \in Pod
        BY <2>1 DEF Pod
      <4> QED BY <3>1, <4>1 DEF PodRuns
    <3>2. CASE PodReady(n)
      <4>1. [pods[n] EXCEPT !.ready = TRUE] \in Pod
        BY <2>1 DEF Pod
      <4> QED BY <3>2, <4>1 DEF PodReady
    <3>3. CASE PodGone(n)
      BY <3>3 DEF PodGone
    <3> QED BY <1>1, <3>1, <3>2, <3>3 DEF Kubelet
  <2> QED
    BY <2>1, <2>2, KubeletWritesType
<1>2. ASSUME NEW n \in Names, PodFails(n) PROVE TypeOK'
  <2>1. pods[n] \in Pod /\ budget' \in 0 .. Budget /\ slipped' \subseteq Names
    BY <1>0, <1>2, DisturbType DEF PodFails, KubeletWrites, CanWrite, ClusterTypeOK
  <2>2. [pods[n] EXCEPT !.phase = "Failed", !.ready = FALSE] \in Pod
    BY <2>1 DEF Pod
  <2> QED
    BY <1>2, <2>1, <2>2, KubeletWritesType DEF PodFails
<1>3. ASSUME NEW n \in Names, PodUnready(n) PROVE TypeOK'
  <2>1. pods[n] \in Pod /\ budget' \in 0 .. Budget /\ slipped' \subseteq Names
    BY <1>0, <1>3, DisturbType DEF PodUnready, KubeletWrites, CanWrite, ClusterTypeOK
  <2>2. [pods[n] EXCEPT !.ready = FALSE] \in Pod
    BY <2>1 DEF Pod
  <2> QED
    BY <1>3, <2>1, <2>2, KubeletWritesType DEF PodUnready
<1>4. ASSUME NEW n \in Names, Evict(n) PROVE TypeOK'
  <2>1. pods[n] \in Pod /\ budget' \in 0 .. Budget /\ slipped' \subseteq Names
    BY <1>0, <1>4, DisturbType DEF Evict, KubeletWrites, CanWrite, ClusterTypeOK
  <2> QED
    BY <1>4, <2>1, DeletedType, KubeletWritesType DEF Evict
<1>5. ASSUME NEW n \in Names, UserMarksDelete(n) PROVE TypeOK'
  <2>1. pods[n] \in Pod /\ budget' \in 0 .. Budget /\ slipped' \subseteq Names
    BY <1>0, <1>5, DisturbType DEF UserMarksDelete, KubeletWrites, CanWrite, ClusterTypeOK
  <2>2. [pods[n] EXCEPT !.sdel = TRUE] \in Pod
    BY <2>1 DEF Pod
  <2> QED
    BY <1>5, <2>1, <2>2, KubeletWritesType DEF UserMarksDelete
<1>6. ASSUME NEW r \in ReplicaChoices, UserScales(r) PROVE TypeOK'
  <2>1. budget' \in 0 .. Budget /\ slipped' \subseteq Names /\ r \in Nat
    BY <1>0, <1>6, DisturbType, ClusterAssumption DEF UserScales
  <2>2. iu' \in Inplaceu
    <3>1. iu \in Inplaceu /\ iu.gen + 1 \in Nat
      BY <1>0 DEF ClusterTypeOK, Inplaceu
    <3> QED
      BY <1>6, <2>1, <3>1 DEF UserScales, Inplaceu
  <2> QED
    BY <1>6, <2>1, <2>2 DEF UserScales, TypeOK, ClusterTypeOK, controllerVars
<1>7. ASSUME NEW rev \in Revs, UserChangesTemplate(rev) PROVE TypeOK'
  <2>1. budget' \in 0 .. Budget /\ slipped' \subseteq Names
    BY <1>0, <1>7, DisturbType DEF UserChangesTemplate
  <2>2. iu' \in Inplaceu
    <3>1. iu \in Inplaceu /\ iu.gen + 1 \in Nat
      BY <1>0 DEF ClusterTypeOK, Inplaceu
    <3> QED
      BY <1>7, <3>1 DEF UserChangesTemplate, Inplaceu
  <2> QED
    BY <1>7, <2>1, <2>2 DEF UserChangesTemplate, TypeOK, ClusterTypeOK, controllerVars
<1> QED
  BY <1>1, <1>2, <1>3, <1>4, <1>5, <1>6, <1>7 DEF Environment, Kubelet

LEMMA EventKindType ==
    ASSUME NEW old, NEW new
    PROVE  EventKind(old, new) \in EventKinds
BY DEF EventKind, EventKinds

LEMMA InformerTypeOK ==
    ASSUME TypeOK, Informer
    PROVE  TypeOK'
<1>1. CASE InplaceuEvent
  BY <1>1 DEF InplaceuEvent, TypeOK, ClusterTypeOK
<1>2. CASE InformerRelists
  <2>1. /\ cache' = pods
        /\ watch' \in [Names -> Seq(Pod \cup {None})]
        /\ budget' \in 0 .. Budget /\ slipped' \subseteq Names
    BY <1>2, DisturbType DEF InformerRelists, Relist, TypeOK
  <2>2. notes' \in [Names -> Seq(EventKinds)]
    BY <1>2, EventKindType DEF InformerRelists, Relist, TypeOK, ClusterTypeOK
  <2>3. rvExp' \in [Names -> Nat \cup {NoEntry}]
    BY <1>2 DEF InformerRelists, TypeOK, NoEntry
  <2> QED
    BY <1>2, <2>1, <2>2, <2>3 DEF InformerRelists, Relist, TypeOK, ClusterTypeOK
<1>3. CASE Resync
  BY <1>3 DEF Resync, TypeOK, ClusterTypeOK, clusterVars
<1>4. ASSUME NEW n \in Names, InformerStep(n) PROVE TypeOK'
  <2>1. /\ Head(watch[n]) \in Pod \cup {None}
        /\ watch' \in [Names -> Seq(Pod \cup {None})]
    BY <1>4 DEF InformerStep, CacheApply, TypeOK, ClusterTypeOK
  <2>2. notes' \in [Names -> Seq(EventKinds)]
    BY <1>4, EventKindType DEF InformerStep, CacheApply, TypeOK, ClusterTypeOK
  <2>3. cache' \in [Names -> Pod \cup {None}]
    BY <1>4, <2>1 DEF InformerStep, CacheApply, TypeOK, ClusterTypeOK
  <2>4. rvExp' \in [Names -> Nat \cup {NoEntry}]
    BY <1>4 DEF InformerStep, TypeOK, NoEntry
  <2> QED
    BY <1>4, <2>1, <2>2, <2>3, <2>4 DEF InformerStep, CacheApply, Calm, TypeOK, ClusterTypeOK
<1>5. ASSUME NEW n \in Names, HandleNote(n) PROVE TypeOK'
  <2>1. notes' \in [Names -> Seq(EventKinds)]
    BY <1>5 DEF HandleNote, TypeOK, ClusterTypeOK
  <2>2. exp' \in [create : SUBSET Names, delete : SUBSET Names]
    BY <1>5 DEF HandleNote, TypeOK
  <2>3. rvExp' \in [Names -> Nat \cup {NoEntry}]
    BY <1>5 DEF HandleNote, TypeOK
  <2> QED
    BY <1>5, <2>1, <2>2, <2>3 DEF HandleNote, TypeOK, ClusterTypeOK
<1> QED
  BY <1>1, <1>2, <1>3, <1>4, <1>5 DEF Informer

LEMMA CrashTypeOK ==
    ASSUME TypeOK, Crash
    PROVE  TypeOK'
<1>1. /\ budget' \in 0 .. Budget /\ slipped' \subseteq Names
      /\ notes' \in [Names -> Seq(EventKinds)]
  BY DisturbType, EventKindType DEF Crash, Reload, TypeOK
<1>2. rvExp' \in [Names -> Nat \cup {NoEntry}]
  BY DEF Crash
<1> QED
  BY <1>1, <1>2 DEF Crash, Reload, TypeOK, ClusterTypeOK, Steps

\* A reconcile that returns.
LEMMA ReturnType ==
    ASSUME TypeOK, NEW requeue \in BOOLEAN, Return(requeue), ClusterTypeOK',
           UNCHANGED <<exp, rvExp>>
    PROVE  TypeOK'
BY DEF Return, TypeOK, Steps

\* A step of a reconcile that only changes its own state.
LEMMA LocalStepType ==
    ASSUME TypeOK, job' \in Job, pc' \in Steps \ {"idle"}, ClusterTypeOK',
           exp' \in [create : SUBSET Names, delete : SUBSET Names],
           rvExp' \in [Names -> Nat \cup {NoEntry}], queued' = queued
    PROVE  TypeOK'
BY DEF TypeOK

LEMMA ReadTypeOK ==
    ASSUME TypeOK, Take \/ PassScaleGate \/ WaitForScale \/ ListPods
                   \/ PassVersionGate \/ WaitForVersions \/ ReconcileFails
    PROVE  TypeOK'
<1>1. CASE Take
  <2>1. NewJob(iuCache) \in Job
    BY DEF TypeOK, ClusterTypeOK, NewJob, Job, NoView
  <2> QED
    BY <1>1, <2>1 DEF Take, TypeOK, ClusterTypeOK, clusterVars, Steps
<1>2. CASE PassScaleGate
  BY <1>2 DEF PassScaleGate, TypeOK, ClusterTypeOK, clusterVars, Steps
<1>3. CASE WaitForScale
  <2>1. ClusterTypeOK'
    BY <1>3 DEF WaitForScale, TypeOK, ClusterTypeOK, clusterVars
  <2> QED
    BY <1>3, <2>1, ReturnType DEF WaitForScale
<1>4. CASE ListPods
  <2>1. job \in Job /\ ActivePods(cache) \in [Names -> Pod \cup {None}]
    BY <1>4, ActivePodsType DEF ListPods, TypeOK, ClusterTypeOK
  <2>2. job' \in Job
    BY <1>4, <2>1 DEF ListPods, Job
  <2>3. slipped' \subseteq Names
    BY <1>4 DEF ListPods, TypeOK, ClusterTypeOK
  <2> QED
    BY <1>4, <2>2, <2>3 DEF ListPods, TypeOK, ClusterTypeOK, Steps
<1>5. CASE PassVersionGate
  <2>1. rvExp' \in [Names -> Nat \cup {NoEntry}]
    BY <1>5 DEF PassVersionGate, TypeOK
  <2> QED
    BY <1>5, <2>1 DEF PassVersionGate, TypeOK, ClusterTypeOK, clusterVars, Steps
<1>6. CASE WaitForVersions
  <2>1. ClusterTypeOK'
    BY <1>6 DEF WaitForVersions, TypeOK, ClusterTypeOK, clusterVars
  <2> QED
    BY <1>6, <2>1, ReturnType DEF WaitForVersions
<1>7. CASE ReconcileFails
  <2>1. ClusterTypeOK'
    BY <1>7, DisturbType DEF ReconcileFails, TypeOK, ClusterTypeOK
  <2> QED
    BY <1>7, <2>1, ReturnType DEF ReconcileFails
<1> QED
  BY <1>1, <1>2, <1>3, <1>4, <1>5, <1>6, <1>7

LEMMA DeleteNextType ==
    ASSUME TypeOK, pc = "sync", NEW S \in SUBSET Names, DeleteNext(S)
    PROVE  TypeOK'
<1>1. job' \in Job
  BY DEF DeleteNext, TypeOK, Job
<1> QED
  BY <1>1 DEF DeleteNext, TypeOK, ClusterTypeOK, clusterVars, Steps

LEMMA ScaleTypeOK ==
    ASSUME TypeOK, ScaleOut \/ DeleteSpecified \/ ScaleIn \/ NothingToScale
    PROVE  TypeOK'
<1>1. CASE ScaleOut
  <2>1. PICK S \in SUBSET Fresh :
          /\ exp' = [exp EXCEPT !.create = @ \cup S]
          /\ job' = [job EXCEPT !.plan = S, !.todo = S, !.size = 1]
    BY <1>1 DEF ScaleOut
  <2>2. S \subseteq Names
    BY <2>1 DEF Fresh, Unused
  <2>3. job' \in Job
    BY <1>1, <2>1, <2>2 DEF ScaleOut, TypeOK, Job
  <2>4. exp' \in [create : SUBSET Names, delete : SUBSET Names]
    BY <2>1, <2>2 DEF TypeOK
  <2> QED
    BY <1>1, <2>3, <2>4 DEF ScaleOut, TypeOK, ClusterTypeOK, clusterVars, Steps
<1>2. CASE DeleteSpecified
  <2>1. PICK S \in SpecifiedDeleteChoices(job.view, PassDiffs) : DeleteNext(S)
    BY <1>2 DEF DeleteSpecified
  <2>2. S \subseteq Names
    BY <2>1 DEF SpecifiedDeleteChoices, SpecifiedDelete, Members
  <2> QED
    BY <1>2, <2>1, <2>2, DeleteNextType DEF DeleteSpecified
<1>3. CASE ScaleIn
  <2>1. PICK S \in ScaleInChoices(job.view, job.iu.rev, PassDiffs) : DeleteNext(S)
    BY <1>3 DEF ScaleIn
  <2>2. S \subseteq Names
    BY <2>1 DEF ScaleInChoices, Updated, Members
  <2> QED
    BY <1>3, <2>1, <2>2, DeleteNextType DEF ScaleIn
<1>4. CASE NothingToScale
  BY <1>4, DeleteNextType DEF NothingToScale
<1> QED
  BY <1>1, <1>2, <1>3, <1>4

LEMMA CreateTypeOK ==
    ASSUME TypeOK,
           \/ StartBatch \/ EndCreate
           \/ \E n \in Names : CreateOne(n) \/ CreateFails(n) \/ CreateTimesOut(n)
    PROVE  TypeOK'
<1>1. CASE StartBatch
  <2>0. job \in Job /\ job.size \in Nat
    BY <1>1 DEF StartBatch, TypeOK, Job
  <2>1. job \in Job /\ 2 * job.size \in Nat
    BY <2>0
  <2>2. PICK B \in SUBSET job.todo :
          job' = [job EXCEPT !.batch = B, !.todo = @ \ B, !.size = 2 * @]
    BY <1>1 DEF StartBatch
  <2>3. job' \in Job
    BY <2>1, <2>2 DEF Job
  <2> QED
    BY <1>1, <2>3 DEF StartBatch, TypeOK, ClusterTypeOK, clusterVars, Steps
<1>2. CASE EndCreate
  <2>1. job' \in Job /\ exp' \in [create : SUBSET Names, delete : SUBSET Names]
    BY <1>2 DEF EndCreate, TypeOK, Job
  <2> QED
    BY <1>2, <2>1 DEF EndCreate, TypeOK, ClusterTypeOK, clusterVars, Steps
<1>3. ASSUME NEW n \in Names, CreateOne(n) PROVE TypeOK'
  <2>1. job \in Job /\ job.iu.rev \in Revs
    BY <1>3 DEF CreateOne, TypeOK, Job, Inplaceu
  <2>2. NewPod(job.iu.rev) \in Pod
    BY <2>1 DEF NewPod, Pod
  <2>3. ClusterTypeOK'
    BY <1>3, <2>2, PublishType DEF CreateOne, Calm, TypeOK, ClusterTypeOK
  <2>4. job' \in Job
    BY <1>3, <2>1 DEF CreateOne, Job
  <2> QED
    BY <1>3, <2>3, <2>4 DEF CreateOne, TypeOK
<1>4. ASSUME NEW n \in Names, CreateFails(n) PROVE TypeOK'
  <2>1. job' \in Job
    BY <1>4 DEF CreateFails, TypeOK, Job
  <2> QED
    BY <1>4, <2>1, DisturbType DEF CreateFails, TypeOK, ClusterTypeOK
<1>5. ASSUME NEW n \in Names, CreateTimesOut(n) PROVE TypeOK'
  <2>1. job \in Job /\ job.iu.rev \in Revs
    BY <1>5 DEF CreateTimesOut, TypeOK, Job, Inplaceu
  <2>2. NewPod(job.iu.rev) \in Pod
    BY <2>1 DEF NewPod, Pod
  <2>3. ClusterTypeOK'
    BY <1>5, <2>2, PublishType, DisturbType DEF CreateTimesOut, TypeOK, ClusterTypeOK
  <2>4. job' \in Job
    BY <1>5, <2>1 DEF CreateTimesOut, Job
  <2> QED
    BY <1>5, <2>3, <2>4 DEF CreateTimesOut, TypeOK
<1> QED
  BY <1>1, <1>2, <1>3, <1>4, <1>5

LEMMA DeleteTypeOK ==
    ASSUME TypeOK,
           \/ EndDelete
           \/ \E n \in Names : \/ ExpectDelete(n) \/ DeleteOne(n)
                               \/ DeleteFails(n) \/ DeleteTimesOut(n)
    PROVE  TypeOK'
<1>1. CASE EndDelete
  BY <1>1 DEF EndDelete, TypeOK, ClusterTypeOK, clusterVars, Steps
<1>2. ASSUME NEW n \in Names, ExpectDelete(n) PROVE TypeOK'
  <2>1. job' \in Job /\ exp' \in [create : SUBSET Names, delete : SUBSET Names]
    BY <1>2 DEF ExpectDelete, TypeOK, Job
  <2> QED
    BY <1>2, <2>1 DEF ExpectDelete, TypeOK, ClusterTypeOK, clusterVars
<1>3. ASSUME NEW n \in Names, DeleteOne(n) PROVE TypeOK'
  <2>1. pods[n] \in Pod
    BY <1>3 DEF DeleteOne, TypeOK, ClusterTypeOK
  <2>2. ClusterTypeOK'
    <3>1. CASE pods[n].term
      BY <1>3, <3>1 DEF DeleteOne, TypeOK, ClusterTypeOK
    <3>2. CASE ~pods[n].term
      <4>1. PICK p \in Deleted(pods[n]) : Publish(n, p)
        BY <1>3, <3>2 DEF DeleteOne
      <4>2. p \in Pod \cup {None}
        BY <2>1, DeletedType
      <4> QED
        BY <1>3, <4>1, <4>2, PublishType DEF DeleteOne, TypeOK, ClusterTypeOK
    <3> QED
      BY <3>1, <3>2
  <2>3. job' \in Job
    BY <1>3 DEF DeleteOne, TypeOK, Job
  <2> QED
    BY <1>3, <2>2, <2>3 DEF DeleteOne, TypeOK
<1>4. ASSUME NEW n \in Names, TypeOK, pc = "delete", DeleteStops(n) 
      PROVE  /\ job' \in Job /\ pc' \in Steps \ {"idle"}
             /\ exp' \in [create : SUBSET Names, delete : SUBSET Names]
  BY <1>4 DEF DeleteStops, TypeOK, Job, Steps
<1>5. ASSUME NEW n \in Names, DeleteFails(n) PROVE TypeOK'
  <2>1. budget' \in 0 .. Budget /\ slipped' \subseteq Names
    BY <1>5, DisturbType DEF DeleteFails, Calm, TypeOK, ClusterTypeOK
  <2> QED
    BY <1>4, <1>5, <2>1 DEF DeleteFails, TypeOK, ClusterTypeOK
<1>6. ASSUME NEW n \in Names, DeleteTimesOut(n) PROVE TypeOK'
  <2>1. pods[n] \in Pod
    BY <1>6 DEF DeleteTimesOut, IsActive, TypeOK, ClusterTypeOK
  <2>2. PICK p \in Deleted(pods[n]) : Publish(n, p)
    BY <1>6 DEF DeleteTimesOut
  <2>3. p \in Pod \cup {None}
    BY <2>1, DeletedType
  <2>4. ClusterTypeOK'
    BY <1>6, <2>2, <2>3, PublishType, DisturbType DEF DeleteTimesOut, TypeOK, ClusterTypeOK
  <2> QED
    BY <1>4, <1>6, <2>4 DEF DeleteTimesOut, TypeOK
<1> QED
  BY <1>1, <1>2, <1>3, <1>5, <1>6

LEMMA UpdateTypeOK ==
    ASSUME TypeOK,
           \/ ChooseUpdates
           \/ \E n \in Names : \/ UpdateInPlace(n) \/ UpdateByRecreate(n)
                               \/ UpdateFails(n) \/ UpdateTimesOut(n)
    PROVE  TypeOK'
<1>1. CASE ChooseUpdates
  <2>1. PICK S \in UpdateChoices(job.view, job.iu.rev, PassDiffs) :
          /\ job' = [job EXCEPT !.todo = S]
          /\ pc' = IF S = {} THEN "status" ELSE "updating"
    BY <1>1 DEF ChooseUpdates
  <2>2. S \subseteq Names
    BY <2>1 DEF UpdateChoices, Waiting, Members
  <2>3. job' \in Job
    BY <1>1, <2>1, <2>2 DEF ChooseUpdates, TypeOK, Job
  <2> QED
    BY <1>1, <2>1, <2>3 DEF ChooseUpdates, TypeOK, ClusterTypeOK, clusterVars, Steps
<1>2. ASSUME NEW n \in Names, watch' \in [Names -> Seq(Pod \cup {None})], Expect(n)
      PROVE  rvExp' \in [Names -> Nat \cup {NoEntry}]
  <2>1. Len(watch'[n]) \in Nat
    BY <1>2
  <2> QED
    BY <1>2, <2>1 DEF Expect, TypeOK
<1>3. ASSUME NEW n \in Names, NEW view \in [Names -> Pod \cup {None}],
             pc = "updating", UpdateNext(n, view)
      PROVE  job' \in Job /\ pc' \in Steps \ {"idle"}
  BY <1>3 DEF UpdateNext, TypeOK, Job, Steps
<1>4. ASSUME NEW n \in Names, UpdateInPlace(n) PROVE TypeOK'
  <2>1. job \in Job /\ job.view \in [Names -> Pod \cup {None}] /\ job.iu.rev \in Revs
    BY <1>4 DEF UpdateInPlace, TypeOK, Job, Inplaceu
  <2>2. [pods[n] EXCEPT !.rev = job.iu.rev] \in Pod
    <3>1. pods[n] \in Pod
      BY <1>4 DEF UpdateInPlace, TypeOK, ClusterTypeOK
    <3> QED
      BY <2>1, <3>1 DEF Pod
  <2>3. ClusterTypeOK'
    BY <1>4, <2>2, PublishType DEF UpdateInPlace, TypeOK, ClusterTypeOK
  <2> QED
    BY <1>2, <1>3, <1>4, <2>1, <2>3 DEF UpdateInPlace, TypeOK, ClusterTypeOK
<1>5. ASSUME NEW n \in Names, UpdateByRecreate(n) PROVE TypeOK'
  <2>1. job \in Job /\ job.view \in [Names -> Pod \cup {None}]
    BY <1>5 DEF UpdateByRecreate, TypeOK, Job
  <2>0. budget' \in 0 .. Budget /\ slipped' \subseteq Names
    BY <1>5, DisturbType DEF UpdateByRecreate, Calm, TypeOK, ClusterTypeOK
  <2>2. CASE job.view[n].sdel
    <3>1. UpdateNext(n, job.view) /\ pc = "updating"
      BY <1>5, <2>2 DEF UpdateByRecreate
    <3> QED
      BY <1>3, <1>5, <2>0, <2>1, <2>2, <3>1 DEF UpdateByRecreate, TypeOK, ClusterTypeOK
  <2>3. CASE ~job.view[n].sdel
    <3>1. /\ pc = "updating"
          /\ pods[n] \in Pod
          /\ Expect(n)
          /\ UpdateNext(n, [job.view EXCEPT ![n] = pods'[n]])
      BY <1>5, <2>3 DEF UpdateByRecreate, TypeOK, ClusterTypeOK
    <3>2. [pods[n] EXCEPT !.sdel = TRUE] \in Pod
      BY <3>1 DEF Pod
    <3>3. ClusterTypeOK'
      BY <1>5, <2>0, <2>3, <3>2, PublishType DEF UpdateByRecreate, TypeOK, ClusterTypeOK
    <3>4. [job.view EXCEPT ![n] = pods'[n]] \in [Names -> Pod \cup {None}]
      BY <2>1, <3>3 DEF ClusterTypeOK
    <3>5. rvExp' \in [Names -> Nat \cup {NoEntry}]
      BY <1>2, <3>1, <3>3 DEF ClusterTypeOK
    <3> QED
      BY <1>3, <1>5, <3>1, <3>3, <3>4, <3>5 DEF UpdateByRecreate, TypeOK
  <2> QED
    BY <2>2, <2>3
<1>6. ASSUME NEW n \in Names, UpdateFails(n) PROVE TypeOK'
  <2>1. budget' \in 0 .. Budget /\ slipped' \subseteq Names
    BY <1>6, DisturbType DEF UpdateFails, Calm, TypeOK, ClusterTypeOK
  <2>2. job' \in Job
    BY <1>6 DEF UpdateFails, UpdateStops, TypeOK, Job
  <2> QED
    BY <1>6, <2>1, <2>2 DEF UpdateFails, UpdateStops, TypeOK, ClusterTypeOK, Steps
<1>7. ASSUME NEW n \in Names, UpdateTimesOut(n) PROVE TypeOK'
  <2>1. pc = "updating" /\ pods[n] \in Pod /\ job.iu.rev \in Revs
    BY <1>7 DEF UpdateTimesOut, TypeOK, ClusterTypeOK, Job, Inplaceu
  <2>2. /\ [pods[n] EXCEPT !.rev = job.iu.rev] \in Pod
        /\ [pods[n] EXCEPT !.sdel = TRUE] \in Pod
    BY <2>1 DEF Pod
  <2>3. budget' \in 0 .. Budget /\ slipped' \subseteq Names
    BY <1>7, DisturbType, SlipType DEF UpdateTimesOut, TypeOK
  <2>4. ClusterTypeOK'
    BY <1>7, <2>2, <2>3, PublishType DEF UpdateTimesOut, TypeOK, ClusterTypeOK
  <2>5. job' \in Job
    BY <1>7, <2>1 DEF UpdateTimesOut, UpdateStops, TypeOK, Job
  <2> QED
    BY <1>7, <2>4, <2>5 DEF UpdateTimesOut, UpdateStops, TypeOK, Steps
<1> QED
  BY <1>1, <1>4, <1>5, <1>6, <1>7

LEMMA StatusTypeOK ==
    ASSUME TypeOK, \/ StatusIsConsistent \/ UpdateStatus
                   \/ UpdateStatusFails \/ UpdateStatusTimesOut
    PROVE  TypeOK'
<1>1. job \in Job /\ job.err \in BOOLEAN /\ job.iu \in Inplaceu
  BY DEF StatusIsConsistent, UpdateStatus, UpdateStatusFails, UpdateStatusTimesOut, TypeOK, Job
<1>2. CASE StatusIsConsistent
  <2>1. ClusterTypeOK'
    BY <1>2 DEF StatusIsConsistent, TypeOK, ClusterTypeOK, clusterVars
  <2> QED
    BY <1>1, <1>2, <2>1, ReturnType DEF StatusIsConsistent
<1>3. CASE UpdateStatus
  <2>1. NewStatus \in Status
    BY <1>1, CalculateStatusType DEF NewStatus
  <2>2. iu' \in Inplaceu
    <3>1. iu \in Inplaceu
      BY DEF TypeOK, ClusterTypeOK
    <3> QED
      BY <1>3, <2>1, <3>1 DEF UpdateStatus, Inplaceu
  <2>3. ClusterTypeOK'
    BY <1>3, <2>2 DEF UpdateStatus, TypeOK, ClusterTypeOK
  <2> QED
    BY <1>1, <1>3, <2>3, ReturnType DEF UpdateStatus
<1>4. CASE UpdateStatusFails
  <2>1. budget' \in 0 .. Budget /\ slipped' \subseteq Names
    BY <1>4, DisturbType DEF UpdateStatusFails, Calm, TypeOK, ClusterTypeOK
  <2>2. ClusterTypeOK'
    BY <1>4, <2>1 DEF UpdateStatusFails, TypeOK, ClusterTypeOK
  <2> QED
    BY <1>4, <2>2, ReturnType DEF UpdateStatusFails
<1>5. CASE UpdateStatusTimesOut
  <2>1. NewStatus \in Status /\ iu \in Inplaceu
    BY <1>1, CalculateStatusType DEF NewStatus, TypeOK, ClusterTypeOK
  <2>2. iu' \in Inplaceu
    BY <1>5, <2>1 DEF UpdateStatusTimesOut, Inplaceu
  <2>3. ClusterTypeOK'
    BY <1>5, <2>2, DisturbType DEF UpdateStatusTimesOut, TypeOK, ClusterTypeOK
  <2> QED
    BY <1>5, <2>3, ReturnType DEF UpdateStatusTimesOut
<1> QED
  BY <1>2, <1>3, <1>4, <1>5

-----------------------------------------------------------------------------
LEMMA NextTypeOK == TypeOK /\ [Next]_vars => TypeOK'
<1> SUFFICES ASSUME TypeOK, [Next]_vars PROVE TypeOK'
  OBVIOUS
<1>1. CASE Worker
  BY <1>1, ReadTypeOK, ScaleTypeOK, CreateTypeOK, DeleteTypeOK, UpdateTypeOK, StatusTypeOK
  DEF Worker
<1>2. CASE WorkerFault
  BY <1>2, ReadTypeOK, CreateTypeOK, DeleteTypeOK, UpdateTypeOK, StatusTypeOK DEF WorkerFault
<1>3. CASE UNCHANGED vars
  BY <1>3 DEF vars, clusterVars, controllerVars, TypeOK, ClusterTypeOK
<1> QED
  BY <1>1, <1>2, <1>3, InformerTypeOK, CrashTypeOK, EnvironmentTypeOK DEF Next

\* Every step of the controller, its informers and the cluster keeps the types:
\* no expectation, queue entry or local state of a reconcile is of another shape.
THEOREM TypeCorrect == Spec => []TypeOK
<1>1. Init => TypeOK
  BY InitTypeOK
<1>2. TypeOK /\ [Next]_vars => TypeOK'
  BY NextTypeOK
<1> QED
  BY <1>1, <1>2, PTL DEF Spec

-----------------------------------------------------------------------------
(* An in-place update is written once.  Versions is the half of              *)
(* UpdateInvariant about the pods and what is known of them, Listing the     *)
(* half about the worker.                                                    *)

Versions == FutureActive /\ LastVersionIsStored /\ ActiveNotGone /\ RevisionAwaited

Listing == Untried /\ ListedRevisions

\* The types the lemmas below need.
LEMMA VersionTypes ==
    ASSUME TypeOK
    PROVE  /\ pods \in [Names -> Pod \cup {None}]
           /\ cache \in [Names -> Pod \cup {None}]
           /\ watch \in [Names -> Seq(Pod \cup {None})]
           /\ notes \in [Names -> Seq(EventKinds)]
           /\ rvExp \in [Names -> Nat \cup {-1}]
           /\ \A n \in Names : Len(watch[n]) \in Nat /\ DOMAIN watch[n] = 1 .. Len(watch[n])
BY DEF TypeOK, ClusterTypeOK, NoEntry

\* A step that moves no pod may give up an expected version that the cache has, or
\* expect the last one.
LEMMA VersionsQuiet ==
    ASSUME TypeOK, Versions, UNCHANGED <<pods, watch, cache, notes>>,
           \A n \in Names : \/ rvExp'[n] = rvExp[n]
                            \/ rvExp'[n] = NoEntry /\ (n \in Active \ slipped => rvExp[n] <= 0)
                            \/ rvExp'[n] = Len(watch[n]),
           \A n \in slipped \ slipped' : watch[n] = <<>>
    PROVE  Versions' /\ Active' = Active
<1>1. Active' = Active
  BY DEF Active
<1>2. FutureActive' /\ LastVersionIsStored' /\ ActiveNotGone'
  BY <1>1 DEF Versions, FutureActive, LastVersionIsStored, ActiveNotGone, Version
<1>3. RevisionAwaited'
  <2> SUFFICES ASSUME NEW n \in Names
               PROVE  /\ rvExp'[n] <= Len(watch[n])
                      /\ n \in Active \ slipped' => \A i \in 0 .. Len(watch[n]) :
                            i >= rvExp'[n] /\ Version(n, i) # None =>
                               Version(n, i).rev = pods[n].rev
    BY <1>1 DEF RevisionAwaited, Version
  <2>1. Len(watch[n]) \in Nat /\ rvExp[n] \in Int
    BY VersionTypes
  <2>5. CASE n \in slipped \ slipped'
    <3>1. Len(watch[n]) = 0 /\ rvExp[n] <= 0
      BY <2>5 DEF Versions, RevisionAwaited
    <3>2. pods[n] = Version(n, 0)
      BY <3>1 DEF Versions, LastVersionIsStored
    <3>3. \A i \in 0 .. Len(watch[n]) : i = 0
      BY <3>1
    <3> QED
      BY <2>1, <3>1, <3>2, <3>3 DEF NoEntry
  <2>2. CASE rvExp'[n] = rvExp[n] /\ n \notin slipped \ slipped'
    BY <2>2 DEF Versions, RevisionAwaited
  <2>3. CASE /\ rvExp'[n] = NoEntry /\ (n \in Active \ slipped => rvExp[n] <= 0)
             /\ n \notin slipped \ slipped'
    BY <2>1, <2>3 DEF Versions, RevisionAwaited, NoEntry
  <2>4. CASE rvExp'[n] = Len(watch[n])
    <3>1. pods[n] = Version(n, Len(watch[n]))
      BY DEF Versions, LastVersionIsStored
    <3>2. \A i \in 0 .. Len(watch[n]) : i >= rvExp'[n] => i = Len(watch[n])
      BY <2>1, <2>4
    <3> QED
      BY <2>1, <2>4, <3>1, <3>2
  <2> QED
    BY <2>2, <2>3, <2>4, <2>5
<1> QED
  BY <1>1, <1>2, <1>3 DEF Versions

\* What a write adds to the versions of a pod.
LEMMA PublishedVersion ==
    ASSUME TypeOK, NEW n \in Names, NEW p \in Pod \cup {None}, Publish(n, p), cache' = cache
    PROVE  /\ pods'[n] = p /\ Len(watch'[n]) = Len(watch[n]) + 1
           /\ DOMAIN watch'[n] = 1 .. (Len(watch[n]) + 1)
           /\ \A i \in 1 .. Len(watch[n]) : watch'[n][i] = watch[n][i]
           /\ watch'[n][Len(watch[n]) + 1] = p
           /\ \A m \in Names \ {n} : pods'[m] = pods[m] /\ watch'[m] = watch[m]
<1>1. /\ pods' = [pods EXCEPT ![n] = p]
      /\ watch' = [watch EXCEPT ![n] = Append(watch[n], p)]
  BY DEF Publish
<1>2. /\ watch'[n] = Append(watch[n], p) /\ watch[n] \in Seq(Pod \cup {None})
      /\ pods'[n] = p
      /\ \A m \in Names \ {n} : pods'[m] = pods[m] /\ watch'[m] = watch[m]
  BY <1>1, VersionTypes
<1> QED
  BY <1>2

\* A write of a pod, at its revision, with the new version expected, or slipped.
LEMMA VersionsWrite ==
    ASSUME TypeOK, Versions, NEW n \in Names, NEW p \in Pod \cup {None}, Publish(n, p),
           IsActive(p) => IsActive(pods[n]),
           \/ rvExp' = rvExp /\ (IsActive(p) => p.rev = pods[n].rev \/ n \in slipped')
           \/ rvExp' = [rvExp EXCEPT ![n] = Len(watch'[n])],
           UNCHANGED <<cache, notes>>, slipped \subseteq slipped'
    PROVE  Versions' /\ Active' \subseteq Active
<1>1. /\ pods'[n] = p /\ Len(watch'[n]) = Len(watch[n]) + 1
      /\ DOMAIN watch'[n] = 1 .. (Len(watch[n]) + 1)
      /\ \A i \in 1 .. Len(watch[n]) : watch'[n][i] = watch[n][i]
      /\ watch'[n][Len(watch[n]) + 1] = p
      /\ \A m \in Names \ {n} : pods'[m] = pods[m] /\ watch'[m] = watch[m]
  BY PublishedVersion
<1>2. /\ \A m \in Names : Len(watch[m]) \in Nat /\ DOMAIN watch[m] = 1 .. Len(watch[m])
      /\ rvExp \in [Names -> Nat \cup {-1}]
  BY VersionTypes
<1>3. Active' \subseteq Active /\ Active \subseteq Names
  BY <1>1 DEF Active
<1>4. FutureActive'
  <2> SUFFICES ASSUME NEW m \in Active', NEW i \in DOMAIN watch'[m]
               PROVE  IsActive(watch'[m][i])
    BY DEF FutureActive
  <2>1. m \in Active /\ m \in Names
    BY <1>3
  <2>2. CASE m # n
    BY <1>1, <2>1, <2>2 DEF Versions, FutureActive
  <2>3. CASE m = n
    <3>1. IsActive(p)
      BY <1>1, <2>3 DEF Active
    <3>2. i \in 1 .. Len(watch[n]) \/ i = Len(watch[n]) + 1
      BY <1>1, <1>2, <2>3
    <3>3. \A k \in 1 .. Len(watch[n]) : IsActive(watch[n][k])
      BY <1>2, <2>1, <2>3 DEF Versions, FutureActive
    <3> QED
      BY <1>1, <2>3, <3>1, <3>2, <3>3
  <2> QED
    BY <2>2, <2>3
<1>5. LastVersionIsStored'
  <2> SUFFICES ASSUME NEW m \in Names PROVE pods'[m] = Version(m, Len(watch[m]))'
    BY DEF LastVersionIsStored
  <2>1. CASE m # n
    BY <1>1, <2>1 DEF Versions, LastVersionIsStored, Version
  <2>2. CASE m = n
    <3>1. Len(watch[n]) + 1 # 0
      BY <1>2
    <3> QED
      BY <1>1, <2>2, <3>1 DEF Version
  <2> QED
    BY <2>1, <2>2
<1>6. ActiveNotGone'
  BY <1>3 DEF Versions, ActiveNotGone
<1>7. RevisionAwaited'
  <2> SUFFICES ASSUME NEW m \in Names
               PROVE  /\ rvExp'[m] <= Len(watch'[m])
                      /\ m \in Active' \ slipped' => \A i \in 0 .. Len(watch'[m]) :
                            i >= rvExp'[m] /\ Version(m, i)' # None =>
                               Version(m, i)'.rev = pods'[m].rev
    BY DEF RevisionAwaited
  <2>1. rvExp[m] <= Len(watch[m]) /\ rvExp[m] \in Int
    BY <1>2 DEF Versions, RevisionAwaited
  <2>2. CASE m # n
    <3>1. rvExp'[m] = rvExp[m]
      BY <1>2, <2>2
    <3>2. watch'[m] = watch[m] /\ pods'[m] = pods[m]
      BY <1>1, <2>2
    <3>3. m \in Active' \ slipped' => m \in Active \ slipped
      BY <1>3
    <3> QED
      BY <3>1, <3>2, <3>3 DEF Versions, RevisionAwaited, Version
  <2>3. CASE m = n /\ rvExp' = [rvExp EXCEPT ![n] = Len(watch'[n])]
    <3>1. rvExp'[n] = Len(watch[n]) + 1
      BY <1>1, <1>2, <2>3
    <3>2. \A i \in 0 .. Len(watch'[n]) : i >= rvExp'[n] => Version(n, i)' = p
      BY <1>1, <1>2, <3>1 DEF Version
    <3> QED
      BY <1>1, <1>2, <2>3, <3>1, <3>2
  <2>4. CASE /\ m = n /\ rvExp' = rvExp
             /\ IsActive(p) => p.rev = pods[n].rev \/ n \in slipped'
    <3>1. \A i \in 0 .. Len(watch'[n]) :
             \/ i \in 0 .. Len(watch[n]) /\ Version(n, i)' = Version(n, i)
             \/ Version(n, i)' = p
      BY <1>1, <1>2 DEF Version
    <3>2. n \in Active' \ slipped' => n \in Active \ slipped /\ IsActive(p)
      BY <1>1, <1>3 DEF Active
    <3>3. n \in Active' \ slipped' => \A i \in 0 .. Len(watch[n]) :
             i >= rvExp[n] /\ Version(n, i) # None => Version(n, i).rev = pods'[n].rev
      BY <1>1, <2>4, <3>2 DEF Versions, RevisionAwaited
    <3>4. n \in Active' \ slipped' => \A i \in 0 .. Len(watch'[n]) :
             i >= rvExp'[n] /\ Version(n, i)' # None => Version(n, i)'.rev = pods'[n].rev
      BY <1>1, <2>4, <3>1, <3>3
    <3> QED
      BY <1>1, <1>2, <2>1, <2>4, <3>4
  <2> QED
    BY <2>2, <2>3, <2>4
<1> QED
  BY <1>3, <1>4, <1>5, <1>6, <1>7 DEF Versions

\* A new pod.
LEMMA VersionsCreate ==
    ASSUME TypeOK, Versions, NEW n \in Unused, NEW p \in Pod, Publish(n, p), IsActive(p),
           UNCHANGED <<cache, notes, rvExp>>, slipped \subseteq slipped'
    PROVE  Versions' /\ Active' \subseteq Active \cup {n} /\ Unused \ {n} \subseteq Unused'
<1>1. n \in Names /\ watch[n] = <<>> /\ notes[n] = <<>> /\ cache[n] = None
  BY DEF Unused
<1>2. /\ pods'[n] = p /\ Len(watch'[n]) = Len(watch[n]) + 1
      /\ DOMAIN watch'[n] = 1 .. (Len(watch[n]) + 1)
      /\ watch'[n][Len(watch[n]) + 1] = p
      /\ \A m \in Names \ {n} : pods'[m] = pods[m] /\ watch'[m] = watch[m]
  BY <1>1, PublishedVersion
<1>3. Len(watch[n]) = 0
  BY <1>1
<1>4. Active' \subseteq Active \cup {n} /\ Active \subseteq Names
  BY <1>2 DEF Active
<1>5. FutureActive'
  <2> SUFFICES ASSUME NEW m \in Active', NEW i \in DOMAIN watch'[m]
               PROVE  IsActive(watch'[m][i])
    BY DEF FutureActive
  <2>1. CASE m = n
    BY <1>2, <1>3, <2>1
  <2>2. CASE m # n
    BY <1>2, <1>4, <2>2 DEF Versions, FutureActive
  <2> QED
    BY <2>1, <2>2
<1>6. LastVersionIsStored'
  <2> SUFFICES ASSUME NEW m \in Names PROVE pods'[m] = Version(m, Len(watch[m]))'
    BY DEF LastVersionIsStored
  <2>1. CASE m # n
    BY <1>2, <2>1 DEF Versions, LastVersionIsStored, Version
  <2>2. CASE m = n
    BY <1>2, <1>3, <2>2 DEF Version
  <2> QED
    BY <2>1, <2>2
<1>7. ActiveNotGone'
  BY <1>1, <1>4 DEF Versions, ActiveNotGone
<1>8. RevisionAwaited'
  <2> SUFFICES ASSUME NEW m \in Names
               PROVE  /\ rvExp[m] <= Len(watch'[m])
                      /\ m \in Active' \ slipped' => \A i \in 0 .. Len(watch'[m]) :
                            i >= rvExp[m] /\ Version(m, i)' # None =>
                               Version(m, i)'.rev = pods'[m].rev
    BY DEF RevisionAwaited
  <2>1. CASE m # n
    BY <1>2, <1>4, <2>1 DEF Versions, RevisionAwaited, Version
  <2>2. CASE m = n
    <3>1. rvExp[n] <= 0 /\ rvExp[n] \in Int
      BY <1>1, <1>3, VersionTypes DEF Versions, RevisionAwaited
    <3>2. \A i \in 0 .. 1 : Version(n, i)' = None \/ Version(n, i)' = p
      BY <1>1, <1>2, <1>3 DEF Version
    <3>3. Len(watch'[n]) = 1
      BY <1>2, <1>3
    <3>4. rvExp[n] <= Len(watch'[n])
      BY <3>1, <3>3
    <3>5. \A i \in 0 .. Len(watch'[n]) : Version(n, i)' # None => Version(n, i)'.rev = pods'[n].rev
      BY <1>2, <3>2, <3>3
    <3> QED
      BY <2>2, <3>4, <3>5
  <2> QED
    BY <2>1, <2>2
<1>9. Unused \ {n} \subseteq Unused'
  BY <1>2 DEF Unused
<1> QED
  BY <1>4, <1>5, <1>6, <1>7, <1>8, <1>9 DEF Versions

\* One version more in the cache.
LEMMA VersionsInformerStep ==
    ASSUME TypeOK, Versions, NEW n \in Names, InformerStep(n)
    PROVE  Versions' /\ Unused \subseteq Unused'
<1>1. /\ pods' = pods /\ watch[n] # <<>>
      /\ cache' = [cache EXCEPT ![n] = Head(watch[n])]
      /\ watch' = [watch EXCEPT ![n] = Tail(watch[n])]
      /\ notes' = [notes EXCEPT ![n] = Append(notes[n], EventKind(cache[n], Head(watch[n])))]
      /\ rvExp' = [rvExp EXCEPT ![n] = IF rvExp[n] > 0 THEN rvExp[n] - 1 ELSE rvExp[n]]
      /\ slipped' = slipped
  BY DEF InformerStep, CacheApply, Calm
<1>2. /\ cache'[n] = watch[n][1] /\ 1 \in DOMAIN watch[n] /\ Len(watch'[n]) = Len(watch[n]) - 1
      /\ \A i \in DOMAIN watch'[n] :
            i \in Nat /\ i >= 1 /\ i + 1 \in DOMAIN watch[n] /\ watch'[n][i] = watch[n][i + 1]
      /\ DOMAIN watch'[n] = 1 .. (Len(watch[n]) - 1)
      /\ Head(watch[n]) = watch[n][1]
      /\ \A m \in Names \ {n} : /\ cache'[m] = cache[m] /\ watch'[m] = watch[m]
                                /\ notes'[m] = notes[m] /\ rvExp'[m] = rvExp[m]
  BY <1>1, VersionTypes
<1>3. /\ Len(watch[n]) \in Nat /\ rvExp[n] \in Int
      /\ rvExp'[n] = IF rvExp[n] > 0 THEN rvExp[n] - 1 ELSE rvExp[n]
  BY <1>1, VersionTypes
<1>4. Active' = Active /\ Active \subseteq Names
  BY <1>1 DEF Active
<1>5. \A i \in 0 .. Len(watch'[n]) : Version(n, i)' = Version(n, i + 1)
  <2> SUFFICES ASSUME NEW i \in 0 .. Len(watch'[n]) PROVE Version(n, i)' = Version(n, i + 1)
    OBVIOUS
  <2>1. i + 1 # 0 /\ i \in Nat
    BY <1>2, <1>3
  <2>2. CASE i = 0
    BY <1>2, <2>2 DEF Version
  <2>3. CASE i # 0
    <3>1. i \in DOMAIN watch'[n]
      BY <1>2, <1>3, <2>1, <2>3
    <3>2. watch'[n][i] = watch[n][i + 1]
      BY <1>2, <3>1
    <3> QED
      BY <2>1, <2>3, <3>2 DEF Version
  <2> QED
    BY <2>2, <2>3
<1>6. FutureActive'
  BY <1>2, <1>4 DEF Versions, FutureActive
<1>7. LastVersionIsStored'
  <2> SUFFICES ASSUME NEW m \in Names PROVE pods'[m] = Version(m, Len(watch[m]))'
    BY DEF LastVersionIsStored
  <2>1. CASE m # n
    BY <1>1, <1>2, <2>1 DEF Versions, LastVersionIsStored, Version
  <2>2. CASE m = n
    <3>1. Len(watch'[n]) \in 0 .. Len(watch'[n]) /\ Len(watch'[n]) + 1 = Len(watch[n])
      BY <1>2, <1>3
    <3>2. Version(n, Len(watch[n]))' = Version(n, Len(watch[n]))
      BY <1>5, <3>1
    <3> QED
      BY <1>1, <2>2, <3>2 DEF Versions, LastVersionIsStored
  <2> QED
    BY <2>1, <2>2
<1>8. ActiveNotGone'
  <2> SUFFICES ASSUME NEW m \in Active, NEW i \in DOMAIN notes'[m] PROVE notes'[m][i] # "gone"
    BY <1>4 DEF ActiveNotGone
  <2>1. CASE m # n
    BY <1>2, <1>4, <2>1 DEF Versions, ActiveNotGone
  <2>2. CASE m = n
    <3>1. EventKind(cache[n], Head(watch[n])) # "gone"
      BY <1>2, <2>2 DEF Versions, FutureActive, EventKind, IsActive
    <3>2. \/ i \in DOMAIN notes[n] /\ notes'[n][i] = notes[n][i]
          \/ notes'[n][i] = EventKind(cache[n], Head(watch[n]))
      BY <1>1, <2>2, VersionTypes
    <3> QED
      BY <2>2, <3>1, <3>2 DEF Versions, ActiveNotGone
  <2> QED
    BY <2>1, <2>2
<1>9. RevisionAwaited'
  <2> SUFFICES ASSUME NEW m \in Names
               PROVE  /\ rvExp'[m] <= Len(watch'[m])
                      /\ m \in Active \ slipped' => \A i \in 0 .. Len(watch'[m]) :
                            i >= rvExp'[m] /\ Version(m, i)' # None =>
                               Version(m, i)'.rev = pods'[m].rev
    BY <1>4 DEF RevisionAwaited
  <2>1. CASE m # n
    <3>1. \A i \in 0 .. Len(watch[m]) : Version(m, i)' = Version(m, i)
      BY <1>2, <2>1 DEF Version
    <3>2. /\ rvExp'[m] = rvExp[m] /\ watch'[m] = watch[m]
          /\ pods' = pods /\ slipped' = slipped
      BY <1>1, <1>2, <2>1
    <3> QED
      BY <3>1, <3>2 DEF Versions, RevisionAwaited
  <2>2. CASE m = n
    <3>1. rvExp[n] <= Len(watch[n])
      BY DEF Versions, RevisionAwaited
    <3>2. rvExp'[n] <= Len(watch'[n]) /\ Len(watch[n]) > 0
      BY <1>2, <1>3, <3>1
    <3>3. ASSUME NEW i \in 0 .. Len(watch'[n]), i >= rvExp'[n]
          PROVE  i + 1 \in 0 .. Len(watch[n]) /\ i + 1 >= rvExp[n]
      BY <1>2, <1>3, <3>3
    <3>4. n \in Active \ slipped' => \A i \in 0 .. Len(watch'[n]) :
             i >= rvExp'[n] /\ Version(n, i + 1) # None => Version(n, i + 1).rev = pods[n].rev
      BY <1>1, <3>3 DEF Versions, RevisionAwaited
    <3> QED
      BY <1>1, <1>5, <2>2, <3>2, <3>4
  <2> QED
    BY <2>1, <2>2
<1>10. Unused \subseteq Unused'
  BY <1>1, <1>2 DEF Unused
<1> QED
  BY <1>6, <1>7, <1>8, <1>9, <1>10 DEF Versions

\* A cache that shows the pods as they are, and no version awaited.
LEMMA VersionsSynced ==
    ASSUME TypeOK, pods' = pods, cache' = pods, watch' = [m \in Names |-> <<>>],
           \A m \in Active : \A i \in DOMAIN notes'[m] : notes'[m][i] # "gone",
           \A m \in Names : rvExp'[m] <= 0
    PROVE  Versions' /\ Active' = Active
<1>1. Active' = Active /\ Active \subseteq Names
  BY DEF Active
<1>2. \A m \in Names : watch'[m] = <<>> /\ Len(watch'[m]) = 0 /\ DOMAIN watch'[m] = {}
  OBVIOUS
<1>3. FutureActive' /\ ActiveNotGone'
  BY <1>1, <1>2 DEF FutureActive, ActiveNotGone
<1>4. \A m \in Names : \A i \in 0 .. Len(watch'[m]) : i = 0 /\ Version(m, i)' = pods[m]
  BY <1>2 DEF Version
<1>5. LastVersionIsStored'
  BY <1>2 DEF LastVersionIsStored, Version
<1>6. RevisionAwaited'
  BY <1>2, <1>4 DEF RevisionAwaited
<1> QED
  BY <1>1, <1>3, <1>5, <1>6 DEF Versions

\* The handler drops an expected version of a pod that is not active any more.
LEMMA VersionsHandleNote ==
    ASSUME TypeOK, Versions, NEW n \in Names, HandleNote(n)
    PROVE  /\ Versions' /\ Unused \subseteq Unused'
           /\ \A m \in Active : rvExp'[m] = rvExp[m]
<1>1. /\ UNCHANGED <<pods, watch, cache, slipped>>
      /\ notes[n] # <<>>
      /\ notes' = [notes EXCEPT ![n] = Tail(notes[n])]
      /\ rvExp' = IF Head(notes[n]) = "gone" THEN [rvExp EXCEPT ![n] = NoEntry] ELSE rvExp
  BY DEF HandleNote
<1>2. /\ 1 \in DOMAIN notes[n] /\ Head(notes[n]) = notes[n][1]
      /\ \A i \in DOMAIN notes'[n] : i + 1 \in DOMAIN notes[n] /\ notes'[n][i] = notes[n][i + 1]
      /\ \A m \in Names \ {n} : notes'[m] = notes[m]
  BY <1>1, VersionTypes
<1>3. Active' = Active /\ Active \subseteq Names
  BY <1>1 DEF Active
<1>4. \A m \in Names : \/ rvExp'[m] = rvExp[m]
                       \/ rvExp'[m] = NoEntry /\ m \notin Active
  BY <1>1, <1>2, VersionTypes DEF Versions, ActiveNotGone
<1>5. FutureActive' /\ LastVersionIsStored'
  BY <1>1, <1>3 DEF Versions, FutureActive, LastVersionIsStored, Version
<1>6. ActiveNotGone'
  BY <1>2, <1>3 DEF Versions, ActiveNotGone
<1>7. RevisionAwaited'
  <2>1. \A m \in Names : rvExp'[m] <= Len(watch'[m])
    BY <1>1, <1>4, VersionTypes DEF Versions, RevisionAwaited, NoEntry
  <2> QED
    BY <1>1, <1>3, <1>4, <2>1 DEF Versions, RevisionAwaited, Version
<1>8. Unused \subseteq Unused'
  BY <1>1, <1>2 DEF Unused
<1> QED
  BY <1>3, <1>4, <1>5, <1>6, <1>7, <1>8 DEF Versions

\* The informer and the handler.
LEMMA VersionsInformer ==
    ASSUME TypeOK, Versions, Informer
    PROVE  /\ Versions' /\ Unused \subseteq Unused' /\ UNCHANGED <<pods, pc, job>>
           /\ \A m \in Active : \/ rvExp'[m] = rvExp[m]
                                \/ rvExp[m] > 0 /\ rvExp'[m] \in Nat
<1>1. CASE InplaceuEvent
  <2>1. UNCHANGED <<pods, watch, cache, notes, slipped, rvExp, pc, job>>
    BY <1>1 DEF InplaceuEvent
  <2> QED
    BY <2>1, VersionsQuiet DEF Unused, Active
<1>2. CASE Resync
  <2>1. UNCHANGED <<pods, watch, cache, notes, slipped, rvExp, pc, job>>
    BY <1>2 DEF Resync, clusterVars
  <2> QED
    BY <2>1, VersionsQuiet DEF Unused, Active
<1>3. CASE InformerRelists
  <2>1. /\ pods' = pods /\ cache' = pods /\ UNCHANGED <<pc, job>>
        /\ watch' = [n \in Names |-> <<>>]
        /\ notes' = [n \in Names |->
                        IF watch[n] = <<>> \/ (cache[n] = None /\ pods[n] = None) THEN notes[n]
                        ELSE Append(notes[n], EventKind(cache[n], pods[n]))]
        /\ rvExp' = [n \in Names |-> IF rvExp[n] > 0 THEN 0 ELSE rvExp[n]]
    BY <1>3 DEF InformerRelists, Relist
  <2>2. ASSUME NEW m \in Active, NEW i \in DOMAIN notes'[m]
        PROVE  notes'[m][i] # "gone"
    <3>1. m \in Names /\ notes[m] \in Seq(EventKinds)
      BY VersionTypes DEF Active
    <3>2. \/ i \in DOMAIN notes[m] /\ notes'[m][i] = notes[m][i]
          \/ notes'[m][i] = EventKind(cache[m], pods[m])
      BY <2>1, <3>1
    <3>3. EventKind(cache[m], pods[m]) # "gone"
      BY DEF EventKind, Active, IsActive
    <3> QED
      BY <3>2, <3>3 DEF Versions, ActiveNotGone
  <2>3. ASSUME NEW m \in Names
        PROVE  rvExp'[m] <= 0 /\ (rvExp'[m] = rvExp[m] \/ (rvExp[m] > 0 /\ rvExp'[m] = 0))
    <3>1. rvExp'[m] = IF rvExp[m] > 0 THEN 0 ELSE rvExp[m]
      BY <2>1
    <3>2. rvExp[m] \in Int
      BY VersionTypes
    <3> QED
      BY <3>1, <3>2
  <2>4. Versions'
    BY <2>1, <2>2, <2>3, VersionsSynced
  <2>5. Unused \subseteq Unused'
    BY <2>1 DEF Unused
  <2> QED
    BY <2>1, <2>3, <2>4, <2>5 DEF Active
<1>4. ASSUME NEW n \in Names, InformerStep(n)
      PROVE  /\ Versions' /\ Unused \subseteq Unused' /\ UNCHANGED <<pods, pc, job>>
             /\ \A m \in Active : \/ rvExp'[m] = rvExp[m]
                                  \/ rvExp[m] > 0 /\ rvExp'[m] \in Nat
  <2>1. /\ rvExp' = [rvExp EXCEPT ![n] = IF rvExp[n] > 0 THEN rvExp[n] - 1 ELSE rvExp[n]]
        /\ UNCHANGED <<pods, pc, job>>
    BY <1>4 DEF InformerStep, CacheApply
  <2>2. ASSUME NEW m \in Names
        PROVE  \/ rvExp'[m] = rvExp[m]
               \/ rvExp[m] > 0 /\ rvExp'[m] \in Nat
    <3>1. rvExp \in [Names -> Nat \cup {-1}]
      BY VersionTypes
    <3>2. CASE m = n /\ rvExp[n] > 0
      <4>1. rvExp[n] \in Nat
        BY <3>1, <3>2
      <4>2. rvExp'[m] = rvExp[n] - 1
        BY <2>1, <3>1, <3>2
      <4> QED
        BY <3>2, <4>1, <4>2
    <3>3. CASE ~(m = n /\ rvExp[n] > 0)
      BY <2>1, <3>1, <3>3
    <3> QED
      BY <3>2, <3>3
  <2> QED
    BY <1>4, <2>1, <2>2, VersionsInformerStep DEF Active
<1>5. ASSUME NEW n \in Names, HandleNote(n)
      PROVE  /\ Versions' /\ Unused \subseteq Unused' /\ UNCHANGED <<pods, pc, job>>
             /\ \A m \in Active : rvExp'[m] = rvExp[m]
  BY <1>5, VersionsHandleNote DEF HandleNote
<1> QED
  BY <1>1, <1>2, <1>3, <1>4, <1>5 DEF Informer

\* Only a list forgets that an update slipped.
LEMMA SlippedStays ==
    ASSUME [Next]_vars, ~ListPods
    PROVE  slipped' = slipped \/ \E n \in Names : Slip(n)
<1>1. CASE Worker
  <2>1. CASE \/ Take \/ PassScaleGate \/ WaitForScale \/ PassVersionGate \/ WaitForVersions
             \/ ScaleOut \/ DeleteSpecified \/ ScaleIn \/ NothingToScale
             \/ StartBatch \/ EndCreate \/ EndDelete \/ ChooseUpdates
    BY <2>1 DEF Take, PassScaleGate, WaitForScale, PassVersionGate, WaitForVersions,
                ScaleOut, DeleteSpecified, ScaleIn, NothingToScale, DeleteNext,
                StartBatch, EndCreate, EndDelete, ChooseUpdates, clusterVars
  <2>2. CASE StatusIsConsistent \/ UpdateStatus \/ UpdateStatusFails
    BY <2>2 DEF StatusIsConsistent, UpdateStatus, UpdateStatusFails, Calm, Disturb, clusterVars
  <2>3. CASE \E n \in Names :
                \/ CreateOne(n) \/ ExpectDelete(n) \/ DeleteOne(n) \/ DeleteFails(n)
                \/ UpdateInPlace(n) \/ UpdateByRecreate(n) \/ UpdateFails(n)
    BY <2>3 DEF CreateOne, ExpectDelete, DeleteOne, DeleteFails,
                UpdateInPlace, UpdateByRecreate, UpdateFails, Calm, Disturb, clusterVars
  <2> QED
    BY <1>1, <2>1, <2>2, <2>3 DEF Worker
<1>2. CASE WorkerFault
  BY <1>2 DEF WorkerFault, ReconcileFails, UpdateStatusTimesOut, CreateFails, CreateTimesOut,
              DeleteTimesOut, UpdateTimesOut, Disturb
<1>3. CASE Informer
  BY <1>3 DEF Informer, InplaceuEvent, InformerRelists, Relist, Resync, InformerStep,
              CacheApply, HandleNote, Calm, Disturb, clusterVars
<1>4. CASE Crash
  BY <1>4 DEF Crash, Disturb
<1>5. CASE EnvironmentStep
  BY <1>5 DEF EnvironmentStep, Environment, Kubelet, PodRuns, PodReady, PodGone, PodFails,
              PodUnready, Evict, UserMarksDelete, UserScales, UserChangesTemplate,
              KubeletWrites, Calm, Disturb
<1>6. CASE UNCHANGED vars
  BY <1>6 DEF vars, clusterVars
<1> QED
  BY <1>1, <1>2, <1>3, <1>4, <1>5, <1>6 DEF Next

\* A step of anybody else than the worker.
LEMMA ListingKept ==
    ASSUME TypeOK, Listing, UNCHANGED <<pc, job>>, Unused \subseteq Unused',
           Active' \subseteq Active, \A m \in Active' : pods'[m].rev = pods[m].rev,
           \A m \in Active' : \/ rvExp'[m] = rvExp[m]
                              \/ rvExp[m] > 0 /\ rvExp'[m] \in Nat,
           slipped \subseteq slipped'
    PROVE  Listing'
<1>1. Untried'
  BY DEF Listing, Untried
<1>2. pc = "versions" =>
        \A m \in (Active' \cap Members(job.view)) \ slipped' :
            IF m \in job.behind THEN rvExp'[m] # NoEntry
            ELSE rvExp'[m] <= 0 /\ job.view[m].rev = pods'[m].rev
  <2> SUFFICES ASSUME pc = "versions", NEW m \in Active' \ slipped', m \in Members(job.view)
               PROVE  IF m \in job.behind THEN rvExp'[m] # NoEntry
                      ELSE rvExp'[m] <= 0 /\ job.view[m].rev = pods'[m].rev
    OBVIOUS
  <2>1. IF m \in job.behind THEN rvExp[m] # NoEntry
        ELSE rvExp[m] <= 0 /\ job.view[m].rev = pods[m].rev
    BY DEF Listing, ListedRevisions
  <2>2. rvExp[m] \in Int /\ (rvExp'[m] # NoEntry \/ rvExp'[m] = rvExp[m])
    BY VersionTypes DEF Active, NoEntry
  <2>3. CASE m \in job.behind
    BY <2>1, <2>2, <2>3
  <2>4. CASE m \notin job.behind
    BY <2>1, <2>2, <2>4
  <2> QED
    BY <2>3, <2>4
<1>3. ListedRevisions'
  BY <1>2 DEF Listing, ListedRevisions
<1> QED
  BY <1>1, <1>3 DEF Listing

\* A step to where a pass uses no list.
LEMMA ListingElsewhere ==
    ASSUME pc' \in {"idle", "status"}
    PROVE  Listing'
BY DEF Listing, Untried, ListedRevisions

\* From the queue to the gate of the expected versions.
LEMMA ListingReads ==
    ASSUME TypeOK, Versions, Listing,
           \/ ListPods
           \/ /\ \/ Take \/ PassScaleGate \/ WaitForScale
                 \/ PassVersionGate \/ WaitForVersions \/ ReconcileFails
              /\ slipped \subseteq slipped'
    PROVE  Versions' /\ Listing'
<1>1. CASE Take /\ slipped \subseteq slipped'
  <2>1. UNCHANGED <<pods, watch, cache, notes, rvExp>>
    BY <1>1 DEF Take, clusterVars
  <2>2. pc' = "check" /\ job'.batch = {}
    BY <1>1 DEF Take, NewJob
  <2>3. Listing'
    BY <2>2 DEF Listing, Untried, ListedRevisions
  <2> QED
    BY <1>1, <2>1, <2>3, VersionsQuiet
<1>2. CASE PassScaleGate /\ slipped \subseteq slipped'
  <2>1. UNCHANGED <<pods, watch, cache, notes, rvExp>>
    BY <1>2 DEF PassScaleGate, clusterVars
  <2>2. pc = "check" /\ pc' = "list" /\ job' = job
    BY <1>2 DEF PassScaleGate
  <2>3. Listing'
    BY <2>2 DEF Listing, Untried, ListedRevisions
  <2> QED
    BY <1>2, <2>1, <2>3, VersionsQuiet
<1>3. CASE /\ WaitForScale \/ WaitForVersions \/ ReconcileFails
           /\ slipped \subseteq slipped'
  <2>1. UNCHANGED <<pods, watch, cache, notes, rvExp>> /\ pc' = "idle"
    BY <1>3 DEF WaitForScale, WaitForVersions, ReconcileFails, Return, clusterVars
  <2> QED
    BY <1>3, <2>1, VersionsQuiet, ListingElsewhere
<1>4. CASE ListPods
  <2>1. /\ UNCHANGED <<pods, watch, cache, notes, rvExp>>
        /\ \A n \in slipped \ slipped' : n \in Names => watch[n] = <<>>
    BY <1>4 DEF ListPods
  <2>2. /\ pc = "list" /\ pc' = "versions" /\ job \in Job
        /\ job'.view = ActivePods(cache)
        /\ job'.behind = {n \in Names : IsActive(cache[n]) /\ rvExp[n] > 0}
        /\ job'.batch = job.batch
    BY <1>4 DEF ListPods, TypeOK, Job
  <2>3. Versions' /\ Active' = Active
    BY <2>1, VersionsQuiet DEF TypeOK, ClusterTypeOK
  <2>4. \A n \in (Active \cap Members(job'.view)) \ slipped' :
            IF n \in job'.behind THEN rvExp[n] # NoEntry
            ELSE rvExp[n] <= 0 /\ job'.view[n].rev = pods[n].rev
    <3> SUFFICES ASSUME NEW n \in Active \ slipped', n \in Members(job'.view)
                 PROVE  IF n \in job'.behind THEN rvExp[n] # NoEntry
                        ELSE rvExp[n] <= 0 /\ job'.view[n].rev = pods[n].rev
      OBVIOUS
    <3>1. /\ n \in Names /\ IsActive(cache[n]) /\ job'.view[n] = cache[n]
      BY <2>2 DEF Members, ActivePods
    <3>2. CASE n \in job'.behind
      BY <2>2, <3>2 DEF NoEntry
    <3>3. CASE n \notin job'.behind
      <4>1. rvExp[n] <= 0 /\ rvExp[n] \in Int
        BY <2>2, <3>1, <3>3, VersionTypes
      <4>2. 0 \in 0 .. Len(watch[n]) /\ 0 >= rvExp[n]
        BY <3>1, <4>1, VersionTypes
      <4>3. Version(n, 0) = cache[n] /\ cache[n] # None
        BY <3>1 DEF Version, IsActive
      <4>4. cache[n].rev = pods[n].rev
        <5>1. RevisionAwaited'
          BY <2>3 DEF Versions
        <5>2. watch' = watch /\ rvExp' = rvExp /\ pods' = pods /\ cache' = cache
          BY <2>1
        <5> QED
          BY <2>3, <3>1, <4>2, <4>3, <5>1, <5>2 DEF RevisionAwaited, Version
      <4> QED
        BY <3>1, <3>3, <4>1, <4>4
    <3> QED
      BY <3>2, <3>3
  <2>5. Listing'
    BY <2>1, <2>2, <2>3, <2>4 DEF Listing, Untried, ListedRevisions
  <2> QED
    BY <2>3, <2>5
<1>5. CASE PassVersionGate /\ slipped \subseteq slipped'
  <2>1. /\ UNCHANGED <<pods, watch, cache, notes, job>>
        /\ pc = "versions" /\ pc' = "sync" /\ Stale = {}
        /\ rvExp' = [n \in Names |-> IF job.view[n] # None THEN NoEntry ELSE rvExp[n]]
    BY <1>5 DEF PassVersionGate, clusterVars
  <2>2. \A n \in (Active \cap Members(job.view)) \ slipped :
            rvExp[n] <= 0 /\ job.view[n].rev = pods[n].rev
    <3> SUFFICES ASSUME NEW n \in Active \ slipped, n \in Members(job.view)
                 PROVE  rvExp[n] <= 0 /\ job.view[n].rev = pods[n].rev
      OBVIOUS
    <3>1. n \notin job.behind
      BY <2>1 DEF Listing, ListedRevisions, Stale
    <3> QED
      BY <2>1, <3>1 DEF Listing, ListedRevisions
  <2>3. \A n \in Names : \/ rvExp'[n] = rvExp[n]
                         \/ rvExp'[n] = NoEntry /\ (n \in Active \ slipped => rvExp[n] <= 0)
    BY <2>1, <2>2 DEF Members
  <2>4. Versions' /\ Active' = Active
    BY <1>5, <2>1, <2>3, VersionsQuiet
  <2>5. Listing'
    BY <1>5, <2>1, <2>2, <2>4 DEF Listing, Untried, ListedRevisions
  <2> QED
    BY <2>4, <2>5
<1> QED
  BY <1>1, <1>2, <1>3, <1>4, <1>5

\* The choices of Scale.
LEMMA ListingScales ==
    ASSUME TypeOK, Versions, Listing,
           ScaleOut \/ DeleteSpecified \/ ScaleIn \/ NothingToScale,
           slipped \subseteq slipped'
    PROVE  Versions' /\ Listing'
<1>1. /\ UNCHANGED <<pods, watch, cache, notes, rvExp>> /\ pc = "sync" /\ job \in Job
      /\ job.batch = {}
      /\ \A n \in (Active \cap Members(job.view)) \ slipped : job.view[n].rev = pods[n].rev
  BY DEF ScaleOut, DeleteSpecified, ScaleIn, NothingToScale, DeleteNext, clusterVars,
         Listing, ListedRevisions, TypeOK
<1>2. Versions' /\ Active' = Active
  BY <1>1, VersionsQuiet
<1>3. CASE ScaleOut
  <2>1. PICK S \in SUBSET Fresh : job' = [job EXCEPT !.plan = S, !.todo = S, !.size = 1]
    BY <1>3 DEF ScaleOut
  <2>2. pc' = "create"
    BY <1>3 DEF ScaleOut
  <2>3. job'.todo = S /\ job'.view = job.view /\ job'.batch = job.batch
    BY <1>1, <2>1 DEF Job
  <2>4. Unused' = Unused
    BY <1>1 DEF Unused
  <2>5. S \subseteq Unused \ Members(job.view)
    BY DEF Fresh
  <2>6. Untried'
    BY <1>1, <2>3, <2>4, <2>5 DEF Untried
  <2>7. ListedRevisions'
    BY <1>1, <1>2, <2>2, <2>3 DEF ListedRevisions
  <2> QED
    BY <1>2, <2>6, <2>7 DEF Listing
<1>4. CASE DeleteSpecified \/ ScaleIn \/ NothingToScale
  <2>1. pc' \in {"update", "delete"} /\ \E S : job' = [job EXCEPT !.todo = S]
    BY <1>4 DEF DeleteSpecified, ScaleIn, NothingToScale, DeleteNext
  <2>2. job'.view = job.view
    BY <1>1, <2>1 DEF Job
  <2>3. Listing'
    BY <1>1, <1>2, <2>1, <2>2 DEF Listing, Untried, ListedRevisions
  <2> QED
    BY <1>2, <2>3
<1> QED
  BY <1>3, <1>4

\* createPods.
LEMMA ListingCreates ==
    ASSUME TypeOK, Versions, Listing,
           \/ StartBatch \/ EndCreate
           \/ \E n \in Names : CreateOne(n) \/ CreateFails(n) \/ CreateTimesOut(n),
           slipped \subseteq slipped'
    PROVE  Versions' /\ Listing'
<1>1. /\ pc = "create" /\ job \in Job
      /\ job.batch \cup job.todo \subseteq Unused \ Members(job.view)
      /\ job.batch \cap job.todo = {}
      /\ \A n \in (Active \cap Members(job.view)) \ slipped : job.view[n].rev = pods[n].rev
  BY DEF StartBatch, EndCreate, CreateOne, CreateFails, CreateTimesOut,
         Listing, Untried, ListedRevisions, TypeOK
<1>2. CASE StartBatch
  <2>1. /\ UNCHANGED <<pods, watch, cache, notes, rvExp, pc>> /\ job.batch = {}
        /\ \E B \in SUBSET job.todo :
              job' = [job EXCEPT !.batch = B, !.todo = job.todo \ B, !.size = 2 * job.size]
    BY <1>2 DEF StartBatch, clusterVars
  <2>2. /\ job'.view = job.view /\ job'.batch \cap job'.todo = {}
        /\ job'.batch \cup job'.todo \subseteq job.todo
    BY <1>1, <2>1 DEF Job
  <2>3. Versions' /\ Active' = Active /\ Unused' = Unused
    BY <2>1, VersionsQuiet DEF Unused
  <2>4. Listing'
    BY <1>1, <2>1, <2>2, <2>3 DEF Listing, Untried, ListedRevisions
  <2> QED
    BY <2>3, <2>4
<1>3. CASE EndCreate
  <2>1. /\ UNCHANGED <<pods, watch, cache, notes, rvExp>> /\ pc' \in {"update", "status"}
        /\ job' = [job EXCEPT !.todo = {}]
    BY <1>3 DEF EndCreate, clusterVars
  <2>2. job'.view = job.view
    BY <1>1, <2>1 DEF Job
  <2>3. Versions' /\ Active' = Active
    BY <2>1, VersionsQuiet
  <2>4. Listing'
    BY <1>1, <2>1, <2>2, <2>3 DEF Listing, Untried, ListedRevisions
  <2> QED
    BY <2>3, <2>4
<1>4. ASSUME NEW n \in Names, CreateFails(n)
      PROVE  Versions' /\ Listing'
  <2>1. /\ UNCHANGED <<pods, watch, cache, notes, rvExp, pc>>
        /\ job' = [job EXCEPT !.batch = job.batch \ {n}, !.err = TRUE]
    BY <1>4 DEF CreateFails
  <2>2. job'.view = job.view /\ job'.batch = job.batch \ {n} /\ job'.todo = job.todo
    BY <1>1, <2>1 DEF Job
  <2>3. Versions' /\ Active' = Active /\ Unused' = Unused
    BY <2>1, VersionsQuiet DEF Unused
  <2>4. Listing'
    BY <1>1, <2>1, <2>2, <2>3 DEF Listing, Untried, ListedRevisions
  <2> QED
    BY <2>3, <2>4
<1>5. ASSUME NEW n \in Names, CreateOne(n) \/ CreateTimesOut(n)
      PROVE  Versions' /\ Listing'
  <2>1. /\ Publish(n, NewPod(job.iu.rev)) /\ UNCHANGED <<cache, notes, rvExp, pc>>
        /\ n \in job.batch
        /\ \/ job' = [job EXCEPT !.batch = job.batch \ {n}, !.made = job.made \cup {n}]
           \/ job' = [job EXCEPT !.batch = job.batch \ {n}, !.err = TRUE]
    BY <1>5 DEF CreateOne, CreateTimesOut
  <2>2. n \in Unused /\ n \notin Members(job.view) /\ n \notin job.todo
    BY <1>1, <2>1
  <2>3. NewPod(job.iu.rev) \in Pod /\ IsActive(NewPod(job.iu.rev))
    <3>1. NewPod(job.iu.rev) \in Pod
      BY <1>1 DEF Job, Inplaceu, NewPod, Pod
    <3> QED
      BY <3>1, NoneAssumption DEF NewPod, IsActive
  <2>4. /\ Versions' /\ Active' \subseteq Active \cup {n}
        /\ Unused \ {n} \subseteq Unused'
    BY <2>1, <2>2, <2>3, VersionsCreate
  <2>5. job'.view = job.view /\ job'.batch = job.batch \ {n} /\ job'.todo = job.todo
    BY <1>1, <2>1 DEF Job
  <2>6. \A m \in Names \ {n} : pods'[m] = pods[m]
    BY <2>1, <2>3, PublishedVersion
  <2>7. Untried'
    BY <1>1, <2>1, <2>2, <2>4, <2>5 DEF Untried
  <2>8. ListedRevisions'
    <3>1. \A m \in (Active' \cap Members(job'.view)) \ slipped' :
             m \in Active \ slipped /\ m # n /\ m \in Names
      BY <2>2, <2>4, <2>5 DEF Active
    <3>2. \A m \in (Active' \cap Members(job'.view)) \ slipped' :
             job'.view[m].rev = pods'[m].rev
      BY <1>1, <2>5, <2>6, <3>1
    <3> QED
      BY <1>1, <2>1, <3>2 DEF ListedRevisions
  <2> QED
    BY <2>4, <2>7, <2>8 DEF Listing
<1> QED
  BY <1>2, <1>3, <1>4, <1>5

\* deletePods.
LEMMA ListingDeletes ==
    ASSUME TypeOK, Versions, Listing,
           \/ EndDelete
           \/ \E n \in Names : \/ ExpectDelete(n) \/ DeleteOne(n)
                               \/ DeleteFails(n) \/ DeleteTimesOut(n),
           slipped \subseteq slipped'
    PROVE  Versions' /\ Listing'
<1>1. /\ pc = "delete" /\ job \in Job
      /\ \A n \in (Active \cap Members(job.view)) \ slipped : job.view[n].rev = pods[n].rev
  BY DEF EndDelete, ExpectDelete, DeleteOne, DeleteFails, DeleteTimesOut,
         Listing, ListedRevisions, TypeOK
<1>2. SUFFICES /\ Versions' /\ Active' \subseteq Active
               /\ \A m \in Active' : pods'[m].rev = pods[m].rev
  <2>1. pc' \in {"delete", "update", "status"} /\ job'.view = job.view
    BY <1>1 DEF EndDelete, ExpectDelete, DeleteOne, DeleteFails, DeleteTimesOut,
                DeleteStops, Job
  <2> QED
    BY <1>1, <1>2, <2>1 DEF Listing, Untried, ListedRevisions
<1>3. CASE UNCHANGED <<pods, watch, cache, notes, rvExp>>
  BY <1>3, VersionsQuiet
<1>4. ASSUME NEW n \in Names, NEW p \in Deleted(pods[n]), pods[n] # None, Publish(n, p),
             UNCHANGED <<cache, notes, rvExp>>
      PROVE  /\ Versions' /\ Active' \subseteq Active
             /\ \A m \in Active' : pods'[m].rev = pods[m].rev
  <2>1. p \in Pod \cup {None} /\ ~IsActive(p)
    BY <1>4, VersionTypes, DeletedType DEF Deleted, IsActive, Pod
  <2>2. Versions' /\ Active' \subseteq Active
    BY <1>4, <2>1, VersionsWrite
  <2>3. \A m \in Names \ {n} : pods'[m] = pods[m]
    BY <1>4, <2>1, PublishedVersion
  <2>4. n \notin Active'
    BY <1>4, <2>1, PublishedVersion DEF Active
  <2> QED
    BY <2>2, <2>3, <2>4 DEF Active
<1>5. \/ UNCHANGED <<pods, watch, cache, notes, rvExp>>
      \/ \E n \in Names : /\ pods[n] # None /\ UNCHANGED <<cache, notes, rvExp>>
                          /\ \E p \in Deleted(pods[n]) : Publish(n, p)
  BY DEF EndDelete, ExpectDelete, DeleteOne, DeleteFails, DeleteTimesOut, IsActive, clusterVars
<1> QED
  BY <1>3, <1>4, <1>5

LEMMA SameActivity ==
    ASSUME NEW p \in Pod, NEW q \in Pod, p.phase = q.phase, p.term = q.term
    PROVE  IsActive(p) <=> IsActive(q)
BY NoneAssumption DEF IsActive

\* Update: the pods still to be updated are listed at another revision than the one
\* they go to, and no write of the loop moves any pod but its own.
LEMMA ListingUpdates ==
    ASSUME TypeOK, Versions, Listing,
           \/ ChooseUpdates
           \/ \E n \in Names : \/ UpdateInPlace(n) \/ UpdateByRecreate(n)
                               \/ UpdateFails(n) \/ UpdateTimesOut(n),
           slipped \subseteq slipped'
    PROVE  Versions' /\ Listing'
<1>1. job \in Job /\ pods \in [Names -> Pod \cup {None}]
  BY VersionTypes DEF ChooseUpdates, UpdateInPlace, UpdateByRecreate, UpdateFails, UpdateTimesOut, TypeOK
<1>2. CASE ChooseUpdates
  <2>1. PICK S \in UpdateChoices(job.view, job.iu.rev, PassDiffs) :
          /\ job' = [job EXCEPT !.todo = S]
          /\ pc' = IF S = {} THEN "status" ELSE "updating"
    BY <1>2 DEF ChooseUpdates
  <2>2. S \subseteq Members(job.view) /\ \A n \in S : job.view[n].rev # job.iu.rev
    BY <2>1 DEF UpdateChoices, Waiting
  <2>3. UNCHANGED <<pods, watch, cache, notes, rvExp>> /\ pc = "update"
    BY <1>2 DEF ChooseUpdates, clusterVars
  <2>4. Versions' /\ Active' = Active
    BY <2>3, VersionsQuiet
  <2>5. job'.todo = S /\ job'.view = job.view /\ job'.iu = job.iu
    BY <1>1, <2>1 DEF Job
  <2>6. \A n \in (Active' \cap job'.todo) \ slipped' : job'.view[n].rev = pods'[n].rev
    BY <2>2, <2>3, <2>4, <2>5 DEF Listing, ListedRevisions
  <2>7. Listing'
    BY <2>1, <2>2, <2>5, <2>6 DEF Listing, Untried, ListedRevisions
  <2> QED
    BY <2>4, <2>7
<1>3. ASSUME NEW n \in Names, NEW view, pc = "updating", UpdateNext(n, view),
             \A m \in Names \ {n} : view[m] = job.view[m] /\ pods'[m] = pods[m],
             Active' \subseteq Active
      PROVE  Listing'
  <2>1. /\ job' = [job EXCEPT !.todo = job.todo \ {n}, !.view = view]
        /\ pc' \in {"status", "updating"}
    BY <1>3 DEF UpdateNext
  <2>2. /\ job'.todo = job.todo \ {n} /\ job'.view = view /\ job'.iu = job.iu
        /\ job.todo \subseteq Names
    BY <1>1, <2>1 DEF Job
  <2>3. \A m \in job'.todo : job'.view[m].rev # job'.iu.rev
    BY <1>3, <2>2 DEF Listing, ListedRevisions
  <2>4. \A m \in (Active' \cap job'.todo) \ slipped' : job'.view[m].rev = pods'[m].rev
    BY <1>3, <2>2 DEF Listing, ListedRevisions
  <2> QED
    BY <2>1, <2>3, <2>4 DEF Listing, Untried, ListedRevisions
<1>4. ASSUME NEW n \in Names, NEW p \in Pod, IsActive(p) => IsActive(pods[n]),
             Publish(n, p), Expect(n), UNCHANGED <<cache, notes>>
      PROVE  /\ Versions' /\ Active' \subseteq Active
             /\ \A m \in Names \ {n} : pods'[m] = pods[m]
  <2>1. rvExp' = [rvExp EXCEPT ![n] = Len(watch'[n])]
    BY <1>4 DEF Expect
  <2> QED
    BY <1>4, <2>1, VersionsWrite, PublishedVersion
<1>5. ASSUME NEW n \in Names, UpdateInPlace(n)
      PROVE  Versions' /\ Listing'
  <2> DEFINE p == [pods[n] EXCEPT !.rev = job.iu.rev]
  <2>1. /\ pods[n] \in Pod /\ Publish(n, p) /\ Expect(n) /\ UNCHANGED <<cache, notes>>
        /\ pc = "updating" /\ UpdateNext(n, job.view)
    BY <1>1, <1>5 DEF UpdateInPlace
  <2>2. p \in Pod /\ p.phase = pods[n].phase /\ p.term = pods[n].term
    BY <1>1, <2>1 DEF Pod, Job, Inplaceu
  <2>3. IsActive(p) => IsActive(pods[n])
    BY <2>1, <2>2, SameActivity
  <2> HIDE DEF p
  <2> QED
    BY <1>3, <1>4, <2>1, <2>2, <2>3
<1>6. ASSUME NEW n \in Names, UpdateByRecreate(n)
      PROVE  Versions' /\ Listing'
  <2>1. UNCHANGED <<cache, notes>> /\ pc = "updating"
    BY <1>6 DEF UpdateByRecreate
  <2>2. CASE UpdateNext(n, job.view) /\ UNCHANGED <<pods, watch, rvExp>>
    BY <1>3, <2>1, <2>2, VersionsQuiet
  <2>3. CASE /\ UNCHANGED <<pods, watch>> /\ Expect(n)
             /\ UpdateNext(n, [job.view EXCEPT ![n] = pods'[n]])
    <3>1. \A m \in Names : rvExp'[m] = rvExp[m] \/ rvExp'[m] = Len(watch[m])
      BY <2>3, VersionTypes DEF Expect
    <3>2. Versions' /\ Active' = Active
      BY <2>1, <2>3, <3>1, VersionsQuiet
    <3>3. \A m \in Names \ {n} : [job.view EXCEPT ![n] = pods'[n]][m] = job.view[m]
      BY <1>1 DEF Job
    <3> QED
      BY <1>3, <2>1, <2>3, <3>2, <3>3
  <2>4. CASE /\ pods[n] # None /\ Publish(n, [pods[n] EXCEPT !.sdel = TRUE]) /\ Expect(n)
             /\ UpdateNext(n, [job.view EXCEPT ![n] = pods'[n]])
    <3> DEFINE p == [pods[n] EXCEPT !.sdel = TRUE]
    <3>1. pods[n] \in Pod
      BY <1>1, <2>4
    <3>2. p \in Pod /\ p.phase = pods[n].phase /\ p.term = pods[n].term
      BY <3>1 DEF Pod
    <3>3. IsActive(p) => IsActive(pods[n])
      BY <3>1, <3>2, SameActivity
    <3> HIDE DEF p
    <3>4. /\ Versions' /\ Active' \subseteq Active
          /\ \A m \in Names \ {n} : pods'[m] = pods[m]
      BY <1>4, <2>1, <2>4, <3>2, <3>3 DEF p
    <3>5. \A m \in Names \ {n} : [job.view EXCEPT ![n] = pods'[n]][m] = job.view[m]
      BY <1>1 DEF Job
    <3> QED
      BY <1>3, <2>1, <2>4, <3>4, <3>5
  <2> QED
    BY <1>6, <2>2, <2>3, <2>4 DEF UpdateByRecreate
<1>7. ASSUME NEW n \in Names, UpdateFails(n)
      PROVE  Versions' /\ Listing'
  <2>1. UNCHANGED <<pods, watch, cache, notes, rvExp>> /\ pc' = "status"
    BY <1>7 DEF UpdateFails, UpdateStops
  <2> QED
    BY <2>1, VersionsQuiet, ListingElsewhere
<1>8. ASSUME NEW n \in Names, UpdateTimesOut(n)
      PROVE  Versions' /\ Listing'
  <2>1. /\ UNCHANGED <<cache, notes, rvExp>> /\ pc' = "status"
        /\ pods[n] \in Pod /\ job.iu.rev \in Revs
    BY <1>1, <1>8 DEF UpdateTimesOut, UpdateStops, Job, Inplaceu
  <2>2. PICK p \in {[pods[n] EXCEPT !.rev = job.iu.rev], [pods[n] EXCEPT !.sdel = TRUE]} :
          Publish(n, p) /\ (p.rev = pods[n].rev \/ n \in slipped')
    <3>1. [pods[n] EXCEPT !.sdel = TRUE].rev = pods[n].rev
      BY <2>1 DEF Pod
    <3> QED
      BY <1>8, <3>1 DEF UpdateTimesOut, Slip
  <2>3. p \in Pod /\ p.phase = pods[n].phase /\ p.term = pods[n].term
    BY <2>1, <2>2 DEF Pod
  <2>4. IsActive(p) => IsActive(pods[n])
    BY <2>1, <2>3, SameActivity
  <2>5. Versions'
    BY <2>1, <2>2, <2>3, <2>4, VersionsWrite
  <2> QED
    BY <2>1, <2>5, ListingElsewhere
<1> QED
  BY <1>2, <1>5, <1>6, <1>7, <1>8

\* The status, and the end of the pass.
LEMMA ListingStatus ==
    ASSUME TypeOK, Versions, slipped \subseteq slipped',
           \/ StatusIsConsistent \/ UpdateStatus
           \/ UpdateStatusFails \/ UpdateStatusTimesOut
    PROVE  Versions' /\ Listing'
<1>1. UNCHANGED <<pods, watch, cache, notes, rvExp>> /\ pc' = "idle"
  BY DEF StatusIsConsistent, UpdateStatus, UpdateStatusFails, UpdateStatusTimesOut,
         Return, clusterVars
<1> QED
  BY <1>1, VersionsQuiet, ListingElsewhere

\* Kubelets and users write pods at the revision they have.
LEMMA ListingEnvironment ==
    ASSUME TypeOK, Versions, Listing, EnvironmentStep, slipped \subseteq slipped'
    PROVE  Versions' /\ Listing'
<1>1. UNCHANGED <<rvExp, pc, job>> /\ Environment
  BY DEF EnvironmentStep, controllerVars
<1>2. pods \in [Names -> Pod \cup {None}]
  BY VersionTypes
<1>3. ASSUME NEW n \in Names, NEW p \in Pod \cup {None}, KubeletWrites(n, p),
             IsActive(p) => IsActive(pods[n]) /\ p.rev = pods[n].rev
      PROVE  Versions' /\ Listing'
  <2>1. Publish(n, p) /\ UNCHANGED <<cache, notes>> /\ pods[n] # None
    BY <1>3 DEF KubeletWrites, CanWrite
  <2>2. Versions' /\ Active' \subseteq Active
    BY <1>1, <1>3, <2>1, VersionsWrite
  <2>3. /\ pods'[n] = p
        /\ \A m \in Names \ {n} : pods'[m] = pods[m] /\ watch'[m] = watch[m]
    BY <2>1, PublishedVersion
  <2>4. \A m \in Active' : pods'[m].rev = pods[m].rev
    BY <1>3, <2>3 DEF Active
  <2>5. Unused \subseteq Unused'
    BY <2>1, <2>3 DEF Unused
  <2> QED
    BY <1>1, <2>2, <2>4, <2>5, ListingKept
<1>4. ASSUME NEW n \in Names,
             \/ PodRuns(n) \/ PodReady(n) \/ PodUnready(n)
             \/ UserMarksDelete(n) \/ PodFails(n)
      PROVE  Versions' /\ Listing'
  <2>1. IsActive(pods[n]) /\ pods[n] \in Pod
    BY <1>2, <1>4 DEF PodRuns, PodReady, PodUnready, UserMarksDelete, PodFails, IsActive
  <2>2. \E p \in Pod : KubeletWrites(n, p) /\ p.rev = pods[n].rev
    <3>1. /\ [pods[n] EXCEPT !.phase = "Running"] \in Pod
          /\ [pods[n] EXCEPT !.ready = TRUE] \in Pod
          /\ [pods[n] EXCEPT !.ready = FALSE] \in Pod
          /\ [pods[n] EXCEPT !.sdel = TRUE] \in Pod
          /\ [pods[n] EXCEPT !.phase = "Failed", !.ready = FALSE] \in Pod
      BY <2>1 DEF Pod
    <3>2. /\ [pods[n] EXCEPT !.phase = "Running"].rev = pods[n].rev
          /\ [pods[n] EXCEPT !.ready = TRUE].rev = pods[n].rev
          /\ [pods[n] EXCEPT !.ready = FALSE].rev = pods[n].rev
          /\ [pods[n] EXCEPT !.sdel = TRUE].rev = pods[n].rev
          /\ [pods[n] EXCEPT !.phase = "Failed", !.ready = FALSE].rev = pods[n].rev
      BY <2>1 DEF Pod
    <3> QED
      BY <1>4, <3>1, <3>2 DEF PodRuns, PodReady, PodUnready, UserMarksDelete, PodFails
  <2> QED
    BY <1>3, <2>1, <2>2
<1>5. ASSUME NEW n \in Names, PodGone(n) PROVE Versions' /\ Listing'
  BY <1>3, <1>5 DEF PodGone, IsActive
<1>6. ASSUME NEW n \in Names, Evict(n) PROVE Versions' /\ Listing'
  <2>1. IsActive(pods[n]) /\ pods[n] \in Pod
    BY <1>2, <1>6 DEF Evict, IsActive
  <2>2. \A p \in Deleted(pods[n]) : p \in Pod \cup {None} /\ ~IsActive(p)
    BY <2>1, DeletedType DEF Deleted, IsActive, Pod
  <2> QED
    BY <1>3, <1>6, <2>2 DEF Evict
<1>7. ASSUME \/ \E r \in ReplicaChoices : UserScales(r)
             \/ \E rev \in Revs : UserChangesTemplate(rev)
      PROVE  Versions' /\ Listing'
  <2>1. UNCHANGED <<pods, watch, cache, notes>>
    BY <1>7 DEF UserScales, UserChangesTemplate
  <2>2. Versions' /\ Active' = Active /\ Unused' = Unused
    BY <1>1, <2>1, VersionsQuiet DEF Unused
  <2> QED
    BY <1>1, <2>1, <2>2, ListingKept
<1> QED
  BY <1>1, <1>4, <1>5, <1>6, <1>7 DEF Environment

\* A new process knows the pods as they are, and expects nothing.
LEMMA ListingCrash ==
    ASSUME TypeOK, Crash
    PROVE  Versions' /\ Listing'
<1>1. /\ pods' = pods /\ cache' = pods /\ watch' = [n \in Names |-> <<>>]
      /\ notes' = [n \in Names |-> IF pods[n] = None THEN <<>> ELSE <<EventKind(None, pods[n])>>]
      /\ rvExp' = [n \in Names |-> NoEntry]
      /\ pc' = "idle"
  BY DEF Crash, Reload
<1>2. \A m \in Active : \A i \in DOMAIN notes'[m] : notes'[m][i] # "gone"
  BY <1>1 DEF EventKind, Active, IsActive
<1>3. \A m \in Names : rvExp'[m] <= 0
  BY <1>1 DEF NoEntry
<1> QED
  BY <1>1, <1>2, <1>3, VersionsSynced, ListingElsewhere

LEMMA ListingInit == Init => Versions /\ Listing
<1> SUFFICES ASSUME Init PROVE Versions /\ Listing
  OBVIOUS
<1>1. /\ cache = pods /\ watch = [n \in Names |-> <<>>] /\ notes = [n \in Names |-> <<>>]
      /\ rvExp = [n \in Names |-> NoEntry] /\ pc = "idle"
  BY DEF Init
<1>2. FutureActive /\ ActiveNotGone
  BY <1>1 DEF FutureActive, ActiveNotGone, Active
<1>3. \A n \in Names : Len(watch[n]) = 0 /\ \A i \in 0 .. 0 : Version(n, i) = pods[n]
  BY <1>1 DEF Version
<1>4. LastVersionIsStored
  BY <1>3 DEF LastVersionIsStored
<1>5. RevisionAwaited
  BY <1>1, <1>3 DEF RevisionAwaited, NoEntry
<1>6. Listing
  BY <1>1 DEF Listing, Untried, ListedRevisions
<1> QED
  BY <1>2, <1>4, <1>5, <1>6 DEF Versions

LEMMA ListingStep ==
    ASSUME TypeOK, Versions, Listing, [Next]_vars
    PROVE  Versions' /\ Listing'
<1>0. ListPods \/ slipped \subseteq slipped'
  BY SlippedStays DEF Slip
<1>1. CASE ListPods
  BY <1>1, ListingReads
<1>5. CASE Worker /\ slipped \subseteq slipped'
  BY <1>5, ListingReads, ListingScales, ListingCreates, ListingDeletes, ListingUpdates,
     ListingStatus
  DEF Worker
<1>2. CASE WorkerFault /\ slipped \subseteq slipped'
  BY <1>2, ListingReads, ListingCreates, ListingDeletes, ListingUpdates, ListingStatus
  DEF WorkerFault
<1>3. CASE Informer /\ slipped \subseteq slipped'
  <2>1. /\ Versions' /\ Unused \subseteq Unused' /\ UNCHANGED <<pods, pc, job>>
        /\ \A m \in Active : \/ rvExp'[m] = rvExp[m]
                             \/ rvExp[m] > 0 /\ rvExp'[m] \in Nat
    BY <1>3, VersionsInformer
  <2>2. Active' = Active
    BY <2>1 DEF Active
  <2> QED
    BY <1>3, <2>1, <2>2, ListingKept
<1>4. CASE UNCHANGED vars
  <2>1. UNCHANGED <<pods, watch, cache, notes, slipped, rvExp, pc, job>>
    BY <1>4 DEF vars, clusterVars, controllerVars
  <2>2. Versions' /\ Active' = Active /\ Unused' = Unused
    BY <2>1, VersionsQuiet DEF Unused
  <2> QED
    BY <2>1, <2>2, ListingKept
<1> QED
  BY <1>0, <1>1, <1>2, <1>3, <1>4, <1>5, ListingEnvironment, ListingCrash DEF Next

\* The inductive invariant behind the updates: past the gate of the expected versions,
\* the pods of a pass are at the revisions it listed, whatever fails, restarts or is
\* lost; but for pods of which an update took effect and returned an error (updatePod
\* expects no version then), until they are listed as they are.
THEOREM UpdateSafe == Spec => []UpdateInvariant
<1> DEFINE Inv == TypeOK /\ Versions /\ Listing
<1>1. Init => Inv
  BY InitTypeOK, ListingInit
<1>2. Inv /\ [Next]_vars => Inv'
  BY NextTypeOK, ListingStep
<1>3. Inv => UpdateInvariant
  BY DEF UpdateInvariant, Versions, Listing
<1> HIDE DEF Inv
<1> QED
  BY <1>1, <1>2, <1>3, PTL DEF Spec

\* No pass writes an active pod that is at the revision it is updating to: not when the
\* cache shows an older pod, not after a restart or a call that was refused.  Only an
\* update that took effect and returned an error is written again, by a pass that
\* listed the pod before the cache showed it.
THEOREM UpdatedOnce == Spec => NoRepeatedUpdate
<1>1. UpdateInvariant =>
        [\A n \in Active \ slipped :
           /\ pc = "updating" /\ n \in job.todo
           /\ IsActive(pods'[n])
           /\ Len(watch'[n]) > Len(watch[n])
           => pods[n].rev # job.iu.rev]_vars
  <2> SUFFICES ASSUME UpdateInvariant, NEW n \in Active \ slipped,
                      pc = "updating", n \in job.todo
               PROVE  pods[n].rev # job.iu.rev
    OBVIOUS
  <2> QED
    BY DEF UpdateInvariant, ListedRevisions
<1> QED
  BY <1>1, UpdateSafe, PTL DEF NoRepeatedUpdate

-----------------------------------------------------------------------------
(* Whatever a pass deletes there is a reason for.  MarksStay is the half of  *)
(* CauseInvariant about the pods, Causes the half about the worker.          *)

Causes == ListedMarks /\ ChosenForCause /\ DeletesSomething

MarksGrow == Active' \subseteq Active /\ \A n \in Active' : pods[n].sdel => pods'[n].sdel

LEMMA MarksQuiet ==
    ASSUME MarksStay, UNCHANGED <<pods, watch, cache>>
    PROVE  MarksStay' /\ MarksGrow
BY DEF MarksStay, MarksGrow, Version, Active

\* A write that takes no mark away.
LEMMA MarksWrite ==
    ASSUME TypeOK, MarksStay, NEW n \in Names, NEW p \in Pod \cup {None}, Publish(n, p),
           IsActive(p) => IsActive(pods[n]) /\ (pods[n].sdel => p.sdel),
           cache' = cache
    PROVE  MarksStay' /\ MarksGrow
<1>1. /\ pods'[n] = p /\ Len(watch'[n]) = Len(watch[n]) + 1
      /\ \A i \in 1 .. Len(watch[n]) : watch'[n][i] = watch[n][i]
      /\ watch'[n][Len(watch[n]) + 1] = p
      /\ \A m \in Names \ {n} : pods'[m] = pods[m] /\ watch'[m] = watch[m]
  BY PublishedVersion
<1>2. Len(watch[n]) \in Nat
  BY VersionTypes
<1>3. MarksGrow
  BY <1>1 DEF MarksGrow, Active
<1>4. MarksStay'
  <2> SUFFICES ASSUME NEW m \in Active', NEW i \in 0 .. Len(watch'[m]),
                      Version(m, i)' # None, Version(m, i)'.sdel
               PROVE  pods'[m].sdel
    BY DEF MarksStay
  <2>1. m \in Active /\ m \in Names
    BY <1>3 DEF MarksGrow, Active
  <2>2. CASE m # n
    BY <1>1, <2>1, <2>2 DEF MarksStay, Version
  <2>3. CASE m = n
    <3>1. \/ i \in 0 .. Len(watch[n]) /\ Version(n, i)' = Version(n, i)
          \/ Version(n, i)' = p
      BY <1>1, <1>2, <2>3 DEF Version
    <3> QED
      BY <1>1, <1>3, <2>1, <2>3, <3>1 DEF MarksStay, MarksGrow
  <2> QED
    BY <2>2, <2>3
<1> QED
  BY <1>3, <1>4

LEMMA MarksCreate ==
    ASSUME TypeOK, MarksStay, NEW n \in Unused, NEW p \in Pod, Publish(n, p), cache' = cache
    PROVE  MarksStay'
<1>1. n \in Names /\ watch[n] = <<>> /\ Len(watch[n]) = 0 /\ cache[n] = None
  BY DEF Unused
<1>2. /\ pods'[n] = p /\ Len(watch'[n]) = 1 /\ watch'[n][1] = p
      /\ \A m \in Names \ {n} : pods'[m] = pods[m] /\ watch'[m] = watch[m]
  <2>1. /\ pods'[n] = p /\ Len(watch'[n]) = Len(watch[n]) + 1
        /\ watch'[n][Len(watch[n]) + 1] = p
        /\ \A m \in Names \ {n} : pods'[m] = pods[m] /\ watch'[m] = watch[m]
    BY <1>1, PublishedVersion
  <2>2. Len(watch[n]) + 1 = 1
    BY <1>1
  <2> QED
    BY <2>1, <2>2
<1> SUFFICES ASSUME NEW m \in Active', NEW i \in 0 .. Len(watch'[m]),
                    Version(m, i)' # None, Version(m, i)'.sdel
             PROVE  pods'[m].sdel
  BY DEF MarksStay
<1>3. CASE m = n
  BY <1>1, <1>2, <1>3 DEF Version
<1>4. CASE m # n
  <2>1. m \in Active
    BY <1>2, <1>4 DEF Active
  <2> QED
    BY <1>2, <1>4, <2>1 DEF MarksStay, Version, Active
<1> QED
  BY <1>3, <1>4

\* A cache that shows the pods as they are.
LEMMA MarksSynced ==
    ASSUME pods' = pods, cache' = pods, watch' = [m \in Names |-> <<>>]
    PROVE  MarksStay' /\ MarksGrow
<1>1. \A m \in Names : Len(watch'[m]) = 0
  OBVIOUS
<1> QED
  BY <1>1 DEF MarksStay, MarksGrow, Version, Active

LEMMA MarksInformer ==
    ASSUME TypeOK, MarksStay, Informer
    PROVE  MarksStay' /\ MarksGrow /\ UNCHANGED <<pc, job>>
<1>1. CASE InplaceuEvent \/ Resync \/ \E n \in Names : HandleNote(n)
  <2>1. UNCHANGED <<pods, watch, cache, pc, job>>
    BY <1>1 DEF InplaceuEvent, Resync, HandleNote, clusterVars
  <2> QED
    BY <2>1, MarksQuiet
<1>2. CASE InformerRelists
  <2>1. /\ pods' = pods /\ cache' = pods /\ watch' = [m \in Names |-> <<>>]
        /\ UNCHANGED <<pc, job>>
    BY <1>2 DEF InformerRelists, Relist
  <2> QED
    BY <2>1, MarksSynced
<1>3. ASSUME NEW n \in Names, InformerStep(n)
      PROVE  MarksStay' /\ MarksGrow /\ UNCHANGED <<pc, job>>
  <2>1. /\ pods' = pods /\ watch[n] # <<>> /\ UNCHANGED <<pc, job>>
        /\ cache' = [cache EXCEPT ![n] = Head(watch[n])]
        /\ watch' = [watch EXCEPT ![n] = Tail(watch[n])]
    BY <1>3 DEF InformerStep, CacheApply
  <2>2. /\ cache'[n] = watch[n][1] /\ Len(watch[n]) \in Nat
        /\ Len(watch'[n]) = Len(watch[n]) - 1
        /\ \A i \in 1 .. Len(watch'[n]) : watch'[n][i] = watch[n][i + 1]
        /\ \A m \in Names \ {n} : cache'[m] = cache[m] /\ watch'[m] = watch[m]
    BY <2>1, VersionTypes
  <2>3. Active' = Active /\ Active \subseteq Names
    BY <2>1 DEF Active
  <2>4. \A i \in 0 .. Len(watch'[n]) :
            i + 1 \in 0 .. Len(watch[n]) /\ Version(n, i)' = Version(n, i + 1)
    BY <2>2 DEF Version
  <2>5. MarksStay'
    <3> SUFFICES ASSUME NEW m \in Active, NEW i \in 0 .. Len(watch'[m]),
                        Version(m, i)' # None, Version(m, i)'.sdel
                 PROVE  pods[m].sdel
      BY <2>1, <2>3 DEF MarksStay
    <3>1. CASE m # n
      BY <2>2, <2>3, <3>1 DEF MarksStay, Version
    <3>2. CASE m = n
      BY <2>4, <3>2 DEF MarksStay
    <3> QED
      BY <3>1, <3>2
  <2> QED
    BY <2>1, <2>3, <2>5 DEF MarksGrow
<1> QED
  BY <1>1, <1>2, <1>3 DEF Informer

-----------------------------------------------------------------------------
LEMMA CausesKept ==
    ASSUME Causes, MarksGrow, UNCHANGED <<pc, job>>
    PROVE  Causes'
BY DEF Causes, MarksGrow, ListedMarks, ChosenForCause, DeletesSomething, Chosen

\* A step to where nothing is chosen for deletion.
LEMMA CausesElsewhere ==
    ASSUME pc' \in {"idle", "create", "update", "updating", "status"}
    PROVE  Causes'
BY DEF Causes, ListedMarks, ChosenForCause, DeletesSomething

\* The steps that move no pod, but for those of createPods and deletePods.
LEMMA CausesLocal ==
    ASSUME TypeOK, MarksStay, Listing, Causes,
           \/ Take \/ PassScaleGate \/ WaitForScale \/ ListPods \/ PassVersionGate
           \/ WaitForVersions \/ ReconcileFails
           \/ ScaleOut \/ DeleteSpecified \/ ScaleIn \/ NothingToScale
           \/ StartBatch \/ EndCreate \/ EndDelete \/ ChooseUpdates
           \/ StatusIsConsistent \/ UpdateStatus \/ UpdateStatusFails \/ UpdateStatusTimesOut
    PROVE  MarksStay' /\ Causes'
<1>1. UNCHANGED <<pods, watch, cache>>
  BY DEF Take, PassScaleGate, WaitForScale, ListPods, PassVersionGate, WaitForVersions,
         ReconcileFails, ScaleOut, DeleteSpecified, ScaleIn, NothingToScale, DeleteNext,
         StartBatch, EndCreate, EndDelete, ChooseUpdates,
         StatusIsConsistent, UpdateStatus, UpdateStatusFails, UpdateStatusTimesOut, clusterVars
<1>2. MarksStay' /\ MarksGrow /\ Active' = Active
  BY <1>1, MarksQuiet DEF Active
<1>3. CASE \/ WaitForScale \/ WaitForVersions \/ ReconcileFails \/ ScaleOut
           \/ StartBatch \/ EndCreate \/ EndDelete \/ ChooseUpdates
           \/ StatusIsConsistent \/ UpdateStatus \/ UpdateStatusFails \/ UpdateStatusTimesOut
  <2>1. pc' \in {"idle", "create", "update", "updating", "status"}
    BY <1>3 DEF WaitForScale, WaitForVersions, ReconcileFails, ScaleOut, StartBatch, EndCreate,
                EndDelete, ChooseUpdates, StatusIsConsistent, UpdateStatus, UpdateStatusFails,
                UpdateStatusTimesOut, Return
  <2> QED
    BY <1>2, <2>1, CausesElsewhere
<1>4. CASE Take
  <2>1. pc' = "check" /\ job'.did = FALSE
    BY <1>4 DEF Take, NewJob
  <2> QED
    BY <1>2, <2>1 DEF Causes, ListedMarks, ChosenForCause, DeletesSomething
<1>5. CASE PassScaleGate
  <2>1. pc = "check" /\ pc' = "list" /\ job' = job
    BY <1>5 DEF PassScaleGate
  <2> QED
    BY <1>2, <2>1 DEF Causes, ListedMarks, ChosenForCause, DeletesSomething
<1>6. CASE ListPods
  <2>1. /\ pc = "list" /\ pc' = "versions" /\ job \in Job
        /\ job' = [job EXCEPT !.view = ActivePods(cache),
                              !.behind = {n \in Names : IsActive(cache[n]) /\ rvExp[n] > 0}]
    BY <1>6 DEF ListPods, TypeOK
  <2>2. job'.view = ActivePods(cache) /\ job'.did = job.did
    BY <2>1 DEF Job
  <2>3. ASSUME NEW n \in Active, n \in Members(job'.view), job'.view[n].sdel
        PROVE  pods[n].sdel
    <3>1. n \in Names /\ IsActive(cache[n]) /\ job'.view[n] = cache[n]
      BY <2>2, <2>3 DEF Members, ActivePods
    <3>2. 0 \in 0 .. Len(watch[n])
      BY <3>1, VersionTypes
    <3>3. Version(n, 0) = cache[n] /\ cache[n] # None
      BY <3>1 DEF Version, IsActive
    <3> QED
      BY <2>3, <3>1, <3>2, <3>3 DEF MarksStay
  <2> QED
    BY <1>1, <1>2, <2>1, <2>2, <2>3 DEF Causes, ListedMarks, ChosenForCause, DeletesSomething
<1>7. CASE PassVersionGate
  <2>1. pc = "versions" /\ pc' = "sync" /\ job' = job
    BY <1>7 DEF PassVersionGate
  <2> QED
    BY <1>1, <1>2, <2>1 DEF Causes, ListedMarks, ChosenForCause, DeletesSomething
<1>8. ASSUME NEW S, DeleteNext(S), pc = "sync",
             \A n \in S : job.view[n].sdel \/ job.view[n].rev = job.iu.rev
      PROVE  Causes'
  <2>1. job \in Job /\ job.batch = {} /\ job' = [job EXCEPT !.todo = S]
        /\ pc' = IF S = {} THEN "update" ELSE "delete"
    BY <1>8 DEF DeleteNext, TypeOK, Listing, ListedRevisions
  <2>2. CASE S = {}
    BY <2>1, <2>2, CausesElsewhere
  <2>3. CASE S # {}
    <3>1. /\ job'.todo = S /\ job'.batch = {} /\ job'.view = job.view
          /\ job'.iu = job.iu /\ job'.did = job.did /\ pc' = "delete"
      BY <2>1, <2>3 DEF Job
    <3>2. ListedMarks'
      BY <1>1, <1>2, <1>8, <3>1 DEF Causes, ListedMarks
    <3> QED
      BY <1>8, <2>3, <3>1, <3>2 DEF Causes, ChosenForCause, DeletesSomething, Chosen
  <2> QED
    BY <2>2, <2>3
<1>9. CASE DeleteSpecified
  <2>1. PICK S \in SpecifiedDeleteChoices(job.view, PassDiffs) : DeleteNext(S)
    BY <1>9 DEF DeleteSpecified
  <2>2. \A n \in S : job.view[n].sdel
    BY <2>1 DEF SpecifiedDeleteChoices, SpecifiedDelete
  <2> QED
    BY <1>2, <1>8, <1>9, <2>1, <2>2 DEF DeleteSpecified
<1>10. CASE ScaleIn
  <2>1. PICK S \in ScaleInChoices(job.view, job.iu.rev, PassDiffs) : DeleteNext(S)
    BY <1>10 DEF ScaleIn
  <2>2. \A n \in S : job.view[n].rev = job.iu.rev
    BY <2>1 DEF ScaleInChoices, Updated
  <2> QED
    BY <1>2, <1>8, <1>10, <2>1, <2>2 DEF ScaleIn
<1>11. CASE NothingToScale
  BY <1>2, <1>8, <1>11 DEF NothingToScale
<1> QED
  BY <1>3, <1>4, <1>5, <1>6, <1>7, <1>9, <1>10, <1>11

\* The calls of createPods, deletePods and Update.
LEMMA CausesCalls ==
    ASSUME TypeOK, MarksStay, Listing, Causes, NEW n \in Names,
           \/ CreateOne(n) \/ CreateFails(n) \/ CreateTimesOut(n)
           \/ ExpectDelete(n) \/ DeleteOne(n) \/ DeleteFails(n) \/ DeleteTimesOut(n)
           \/ UpdateInPlace(n) \/ UpdateByRecreate(n) \/ UpdateFails(n) \/ UpdateTimesOut(n)
    PROVE  MarksStay' /\ Causes'
<1>1. pods \in [Names -> Pod \cup {None}]
  BY VersionTypes
<1>2. CASE CreateFails(n) \/ DeleteFails(n) \/ UpdateFails(n)
  <2>1. UNCHANGED <<pods, watch, cache>>
        /\ pc' \in {"idle", "create", "update", "updating", "status"}
    BY <1>2 DEF CreateFails, DeleteFails, DeleteStops, UpdateFails, UpdateStops
  <2> QED
    BY <2>1, MarksQuiet, CausesElsewhere
<1>3. CASE CreateOne(n) \/ CreateTimesOut(n)
  <2>1. /\ pc = "create" /\ pc' = "create" /\ n \in job.batch /\ job \in Job
        /\ Publish(n, NewPod(job.iu.rev)) /\ cache' = cache
    BY <1>3 DEF CreateOne, CreateTimesOut, TypeOK
  <2>2. n \in Unused
    BY <2>1 DEF Listing, Untried
  <2>3. NewPod(job.iu.rev) \in Pod
    BY <2>1 DEF Job, Inplaceu, NewPod, Pod
  <2> QED
    BY <2>1, <2>2, <2>3, MarksCreate, CausesElsewhere
<1>4. CASE ExpectDelete(n)
  <2>1. /\ UNCHANGED <<pods, watch, cache>> /\ pc' = pc /\ pc = "delete" /\ job \in Job
        /\ n \in job.todo
        /\ job' = [job EXCEPT !.batch = {n}, !.todo = job.todo \ {n}]
    BY <1>4 DEF ExpectDelete, clusterVars, TypeOK
  <2>2. /\ job'.view = job.view /\ job'.iu = job.iu /\ Chosen' \subseteq Chosen /\ n \in Chosen'
    BY <2>1 DEF Job, Chosen
  <2>3. MarksStay' /\ MarksGrow
    BY <2>1, MarksQuiet
  <2> QED
    BY <2>1, <2>2, <2>3
    DEF Causes, MarksGrow, ListedMarks, ChosenForCause, DeletesSomething
<1>5. ASSUME NEW p \in Deleted(pods[n]), pods[n] # None, Publish(n, p), cache' = cache
      PROVE  MarksStay' /\ MarksGrow
  <2>1. p \in Pod \cup {None} /\ ~IsActive(p)
    BY <1>1, <1>5, DeletedType DEF Deleted, IsActive, Pod
  <2> QED
    BY <1>5, <2>1, MarksWrite
<1>6. CASE DeleteOne(n)
  <2>1. MarksStay' /\ MarksGrow
    BY <1>5, <1>6, MarksQuiet DEF DeleteOne
  <2>2. /\ pc' = pc /\ pc = "delete" /\ job \in Job
        /\ job' = [job EXCEPT !.batch = {}, !.did = TRUE]
    BY <1>6 DEF DeleteOne, TypeOK
  <2>3. /\ job'.view = job.view /\ job'.iu = job.iu /\ job'.did = TRUE
        /\ Chosen' \subseteq Chosen
    BY <2>2 DEF Job, Chosen
  <2> QED
    BY <2>1, <2>2, <2>3
    DEF Causes, MarksGrow, ListedMarks, ChosenForCause, DeletesSomething
<1>7. CASE DeleteTimesOut(n)
  <2>1. pods[n] # None /\ cache' = cache /\ \E p \in Deleted(pods[n]) : Publish(n, p)
    BY <1>7 DEF DeleteTimesOut, IsActive
  <2>2. pc' \in {"status", "update"}
    BY <1>7 DEF DeleteTimesOut, DeleteStops
  <2> QED
    BY <1>5, <2>1, <2>2, CausesElsewhere
<1>8. CASE UpdateInPlace(n)
  <2> DEFINE p == [pods[n] EXCEPT !.rev = job.iu.rev]
  <2>1. /\ pods[n] \in Pod /\ Publish(n, p) /\ cache' = cache /\ job \in Job
        /\ pc' \in {"status", "updating"}
    BY <1>1, <1>8 DEF UpdateInPlace, UpdateNext, TypeOK
  <2>2. p \in Pod /\ p.phase = pods[n].phase /\ p.term = pods[n].term /\ p.sdel = pods[n].sdel
    BY <2>1 DEF Pod, Job, Inplaceu
  <2>3. IsActive(p) => IsActive(pods[n])
    BY <2>1, <2>2, SameActivity
  <2> HIDE DEF p
  <2> QED
    BY <2>1, <2>2, <2>3, MarksWrite, CausesElsewhere
<1>9. CASE UpdateByRecreate(n)
  <2> DEFINE p == [pods[n] EXCEPT !.sdel = TRUE]
  <2>1. /\ cache' = cache /\ pc' \in {"status", "updating"}
        /\ UNCHANGED <<pods, watch>> \/ (pods[n] # None /\ Publish(n, p))
    BY <1>9 DEF UpdateByRecreate, UpdateNext
  <2>2. CASE UNCHANGED <<pods, watch>>
    BY <2>1, <2>2, MarksQuiet, CausesElsewhere
  <2>3. CASE pods[n] # None /\ Publish(n, p)
    <3>1. pods[n] \in Pod
      BY <1>1, <2>3
    <3>2. p \in Pod /\ p.phase = pods[n].phase /\ p.term = pods[n].term /\ p.sdel
      BY <3>1 DEF Pod
    <3>3. IsActive(p) => IsActive(pods[n])
      BY <3>1, <3>2, SameActivity
    <3> HIDE DEF p
    <3> QED
      BY <2>1, <2>3, <3>2, <3>3, MarksWrite, CausesElsewhere
  <2> QED
    BY <2>1, <2>2, <2>3
<1>10. CASE UpdateTimesOut(n)
  <2>1. /\ pods[n] \in Pod /\ cache' = cache /\ pc' = "status" /\ job.iu.rev \in Revs
    BY <1>1, <1>10 DEF UpdateTimesOut, UpdateStops, TypeOK, Job, Inplaceu
  <2>2. PICK p \in {[pods[n] EXCEPT !.rev = job.iu.rev], [pods[n] EXCEPT !.sdel = TRUE]} :
          Publish(n, p)
    BY <1>10 DEF UpdateTimesOut
  <2>3. /\ p \in Pod /\ p.phase = pods[n].phase /\ p.term = pods[n].term
        /\ pods[n].sdel => p.sdel
    BY <2>1, <2>2 DEF Pod
  <2>4. IsActive(p) => IsActive(pods[n])
    BY <2>1, <2>3, SameActivity
  <2> QED
    BY <2>1, <2>2, <2>3, <2>4, MarksWrite, CausesElsewhere
<1> QED
  BY <1>2, <1>3, <1>4, <1>6, <1>7, <1>8, <1>9, <1>10

\* Kubelets and users take no mark away.
LEMMA CausesEnvironment ==
    ASSUME TypeOK, MarksStay, Causes, EnvironmentStep
    PROVE  MarksStay' /\ Causes'
<1>1. UNCHANGED <<pc, job>> /\ Environment
  BY DEF EnvironmentStep, controllerVars
<1>2. pods \in [Names -> Pod \cup {None}]
  BY VersionTypes
<1>3. ASSUME NEW n \in Names, NEW p \in Pod \cup {None}, KubeletWrites(n, p),
             IsActive(p) => IsActive(pods[n]) /\ (pods[n].sdel => p.sdel)
      PROVE  MarksStay' /\ Causes'
  <2>1. Publish(n, p) /\ cache' = cache
    BY <1>3 DEF KubeletWrites
  <2> QED
    BY <1>1, <1>3, <2>1, MarksWrite, CausesKept
<1>4. ASSUME NEW n \in Names,
             \/ PodRuns(n) \/ PodReady(n) \/ PodUnready(n)
             \/ UserMarksDelete(n) \/ PodFails(n)
      PROVE  MarksStay' /\ Causes'
  <2>1. IsActive(pods[n]) /\ pods[n] \in Pod
    BY <1>2, <1>4 DEF PodRuns, PodReady, PodUnready, UserMarksDelete, PodFails, IsActive
  <2>2. \E p \in Pod : KubeletWrites(n, p) /\ (pods[n].sdel => p.sdel)
    <3>1. /\ [pods[n] EXCEPT !.phase = "Running"] \in Pod
          /\ [pods[n] EXCEPT !.ready = TRUE] \in Pod
          /\ [pods[n] EXCEPT !.ready = FALSE] \in Pod
          /\ [pods[n] EXCEPT !.sdel = TRUE] \in Pod
          /\ [pods[n] EXCEPT !.phase = "Failed", !.ready = FALSE] \in Pod
      BY <2>1 DEF Pod
    <3>2. /\ [pods[n] EXCEPT !.phase = "Running"].sdel = pods[n].sdel
          /\ [pods[n] EXCEPT !.ready = TRUE].sdel = pods[n].sdel
          /\ [pods[n] EXCEPT !.ready = FALSE].sdel = pods[n].sdel
          /\ [pods[n] EXCEPT !.sdel = TRUE].sdel = TRUE
          /\ [pods[n] EXCEPT !.phase = "Failed", !.ready = FALSE].sdel = pods[n].sdel
      BY <2>1 DEF Pod
    <3> QED
      BY <1>4, <3>1, <3>2 DEF PodRuns, PodReady, PodUnready, UserMarksDelete, PodFails
  <2> QED
    BY <1>3, <2>1, <2>2
<1>5. ASSUME NEW n \in Names, PodGone(n) PROVE MarksStay' /\ Causes'
  BY <1>3, <1>5 DEF PodGone, IsActive
<1>6. ASSUME NEW n \in Names, Evict(n) PROVE MarksStay' /\ Causes'
  <2>1. IsActive(pods[n]) /\ pods[n] \in Pod
    BY <1>2, <1>6 DEF Evict, IsActive
  <2>2. \A p \in Deleted(pods[n]) : p \in Pod \cup {None} /\ ~IsActive(p)
    BY <2>1, DeletedType DEF Deleted, IsActive, Pod
  <2> QED
    BY <1>3, <1>6, <2>2 DEF Evict
<1>7. ASSUME \/ \E r \in ReplicaChoices : UserScales(r)
             \/ \E rev \in Revs : UserChangesTemplate(rev)
      PROVE  MarksStay' /\ Causes'
  <2>1. UNCHANGED <<pods, watch, cache>>
    BY <1>7 DEF UserScales, UserChangesTemplate
  <2> QED
    BY <1>1, <2>1, MarksQuiet, CausesKept
<1> QED
  BY <1>1, <1>4, <1>5, <1>6, <1>7 DEF Environment

LEMMA CausesInit == Init => MarksStay /\ Causes
<1> SUFFICES ASSUME Init PROVE MarksStay /\ Causes
  OBVIOUS
<1>1. cache = pods /\ watch = [n \in Names |-> <<>>] /\ pc = "idle"
  BY DEF Init
<1>2. \A n \in Names : Len(watch[n]) = 0
  BY <1>1
<1> QED
  BY <1>1, <1>2 DEF MarksStay, Version, Active, Causes, ListedMarks, ChosenForCause,
                    DeletesSomething

LEMMA CausesStep ==
    ASSUME TypeOK, Listing, MarksStay, Causes, [Next]_vars
    PROVE  MarksStay' /\ Causes'
<1>1. CASE Worker
  BY <1>1, CausesLocal, CausesCalls DEF Worker
<1>2. CASE WorkerFault
  BY <1>2, CausesLocal, CausesCalls DEF WorkerFault
<1>3. CASE Informer
  BY <1>3, MarksInformer, CausesKept
<1>4. CASE Crash
  <2>1. /\ pods' = pods /\ cache' = pods /\ watch' = [m \in Names |-> <<>>] /\ pc' = "idle"
    BY <1>4 DEF Crash, Reload
  <2> QED
    BY <2>1, MarksSynced, CausesElsewhere
<1>5. CASE UNCHANGED vars
  <2>1. UNCHANGED <<pods, watch, cache, pc, job>>
    BY <1>5 DEF vars, clusterVars, controllerVars
  <2> QED
    BY <2>1, MarksQuiet, CausesKept
<1> QED
  BY <1>1, <1>2, <1>3, <1>4, <1>5, CausesEnvironment DEF Next

\* A pass deletes only pods that are marked, or were listed at the revision it aims at,
\* whatever fails and however late the cache is.
THEOREM DeletedForCause == Spec => []CauseInvariant
<1> DEFINE Inv == TypeOK /\ Versions /\ Listing /\ MarksStay /\ Causes
<1>1. Init => Inv
  BY InitTypeOK, ListingInit, CausesInit
<1>2. Inv /\ [Next]_vars => Inv'
  BY NextTypeOK, ListingStep, CausesStep
<1>3. Inv => CauseInvariant
  BY DEF CauseInvariant, Causes
<1> HIDE DEF Inv
<1> QED
  BY <1>1, <1>2, <1>3, PTL DEF Spec
=============================================================================
