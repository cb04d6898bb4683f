-------------------------- MODULE OwnershipProofs ---------------------------
(***************************************************************************)
(* Theorems about Ownership, for any Inplaceus, selectors, pods and faults *)
(* and however far the cache is behind.                                    *)
(*                                                                         *)
(* NoStealing rests on optimistic locking: a pod that was not written      *)
(* since the pass listed it is as the pass saw it (ClaimInvariant).        *)
(* DeletesOwnPods needs more, as deletions go by name: a version of a pod  *)
(* that an Inplaceu would claim is followed, on its way to the cache, only *)
(* by versions which that Inplaceu controls (Inherited).                   *)
(*                                                                         *)
(* At rest nobody waits, pods match their controllers and owned pods are   *)
(* adopted, unless users move owners: what is awaited is on its way        *)
(* (AwaitInvariant), and a pod to release or to adopt is handled, or will  *)
(* be once its next version is seen (MismatchHandled, AbandonedHandled).   *)
(***************************************************************************)
EXTENDS Ownership, SequenceTheorems, TLAPS

Version == Pod \cup {None}

-----------------------------------------------------------------------------
(* Pods. *)

LEMMA PodFields ==
    ASSUME NEW pod \in Pod
    PROVE  /\ pod = [ctrl |-> pod.ctrl, plain |-> pod.plain, label |-> pod.label,
                     ended |-> pod.ended, term |-> pod.term]
           /\ pod.ctrl \in Owners \cup {Foreign, None}
           /\ pod.plain \in SUBSET Owners
           /\ pod.label \in Labels
           /\ pod.ended \in BOOLEAN /\ pod.term \in BOOLEAN
           /\ pod.ctrl \notin pod.plain
           /\ pod # None
  BY OwnershipAssumption DEF Pod

\* A write of a pod leaves it a pod.
LEMMA EditedPod ==
    ASSUME NEW pod \in Pod
    PROVE  /\ \A l \in Labels : [pod EXCEPT !.label = l] \in Pod
           /\ [pod EXCEPT !.ctrl = None] \in Pod
           /\ [pod EXCEPT !.ctrl = Foreign] \in Pod
           /\ [pod EXCEPT !.term = TRUE] \in Pod
           /\ [pod EXCEPT !.ended = TRUE] \in Pod
           /\ pod.ctrl \in Owners => [pod EXCEPT !.ctrl = None, !.plain = @ \cup {pod.ctrl}] \in Pod
           /\ \A o \in Owners : o # pod.ctrl => [pod EXCEPT !.plain = @ \cup {o}] \in Pod
           /\ \A o \in Owners : [pod EXCEPT !.ctrl = o, !.plain = @ \ {o}] \in Pod
           /\ \A lost \in SUBSET Owners :
                [pod EXCEPT !.plain = @ \ lost, !.ctrl = IF @ \in lost THEN None ELSE @] \in Pod
<1> DEFINE c == pod.ctrl  s == pod.plain  l == pod.label  e == pod.ended  t == pod.term
<1>1. /\ pod = [ctrl |-> c, plain |-> s, label |-> l, ended |-> e, term |-> t]
      /\ c \in Owners \cup {Foreign, None} /\ s \in SUBSET Owners /\ l \in Labels
      /\ e \in BOOLEAN /\ t \in BOOLEAN /\ c \notin s
  BY PodFields
<1>2. None \notin Owners /\ Foreign \notin Owners
  BY OwnershipAssumption
<1>3. c = pod.ctrl
  BY DEF c
<1> HIDE DEF c, s, l, e, t
<1>4. \A ll \in Labels : [pod EXCEPT !.label = ll] \in Pod
  BY <1>1 DEF Pod
<1>5. [pod EXCEPT !.ctrl = None] \in Pod /\ [pod EXCEPT !.ctrl = Foreign] \in Pod
  BY <1>1, <1>2 DEF Pod
<1>6. [pod EXCEPT !.term = TRUE] \in Pod /\ [pod EXCEPT !.ended = TRUE] \in Pod
  BY <1>1 DEF Pod
<1>7. c \in Owners => [pod EXCEPT !.ctrl = None, !.plain = @ \cup {c}] \in Pod
  BY <1>1, <1>2 DEF Pod
<1>8. \A o \in Owners : o # c => [pod EXCEPT !.plain = @ \cup {o}] \in Pod
  BY <1>1 DEF Pod
<1>9. \A o \in Owners : [pod EXCEPT !.ctrl = o, !.plain = @ \ {o}] \in Pod
  BY <1>1 DEF Pod
<1>10. ASSUME NEW lost \in SUBSET Owners
       PROVE  [pod EXCEPT !.plain = @ \ lost, !.ctrl = IF @ \in lost THEN None ELSE @] \in Pod
  <2>1. CASE c \in lost
    BY <1>1, <1>2, <2>1 DEF Pod
  <2>2. CASE c \notin lost
    BY <1>1, <2>2 DEF Pod
  <2> QED BY <2>1, <2>2
<1>11. pod.ctrl \in Owners => [pod EXCEPT !.ctrl = None, !.plain = @ \cup {pod.ctrl}] \in Pod
  BY <1>3, <1>7
<1>12. \A o \in Owners : o # pod.ctrl => [pod EXCEPT !.plain = @ \cup {o}] \in Pod
  BY <1>3, <1>8
<1> QED
  BY <1>4, <1>5, <1>6, <1>9, <1>10, <1>11, <1>12

-----------------------------------------------------------------------------
(* Types. *)

LEMMA ClientTypes ==
    ASSUME TypeOK
    PROVE  /\ pods \in [Pods -> Version] /\ cache \in [Pods -> Version]
           /\ watch \in [Pods -> Seq(Version)]
           /\ pc # "idle" => job \in Job
           /\ budget \in 0 .. Budget
  BY DEF TypeOK, Version

LEMMA BudgetType ==
    ASSUME TypeOK, Calm \/ \E kind \in AllDisturbances : Disturb(kind)
    PROVE  budget' \in 0 .. Budget
<1>1. budget \in 0 .. Budget /\ Budget \in Nat
  BY OwnershipAssumption DEF TypeOK
<1> QED
  BY <1>1 DEF Calm, Disturb

LEMMA PublishType ==
    ASSUME TypeOK, NEW p \in Pods, NEW pod \in Version, Publish(p, pod)
    PROVE  /\ pods' \in [Pods -> Version]
           /\ watch' \in [Pods -> Seq(Version)]
           /\ moved' \in SUBSET Pods
<1>1. Append(watch[p], pod) \in Seq(Version)
  BY ClientTypes
<1> QED
  BY <1>1, ClientTypes DEF Publish, TypeOK

LEMMA NoWriteType ==
    ASSUME TypeOK, NoWrite
    PROVE  /\ pods' \in [Pods -> Version]
           /\ watch' \in [Pods -> Seq(Version)]
           /\ moved' \in SUBSET Pods
  BY ClientTypes DEF NoWrite, TypeOK

\* An edit by someone else than the controller.
LEMMA EditType ==
    ASSUME TypeOK, NEW p \in Pods, NEW pod \in Version, Edit(p, pod),
           Calm \/ \E kind \in AllDisturbances : Disturb(kind)
    PROVE  TypeOK'
<1>1. pods' \in [Pods -> Version] /\ watch' \in [Pods -> Seq(Version)] /\ moved' \in SUBSET Pods
  BY PublishType DEF Edit
<1>2. budget' \in 0 .. Budget
  BY BudgetType
<1> QED
  BY <1>1, <1>2 DEF Edit, worker, TypeOK, Version

LEMMA DoneType ==
    ASSUME TypeOK, pc = "claim", NEW p \in Pods, NEW mine \in SUBSET Pods, NEW err \in BOOLEAN,
           Done(p, mine, err)
    PROVE  job' \in Job
<1>1. job \in Job
  BY ClientTypes
<1> QED
  BY <1>1 DEF Done, Job

LEMMA ReturnType ==
    ASSUME TypeOK, pc # "idle", NEW requeue \in BOOLEAN, Return(requeue)
    PROVE  pc' = "idle" /\ job' = None /\ queued' \in SUBSET Owners
<1>1. job.for \in Owners
  BY ClientTypes DEF Job
<1> QED
  BY <1>1 DEF Return, TypeOK

\* A step of a claim: a write or none, and one pod done.
LEMMA ClaimType ==
    ASSUME TypeOK, pc = "claim", NEW p \in Pods, NEW mine \in SUBSET Pods, NEW err \in BOOLEAN,
           Done(p, mine, err),
           NoWrite \/ \E pod \in Version : Publish(p, pod),
           Calm \/ \E kind \in AllDisturbances : Disturb(kind),
           UNCHANGED <<owners, ownerCache, cache, exp, queued, pc>>
    PROVE  TypeOK'
<1>1. pods' \in [Pods -> Version] /\ watch' \in [Pods -> Seq(Version)] /\ moved' \in SUBSET Pods
  BY PublishType, NoWriteType
<1>2. budget' \in 0 .. Budget
  BY BudgetType
<1>3. job' \in Job
  BY DoneType
<1> QED
  BY <1>1, <1>2, <1>3 DEF TypeOK, Version

LEMMA InitType == Init => TypeOK
<1> SUFFICES ASSUME Init PROVE TypeOK
  OBVIOUS
<1>1. Budget \in 0 .. Budget
  BY OwnershipAssumption
<1>2. watch \in [Pods -> Seq(Pod \cup {None})]
  BY DEF Init
<1> QED
  BY <1>1, <1>2, OwnershipAssumption DEF Init, TypeOK, OwnerStates

LEMMA WorkerType ==
    ASSUME TypeOK, Worker
    PROVE  TypeOK'
<1> USE DEF Version
<1>1. ASSUME NEW o \in Owners, FindGone(o) PROVE TypeOK'
  BY <1>1 DEF FindGone, TypeOK
<1>2. ASSUME NEW o \in Owners, Take(o) PROVE TypeOK'
  <2>1. ownerCache[o] \in {"live", "dying"}
    BY <1>2 DEF Take, TypeOK, OwnerStates
  <2>2. job' \in Job
    BY <1>2, <2>1 DEF Take, Job
  <2> QED BY <1>2, <2>2 DEF Take, TypeOK
<1>3. CASE WaitForScale
  BY <1>3, ReturnType DEF WaitForScale, TypeOK
<1>4. CASE ListPods
  <2> DEFINE view == [p \in Pods |-> IF IsActive(cache[p]) /\ IsOwned(job.for, cache[p])
                                     THEN cache[p] ELSE None]
  <2>1. view \in [Pods -> Version]
    BY ClientTypes
  <2>2. Claimed(view) \in SUBSET Pods /\ ToRelease(view) \cup ToAdopt(view) \in SUBSET Pods
    BY DEF Claimed, ToRelease, ToAdopt, Existing
  <2>3. /\ job' = [job EXCEPT !.view = view, !.mine = Claimed(view),
                             !.todo = ToRelease(view) \cup ToAdopt(view)]
        /\ pc = "list" /\ pc' = "claim" /\ moved' \in SUBSET Pods
        /\ UNCHANGED <<owners, ownerCache, pods, watch, cache, exp, queued, budget>>
    BY <1>4 DEF ListPods
  <2> HIDE DEF view
  <2>4. job' \in Job
    BY <2>1, <2>2, <2>3, ClientTypes DEF Job
  <2> QED BY <2>3, <2>4 DEF TypeOK
<1>5. CASE AskToAdopt
  BY <1>5, ClientTypes DEF AskToAdopt, TypeOK, Job
<1>6. CASE EndClaims
  BY <1>6, ReturnType DEF EndClaims, TypeOK
<1>7. CASE EndSync
  BY <1>7, ReturnType DEF EndSync, TypeOK
<1>8. ASSUME NEW p \in Pods, Release(p) PROVE TypeOK'
  <2>1. pods[p] \in Pod /\ pc = "claim"
    BY <1>8, ClientTypes DEF Release, UpToDate, Releases
  <2>2. Released(pods[p]) \in Version
    BY <2>1, EditedPod DEF Released
  <2> QED BY <1>8, <2>1, <2>2, ClaimType DEF Release, Calm
<1>9. ASSUME NEW p \in Pods, ReleaseFails(p) PROVE TypeOK'
  <2>1. pc = "claim" /\ Done(p, {}, TRUE)
        /\ UNCHANGED <<owners, ownerCache, cache, exp, queued, pc>>
    BY <1>9 DEF ReleaseFails, Releases
  <2>2. Calm \/ \E kind \in AllDisturbances : Disturb(kind)
    BY <1>9 DEF ReleaseFails, AllDisturbances
  <2>3. NoWrite \/ \E pod \in Version : Publish(p, pod)
    <3>1. UpToDate(p) => Released(pods[p]) \in Version
      BY ClientTypes, EditedPod DEF UpToDate, Released
    <3> QED BY <1>9, <3>1 DEF ReleaseFails
  <2> QED BY <2>1, <2>2, <2>3, ClaimType
<1>10. ASSUME NEW p \in Pods, Adopt(p) PROVE TypeOK'
  <2>1. pods[p] \in Pod /\ pc = "claim" /\ job.for \in Owners
    BY <1>10, ClientTypes DEF Adopt, UpToDate, Adopts, Job
  <2>2. Adopted(pods[p]) \in Version
    BY <2>1, EditedPod DEF Adopted
  <2> QED BY <1>10, <2>1, <2>2, ClaimType DEF Adopt, Calm
<1>11. ASSUME NEW p \in Pods, AdoptFails(p) PROVE TypeOK'
  <2>1. pc = "claim" /\ Done(p, {}, TRUE) /\ job.for \in Owners
        /\ UNCHANGED <<owners, ownerCache, cache, exp, queued, pc>>
    BY <1>11, ClientTypes DEF AdoptFails, Adopts, Job
  <2>2. Calm \/ \E kind \in AllDisturbances : Disturb(kind)
    BY <1>11 DEF AdoptFails, AllDisturbances
  <2>3. NoWrite \/ \E pod \in Version : Publish(p, pod)
    <3>1. UpToDate(p) => Adopted(pods[p]) \in Version
      BY <2>1, ClientTypes, EditedPod DEF UpToDate, Adopted
    <3> QED BY <1>11, <3>1 DEF AdoptFails
  <2> QED BY <2>1, <2>2, <2>3, ClaimType
<1> QED
  BY <1>1, <1>2, <1>3, <1>4, <1>5, <1>6, <1>7, <1>8, <1>9, <1>10, <1>11 DEF Worker

LEMMA ScalingType ==
    ASSUME TypeOK, Scaling
    PROVE  TypeOK'
<1>1. ASSUME NEW p \in Pods, CreatePod(p) PROVE TypeOK'
  <2>1. job.for \in Owners /\ pc = "sync"
    BY <1>1, ClientTypes DEF CreatePod, Job
  <2>2. [ctrl |-> job.for, plain |-> {}, label |-> TemplateLabel[job.for],
                ended |-> FALSE, term |-> FALSE] \in Version
    BY <2>1, OwnershipAssumption DEF Version, Pod
  <2>3. pods' \in [Pods -> Version] /\ watch' \in [Pods -> Seq(Version)] /\ moved' \in SUBSET Pods
    BY <1>1, <2>2, PublishType DEF CreatePod
  <2>4. budget' \in 0 .. Budget
    BY <1>1, BudgetType DEF CreatePod, AllDisturbances
  <2>5. exp' \in [Owners -> SUBSET ({"create", "delete"} \X Pods)]
    BY <1>1, <2>1 DEF CreatePod, TypeOK
  <2> QED BY <1>1, <2>1, <2>3, <2>4, <2>5 DEF CreatePod, TypeOK, Version
<1>2. ASSUME NEW p \in Pods, DeletePod(p) PROVE TypeOK'
  <2>1. job \in Job /\ job.for \in Owners /\ pc = "sync" /\ pods[p] \in Pod
    BY <1>2, ClientTypes DEF DeletePod, Version, Job
  <2>2. [pods[p] EXCEPT !.term = TRUE] \in Version
    BY <2>1, EditedPod DEF Version
  <2>3. pods' \in [Pods -> Version] /\ watch' \in [Pods -> Seq(Version)] /\ moved' \in SUBSET Pods
    BY <1>2, <2>2, PublishType, NoWriteType DEF DeletePod
  <2>4. budget' \in 0 .. Budget
    BY <1>2, BudgetType DEF DeletePod, AllDisturbances
  <2>5. exp' \in [Owners -> SUBSET ({"create", "delete"} \X Pods)]
    BY <1>2, <2>1 DEF DeletePod, TypeOK
  <2>6. job' \in Job
    BY <1>2, <2>1 DEF DeletePod, Job
  <2>7. UNCHANGED <<owners, ownerCache, cache, queued, pc>>
    BY <1>2 DEF DeletePod
  <2> QED BY <2>1, <2>3, <2>4, <2>5, <2>6, <2>7 DEF TypeOK, Version
<1> QED
  BY <1>1, <1>2 DEF Scaling

LEMMA InformersType ==
    ASSUME TypeOK, Informers \/ Crash
    PROVE  TypeOK'
<1>1. ASSUME NEW p \in Pods, PodEvent(p) PROVE TypeOK'
  <2>1. Head(watch[p]) \in Version /\ Tail(watch[p]) \in Seq(Version)
    BY <1>1, ClientTypes DEF PodEvent
  <2>2. cache' \in [Pods -> Version] /\ watch' \in [Pods -> Seq(Version)]
    BY <1>1, <2>1, ClientTypes DEF PodEvent
  <2>3. queued' \in SUBSET Owners
    BY <1>1 DEF PodEvent, TypeOK
  <2>4. exp' \in [Owners -> SUBSET ({"create", "delete"} \X Pods)]
    <3> DEFINE W == {"create", "delete"} \X Pods
    <3>1. exp \in [Owners -> SUBSET W]
      BY DEF TypeOK
    <3>2. \/ exp' = exp
          \/ \E met : exp' = [o \in Owners |-> exp[o] \ {w \in W : <<o, w>> \in met}]
      BY <1>1 DEF PodEvent
    <3> HIDE DEF W
    <3>3. exp' \in [Owners -> SUBSET W]
      BY <3>1, <3>2
    <3> QED BY <3>3 DEF W
  <2>5. UNCHANGED <<owners, ownerCache, pods, pc, job, moved, budget>>
    BY <1>1 DEF PodEvent
  <2> QED BY <2>2, <2>3, <2>4, <2>5 DEF TypeOK, Version
<1>2. ASSUME NEW o \in Owners, OwnerEvent(o) PROVE TypeOK'
  BY <1>2 DEF OwnerEvent, TypeOK
<1>3. CASE Crash
  <2>1. budget' \in 0 .. Budget
    BY <1>3, BudgetType DEF Crash, AllDisturbances
  <2> QED BY <1>3, <2>1 DEF Crash, TypeOK
<1> QED
  BY <1>1, <1>2, <1>3 DEF Informers

LEMMA EnvironmentType ==
    ASSUME TypeOK, Users \/ Cluster
    PROVE  TypeOK'
<1> USE DEF Version
<1>1. \A p \in Pods : pods[p] # None => pods[p] \in Pod
  BY ClientTypes
<1>2. ASSUME NEW p \in Pods, NEW l \in Labels, UserRelabels(p, l) PROVE TypeOK'
  BY <1>1, <1>2, EditedPod, EditType DEF UserRelabels, Remains, AllDisturbances
<1>3. ASSUME NEW p \in Pods, UserOrphans(p) PROVE TypeOK'
  BY <1>1, <1>3, EditedPod, EditType DEF UserOrphans, Remains, AllDisturbances
<1>4. ASSUME NEW p \in Pods, UserDemotes(p) PROVE TypeOK'
  BY <1>1, <1>4, EditedPod, EditType DEF UserDemotes, Remains, AllDisturbances
<1>5. ASSUME NEW p \in Pods, NEW o \in Owners, UserLinks(p, o) PROVE TypeOK'
  <2>1. o # pods[p].ctrl /\ pods[p] \in Pod
    BY <1>1, <1>5 DEF UserLinks, Remains, IsOwned
  <2> QED BY <1>5, <2>1, EditedPod, EditType DEF UserLinks, AllDisturbances
<1>6. ASSUME NEW p \in Pods, ForeignAdopts(p) PROVE TypeOK'
  BY <1>1, <1>6, EditedPod, EditType DEF ForeignAdopts, Remains, AllDisturbances
<1>7. ASSUME NEW p \in Pods, Evict(p) PROVE TypeOK'
  BY <1>1, <1>7, EditedPod, EditType DEF Evict, Remains, AllDisturbances
<1>8. ASSUME NEW p \in Pods, PodGone(p) \/ PodEnds(p) PROVE TypeOK'
  <2>1. CASE PodGone(p)
    BY <2>1, EditType DEF PodGone
  <2>2. CASE PodEnds(p)
    BY <1>1, <2>2, EditedPod, EditType DEF PodEnds, IsActive, Remains, AllDisturbances
  <2> QED BY <1>8, <2>1, <2>2
<1>9. ASSUME NEW p \in Pods, GarbageCollect(p) PROVE TypeOK'
  <2> DEFINE lost == {o \in OwnersOf(pods[p]) \cap Owners : owners[o] # "live"}
  <2>1. pods[p] \in Pod /\ lost \in SUBSET Owners
    BY <1>1, <1>9 DEF GarbageCollect, Remains
  <2>2. /\ [pods[p] EXCEPT !.term = TRUE] \in Version
        /\ [pods[p] EXCEPT !.plain = @ \ lost, !.ctrl = IF @ \in lost THEN None ELSE @] \in Version
    BY <2>1, EditedPod
  <2>3. Calm /\ (\/ Edit(p, [pods[p] EXCEPT !.term = TRUE])
                 \/ Edit(p, [pods[p] EXCEPT !.plain = @ \ lost,
                                            !.ctrl = IF @ \in lost THEN None ELSE @]))
    BY <1>9 DEF GarbageCollect
  <2> HIDE DEF lost
  <2> QED BY <2>2, <2>3, EditType
<1>10. ASSUME NEW o \in Owners, UserRemoves(o) \/ OwnerGone(o) PROVE TypeOK'
  <2>1. budget' \in 0 .. Budget
    BY <1>10, BudgetType DEF UserRemoves, OwnerGone, AllDisturbances, Calm
  <2>2. owners' \in [Owners -> OwnerStates]
    BY <1>10 DEF UserRemoves, OwnerGone, TypeOK, OwnerStates
  <2> QED BY <1>10, <2>1, <2>2 DEF UserRemoves, OwnerGone, NoWrite, worker, TypeOK
<1> QED
  BY <1>2, <1>3, <1>4, <1>5, <1>6, <1>7, <1>8, <1>9, <1>10 DEF Users, Cluster

LEMMA StepType == TypeOK /\ [Next]_vars => TypeOK'
<1>1. ASSUME TypeOK, UNCHANGED vars PROVE TypeOK'
  BY <1>1 DEF vars, TypeOK
<1> QED
  BY <1>1, WorkerType, ScalingType, InformersType, EnvironmentType DEF Next

\* The type invariant: pods name an owner once, jobs and expectations are what the
\* controller's structures can hold.
THEOREM TypeCorrect == Spec => []TypeOK
  BY InitType, StepType, PTL DEF Spec

-----------------------------------------------------------------------------
(* Versions on their way to the cache. *)

\* The last version under way, or else the cached one, is the current one.
Follows(cached, sent, current) ==
    IF sent = <<>> THEN cached = current ELSE sent[Len(sent)] = current

InOrder == \A p \in Pods : Follows(cache[p], watch[p], pods[p])

LEMMA FollowsWrite ==
    ASSUME NEW sent \in Seq(Version), NEW cached, NEW v \in Version
    PROVE  Follows(cached, Append(sent, v), v)
  BY DEF Follows

LEMMA FollowsEvent ==
    ASSUME NEW sent \in Seq(Version), sent # <<>>, NEW cached, NEW current,
           Follows(cached, sent, current)
    PROVE  Follows(Head(sent), Tail(sent), current)
<1>1. CASE Len(sent) = 1
  <2>1. Tail(sent) = <<>>
    <3>1. Tail(sent) \in Seq(Version) /\ Len(Tail(sent)) = 0
      BY <1>1, HeadTailProperties
    <3>2. \A seq \in Seq(Version) : seq # <<>> => Len(seq) # 0
      BY EmptySeq
    <3> QED BY <3>1, <3>2, Zenon
  <2>2. Head(sent) = sent[Len(sent)]
    BY <1>1
  <2> QED BY <2>1, <2>2 DEF Follows
<1>2. CASE Len(sent) # 1
  <2>1. Len(sent) \in Nat /\ Len(sent) > 1
    BY <1>2
  <2>2. Len(Tail(sent)) = Len(sent) - 1 /\ Tail(sent) # <<>>
    BY <2>1
  <2>3. Tail(sent)[Len(sent) - 1] = sent[Len(sent)]
    BY <2>1
  <2> QED BY <2>2, <2>3 DEF Follows
<1> QED BY <1>1, <1>2

\* What a step does to pods and their versions.
Delivers(p) ==
    /\ watch[p] # <<>>
    /\ cache' = [cache EXCEPT ![p] = Head(watch[p])]
    /\ watch' = [watch EXCEPT ![p] = Tail(watch[p])]
    /\ UNCHANGED <<pods, moved>>

Quiet == UNCHANGED <<pods, watch, moved, cache>>

Writes == cache' = cache /\ \E p \in Pods, v \in Version : Publish(p, v)
Rewrites == cache' = cache /\ \E p \in Pods, v \in Version : pods[p] # None /\ Publish(p, v)

LEMMA RewritesWrite == Rewrites => Writes
  BY DEF Rewrites, Writes

LEMMA UsersWrite ==
    ASSUME TypeOK, Users \/ Cluster
    PROVE  UNCHANGED worker /\ (Quiet \/ Rewrites)
<1> USE DEF Version
<1>1. \A p \in Pods : pods[p] # None => pods[p] \in Pod
  BY ClientTypes
<1>2. ASSUME NEW p \in Pods, NEW v \in Version, pods[p] # None, Edit(p, v)
      PROVE  UNCHANGED worker /\ Rewrites
  BY <1>2 DEF Edit, Rewrites
<1>3. ASSUME NEW p \in Pods, NEW l \in Labels, UserRelabels(p, l) PROVE UNCHANGED worker /\ Rewrites
  BY <1>1, <1>2, <1>3, EditedPod DEF UserRelabels, Remains
<1>4. ASSUME NEW p \in Pods, UserOrphans(p) PROVE UNCHANGED worker /\ Rewrites
  BY <1>1, <1>2, <1>4, EditedPod DEF UserOrphans, Remains
<1>5. ASSUME NEW p \in Pods, UserDemotes(p) PROVE UNCHANGED worker /\ Rewrites
  BY <1>1, <1>2, <1>5, EditedPod DEF UserDemotes, Remains
<1>6. ASSUME NEW p \in Pods, NEW o \in Owners, UserLinks(p, o) PROVE UNCHANGED worker /\ Rewrites
  <2>1. o # pods[p].ctrl /\ pods[p] \in Pod
    BY <1>1, <1>6 DEF UserLinks, Remains, IsOwned
  <2> QED BY <1>2, <1>6, <2>1, EditedPod DEF UserLinks, Remains
<1>7. ASSUME NEW p \in Pods, ForeignAdopts(p) PROVE UNCHANGED worker /\ Rewrites
  BY <1>1, <1>2, <1>7, EditedPod DEF ForeignAdopts, Remains
<1>8. ASSUME NEW p \in Pods, Evict(p) PROVE UNCHANGED worker /\ Rewrites
  BY <1>1, <1>2, <1>8, EditedPod DEF Evict, Remains
<1>9. ASSUME NEW p \in Pods, PodGone(p) PROVE UNCHANGED worker /\ Rewrites
  BY <1>2, <1>9 DEF PodGone
<1>10. ASSUME NEW p \in Pods, PodEnds(p) PROVE UNCHANGED worker /\ Rewrites
  BY <1>1, <1>2, <1>10, EditedPod DEF PodEnds, IsActive, Remains
<1>11. ASSUME NEW p \in Pods, GarbageCollect(p) PROVE UNCHANGED worker /\ Rewrites
  <2> DEFINE lost == {o \in OwnersOf(pods[p]) \cap Owners : owners[o] # "live"}
  <2>1. pods[p] \in Pod /\ lost \in SUBSET Owners
    BY <1>1, <1>11 DEF GarbageCollect, Remains
  <2>2. /\ [pods[p] EXCEPT !.term = TRUE] \in Version
        /\ [pods[p] EXCEPT !.plain = @ \ lost, !.ctrl = IF @ \in lost THEN None ELSE @] \in Version
    BY <2>1, EditedPod
  <2>3. \/ Edit(p, [pods[p] EXCEPT !.term = TRUE])
        \/ Edit(p, [pods[p] EXCEPT !.plain = @ \ lost, !.ctrl = IF @ \in lost THEN None ELSE @])
    BY <1>11 DEF GarbageCollect
  <2>4. pods[p] # None
    BY <1>11 DEF GarbageCollect, Remains
  <2> HIDE DEF lost
  <2> QED BY <1>2, <2>2, <2>3, <2>4
<1>12. ASSUME NEW o \in Owners, UserRemoves(o) \/ OwnerGone(o) PROVE UNCHANGED worker /\ Quiet
  BY <1>12 DEF UserRemoves, OwnerGone, NoWrite, Quiet
<1> QED
  BY <1>3, <1>4, <1>5, <1>6, <1>7, <1>8, <1>9, <1>10, <1>11, <1>12 DEF Users, Cluster

\* A release or an adoption: a write of that pod or none, and one pod done.
LEMMA ClaimWrites ==
    ASSUME TypeOK, NEW p \in Pods, Release(p) \/ ReleaseFails(p) \/ Adopt(p) \/ AdoptFails(p)
    PROVE  /\ Quiet \/ Rewrites
           /\ pc = "claim" /\ pc' = pc /\ p \in job.todo
           /\ \E mine \in SUBSET {p}, err \in BOOLEAN : Done(p, mine, err)
<1>1. CASE Release(p)
  <2>1. Released(pods[p]) \in Version
    BY <1>1, ClientTypes, EditedPod DEF Release, UpToDate, Released, Version
  <2> QED BY <1>1, <2>1 DEF Release, Releases, Rewrites, UpToDate
<1>2. CASE ReleaseFails(p)
  <2>1. UpToDate(p) => Released(pods[p]) \in Version
    BY ClientTypes, EditedPod DEF UpToDate, Released, Version
  <2>2. cache' = cache /\ pc = "claim" /\ pc' = pc /\ p \in job.todo /\ Done(p, {}, TRUE)
    BY <1>2 DEF ReleaseFails, Releases
  <2>3. NoWrite \/ (UpToDate(p) /\ Publish(p, Released(pods[p])))
    BY <1>2 DEF ReleaseFails
  <2> QED BY <2>1, <2>2, <2>3 DEF NoWrite, Quiet, Rewrites, UpToDate
<1>3. CASE Adopt(p)
  <2>1. job.for \in Owners
    BY <1>3, ClientTypes DEF Adopt, Adopts, Job
  <2>2. Adopted(pods[p]) \in Version
    BY <1>3, <2>1, ClientTypes, EditedPod DEF Adopt, UpToDate, Adopted, Version
  <2> QED BY <1>3, <2>2 DEF Adopt, Adopts, Rewrites, UpToDate
<1>4. CASE AdoptFails(p)
  <2>1. job.for \in Owners
    BY <1>4, ClientTypes DEF AdoptFails, Adopts, Job
  <2>2. UpToDate(p) => Adopted(pods[p]) \in Version
    BY <2>1, ClientTypes, EditedPod DEF UpToDate, Adopted, Version
  <2>3. cache' = cache /\ pc = "claim" /\ pc' = pc /\ p \in job.todo /\ Done(p, {}, TRUE)
    BY <1>4 DEF AdoptFails, Adopts
  <2>4. NoWrite \/ (UpToDate(p) /\ Publish(p, Adopted(pods[p])))
    BY <1>4 DEF AdoptFails
  <2> QED BY <2>2, <2>3, <2>4 DEF NoWrite, Quiet, Rewrites, UpToDate
<1> QED BY <1>1, <1>2, <1>3, <1>4

LEMMA ScalingWrites ==
    ASSUME TypeOK, Scaling
    PROVE  (Quiet \/ Writes) /\ pc = "sync" /\ pc' = pc
<1>1. ASSUME NEW p \in Pods, CreatePod(p) PROVE Writes /\ pc = "sync" /\ pc' = pc
  <2>1. job.for \in Owners
    BY <1>1, ClientTypes DEF CreatePod, Job
  <2>2. [ctrl |-> job.for, plain |-> {}, label |-> TemplateLabel[job.for],
                ended |-> FALSE, term |-> FALSE] \in Version
    BY <2>1, OwnershipAssumption DEF Version, Pod
  <2> QED BY <1>1, <2>2 DEF CreatePod, Writes
<1>2. ASSUME NEW p \in Pods, DeletePod(p) PROVE (Quiet \/ Writes) /\ pc = "sync" /\ pc' = pc
  <2>1. [pods[p] EXCEPT !.term = TRUE] \in Version
    BY <1>2, ClientTypes, EditedPod DEF DeletePod, Version
  <2> QED BY <1>2, <2>1 DEF DeletePod, NoWrite, Quiet, Writes
<1> QED BY <1>1, <1>2 DEF Scaling

\* Every step delivers, writes, lists, restarts, or leaves the pods alone.
LEMMA StepKinds ==
    ASSUME TypeOK, [Next]_vars
    PROVE  Quiet \/ Writes \/ (\E p \in Pods : Delivers(p)) \/ Crash \/ ListPods
<1>1. CASE Worker
  <2>1. ASSUME NEW o \in Owners, FindGone(o) \/ Take(o) PROVE Quiet
    BY <2>1 DEF FindGone, Take, Quiet
  <2>2. CASE WaitForScale \/ AskToAdopt \/ EndClaims \/ EndSync
    BY <2>2 DEF WaitForScale, AskToAdopt, EndClaims, EndSync, Quiet
  <2> QED BY <1>1, <2>1, <2>2, ClaimWrites, RewritesWrite DEF Worker
<1>2. CASE Informers
  BY <1>2 DEF Informers, PodEvent, OwnerEvent, Delivers, Quiet
<1>3. CASE UNCHANGED vars
  BY <1>3 DEF vars, Quiet
<1> QED BY <1>1, <1>2, <1>3, UsersWrite, RewritesWrite, ScalingWrites DEF Next

LEMMA OrderKept ==
    ASSUME TypeOK, InOrder, [Next]_vars
    PROVE  InOrder'
<1>1. watch \in [Pods -> Seq(Version)] /\ cache \in [Pods -> Version] /\ pods \in [Pods -> Version]
  BY ClientTypes
<1>2. CASE Quiet
  BY <1>2 DEF Quiet, InOrder
<1>3. CASE Writes
  <2>1. PICK q \in Pods, v \in Version : Publish(q, v)
    BY <1>3 DEF Writes
  <2>2. Follows(cache[q], Append(watch[q], v), v)
    BY <1>1, FollowsWrite
  <2>3. /\ cache' = cache
        /\ pods' = [pods EXCEPT ![q] = v]
        /\ watch' = [watch EXCEPT ![q] = Append(watch[q], v)]
    BY <1>3, <2>1 DEF Writes, Publish
  <2> QED BY <1>1, <2>2, <2>3 DEF InOrder
<1>4. ASSUME NEW q \in Pods, Delivers(q) PROVE InOrder'
  <2>1. Follows(Head(watch[q]), Tail(watch[q]), pods[q])
    BY <1>1, <1>4, FollowsEvent DEF InOrder, Delivers
  <2> QED BY <1>1, <1>4, <2>1 DEF InOrder, Delivers
<1>5. CASE Crash
  BY <1>5 DEF Crash, InOrder, Follows
<1>6. CASE ListPods
  BY <1>6 DEF ListPods, InOrder
<1> QED BY <1>2, <1>3, <1>4, <1>5, <1>6, StepKinds

-----------------------------------------------------------------------------
(* No stealing. *)

\* What is left to claim is as the pass listed it, unless it was written since.
ClaimsAreCurrent ==
    pc = "claim" => \A p \in job.todo :
        /\ p \in Pods /\ p \notin job.mine
        /\ job.view[p] # None
        /\ job.view[p].ctrl = None \/ ~Match(job.for, job.view[p])
        /\ p \notin moved => watch[p] = <<>> /\ pods[p] = job.view[p]

ClaimInvariant == TypeOK /\ InOrder /\ ClaimsAreCurrent

LEMMA ListsCurrent ==
    ASSUME TypeOK, InOrder, ListPods
    PROVE  ClaimsAreCurrent'
<1> DEFINE view == [p \in Pods |-> IF IsActive(cache[p]) /\ IsOwned(job.for, cache[p])
                                   THEN cache[p] ELSE None]
           todo == ToRelease(view) \cup ToAdopt(view)
<1>1. job' = [job EXCEPT !.view = view, !.mine = Claimed(view), !.todo = todo]
  BY DEF ListPods
<1>2. UNCHANGED <<pods, watch>> /\ moved' = {p \in Pods : watch[p] # <<>>} /\ job \in Job
  BY ClientTypes DEF ListPods
<1>3. \A p \in todo : /\ p \in Pods /\ p \notin Claimed(view) /\ view[p] # None
                      /\ view[p].ctrl = None \/ ~Match(job.for, view[p])
  BY OwnershipAssumption, <1>2 DEF ToRelease, ToAdopt, Claimed, Existing, Job
<1>4. \A p \in todo : view[p] = cache[p]
  BY <1>3
<1> HIDE DEF view, todo
<1>5. job'.view = view /\ job'.mine = Claimed(view) /\ job'.todo = todo /\ job'.for = job.for
  BY <1>1, <1>2 DEF Job
<1>6. \A p \in todo : p \notin moved' => watch[p] = <<>> /\ pods[p] = view[p]
  BY <1>2, <1>3, <1>4 DEF InOrder, Follows
<1> QED
  BY <1>2, <1>3, <1>5, <1>6 DEF ClaimsAreCurrent, Match

\* The rest of the claims stays current whatever is written or delivered.
LEMMA ClaimsKept ==
    ASSUME TypeOK, ClaimsAreCurrent, pc = "claim",
           job'.for = job.for, job'.view = job.view, job'.todo \subseteq job.todo,
           job'.mine \cap job'.todo \subseteq job.mine,
           Quiet \/ Writes \/ \E q \in Pods : Delivers(q)
    PROVE  ClaimsAreCurrent'
<1>1. pods \in [Pods -> Version] /\ watch \in [Pods -> Seq(Version)]
  BY ClientTypes
<1>2. ASSUME NEW p \in job'.todo, p \notin moved'
      PROVE  p \notin moved /\ watch'[p] = watch[p] /\ pods'[p] = pods[p]
  <2>1. p \in Pods /\ (p \notin moved => watch[p] = <<>>)
    BY DEF ClaimsAreCurrent
  <2>2. CASE Quiet
    BY <1>2, <2>2 DEF Quiet
  <2>3. ASSUME NEW q \in Pods, NEW v \in Version, Publish(q, v)
        PROVE  p \notin moved /\ watch'[p] = watch[p] /\ pods'[p] = pods[p]
    BY <1>1, <1>2, <2>1, <2>3 DEF Publish
  <2>4. ASSUME NEW q \in Pods, Delivers(q)
        PROVE  p \notin moved /\ watch'[p] = watch[p] /\ pods'[p] = pods[p]
    BY <1>1, <1>2, <2>1, <2>4 DEF Delivers
  <2> QED BY <2>2, <2>3, <2>4 DEF Writes
<1> QED
  BY <1>2 DEF ClaimsAreCurrent, Match

LEMMA ClaimDone ==
    ASSUME TypeOK, ClaimsAreCurrent, pc = "claim", NEW p \in Pods, NEW mine \in SUBSET {p},
           NEW err \in BOOLEAN, Done(p, mine, err), Quiet \/ Writes
    PROVE  ClaimsAreCurrent'
<1>1. job \in Job
  BY ClientTypes
<1>2. /\ job'.for = job.for /\ job'.view = job.view
      /\ job'.todo = job.todo \ {p} /\ job'.mine = job.mine \cup mine
  BY <1>1 DEF Done, Job
<1> QED
  BY <1>2, ClaimsKept

LEMMA ClaimStep ==
    ASSUME ClaimInvariant, [Next]_vars
    PROVE  ClaimInvariant'
<1>1. TypeOK /\ InOrder /\ ClaimsAreCurrent
  BY DEF ClaimInvariant
<1> SUFFICES ClaimsAreCurrent'
  BY <1>1, StepType, OrderKept DEF ClaimInvariant
<1>2. ASSUME UNCHANGED <<pc, job>>, Quiet \/ Writes \/ (\E q \in Pods : Delivers(q))
      PROVE  ClaimsAreCurrent'
  <2>1. CASE pc = "claim"
    BY <1>1, <1>2, <2>1, ClaimsKept
  <2>2. CASE pc # "claim"
    BY <1>1, <1>2, <2>2 DEF ClaimsAreCurrent
  <2> QED BY <2>1, <2>2
<1>3. ASSUME pc' # "claim" PROVE ClaimsAreCurrent'
  BY <1>3 DEF ClaimsAreCurrent
<1>4. CASE Worker
  <2>1. ASSUME NEW o \in Owners, FindGone(o) \/ Take(o) PROVE ClaimsAreCurrent'
    BY <1>3, <2>1 DEF FindGone, Take
  <2>2. CASE WaitForScale \/ EndClaims \/ EndSync
    BY <1>3, <2>2 DEF WaitForScale, EndClaims, EndSync, Return
  <2>3. CASE ListPods
    BY <1>1, <2>3, ListsCurrent
  <2>4. CASE AskToAdopt
    <3>1. job \in Job /\ pc = "claim" /\ Quiet
      BY <1>1, <2>4, ClientTypes DEF AskToAdopt, Quiet
    <3>2. job'.for = job.for /\ job'.view = job.view /\ job'.todo = job.todo /\ job'.mine = job.mine
      BY <2>4, <3>1 DEF AskToAdopt, Job
    <3> QED BY <1>1, <3>1, <3>2, ClaimsKept
  <2>5. ASSUME NEW p \in Pods, Release(p) \/ ReleaseFails(p) \/ Adopt(p) \/ AdoptFails(p)
        PROVE  ClaimsAreCurrent'
    BY <1>1, <2>5, ClaimWrites, RewritesWrite, ClaimDone
  <2> QED BY <1>4, <2>1, <2>2, <2>3, <2>4, <2>5 DEF Worker
<1>5. CASE Scaling
  BY <1>1, <1>3, <1>5, ScalingWrites
<1>6. CASE Users \/ Cluster
  BY <1>1, <1>2, <1>6, UsersWrite, RewritesWrite DEF worker
<1>7. CASE Informers
  <2>1. UNCHANGED <<pc, job>> /\ (Quiet \/ (\E q \in Pods : Delivers(q)))
    BY <1>7 DEF Informers, PodEvent, OwnerEvent, Delivers, Quiet
  <2> QED BY <1>2, <2>1
<1>8. CASE Crash
  BY <1>3, <1>8 DEF Crash
<1>9. CASE UNCHANGED vars
  BY <1>2, <1>9 DEF vars, Quiet
<1> QED
  BY <1>4, <1>5, <1>6, <1>7, <1>8, <1>9 DEF Next

LEMMA ClaimInit == Init => ClaimInvariant
  BY InitType DEF ClaimInvariant, Init, InOrder, Follows, ClaimsAreCurrent

\* Who controls a pod after it was written.
LEMMA EditedControl ==
    ASSUME NEW pod \in Pod
    PROVE  /\ \A l \in Labels : [pod EXCEPT !.label = l].ctrl = pod.ctrl
           /\ [pod EXCEPT !.ctrl = None].ctrl = None
           /\ [pod EXCEPT !.ctrl = Foreign].ctrl = Foreign
           /\ [pod EXCEPT !.term = TRUE].ctrl = pod.ctrl
           /\ [pod EXCEPT !.ended = TRUE].ctrl = pod.ctrl
           /\ [pod EXCEPT !.ctrl = None, !.plain = @ \cup {pod.ctrl}].ctrl = None
           /\ \A o \in Owners : [pod EXCEPT !.plain = @ \cup {o}].ctrl = pod.ctrl
           /\ \A o \in Owners : [pod EXCEPT !.ctrl = o, !.plain = @ \ {o}].ctrl = o
           /\ \A lost \in SUBSET Owners :
                [pod EXCEPT !.plain = @ \ lost, !.ctrl = IF @ \in lost THEN None ELSE @].ctrl
                  = IF pod.ctrl \in lost THEN None ELSE pod.ctrl
<1> DEFINE c == pod.ctrl  s == pod.plain  l == pod.label  e == pod.ended  t == pod.term
<1>1. pod = [ctrl |-> c, plain |-> s, label |-> l, ended |-> e, term |-> t]
  BY PodFields
<1>2. c = pod.ctrl
  BY DEF c
<1> HIDE DEF c, s, l, e, t
<1> QED
  BY <1>1, <1>2

Undisturbed == "orphan" \notin Disturbances /\ "demote" \notin Disturbances

\* Users and the cluster give a pod to another controller or to none; only a user
\* takes it from an Inplaceu that is not being deleted.
KeepsOrLoses(p) ==
    pods[p] # None /\ pods'[p] # None =>
      /\ pods'[p].ctrl \in {pods[p].ctrl, None, Foreign}
      /\ \A o \in Owners : Undisturbed /\ owners[o] = "live" /\ pods[p].ctrl = o
                             => pods'[p].ctrl = o

LEMMA UsersControl ==
    ASSUME TypeOK, Users \/ Cluster, NEW p \in Pods
    PROVE  KeepsOrLoses(p)
<1> SUFFICES ASSUME pods[p] # None, pods'[p] # None PROVE KeepsOrLoses(p)
  BY DEF KeepsOrLoses
<1>1. pods \in [Pods -> Version] /\ pods[p] \in Pod
  BY ClientTypes DEF Version
<1>2. ASSUME NEW q \in Pods, q # p, NEW v, Edit(q, v) PROVE KeepsOrLoses(p)
  BY <1>1, <1>2 DEF Edit, Publish, KeepsOrLoses
<1>3. ASSUME NEW v, Edit(p, v), v.ctrl = pods[p].ctrl PROVE KeepsOrLoses(p)
  BY <1>1, <1>3 DEF Edit, Publish, KeepsOrLoses
<1>4. ASSUME NEW v, Edit(p, v), v.ctrl \in {None, Foreign},
             ~Undisturbed \/ pods[p].ctrl \notin Owners
      PROVE  KeepsOrLoses(p)
  BY <1>1, <1>4 DEF Edit, Publish, KeepsOrLoses
<1>5. ASSUME NEW q \in Pods, NEW l \in Labels, UserRelabels(q, l) PROVE KeepsOrLoses(p)
  <2> DEFINE v == [pods[q] EXCEPT !.label = l]
  <2>1. Edit(q, v)
    BY <1>5 DEF UserRelabels
  <2>2. q = p => v.ctrl = pods[p].ctrl
    BY <1>1, EditedControl
  <2> HIDE DEF v
  <2> QED BY <1>2, <1>3, <2>1, <2>2
<1>6. ASSUME NEW q \in Pods, UserOrphans(q) PROVE KeepsOrLoses(p)
  <2>1. ~Undisturbed /\ Edit(q, [pods[q] EXCEPT !.ctrl = None])
    BY <1>6 DEF UserOrphans, Disturb, Undisturbed
  <2> QED BY <1>1, <1>2, <1>4, <2>1, EditedControl
<1>7. ASSUME NEW q \in Pods, UserDemotes(q) PROVE KeepsOrLoses(p)
  <2> DEFINE v == [pods[q] EXCEPT !.ctrl = None, !.plain = @ \cup {pods[q].ctrl}]
  <2>1. ~Undisturbed /\ Edit(q, v)
    BY <1>7 DEF UserDemotes, Disturb, Undisturbed
  <2>2. q = p => v.ctrl = None
    BY <1>1, EditedControl
  <2> HIDE DEF v
  <2> QED BY <1>2, <1>4, <2>1, <2>2
<1>8. ASSUME NEW q \in Pods, NEW o \in Owners, UserLinks(q, o) PROVE KeepsOrLoses(p)
  <2> DEFINE v == [pods[q] EXCEPT !.plain = @ \cup {o}]
  <2>1. Edit(q, v)
    BY <1>8 DEF UserLinks
  <2>2. q = p => v.ctrl = pods[p].ctrl
    BY <1>1, EditedControl
  <2> HIDE DEF v
  <2> QED BY <1>2, <1>3, <2>1, <2>2
<1>9. ASSUME NEW q \in Pods, ForeignAdopts(q) PROVE KeepsOrLoses(p)
  <2>1. pods[q].ctrl \notin Owners /\ Edit(q, [pods[q] EXCEPT !.ctrl = Foreign])
    BY <1>9, OwnershipAssumption DEF ForeignAdopts
  <2> DEFINE v == [pods[q] EXCEPT !.ctrl = Foreign]
  <2>2. q = p => v.ctrl = Foreign
    BY <1>1, EditedControl
  <2>3. Edit(q, v)
    BY <2>1
  <2> HIDE DEF v
  <2> QED BY <1>2, <1>4, <2>1, <2>2, <2>3
<1>10. ASSUME NEW q \in Pods, Evict(q) \/ PodEnds(q) PROVE KeepsOrLoses(p)
  <2> DEFINE dead == [pods[q] EXCEPT !.term = TRUE]
             ended == [pods[q] EXCEPT !.ended = TRUE]
  <2>1. Edit(q, dead) \/ Edit(q, ended)
    BY <1>10 DEF Evict, PodEnds
  <2>2. q = p => dead.ctrl = pods[p].ctrl /\ ended.ctrl = pods[p].ctrl
    BY <1>1, EditedControl
  <2> HIDE DEF dead, ended
  <2> QED BY <1>2, <1>3, <2>1, <2>2
<1>11. ASSUME NEW q \in Pods, PodGone(q) PROVE KeepsOrLoses(p)
  BY <1>1, <1>2, <1>11 DEF PodGone, Edit, Publish, KeepsOrLoses
<1>12. ASSUME NEW q \in Pods, GarbageCollect(q) PROVE KeepsOrLoses(p)
  <2> DEFINE lost == {o \in OwnersOf(pods[q]) \cap Owners : owners[o] # "live"}
             unlinked == [pods[q] EXCEPT !.plain = @ \ lost,
                                         !.ctrl = IF @ \in lost THEN None ELSE @]
  <2>1. lost \in SUBSET Owners /\ \A o \in lost : owners[o] # "live"
    OBVIOUS
  <2>2. Edit(q, [pods[q] EXCEPT !.term = TRUE]) \/ Edit(q, unlinked)
    BY <1>12 DEF GarbageCollect
  <2>3. q = p => unlinked.ctrl = IF pods[p].ctrl \in lost THEN None ELSE pods[p].ctrl
    BY <1>1, <2>1, EditedControl
  <2> HIDE DEF lost, unlinked
  <2>4. ASSUME q = p, Edit(p, unlinked) PROVE KeepsOrLoses(p)
    <3>1. pods'[p] = unlinked
      BY <1>1, <2>4 DEF Edit, Publish
    <3> QED BY <2>1, <2>3, <2>4, <3>1 DEF KeepsOrLoses
  <2>5. [pods[p] EXCEPT !.term = TRUE].ctrl = pods[p].ctrl
    BY <1>1, EditedControl
  <2>6. CASE q = p
    <3>1. CASE Edit(p, [pods[p] EXCEPT !.term = TRUE])
      BY <1>3, <2>5, <3>1
    <3> QED BY <2>2, <2>4, <2>6, <3>1
  <2>7. CASE q # p
    BY <1>2, <2>2, <2>7
  <2> QED BY <2>6, <2>7
<1>13. ASSUME NEW o \in Owners, UserRemoves(o) \/ OwnerGone(o) PROVE KeepsOrLoses(p)
  BY <1>13 DEF UserRemoves, OwnerGone, NoWrite, KeepsOrLoses
<1> QED
  BY <1>5, <1>6, <1>7, <1>8, <1>9, <1>10, <1>11, <1>12, <1>13 DEF Users, Cluster

\* A release leaves no controller; an adoption is of a pod without one.
LEMMA ClaimControl ==
    ASSUME ClaimInvariant, NEW q \in Pods, NEW p \in Pods, pods[p] # None, pods'[p] # None,
           Release(q) \/ ReleaseFails(q) \/ Adopt(q) \/ AdoptFails(q)
    PROVE  \/ pods'[p] = pods[p]
           \/ /\ p = q /\ watch[p] = <<>> /\ job.view[p] = pods[p]
              /\ \/ ~Match(job.for, pods[p]) /\ pods[p].ctrl = job.for /\ pods'[p].ctrl = None
                 \/ pods[p].ctrl = None /\ pods'[p].ctrl = job.for
<1>1. TypeOK /\ ClaimsAreCurrent /\ pods \in [Pods -> Version] /\ pods[p] \in Pod
  BY ClientTypes DEF ClaimInvariant, Version
<1>2. pc = "claim" /\ q \in job.todo /\ job.for \in Owners
  BY <1>1, ClaimWrites, ClientTypes DEF Job
<1>3. Releases(q) => pods'[q] = pods[q] \/ (UpToDate(q) /\ pods'[q] = Released(pods[q]))
  BY <1>1, <1>2, OwnershipAssumption
     DEF Release, ReleaseFails, Adopt, AdoptFails, Releases, Adopts, Publish, NoWrite
<1>4. Adopts(q) => pods'[q] = pods[q] \/ (UpToDate(q) /\ pods'[q] = Adopted(pods[q]))
  BY <1>1, <1>2, OwnershipAssumption
     DEF Release, ReleaseFails, Adopt, AdoptFails, Releases, Adopts, Publish, NoWrite
<1>5. p # q => pods'[p] = pods[p]
  BY <1>1 DEF Release, ReleaseFails, Adopt, AdoptFails, Publish, NoWrite
<1>6. Releases(q) \/ Adopts(q)
  BY DEF Release, ReleaseFails, Adopt, AdoptFails
<1>7. UpToDate(q) => watch[q] = <<>> /\ pods[q] = job.view[q]
                     /\ (job.view[q].ctrl = None \/ ~Match(job.for, job.view[q]))
  BY <1>1, <1>2 DEF UpToDate, ClaimsAreCurrent
<1>8. p = q => Released(pods[q]).ctrl = None /\ Adopted(pods[q]).ctrl = job.for
  BY <1>1, <1>2, EditedControl DEF Released, Adopted
<1>9. job.for # None
  BY <1>2, OwnershipAssumption
<1> QED
  BY <1>3, <1>4, <1>5, <1>6, <1>7, <1>8, <1>9 DEF Releases, Adopts

LEMMA ScalingControl ==
    ASSUME TypeOK, Scaling, NEW p \in Pods, pods[p] # None, pods'[p] # None
    PROVE  pods'[p].ctrl = pods[p].ctrl
<1>1. pods \in [Pods -> Version] /\ pods[p] \in Pod
  BY ClientTypes DEF Version
<1>2. ASSUME NEW q \in Pods, CreatePod(q) PROVE pods'[p].ctrl = pods[p].ctrl
  BY <1>1, <1>2 DEF CreatePod, Unknown, Publish
<1>3. ASSUME NEW q \in Pods, DeletePod(q) PROVE pods'[p].ctrl = pods[p].ctrl
  <2> DEFINE v == [pods[q] EXCEPT !.term = TRUE]
  <2>1. NoWrite \/ Publish(q, v)
    BY <1>3 DEF DeletePod
  <2>2. q = p => v.ctrl = pods[p].ctrl
    BY <1>1, EditedControl
  <2> HIDE DEF v
  <2> QED BY <1>1, <2>1, <2>2 DEF Publish, NoWrite
<1> QED BY <1>2, <1>3 DEF Scaling

LEMMA StealsNothing ==
    ASSUME ClaimInvariant, [Next]_vars, NEW p \in Pods, pods[p] # None,
           job # None, pods'[p] # None, pods'[p].ctrl = job.for, pods[p].ctrl # job.for
    PROVE  pods[p].ctrl = None
<1>1. TypeOK /\ job.for \in Owners /\ job.for # None /\ job.for # Foreign
  BY OwnershipAssumption DEF ClaimInvariant, TypeOK, Job
<1>2. pods' # pods
  OBVIOUS
<1>3. CASE Users \/ Cluster
  BY <1>1, <1>3, UsersControl DEF KeepsOrLoses
<1>4. CASE Scaling
  BY <1>1, <1>4, ScalingControl
<1>5. ASSUME NEW q \in Pods, Release(q) \/ ReleaseFails(q) \/ Adopt(q) \/ AdoptFails(q)
      PROVE  pods[p].ctrl = None
  BY <1>1, <1>5, ClaimControl
<1>6. ASSUME NEW o \in Owners, FindGone(o) \/ Take(o) PROVE FALSE
  BY <1>2, <1>6 DEF FindGone, Take
<1>7. ~(WaitForScale \/ ListPods \/ AskToAdopt \/ EndClaims \/ EndSync)
  BY <1>2 DEF WaitForScale, ListPods, AskToAdopt, EndClaims, EndSync
<1>8. ~(Informers \/ Crash \/ UNCHANGED vars)
  BY <1>2 DEF Informers, PodEvent, OwnerEvent, Crash, vars
<1> QED
  BY <1>3, <1>4, <1>5, <1>6, <1>7, <1>8 DEF Next, Worker

\* However old the copy a pass claims, and whatever users, other controllers and
\* the garbage collector do meanwhile, it takes no pod from a controller.
THEOREM NothingIsStolen == Spec => NoStealing
<1>1. Spec => []ClaimInvariant
  BY ClaimInit, ClaimStep, PTL DEF Spec
<1>2. ClaimInvariant /\ [Next]_vars
        => [\A p \in Existing(pods) :
              /\ job # None /\ pods'[p] # None
              /\ pods'[p].ctrl = job.for /\ pods[p].ctrl # job.for
              => pods[p].ctrl = None]_vars
  BY StealsNothing DEF Existing
<1> QED
  BY <1>1, <1>2, PTL DEF Spec, NoStealing

-----------------------------------------------------------------------------
(* Deletions. *)

\* What the pass of an Inplaceu claims without a call.
Claims(o, v) == v # None /\ v.ctrl = o /\ Match(o, v)
Keeps(o, v) == v # None => v.ctrl = o

\* A version that o claims is followed only by versions that o controls.
Inherits(o, cached, sent) ==
    /\ Claims(o, cached) => \A j \in 1 .. Len(sent) : Keeps(o, sent[j])
    /\ \A i, j \in 1 .. Len(sent) : i < j /\ Claims(o, sent[i]) => Keeps(o, sent[j])

LEMMA InheritsEvent ==
    ASSUME NEW o, NEW cached, NEW sent \in Seq(Version), sent # <<>>, Inherits(o, cached, sent)
    PROVE  Inherits(o, Head(sent), Tail(sent))
<1>1. /\ Len(sent) \in Nat /\ Len(sent) > 0 /\ Len(Tail(sent)) = Len(sent) - 1
      /\ Head(sent) = sent[1]
  OBVIOUS
<1>2. \A j \in 1 .. Len(Tail(sent)) : Tail(sent)[j] = sent[j + 1]
  BY HeadTailProperties
<1>3. ASSUME Claims(o, Head(sent)), NEW j \in 1 .. Len(Tail(sent)) PROVE Keeps(o, Tail(sent)[j])
  <2>1. 1 \in 1 .. Len(sent) /\ j + 1 \in 1 .. Len(sent) /\ 1 < j + 1
    BY <1>1
  <2> QED BY <1>1, <1>2, <1>3, <2>1 DEF Inherits
<1>4. ASSUME NEW i \in 1 .. Len(Tail(sent)), NEW j \in 1 .. Len(Tail(sent)), i < j,
             Claims(o, Tail(sent)[i])
      PROVE  Keeps(o, Tail(sent)[j])
  <2>1. i + 1 \in 1 .. Len(sent) /\ j + 1 \in 1 .. Len(sent) /\ i + 1 < j + 1
    BY <1>1, <1>4
  <2> QED BY <1>2, <1>4, <2>1 DEF Inherits
<1> QED BY <1>3, <1>4 DEF Inherits

\* A write passes control on: the pod was there, and o keeps it if it had it.
LEMMA InheritsWrite ==
    ASSUME NEW o, NEW cached, NEW sent \in Seq(Version), NEW current, NEW v \in Version,
           Inherits(o, cached, sent), Follows(cached, sent, current), current # None,
           current.ctrl = o => Keeps(o, v)
    PROVE  Inherits(o, cached, Append(sent, v))
<1> DEFINE n == Len(sent)
<1>1. n \in Nat /\ Len(Append(sent, v)) = n + 1 /\ Append(sent, v)[n + 1] = v
  OBVIOUS
<1>2. \A j \in 1 .. n : Append(sent, v)[j] = sent[j]
  OBVIOUS
<1>3. sent = <<>> => current = cached
  BY DEF Follows
<1>4. sent # <<>> => n \in 1 .. n /\ current = sent[n]
  BY DEF Follows
<1> HIDE DEF n
<1>5. Claims(o, cached) => Keeps(o, v)
  BY <1>3, <1>4 DEF Inherits, Claims, Keeps, n
<1>6. ASSUME NEW i \in 1 .. n, Claims(o, sent[i]) PROVE Keeps(o, v)
  <2>1. n \in 1 .. n /\ current = sent[n]
    BY <1>1, <1>4, <1>6 DEF n
  <2>2. CASE i = n
    BY <1>6, <2>1, <2>2 DEF Claims
  <2>3. CASE i # n
    <3>1. i < n
      BY <1>1, <2>3
    <3>2. Keeps(o, sent[n])
      BY <1>6, <2>1, <3>1 DEF Inherits, n
    <3> QED BY <2>1, <3>2 DEF Keeps
  <2> QED BY <2>2, <2>3
<1>7. ASSUME Claims(o, cached), NEW j \in 1 .. (n + 1) PROVE Keeps(o, Append(sent, v)[j])
  <2>1. CASE j = n + 1
    BY <1>1, <1>5, <1>7, <2>1
  <2>2. CASE j # n + 1
    <3>1. j \in 1 .. n
      BY <1>1, <2>2
    <3> QED BY <1>2, <1>7, <3>1 DEF Inherits, n
  <2> QED BY <2>1, <2>2
<1>8. ASSUME NEW i \in 1 .. (n + 1), NEW j \in 1 .. (n + 1), i < j, Claims(o, Append(sent, v)[i])
      PROVE  Keeps(o, Append(sent, v)[j])
  <2>1. i \in 1 .. n /\ Claims(o, sent[i])
    <3>1. i \in 1 .. n
      BY <1>1, <1>8
    <3> QED BY <1>2, <1>8, <3>1
  <2>2. CASE j = n + 1
    BY <1>1, <1>6, <2>1, <2>2
  <2>3. CASE j # n + 1
    <3>1. j \in 1 .. n
      BY <1>1, <2>3
    <3> QED BY <1>2, <1>8, <2>1, <3>1 DEF Inherits, n
  <2> QED BY <2>2, <2>3
<1> QED BY <1>1, <1>7, <1>8 DEF Inherits

\* So does any write after versions that o does not claim.
LEMMA InheritsNothing ==
    ASSUME NEW o, NEW cached, ~Claims(o, cached), NEW v \in Version
    PROVE  Inherits(o, cached, Append(<<>>, v))
<1>1. Append(<<>>, v) = <<v>> /\ Len(<<v>>) = 1
  OBVIOUS
<1> QED BY <1>1 DEF Inherits

\* What o claims of the cache, o controls.
LEMMA ClaimedIsOwn ==
    ASSUME NEW o, NEW cached, NEW sent \in Seq(Version), NEW current,
           Follows(cached, sent, current), Inherits(o, cached, sent), Claims(o, cached)
    PROVE  Keeps(o, current)
<1>1. sent # <<>> => Len(sent) \in 1 .. Len(sent)
  OBVIOUS
<1> QED BY <1>1 DEF Follows, Inherits, Claims, Keeps

Inherited ==
    \A o \in Owners, p \in Pods : owners[o] = "live" => Inherits(o, cache[p], watch[p])

MineIsOwn ==
    pc \in {"claim", "sync"} /\ owners[job.for] = "live" =>
        \A p \in job.mine : Keeps(job.for, pods[p])

OwnInvariant == ClaimInvariant /\ Inherited /\ MineIsOwn

\* An Inplaceu that is being deleted does not come back.
LEMMA OwnersDie ==
    ASSUME TypeOK, [Next]_vars, NEW o \in Owners, owners'[o] = "live"
    PROVE  owners[o] = "live"
<1>1. ASSUME NEW r \in Owners, UserRemoves(r) \/ OwnerGone(r) PROVE owners[o] = "live"
  BY <1>1 DEF UserRemoves, OwnerGone, TypeOK
<1>2. CASE owners' = owners
  BY <1>2
<1>3. Worker \/ Scaling \/ Informers \/ Crash \/ UNCHANGED vars => owners' = owners
  BY DEF Worker, Scaling, Informers, FindGone, Take, WaitForScale, ListPods, AskToAdopt, EndClaims,
         EndSync, Release, ReleaseFails, Adopt, AdoptFails, CreatePod, DeletePod, PodEvent,
         OwnerEvent, Crash, vars
<1>4. ASSUME NEW p \in Pods, PodEnds(p) \/ PodGone(p) \/ GarbageCollect(p) PROVE owners' = owners
  BY <1>4 DEF PodEnds, PodGone, GarbageCollect, Edit
<1>5. ASSUME NEW p \in Pods,
             \/ \E l \in Labels : UserRelabels(p, l)
             \/ UserOrphans(p) \/ UserDemotes(p)
             \/ \E r \in Owners : UserLinks(p, r)
             \/ ForeignAdopts(p) \/ Evict(p)
      PROVE  owners' = owners
  BY <1>5 DEF UserRelabels, UserOrphans, UserDemotes, UserLinks, ForeignAdopts, Evict, Edit
<1> QED
  BY <1>1, <1>2, <1>3, <1>4, <1>5 DEF Next, Users, Cluster

\* A write of a pod that is there passes control on, or follows nothing o claims.
PassesOn(o, p) ==
    pods[p] # None /\ pods'[p] # None =>
      \/ pods[p].ctrl = o => pods'[p].ctrl = o
      \/ watch[p] = <<>> /\ ~Claims(o, cache[p])

LEMMA RewriteInherits ==
    ASSUME TypeOK, InOrder, Inherited, Rewrites,
           \A o \in Owners : owners'[o] = "live" => owners[o] = "live",
           \A o \in Owners, p \in Pods : owners[o] = "live" => PassesOn(o, p)
    PROVE  Inherited'
<1>1. PICK q \in Pods, v \in Version : pods[q] # None /\ Publish(q, v)
  BY DEF Rewrites
<1>2. watch \in [Pods -> Seq(Version)] /\ pods \in [Pods -> Version]
  BY ClientTypes
<1>3. /\ cache' = cache /\ pods'[q] = v
      /\ watch' = [watch EXCEPT ![q] = Append(watch[q], v)]
  BY <1>1, <1>2 DEF Rewrites, Publish
<1>4. ASSUME NEW o \in Owners, owners[o] = "live"
      PROVE  Inherits(o, cache[q], Append(watch[q], v))
  <2>1. Inherits(o, cache[q], watch[q]) /\ Follows(cache[q], watch[q], pods[q])
    BY <1>4 DEF Inherited, InOrder
  <2>2. CASE pods[q].ctrl = o => Keeps(o, v)
    BY <1>1, <1>2, <2>1, <2>2, InheritsWrite
  <2>3. CASE ~(pods[q].ctrl = o => Keeps(o, v))
    <3>1. watch[q] = <<>> /\ ~Claims(o, cache[q])
      BY <1>1, <1>3, <1>4, <2>3 DEF PassesOn, Keeps
    <3> QED BY <3>1, InheritsNothing
  <2> QED BY <2>2, <2>3
<1>5. ASSUME NEW o \in Owners, NEW p \in Pods, owners'[o] = "live"
      PROVE  Inherits(o, cache'[p], watch'[p])
  <2>1. owners[o] = "live"
    BY <1>5
  <2>2. CASE p = q
    BY <1>2, <1>3, <1>4, <2>1, <2>2
  <2>3. CASE p # q
    BY <1>2, <1>3, <2>1, <2>3 DEF Inherited
  <2> QED BY <2>2, <2>3
<1> QED
  BY <1>5 DEF Inherited

LEMMA ClaimsPassOn ==
    ASSUME ClaimInvariant, NEW q \in Pods, NEW p \in Pods, NEW o \in Owners,
           Release(q) \/ ReleaseFails(q) \/ Adopt(q) \/ AdoptFails(q)
    PROVE  PassesOn(o, p)
<1> SUFFICES ASSUME pods[p] # None, pods'[p] # None, pods'[p] # pods[p] PROVE PassesOn(o, p)
  BY DEF PassesOn
<1>1. /\ watch[p] = <<>>
      /\ (pods[p].ctrl = job.for /\ ~Match(job.for, pods[p])) \/ pods[p].ctrl = None
  BY ClaimControl
<1>2. cache[p] = pods[p] /\ o # None
  BY <1>1, OwnershipAssumption DEF ClaimInvariant, InOrder, Follows
<1>3. ~Claims(o, cache[p])
  BY <1>1, <1>2 DEF Claims
<1> QED
  BY <1>1, <1>3 DEF PassesOn

LEMMA InheritedStep ==
    ASSUME Undisturbed, OwnInvariant, [Next]_vars
    PROVE  Inherited'
<1>1. TypeOK /\ InOrder /\ ClaimInvariant /\ Inherited
  BY DEF OwnInvariant, ClaimInvariant
<1>2. watch \in [Pods -> Seq(Version)] /\ cache \in [Pods -> Version] /\ pods \in [Pods -> Version]
  BY <1>1, ClientTypes
<1>3. \A o \in Owners : owners'[o] = "live" => owners[o] = "live"
  BY <1>1, OwnersDie
<1>4. CASE UNCHANGED <<watch, cache>>
  BY <1>1, <1>3, <1>4 DEF Inherited
<1>5. CASE Users \/ Cluster
  <2>1. \A o \in Owners, p \in Pods : owners[o] = "live" => PassesOn(o, p)
    BY <1>1, <1>5, UsersControl DEF KeepsOrLoses, PassesOn
  <2>2. CASE Rewrites
    BY <1>1, <1>3, <2>1, <2>2, RewriteInherits
  <2> QED BY <1>1, <1>4, <1>5, <2>2, UsersWrite DEF Quiet
<1>6. ASSUME NEW q \in Pods, Release(q) \/ ReleaseFails(q) \/ Adopt(q) \/ AdoptFails(q)
      PROVE  Inherited'
  <2>1. \A o \in Owners, p \in Pods : PassesOn(o, p)
    BY <1>1, <1>6, ClaimsPassOn
  <2>2. CASE Rewrites
    BY <1>1, <1>3, <2>1, <2>2, RewriteInherits
  <2> QED BY <1>1, <1>4, <1>6, <2>2, ClaimWrites DEF Quiet
<1>7. ASSUME NEW q \in Pods, DeletePod(q) PROVE Inherited'
  <2>1. \A o \in Owners, p \in Pods : PassesOn(o, p)
    BY <1>1, <1>7, ScalingControl DEF Scaling, PassesOn
  <2>2. pods[q] \in Pod
    BY <1>2, <1>7 DEF DeletePod, Version
  <2>3. [pods[q] EXCEPT !.term = TRUE] \in Version
    BY <2>2, EditedPod DEF Version
  <2>4. Rewrites \/ UNCHANGED <<watch, cache>>
    BY <1>7, <2>3 DEF DeletePod, Rewrites, NoWrite
  <2> QED BY <1>1, <1>3, <1>4, <2>1, <2>4, RewriteInherits
<1>8. ASSUME NEW q \in Pods, CreatePod(q) PROVE Inherited'
  <2>1. watch[q] = <<>> /\ cache[q] = None /\ cache' = cache
    BY <1>8 DEF CreatePod, Unknown
  <2>2. job.for \in Owners
    BY <1>1, <1>8, ClientTypes DEF CreatePod, Job
  <2> DEFINE v == [ctrl |-> job.for, plain |-> {}, label |-> TemplateLabel[job.for],
                ended |-> FALSE, term |-> FALSE]
  <2>3. v \in Version
    BY <2>2, OwnershipAssumption DEF Version, Pod
  <2>4. watch' = [watch EXCEPT ![q] = Append(watch[q], v)]
    BY <1>8 DEF CreatePod, Publish
  <2> HIDE DEF v
  <2>5. \A o \in Owners : Inherits(o, cache[q], Append(<<>>, v))
    BY <2>1, <2>3, InheritsNothing DEF Claims
  <2> QED BY <1>1, <1>2, <1>3, <2>1, <2>4, <2>5 DEF Inherited
<1>9. ASSUME NEW q \in Pods, PodEvent(q) PROVE Inherited'
  <2>1. /\ watch[q] # <<>>
        /\ cache' = [cache EXCEPT ![q] = Head(watch[q])]
        /\ watch' = [watch EXCEPT ![q] = Tail(watch[q])]
    BY <1>9 DEF PodEvent
  <2>2. \A o \in Owners : owners[o] = "live" => Inherits(o, Head(watch[q]), Tail(watch[q]))
    BY <1>1, <1>2, <2>1, InheritsEvent DEF Inherited
  <2> QED BY <1>1, <1>2, <1>3, <2>1, <2>2 DEF Inherited
<1>10. CASE Crash
  <2>1. \A p \in Pods : watch'[p] = <<>>
    BY <1>10 DEF Crash
  <2> QED BY <2>1 DEF Inherited, Inherits
<1>11. ASSUME NEW o \in Owners, FindGone(o) \/ Take(o) \/ OwnerEvent(o) PROVE Inherited'
  BY <1>4, <1>11 DEF FindGone, Take, OwnerEvent
<1>12. CASE WaitForScale \/ ListPods \/ AskToAdopt \/ EndClaims \/ EndSync \/ UNCHANGED vars
  BY <1>4, <1>12 DEF WaitForScale, ListPods, AskToAdopt, EndClaims, EndSync, vars
<1> QED
  BY <1>5, <1>6, <1>7, <1>8, <1>9, <1>10, <1>11, <1>12 DEF Next, Worker, Scaling, Informers

\* The pods a pass has claimed stay its own while it deletes some of them.
LEMMA MineKept ==
    ASSUME MineIsOwn, pc \in {"claim", "sync"}, job'.for = job.for,
           owners'[job.for] = "live" => owners[job.for] = "live",
           \A p \in job'.mine :
              \/ p \in job.mine /\ (owners[job.for] = "live" /\ Keeps(job.for, pods[p])
                                      => Keeps(job.for, pods'[p]))
              \/ Keeps(job.for, pods'[p])
    PROVE  MineIsOwn'
  BY DEF MineIsOwn, Keeps

LEMMA MineStep ==
    ASSUME Undisturbed, OwnInvariant, [Next]_vars
    PROVE  MineIsOwn'
<1>1. TypeOK /\ InOrder /\ ClaimsAreCurrent /\ ClaimInvariant /\ Inherited /\ MineIsOwn
  BY DEF OwnInvariant, ClaimInvariant
<1>2. /\ watch \in [Pods -> Seq(Version)] /\ cache \in [Pods -> Version]
      /\ pods \in [Pods -> Version] /\ (pc # "idle" => job \in Job /\ job.for \in Owners)
  BY <1>1, ClientTypes DEF Job
<1>3. \A o \in Owners : owners'[o] = "live" => owners[o] = "live"
  BY <1>1, OwnersDie
<1>4. ASSUME pc' \notin {"claim", "sync"} PROVE MineIsOwn'
  BY <1>4 DEF MineIsOwn
<1>5. ASSUME pc' = pc, job' = job, UNCHANGED pods PROVE MineIsOwn'
  <2>1. CASE pc \in {"claim", "sync"}
    BY <1>1, <1>2, <1>3, <1>5, <2>1, MineKept
  <2> QED BY <1>4, <1>5, <2>1
<1>6. CASE Users \/ Cluster
  <2>1. UNCHANGED <<pc, job>> /\ (Quiet \/ Rewrites)
    BY <1>1, <1>6, UsersWrite DEF worker
  <2>2. CASE pc \in {"claim", "sync"} /\ Rewrites
    <3>1. ASSUME NEW p \in Pods, owners[job.for] = "live", Keeps(job.for, pods[p])
          PROVE  Keeps(job.for, pods'[p])
      <4>1. pods[p] = None => pods'[p] = None
        BY <1>2, <2>2 DEF Rewrites, Publish
      <4> QED BY <1>1, <1>2, <1>6, <2>2, <3>1, <4>1, UsersControl DEF KeepsOrLoses, Keeps
    <3>2. job.mine \subseteq Pods
      BY <1>2, <2>2 DEF Job
    <3> QED BY <1>1, <1>2, <1>3, <2>1, <2>2, <3>1, <3>2, MineKept
  <2> QED BY <1>4, <1>5, <2>1, <2>2 DEF Quiet
<1>7. ASSUME NEW q \in Pods, Release(q) \/ ReleaseFails(q) \/ Adopt(q) \/ AdoptFails(q)
      PROVE  MineIsOwn'
  <2>1. pc = "claim" /\ pc' = pc /\ q \in job.todo /\ q \notin job.mine
    BY <1>1, <1>7, ClaimWrites DEF ClaimsAreCurrent
  <2>2. \A p \in job.mine : pods'[p] = pods[p]
    <3>1. pods' = pods \/ \E v : pods' = [pods EXCEPT ![q] = v]
      BY <1>7 DEF Release, ReleaseFails, Adopt, AdoptFails, Publish, NoWrite
    <3>2. job.mine \subseteq Pods
      BY <1>2, <2>1 DEF Job
    <3> QED BY <1>2, <2>1, <3>1, <3>2
  <2>3. ASSUME ~Adopt(q) PROVE job'.mine = job.mine /\ job'.for = job.for
    <3>1. \E err \in BOOLEAN : Done(q, {}, err)
      BY <1>7, <2>3 DEF Release, ReleaseFails, AdoptFails
    <3> QED BY <1>2, <2>1, <3>1 DEF Done, Job
  <2>4. ASSUME Adopt(q)
        PROVE  job'.mine = job.mine \cup {q} /\ job'.for = job.for /\ Keeps(job.for, pods'[q])
    <3>1. job'.mine = job.mine \cup {q} /\ job'.for = job.for
      BY <1>2, <2>1, <2>4 DEF Adopt, Done, Job
    <3>2. pods'[q] = Adopted(pods[q]) /\ pods[q] \in Pod
      BY <1>2, <2>4 DEF Adopt, Publish, UpToDate, Version
    <3>3. Adopted(pods[q]).ctrl = job.for
      BY <1>2, <2>1, <3>2, EditedControl DEF Adopted
    <3> QED BY <3>1, <3>2, <3>3 DEF Keeps
  <2> QED BY <1>1, <1>2, <1>3, <2>1, <2>2, <2>3, <2>4, MineKept
<1>8. ASSUME NEW q \in Pods, CreatePod(q) PROVE MineIsOwn'
  <2>1. pc = "sync" /\ pc' = pc /\ job' = job /\ pods[q] = None
    BY <1>8 DEF CreatePod, Unknown
  <2>2. \A p \in Pods : p # q => pods'[p] = pods[p]
    BY <1>2, <1>8 DEF CreatePod, Publish
  <2>3. pods'[q].ctrl = job.for
    BY <1>2, <1>8 DEF CreatePod, Publish
  <2>4. job.mine \subseteq Pods
    BY <1>2, <2>1 DEF Job
  <2> QED BY <1>1, <1>2, <1>3, <2>1, <2>2, <2>3, <2>4, MineKept DEF Keeps
<1>9. ASSUME NEW q \in Pods, DeletePod(q) PROVE MineIsOwn'
  <2>1. pc = "sync" /\ pc' = pc /\ pods[q] # None
    BY <1>9 DEF DeletePod
  <2>2. job'.mine \subseteq job.mine /\ job'.for = job.for /\ job.mine \subseteq Pods
    BY <1>2, <1>9, <2>1 DEF DeletePod, Job
  <2>3. \A p \in Pods : pods[p] = None => pods'[p] = None
    BY <1>2, <1>9, <2>1 DEF DeletePod, Publish, NoWrite
  <2>4. \A p \in Pods : Keeps(job.for, pods[p]) => Keeps(job.for, pods'[p])
    BY <1>1, <1>9, <2>3, ScalingControl DEF Scaling, Keeps
  <2> QED BY <1>1, <1>2, <1>3, <2>1, <2>2, <2>4, MineKept
<1>10. CASE ListPods
  <2> DEFINE view == [p \in Pods |-> IF IsActive(cache[p]) /\ IsOwned(job.for, cache[p])
                                     THEN cache[p] ELSE None]
  <2>1. pc = "list" /\ UNCHANGED <<pods, owners>>
    BY <1>10 DEF ListPods
  <2>2. job'.mine = Claimed(view) /\ job'.for = job.for
    BY <1>2, <1>10 DEF ListPods, Job
  <2>3. ASSUME NEW p \in Claimed(view) PROVE p \in Pods /\ Claims(job.for, cache[p])
    BY DEF Claimed, Existing, Claims
  <2> HIDE DEF view
  <2>4. ASSUME owners[job.for] = "live", NEW p \in job'.mine PROVE Keeps(job.for, pods[p])
    <3>1. p \in Pods /\ Claims(job.for, cache[p])
      BY <2>2, <2>3
    <3>2. /\ Follows(cache[p], watch[p], pods[p])
          /\ Inherits(job.for, cache[p], watch[p])
      BY <1>1, <1>2, <2>1, <2>4, <3>1 DEF InOrder, Inherited
    <3> QED BY <1>2, <3>1, <3>2, ClaimedIsOwn
  <2> QED BY <2>1, <2>2, <2>4 DEF MineIsOwn
<1>11. CASE AskToAdopt
  <2>1. pc = "claim" /\ pc' = pc /\ UNCHANGED pods
    BY <1>11 DEF AskToAdopt
  <2>2. job'.mine = job.mine /\ job'.for = job.for
    BY <1>2, <1>11, <2>1 DEF AskToAdopt, Job
  <2> QED BY <1>1, <1>2, <1>3, <2>1, <2>2, MineKept
<1>12. CASE EndClaims
  <2>1. CASE job.err
    BY <1>4, <1>12, <2>1 DEF EndClaims, Return
  <2>2. CASE ~job.err
    <3>1. pc = "claim" /\ pc' = "sync" /\ UNCHANGED <<job, pods, owners>>
      BY <1>12, <2>2 DEF EndClaims
    <3> QED BY <1>1, <3>1 DEF MineIsOwn
  <2> QED BY <2>1, <2>2
<1>13. ASSUME NEW o \in Owners, FindGone(o) \/ Take(o) PROVE MineIsOwn'
  BY <1>4, <1>13 DEF FindGone, Take
<1>14. CASE WaitForScale \/ EndSync \/ Crash
  BY <1>4, <1>14 DEF WaitForScale, EndSync, Return, Crash
<1>15. CASE Informers \/ UNCHANGED vars
  BY <1>5, <1>15 DEF Informers, PodEvent, OwnerEvent, vars
<1> QED
  BY <1>6, <1>7, <1>8, <1>9, <1>10, <1>11, <1>12, <1>13, <1>14, <1>15
     DEF Next, Worker, Scaling

LEMMA OwnInit == Init => OwnInvariant
<1> SUFFICES ASSUME Init PROVE OwnInvariant
  OBVIOUS
<1>1. \A p \in Pods : watch[p] = <<>>
  BY DEF Init
<1> QED
  BY <1>1, ClaimInit DEF OwnInvariant, Inherited, Inherits, MineIsOwn, Init

LEMMA OwnStep == Undisturbed /\ OwnInvariant /\ [Next]_vars => OwnInvariant'
  BY InheritedStep, MineStep, ClaimStep DEF OwnInvariant

\* What is awaited anew is the outcome of the call that is made.
LEMMA AwaitedAnew ==
    ASSUME TypeOK, [Next]_vars, NEW o \in Owners, NEW w, w \in exp'[o], w \notin exp[o]
    PROVE  \E p \in Pods : /\ o = job.for /\ pc' = pc /\ job.owner = "live"
                           /\ \/ CreatePod(p) /\ w = <<"create", p>>
                              \/ DeletePod(p) /\ w = <<"delete", p>>
<1>1. exp \in [Owners -> SUBSET ({"create", "delete"} \X Pods)] /\ exp' # exp
  BY DEF TypeOK
<1>2. ASSUME NEW q \in Pods, DeletePod(q)
      PROVE  o = job.for /\ w = <<"delete", q>> /\ pc' = pc /\ job.owner = "live"
  <2>1. /\ exp' = [exp EXCEPT ![job.for] = exp[job.for] \cup {<<"delete", q>>}]
        /\ pc' = pc /\ job.owner = "live"
    BY <1>2 DEF DeletePod
  <2> QED BY <1>1, <2>1
<1>3. ASSUME NEW q \in Pods, CreatePod(q)
      PROVE  o = job.for /\ w = <<"create", q>> /\ pc' = pc /\ job.owner = "live"
  <2>1. /\ exp' = [exp EXCEPT ![job.for] = exp[job.for] \cup {<<"create", q>>}]
        /\ pc' = pc /\ job.owner = "live"
    BY <1>3 DEF CreatePod
  <2> QED BY <1>1, <2>1
<1>4. ASSUME NEW q \in Pods, PodEvent(q) PROVE FALSE
  BY <1>1, <1>4 DEF PodEvent
<1>5. ASSUME NEW r \in Owners, FindGone(r) PROVE FALSE
  BY <1>1, <1>5 DEF FindGone
<1>6. ~Crash
  BY DEF Crash
<1>7. ASSUME NEW q \in Pods, Release(q) \/ ReleaseFails(q) \/ Adopt(q) \/ AdoptFails(q) PROVE FALSE
  BY <1>1, <1>7 DEF Release, ReleaseFails, Adopt, AdoptFails
<1>8. ASSUME NEW r \in Owners, Take(r) \/ OwnerEvent(r) PROVE FALSE
  BY <1>1, <1>8 DEF Take, OwnerEvent
<1>9. ~(WaitForScale \/ ListPods \/ AskToAdopt \/ EndClaims \/ EndSync \/ UNCHANGED vars)
  BY <1>1 DEF WaitForScale, ListPods, AskToAdopt, EndClaims, EndSync, vars
<1>10. ~(Users \/ Cluster)
  BY <1>1, UsersWrite DEF worker
<1> QED
  BY <1>2, <1>3, <1>4, <1>5, <1>6, <1>7, <1>8, <1>9, <1>10 DEF Next, Worker, Scaling, Informers

\* Only the deletion of a pod adds an expected deletion.
LEMMA DeletesItsOwn ==
    ASSUME OwnInvariant, [Next]_vars, NEW o \in Owners, NEW p \in Pods, pods[p] # None,
           owners[o] = "live", <<"delete", p>> \in exp'[o], <<"delete", p>> \notin exp[o]
    PROVE  pods[p].ctrl = o
<1>1. TypeOK /\ MineIsOwn
  BY DEF OwnInvariant, ClaimInvariant
<1>2. o = job.for /\ DeletePod(p)
  BY <1>1, AwaitedAnew
<1>3. pc = "sync" /\ p \in job.mine
  BY <1>2 DEF DeletePod
<1> QED BY <1>1, <1>2, <1>3 DEF MineIsOwn, Keeps

\* As long as no user takes pods from an Inplaceu, its passes delete only pods it
\* controls at that moment, however far the list they work on is behind.
THEOREM OnlyOwnPodsAreDeleted ==
    ASSUME Undisturbed
    PROVE  Spec => DeletesOwnPods
<1>1. Spec => []OwnInvariant
  <2>1. OwnInvariant /\ [Next]_vars => OwnInvariant'
    BY OwnStep
  <2> QED BY OwnInit, <2>1, PTL DEF Spec
<1>2. OwnInvariant /\ [Next]_vars
        => [\A o \in Owners, p \in Existing(pods) :
              owners[o] = "live" /\ <<"delete", p>> \in exp'[o] \ exp[o] => pods[p].ctrl = o]_vars
  BY DeletesItsOwn DEF Existing
<1> QED
  BY <1>1, <1>2, PTL DEF Spec, DeletesOwnPods

-----------------------------------------------------------------------------
(* What is awaited will come. *)

\* What the cache and the worker know of an Inplaceu that is not being deleted.
LiveIsSeen ==
    \A o \in Owners : owners[o] = "live" =>
        ownerCache[o] = "live" /\ (pc # "idle" /\ job.for = o => job.owner = "live")

\* An Inplaceu that is gone, and was seen to be, is forgotten with its next pass.
GoneIsForgotten ==
    \A o \in Owners : ownerCache[o] = "gone" =>
        o \in queued \/ (exp[o] = {} /\ ~(pc # "idle" /\ job.for = o))

\* A creation that is awaited is the next version of the pod.
CreateAwaited ==
    \A o \in Owners, p \in Pods : <<"create", p>> \in exp[o] =>
        /\ cache[p] = None /\ watch[p] # <<>>
        /\ Remains(Head(watch[p])) /\ Head(watch[p]).ctrl = o

\* The version that the i-th under way replaces.
Before(cached, sent, i) == IF i = 1 THEN cached ELSE sent[i - 1]

BeforeLast(cached, sent) == Before(cached, sent, Len(sent))

\* A pod whose deletion is awaited is terminating, under its Inplaceu, or was when it
\* went, which the cache has not been told.
DeleteAwaited ==
    \A o \in Owners, p \in Pods : <<"delete", p>> \in exp[o] /\ owners[o] = "live" =>
        \/ pods[p] # None /\ pods[p].term /\ pods[p].ctrl = o
        \/ /\ pods[p] = None /\ watch[p] # <<>>
           /\ BeforeLast(cache[p], watch[p]) # None /\ BeforeLast(cache[p], watch[p]).ctrl = o

\* Passes claim active pods.
TodoIsActive == pc = "claim" => \A p \in job.todo : IsActive(job.view[p])

AwaitInvariant ==
    OwnInvariant /\ LiveIsSeen /\ GoneIsForgotten /\ CreateAwaited /\ DeleteAwaited /\ TodoIsActive

LEMMA BeforeEvent ==
    ASSUME NEW sent \in Seq(Version), sent # <<>>, NEW cached, NEW i \in 1 .. Len(Tail(sent))
    PROVE  /\ i + 1 \in 1 .. Len(sent)
           /\ Tail(sent)[i] = sent[i + 1]
           /\ Before(Head(sent), Tail(sent), i) = Before(cached, sent, i + 1)
<1>1. /\ Len(sent) \in Nat /\ Len(Tail(sent)) = Len(sent) - 1 /\ Head(sent) = sent[1]
      /\ i \in Nat /\ i >= 1 /\ i <= Len(sent) - 1
  OBVIOUS
<1>2. \A j \in 1 .. Len(Tail(sent)) : Tail(sent)[j] = sent[j + 1]
  BY HeadTailProperties
<1>3. i + 1 \in 1 .. Len(sent) /\ i + 1 # 1 /\ (i + 1) - 1 = i
  BY <1>1
<1>4. Before(cached, sent, i + 1) = sent[i]
  BY <1>3 DEF Before
<1>5. CASE i = 1
  BY <1>1, <1>2, <1>3, <1>4, <1>5 DEF Before
<1>6. CASE i # 1
  <2>1. i - 1 \in 1 .. Len(Tail(sent)) /\ (i - 1) + 1 = i
    BY <1>1, <1>6
  <2>2. Tail(sent)[i - 1] = sent[i]
    BY <1>2, <2>1
  <2> QED BY <1>2, <1>3, <1>4, <1>6, <2>2 DEF Before
<1> QED BY <1>5, <1>6

LEMMA BeforeLastEvent ==
    ASSUME NEW sent \in Seq(Version), sent # <<>>, Len(sent) # 1, NEW cached
    PROVE  /\ Tail(sent) # <<>>
           /\ BeforeLast(Head(sent), Tail(sent)) = BeforeLast(cached, sent)
<1>1. Len(sent) \in Nat /\ Len(sent) > 1 /\ Len(Tail(sent)) = Len(sent) - 1
  <2>1. Len(sent) \in Nat /\ Len(sent) # 0
    BY EmptySeq
  <2>2. Tail(sent) \in Seq(Version) /\ Len(Tail(sent)) = Len(sent) - 1
    BY HeadTailProperties
  <2> QED BY <2>1, <2>2
<1>2. Tail(sent) # <<>> /\ Len(Tail(sent)) \in 1 .. Len(Tail(sent))
  <2> DEFINE n == Len(Tail(sent))
  <2>1. n \in Nat /\ n >= 1
    BY <1>1
  <2>2. Tail(sent) = <<>> => n = 0
    BY EmptySeq
  <2> HIDE DEF n
  <2>3. Tail(sent) # <<>> /\ n \in 1 .. n
    BY <2>1, <2>2
  <2> QED BY <2>3 DEF n
<1>3. Len(Tail(sent)) + 1 = Len(sent)
  BY <1>1
<1>4. Before(Head(sent), Tail(sent), Len(Tail(sent))) = Before(cached, sent, Len(Tail(sent)) + 1)
  BY <1>2, BeforeEvent
<1> QED BY <1>2, <1>3, <1>4 DEF BeforeLast

LEMMA BeforeWrite ==
    ASSUME NEW sent \in Seq(Version), NEW cached, NEW current, Follows(cached, sent, current),
           NEW v \in Version
    PROVE  /\ Before(cached, Append(sent, v), Len(sent) + 1) = current
           /\ Append(sent, v)[Len(sent) + 1] = v
           /\ \A i \in 1 .. Len(sent) : /\ Append(sent, v)[i] = sent[i]
                                        /\ Before(cached, Append(sent, v), i) = Before(cached, sent, i)
<1> DEFINE n == Len(sent)
<1>1. n \in Nat /\ Append(sent, v)[n + 1] = v /\ \A i \in 1 .. n : Append(sent, v)[i] = sent[i]
  OBVIOUS
<1>2. sent = <<>> <=> n = 0
  BY EmptySeq
<1> HIDE DEF n
<1>3. Before(cached, Append(sent, v), n + 1) = current
  <2>1. CASE n = 0
    BY <1>2, <2>1 DEF Before, Follows
  <2>2. CASE n # 0
    <3>1. n \in 1 .. n /\ n + 1 # 1 /\ (n + 1) - 1 = n
      BY <1>1, <2>2
    <3>2. sent[n] = current
      BY <1>2, <2>2 DEF Follows, n
    <3> QED BY <1>1, <3>1, <3>2 DEF Before
  <2> QED BY <2>1, <2>2
<1>4. ASSUME NEW i \in 1 .. n PROVE Before(cached, Append(sent, v), i) = Before(cached, sent, i)
  <2>1. CASE i = 1
    BY <2>1 DEF Before
  <2>2. CASE i # 1
    <3>1. i - 1 \in 1 .. n
      BY <1>1, <2>2
    <3> QED BY <1>1, <2>2, <3>1 DEF Before
  <2> QED BY <2>1, <2>2
<1> QED BY <1>1, <1>3, <1>4 DEF n

\* Every step leaves the pods alone, writes one, delivers a version or restarts.
LEMMA PodSteps ==
    ASSUME TypeOK, [Next]_vars
    PROVE  \/ UNCHANGED <<pods, watch, cache>>
           \/ Writes \/ Crash \/ \E p \in Pods : PodEvent(p)
<1>1. CASE Worker
  <2>1. ASSUME NEW o \in Owners, FindGone(o) \/ Take(o) PROVE UNCHANGED <<pods, watch, cache>>
    BY <2>1 DEF FindGone, Take
  <2>2. CASE WaitForScale \/ ListPods \/ AskToAdopt \/ EndClaims \/ EndSync
    BY <2>2 DEF WaitForScale, ListPods, AskToAdopt, EndClaims, EndSync
  <2> QED BY <1>1, <2>1, <2>2, ClaimWrites, RewritesWrite DEF Worker, Quiet
<1>2. CASE Informers
  BY <1>2 DEF Informers, OwnerEvent
<1>3. CASE UNCHANGED vars
  BY <1>3 DEF vars
<1> QED BY <1>1, <1>2, <1>3, UsersWrite, RewritesWrite, ScalingWrites DEF Next, Quiet

\* The worker stays with its Inplaceu, finishes, or takes another.
LEMMA PassKept ==
    ASSUME TypeOK, [Next]_vars, pc' # "idle"
    PROVE  \/ \E o \in Owners : Take(o)
           \/ pc # "idle" /\ job'.for = job.for /\ job'.owner = job.owner
<1>1. pc # "idle" => job \in Job
  BY ClientTypes
<1>2. ASSUME NEW q \in Pods, Release(q) \/ ReleaseFails(q) \/ Adopt(q) \/ AdoptFails(q)
      PROVE  pc # "idle" /\ job'.for = job.for /\ job'.owner = job.owner
  BY <1>1, <1>2, ClaimWrites DEF Done, Job
<1>3. ASSUME NEW o \in Owners, FindGone(o) PROVE FALSE
  BY <1>3 DEF FindGone
<1>4. ~(WaitForScale \/ EndSync \/ Crash)
  BY DEF WaitForScale, EndSync, Return, Crash
<1>5. CASE ListPods \/ AskToAdopt
  <2>1. pc # "idle" /\ job \in Job
    BY <1>1, <1>5 DEF ListPods, AskToAdopt
  <2> QED BY <1>5, <2>1 DEF ListPods, AskToAdopt, Job
<1>6. CASE EndClaims
  BY <1>6 DEF EndClaims, Return
<1>7. ASSUME NEW q \in Pods, CreatePod(q) \/ DeletePod(q)
      PROVE  pc # "idle" /\ job'.for = job.for /\ job'.owner = job.owner
  <2>1. pc = "sync" /\ job \in Job
    BY <1>1, <1>7 DEF CreatePod, DeletePod
  <2> QED BY <1>7, <2>1 DEF CreatePod, DeletePod, Job
<1>8. CASE Users \/ Cluster
  BY <1>8, UsersWrite DEF worker
<1>9. CASE Informers \/ UNCHANGED vars
  BY <1>9 DEF Informers, PodEvent, OwnerEvent, vars
<1> QED
  BY <1>2, <1>3, <1>4, <1>5, <1>6, <1>7, <1>8, <1>9 DEF Next, Worker, Scaling

\* Events update what the cache knows of an Inplaceu.
LEMMA OwnerCacheSteps ==
    ASSUME TypeOK, [Next]_vars, NEW o \in Owners
    PROVE  \/ ownerCache'[o] = ownerCache[o]
           \/ /\ ownerCache'[o] = owners[o] /\ owners' = owners
              /\ OwnerEvent(o) \/ Crash
<1>1. ownerCache \in [Owners -> OwnerStates]
  BY DEF TypeOK
<1>2. ASSUME NEW r \in Owners, OwnerEvent(r)
      PROVE  \/ ownerCache'[o] = ownerCache[o]
             \/ ownerCache'[o] = owners[o] /\ owners' = owners /\ OwnerEvent(o)
  <2>1. ownerCache' = [ownerCache EXCEPT ![r] = owners[r]] /\ owners' = owners
    BY <1>2 DEF OwnerEvent
  <2>2. CASE r = o
    BY <1>1, <1>2, <2>1, <2>2
  <2>3. CASE r # o
    BY <1>1, <2>1, <2>3
  <2> QED BY <2>2, <2>3
<1>3. CASE Crash
  BY <1>3 DEF Crash
<1>4. Worker \/ Scaling \/ UNCHANGED vars \/ (\E p \in Pods : PodEvent(p)) => ownerCache' = ownerCache
  BY DEF Worker, Scaling, FindGone, Take, WaitForScale, ListPods, AskToAdopt, EndClaims,
         EndSync, Release, ReleaseFails, Adopt, AdoptFails, CreatePod, DeletePod, PodEvent, vars
<1>5. ASSUME NEW p \in Pods, PodEnds(p) \/ PodGone(p) \/ GarbageCollect(p) PROVE ownerCache' = ownerCache
  BY <1>5 DEF PodEnds, PodGone, GarbageCollect, Edit
<1>6. ASSUME NEW p \in Pods,
             \/ \E l \in Labels : UserRelabels(p, l)
             \/ UserOrphans(p) \/ UserDemotes(p)
             \/ \E r \in Owners : UserLinks(p, r)
             \/ ForeignAdopts(p) \/ Evict(p)
      PROVE  ownerCache' = ownerCache
  BY <1>6 DEF UserRelabels, UserOrphans, UserDemotes, UserLinks, ForeignAdopts, Evict, Edit
<1>7. ASSUME NEW r \in Owners, UserRemoves(r) \/ OwnerGone(r) PROVE ownerCache' = ownerCache
  BY <1>7 DEF UserRemoves, OwnerGone
<1> QED
  BY <1>2, <1>3, <1>4, <1>5, <1>6, <1>7 DEF Next, Users, Cluster, Informers

\* Only a pass takes an Inplaceu from the queue.
LEMMA QueueKept ==
    ASSUME TypeOK, [Next]_vars, NEW o \in queued
    PROVE  o \in queued' \/ FindGone(o) \/ Take(o) \/ Crash
<1>1. ASSUME NEW r \in Owners, FindGone(r) \/ Take(r) PROVE o \in queued' \/ FindGone(o) \/ Take(o)
  <2>1. queued' = queued \ {r}
    BY <1>1 DEF FindGone, Take
  <2> QED BY <1>1, <2>1
<1>2. WaitForScale \/ ListPods \/ AskToAdopt \/ EndClaims \/ EndSync => o \in queued'
  BY DEF WaitForScale, ListPods, AskToAdopt, EndClaims, EndSync, Return
<1>3. ASSUME NEW q \in Pods, Release(q) \/ ReleaseFails(q) \/ Adopt(q) \/ AdoptFails(q)
      PROVE  o \in queued'
  BY <1>3 DEF Release, ReleaseFails, Adopt, AdoptFails
<1>4. Scaling => o \in queued'
  BY DEF Scaling, CreatePod, DeletePod
<1>5. Informers \/ UNCHANGED vars => o \in queued'
  BY DEF Informers, PodEvent, OwnerEvent, vars
<1>6. Users \/ Cluster => o \in queued'
  BY UsersWrite DEF worker
<1> QED
  BY <1>1, <1>2, <1>3, <1>4, <1>5, <1>6 DEF Next, Worker

LEMMA LiveStep ==
    ASSUME TypeOK, LiveIsSeen, [Next]_vars
    PROVE  LiveIsSeen'
<1> SUFFICES ASSUME NEW o \in Owners, owners'[o] = "live"
             PROVE  ownerCache'[o] = "live" /\ (pc' # "idle" /\ job'.for = o => job'.owner = "live")
  BY DEF LiveIsSeen
<1>1. owners[o] = "live" /\ ownerCache[o] = "live"
      /\ (pc # "idle" /\ job.for = o => job.owner = "live")
  BY OwnersDie DEF LiveIsSeen
<1>2. ownerCache'[o] = "live"
  BY <1>1, OwnerCacheSteps
<1>3. ASSUME NEW r \in Owners, Take(r) PROVE job'.for = o => job'.owner = "live"
  <2>1. job'.for = r /\ job'.owner = ownerCache[r]
    BY <1>3 DEF Take
  <2> QED BY <1>1, <2>1
<1> QED BY <1>1, <1>2, <1>3, PassKept

LEMMA GoneStep ==
    ASSUME TypeOK, LiveIsSeen, GoneIsForgotten, [Next]_vars
    PROVE  GoneIsForgotten'
<1> SUFFICES ASSUME NEW o \in Owners, ownerCache'[o] = "gone", o \notin queued'
             PROVE  exp'[o] = {} /\ ~(pc' # "idle" /\ job'.for = o)
  BY DEF GoneIsForgotten
<1>1. CASE Crash
  BY <1>1 DEF Crash
<1>2. ASSUME ~Crash, ownerCache[o] # "gone" PROVE FALSE
  <2>1. OwnerEvent(o)
    BY <1>2, OwnerCacheSteps
  <2> QED BY <2>1 DEF OwnerEvent
<1>3. CASE ~Crash /\ ownerCache[o] = "gone"
  <2>1. ASSUME NEW r \in Owners, Take(r) PROVE r # o /\ job'.for = r /\ pc = "idle"
    BY <1>3, <2>1 DEF Take
  <2>2. CASE FindGone(o)
    <3>1. exp' = [exp EXCEPT ![o] = {}] /\ pc = "idle" /\ pc' = pc
      BY <2>2 DEF FindGone
    <3> QED BY <3>1 DEF TypeOK
  <2>3. CASE ~FindGone(o)
    <3>1. o \notin queued
      BY <1>3, <2>1, <2>3, QueueKept
    <3>2. exp[o] = {} /\ ~(pc # "idle" /\ job.for = o)
      BY <1>3, <3>1 DEF GoneIsForgotten
    <3>3. ASSUME NEW w \in exp'[o] PROVE FALSE
      <4>1. PICK p \in Pods : o = job.for /\ (CreatePod(p) \/ DeletePod(p))
        BY <3>2, AwaitedAnew
      <4> QED BY <3>2, <4>1 DEF CreatePod, DeletePod
    <3> QED BY <2>1, <3>2, <3>3, PassKept
  <2> QED BY <2>2, <2>3
<1> QED BY <1>1, <1>2, <1>3

\* What passes list and have left to claim is active.
LEMMA TodoStep ==
    ASSUME TypeOK, TodoIsActive, [Next]_vars
    PROVE  TodoIsActive'
<1> SUFFICES ASSUME pc' = "claim" PROVE \A p \in job'.todo : IsActive(job'.view[p])
  BY DEF TodoIsActive
<1>1. pc = "claim" => job \in Job
  BY ClientTypes
<1>2. ASSUME pc = "claim", job' = job PROVE \A p \in job'.todo : IsActive(job'.view[p])
  BY <1>2 DEF TodoIsActive
<1>3. ASSUME NEW q \in Pods, Release(q) \/ ReleaseFails(q) \/ Adopt(q) \/ AdoptFails(q)
      PROVE  \A p \in job'.todo : IsActive(job'.view[p])
  <2>1. pc = "claim" /\ \E mine \in SUBSET {q}, err \in BOOLEAN : Done(q, mine, err)
    BY <1>3, ClaimWrites
  <2>2. job'.todo = job.todo \ {q} /\ job'.view = job.view
    BY <1>1, <2>1 DEF Done, Job
  <2> QED BY <2>1, <2>2 DEF TodoIsActive
<1>4. CASE ListPods
  <2> DEFINE view == [p \in Pods |-> IF IsActive(cache[p]) /\ IsOwned(job.for, cache[p])
                                     THEN cache[p] ELSE None]
  <2>1. job \in Job /\ job' = [job EXCEPT !.view = view, !.mine = Claimed(view),
                                          !.todo = ToRelease(view) \cup ToAdopt(view)]
    BY <1>4, ClientTypes DEF ListPods
  <2>2. \A p \in ToRelease(view) \cup ToAdopt(view) : IsActive(view[p])
    BY DEF ToRelease, ToAdopt, Existing
  <2> HIDE DEF view
  <2>3. job'.todo = ToRelease(view) \cup ToAdopt(view) /\ job'.view = view
    BY <2>1 DEF Job
  <2> QED BY <2>2, <2>3
<1>5. CASE AskToAdopt
  <2>1. pc = "claim" /\ job \in Job
    BY <1>1, <1>5 DEF AskToAdopt
  <2>2. job'.todo = job.todo /\ job'.view = job.view
    BY <1>5, <2>1 DEF AskToAdopt, Job
  <2> QED BY <2>1, <2>2 DEF TodoIsActive
<1>6. ASSUME NEW o \in Owners, FindGone(o) \/ Take(o) PROVE FALSE
  BY <1>6 DEF FindGone, Take
<1>7. ~(WaitForScale \/ EndClaims \/ EndSync \/ Crash)
  BY DEF WaitForScale, EndClaims, EndSync, Return, Crash
<1>8. ~Scaling
  BY ScalingWrites
<1>9. Users \/ Cluster => pc' = pc /\ job' = job
  BY UsersWrite DEF worker
<1>10. Informers \/ UNCHANGED vars => pc' = pc /\ job' = job
  BY DEF Informers, PodEvent, OwnerEvent, vars
<1> QED
  BY <1>2, <1>3, <1>4, <1>5, <1>6, <1>7, <1>8, <1>9, <1>10 DEF Next, Worker

\* A pod that is not written.
Unwritten(p) == pods'[p] = pods[p] /\ watch'[p] = watch[p]

\* Users, other controllers and the cluster write active pods, and remove those that
\* have terminated.
LEMMA UsersWriteActive ==
    ASSUME TypeOK, Users \/ Cluster, NEW p \in Pods, ~Unwritten(p)
    PROVE  Remains(pods[p]) \/ PodGone(p)
<1>1. pods \in [Pods -> Version] /\ watch \in [Pods -> Seq(Version)]
  BY ClientTypes
<1>2. ASSUME NEW q \in Pods, NEW v, Edit(q, v) PROVE q = p
  BY <1>1, <1>2 DEF Edit, Publish, Unwritten
<1>3. ASSUME NEW q \in Pods,
             \/ \E l \in Labels : UserRelabels(q, l)
             \/ UserOrphans(q) \/ UserDemotes(q)
             \/ \E o \in Owners : UserLinks(q, o)
             \/ ForeignAdopts(q) \/ Evict(q) \/ PodEnds(q) \/ GarbageCollect(q)
      PROVE  q = p /\ Remains(pods[q])
  BY <1>2, <1>3 DEF UserRelabels, UserOrphans, UserDemotes, UserLinks, ForeignAdopts, Evict,
                    PodEnds, IsActive, GarbageCollect
<1>4. ASSUME NEW q \in Pods, PodGone(q) PROVE q = p
  BY <1>2, <1>4 DEF PodGone
<1>5. ASSUME NEW o \in Owners, UserRemoves(o) \/ OwnerGone(o) PROVE FALSE
  BY <1>5 DEF UserRemoves, OwnerGone, NoWrite, Unwritten
<1> QED
  BY <1>3, <1>4, <1>5 DEF Users, Cluster

\* A pod that is being deleted, or has been, stays as it is until it is gone and the
\* cache has been told.
LEMMA InactiveKept ==
    ASSUME TypeOK, ClaimsAreCurrent, TodoIsActive, [Next]_vars, ~Crash,
           NEW p \in Pods, ~Remains(pods[p]), pods[p] # None \/ watch[p] # <<>>
    PROVE  Unwritten(p) \/ PodGone(p) \/ (PodEvent(p) /\ pods' = pods)
<1>1. pods \in [Pods -> Version] /\ watch \in [Pods -> Seq(Version)]
  BY ClientTypes
<1>2. ASSUME NEW q \in Pods, NEW v, Publish(q, v), q # p PROVE Unwritten(p)
  BY <1>1, <1>2 DEF Publish, Unwritten
<1>3. NoWrite => Unwritten(p)
  BY DEF NoWrite, Unwritten
<1>4. ASSUME NEW q \in Pods, Release(q) \/ ReleaseFails(q) \/ Adopt(q) \/ AdoptFails(q)
      PROVE  Unwritten(p)
  <2>1. pc = "claim" /\ q \in job.todo
    BY <1>4, ClaimWrites
  <2>2. UpToDate(q) => Remains(pods[q])
    BY <2>1 DEF UpToDate, ClaimsAreCurrent, TodoIsActive, IsActive
  <2>3. NoWrite \/ (UpToDate(q) /\ \E v : Publish(q, v))
    BY <1>4 DEF Release, ReleaseFails, Adopt, AdoptFails
  <2> QED BY <1>2, <1>3, <2>2, <2>3
<1>5. ASSUME NEW q \in Pods, CreatePod(q) PROVE Unwritten(p)
  BY <1>2, <1>5 DEF CreatePod, Unknown
<1>6. ASSUME NEW q \in Pods, DeletePod(q) PROVE Unwritten(p)
  BY <1>2, <1>3, <1>6 DEF DeletePod, Remains
<1>7. ASSUME NEW o \in Owners, FindGone(o) \/ Take(o) \/ OwnerEvent(o) PROVE Unwritten(p)
  BY <1>7 DEF FindGone, Take, OwnerEvent, Unwritten
<1>8. WaitForScale \/ ListPods \/ AskToAdopt \/ EndClaims \/ EndSync \/ UNCHANGED vars => Unwritten(p)
  BY DEF WaitForScale, ListPods, AskToAdopt, EndClaims, EndSync, Unwritten, vars
<1>9. ASSUME NEW q \in Pods, PodEvent(q) PROVE Unwritten(p) \/ (PodEvent(p) /\ pods' = pods)
  <2>1. pods' = pods /\ watch' = [watch EXCEPT ![q] = Tail(watch[q])]
    BY <1>9 DEF PodEvent
  <2> QED BY <1>1, <1>9, <2>1 DEF Unwritten
<1> QED
  BY <1>4, <1>5, <1>6, <1>7, <1>8, <1>9, UsersWriteActive DEF Next, Worker, Scaling, Informers

LEMMA HeadKept ==
    ASSUME NEW sent \in Seq(Version), sent # <<>>, NEW v \in Version
    PROVE  Append(sent, v) # <<>> /\ Head(Append(sent, v)) = Head(sent)
<1>1. Len(sent) \in Nat /\ Len(sent) > 0 /\ Len(Append(sent, v)) = Len(sent) + 1
  OBVIOUS
<1>2. Append(sent, v)[1] = sent[1] /\ Head(sent) = sent[1]
  BY <1>1
<1>3. Append(sent, v) \in Seq(Version) /\ Head(Append(sent, v)) = Append(sent, v)[1]
  BY <1>1
<1> QED BY <1>1, <1>2, <1>3

\* The next version stays the next one until it is delivered.
LEMMA NextVersionKept ==
    ASSUME TypeOK, [Next]_vars, ~Crash, NEW p \in Pods, ~PodEvent(p)
    PROVE  /\ cache'[p] = cache[p]
           /\ watch[p] # <<>> => watch'[p] # <<>> /\ Head(watch'[p]) = Head(watch[p])
<1>1. watch \in [Pods -> Seq(Version)] /\ cache \in [Pods -> Version]
  BY ClientTypes
<1>2. CASE Writes
  <2>1. PICK q \in Pods, v \in Version : Publish(q, v)
    BY <1>2 DEF Writes
  <2>2. cache' = cache /\ watch' = [watch EXCEPT ![q] = Append(watch[q], v)]
    BY <1>2, <2>1 DEF Writes, Publish
  <2>3. watch[q] # <<>> => Append(watch[q], v) # <<>> /\ Head(Append(watch[q], v)) = Head(watch[q])
    BY <1>1, HeadKept
  <2>4. CASE p = q
    BY <1>1, <2>2, <2>3, <2>4
  <2>5. CASE p # q
    BY <1>1, <2>2, <2>5
  <2> QED BY <2>4, <2>5
<1>3. ASSUME NEW q \in Pods, PodEvent(q) PROVE cache'[p] = cache[p] /\ watch'[p] = watch[p]
  <2>1. q # p
    BY <1>3
  <2>2. /\ cache' = [cache EXCEPT ![q] = Head(watch[q])]
        /\ watch' = [watch EXCEPT ![q] = Tail(watch[q])]
    BY <1>3 DEF PodEvent
  <2> QED BY <1>1, <2>1, <2>2
<1> QED BY <1>2, <1>3, PodSteps

\* An event meets the expectations it is an observation for, and no other.
LEMMA EventMeets ==
    ASSUME TypeOK, NEW p \in Pods, PodEvent(p), NEW o \in Owners, NEW w
    PROVE  w \in exp'[o] <=>
             /\ w \in exp[o]
             /\ \/ cache[p] = None /\ Head(watch[p]) = None
                \/ <<o, w>> \notin Observed(p, cache[p], Head(watch[p]))
<1> DEFINE W == {"create", "delete"} \X Pods
           met == Observed(p, cache[p], Head(watch[p]))
<1>1. exp \in [Owners -> SUBSET W]
  BY DEF TypeOK
<1>2. IF cache[p] = None /\ Head(watch[p]) = None THEN exp' = exp
      ELSE exp' = [r \in Owners |-> exp[r] \ {x \in W : <<r, x>> \in met}]
  BY DEF PodEvent
<1> HIDE DEF W, met
<1>3. CASE cache[p] = None /\ Head(watch[p]) = None
  BY <1>2, <1>3
<1>4. CASE ~(cache[p] = None /\ Head(watch[p]) = None)
  <2>1. exp'[o] = exp[o] \ {x \in W : <<o, x>> \in met}
    BY <1>2, <1>4
  <2> QED BY <1>1, <1>4, <2>1 DEF met
<1> QED BY <1>3, <1>4

LEMMA CreateStep ==
    ASSUME TypeOK, CreateAwaited, [Next]_vars
    PROVE  CreateAwaited'
<1> SUFFICES ASSUME NEW o \in Owners, NEW p \in Pods, <<"create", p>> \in exp'[o]
             PROVE  /\ cache'[p] = None /\ watch'[p] # <<>>
                    /\ Remains(Head(watch'[p])) /\ Head(watch'[p]).ctrl = o
  BY DEF CreateAwaited, Remains
<1>1. watch \in [Pods -> Seq(Version)] /\ None \notin Pod
  BY ClientTypes, OwnershipAssumption
<1>2. ~Crash
  BY DEF Crash
<1>3. CASE <<"create", p>> \notin exp[o]
  <2>1. CreatePod(p) /\ o = job.for
    BY <1>3, AwaitedAnew
  <2> DEFINE v == [ctrl |-> job.for, plain |-> {}, label |-> TemplateLabel[job.for],
                ended |-> FALSE, term |-> FALSE]
  <2>2. /\ cache[p] = None /\ cache' = cache /\ watch[p] = <<>>
        /\ watch' = [watch EXCEPT ![p] = Append(watch[p], v)]
    BY <2>1 DEF CreatePod, Unknown, Publish
  <2>3. v \in Pod /\ v.ctrl = o /\ ~v.term
    <3>1. TemplateLabel[o] \in Labels
      BY OwnershipAssumption
    <3> QED BY <2>1, <3>1 DEF Pod
  <2> HIDE DEF v
  <2>4. watch'[p] = <<v>>
    BY <1>1, <2>2
  <2>5. Head(<<v>>) = v /\ <<v>> # <<>>
    OBVIOUS
  <2> QED BY <1>1, <2>2, <2>3, <2>4, <2>5 DEF Remains
<1>4. CASE <<"create", p>> \in exp[o]
  <2>1. /\ cache[p] = None /\ watch[p] # <<>>
        /\ Remains(Head(watch[p])) /\ Head(watch[p]).ctrl = o
    BY <1>4 DEF CreateAwaited
  <2>2. ~PodEvent(p)
    <3>1. <<o, <<"create", p>>>> \in Observed(p, cache[p], Head(watch[p]))
      BY <2>1 DEF Observed, Remains
    <3> QED BY <2>1, <3>1, EventMeets DEF Remains
  <2> QED BY <1>2, <2>1, <2>2, NextVersionKept
<1> QED BY <1>3, <1>4

\* What a call deletes is terminating, and what terminates goes.
LEMMA DeleteStep ==
    ASSUME OwnInvariant, TodoIsActive, DeleteAwaited, [Next]_vars
    PROVE  DeleteAwaited'
<1> SUFFICES ASSUME NEW o \in Owners, NEW p \in Pods, <<"delete", p>> \in exp'[o],
                    owners'[o] = "live"
             PROVE  \/ pods'[p] # None /\ pods'[p].term /\ pods'[p].ctrl = o
                    \/ /\ pods'[p] = None /\ watch'[p] # <<>>
                       /\ BeforeLast(cache'[p], watch'[p]) # None
                       /\ BeforeLast(cache'[p], watch'[p]).ctrl = o
  BY DEF DeleteAwaited, BeforeLast, Before
<1>1. /\ TypeOK /\ InOrder /\ ClaimsAreCurrent /\ MineIsOwn
      /\ watch \in [Pods -> Seq(Version)] /\ pods \in [Pods -> Version]
      /\ cache \in [Pods -> Version] /\ None \notin Pod
  BY ClientTypes, OwnershipAssumption DEF OwnInvariant, ClaimInvariant
<1>2. ~Crash /\ owners[o] = "live"
  BY <1>1, OwnersDie DEF Crash
<1>3. CASE <<"delete", p>> \notin exp[o]
  <2>1. DeletePod(p) /\ o = job.for
    BY <1>1, <1>3, AwaitedAnew
  <2>2. pc = "sync" /\ p \in job.mine /\ pods[p] # None
    BY <2>1 DEF DeletePod
  <2>3. pods[p].ctrl = o /\ pods[p] \in Pod
    BY <1>1, <1>2, <2>1, <2>2 DEF MineIsOwn, Keeps, Version
  <2>4. CASE pods[p].term
    BY <2>1, <2>2, <2>3, <2>4 DEF DeletePod, NoWrite
  <2>5. CASE ~pods[p].term
    <3>1. pods'[p] = [pods[p] EXCEPT !.term = TRUE]
      BY <1>1, <2>1, <2>5 DEF DeletePod, Publish
    <3>2. pods'[p] \in Pod /\ pods'[p].ctrl = o
      BY <2>3, <3>1, EditedPod, EditedControl
    <3>3. [pods[p] EXCEPT !.term = TRUE].term
      BY <2>3 DEF Pod
    <3> QED BY <1>1, <3>1, <3>2, <3>3
  <2> QED BY <2>4, <2>5
<1>4. CASE <<"delete", p>> \in exp[o] /\ pods[p] # None /\ pods[p].term /\ pods[p].ctrl = o
  <2>1. CASE PodGone(p)
    <3>1. /\ pods'[p] = None /\ cache' = cache
          /\ watch' = [watch EXCEPT ![p] = Append(watch[p], None)]
      BY <1>1, <2>1 DEF PodGone, Edit, Publish
    <3>2. watch'[p] = Append(watch[p], None) /\ None \in Version
      BY <1>1, <3>1 DEF Version
    <3>3. watch'[p] # <<>> /\ Len(watch'[p]) = Len(watch[p]) + 1
      BY <1>1, <3>2, AppendProperties
    <3>4. BeforeLast(cache'[p], watch'[p]) = pods[p]
      BY <1>1, <3>1, <3>2, <3>3, BeforeWrite DEF BeforeLast, InOrder
    <3> QED BY <1>4, <3>1, <3>3, <3>4
  <2>2. CASE ~PodGone(p)
    BY <1>1, <1>2, <1>4, <2>2, InactiveKept DEF OwnInvariant, Remains, Unwritten
  <2> QED BY <2>1, <2>2
<1>5. CASE /\ <<"delete", p>> \in exp[o] /\ pods[p] = None /\ watch[p] # <<>>
           /\ BeforeLast(cache[p], watch[p]) # None /\ BeforeLast(cache[p], watch[p]).ctrl = o
  <2>1. pods'[p] = None /\ (Unwritten(p) \/ PodEvent(p))
    BY <1>1, <1>2, <1>5, InactiveKept DEF PodGone, Remains, Unwritten
  <2>2. CASE PodEvent(p)
    <3>1. cache'[p] = Head(watch[p]) /\ watch'[p] = Tail(watch[p])
      BY <1>1, <2>2 DEF PodEvent
    <3>2. Len(watch[p]) # 1
      <4>1. SUFFICES ASSUME Len(watch[p]) = 1 PROVE FALSE
        OBVIOUS
      <4>2. cache[p] # None /\ cache[p].ctrl = o
        BY <1>5, <4>1 DEF BeforeLast, Before
      <4>3. Head(watch[p]) = None
        BY <1>1, <1>5, <4>1 DEF InOrder, Follows
      <4>4. <<o, <<"delete", p>>>> \in Observed(p, cache[p], Head(watch[p]))
        BY <4>2, <4>3 DEF Observed
      <4> QED BY <1>1, <2>2, <4>2, <4>4, EventMeets
    <3>3. Tail(watch[p]) # <<>> /\ BeforeLast(cache'[p], watch'[p]) = BeforeLast(cache[p], watch[p])
      BY <1>1, <1>5, <3>1, <3>2, BeforeLastEvent
    <3> QED BY <1>5, <2>1, <3>1, <3>3
  <2>3. CASE ~PodEvent(p)
    <3>1. cache'[p] = cache[p] /\ watch'[p] = watch[p]
      BY <1>1, <1>2, <2>1, <2>3, NextVersionKept DEF Unwritten
    <3> QED BY <1>5, <2>1, <3>1
  <2> QED BY <2>2, <2>3
<1> QED BY <1>2, <1>3, <1>4, <1>5 DEF DeleteAwaited

LEMMA AwaitInit == Init => AwaitInvariant
<1> SUFFICES ASSUME Init PROVE AwaitInvariant
  OBVIOUS
<1>1. pc = "idle" /\ \A o \in Owners : ownerCache[o] = "live" /\ exp[o] = {}
  BY DEF Init
<1> QED
  BY <1>1, OwnInit DEF AwaitInvariant, LiveIsSeen, GoneIsForgotten, CreateAwaited, DeleteAwaited,
                       TodoIsActive

LEMMA AwaitStep == Undisturbed /\ AwaitInvariant /\ [Next]_vars => AwaitInvariant'
  BY OwnStep, LiveStep, GoneStep, CreateStep, DeleteStep, TodoStep
     DEF AwaitInvariant, OwnInvariant, ClaimInvariant

LEMMA AwaitedHappens ==
    ASSUME AwaitInvariant
    PROVE  NobodyWaits
<1> SUFFICES ASSUME Rest, NEW o \in Owners, NEW w \in exp[o] PROVE FALSE
  BY DEF NobodyWaits
<1>1. /\ exp \in [Owners -> SUBSET ({"create", "delete"} \X Pods)]
      /\ owners \in [Owners -> OwnerStates]
  BY DEF AwaitInvariant, OwnInvariant, ClaimInvariant, TypeOK
<1>2. owners[o] = "live"
  <2>1. owners[o] # "gone"
    BY DEF AwaitInvariant, GoneIsForgotten, Rest
  <2> QED BY <1>1, <2>1 DEF Rest, OwnerStates
<1>3. PICK p \in Pods : w = <<"create", p>> \/ w = <<"delete", p>>
  BY <1>1
<1>4. watch[p] = <<>> /\ (pods[p] # None => ~pods[p].term)
  BY DEF Rest
<1> QED BY <1>2, <1>3, <1>4 DEF AwaitInvariant, CreateAwaited, DeleteAwaited

\* As long as no user takes pods from an Inplaceu, no expectation outlives its calls:
\* whatever is lost to conflicts, failed calls and restarts, and whichever Inplaceus
\* are deleted, at rest none waits for an event that will not come.
THEOREM NobodyIsLeftWaiting ==
    ASSUME Undisturbed
    PROVE  Spec => []NobodyWaits
<1>1. AwaitInvariant /\ [Next]_vars => AwaitInvariant'
  BY AwaitStep
<1> QED
  BY <1>1, AwaitInit, AwaitedHappens, PTL DEF Spec

-----------------------------------------------------------------------------
(* What is to be claimed will be. *)

\* A pod that o has to release, and one that it owns and has to adopt.
Mismatched(o, v) == IsActive(v) /\ v.ctrl = o /\ ~Match(o, v)
Abandoned(o, v) == IsActive(v) /\ v.ctrl = None /\ o \in v.plain /\ Match(o, v)

\* A pass of o will look at p, or wait for something that wakes it.
Handled(o, p) ==
    \/ o \in queued \/ exp[o] # {}
    \/ /\ pc # "idle" /\ job.for = o
       /\ pc = "list" \/ (pc = "claim" /\ (job.err \/ p \in job.todo))

MismatchHandled ==
    \A o \in Owners, p \in Pods :
        owners[o] = "live" /\ Mismatched(o, cache[p]) => Handled(o, p) \/ watch[p] # <<>>

AbandonedHandled ==
    \A o \in Owners, p \in Pods :
        owners[o] = "live" /\ Abandoned(o, cache[p]) =>
            \/ Handled(o, p)
            \/ watch[p] # <<>> /\ ~Abandoned(o, Head(watch[p]))

\* Whoever's expectation an event meets, it wakes.
LEMMA ObservedIsWoken ==
    ASSUME NEW p, NEW old, NEW new, old # None \/ new # None,
           NEW o \in Owners, NEW w, <<o, w>> \in Observed(p, old, new)
    PROVE  o \in Woken(old, new)
<1>1. o # None
  BY OwnershipAssumption
<1>2. CASE new = None
  BY <1>2 DEF Observed, Woken
<1>3. CASE new # None /\ new.term
  <2>1. o = new.ctrl \/ (old # None /\ old.label # new.label /\ o = old.ctrl)
    BY <1>3 DEF Observed
  <2> QED BY <1>3, <2>1 DEF Woken
<1>4. CASE new # None /\ ~new.term
  <2>1. o = new.ctrl
    BY <1>4 DEF Observed
  <2> QED BY <1>1, <1>4, <2>1 DEF Woken
<1> QED BY <1>2, <1>3, <1>4

\* An expectation is met by an event that wakes its Inplaceu.
LEMMA MetIsWoken ==
    ASSUME TypeOK, [Next]_vars, NEW o \in Owners, NEW w \in exp[o], w \notin exp'[o]
    PROVE  o \in queued' \/ FindGone(o) \/ Crash
<1>1. exp \in [Owners -> SUBSET ({"create", "delete"} \X Pods)] /\ exp' # exp
  BY DEF TypeOK
<1>2. ASSUME NEW q \in Pods, PodEvent(q) PROVE o \in queued'
  <2>1. /\ cache[q] # None \/ Head(watch[q]) # None
        /\ <<o, w>> \in Observed(q, cache[q], Head(watch[q]))
    BY <1>2, EventMeets
  <2>2. o \in Woken(cache[q], Head(watch[q]))
    BY <2>1, ObservedIsWoken
  <2> QED BY <1>2, <2>1, <2>2 DEF PodEvent
<1>3. ASSUME NEW q \in Pods, CreatePod(q) \/ DeletePod(q) PROVE FALSE
  <2>1. \E v : exp' = [exp EXCEPT ![job.for] = exp[job.for] \cup {v}]
    BY <1>3 DEF CreatePod, DeletePod
  <2> QED BY <1>1, <2>1
<1>4. ASSUME NEW r \in Owners, FindGone(r) PROVE FindGone(o)
  <2>1. exp' = [exp EXCEPT ![r] = {}]
    BY <1>4 DEF FindGone
  <2>2. r = o
    BY <1>1, <2>1
  <2> QED BY <1>4, <2>2
<1>5. ASSUME NEW q \in Pods, Release(q) \/ ReleaseFails(q) \/ Adopt(q) \/ AdoptFails(q) PROVE FALSE
  BY <1>1, <1>5 DEF Release, ReleaseFails, Adopt, AdoptFails
<1>6. ASSUME NEW r \in Owners, Take(r) \/ OwnerEvent(r) PROVE FALSE
  BY <1>1, <1>6 DEF Take, OwnerEvent
<1>7. ~(WaitForScale \/ ListPods \/ AskToAdopt \/ EndClaims \/ EndSync \/ UNCHANGED vars)
  BY <1>1 DEF WaitForScale, ListPods, AskToAdopt, EndClaims, EndSync, vars
<1>8. ~(Users \/ Cluster)
  BY <1>1, UsersWrite DEF worker
<1> QED
  BY <1>2, <1>3, <1>4, <1>5, <1>6, <1>7, <1>8 DEF Next, Worker, Scaling, Informers

\* What a pass does, and in which order.
LEMMA PassSteps ==
    ASSUME TypeOK, [Next]_vars, ~Crash, pc # "idle"
    PROVE  \/ UNCHANGED <<pc, job>>
           \/ pc = "list" /\ (WaitForScale \/ ListPods)
           \/ /\ pc = "claim"
              /\ \/ AskToAdopt \/ EndClaims
                 \/ \E q \in Pods : Release(q) \/ ReleaseFails(q) \/ Adopt(q) \/ AdoptFails(q)
           \/ pc = "sync" /\ (Scaling \/ EndSync)
<1>1. ASSUME NEW o \in Owners, FindGone(o) \/ Take(o) PROVE FALSE
  BY <1>1 DEF FindGone, Take
<1>2. /\ WaitForScale \/ ListPods => pc = "list"
      /\ AskToAdopt \/ EndClaims => pc = "claim"
      /\ EndSync => pc = "sync"
  BY DEF WaitForScale, ListPods, AskToAdopt, EndClaims, EndSync
<1>3. \A q \in Pods : Release(q) \/ ReleaseFails(q) \/ Adopt(q) \/ AdoptFails(q) => pc = "claim"
  BY ClaimWrites
<1>4. Scaling => pc = "sync"
  BY ScalingWrites
<1>5. Users \/ Cluster => UNCHANGED <<pc, job>>
  BY UsersWrite DEF worker
<1>6. Informers \/ UNCHANGED vars => UNCHANGED <<pc, job>>
  BY DEF Informers, PodEvent, OwnerEvent, vars
<1> QED
  BY <1>1, <1>2, <1>3, <1>4, <1>5, <1>6 DEF Next, Worker

\* A call that is made for a pod publishes a version, or fails and so does the pass.
LEMMA ClaimOutcome ==
    ASSUME TypeOK, InOrder, ClaimsAreCurrent, NEW q \in Pods,
           Release(q) \/ ReleaseFails(q) \/ Adopt(q) \/ AdoptFails(q),
           ~job'.err
    PROVE  \E v \in Version :
             /\ watch[q] = <<>> /\ cache[q] = job.view[q] /\ watch'[q] = <<v>>
             /\ job.view[q].ctrl = None => v.ctrl = job.for
<1>1. watch \in [Pods -> Seq(Version)] /\ pods \in [Pods -> Version]
      /\ pc = "claim" /\ q \in job.todo /\ job \in Job
  BY ClaimWrites, ClientTypes
<1>2. ASSUME ReleaseFails(q) \/ AdoptFails(q) PROVE FALSE
  <2>1. Done(q, {}, TRUE)
    BY <1>2 DEF ReleaseFails, AdoptFails
  <2> QED BY <1>1, <2>1 DEF Done, Job
<1>3. /\ UpToDate(q)
      /\ \/ Releases(q) /\ Publish(q, Released(pods[q]))
         \/ Publish(q, Adopted(pods[q]))
  BY <1>2 DEF Release, Adopt
<1>4. watch[q] = <<>> /\ cache[q] = job.view[q] /\ pods[q] \in Pod
  BY <1>1, <1>3 DEF UpToDate, ClaimsAreCurrent, InOrder, Follows, Version
<1>5. job.for \in Owners /\ job.for # None
  BY <1>1, OwnershipAssumption DEF Job
<1>6. /\ Released(pods[q]) \in Version /\ Adopted(pods[q]) \in Version
      /\ Adopted(pods[q]).ctrl = job.for
  BY <1>4, <1>5, EditedPod, EditedControl DEF Released, Adopted, Version
<1>7. ASSUME NEW v \in Version, Publish(q, v) PROVE watch'[q] = <<v>>
  <2>1. watch' = [watch EXCEPT ![q] = Append(watch[q], v)]
    BY <1>7 DEF Publish
  <2>2. Append(<<>>, v) = <<v>>
    OBVIOUS
  <2> QED BY <1>1, <1>4, <2>1, <2>2
<1>8. CASE Releases(q) /\ Publish(q, Released(pods[q]))
  BY <1>4, <1>5, <1>6, <1>7, <1>8 DEF Releases
<1>9. CASE Publish(q, Adopted(pods[q]))
  BY <1>4, <1>6, <1>7, <1>9
<1> QED BY <1>3, <1>8, <1>9

\* Until the pod is claimed, or what it is now gets to the cache.
LEMMA HandledStep ==
    ASSUME AwaitInvariant, [Next]_vars, NEW o \in Owners, NEW p \in Pods, owners'[o] = "live",
           Handled(o, p), Mismatched(o, cache[p]) \/ Abandoned(o, cache[p])
    PROVE  \/ Handled(o, p)'
           \/ /\ watch'[p] # <<>>
              /\ Abandoned(o, cache[p]) => ~Abandoned(o, Head(watch'[p]))
<1>1. /\ TypeOK /\ InOrder /\ ClaimsAreCurrent
      /\ owners[o] = "live" /\ ownerCache[o] = "live" /\ o # None
      /\ pc # "idle" => job \in Job /\ (job.for = o => job.owner = "live")
  BY OwnersDie, ClientTypes, OwnershipAssumption
     DEF AwaitInvariant, OwnInvariant, ClaimInvariant, LiveIsSeen
<1>2. CASE Crash
  BY <1>1, <1>2 DEF Crash, Handled
<1>3. CASE ~Crash /\ o \in queued
  <2>1. ~FindGone(o)
    BY <1>1 DEF FindGone
  <2>2. CASE Take(o)
    BY <2>2 DEF Take, Handled
  <2> QED BY <1>1, <1>3, <2>1, <2>2, QueueKept DEF Handled
<1>4. CASE ~Crash /\ exp[o] # {}
  <2>1. ~FindGone(o)
    BY <1>1 DEF FindGone
  <2> QED BY <1>1, <1>4, <2>1, MetIsWoken DEF Handled
<1>5. CASE ~Crash /\ exp[o] = {} /\ pc = "list" /\ job.for = o
  <2>1. ~WaitForScale
    BY <1>5 DEF WaitForScale
  <2>2. CASE ListPods
    <3> DEFINE view == [r \in Pods |-> IF IsActive(cache[r]) /\ IsOwned(job.for, cache[r])
                                       THEN cache[r] ELSE None]
    <3>1. /\ job' = [job EXCEPT !.view = view, !.mine = Claimed(view),
                                !.todo = ToRelease(view) \cup ToAdopt(view)]
          /\ pc' = "claim" /\ job \in Job /\ job.owner = "live"
      BY <1>1, <1>5, <2>2 DEF ListPods
    <3>2. view[p] = cache[p] /\ view[p] # None
      BY <1>5 DEF Mismatched, Abandoned, IsOwned, IsActive, Remains
    <3>3. p \in ToRelease(view) \cup ToAdopt(view)
      <4> HIDE DEF view
      <4> QED BY <1>5, <3>1, <3>2 DEF ToRelease, ToAdopt, Existing, Mismatched, Abandoned
    <3> HIDE DEF view
    <3>4. job'.for = o /\ p \in job'.todo
      BY <1>5, <3>1, <3>3 DEF Job
    <3> QED BY <3>1, <3>4 DEF Handled
  <2>3. CASE UNCHANGED <<pc, job>>
    BY <1>5, <2>3 DEF Handled
  <2> QED BY <1>1, <1>5, <2>1, <2>2, <2>3, PassSteps
<1>6. CASE ~Crash /\ pc = "claim" /\ job.for = o /\ (job.err \/ p \in job.todo)
  <2>1. CASE UNCHANGED <<pc, job>>
    BY <1>6, <2>1 DEF Handled
  <2>2. CASE AskToAdopt
    <3>1. pc' = pc /\ job'.for = o /\ job'.err = job.err /\ job'.todo = job.todo
      BY <1>1, <1>6, <2>2 DEF AskToAdopt, Job
    <3> QED BY <1>6, <3>1 DEF Handled
  <2>3. CASE EndClaims
    <3>1. job.err
      BY <1>6, <2>3 DEF EndClaims
    <3> QED BY <1>6, <2>3, <3>1 DEF EndClaims, Return, Handled
  <2>4. ASSUME NEW q \in Pods, Release(q) \/ ReleaseFails(q) \/ Adopt(q) \/ AdoptFails(q)
        PROVE  \/ Handled(o, p)'
               \/ watch'[p] # <<>> /\ (Abandoned(o, cache[p]) => ~Abandoned(o, Head(watch'[p])))
    <3>1. PICK err \in BOOLEAN : \E mine \in SUBSET {q} : Done(q, mine, err)
      BY <1>1, <2>4, ClaimWrites
    <3>2. /\ pc' = pc /\ job'.for = o /\ job'.todo = job.todo \ {q}
          /\ job'.err = (job.err \/ err)
      BY <1>1, <1>6, <2>4, <3>1, ClaimWrites DEF Done, Job
    <3>3. CASE job'.err \/ p # q
      BY <1>6, <3>2, <3>3 DEF Handled
    <3>4. CASE ~job'.err /\ p = q
      <4>1. PICK v \in Version : /\ watch[p] = <<>> /\ cache[p] = job.view[p] /\ watch'[p] = <<v>>
                                 /\ job.view[p].ctrl = None => v.ctrl = job.for
        BY <1>1, <2>4, <3>4, ClaimOutcome
      <4>2. watch'[p] # <<>> /\ Head(watch'[p]) = v
        BY <4>1
      <4> QED BY <1>1, <1>6, <4>1, <4>2 DEF Abandoned
    <3> QED BY <3>3, <3>4
  <2> QED BY <1>1, <1>6, <2>1, <2>2, <2>3, <2>4, PassSteps
<1> QED BY <1>2, <1>3, <1>4, <1>5, <1>6 DEF Handled

LEMMA MismatchStep ==
    ASSUME AwaitInvariant, MismatchHandled, [Next]_vars
    PROVE  MismatchHandled'
<1> SUFFICES ASSUME NEW o \in Owners, NEW p \in Pods, owners'[o] = "live", Mismatched(o, cache'[p])
             PROVE  Handled(o, p)' \/ watch'[p] # <<>>
  BY DEF MismatchHandled, Mismatched, Match, IsActive, Remains
<1>1. TypeOK /\ owners[o] = "live"
  BY OwnersDie DEF AwaitInvariant, OwnInvariant, ClaimInvariant
<1>2. CASE Crash
  BY <1>1, <1>2 DEF Crash, Handled
<1>3. CASE PodEvent(p)
  <2>1. cache'[p] = Head(watch[p])
    BY <1>1, <1>3, ClientTypes DEF PodEvent
  <2>2. o \in Woken(cache[p], Head(watch[p])) /\ Head(watch[p]) # None
    BY <2>1, OwnershipAssumption DEF Mismatched, IsActive, Remains, Woken
  <2> QED BY <1>3, <2>2 DEF PodEvent, Handled
<1>4. CASE ~Crash /\ ~PodEvent(p)
  <2>1. cache'[p] = cache[p] /\ (watch[p] # <<>> => watch'[p] # <<>>)
    BY <1>1, <1>4, NextVersionKept
  <2>2. Handled(o, p) \/ watch[p] # <<>>
    BY <1>1, <2>1 DEF MismatchHandled
  <2> QED BY <2>1, <2>2, HandledStep
<1> QED BY <1>2, <1>3, <1>4

\* At rest nobody is about to claim anything.
LEMMA NothingIsHandled ==
    ASSUME AwaitInvariant, Rest, NEW o \in Owners, NEW p \in Pods
    PROVE  ~Handled(o, p) /\ watch[p] = <<>> /\ cache[p] = pods[p]
<1>1. exp[o] = {}
  BY AwaitedHappens DEF NobodyWaits
<1> QED
  BY <1>1 DEF Handled, Rest, AwaitInvariant, OwnInvariant, ClaimInvariant, InOrder, Follows

\* As long as no user takes pods from an Inplaceu, no change of a label is missed and
\* no failed release is forgotten, by conflicts, failed calls and restarts: at rest
\* every pod matches the Inplaceu that controls it.
THEOREM PodsComeToMatch ==
    ASSUME Undisturbed
    PROVE  Spec => []PodsMatch
<1>1. Init => AwaitInvariant /\ MismatchHandled
  BY AwaitInit DEF MismatchHandled, Handled, Init
<1>2. AwaitInvariant /\ MismatchHandled /\ [Next]_vars => (AwaitInvariant /\ MismatchHandled)'
  BY AwaitStep, MismatchStep
<1>3. AwaitInvariant /\ MismatchHandled => PodsMatch
  <2> SUFFICES ASSUME AwaitInvariant, MismatchHandled, Rest, NEW o \in Owners, NEW p \in Pods,
                      IsActive(pods[p]), owners[o] = "live", pods[p].ctrl = o
               PROVE  Match(o, pods[p])
    BY DEF PodsMatch, Existing
  <2>1. ~Handled(o, p) /\ watch[p] = <<>> /\ cache[p] = pods[p]
    BY NothingIsHandled
  <2> QED BY <2>1 DEF MismatchHandled, Mismatched
<1> QED
  BY <1>1, <1>2, <1>3, PTL DEF Spec

-----------------------------------------------------------------------------
(* Adoption. *)

\* No version of a pod has an owner the one before did not have, besides its
\* controller, and none that terminates or has ended becomes active.
Shrinks(old, new) ==
    old # None /\ new # None =>
        /\ new.plain \subseteq old.plain
        /\ old.term => new.term
        /\ old.ended => new.ended

Shrinking(cached, sent) == \A i \in 1 .. Len(sent) : Shrinks(Before(cached, sent, i), sent[i])

OwnersShrink == \A p \in Pods : Shrinking(cache[p], watch[p])

\* Nobody makes an Inplaceu an owner that is not the controller.
Unlinked == Undisturbed /\ "link" \notin Disturbances

LEMMA ShrinkingEvent ==
    ASSUME NEW sent \in Seq(Version), sent # <<>>, NEW cached, Shrinking(cached, sent)
    PROVE  Shrinks(cached, Head(sent)) /\ Shrinking(Head(sent), Tail(sent))
<1>1. 1 \in 1 .. Len(sent) /\ Head(sent) = sent[1]
  BY EmptySeq
<1>2. Shrinks(cached, Head(sent))
  BY <1>1 DEF Shrinking, Before
<1>3. ASSUME NEW i \in 1 .. Len(Tail(sent))
      PROVE  Shrinks(Before(Head(sent), Tail(sent), i), Tail(sent)[i])
  BY BeforeEvent DEF Shrinking
<1> QED BY <1>2, <1>3 DEF Shrinking

LEMMA ShrinkingWrite ==
    ASSUME NEW sent \in Seq(Version), NEW cached, NEW current, Follows(cached, sent, current),
           NEW v \in Version, Shrinking(cached, sent), Shrinks(current, v)
    PROVE  Shrinking(cached, Append(sent, v))
<1> DEFINE n == Len(sent)
<1>1. n \in Nat /\ Len(Append(sent, v)) = n + 1
  OBVIOUS
<1>2. \A i \in 1 .. n : Shrinks(Before(cached, Append(sent, v), i), Append(sent, v)[i])
  BY BeforeWrite DEF Shrinking
<1>3. Shrinks(Before(cached, Append(sent, v), n + 1), Append(sent, v)[n + 1])
  BY BeforeWrite
<1> HIDE DEF n
<1>4. \A i \in 1 .. (n + 1) : i \in 1 .. n \/ i = n + 1
  BY <1>1
<1> QED BY <1>1, <1>2, <1>3, <1>4 DEF Shrinking

\* The other owners of a pod after it was written, and whether it terminates.
LEMMA EditedOwners ==
    ASSUME NEW pod \in Pod
    PROVE  /\ \A l \in Labels : Shrinks(pod, [pod EXCEPT !.label = l])
           /\ Shrinks(pod, [pod EXCEPT !.ctrl = None])
           /\ Shrinks(pod, [pod EXCEPT !.ctrl = Foreign])
           /\ Shrinks(pod, [pod EXCEPT !.term = TRUE])
           /\ Shrinks(pod, [pod EXCEPT !.ended = TRUE])
           /\ \A o \in Owners : Shrinks(pod, [pod EXCEPT !.ctrl = o, !.plain = @ \ {o}])
           /\ \A lost \in SUBSET Owners :
                Shrinks(pod, [pod EXCEPT !.plain = @ \ lost,
                                         !.ctrl = IF @ \in lost THEN None ELSE @])
<1> DEFINE c == pod.ctrl  s == pod.plain  l == pod.label  e == pod.ended  t == pod.term
<1>1. /\ pod = [ctrl |-> c, plain |-> s, label |-> l, ended |-> e, term |-> t]
      /\ e \in BOOLEAN /\ t \in BOOLEAN
  BY PodFields
<1> HIDE DEF c, s, l, e, t
<1>2. \A ll \in Labels : Shrinks(pod, [pod EXCEPT !.label = ll])
  BY <1>1 DEF Shrinks
<1>3. Shrinks(pod, [pod EXCEPT !.ctrl = None]) /\ Shrinks(pod, [pod EXCEPT !.ctrl = Foreign])
  BY <1>1 DEF Shrinks
<1>4. Shrinks(pod, [pod EXCEPT !.term = TRUE]) /\ Shrinks(pod, [pod EXCEPT !.ended = TRUE])
  BY <1>1 DEF Shrinks
<1>5. \A o \in Owners : Shrinks(pod, [pod EXCEPT !.ctrl = o, !.plain = @ \ {o}])
  BY <1>1 DEF Shrinks
<1>6. \A lost \in SUBSET Owners :
        Shrinks(pod, [pod EXCEPT !.plain = @ \ lost, !.ctrl = IF @ \in lost THEN None ELSE @])
  BY <1>1 DEF Shrinks
<1> QED BY <1>2, <1>3, <1>4, <1>5, <1>6

\* Whoever writes a pod without adding an owner to it.
WritesShrink ==
    \E p \in Pods, v \in Version : Publish(p, v) /\ Shrinks(pods[p], v)

LEMMA UsersShrink ==
    ASSUME Unlinked, TypeOK, Users \/ Cluster
    PROVE  NoWrite \/ WritesShrink
<1> USE DEF Version
<1>1. \A p \in Pods : pods[p] # None => pods[p] \in Pod
  BY ClientTypes
<1>2. ASSUME NEW p \in Pods, NEW v \in Version, Edit(p, v), Shrinks(pods[p], v)
      PROVE  WritesShrink
  BY <1>2 DEF Edit, WritesShrink
<1>3. ASSUME NEW p \in Pods, NEW l \in Labels, UserRelabels(p, l) PROVE WritesShrink
  BY <1>1, <1>2, <1>3, EditedPod, EditedOwners DEF UserRelabels, Remains
<1>4. ASSUME NEW p \in Pods, UserOrphans(p) \/ UserDemotes(p) \/ \E o \in Owners : UserLinks(p, o)
      PROVE  FALSE
  BY <1>4 DEF UserOrphans, UserDemotes, UserLinks, Disturb, Unlinked, Undisturbed
<1>5. ASSUME NEW p \in Pods, ForeignAdopts(p) PROVE WritesShrink
  BY <1>1, <1>2, <1>5, EditedPod, EditedOwners DEF ForeignAdopts, Remains
<1>6. ASSUME NEW p \in Pods, Evict(p) PROVE WritesShrink
  BY <1>1, <1>2, <1>6, EditedPod, EditedOwners DEF Evict, Remains
<1>7. ASSUME NEW p \in Pods, PodGone(p) \/ PodEnds(p) PROVE WritesShrink
  <2>1. CASE PodGone(p)
    BY <1>2, <2>1 DEF PodGone, Shrinks
  <2>2. CASE PodEnds(p)
    BY <1>1, <1>2, <2>2, EditedPod, EditedOwners DEF PodEnds, IsActive, Remains
  <2> QED BY <1>7, <2>1, <2>2
<1>8. ASSUME NEW p \in Pods, GarbageCollect(p) PROVE WritesShrink
  <2> DEFINE lost == {o \in OwnersOf(pods[p]) \cap Owners : owners[o] # "live"}
             dead == [pods[p] EXCEPT !.term = TRUE]
             freed == [pods[p] EXCEPT !.plain = @ \ lost, !.ctrl = IF @ \in lost THEN None ELSE @]
  <2>1. pods[p] \in Pod /\ lost \in SUBSET Owners
    BY <1>1, <1>8 DEF GarbageCollect, Remains
  <2>2. dead \in Version /\ freed \in Version
    BY <2>1, EditedPod
  <2>3. Shrinks(pods[p], dead) /\ Shrinks(pods[p], freed)
    BY <2>1, EditedOwners
  <2>4. Edit(p, dead) \/ Edit(p, freed)
    BY <1>8 DEF GarbageCollect
  <2> HIDE DEF lost, dead, freed
  <2> QED BY <1>2, <2>2, <2>3, <2>4
<1>9. ASSUME NEW o \in Owners, UserRemoves(o) \/ OwnerGone(o) PROVE NoWrite
  BY <1>9 DEF UserRemoves, OwnerGone
<1> QED
  BY <1>3, <1>4, <1>5, <1>6, <1>7, <1>8, <1>9 DEF Users, Cluster

LEMMA PassShrinks ==
    ASSUME TypeOK, Worker \/ Scaling
    PROVE  UNCHANGED <<pods, watch>> \/ WritesShrink
<1>1. /\ \A p \in Pods : pods[p] # None => pods[p] \in Pod
      /\ pc # "idle" => job.for \in Owners
  BY ClientTypes DEF Version, Job
<1>2. ASSUME NEW q \in Pods, Release(q) \/ ReleaseFails(q)
      PROVE  UNCHANGED <<pods, watch>> \/ WritesShrink
  <2>1. UpToDate(q) => Released(pods[q]) \in Version /\ Shrinks(pods[q], Released(pods[q]))
    BY <1>1, EditedPod, EditedOwners DEF UpToDate, Released, Version
  <2> QED BY <1>2, <2>1 DEF Release, ReleaseFails, NoWrite, WritesShrink
<1>3. ASSUME NEW q \in Pods, Adopt(q) \/ AdoptFails(q)
      PROVE  UNCHANGED <<pods, watch>> \/ WritesShrink
  <2>1. job.for \in Owners
    BY <1>1, <1>3 DEF Adopt, AdoptFails, Adopts
  <2>2. UpToDate(q) => Adopted(pods[q]) \in Version /\ Shrinks(pods[q], Adopted(pods[q]))
    BY <1>1, <2>1, EditedPod, EditedOwners DEF UpToDate, Adopted, Version
  <2> QED BY <1>3, <2>2 DEF Adopt, AdoptFails, NoWrite, WritesShrink
<1>4. ASSUME NEW q \in Pods, CreatePod(q) PROVE WritesShrink
  <2> DEFINE v == [ctrl |-> job.for, plain |-> {}, label |-> TemplateLabel[job.for],
                ended |-> FALSE, term |-> FALSE]
  <2>1. v \in Version
    <3>1. job.for \in Owners /\ TemplateLabel[job.for] \in Labels
      BY <1>1, <1>4, OwnershipAssumption DEF CreatePod
    <3> QED BY <3>1 DEF Version, Pod
  <2>2. Publish(q, v) /\ pods[q] = None
    BY <1>4 DEF CreatePod, Unknown
  <2> HIDE DEF v
  <2> QED BY <2>1, <2>2 DEF WritesShrink, Shrinks
<1>5. ASSUME NEW q \in Pods, DeletePod(q) PROVE UNCHANGED <<pods, watch>> \/ WritesShrink
  <2>1. pods[q] \in Pod
    BY <1>1, <1>5 DEF DeletePod
  <2> QED BY <1>5, <2>1, EditedPod, EditedOwners DEF DeletePod, NoWrite, WritesShrink, Version
<1>6. ASSUME NEW o \in Owners, FindGone(o) \/ Take(o) PROVE UNCHANGED <<pods, watch>>
  BY <1>6 DEF FindGone, Take
<1>7. WaitForScale \/ ListPods \/ AskToAdopt \/ EndClaims \/ EndSync => UNCHANGED <<pods, watch>>
  BY DEF WaitForScale, ListPods, AskToAdopt, EndClaims, EndSync
<1> QED
  BY <1>2, <1>3, <1>4, <1>5, <1>6, <1>7 DEF Worker, Scaling

LEMMA ShrinkStep ==
    ASSUME Unlinked, TypeOK, InOrder, OwnersShrink, [Next]_vars
    PROVE  OwnersShrink'
<1>1. watch \in [Pods -> Seq(Version)] /\ cache \in [Pods -> Version] /\ pods \in [Pods -> Version]
  BY ClientTypes
<1>2. CASE UNCHANGED <<watch, cache>>
  BY <1>2 DEF OwnersShrink
<1>3. CASE cache' = cache /\ WritesShrink
  <2>1. PICK q \in Pods, v \in Version : Publish(q, v) /\ Shrinks(pods[q], v)
    BY <1>3 DEF WritesShrink
  <2>2. watch' = [watch EXCEPT ![q] = Append(watch[q], v)] /\ cache' = cache
    BY <1>3, <2>1 DEF Publish
  <2>3. Shrinking(cache[q], Append(watch[q], v))
    BY <1>1, <2>1, ShrinkingWrite DEF InOrder, OwnersShrink
  <2> QED BY <1>1, <2>2, <2>3 DEF OwnersShrink
<1>4. ASSUME NEW q \in Pods, PodEvent(q) PROVE OwnersShrink'
  <2>1. /\ watch[q] # <<>>
        /\ cache' = [cache EXCEPT ![q] = Head(watch[q])]
        /\ watch' = [watch EXCEPT ![q] = Tail(watch[q])]
    BY <1>4 DEF PodEvent
  <2>2. Shrinking(Head(watch[q]), Tail(watch[q]))
    BY <1>1, <2>1, ShrinkingEvent DEF OwnersShrink
  <2> QED BY <1>1, <2>1, <2>2 DEF OwnersShrink
<1>5. CASE Crash
  <2>1. \A p \in Pods : watch'[p] = <<>>
    BY <1>5 DEF Crash
  <2> QED BY <2>1 DEF OwnersShrink, Shrinking
<1>6. Worker \/ Scaling \/ Users \/ Cluster => cache' = cache
  <2>1. Users \/ Cluster => cache' = cache
    BY UsersWrite DEF Quiet, Rewrites
  <2>2. Scaling => cache' = cache
    BY ScalingWrites DEF Quiet, Writes
  <2>3. \A q \in Pods : Release(q) \/ ReleaseFails(q) \/ Adopt(q) \/ AdoptFails(q) => cache' = cache
    BY ClaimWrites DEF Quiet, Rewrites
  <2>4. \A o \in Owners : FindGone(o) \/ Take(o) => cache' = cache
    BY DEF FindGone, Take
  <2>5. WaitForScale \/ ListPods \/ AskToAdopt \/ EndClaims \/ EndSync => cache' = cache
    BY DEF WaitForScale, ListPods, AskToAdopt, EndClaims, EndSync
  <2> QED BY <2>1, <2>2, <2>3, <2>4, <2>5 DEF Worker
<1>7. CASE Users \/ Cluster
  BY <1>2, <1>3, <1>6, <1>7, UsersShrink DEF NoWrite
<1>8. CASE Worker \/ Scaling
  BY <1>2, <1>3, <1>6, <1>8, PassShrinks
<1>9. ASSUME NEW o \in Owners, OwnerEvent(o) PROVE UNCHANGED <<watch, cache>>
  BY <1>9 DEF OwnerEvent
<1>10. CASE UNCHANGED vars
  BY <1>2, <1>10 DEF vars
<1> QED
  BY <1>2, <1>4, <1>5, <1>7, <1>8, <1>9, <1>10 DEF Next, Informers

LEMMA AbandonedStep ==
    ASSUME AwaitInvariant, OwnersShrink, AbandonedHandled, [Next]_vars
    PROVE  AbandonedHandled'
<1> SUFFICES ASSUME NEW o \in Owners, NEW p \in Pods, owners'[o] = "live", Abandoned(o, cache'[p])
             PROVE  \/ Handled(o, p)'
                    \/ watch'[p] # <<>> /\ ~Abandoned(o, Head(watch'[p]))
  BY DEF AbandonedHandled, Abandoned, Match, IsActive, Remains
<1>1. /\ TypeOK /\ owners[o] = "live" /\ ownerCache[o] = "live"
      /\ watch \in [Pods -> Seq(Version)] /\ cache \in [Pods -> Version]
  BY OwnersDie, ClientTypes DEF AwaitInvariant, OwnInvariant, ClaimInvariant, LiveIsSeen
<1>2. CASE Crash
  BY <1>1, <1>2 DEF Crash, Handled
<1>3. CASE PodEvent(p)
  <2> DEFINE old == cache[p]  new == Head(watch[p])
  <2>1. /\ cache'[p] = new /\ watch[p] # <<>> /\ new # None /\ ~new.term /\ Abandoned(o, new)
        /\ queued' = queued \cup (Woken(old, new) \cap Owners)
    BY <1>1, <1>3 DEF PodEvent, Abandoned, IsActive, Remains
  <2>2. Shrinks(old, new)
    BY <1>1, <2>1, ShrinkingEvent DEF OwnersShrink
  <2> HIDE DEF old, new
  <2>3. CASE old = None \/ old.ctrl # new.ctrl \/ old.label # new.label
    <3>1. o \in Selecting(new)
      BY <1>1, <2>1 DEF Selecting, Abandoned
    <3>2. o \in Woken(old, new)
      BY <2>1, <2>3, <3>1 DEF Woken, Abandoned
    <3> QED BY <2>1, <3>2 DEF Handled
  <2>4. CASE old # None /\ old.ctrl = new.ctrl /\ old.label = new.label
    <3>1. Abandoned(o, old)
      BY <2>1, <2>2, <2>4 DEF Abandoned, Shrinks, IsActive, Remains, Match
    <3>2. Handled(o, p)
      BY <1>1, <2>1, <3>1 DEF AbandonedHandled, old, new
    <3> QED BY <3>1, <3>2, HandledStep DEF old
  <2> QED BY <2>3, <2>4
<1>4. CASE ~Crash /\ ~PodEvent(p)
  <2>1. /\ cache'[p] = cache[p]
        /\ watch[p] # <<>> => watch'[p] # <<>> /\ Head(watch'[p]) = Head(watch[p])
    BY <1>1, <1>4, NextVersionKept
  <2>2. Handled(o, p) \/ (watch[p] # <<>> /\ ~Abandoned(o, Head(watch[p])))
    BY <1>1, <2>1 DEF AbandonedHandled
  <2> QED BY <2>1, <2>2, HandledStep
<1> QED BY <1>2, <1>3, <1>4

AdoptInvariant == AwaitInvariant /\ OwnersShrink /\ AbandonedHandled

LEMMA AdoptInit == Init => AdoptInvariant
<1> SUFFICES ASSUME Init PROVE AdoptInvariant
  OBVIOUS
<1>1. \A p \in Pods : watch[p] = <<>>
  BY DEF Init
<1> QED
  BY <1>1, AwaitInit DEF AdoptInvariant, OwnersShrink, Shrinking, AbandonedHandled, Handled, Init

\* As long as no user takes pods from an Inplaceu, or makes it one more owner, a pod
\* that it owns and selects is not left without a controller: at rest it was adopted,
\* whatever was lost to conflicts, failed calls and restarts.
THEOREM OwnedPodsGetAdopted ==
    ASSUME Unlinked
    PROVE  Spec => []OwnedPodsAreAdopted
<1>1. AdoptInvariant /\ [Next]_vars => AdoptInvariant'
  BY AwaitStep, ShrinkStep, AbandonedStep
     DEF AdoptInvariant, AwaitInvariant, OwnInvariant, ClaimInvariant, Unlinked
<1>2. AdoptInvariant => OwnedPodsAreAdopted
  <2> SUFFICES ASSUME AdoptInvariant, Rest, NEW o \in Owners, NEW p \in Pods, IsActive(pods[p]),
                      owners[o] = "live", o \in pods[p].plain, Match(o, pods[p])
               PROVE  pods[p].ctrl # None
    BY DEF OwnedPodsAreAdopted, Existing
  <2>1. ~Handled(o, p) /\ watch[p] = <<>> /\ cache[p] = pods[p]
    BY NothingIsHandled DEF AdoptInvariant
  <2> QED BY <2>1 DEF AdoptInvariant, AbandonedHandled, Abandoned
<1> QED
  BY <1>1, <1>2, AdoptInit, PTL DEF Spec
=============================================================================
