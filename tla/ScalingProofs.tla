---------------------------- MODULE ScalingProofs ----------------------------
(***************************************************************************)
(* Scaling is safe for every value of the constants.                       *)
(*                                                                         *)
(* Creation, as long as a call that returns an error has had no effect:    *)
(* every active pod the cache does not show is expected, and createPods    *)
(* keeps to the surge.  World is the half of CreationInvariant about the   *)
(* pods and what is known of them, Pass the half about the worker.         *)
(*                                                                         *)
(* Deletion, as long as moreover nobody but the controller loses pods:     *)
(* scaling in stops at spec.replicas, and the pods a pass saw running go   *)
(* only while enough others run.  Fates and Sparing are the like halves of *)
(* DeletionInvariant.                                                      *)
(*                                                                         *)
(* Both with the invariants of updates and causes: the controller          *)
(* implements Scaler.                                                      *)
(***************************************************************************)
EXTENDS ReconcilerProofs

World == FutureActive /\ CreatedSeen /\ CreateCovered

Pass == Unstarted /\ GatePassed /\ Listed /\ Planned

-----------------------------------------------------------------------------
(* The world. *)

\* A step that moves no pod only has to keep the expectations of active ones.
LEMMA WorldQuiet ==
    ASSUME World, UNCHANGED <<pods, watch, cache, notes>>,
           \A n \in Active : n \in exp.create => n \in exp'.create
    PROVE  World' /\ Active' = Active
BY DEF World, FutureActive, CreatedSeen, CreateCovered, Active

\* A write to a pod that exists, and does not bring a pod back.
LEMMA WorldWrite ==
    ASSUME TypeOK, World, NEW n \in Names, NEW p \in Pod \cup {None}, Publish(n, p),
           pods[n] # None, IsActive(p) => IsActive(pods[n]),
           UNCHANGED <<cache, notes>>, exp'.create = exp.create
    PROVE  World' /\ Active' \subseteq Active /\ Unused \subseteq Unused'
<1>1. /\ pods \in [Names -> Pod \cup {None}]
      /\ watch \in [Names -> Seq(Pod \cup {None})]
  BY DEF TypeOK, ClusterTypeOK
<1>2. /\ pods' = [pods EXCEPT ![n] = p]
      /\ watch' = [watch EXCEPT ![n] = Append(watch[n], p)]
  BY DEF Publish
<1>3. Active' \subseteq Active
  BY <1>1, <1>2 DEF Active
<1>4. FutureActive'
  <2> SUFFICES ASSUME NEW m \in Active', NEW i \in DOMAIN watch'[m]
               PROVE  IsActive(watch'[m][i])
    BY DEF FutureActive
  <2>1. m \in Active
    BY <1>3
  <2>2. CASE m # n
    BY <1>1, <1>2, <2>1, <2>2 DEF World, FutureActive
  <2>3. CASE m = n
    <3>1. IsActive(p)
      BY <1>1, <1>2, <2>3 DEF Active
    <3>2. watch'[n] = Append(watch[n], p) /\ watch[n] \in Seq(Pod \cup {None})
      BY <1>1, <1>2
    <3>3. DOMAIN watch[n] = 1 .. Len(watch[n]) /\ DOMAIN watch'[n] = 1 .. (Len(watch[n]) + 1)
      BY <3>2
    <3>4. CASE i = Len(watch[n]) + 1
      BY <2>3, <3>1, <3>2, <3>4
    <3>5. CASE i \in DOMAIN watch[n]
      <4>1. watch'[n][i] = watch[n][i]
        BY <3>2, <3>3, <3>5
      <4> QED
        BY <2>1, <2>3, <3>5, <4>1 DEF World, FutureActive
    <3>6. Len(watch[n]) \in Nat
      BY <3>2
    <3> QED
      BY <2>3, <3>3, <3>4, <3>5, <3>6
  <2> QED
    BY <2>2, <2>3
<1>5. CreatedSeen' /\ CreateCovered'
  BY <1>3 DEF World, CreatedSeen, CreateCovered
<1>6. Unused \subseteq Unused'
  BY <1>1, <1>2 DEF Unused
<1> QED
  BY <1>3, <1>4, <1>5, <1>6 DEF World

\* The one write that adds a pod.
LEMMA WorldCreate ==
    ASSUME TypeOK, World, NEW n \in exp.create \cap Unused, NEW p \in Pod, Publish(n, p),
           UNCHANGED <<cache, notes>>, exp' = exp, IsActive(p)
    PROVE  /\ World' /\ Active' \subseteq Active \cup {n}
           /\ Unused \ {n} \subseteq Unused'
<1>1. /\ pods \in [Names -> Pod \cup {None}]
      /\ watch \in [Names -> Seq(Pod \cup {None})]
      /\ n \in Names /\ watch[n] = <<>> /\ notes[n] = <<>>
  BY DEF TypeOK, ClusterTypeOK, Unused
<1>2. /\ pods' = [pods EXCEPT ![n] = p]
      /\ watch' = [watch EXCEPT ![n] = Append(<<>>, p)]
  BY <1>1 DEF Publish
<1>3. Active' \subseteq Active \cup {n}
  BY <1>1, <1>2 DEF Active
<1>4. FutureActive'
  <2> SUFFICES ASSUME NEW m \in Active', NEW i \in DOMAIN watch'[m]
               PROVE  IsActive(watch'[m][i])
    BY DEF FutureActive
  <2>1. CASE m # n
    BY <1>1, <1>2, <1>3, <2>1 DEF World, FutureActive
  <2>2. CASE m = n
    <3>1. watch'[n] = <<p>>
      BY <1>1, <1>2
    <3> QED
      BY <2>2, <3>1
  <2> QED
    BY <2>1, <2>2
<1>5. CreatedSeen' /\ CreateCovered'
  <2>1. DOMAIN notes[n] = {}
    BY <1>1
  <2>2. CreatedSeen'
    BY <1>3, <2>1 DEF World, CreatedSeen
  <2>3. CreateCovered'
    BY <1>3 DEF World, CreateCovered
  <2> QED
    BY <2>2, <2>3
<1>6. Unused \ {n} \subseteq Unused'
  BY <1>1, <1>2 DEF Unused
<1> QED
  BY <1>3, <1>4, <1>5, <1>6 DEF World

\* The informer and the handler.
LEMMA WorldInformer ==
    ASSUME TypeOK, World, Informer
    PROVE  /\ World' /\ Active' = Active /\ Unused \subseteq Unused'
           /\ exp'.create \subseteq exp.create
           /\ exp.create \cap Unused \subseteq exp'.create
           /\ UNCHANGED <<pc, job>>
<1> USE DEF Active, Unused
<1>1. CASE InplaceuEvent
  BY <1>1, WorldQuiet DEF InplaceuEvent
<1>2. CASE Resync
  BY <1>2, WorldQuiet DEF Resync, clusterVars
<1>3. CASE InformerRelists
  <2>1. /\ pods' = pods /\ cache' = pods /\ exp' = exp /\ UNCHANGED <<pc, job>>
        /\ watch' = [n \in Names |-> <<>>]
        /\ notes' = [n \in Names |->
                        IF watch[n] = <<>> \/ (cache[n] = None /\ pods[n] = None) THEN notes[n]
                        ELSE Append(notes[n], EventKind(cache[n], pods[n]))]
    BY <1>3 DEF InformerRelists, Relist
  <2>2. FutureActive' /\ CreatedSeen' /\ CreateCovered'
    BY <2>1 DEF FutureActive, CreatedSeen, CreateCovered
  <2> QED
    BY <2>1, <2>2 DEF World
<1>4. ASSUME NEW n \in Names, InformerStep(n)
      PROVE  /\ World' /\ Active' = Active /\ Unused \subseteq Unused'
             /\ exp' = exp /\ UNCHANGED <<pc, job>>
  <2>1. /\ watch \in [Names -> Seq(Pod \cup {None})]
        /\ notes \in [Names -> Seq(EventKinds)]
        /\ cache \in [Names -> Pod \cup {None}]
    BY DEF TypeOK, ClusterTypeOK
  <2>2. /\ pods' = pods /\ exp' = exp /\ UNCHANGED <<pc, job>>
        /\ watch[n] # <<>>
        /\ cache' = [cache EXCEPT ![n] = Head(watch[n])]
        /\ watch' = [watch EXCEPT ![n] = Tail(watch[n])]
        /\ notes' = [notes EXCEPT ![n] = Append(notes[n], EventKind(cache[n], Head(watch[n])))]
    BY <1>4 DEF InformerStep, CacheApply
  <2>3. n \in Active => IsActive(Head(watch[n]))
    BY <2>1, <2>2 DEF World, FutureActive
  <2>4. FutureActive'
    <3> SUFFICES ASSUME NEW m \in Active, NEW i \in DOMAIN watch'[m]
                 PROVE  IsActive(watch'[m][i])
      BY <2>2 DEF FutureActive
    <3>1. CASE m = n
      <4>1. i + 1 \in DOMAIN watch[n] /\ watch'[n][i] = watch[n][i + 1]
        BY <2>1, <2>2, <3>1
      <4> QED
        BY <3>1, <4>1 DEF World, FutureActive
    <3>2. CASE m # n
      BY <2>1, <2>2, <3>2 DEF World, FutureActive
    <3> QED
      BY <3>1, <3>2
  <2>5. CreatedSeen'
    <3> SUFFICES ASSUME NEW m \in Active, NEW i \in DOMAIN notes'[m],
                        notes'[m][i] = "created"
                 PROVE  IsActive(cache'[m])
      BY <2>2 DEF CreatedSeen
    <3>1. CASE m = n
      BY <2>1, <2>2, <2>3, <3>1
    <3>2. CASE m # n
      BY <2>1, <2>2, <3>2 DEF World, CreatedSeen
    <3> QED
      BY <3>1, <3>2
  <2>6. CreateCovered'
    BY <2>1, <2>2, <2>3 DEF World, CreateCovered
  <2> QED
    BY <2>1, <2>2, <2>4, <2>5, <2>6 DEF World
<1>5. ASSUME NEW n \in Names, HandleNote(n)
      PROVE  /\ World' /\ Active' = Active /\ Unused \subseteq Unused'
             /\ exp'.create \subseteq exp.create
             /\ exp.create \cap Unused \subseteq exp'.create
             /\ UNCHANGED <<pc, job>>
  <2>1. /\ notes \in [Names -> Seq(EventKinds)]
        /\ exp \in [create : SUBSET Names, delete : SUBSET Names]
    BY DEF TypeOK, ClusterTypeOK
  <2>2. /\ UNCHANGED <<pods, watch, cache, pc, job>>
        /\ notes[n] # <<>>
        /\ notes' = [notes EXCEPT ![n] = Tail(notes[n])]
        /\ exp' = CASE Head(notes[n]) = "created" -> [exp EXCEPT !.create = exp.create \ {n}]
                    [] Head(notes[n]) = "gone"    -> [exp EXCEPT !.delete = exp.delete \ {n}]
                    [] OTHER                      -> exp
    BY <1>5 DEF HandleNote
  <2>3. /\ exp'.create \subseteq exp.create
        /\ exp.create \ {n} \subseteq exp'.create
        /\ Head(notes[n]) # "created" => exp'.create = exp.create
    BY <2>1, <2>2
  <2>4. FutureActive'
    BY <2>2 DEF World, FutureActive
  <2>5. CreatedSeen'
    <3> SUFFICES ASSUME NEW m \in Active, NEW i \in DOMAIN notes'[m],
                        notes'[m][i] = "created"
                 PROVE  IsActive(cache[m])
      BY <2>2 DEF CreatedSeen
    <3>1. CASE m = n
      <4>1. i + 1 \in DOMAIN notes[n] /\ notes'[n][i] = notes[n][i + 1]
        BY <2>1, <2>2, <3>1
      <4> QED
        BY <3>1, <4>1 DEF World, CreatedSeen
    <3>2. CASE m # n
      BY <2>1, <2>2, <3>2 DEF World, CreatedSeen
    <3> QED
      BY <3>1, <3>2
  <2>6. CreateCovered'
    <3> SUFFICES ASSUME NEW m \in Active PROVE IsActive(cache[m]) \/ m \in exp'.create
      BY <2>2 DEF CreateCovered
    <3>1. CASE m = n /\ Head(notes[n]) = "created"
      <4>1. 1 \in DOMAIN notes[n] /\ notes[n][1] = "created"
        BY <2>1, <2>2, <3>1
      <4> QED
        BY <3>1, <4>1 DEF World, CreatedSeen
    <3>2. CASE ~(m = n /\ Head(notes[n]) = "created")
      BY <2>3, <3>2 DEF World, CreateCovered
    <3> QED
      BY <3>1, <3>2
  <2> QED
    BY <2>1, <2>2, <2>3, <2>4, <2>5, <2>6 DEF World
<1> QED
  BY <1>1, <1>2, <1>3, <1>4, <1>5 DEF Informer

-----------------------------------------------------------------------------
(* The worker. *)

\* A step of anybody else.
LEMMA PassKept ==
    ASSUME Pass, UNCHANGED <<pc, job>>, Active' \subseteq Active, Unused \subseteq Unused',
           exp'.create \subseteq exp.create, exp.create \cap Unused \subseteq exp'.create
    PROVE  Pass'
<1>1. Unstarted' /\ Listed'
  BY DEF Pass, Unstarted, Listed
<1>2. GatePassed'
  BY DEF Pass, GatePassed
<1>3. Planned'
  BY DEF Pass, Planned
<1> QED
  BY <1>1, <1>2, <1>3 DEF Pass

\* A step to where a pass has no list yet, or no creation left to make.
LEMMA PassElsewhere ==
    ASSUME pc' \notin {"check", "list", "versions", "sync", "create"}
    PROVE  Pass'
BY DEF Pass, Unstarted, GatePassed, Listed, Planned

\* From the queue to the list.
LEMMA PassReads ==
    ASSUME TypeOK, World, Pass,
           \/ Take \/ PassScaleGate \/ WaitForScale \/ ListPods
           \/ PassVersionGate \/ WaitForVersions \/ ReconcileFails
    PROVE  World' /\ Pass'
<1>1. World' /\ Active' = Active
  BY WorldQuiet DEF Take, PassScaleGate, WaitForScale, ListPods, PassVersionGate,
                    WaitForVersions, ReconcileFails, clusterVars
<1>2. CASE Take
  <2>1. pc' = "check" /\ job'.made = {} /\ job'.batch = {}
    BY <1>2 DEF Take, NewJob
  <2>2. Pass'
    BY <2>1 DEF Pass, Unstarted, GatePassed, Listed, Planned
  <2> QED
    BY <1>1, <2>2
<1>3. CASE PassScaleGate
  <2>1. pc = "check" /\ pc' = "list" /\ UNCHANGED <<job, exp>> /\ exp.create = {}
    BY <1>3 DEF PassScaleGate, Satisfied
  <2>2. Pass'
    BY <2>1 DEF Pass, Unstarted, GatePassed, Listed, Planned
  <2> QED
    BY <1>1, <2>2
<1>4. CASE ListPods
  <2>1. /\ pc = "list" /\ pc' = "versions" /\ job \in Job
        /\ job' = [job EXCEPT !.view = ActivePods(cache),
                              !.behind = {n \in Names : IsActive(cache[n]) /\ rvExp[n] > 0}]
    BY <1>4 DEF ListPods, TypeOK
  <2>2. /\ job'.view = ActivePods(cache)
        /\ job'.made = job.made /\ job'.batch = job.batch
    BY <2>1 DEF Job
  <2>3. \A n \in Active : IsActive(cache[n])
    BY <2>1 DEF Pass, World, GatePassed, CreateCovered
  <2>4. \A n \in Active : job'.view[n] # None
    BY <2>2, <2>3 DEF ActivePods, IsActive, Active
  <2>5. Pass'
    BY <1>1, <2>1, <2>2, <2>4 DEF Pass, Unstarted, GatePassed, Listed, Planned
  <2> QED
    BY <1>1, <2>5
<1>5. CASE PassVersionGate
  <2>1. pc = "versions" /\ pc' = "sync" /\ job' = job
    BY <1>5 DEF PassVersionGate
  <2>2. Pass'
    BY <1>1, <2>1 DEF Pass, Unstarted, GatePassed, Listed, Planned
  <2> QED
    BY <1>1, <2>2
<1>6. CASE WaitForScale \/ WaitForVersions \/ ReconcileFails
  <2>1. pc' = "idle"
    BY <1>6 DEF WaitForScale, WaitForVersions, ReconcileFails, Return
  <2> QED
    BY <1>1, <2>1, PassElsewhere
<1> QED
  BY <1>2, <1>3, <1>4, <1>5, <1>6

\* The plan of a pass that scales out.
LEMMA PassScalesOut ==
    ASSUME TypeOK, World, Pass, ScaleOut
    PROVE  World' /\ Pass'
<1>1. PICK S \in SUBSET Fresh :
        /\ Cardinality(S) = PassDiffs.scaleUpNum
        /\ exp' = [exp EXCEPT !.create = exp.create \cup S]
        /\ job' = [job EXCEPT !.plan = S, !.todo = S, !.size = 1]
  BY DEF ScaleOut
<1>2. /\ pc = "sync" /\ pc' = "create" /\ PassDiffs.scaleUpNum > 0
      /\ UNCHANGED <<pods, watch, cache, notes>>
      /\ job \in Job /\ job.iu.replicas \in Nat
      /\ exp \in [create : SUBSET Names, delete : SUBSET Names]
  BY DEF ScaleOut, clusterVars, TypeOK, Job, Inplaceu
<1>3. exp'.create = exp.create \cup S
  BY <1>1, <1>2
<1>4. /\ job'.plan = S /\ job'.todo = S /\ job'.view = job.view /\ job'.iu = job.iu
      /\ job'.made = {} /\ job'.batch = {}
  BY <1>1, <1>2 DEF Job, Pass, Unstarted
<1>5. World' /\ Active' = Active
  BY <1>2, <1>3, WorldQuiet
<1>6. S \subseteq Unused'
  BY <1>1, <1>2 DEF Fresh, Unused
<1>7. Cardinality(Members(job.view)) + Cardinality(S) <= job.iu.replicas + Surge(job.iu.replicas)
  BY <1>1, <1>2, ScaleUpNumBound DEF PassDiffs
<1>8. Planned'
  BY <1>3, <1>4, <1>6, <1>7 DEF Planned
<1>9. Unstarted' /\ GatePassed' /\ Listed'
  BY <1>2, <1>4, <1>5 DEF Pass, Unstarted, GatePassed, Listed
<1> QED
  BY <1>5, <1>8, <1>9 DEF Pass

\* createPods.
LEMMA PassCreates ==
    ASSUME TypeOK, World, Pass,
           StartBatch \/ \E n \in Names : CreateOne(n) \/ CreateFails(n)
    PROVE  World' /\ Pass'
<1>1. /\ pc = "create" /\ job \in Job
      /\ exp \in [create : SUBSET Names, delete : SUBSET Names]
  BY DEF StartBatch, CreateOne, CreateFails, TypeOK
<1>2. CASE StartBatch
  <2>1. PICK B \in SUBSET job.todo :
          job' = [job EXCEPT !.batch = B, !.todo = job.todo \ B, !.size = 2 * job.size]
    BY <1>2 DEF StartBatch
  <2>2. /\ job'.batch = B /\ job'.todo = job.todo \ B
        /\ job'.plan = job.plan /\ job'.made = job.made
        /\ job'.view = job.view /\ job'.iu = job.iu
    BY <1>1, <2>1 DEF Job
  <2>3. UNCHANGED <<pods, watch, cache, notes, exp, pc>> /\ job.batch = {}
    BY <1>2 DEF StartBatch, clusterVars
  <2>4. World' /\ Active' = Active
    BY <2>3, WorldQuiet
  <2>5. Planned'
    BY <1>1, <2>2, <2>3 DEF Pass, Planned, Unused
  <2> QED
    BY <1>1, <2>2, <2>3, <2>4, <2>5 DEF Pass, Unstarted, GatePassed, Listed
<1>3. ASSUME NEW n \in Names, CreateFails(n) PROVE World' /\ Pass'
  <2>1. /\ n \in job.batch
        /\ job'.batch = job.batch \ {n} /\ job'.todo = job.todo
        /\ job'.plan = job.plan /\ job'.made = job.made
        /\ job'.view = job.view /\ job'.iu = job.iu
    BY <1>1, <1>3 DEF CreateFails, Job
  <2>2. UNCHANGED <<pods, watch, cache, notes, exp, pc>>
    BY <1>3 DEF CreateFails
  <2>3. World' /\ Active' = Active
    BY <2>2, WorldQuiet
  <2>4. Planned'
    BY <1>1, <2>1, <2>2 DEF Pass, Planned, Unused
  <2> QED
    BY <1>1, <2>1, <2>2, <2>3, <2>4 DEF Pass, Unstarted, GatePassed, Listed
<1>4. ASSUME NEW n \in Names, CreateOne(n) PROVE World' /\ Pass'
  <2>1. /\ n \in job.batch
        /\ job'.batch = job.batch \ {n} /\ job'.made = job.made \cup {n}
        /\ job'.todo = job.todo /\ job'.plan = job.plan
        /\ job'.view = job.view /\ job'.iu = job.iu
    BY <1>1, <1>4 DEF CreateOne, Job
  <2>2. UNCHANGED <<cache, notes, exp, pc>> /\ Publish(n, NewPod(job.iu.rev))
    BY <1>4 DEF CreateOne
  <2>3. n \in exp.create \cap Unused
    BY <1>1, <2>1 DEF Pass, Planned
  <2>4. NewPod(job.iu.rev) \in Pod /\ IsActive(NewPod(job.iu.rev))
    <3>1. NewPod(job.iu.rev) \in Pod
      BY <1>1 DEF NewPod, Pod, Job, Inplaceu
    <3> QED
      BY <3>1, NoneAssumption DEF IsActive, NewPod
  <2>5. World' /\ Active' \subseteq Active \cup {n} /\ Unused \ {n} \subseteq Unused'
    BY <2>2, <2>3, <2>4, WorldCreate
  <2>6. Planned'
    BY <1>1, <2>1, <2>2, <2>5 DEF Pass, Planned
  <2>7. Listed'
    BY <1>1, <2>1, <2>2, <2>5 DEF Pass, Listed
  <2> QED
    BY <1>1, <2>2, <2>5, <2>6, <2>7 DEF Pass, Unstarted, GatePassed
<1> QED
  BY <1>2, <1>3, <1>4

\* The end of createPods takes back only what was not created.
LEMMA PassEndsCreate ==
    ASSUME TypeOK, World, Pass, EndCreate
    PROVE  World' /\ Pass'
<1>1. /\ pc = "create" /\ pc' \in {"update", "status"}
      /\ UNCHANGED <<pods, watch, cache, notes>>
      /\ exp \in [create : SUBSET Names, delete : SUBSET Names]
      /\ exp' = [exp EXCEPT !.create = exp.create \ (job.plan \ job.made)]
  BY DEF EndCreate, clusterVars, TypeOK
<1>2. exp'.create = exp.create \ (job.plan \ job.made)
  BY <1>1
<1>3. \A n \in Active : n \notin job.plan \ job.made
  BY <1>1 DEF Pass, Planned, Unused, Active, IsActive
<1>4. World'
  BY <1>1, <1>2, <1>3, WorldQuiet
<1> QED
  BY <1>1, <1>4, PassElsewhere

\* The steps without a write, after Scale.
LEMMA PassQuiet ==
    ASSUME TypeOK, World, Pass,
           \/ DeleteSpecified \/ ScaleIn \/ NothingToScale \/ EndDelete \/ ChooseUpdates
           \/ StatusIsConsistent \/ UpdateStatus \/ UpdateStatusFails
           \/ \E n \in Names : ExpectDelete(n) \/ DeleteFails(n) \/ UpdateFails(n)
    PROVE  World' /\ Pass'
<1>1. exp \in [create : SUBSET Names, delete : SUBSET Names]
  BY DEF TypeOK
<1>2. CASE DeleteSpecified \/ ScaleIn \/ NothingToScale
  <2>1. PICK S : DeleteNext(S)
    BY <1>2 DEF DeleteSpecified, ScaleIn, NothingToScale
  <2>2. /\ UNCHANGED <<pods, watch, cache, notes, exp>>
        /\ pc' \in {"update", "delete"}
    BY <2>1 DEF DeleteNext, clusterVars
  <2> QED
    BY <2>2, WorldQuiet, PassElsewhere
<1>3. CASE EndDelete \/ ChooseUpdates
  <2>1. /\ UNCHANGED <<pods, watch, cache, notes, exp>>
        /\ pc' \in {"status", "updating"}
    BY <1>3 DEF EndDelete, ChooseUpdates, clusterVars
  <2> QED
    BY <2>1, WorldQuiet, PassElsewhere
<1>4. CASE StatusIsConsistent \/ UpdateStatus \/ UpdateStatusFails
  <2>1. UNCHANGED <<pods, watch, cache, notes, exp>> /\ pc' = "idle"
    BY <1>4 DEF StatusIsConsistent, UpdateStatus, UpdateStatusFails, Return, clusterVars
  <2> QED
    BY <2>1, WorldQuiet, PassElsewhere
<1>5. ASSUME NEW n \in Names, ExpectDelete(n) \/ DeleteFails(n) \/ UpdateFails(n)
      PROVE  World' /\ Pass'
  <2>1. UNCHANGED <<pods, watch, cache, notes>> /\ exp'.create = exp.create
    BY <1>1, <1>5 DEF ExpectDelete, DeleteFails, DeleteStops, UpdateFails, UpdateStops, clusterVars
  <2>2. pc' \in {"delete", "status", "update"}
    BY <1>5 DEF ExpectDelete, DeleteFails, DeleteStops, UpdateFails, UpdateStops
  <2> QED
    BY <2>1, <2>2, WorldQuiet, PassElsewhere
<1> QED
  BY <1>2, <1>3, <1>4, <1>5

\* A pod that Deleted gives is not active.
LEMMA DeletedInactive ==
    ASSUME NEW p \in Pod, NEW q \in Deleted(p)
    PROVE  ~IsActive(q)
BY DEF Deleted, IsActive, Pod

\* The writes of deletePods and Update.
LEMMA PassWrites ==
    ASSUME TypeOK, World, Pass, NEW n \in Names,
           DeleteOne(n) \/ UpdateInPlace(n) \/ UpdateByRecreate(n)
    PROVE  World' /\ Pass'
<1>1. /\ pc' \in {"delete", "updating", "status"}
      /\ UNCHANGED <<cache, notes, exp>>
  BY DEF DeleteOne, UpdateInPlace, UpdateByRecreate, UpdateNext
<1>2. pods \in [Names -> Pod \cup {None}]
  BY DEF TypeOK, ClusterTypeOK
<1>3. CASE UNCHANGED <<pods, watch>>
  BY <1>1, <1>3, WorldQuiet, PassElsewhere
<1>4. ASSUME NEW p \in Pod \cup {None}, Publish(n, p), pods[n] # None,
             IsActive(p) => IsActive(pods[n])
      PROVE  World' /\ Pass'
  BY <1>1, <1>4, WorldWrite, PassElsewhere
<1>5. CASE DeleteOne(n)
  <2>1. pods[n] \in Pod
    BY <1>2, <1>5 DEF DeleteOne
  <2>2. CASE pods[n].term
    BY <1>3, <1>5, <2>2 DEF DeleteOne
  <2>3. CASE ~pods[n].term
    <3>1. PICK p \in Deleted(pods[n]) : Publish(n, p)
      BY <1>5, <2>3 DEF DeleteOne
    <3>2. p \in Pod \cup {None} /\ ~IsActive(p)
      BY <2>1, DeletedType, DeletedInactive
    <3> QED
      BY <1>4, <2>1, <3>1, <3>2, NoneAssumption
  <2> QED
    BY <2>2, <2>3
<1>6. CASE UpdateInPlace(n)
  <2> DEFINE p == [pods[n] EXCEPT !.rev = job.iu.rev]
  <2>1. pods[n] \in Pod /\ pods[n] # None /\ Publish(n, p)
    BY <1>2, <1>6 DEF UpdateInPlace
  <2>2. job.iu.rev \in Revs
    BY <1>6 DEF UpdateInPlace, TypeOK, Job, Inplaceu
  <2>3. p \in Pod /\ p.phase = pods[n].phase /\ p.term = pods[n].term
    BY <2>1, <2>2 DEF Pod
  <2>4. IsActive(p) => IsActive(pods[n])
    BY <2>1, <2>3 DEF IsActive
  <2> HIDE DEF p
  <2> QED
    BY <1>4, <2>1, <2>3, <2>4
<1>7. CASE UpdateByRecreate(n)
  <2> DEFINE p == [pods[n] EXCEPT !.sdel = TRUE]
  <2>1. UNCHANGED <<pods, watch>> \/ (pods[n] # None /\ Publish(n, p))
    BY <1>7 DEF UpdateByRecreate
  <2>2. CASE pods[n] # None /\ Publish(n, p)
    <3>1. pods[n] \in Pod
      BY <1>2, <2>2
    <3>2. p \in Pod /\ p.phase = pods[n].phase /\ p.term = pods[n].term
      BY <3>1 DEF Pod
    <3>3. IsActive(p) => IsActive(pods[n])
      BY <2>2, <3>2 DEF IsActive
    <3> HIDE DEF p
    <3> QED
      BY <1>4, <2>2, <3>2, <3>3
  <2> QED
    BY <1>3, <2>1, <2>2
<1> QED
  BY <1>5, <1>6, <1>7

-----------------------------------------------------------------------------
(* Everybody else. *)

LEMMA CreationEnvironment ==
    ASSUME TypeOK, World, Pass, EnvironmentStep
    PROVE  World' /\ Pass'
<1>1. UNCHANGED <<exp, pc, job>> /\ Environment
  BY DEF EnvironmentStep, controllerVars
<1>2. pods \in [Names -> Pod \cup {None}]
  BY DEF TypeOK, ClusterTypeOK
<1>3. ASSUME NEW n \in Names, NEW p \in Pod \cup {None}, KubeletWrites(n, p),
             IsActive(p) => IsActive(pods[n])
      PROVE  World' /\ Pass'
  <2>1. Publish(n, p) /\ pods[n] # None /\ UNCHANGED <<cache, notes>>
    BY <1>3 DEF KubeletWrites, CanWrite
  <2> QED
    BY <1>1, <1>3, <2>1, WorldWrite, PassKept
<1>4. ASSUME NEW n \in Names, PodRuns(n) \/ PodReady(n) \/ PodFails(n) \/ PodUnready(n)
                              \/ UserMarksDelete(n)
      PROVE  World' /\ Pass'
  <2>1. IsActive(pods[n]) /\ pods[n] \in Pod
    BY <1>2, <1>4 DEF PodRuns, PodReady, PodFails, PodUnready, UserMarksDelete, IsActive
  <2>2. /\ [pods[n] EXCEPT !.phase = "Running"] \in Pod
        /\ [pods[n] EXCEPT !.ready = TRUE] \in Pod
        /\ [pods[n] EXCEPT !.phase = "Failed", !.ready = FALSE] \in Pod
        /\ [pods[n] EXCEPT !.ready = FALSE] \in Pod
        /\ [pods[n] EXCEPT !.sdel = TRUE] \in Pod
    BY <2>1 DEF Pod
  <2>3. \E p \in Pod : KubeletWrites(n, p)
    BY <1>4, <2>2 DEF PodRuns, PodReady, PodFails, PodUnready, UserMarksDelete
  <2> QED
    BY <1>3, <2>1, <2>3
<1>5. ASSUME NEW n \in Names, PodGone(n) PROVE World' /\ Pass'
  BY <1>3, <1>5 DEF PodGone, IsActive
<1>6. ASSUME NEW n \in Names, Evict(n) PROVE World' /\ Pass'
  <2>1. pods[n] \in Pod
    BY <1>2, <1>6 DEF Evict, IsActive
  <2>2. PICK p \in Deleted(pods[n]) : KubeletWrites(n, p)
    BY <1>6 DEF Evict
  <2>3. p \in Pod \cup {None}
    BY <2>1, DeletedType
  <2> QED
    BY <1>3, <1>6, <2>2, <2>3 DEF Evict
<1>7. ASSUME (\E r \in ReplicaChoices : UserScales(r)) \/ (\E rev \in Revs : UserChangesTemplate(rev))
      PROVE  World' /\ Pass'
  <2>1. UNCHANGED <<pods, watch, cache, notes>>
    BY <1>7 DEF UserScales, UserChangesTemplate
  <2>2. World' /\ Active' = Active /\ Unused' = Unused
    BY <1>1, <2>1, WorldQuiet DEF Unused
  <2> QED
    BY <1>1, <2>2, PassKept
<1> QED
  BY <1>1, <1>4, <1>5, <1>6, <1>7 DEF Environment

LEMMA CreationCrash ==
    ASSUME Crash
    PROVE  World' /\ Pass'
<1>1. /\ pods' = pods /\ cache' = pods
      /\ watch' = [n \in Names |-> <<>>]
      /\ notes' = [n \in Names |-> IF pods[n] = None THEN <<>> ELSE <<EventKind(None, pods[n])>>]
      /\ pc' = "idle"
  BY DEF Crash, Reload
<1>2. FutureActive' /\ CreatedSeen' /\ CreateCovered'
  BY <1>1 DEF FutureActive, CreatedSeen, CreateCovered, Active
<1> QED
  BY <1>1, <1>2, PassElsewhere DEF World

LEMMA CreationInit == Init => World /\ Pass
<1> SUFFICES ASSUME Init PROVE World /\ Pass
  OBVIOUS
<1>1. cache = pods /\ watch = [n \in Names |-> <<>>] /\ notes = [n \in Names |-> <<>>]
  BY DEF Init
<1>2. FutureActive /\ CreatedSeen /\ CreateCovered
  BY <1>1 DEF FutureActive, CreatedSeen, CreateCovered, Active
<1>3. Pass
  BY DEF Init, Pass, Unstarted, GatePassed, Listed, Planned
<1> QED
  BY <1>2, <1>3 DEF World

\* An API call that returns an error has had no effect.
NoTimeouts == "timeout" \notin Disturbances

LEMMA CreationStep ==
    ASSUME NoTimeouts, TypeOK, World, Pass, [Next]_vars
    PROVE  World' /\ Pass'
<1>1. CASE Worker
  BY <1>1, PassReads, PassScalesOut, PassCreates, PassEndsCreate, PassQuiet, PassWrites
  DEF Worker
<1>2. CASE WorkerFault
  <2>1. ReconcileFails \/ \E n \in Names : CreateFails(n)
    BY <1>2 DEF WorkerFault, CreateTimesOut, DeleteTimesOut, UpdateTimesOut,
                UpdateStatusTimesOut, Slip, Disturb, NoTimeouts
  <2> QED
    BY <2>1, PassReads, PassCreates
<1>3. CASE Informer
  BY <1>3, WorldInformer, PassKept
<1>4. CASE UNCHANGED vars
  <2>1. UNCHANGED <<pods, watch, cache, notes, exp, pc, job>>
    BY <1>4 DEF vars, clusterVars, controllerVars
  <2>2. World' /\ Active' = Active /\ Unused' = Unused
    BY <2>1, WorldQuiet DEF Unused
  <2> QED
    BY <2>1, <2>2, PassKept
<1> QED
  BY <1>1, <1>2, <1>3, <1>4, CreationEnvironment, CreationCrash DEF Next

-----------------------------------------------------------------------------
\* The inductive invariant holds of a controller whose failed calls have no effect.
THEOREM CreationSafe == NoTimeouts => (Spec => []CreationInvariant)
<1> SUFFICES ASSUME NoTimeouts PROVE Spec => []CreationInvariant
  OBVIOUS
<1> DEFINE Inv == TypeOK /\ World /\ Pass
<1>1. Init => Inv
  BY InitTypeOK, CreationInit
<1>2. Inv /\ [Next]_vars => Inv'
  BY NextTypeOK, CreationStep
<1>3. Inv => CreationInvariant
  BY DEF CreationInvariant, World, Pass
<1> HIDE DEF Inv
<1> QED
  BY <1>1, <1>2, <1>3, PTL DEF Spec

\* No active pod is invisible to both the cache and the scale expectations,
\* whatever the order of writes, events, crashes and lost watches.
THEOREM CreatedPodsAreCovered == NoTimeouts => (Spec => []CreateCovered)
<1>1. CreationInvariant => CreateCovered
  BY DEF CreationInvariant
<1> QED
  BY <1>1, CreationSafe, PTL

\* The bound follows from the list a pass works on and the plan it made of it.
LEMMA BoundFromPlan ==
    ASSUME TypeOK, CreationInvariant
    PROVE  SurgeBound
<1> SUFFICES ASSUME pc = "create"
             PROVE  Cardinality(Active \cup job.todo \cup job.batch)
                      <= job.iu.replicas + Surge(job.iu.replicas)
  BY DEF SurgeBound
<1> DEFINE M == Members(job.view)
           P == job.plan
<1>1. job \in Job /\ M \subseteq Names /\ P \subseteq Names
  BY DEF TypeOK, Job, Members
<1>2. Active \cup job.todo \cup job.batch \subseteq M \cup P
  BY DEF CreationInvariant, Listed, Planned, Members, Active
<1>3. /\ Cardinality(M) + Cardinality(P) <= job.iu.replicas + Surge(job.iu.replicas)
      /\ job.iu.replicas \in Nat
  BY <1>1 DEF CreationInvariant, Planned, Job, Inplaceu
<1>4. Surge(job.iu.replicas) \in Nat
  BY <1>3, StrategyAssumption, GetValueType DEF Surge
<1> HIDE DEF M, P
<1>5. IsFiniteSet(M) /\ IsFiniteSet(P) /\ IsFiniteSet(M \cap P) /\ IsFiniteSet(M \cup P)
  BY <1>1, CountIsNat
<1>6. Cardinality(M \cup P) = Cardinality(M) + Cardinality(P) - Cardinality(M \cap P)
  BY <1>5, FS_Union
<1>7. Cardinality(Active \cup job.todo \cup job.batch) <= Cardinality(M \cup P)
  BY <1>2, <1>5, FS_Subset
<1>8. /\ Cardinality(M) \in Nat /\ Cardinality(P) \in Nat /\ Cardinality(M \cap P) \in Nat
      /\ Cardinality(Active \cup job.todo \cup job.batch) \in Nat
  BY <1>2, <1>5, FS_Subset, FS_CardinalityType
<1> QED
  BY <1>3, <1>4, <1>6, <1>7, <1>8

\* However late the cache is, the pods there are and those a pass may still
\* create are at most spec.replicas plus maxSurge.
THEOREM SurgeIsBounded == NoTimeouts => (Spec => []SurgeBound)
<1>1. TypeOK /\ CreationInvariant => SurgeBound
  BY BoundFromPlan
<1> QED
  BY <1>1, CreationSafe, TypeCorrect, PTL

-----------------------------------------------------------------------------
(* Deletion. *)

Fates == EndsForGood /\ GoneSeen /\ DeleteCovered /\ RunsOn

Sparing == ListedAlive /\ Spared

-----------------------------------------------------------------------------
(* The counts. *)

LEMMA UnionOfFour ==
    ASSUME NEW A, NEW B, NEW C, NEW D, NEW X,
           A \subseteq Names, B \subseteq Names, C \subseteq Names, D \subseteq Names,
           X \subseteq ((A \cup B) \cup C) \cup D
    PROVE  Cardinality(X) <= Cardinality(A) + Cardinality(B) + Cardinality(C) + Cardinality(D)
<1> DEFINE AB == A \cup B
           ABC == AB \cup C
           ABCD == ABC \cup D
<1>1. /\ IsFiniteSet(A) /\ IsFiniteSet(B) /\ IsFiniteSet(A \cap B)
      /\ Cardinality(A) \in Nat /\ Cardinality(B) \in Nat /\ Cardinality(A \cap B) \in Nat
  BY CountIsNat
<1>2. Cardinality(AB) = Cardinality(A) + Cardinality(B) - Cardinality(A \cap B)
  BY <1>1, FS_Union
<1>3. /\ IsFiniteSet(AB) /\ IsFiniteSet(C) /\ IsFiniteSet(AB \cap C)
      /\ Cardinality(AB) \in Nat /\ Cardinality(C) \in Nat /\ Cardinality(AB \cap C) \in Nat
  BY CountIsNat
<1>4. Cardinality(ABC) = Cardinality(AB) + Cardinality(C) - Cardinality(AB \cap C)
  BY <1>3, FS_Union
<1>5. /\ IsFiniteSet(ABC) /\ IsFiniteSet(D) /\ IsFiniteSet(ABC \cap D)
      /\ Cardinality(ABC) \in Nat /\ Cardinality(D) \in Nat /\ Cardinality(ABC \cap D) \in Nat
  BY CountIsNat
<1>6. Cardinality(ABCD) = Cardinality(ABC) + Cardinality(D) - Cardinality(ABC \cap D)
  BY <1>5, FS_Union
<1>7. /\ IsFiniteSet(ABCD) /\ Cardinality(ABCD) \in Nat /\ Cardinality(X) \in Nat
      /\ Cardinality(X) <= Cardinality(ABCD)
  BY CountIsNat, FS_Subset
<1> HIDE DEF AB, ABC, ABCD
<1> QED
  BY <1>1, <1>2, <1>3, <1>4, <1>5, <1>6, <1>7

\* choosePodsToDelete leaves spec.replicas pods of the list.
LEMMA ScaleInSpares ==
    ASSUME NEW replicas \in Nat, NEW view, NEW rev,
           NEW S \in ScaleInChoices(view, rev, Diffs(replicas, view, rev)),
           Diffs(replicas, view, rev).scaleDownNum > 0
    PROVE  /\ S \subseteq Members(view)
           /\ Cardinality(Members(view) \ S) >= replicas
<1> DEFINE M        == Members(view)
           U        == Updated(view, rev)
           marked   == Cardinality(SpecifiedDelete(view))
           outdated == Cardinality((M \ U) \ SpecifiedDelete(view))
           use      == UseSurge(replicas, marked, outdated)
           excess   == Cardinality(M) - (replicas + use)
           down     == Diffs(replicas, view, rev).scaleDownNum
           d        == Diffs(replicas, view, rev)
<1>1. M \subseteq Names /\ U \subseteq M /\ SpecifiedDelete(view) \subseteq M
  BY DEF Members, Updated, SpecifiedDelete
<1>2. PICK C \in PodsPreparingToDelete(view, rev, d) :
        \E R \in RunningWithinLimit(C, view, rev, d) : S = (C \ Running(C, view)) \cup R
  BY DEF ScaleInChoices
<1>3. PICK R \in RunningWithinLimit(C, view, rev, d) : S = (C \ Running(C, view)) \cup R
  BY <1>2
<1>4. C \subseteq U /\ Cardinality(C) = Smaller(down, Cardinality(U))
  BY <1>2 DEF PodsPreparingToDelete, Prefixes, Prefix
<1>5. R \subseteq Running(C, view)
  BY <1>3 DEF RunningWithinLimit, Prefixes, Prefix
<1>6. S \subseteq C
  BY <1>3, <1>5 DEF Running
<1>7. marked \in Nat /\ outdated \in Nat /\ Cardinality(M) \in Nat /\ Cardinality(U) \in Nat
  BY <1>1, CountIsNat
<1>8. use \in Nat
  BY <1>7, UseSurgeBound
<1>9. down = Larger(excess - marked, 0)
  BY DEF Diffs
<1> HIDE DEF M, U, marked, outdated, use
<1>10. down = Cardinality(M) - (replicas + use) - marked
  BY <1>7, <1>8, <1>9 DEF Larger
<1> HIDE DEF down, excess
<1>11. down \in Int
  BY <1>7, <1>8, <1>10
<1>12. Cardinality(C) <= down
  BY <1>4, <1>7, <1>11 DEF Smaller
<1>13. /\ Cardinality(S) <= Cardinality(C)
       /\ Cardinality(S) \in Nat /\ Cardinality(C) \in Nat
  BY <1>1, <1>4, <1>6, LargerSetCounts
<1>14. Cardinality(M \ S) = Cardinality(M) - Cardinality(S)
  <2>1. S \subseteq M /\ M \cap S = S
    BY <1>1, <1>4, <1>6
  <2>2. Cardinality(M \ S) = Cardinality(M) - Cardinality(M \cap S)
    BY <1>1, <2>1, CountIsNat, FS_Difference
  <2> QED
    BY <2>1, <2>2
<1>15. S \subseteq M
  BY <1>1, <1>4, <1>6
<1>16. Cardinality(M \ S) >= replicas
  BY <1>7, <1>8, <1>10, <1>12, <1>13, <1>14
<1> QED
  BY <1>15, <1>16 DEF M

\* Whom deleteReadyLimit lets through leaves enough running pods of the list, the
\* marked ones that are not available aside.
LEMMA LimitSpares ==
    ASSUME NEW replicas \in Nat, NEW view, NEW rev, NEW S, NEW R,
           R # {}, R \subseteq Members(view),
           Cardinality(R) <= Diffs(replicas, view, rev).deleteReadyLimit,
           NEW E, E = {n \in SpecifiedDelete(view) : ~IsPodAvailable(view[n])},
           Running(S, view) \subseteq R \cup E
    PROVE  Cardinality(Running(Members(view), view) \ S) + Cardinality(E)
             >= replicas - Unavailable(replicas)
<1> DEFINE M    == Members(view)
           K    == Running(Members(view), view) \ S
           D    == NotRunning(view) \ SpecifiedDelete(view)
           lim  == Diffs(replicas, view, rev).deleteReadyLimit
<1>1. M \subseteq Names /\ K \subseteq Names /\ D \subseteq Names /\ E \subseteq Names /\ R \subseteq Names
  BY DEF Members, Running, NotRunning, SpecifiedDelete
<1>2. M \subseteq ((K \cup D) \cup R) \cup E
  BY DEF Members, Running, NotRunning, SpecifiedDelete, IsPodAvailable
<1>3. Cardinality(M) <= Cardinality(K) + Cardinality(D) + Cardinality(R) + Cardinality(E)
  BY <1>1, <1>2, UnionOfFour
<1>4. /\ Cardinality(M) \in Nat /\ Cardinality(K) \in Nat /\ Cardinality(D) \in Nat
      /\ Cardinality(R) \in Nat /\ Cardinality(E) \in Nat
  BY <1>1, CountIsNat
<1>5. Unavailable(replicas) \in Nat
  BY UnavailableType
<1>6. Cardinality(R) # 0
  BY <1>1, CountIsNat, FS_EmptySet
<1>7. lim = 0 \/ lim = DeleteReadyLimit(replicas, Cardinality(M), Cardinality(D))
  BY DEF Diffs
<1>8. Cardinality(R) <= lim
  OBVIOUS
<1> HIDE DEF M, K, D, lim
<1>9. lim = Unavailable(replicas) + (Cardinality(M) - replicas) - Cardinality(D)
  BY <1>4, <1>5, <1>6, <1>7, <1>8 DEF DeleteReadyLimit, Larger
<1>10. Cardinality(K) + Cardinality(E) >= replicas - Unavailable(replicas)
  BY <1>3, <1>4, <1>5, <1>8, <1>9
<1> QED
  BY <1>10 DEF K

\* Of two available counts, the one a pass of scaling in starts deletePods with.
LEMMA ScaleInSparesRunning ==
    ASSUME NEW replicas \in Nat, NEW view, NEW rev,
           NEW S \in ScaleInChoices(view, rev, Diffs(replicas, view, rev)),
           NEW E, E = {n \in SpecifiedDelete(view) : ~IsPodAvailable(view[n])},
           \E n \in S \ E : IsRunning(view[n])
    PROVE  Cardinality(Running(Members(view), view) \ S) + Cardinality(E)
             >= replicas - Unavailable(replicas)
<1> DEFINE d == Diffs(replicas, view, rev)
<1>1. PICK C \in PodsPreparingToDelete(view, rev, d) :
        \E R \in RunningWithinLimit(C, view, rev, d) : S = (C \ Running(C, view)) \cup R
  BY DEF ScaleInChoices
<1>2. PICK R \in RunningWithinLimit(C, view, rev, d) : S = (C \ Running(C, view)) \cup R
  BY <1>1
<1>3. /\ R \subseteq Running(C, view)
      /\ Cardinality(R) = Smaller(d.deleteReadyLimit, Cardinality(Running(C, view)))
  BY <1>2 DEF RunningWithinLimit, Prefixes, Prefix
<1>4. C \subseteq Members(view)
  BY <1>1 DEF PodsPreparingToDelete, Prefixes, Prefix, Updated
<1>5. Running(S, view) \subseteq R
  BY <1>2, <1>3 DEF Running
<1>6. R # {} /\ R \subseteq Members(view)
  BY <1>2, <1>3, <1>4, <1>5 DEF Running
<1>7. Cardinality(R) <= d.deleteReadyLimit
  <2>1. d.deleteReadyLimit \in Int
    BY DiffsLimitType
  <2>2. Cardinality(Running(C, view)) \in Nat
    BY <1>4, CountIsNat DEF Running, Members
  <2> HIDE DEF d
  <2> QED
    BY <1>3, <2>1, <2>2 DEF Smaller
<1> QED
  BY <1>5, <1>6, <1>7, LimitSpares

\* Step 4: of the marked pods, the limit is for those that are available.
LEMMA SpecifiedSparesRunning ==
    ASSUME NEW replicas \in Nat, NEW view, NEW rev,
           NEW S \in SpecifiedDeleteChoices(view, Diffs(replicas, view, rev)),
           NEW E, E = {n \in SpecifiedDelete(view) : ~IsPodAvailable(view[n])},
           \E n \in S \ E : IsRunning(view[n])
    PROVE  Cardinality(Running(Members(view), view) \ S) + Cardinality(E)
             >= replicas - Unavailable(replicas)
<1> DEFINE d      == Diffs(replicas, view, rev)
           marked == SpecifiedDelete(view)
           ready  == {n \in marked : IsPodAvailable(view[n])}
<1>1. PICK R \in SUBSET ready :
        /\ Cardinality(R) = Smaller(d.deleteReadyLimit, Cardinality(ready))
        /\ S = (marked \ ready) \cup R
  BY DEF SpecifiedDeleteChoices
<1>2. Running(S, view) \subseteq R \cup E
  BY <1>1 DEF Running
<1>3. R # {} /\ R \subseteq Members(view)
  BY <1>1 DEF SpecifiedDelete
<1>4. Cardinality(R) <= d.deleteReadyLimit
  <2>1. d.deleteReadyLimit \in Int
    BY DiffsLimitType
  <2>2. Cardinality(ready) \in Nat
    BY CountIsNat DEF SpecifiedDelete, Members
  <2> HIDE DEF d, ready
  <2> QED
    BY <1>1, <2>1, <2>2 DEF Smaller
<1> QED
  BY <1>2, <1>3, <1>4, LimitSpares

-----------------------------------------------------------------------------
(* The pods, and what is known of them. *)

\* A step that moves no pod has to keep the expected deletions it still needs.
LEMMA FatesQuiet ==
    ASSUME Fates, UNCHANGED <<pods, watch, cache, notes>>,
           \A n \in Names \ Active : Shown(n) /\ n \in exp.delete => n \in exp'.delete
    PROVE  /\ Fates' /\ Active' = Active
           /\ RunningPods' = RunningPods
<1>1. Active' = Active /\ RunningPods' = RunningPods /\ Active \subseteq Names
  BY DEF Active, RunningPods
<1>2. \A n \in Names : Shown(n)' = Shown(n) /\ ShownRunning(n)' = ShownRunning(n)
  BY DEF Shown, ShownRunning
<1> HIDE DEF Shown, ShownRunning
<1>3. EndsForGood' /\ GoneSeen'
  BY <1>1, <1>2 DEF Fates, EndsForGood, GoneSeen
<1>4. DeleteCovered' /\ RunsOn'
  BY <1>1, <1>2 DEF Fates, DeleteCovered, RunsOn
<1> QED
  BY <1>1, <1>3, <1>4 DEF Fates

\* What the cache is going to show after a write.
LEMMA ShownAfterWrite ==
    ASSUME TypeOK, NEW n \in Names, NEW p \in Pod \cup {None}, Publish(n, p), cache' = cache
    PROVE  /\ Shown(n)' <=> Shown(n) \/ IsActive(p)
           /\ ShownRunning(n)' <=> ShownRunning(n) \/ RunningVersion(p)
           /\ \A m \in Names \ {n} : /\ Shown(m)' <=> Shown(m)
                                     /\ ShownRunning(m)' <=> ShownRunning(m)
           /\ DOMAIN watch[n] = 1 .. Len(watch[n]) /\ Len(watch[n]) \in Nat
           /\ DOMAIN watch'[n] = 1 .. (Len(watch[n]) + 1)
           /\ \A i \in DOMAIN watch[n] : i \in DOMAIN watch'[n] /\ watch'[n][i] = watch[n][i]
           /\ watch'[n][Len(watch[n]) + 1] = p
           /\ \A m \in Names \ {n} : watch'[m] = watch[m] /\ pods'[m] = pods[m]
           /\ pods'[n] = p
<1>1. /\ watch \in [Names -> Seq(Pod \cup {None})]
      /\ pods \in [Names -> Pod \cup {None}]
  BY DEF TypeOK, ClusterTypeOK
<1>2. /\ watch' = [watch EXCEPT ![n] = Append(watch[n], p)]
      /\ pods' = [pods EXCEPT ![n] = p]
  BY DEF Publish
<1>3. /\ watch'[n] = Append(watch[n], p) /\ watch[n] \in Seq(Pod \cup {None})
      /\ pods'[n] = p
      /\ \A m \in Names \ {n} : watch'[m] = watch[m] /\ pods'[m] = pods[m]
  BY <1>1, <1>2
<1>4. /\ DOMAIN watch[n] = 1 .. Len(watch[n]) /\ Len(watch[n]) \in Nat
      /\ DOMAIN watch'[n] = 1 .. (Len(watch[n]) + 1)
  BY <1>3
<1>5. /\ \A i \in DOMAIN watch[n] : i \in DOMAIN watch'[n] /\ watch'[n][i] = watch[n][i]
      /\ watch'[n][Len(watch[n]) + 1] = p
  BY <1>3, <1>4
<1>6. \A i \in DOMAIN watch'[n] : i \in DOMAIN watch[n] \/ i = Len(watch[n]) + 1
  BY <1>4
<1>7. Len(watch[n]) + 1 \in DOMAIN watch'[n]
  BY <1>4
<1>8. /\ Shown(n)' <=> Shown(n) \/ IsActive(p)
      /\ ShownRunning(n)' <=> ShownRunning(n) \/ RunningVersion(p)
  BY <1>5, <1>6, <1>7 DEF Shown, ShownRunning
<1>9. \A m \in Names \ {n} : (Shown(m)' <=> Shown(m)) /\ (ShownRunning(m)' <=> ShownRunning(m))
  BY <1>3 DEF Shown, ShownRunning
<1> QED
  BY <1>3, <1>4, <1>5, <1>8, <1>9

\* A write that takes an active pod away only when that is expected.
LEMMA FatesWrite ==
    ASSUME TypeOK, World, Fates, NEW n \in Names, NEW p \in Pod \cup {None}, Publish(n, p),
           IsActive(p) => n \in Active /\ (n \in RunningPods => IsRunning(p)),
           n \in Active /\ ~IsActive(p) => n \in exp.delete,
           UNCHANGED <<cache, notes>>, exp' = exp
    PROVE  /\ Fates'
           /\ Active' = IF IsActive(p) THEN Active ELSE Active \ {n}
           /\ RunningPods \ {n} \subseteq RunningPods'
           /\ IsActive(p) => RunningPods \subseteq RunningPods'
<1>1. /\ \A m \in Names \ {n} : watch'[m] = watch[m] /\ pods'[m] = pods[m]
      /\ pods'[n] = p
  BY ShownAfterWrite
<1>2. Active' = IF IsActive(p) THEN Active ELSE Active \ {n}
  BY <1>1 DEF Active
<1>3. /\ RunningPods \ {n} \subseteq RunningPods'
      /\ IsActive(p) => RunningPods \subseteq RunningPods'
  BY <1>1, <1>2 DEF RunningPods, Active
<1>4. EndsForGood'
  <2> SUFFICES ASSUME NEW m \in Names, NEW i \in DOMAIN watch'[m], NEW j \in DOMAIN watch'[m],
                      i < j, IsActive(watch'[m][j])
               PROVE  IsActive(watch'[m][i])
    BY DEF EndsForGood
  <2>1. CASE m # n
    BY <1>1, <2>1 DEF Fates, EndsForGood
  <2>2. CASE m = n
    <3>1. /\ DOMAIN watch[n] = 1 .. Len(watch[n]) /\ Len(watch[n]) \in Nat
          /\ DOMAIN watch'[n] = 1 .. (Len(watch[n]) + 1)
          /\ \A k \in DOMAIN watch[n] : watch'[n][k] = watch[n][k]
          /\ watch'[n][Len(watch[n]) + 1] = p
      BY ShownAfterWrite
    <3>2. i \in DOMAIN watch[n]
      BY <2>2, <3>1
    <3>3. CASE j \in DOMAIN watch[n]
      BY <2>2, <3>1, <3>2, <3>3 DEF Fates, EndsForGood
    <3>4. CASE j = Len(watch[n]) + 1
      <4>1. n \in Active
        BY <2>2, <3>1, <3>4
      <4> QED
        BY <2>2, <3>1, <3>2, <4>1 DEF World, FutureActive
    <3> QED
      BY <2>2, <3>1, <3>3, <3>4
  <2> QED
    BY <2>1, <2>2
<1>5. /\ Shown(n)' <=> Shown(n) \/ IsActive(p)
      /\ ShownRunning(n)' <=> ShownRunning(n) \/ RunningVersion(p)
      /\ \A m \in Names \ {n} : /\ Shown(m)' <=> Shown(m)
                                /\ ShownRunning(m)' <=> ShownRunning(m)
  BY ShownAfterWrite
<1> HIDE DEF Shown, ShownRunning
<1>6. GoneSeen'
  BY <1>2, <1>5 DEF Fates, GoneSeen
<1>7. DeleteCovered'
  BY <1>2, <1>5 DEF Fates, DeleteCovered
<1>8. RunsOn'
  <2> SUFFICES ASSUME NEW m \in Active', ShownRunning(m)'
               PROVE  IsRunning(pods'[m])
    BY DEF RunsOn
  <2>1. m \in Active /\ m \in Names
    BY <1>2 DEF Active
  <2>2. CASE m # n
    BY <1>1, <1>5, <2>1, <2>2 DEF Fates, RunsOn
  <2>3. CASE m = n
    <3>1. IsActive(p)
      BY <1>2, <2>3
    <3>2. CASE ShownRunning(n)
      BY <1>1, <2>1, <2>3, <3>1, <3>2 DEF Fates, RunsOn, RunningPods
    <3>3. CASE RunningVersion(p)
      BY <1>1, <2>3, <3>3 DEF RunningVersion
    <3> QED
      BY <1>5, <2>3, <3>2, <3>3
  <2> QED
    BY <2>2, <2>3
<1> QED
  BY <1>2, <1>3, <1>4, <1>6, <1>7, <1>8 DEF Fates

\* A new pod: nothing is known of its name yet.
LEMMA FatesCreate ==
    ASSUME TypeOK, Fates, NEW n \in Unused, NEW p \in Pod, Publish(n, p),
           IsActive(p), ~IsRunning(p), UNCHANGED <<cache, notes>>, exp' = exp
    PROVE  Fates'
<1>1. /\ n \in Names /\ watch[n] = <<>> /\ notes[n] = <<>> /\ cache[n] = None
      /\ pods \in [Names -> Pod \cup {None}]
      /\ watch \in [Names -> Seq(Pod \cup {None})]
  BY DEF Unused, TypeOK, ClusterTypeOK
<1>2. /\ \A m \in Names \ {n} : watch'[m] = watch[m] /\ pods'[m] = pods[m]
      /\ pods'[n] = p
  BY <1>1, ShownAfterWrite
<1>3. watch'[n] = <<p>>
  BY <1>1 DEF Publish
<1>4. Active' = Active \cup {n} /\ Active \subseteq Names
  BY <1>1, <1>2 DEF Active
<1>5. EndsForGood'
  <2> SUFFICES ASSUME NEW m \in Names, NEW i \in DOMAIN watch'[m], NEW j \in DOMAIN watch'[m],
                      i < j, IsActive(watch'[m][j])
               PROVE  IsActive(watch'[m][i])
    BY DEF EndsForGood
  <2>1. CASE m # n
    BY <1>2, <2>1 DEF Fates, EndsForGood
  <2>2. CASE m = n
    BY <1>3, <2>2
  <2> QED
    BY <2>1, <2>2
<1>6. ~ShownRunning(n)'
  BY <1>1, <1>3 DEF ShownRunning, RunningVersion, IsActive
<1>7. \A m \in Names \ {n} : (Shown(m)' <=> Shown(m)) /\ (ShownRunning(m)' <=> ShownRunning(m))
  BY <1>1, ShownAfterWrite
<1>8. DOMAIN notes[n] = {}
  BY <1>1
<1> HIDE DEF Shown, ShownRunning
<1>9. GoneSeen'
  BY <1>4, <1>7, <1>8 DEF Fates, GoneSeen
<1>10. DeleteCovered'
  BY <1>4, <1>7 DEF Fates, DeleteCovered
<1>11. RunsOn'
  BY <1>2, <1>4, <1>6, <1>7 DEF Fates, RunsOn
<1> QED
  BY <1>5, <1>9, <1>10, <1>11 DEF Fates

\* One version more in the cache.
LEMMA FatesInformerStep ==
    ASSUME TypeOK, World, Fates, NEW n \in Names, InformerStep(n)
    PROVE  Fates'
<1>1. /\ watch \in [Names -> Seq(Pod \cup {None})]
      /\ notes \in [Names -> Seq(EventKinds)]
      /\ cache \in [Names -> Pod \cup {None}]
  BY DEF TypeOK, ClusterTypeOK
<1>2. /\ pods' = pods /\ exp' = exp
      /\ watch[n] # <<>>
      /\ cache' = [cache EXCEPT ![n] = Head(watch[n])]
      /\ watch' = [watch EXCEPT ![n] = Tail(watch[n])]
      /\ notes' = [notes EXCEPT ![n] = Append(notes[n], EventKind(cache[n], Head(watch[n])))]
  BY DEF InformerStep, CacheApply
<1>3. /\ cache'[n] = watch[n][1] /\ 1 \in DOMAIN watch[n]
      /\ \A i \in DOMAIN watch'[n] :
            i \in Nat /\ i >= 1 /\ i + 1 \in DOMAIN watch[n] /\ watch'[n][i] = watch[n][i + 1]
      /\ \A m \in Names \ {n} : cache'[m] = cache[m] /\ watch'[m] = watch[m] /\ notes'[m] = notes[m]
  BY <1>1, <1>2
<1>4. Active' = Active /\ Active \subseteq Names
  BY <1>2 DEF Active
<1>5. EndsForGood'
  <2> SUFFICES ASSUME NEW m \in Names, NEW i \in DOMAIN watch'[m], NEW j \in DOMAIN watch'[m],
                      i < j, IsActive(watch'[m][j])
               PROVE  IsActive(watch'[m][i])
    BY DEF EndsForGood
  <2>1. CASE m # n
    BY <1>3, <2>1 DEF Fates, EndsForGood
  <2>2. CASE m = n
    BY <1>3, <2>2 DEF Fates, EndsForGood
  <2> QED
    BY <2>1, <2>2
<1>6. Shown(n)' => Shown(n)
  BY <1>3 DEF Shown
<1>7. ShownRunning(n)' => ShownRunning(n)
  BY <1>3 DEF ShownRunning
<1>8. \A m \in Names \ {n} : (Shown(m)' <=> Shown(m)) /\ (ShownRunning(m)' <=> ShownRunning(m))
  BY <1>3 DEF Shown, ShownRunning
<1>9. ~IsActive(watch[n][1]) => ~Shown(n)' /\ n \notin Active
  <2>1. ASSUME NEW i \in DOMAIN watch'[n], IsActive(watch'[n][i])
        PROVE  IsActive(watch[n][1])
    BY <1>3, <2>1 DEF Fates, EndsForGood
  <2>2. n \in Active => IsActive(watch[n][1])
    BY <1>3 DEF World, FutureActive
  <2> QED
    BY <1>3, <2>1, <2>2 DEF Shown
<1>10. GoneSeen'
  <2> SUFFICES ASSUME NEW m \in Names, NEW i \in DOMAIN notes'[m], notes'[m][i] = "gone"
               PROVE  m \notin Active' /\ ~Shown(m)'
    BY DEF GoneSeen
  <2>1. CASE m # n
    BY <1>3, <1>4, <1>8, <2>1 DEF Fates, GoneSeen
  <2>2. CASE m = n /\ i \in DOMAIN notes[n] /\ notes[n][i] = "gone"
    BY <1>4, <1>6, <2>2 DEF Fates, GoneSeen
  <2>3. CASE m = n /\ EventKind(cache[n], Head(watch[n])) = "gone"
    <3>1. ~IsActive(Head(watch[n]))
      BY <2>3 DEF EventKind, IsActive
    <3>2. Head(watch[n]) = watch[n][1]
      BY <1>1, <1>2
    <3> QED
      BY <1>4, <1>9, <2>3, <3>1, <3>2
  <2>4. m = n => \/ i \in DOMAIN notes[n] /\ notes[n][i] = "gone"
                 \/ EventKind(cache[n], Head(watch[n])) = "gone"
    BY <1>1, <1>2
  <2> QED
    BY <2>1, <2>2, <2>3, <2>4
<1> HIDE DEF Shown, ShownRunning
<1>11. DeleteCovered'
  BY <1>2, <1>4, <1>6, <1>8 DEF Fates, DeleteCovered
<1>12. RunsOn'
  BY <1>2, <1>4, <1>7, <1>8 DEF Fates, RunsOn
<1> QED
  BY <1>5, <1>10, <1>11, <1>12 DEF Fates

\* The handler: a deletion is observed when nothing shows the pod any more.
LEMMA FatesHandleNote ==
    ASSUME TypeOK, Fates, NEW n \in Names, HandleNote(n)
    PROVE  /\ Fates'
           /\ exp'.delete \subseteq exp.delete
           /\ exp.delete \cap Active \subseteq exp'.delete
<1>1. /\ notes \in [Names -> Seq(EventKinds)]
      /\ exp \in [create : SUBSET Names, delete : SUBSET Names]
  BY DEF TypeOK, ClusterTypeOK
<1>2. /\ UNCHANGED <<pods, watch, cache>>
      /\ notes[n] # <<>>
      /\ notes' = [notes EXCEPT ![n] = Tail(notes[n])]
      /\ exp' = CASE Head(notes[n]) = "created" -> [exp EXCEPT !.create = exp.create \ {n}]
                  [] Head(notes[n]) = "gone"    -> [exp EXCEPT !.delete = exp.delete \ {n}]
                  [] OTHER                      -> exp
  BY DEF HandleNote
<1>3. /\ exp'.delete \subseteq exp.delete
      /\ exp.delete \ {n} \subseteq exp'.delete
      /\ Head(notes[n]) # "gone" => exp'.delete = exp.delete
  BY <1>1, <1>2
<1>4. /\ 1 \in DOMAIN notes[n] /\ Head(notes[n]) = notes[n][1]
      /\ \A i \in DOMAIN notes'[n] : i + 1 \in DOMAIN notes[n] /\ notes'[n][i] = notes[n][i + 1]
      /\ \A m \in Names \ {n} : notes'[m] = notes[m]
  BY <1>1, <1>2
<1>5. /\ Active' = Active /\ Active \subseteq Names
      /\ \A m \in Names : (Shown(m)' <=> Shown(m)) /\ (ShownRunning(m)' <=> ShownRunning(m))
  BY <1>2 DEF Active, Shown, ShownRunning
<1>6. Head(notes[n]) = "gone" => n \notin Active /\ ~Shown(n)
  BY <1>4 DEF Fates, GoneSeen
<1> HIDE DEF Shown, ShownRunning
<1>7. EndsForGood'
  BY <1>2 DEF Fates, EndsForGood
<1>8. GoneSeen'
  <2> SUFFICES ASSUME NEW m \in Names, NEW i \in DOMAIN notes'[m], notes'[m][i] = "gone"
               PROVE  m \notin Active' /\ ~Shown(m)'
    BY DEF GoneSeen
  <2>1. \E k \in DOMAIN notes[m] : notes[m][k] = "gone"
    BY <1>4
  <2> QED
    BY <1>5, <2>1 DEF Fates, GoneSeen
<1>9. DeleteCovered'
  BY <1>3, <1>5, <1>6 DEF Fates, DeleteCovered
<1>10. RunsOn'
  BY <1>2, <1>5 DEF Fates, RunsOn
<1>11. exp.delete \cap Active \subseteq exp'.delete
  BY <1>3, <1>6
<1> QED
  BY <1>3, <1>7, <1>8, <1>9, <1>10, <1>11 DEF Fates

\* A cache that shows the pods as they are.
LEMMA FatesSynced ==
    ASSUME pods' = pods, cache' = pods, watch' = [m \in Names |-> <<>>],
           \A m \in Names : \A i \in DOMAIN notes'[m] : notes'[m][i] = "gone" => m \notin Active
    PROVE  Fates'
<1>1. /\ Active' = Active
      /\ \A m \in Names : Shown(m)' <=> IsActive(pods[m])
      /\ \A m \in Names : ShownRunning(m)' <=> RunningVersion(pods[m])
  BY DEF Active, Shown, ShownRunning
<1>2. EndsForGood'
  BY DEF EndsForGood
<1> HIDE DEF Shown, ShownRunning
<1>3. GoneSeen'
  BY <1>1 DEF GoneSeen, Active
<1>4. DeleteCovered'
  BY <1>1 DEF DeleteCovered, Active
<1>5. RunsOn'
  BY <1>1 DEF RunsOn, RunningVersion, Active
<1> QED
  BY <1>2, <1>3, <1>4, <1>5 DEF Fates

\* The informer and the handler.
LEMMA FatesInformer ==
    ASSUME TypeOK, World, Fates, Informer
    PROVE  /\ Fates' /\ pods' = pods
           /\ exp'.delete \subseteq exp.delete
           /\ exp.delete \cap Active \subseteq exp'.delete
           /\ UNCHANGED <<pc, job>>
<1>1. CASE InplaceuEvent
  BY <1>1, FatesQuiet DEF InplaceuEvent
<1>2. CASE Resync
  BY <1>2, FatesQuiet DEF Resync, clusterVars
<1>3. CASE InformerRelists
  <2>1. /\ pods' = pods /\ cache' = pods /\ exp' = exp /\ UNCHANGED <<pc, job>>
        /\ watch' = [n \in Names |-> <<>>]
        /\ notes' = [n \in Names |->
                        IF watch[n] = <<>> \/ (cache[n] = None /\ pods[n] = None) THEN notes[n]
                        ELSE Append(notes[n], EventKind(cache[n], pods[n]))]
    BY <1>3 DEF InformerRelists, Relist
  <2>2. notes \in [Names -> Seq(EventKinds)]
    BY DEF TypeOK, ClusterTypeOK
  <2>3. ASSUME NEW m \in Names, NEW i \in DOMAIN notes'[m], notes'[m][i] = "gone"
        PROVE  m \notin Active
    <3>1. \/ i \in DOMAIN notes[m] /\ notes[m][i] = "gone"
          \/ EventKind(cache[m], pods[m]) = "gone"
      BY <2>1, <2>2, <2>3
    <3>2. CASE i \in DOMAIN notes[m] /\ notes[m][i] = "gone"
      BY <3>2 DEF Fates, GoneSeen
    <3>3. CASE EventKind(cache[m], pods[m]) = "gone"
      BY <3>3 DEF EventKind, Active, IsActive
    <3> QED
      BY <3>1, <3>2, <3>3
  <2>4. Fates'
    BY <2>1, <2>3, FatesSynced
  <2> QED
    BY <2>1, <2>4
<1>4. ASSUME NEW n \in Names, InformerStep(n)
      PROVE  Fates' /\ exp' = exp /\ pods' = pods /\ UNCHANGED <<pc, job>>
  BY <1>4, FatesInformerStep DEF InformerStep, CacheApply
<1>5. ASSUME NEW n \in Names, HandleNote(n)
      PROVE  /\ Fates' /\ pods' = pods
             /\ exp'.delete \subseteq exp.delete
             /\ exp.delete \cap Active \subseteq exp'.delete
             /\ UNCHANGED <<pc, job>>
  BY <1>5, FatesHandleNote DEF HandleNote
<1> QED
  BY <1>1, <1>2, <1>3, <1>4, <1>5 DEF Informer

-----------------------------------------------------------------------------
(* The worker. *)

\* A step of anybody else.
LEMMA SparingKept ==
    ASSUME TypeOK, Sparing, UNCHANGED <<pc, job>>,
           Active' = Active, RunningPods \subseteq RunningPods',
           exp'.delete \subseteq exp.delete, exp.delete \cap Active \subseteq exp'.delete
    PROVE  Sparing'
<1>1. ListedAlive'
  BY DEF Sparing, ListedAlive, RunningPods
<1>2. Spared'
  <2> SUFFICES ASSUME pc = "delete" PROVE Spared'
    BY DEF Spared
  <2>1. Chosen' = Chosen /\ Escaping' = Escaping
    BY DEF Chosen, Escaping
  <2>2. RunningPods' \subseteq Names /\ Escaping \subseteq Names
    BY DEF RunningPods, Active, Escaping, SpecifiedDelete, Members
  <2>3. /\ Cardinality(RunningPods \ Chosen) <= Cardinality(RunningPods' \ Chosen)
        /\ Cardinality(RunningPods \ Chosen) \in Nat
        /\ Cardinality(RunningPods' \ Chosen) \in Nat
        /\ Cardinality(Escaping) \in Nat
    BY <2>2, LargerSetCounts, CountIsNat
  <2>4. job.iu.replicas \in Nat
    BY DEF TypeOK, Job, Inplaceu
  <2>5. Unavailable(job.iu.replicas) \in Nat
    BY <2>4, UnavailableType
  <2>6. (\E n \in Chosen \ Escaping : IsRunning(job.view[n])) =>
              Cardinality(RunningPods' \ Chosen) + Cardinality(Escaping)
                  >= job.iu.replicas - Unavailable(job.iu.replicas)
    BY <2>3, <2>4, <2>5 DEF Sparing, Spared
  <2>7. job.batch \subseteq exp'.delete
    BY DEF Sparing, Spared, Chosen
  <2> QED
    BY <2>1, <2>6, <2>7 DEF Sparing, Spared
<1> QED
  BY <1>1, <1>2 DEF Sparing

\* A step to where a pass lists nothing and deletes nothing.
LEMMA SparingElsewhere ==
    ASSUME pc' \notin {"list", "versions", "sync", "delete"}
    PROVE  Sparing'
BY DEF Sparing, ListedAlive, Spared

\* From the queue to the list.
LEMMA SparingReads ==
    ASSUME TypeOK, Fates, Sparing,
           \/ Take \/ PassScaleGate \/ WaitForScale \/ ListPods
           \/ PassVersionGate \/ WaitForVersions \/ ReconcileFails
    PROVE  Fates' /\ Sparing'
<1>1. UNCHANGED <<pods, watch, cache, notes, exp>>
  BY DEF Take, PassScaleGate, WaitForScale, ListPods, PassVersionGate,
         WaitForVersions, ReconcileFails, clusterVars
<1>2. Fates' /\ Active' = Active /\ RunningPods' = RunningPods
  BY <1>1, FatesQuiet
<1>3. CASE PassScaleGate
  <2>1. pc' = "list" /\ exp'.delete = {}
    BY <1>1, <1>3 DEF PassScaleGate, Satisfied
  <2>2. Sparing'
    BY <2>1 DEF Sparing, ListedAlive, Spared
  <2> QED
    BY <1>2, <2>2
<1>4. CASE ListPods
  <2>1. /\ pc = "list" /\ pc' = "versions" /\ job \in Job
        /\ job' = [job EXCEPT !.view = ActivePods(cache),
                              !.behind = {n \in Names : IsActive(cache[n]) /\ rvExp[n] > 0}]
    BY <1>4 DEF ListPods, TypeOK
  <2>2. job'.view = ActivePods(cache) /\ exp.delete = {}
    BY <2>1 DEF Job, Sparing, ListedAlive
  <2>3. ASSUME NEW n \in Members(job'.view)
        PROVE  n \in Active /\ (IsRunning(job'.view[n]) => IsRunning(pods[n]))
    <3>1. n \in Names /\ IsActive(cache[n]) /\ job'.view[n] = cache[n]
      BY <2>2, <2>3 DEF Members, ActivePods
    <3>2. n \in Active
      BY <2>2, <3>1 DEF Fates, DeleteCovered, Shown
    <3>3. IsRunning(cache[n]) => IsRunning(pods[n])
      BY <3>1, <3>2 DEF Fates, RunsOn, ShownRunning, RunningVersion
    <3> QED
      BY <3>1, <3>2, <3>3
  <2>4. Sparing'
    BY <1>1, <1>2, <2>1, <2>3 DEF Sparing, ListedAlive, Spared
  <2> QED
    BY <1>2, <2>4
<1>5. CASE PassVersionGate
  <2>1. pc = "versions" /\ pc' = "sync" /\ job' = job
    BY <1>5 DEF PassVersionGate
  <2>2. Sparing'
    BY <1>1, <1>2, <2>1 DEF Sparing, ListedAlive, Spared
  <2> QED
    BY <1>2, <2>2
<1>6. CASE Take \/ WaitForScale \/ WaitForVersions \/ ReconcileFails
  <2>1. pc' \in {"idle", "check"}
    BY <1>6 DEF Take, WaitForScale, WaitForVersions, ReconcileFails, Return
  <2> QED
    BY <1>2, <2>1, SparingElsewhere
<1> QED
  BY <1>3, <1>4, <1>5, <1>6

\* The start of deletePods, with what Scale has chosen.
LEMMA SparingStarts ==
    ASSUME TypeOK, Unstarted, Fates, Sparing, pc = "sync", NEW S, DeleteNext(S), S # {} =>
             /\ S \subseteq Members(job.view)
             /\ (\E n \in S : ~job.view[n].sdel) =>
                   Cardinality(Members(job.view) \ S) >= job.iu.replicas
             /\ (\E n \in S \ Escaping : IsRunning(job.view[n])) =>
                   Cardinality(Running(Members(job.view), job.view) \ S) + Cardinality(Escaping)
                     >= job.iu.replicas - Unavailable(job.iu.replicas)
    PROVE  Fates' /\ Sparing'
<1>1. /\ UNCHANGED <<pods, watch, cache, notes, exp>>
      /\ job' = [job EXCEPT !.todo = S]
      /\ pc' = IF S = {} THEN "update" ELSE "delete"
      /\ job \in Job
  BY DEF DeleteNext, clusterVars, TypeOK
<1>2. Fates' /\ Active' = Active /\ RunningPods' = RunningPods
  BY <1>1, FatesQuiet
<1>3. CASE S = {}
  BY <1>1, <1>2, <1>3, SparingElsewhere
<1>4. CASE S # {}
  <2>1. /\ job'.todo = S /\ job'.batch = {} /\ job'.view = job.view /\ job'.iu = job.iu
        /\ pc' = "delete"
    BY <1>1, <1>4 DEF Job, Unstarted
  <2>2. Chosen' = S /\ Escaping' = Escaping
    BY <2>1 DEF Chosen, Escaping
  <2>3. /\ Members(job.view) \subseteq Active /\ Active \subseteq Names
        /\ Running(Members(job.view), job.view) \subseteq RunningPods
        /\ RunningPods \subseteq Names /\ Escaping \subseteq Names
    BY DEF Sparing, ListedAlive, Active, RunningPods, Running, Escaping, SpecifiedDelete, Members
  <2>4. /\ Cardinality(Members(job.view) \ S) <= Cardinality(Active \ S)
        /\ Cardinality(Members(job.view) \ S) \in Nat
        /\ Cardinality(Active \ S) \in Nat
    BY <2>3, LargerSetCounts
  <2>5. /\ Cardinality(Running(Members(job.view), job.view) \ S) <= Cardinality(RunningPods \ S)
        /\ Cardinality(Running(Members(job.view), job.view) \ S) \in Nat
        /\ Cardinality(RunningPods \ S) \in Nat
        /\ Cardinality(Escaping) \in Nat
    BY <2>3, LargerSetCounts, CountIsNat
  <2>6. job.iu.replicas \in Nat
    BY <1>1 DEF Job, Inplaceu
  <2>7. Unavailable(job.iu.replicas) \in Nat
    BY <2>6, UnavailableType
  <2>8. (\E n \in S : ~job.view[n].sdel) => Cardinality(Active \ S) >= job.iu.replicas
    BY <1>4, <2>4, <2>6
  <2>9. (\E n \in S \ Escaping : IsRunning(job.view[n])) =>
           Cardinality(RunningPods \ S) + Cardinality(Escaping)
             >= job.iu.replicas - Unavailable(job.iu.replicas)
    BY <1>4, <2>5, <2>6, <2>7
  <2>10. S \subseteq Active \cap Members(job.view)
    BY <1>4, <2>3
  <2>11. Spared'
    BY <1>2, <2>1, <2>2, <2>8, <2>9, <2>10 DEF Spared
  <2>12. ListedAlive'
    BY <2>1 DEF ListedAlive
  <2> QED
    BY <1>2, <2>11, <2>12 DEF Sparing
<1> QED
  BY <1>3, <1>4

LEMMA SparingScales ==
    ASSUME TypeOK, Unstarted, Fates, Sparing, DeleteSpecified \/ ScaleIn \/ NothingToScale
    PROVE  Fates' /\ Sparing'
<1>1. pc = "sync" /\ job \in Job /\ job.iu.replicas \in Nat
  BY DEF DeleteSpecified, ScaleIn, NothingToScale, TypeOK, Job, Inplaceu
<1>2. CASE DeleteSpecified
  <2>1. PICK S \in SpecifiedDeleteChoices(job.view, PassDiffs) : DeleteNext(S)
    BY <1>2 DEF DeleteSpecified
  <2>2. S \subseteq SpecifiedDelete(job.view)
    BY <2>1 DEF SpecifiedDeleteChoices
  <2>3. S \subseteq Members(job.view) /\ \A n \in S : job.view[n].sdel
    BY <2>2 DEF SpecifiedDelete
  <2>4. (\E n \in S \ Escaping : IsRunning(job.view[n])) =>
           Cardinality(Running(Members(job.view), job.view) \ S) + Cardinality(Escaping)
             >= job.iu.replicas - Unavailable(job.iu.replicas)
    BY <1>1, <2>1, SpecifiedSparesRunning DEF PassDiffs, Escaping
  <2> QED
    BY <1>1, <2>1, <2>3, <2>4, SparingStarts
<1>3. CASE ScaleIn
  <2>1. PICK S \in ScaleInChoices(job.view, job.iu.rev, PassDiffs) : DeleteNext(S)
    BY <1>3 DEF ScaleIn
  <2>2. PassDiffs.scaleDownNum > 0
    BY <1>3 DEF ScaleIn
  <2>3. S \subseteq Members(job.view) /\ Cardinality(Members(job.view) \ S) >= job.iu.replicas
    BY <1>1, <2>1, <2>2, ScaleInSpares DEF PassDiffs
  <2>4. (\E n \in S \ Escaping : IsRunning(job.view[n])) =>
           Cardinality(Running(Members(job.view), job.view) \ S) + Cardinality(Escaping)
             >= job.iu.replicas - Unavailable(job.iu.replicas)
    BY <1>1, <2>1, ScaleInSparesRunning DEF PassDiffs, Escaping
  <2> QED
    BY <1>1, <2>1, <2>3, <2>4, SparingStarts
<1>4. CASE NothingToScale
  BY <1>1, <1>4, SparingStarts DEF NothingToScale
<1> QED
  BY <1>2, <1>3, <1>4

\* deletePods.
LEMMA SparingDeletes ==
    ASSUME TypeOK, World, Fates, Sparing, NEW n \in Names,
           ExpectDelete(n) \/ DeleteOne(n) \/ DeleteFails(n)
    PROVE  Fates' /\ Sparing'
<1>1. /\ pc = "delete" /\ job \in Job /\ job.iu.replicas \in Nat
      /\ exp \in [create : SUBSET Names, delete : SUBSET Names]
      /\ pods \in [Names -> Pod \cup {None}]
  BY DEF ExpectDelete, DeleteOne, DeleteFails, TypeOK, ClusterTypeOK, Job, Inplaceu
<1>2. Chosen \subseteq Active /\ job.batch \subseteq Chosen /\ job.todo \subseteq Chosen
  BY <1>1 DEF Sparing, Spared, Chosen
<1>3. CASE ExpectDelete(n)
  <2>1. /\ n \in job.todo /\ job.batch = {} /\ pc' = "delete"
        /\ UNCHANGED <<pods, watch, cache, notes>>
        /\ exp'.delete = exp.delete \cup {n}
        /\ job'.batch = {n} /\ job'.todo = job.todo \ {n}
        /\ job'.view = job.view /\ job'.iu = job.iu
    BY <1>1, <1>3 DEF ExpectDelete, clusterVars, Job
  <2>2. Fates' /\ Active' = Active /\ RunningPods' = RunningPods
    BY <2>1, FatesQuiet
  <2>3. Chosen' = Chosen /\ Escaping' = Escaping
    BY <2>1 DEF Chosen, Escaping
  <2>4. Spared'
    BY <1>1, <2>1, <2>2, <2>3 DEF Sparing, Spared
  <2>5. ListedAlive'
    BY <2>1 DEF ListedAlive
  <2> QED
    BY <2>2, <2>4, <2>5 DEF Sparing
<1>4. CASE DeleteFails(n)
  <2>1. /\ n \in job.batch /\ pc' \in {"status", "update"}
        /\ UNCHANGED <<pods, watch, cache, notes>>
        /\ exp' = [exp EXCEPT !.delete = exp.delete \ {n}]
    BY <1>4 DEF DeleteFails, DeleteStops
  <2>2. exp'.delete = exp.delete \ {n} /\ n \in Active
    BY <1>1, <1>2, <2>1
  <2>3. Fates'
    BY <2>1, <2>2, FatesQuiet
  <2> QED
    BY <2>1, <2>3, SparingElsewhere
<1>5. CASE DeleteOne(n)
  <2>1. /\ n \in job.batch /\ pc' = "delete" /\ UNCHANGED <<cache, notes>> /\ exp' = exp
        /\ job'.batch = {} /\ job'.todo = job.todo
        /\ job'.view = job.view /\ job'.iu = job.iu
    BY <1>1, <1>5 DEF DeleteOne, Job
  <2>2. n \in Active /\ n \in exp.delete /\ n \notin job.todo
    BY <1>1, <1>2, <2>1 DEF Sparing, Spared
  <2>3. pods[n] \in Pod /\ ~pods[n].term
    BY <1>1, <2>2 DEF Active, IsActive
  <2>4. PICK p \in Deleted(pods[n]) : Publish(n, p)
    BY <1>5, <2>3 DEF DeleteOne
  <2>5. p \in Pod \cup {None} /\ ~IsActive(p)
    BY <2>3, <2>4, DeletedType, DeletedInactive
  <2>6. Fates' /\ Active' = Active \ {n} /\ RunningPods \ {n} \subseteq RunningPods'
    BY <2>1, <2>2, <2>4, <2>5, FatesWrite
  <2>7. Chosen' = job.todo /\ Escaping' = Escaping
    BY <2>1 DEF Chosen, Escaping
  <2>8. /\ Active \ Chosen \subseteq Active' \ job.todo
        /\ RunningPods \ Chosen \subseteq RunningPods' \ job.todo
        /\ Active' \subseteq Names /\ RunningPods' \subseteq Names /\ Escaping \subseteq Names
    BY <2>1, <2>6 DEF Chosen, Active, RunningPods, Escaping, SpecifiedDelete, Members
  <2>9. /\ Cardinality(Active \ Chosen) <= Cardinality(Active' \ job.todo)
        /\ Cardinality(Active \ Chosen) \in Nat
        /\ Cardinality(Active' \ job.todo) \in Nat
    BY <2>8, LargerSetCounts
  <2>10. /\ Cardinality(RunningPods \ Chosen) <= Cardinality(RunningPods' \ job.todo)
         /\ Cardinality(RunningPods \ Chosen) \in Nat
         /\ Cardinality(RunningPods' \ job.todo) \in Nat
         /\ Cardinality(Escaping) \in Nat
    BY <2>8, LargerSetCounts, CountIsNat
  <2>11. Unavailable(job.iu.replicas) \in Nat
    BY <1>1, UnavailableType
  <2>12. (\E m \in job.todo : ~job.view[m].sdel) =>
            Cardinality(Active' \ job.todo) >= job.iu.replicas
    BY <1>1, <1>2, <2>9 DEF Sparing, Spared
  <2>13. (\E m \in job.todo \ Escaping : IsRunning(job.view[m])) =>
            Cardinality(RunningPods' \ job.todo) + Cardinality(Escaping)
              >= job.iu.replicas - Unavailable(job.iu.replicas)
    <3>1. (\E m \in job.todo \ Escaping : IsRunning(job.view[m])) =>
             Cardinality(RunningPods \ Chosen) + Cardinality(Escaping)
               >= job.iu.replicas - Unavailable(job.iu.replicas)
      BY <1>1, <1>2 DEF Sparing, Spared
    <3> QED
      BY <1>1, <2>10, <2>11, <3>1
  <2>14. job.todo \subseteq Active' \cap Members(job.view)
    BY <1>1, <1>2, <2>2, <2>6 DEF Sparing, Spared, Chosen
  <2>15. Spared'
    BY <2>1, <2>7, <2>12, <2>13, <2>14 DEF Spared
  <2>16. ListedAlive'
    BY <2>1 DEF ListedAlive
  <2> QED
    BY <2>6, <2>15, <2>16 DEF Sparing
<1> QED
  BY <1>3, <1>4, <1>5

\* createPods.
LEMMA SparingCreates ==
    ASSUME TypeOK, World, Pass, Fates, Sparing,
           \/ ScaleOut \/ StartBatch \/ EndCreate
           \/ \E n \in Names : CreateOne(n) \/ CreateFails(n)
    PROVE  Fates' /\ Sparing'
<1>1. exp \in [create : SUBSET Names, delete : SUBSET Names]
  BY DEF TypeOK
<1>2. pc' \in {"create", "update", "status"}
  BY DEF ScaleOut, StartBatch, EndCreate, CreateOne, CreateFails
<1>3. CASE ScaleOut \/ StartBatch \/ EndCreate \/ \E n \in Names : CreateFails(n)
  <2>1. UNCHANGED <<pods, watch, cache, notes>> /\ exp'.delete = exp.delete
    BY <1>1, <1>3 DEF ScaleOut, StartBatch, EndCreate, CreateFails, clusterVars
  <2> QED
    BY <1>2, <2>1, FatesQuiet, SparingElsewhere
<1>4. ASSUME NEW n \in Names, CreateOne(n) PROVE Fates' /\ Sparing'
  <2>1. /\ pc = "create" /\ n \in job.batch /\ job \in Job
        /\ UNCHANGED <<cache, notes, exp>> /\ Publish(n, NewPod(job.iu.rev))
    BY <1>4 DEF CreateOne, TypeOK
  <2>2. n \in Unused
    BY <2>1 DEF Pass, Planned
  <2>3. NewPod(job.iu.rev) \in Pod
    BY <2>1 DEF NewPod, Pod, Job, Inplaceu
  <2>4. IsActive(NewPod(job.iu.rev)) /\ ~IsRunning(NewPod(job.iu.rev))
    BY <2>3, NoneAssumption DEF IsActive, IsRunning, NewPod
  <2> QED
    BY <1>2, <2>1, <2>2, <2>3, <2>4, FatesCreate, SparingElsewhere
<1> QED
  BY <1>3, <1>4

\* A write that changes neither the phase of a pod nor its deletion timestamp.
LEMMA SamePhase ==
    ASSUME NEW p \in Pod, NEW q \in Pod, q.phase = p.phase, q.term = p.term
    PROVE  (IsActive(q) <=> IsActive(p)) /\ (IsRunning(q) <=> IsRunning(p))
BY NoneAssumption DEF IsActive, IsRunning

\* Update, and the ends of a pass.
LEMMA SparingUpdates ==
    ASSUME TypeOK, World, Fates, Sparing,
           \/ EndDelete \/ ChooseUpdates
           \/ StatusIsConsistent \/ UpdateStatus \/ UpdateStatusFails
           \/ \E n \in Names : UpdateInPlace(n) \/ UpdateByRecreate(n) \/ UpdateFails(n)
    PROVE  Fates' /\ Sparing'
<1>1. pods \in [Names -> Pod \cup {None}]
  BY DEF TypeOK, ClusterTypeOK
<1>2. CASE EndDelete \/ ChooseUpdates \/ StatusIsConsistent \/ UpdateStatus \/ UpdateStatusFails
  <2>1. /\ UNCHANGED <<pods, watch, cache, notes, exp>>
        /\ pc' \in {"status", "updating", "idle"}
    BY <1>2 DEF EndDelete, ChooseUpdates, StatusIsConsistent, UpdateStatus, UpdateStatusFails,
                Return, clusterVars
  <2> QED
    BY <2>1, FatesQuiet, SparingElsewhere
<1>3. ASSUME NEW n \in Names, UpdateFails(n) PROVE Fates' /\ Sparing'
  <2>1. UNCHANGED <<pods, watch, cache, notes, exp>> /\ pc' = "status"
    BY <1>3 DEF UpdateFails, UpdateStops
  <2> QED
    BY <2>1, FatesQuiet, SparingElsewhere
<1>4. ASSUME NEW n \in Names, NEW p \in Pod, pods[n] \in Pod, Publish(n, p),
             p.phase = pods[n].phase, p.term = pods[n].term,
             UNCHANGED <<cache, notes>>, exp' = exp
      PROVE  Fates'
  <2>1. (IsActive(p) <=> IsActive(pods[n])) /\ (IsRunning(p) <=> IsRunning(pods[n]))
    BY <1>4, SamePhase
  <2>2. IsActive(p) => n \in Active /\ (n \in RunningPods => IsRunning(p))
    BY <2>1 DEF Active, RunningPods
  <2>3. n \in Active /\ ~IsActive(p) => n \in exp.delete
    BY <2>1 DEF Active
  <2> QED
    BY <1>4, <2>2, <2>3, FatesWrite
<1>5. ASSUME NEW n \in Names, UpdateInPlace(n) PROVE Fates' /\ Sparing'
  <2> DEFINE p == [pods[n] EXCEPT !.rev = job.iu.rev]
  <2>1. /\ pods[n] \in Pod /\ Publish(n, p)
        /\ UNCHANGED <<cache, notes, exp>> /\ pc' \in {"status", "updating"}
    BY <1>1, <1>5 DEF UpdateInPlace, UpdateNext
  <2>2. job.iu.rev \in Revs
    BY <1>5 DEF UpdateInPlace, TypeOK, Job, Inplaceu
  <2>3. p \in Pod /\ p.phase = pods[n].phase /\ p.term = pods[n].term
    BY <2>1, <2>2 DEF Pod
  <2> HIDE DEF p
  <2> QED
    BY <1>4, <2>1, <2>3, SparingElsewhere
<1>6. ASSUME NEW n \in Names, UpdateByRecreate(n) PROVE Fates' /\ Sparing'
  <2> DEFINE p == [pods[n] EXCEPT !.sdel = TRUE]
  <2>1. /\ UNCHANGED <<pods, watch>> \/ (pods[n] # None /\ Publish(n, p))
        /\ UNCHANGED <<cache, notes, exp>> /\ pc' \in {"status", "updating"}
    BY <1>6 DEF UpdateByRecreate, UpdateNext
  <2>2. CASE UNCHANGED <<pods, watch>>
    BY <2>1, <2>2, FatesQuiet, SparingElsewhere
  <2>3. CASE pods[n] # None /\ Publish(n, p)
    <3>1. pods[n] \in Pod
      BY <1>1, <2>3
    <3>2. p \in Pod /\ p.phase = pods[n].phase /\ p.term = pods[n].term
      BY <3>1 DEF Pod
    <3> HIDE DEF p
    <3> QED
      BY <1>4, <2>1, <2>3, <3>1, <3>2, SparingElsewhere
  <2> QED
    BY <2>1, <2>2, <2>3
<1> QED
  BY <1>2, <1>3, <1>5, <1>6

-----------------------------------------------------------------------------
(* Everybody else. *)

\* A call that returns an error has had no effect, and nobody but the controller
\* and the users, by the label, makes a pod go.
NothingElseIsLost == NoTimeouts /\ "evict" \notin Disturbances /\ "fail" \notin Disturbances

LEMMA SparingEnvironment ==
    ASSUME NothingElseIsLost, TypeOK, World, Fates, Sparing, EnvironmentStep
    PROVE  Fates' /\ Sparing'
<1>1. UNCHANGED <<exp, pc, job>> /\ Environment
  BY DEF EnvironmentStep, controllerVars
<1>2. pods \in [Names -> Pod \cup {None}]
  BY DEF TypeOK, ClusterTypeOK
<1>3. ASSUME NEW n \in Names, NEW p \in Pod \cup {None}, KubeletWrites(n, p),
             IsActive(p) <=> n \in Active, n \in RunningPods => IsRunning(p)
      PROVE  Fates' /\ Sparing'
  <2>1. Publish(n, p) /\ UNCHANGED <<cache, notes>>
    BY <1>3 DEF KubeletWrites
  <2>2. /\ Fates'
        /\ Active' = IF IsActive(p) THEN Active ELSE Active \ {n}
        /\ RunningPods \ {n} \subseteq RunningPods'
        /\ IsActive(p) => RunningPods \subseteq RunningPods'
    BY <1>1, <1>3, <2>1, FatesWrite
  <2>3. Active' = Active /\ RunningPods \subseteq RunningPods'
    BY <1>3, <2>2 DEF RunningPods
  <2> QED
    BY <1>1, <2>2, <2>3, SparingKept
<1>4. ASSUME NEW n \in Names, PodReady(n) \/ PodUnready(n) \/ UserMarksDelete(n)
      PROVE  Fates' /\ Sparing'
  <2>1. IsActive(pods[n]) /\ pods[n] \in Pod
    BY <1>2, <1>4 DEF PodReady, PodUnready, UserMarksDelete, IsActive
  <2>2. \E p \in Pod : /\ KubeletWrites(n, p)
                       /\ p.phase = pods[n].phase /\ p.term = pods[n].term
    <3>1. CASE PodReady(n)
      <4>1. [pods[n] EXCEPT !.ready = TRUE] \in Pod
        BY <2>1 DEF Pod
      <4> QED
        BY <2>1, <3>1, <4>1 DEF PodReady, Pod
    <3>2. CASE PodUnready(n)
      <4>1. [pods[n] EXCEPT !.ready = FALSE] \in Pod
        BY <2>1 DEF Pod
      <4> QED
        BY <2>1, <3>2, <4>1 DEF PodUnready, Pod
    <3>3. CASE UserMarksDelete(n)
      <4>1. [pods[n] EXCEPT !.sdel = TRUE] \in Pod
        BY <2>1 DEF Pod
      <4> QED
        BY <2>1, <3>3, <4>1 DEF UserMarksDelete, Pod
    <3> QED
      BY <1>4, <3>1, <3>2, <3>3
  <2>3. PICK p \in Pod : /\ KubeletWrites(n, p)
                         /\ p.phase = pods[n].phase /\ p.term = pods[n].term
    BY <2>2
  <2>4. (IsActive(p) <=> IsActive(pods[n])) /\ (IsRunning(p) <=> IsRunning(pods[n]))
    BY <2>1, <2>3, SamePhase
  <2>5. (IsActive(p) <=> n \in Active) /\ (n \in RunningPods => IsRunning(p))
    BY <2>4 DEF Active, RunningPods
  <2> QED
    BY <1>3, <2>3, <2>5
<1>5. ASSUME NEW n \in Names, PodRuns(n) PROVE Fates' /\ Sparing'
  <2> DEFINE p == [pods[n] EXCEPT !.phase = "Running"]
  <2>1. n \in Active /\ pods[n] \in Pod /\ ~pods[n].term /\ KubeletWrites(n, p)
    BY <1>2, <1>5 DEF PodRuns, Active, IsActive
  <2>2. p \in Pod /\ p.phase = "Running" /\ p.term = pods[n].term
    BY <2>1 DEF Pod
  <2>3. IsActive(p) /\ IsRunning(p)
    BY <2>1, <2>2, NoneAssumption DEF IsActive, IsRunning
  <2> HIDE DEF p
  <2> QED
    BY <1>3, <2>1, <2>2, <2>3
<1>6. ASSUME NEW n \in Names, PodGone(n) PROVE Fates' /\ Sparing'
  <2>1. n \notin Active /\ ~IsActive(None) /\ KubeletWrites(n, None)
    BY <1>6 DEF PodGone, Active, IsActive
  <2> QED
    BY <1>3, <2>1 DEF RunningPods
<1>7. ~\E n \in Names : PodFails(n) \/ Evict(n)
  BY DEF PodFails, Evict, Disturb, NothingElseIsLost
<1>8. ASSUME (\E r \in ReplicaChoices : UserScales(r)) \/ (\E rev \in Revs : UserChangesTemplate(rev))
      PROVE  Fates' /\ Sparing'
  <2>1. UNCHANGED <<pods, watch, cache, notes>>
    BY <1>8 DEF UserScales, UserChangesTemplate
  <2> QED
    BY <1>1, <2>1, FatesQuiet, SparingKept
<1> QED
  BY <1>1, <1>4, <1>5, <1>6, <1>7, <1>8 DEF Environment

LEMMA SparingCrash ==
    ASSUME Crash
    PROVE  Fates' /\ Sparing'
<1>1. /\ pods' = pods /\ cache' = pods /\ watch' = [n \in Names |-> <<>>]
      /\ notes' = [n \in Names |-> IF pods[n] = None THEN <<>> ELSE <<EventKind(None, pods[n])>>]
      /\ pc' = "idle"
  BY DEF Crash, Reload
<1>2. ASSUME NEW m \in Names, NEW i \in DOMAIN notes'[m], notes'[m][i] = "gone"
      PROVE  m \notin Active
  BY <1>1, <1>2 DEF EventKind, Active, IsActive
<1>3. Fates'
  BY <1>1, <1>2, FatesSynced
<1> QED
  BY <1>1, <1>3, SparingElsewhere

LEMMA SparingInit == Init => Fates /\ Sparing
<1> SUFFICES ASSUME Init PROVE Fates /\ Sparing
  OBVIOUS
<1>1. cache = pods /\ watch = [n \in Names |-> <<>>] /\ notes = [n \in Names |-> <<>>]
  BY DEF Init
<1>2. EndsForGood /\ GoneSeen
  BY <1>1 DEF EndsForGood, GoneSeen
<1>3. DeleteCovered
  BY <1>1 DEF DeleteCovered, Shown, Active
<1>4. RunsOn
  BY <1>1 DEF RunsOn, ShownRunning, RunningVersion, Active
<1>5. Sparing
  BY DEF Init, Sparing, ListedAlive, Spared
<1> QED
  BY <1>2, <1>3, <1>4, <1>5 DEF Fates

LEMMA SparingStep ==
    ASSUME NothingElseIsLost, TypeOK, World, Pass, Fates, Sparing, [Next]_vars
    PROVE  Fates' /\ Sparing'
<1>1. CASE Worker
  BY <1>1, SparingReads, SparingScales, SparingDeletes, SparingCreates, SparingUpdates
  DEF Worker, Pass
<1>2. CASE WorkerFault
  <2>1. ReconcileFails \/ \E n \in Names : CreateFails(n)
    BY <1>2 DEF WorkerFault, CreateTimesOut, DeleteTimesOut, UpdateTimesOut,
                UpdateStatusTimesOut, Slip, Disturb, NothingElseIsLost, NoTimeouts
  <2> QED
    BY <2>1, SparingReads, SparingCreates
<1>3. CASE Informer
  <2>1. /\ Fates' /\ pods' = pods
        /\ exp'.delete \subseteq exp.delete /\ exp.delete \cap Active \subseteq exp'.delete
        /\ UNCHANGED <<pc, job>>
    BY <1>3, FatesInformer
  <2>2. Active' = Active /\ RunningPods' = RunningPods
    BY <2>1 DEF Active, RunningPods
  <2> QED
    BY <2>1, <2>2, SparingKept
<1>4. CASE UNCHANGED vars
  <2>1. UNCHANGED <<pods, watch, cache, notes, exp, pc, job>>
    BY <1>4 DEF vars, clusterVars, controllerVars
  <2> QED
    BY <2>1, FatesQuiet, SparingKept
<1> QED
  BY <1>1, <1>2, <1>3, <1>4, SparingEnvironment, SparingCrash DEF Next

-----------------------------------------------------------------------------
\* The inductive invariant behind deletion holds of a controller whose failed calls
\* have no effect, and whose pods nobody else takes away.
THEOREM DeletionSafe == NothingElseIsLost => (Spec => []DeletionInvariant)
<1> SUFFICES ASSUME NothingElseIsLost PROVE Spec => []DeletionInvariant
  OBVIOUS
<1> DEFINE Inv == TypeOK /\ World /\ Pass /\ Fates /\ Sparing
<1>1. Init => Inv
  BY InitTypeOK, CreationInit, SparingInit
<1>2. Inv /\ [Next]_vars => Inv'
  BY NextTypeOK, CreationStep, SparingStep DEF NothingElseIsLost
<1>3. Inv => DeletionInvariant
  BY DEF DeletionInvariant, Fates, Sparing
<1> HIDE DEF Inv
<1> QED
  BY <1>1, <1>2, <1>3, PTL DEF Spec

\* Scaling in deletes a pod nobody marked only while more than spec.replicas are
\* active, whatever the cache still shows of earlier deletions.
THEOREM ScalingInStops == NothingElseIsLost => (Spec => ScaleInStopsAtReplicas)
<1>1. ASSUME TypeOK, DeletionInvariant, NEW n \in Names, ControllerDeletes(n), ~job.view[n].sdel
      PROVE  Cardinality(Active \ {n}) >= job.iu.replicas
  <2>1. n \in Chosen /\ pc = "delete" /\ job.iu.replicas \in Nat
    BY <1>1 DEF ControllerDeletes, Chosen, TypeOK, Job, Inplaceu
  <2>2. Cardinality(Active \ Chosen) >= job.iu.replicas
    BY <1>1, <2>1 DEF DeletionInvariant, Spared
  <2>3. /\ Cardinality(Active \ Chosen) <= Cardinality(Active \ {n})
        /\ Cardinality(Active \ Chosen) \in Nat
        /\ Cardinality(Active \ {n}) \in Nat
    BY <2>1, LargerSetCounts DEF Active
  <2> QED
    BY <2>1, <2>2, <2>3
<1>2. TypeOK /\ DeletionInvariant =>
        [\A n \in Names : ControllerDeletes(n) /\ ~job.view[n].sdel =>
             Cardinality(Active \ {n}) >= job.iu.replicas]_vars
  BY <1>1
<1> QED
  BY <1>2, TypeCorrect, DeletionSafe, PTL DEF ScaleInStopsAtReplicas

\* A pod the pass saw running is deleted only while enough others run, those aside
\* that were marked when they were down.
THEOREM DeletionsKeepRunning == NothingElseIsLost => (Spec => DeletionKeepsRunning)
<1>1. ASSUME TypeOK, DeletionInvariant, NEW n \in RunningPods, ControllerDeletes(n),
             IsRunning(job.view[n]), n \notin Escaping
      PROVE  Cardinality(RunningPods \ {n}) + Cardinality(Escaping)
               >= job.iu.replicas - Unavailable(job.iu.replicas)
  <2>1. n \in Chosen \ Escaping /\ pc = "delete" /\ job.iu.replicas \in Nat
    BY <1>1 DEF ControllerDeletes, Chosen, TypeOK, Job, Inplaceu
  <2>2. Cardinality(RunningPods \ Chosen) + Cardinality(Escaping)
          >= job.iu.replicas - Unavailable(job.iu.replicas)
    BY <1>1, <2>1 DEF DeletionInvariant, Spared
  <2>3. /\ Cardinality(RunningPods \ Chosen) <= Cardinality(RunningPods \ {n})
        /\ Cardinality(RunningPods \ Chosen) \in Nat
        /\ Cardinality(RunningPods \ {n}) \in Nat
        /\ Cardinality(Escaping) \in Nat
    BY <2>1, LargerSetCounts, CountIsNat
    DEF RunningPods, Active, Escaping, SpecifiedDelete, Members
  <2>4. Unavailable(job.iu.replicas) \in Nat
    BY <2>1, UnavailableType
  <2> QED
    BY <2>1, <2>2, <2>3, <2>4
<1>2. TypeOK /\ DeletionInvariant =>
        [\A n \in RunningPods :
           ControllerDeletes(n) /\ IsRunning(job.view[n]) /\ n \notin Escaping =>
             Cardinality(RunningPods \ {n}) + Cardinality(Escaping)
               >= job.iu.replicas - Unavailable(job.iu.replicas)]_vars
  BY <1>1
<1> QED
  BY <1>2, TypeCorrect, DeletionSafe, PTL DEF DeletionKeepsRunning

-----------------------------------------------------------------------------
(* The refinement of Scaler.  What a pass knows, by the invariants above, is *)
(* what there is; so each call does what Scaler allows, or nothing that an   *)
(* active pod shows.  Mirror is what the steps need of the invariants.       *)

Mirror ==
    /\ TypeOK /\ World /\ Pass /\ Fates /\ Sparing /\ Versions /\ Listing /\ MarksStay /\ Causes
    /\ slipped = {}

LEMMA SameMembers == Promise!Members(ActivePods(pods)) = Active
BY DEF Promise!Members, ActivePods, Active, IsActive

LEMMA SameCardinality == ASSUME NEW S PROVE Promise!Cardinality(S) = Cardinality(S)
BY DEF Promise!Cardinality, Cardinality

LEMMA SameSurge == ASSUME NEW r PROVE Promise!Surge(r) = Surge(r)
BY DEF Promise!Surge, Surge, Promise!GetValue, GetValue

LEMMA SeenIs == \A n \in Names : ActivePods(pods)[n] = IF n \in Active THEN pods[n] ELSE None
BY DEF ActivePods, Active

\* What a write of one pod changes of what is seen.
LEMMA SeenWrite ==
    ASSUME TypeOK, NEW n \in Names, NEW p \in Pod \cup {None}, Publish(n, p)
    PROVE  ActivePods(pods)' = [ActivePods(pods) EXCEPT ![n] = IF IsActive(p) THEN p ELSE None]
<1>1. pods' = [pods EXCEPT ![n] = p] /\ pods \in [Names -> Pod \cup {None}]
  BY VersionTypes DEF Publish
<1> QED
  BY <1>1 DEF ActivePods

\* A write of a pod that is not active, and does not become so, is not seen.
LEMMA UnseenWrite ==
    ASSUME TypeOK, NEW n \in Names \ Active, NEW p \in Pod \cup {None}, Publish(n, p), ~IsActive(p)
    PROVE  ActivePods(pods)' = ActivePods(pods)
<1>1. ActivePods(pods)' = [ActivePods(pods) EXCEPT ![n] = None]
  BY SeenWrite
<1>2. ActivePods(pods)[n] = None
  BY SeenIs
<1> QED
  BY <1>1, <1>2 DEF ActivePods

LEMMA SameAim ==
    ASSUME pc # "idle", pc' # "idle", job'.iu = job.iu
    PROVE  Aim' = Aim
BY DEF Aim

LEMMA Stutters ==
    ASSUME UNCHANGED <<iu, iuCache, Aim, Doing, ActivePods(pods)>>
    PROVE  UNCHANGED Promise!vars
BY DEF Promise!vars, Desired

LEMMA Turned ==
    ASSUME UNCHANGED <<iu, iuCache, Aim, ActivePods(pods)>>, <<Doing, Doing'>> \in Promise!Turns
    PROVE  Promise!Next
<1>1. Promise!Turn
  BY DEF Promise!Turn, Desired
<1> QED
  BY <1>1 DEF Promise!Next

\* The initial states are those of Scaler.
LEMMA InitRefines == Init => Promise!Init
<1> SUFFICES ASSUME Init PROVE Promise!Init
  OBVIOUS
<1>1. TypeOK
  BY InitTypeOK
<1>2. Desired(iu) \in Promise!Want /\ iuCache = iu /\ pc = "idle"
  BY <1>1 DEF Init, TypeOK, ClusterTypeOK, Inplaceu, Desired, Promise!Want
<1>3. ActivePods(pods) \in [Names -> Promise!Pod \cup {None}]
  BY <1>1, VersionTypes DEF ActivePods, Promise!Pod, Pod
<1>4. \A n \in Promise!Members(ActivePods(pods)) : Promise!IsActive(ActivePods(pods)[n])
  BY DEF Promise!Members, ActivePods, Promise!IsActive, IsActive
<1> QED
  BY <1>2, <1>3, <1>4 DEF Promise!Init, Aim, Doing

-----------------------------------------------------------------------------
\* The informer, the handler and a restart.
LEMMA InformerRefines ==
    ASSUME Informer \/ Crash \/ UNCHANGED vars
    PROVE  [Promise!Next]_(Promise!vars)
<1>1. CASE InplaceuEvent
  <2>1. iuCache' = iu /\ UNCHANGED <<iu, pods, pc, job>>
    BY <1>1 DEF InplaceuEvent
  <2>2. Promise!Hear
    BY <2>1 DEF Promise!Hear, Desired, Aim, Doing, ActivePods
  <2> QED
    BY <2>2 DEF Promise!Next
<1>2. CASE Crash
  <2>1. iuCache' = iu /\ UNCHANGED <<iu, pods>> /\ pc' = "idle"
    BY <1>2 DEF Crash, Reload
  <2>2. Promise!Restart
    BY <2>1 DEF Promise!Restart, Desired, Aim, Doing, ActivePods
  <2> QED
    BY <2>2 DEF Promise!Next
<1>3. CASE \/ Resync \/ InformerRelists \/ UNCHANGED vars
           \/ \E n \in Names : InformerStep(n) \/ HandleNote(n)
  <2>1. UNCHANGED <<iu, iuCache, pods, pc, job>>
    BY <1>3 DEF Resync, InformerRelists, Relist, InformerStep, CacheApply, HandleNote,
                vars, clusterVars, controllerVars
  <2> QED
    BY <2>1, Stutters DEF Aim, Doing, ActivePods
<1> QED
  BY <1>1, <1>2, <1>3 DEF Informer

\* Users and kubelets.
LEMMA EnvironmentRefines ==
    ASSUME NothingElseIsLost, TypeOK, TypeOK', EnvironmentStep
    PROVE  [Promise!Next]_(Promise!vars)
<1>1. UNCHANGED <<pc, job>> /\ Environment
  BY DEF EnvironmentStep, controllerVars
<1>2. UNCHANGED <<Aim, Doing>>
  BY <1>1 DEF Aim, Doing
<1>3. CASE \/ \E r \in ReplicaChoices : UserScales(r)
           \/ \E rev \in Revs : UserChangesTemplate(rev)
  <2>1. UNCHANGED <<iuCache, pods>>
    BY <1>3 DEF UserScales, UserChangesTemplate
  <2>2. Desired(iu)' \in Promise!Want
    BY DEF TypeOK, ClusterTypeOK, Inplaceu, Desired, Promise!Want
  <2>3. Promise!Ask
    BY <1>2, <2>1, <2>2 DEF Promise!Ask, Desired, ActivePods
  <2> QED
    BY <2>3 DEF Promise!Next
<1>4. ASSUME NEW n \in Active, NEW p \in Pod, KubeletWrites(n, p),
             p.phase # "Failed", p.term = pods[n].term
      PROVE  /\ ActivePods(pods)[n] = pods[n] /\ pods[n] # None
             /\ Promise!Write(n, p)
  <2>1. Publish(n, p) /\ UNCHANGED <<iu, iuCache>> /\ n \in Names
    BY <1>4 DEF KubeletWrites, Active
  <2>2. IsActive(p)
    BY <1>4, NoneAssumption DEF IsActive, Active
  <2>3. ActivePods(pods)' = [ActivePods(pods) EXCEPT ![n] = p]
    BY <2>1, <2>2, SeenWrite
  <2>4. ActivePods(pods)[n] = pods[n] /\ pods[n] # None
    BY <1>4, <2>1, SeenIs DEF Active, IsActive
  <2> QED
    BY <1>2, <2>1, <2>3, <2>4 DEF Promise!Write, Desired
<1>5. ASSUME NEW n \in Names, PodRuns(n) \/ PodReady(n) \/ PodUnready(n) \/ UserMarksDelete(n)
      PROVE  Promise!Next
  <2>1. n \in Active /\ pods[n] \in Pod /\ pods[n].phase # "Failed"
    BY <1>5, VersionTypes DEF PodRuns, PodReady, PodUnready, UserMarksDelete, Active, IsActive
  <2>2. CASE PodRuns(n)
    <3> DEFINE p == [pods[n] EXCEPT !.phase = "Running"]
    <3>1. p \in Pod /\ p.phase # "Failed" /\ p.term = pods[n].term /\ KubeletWrites(n, p)
      BY <2>1, <2>2 DEF PodRuns, Pod
    <3>2. ActivePods(pods)[n] = pods[n] /\ pods[n] # None /\ Promise!Write(n, p)
      <4> HIDE DEF p
      <4> QED BY <1>4, <2>1, <3>1
    <3>3. Promise!Run(n)
      BY <3>2 DEF Promise!Run
    <3> QED
      BY <3>3 DEF Promise!Next
  <2>3. CASE PodReady(n) \/ PodUnready(n)
    <3>1. PICK r \in BOOLEAN : KubeletWrites(n, [pods[n] EXCEPT !.ready = r])
      BY <2>3 DEF PodReady, PodUnready
    <3> DEFINE p == [pods[n] EXCEPT !.ready = r]
    <3>2. p \in Pod /\ p.phase # "Failed" /\ p.term = pods[n].term /\ KubeletWrites(n, p)
      BY <2>1, <3>1 DEF Pod
    <3>3. ActivePods(pods)[n] = pods[n] /\ pods[n] # None /\ Promise!Write(n, p)
      <4> HIDE DEF p
      <4> QED BY <1>4, <2>1, <3>2
    <3>4. Promise!Ready(n)
      BY <3>3 DEF Promise!Ready
    <3> QED
      BY <3>4 DEF Promise!Next
  <2>4. CASE UserMarksDelete(n)
    <3> DEFINE p == [pods[n] EXCEPT !.sdel = TRUE]
    <3>1. p \in Pod /\ p.phase # "Failed" /\ p.term = pods[n].term /\ KubeletWrites(n, p)
      BY <2>1, <2>4 DEF UserMarksDelete, Pod
    <3>2. ActivePods(pods)[n] = pods[n] /\ pods[n] # None /\ Promise!Write(n, p)
      <4> HIDE DEF p
      <4> QED BY <1>4, <2>1, <3>1
    <3>3. Promise!Mark(n)
      BY <3>2 DEF Promise!Mark
    <3> QED
      BY <3>3 DEF Promise!Next
  <2> QED
    BY <1>5, <2>2, <2>3, <2>4
<1>6. ASSUME NEW n \in Names, PodGone(n) PROVE UNCHANGED Promise!vars
  <2>1. n \notin Active /\ ~IsActive(None) /\ Publish(n, None) /\ UNCHANGED <<iu, iuCache>>
    BY <1>6 DEF PodGone, Active, IsActive, KubeletWrites
  <2>2. ActivePods(pods)' = ActivePods(pods)
    BY <2>1, UnseenWrite
  <2> QED
    BY <1>2, <2>1, <2>2, Stutters
<1>7. ~\E n \in Names : PodFails(n) \/ Evict(n)
  BY DEF PodFails, Evict, Disturb, NothingElseIsLost
<1> QED
  BY <1>1, <1>3, <1>5, <1>6, <1>7 DEF Environment

-----------------------------------------------------------------------------
\* From the queue to the choice of what to do, and the ends of a pass.
LEMMA ReadRefines ==
    ASSUME TypeOK,
           \/ Take \/ PassScaleGate \/ WaitForScale \/ ListPods \/ PassVersionGate
           \/ WaitForVersions \/ ReconcileFails
           \/ StatusIsConsistent \/ UpdateStatus \/ UpdateStatusFails
    PROVE  [Promise!Next]_(Promise!vars)
<1>1. UNCHANGED <<iuCache, pods>>
  BY DEF Take, PassScaleGate, WaitForScale, ListPods, PassVersionGate, WaitForVersions,
         ReconcileFails, StatusIsConsistent, UpdateStatus, UpdateStatusFails, clusterVars
<1>2. ActivePods(pods)' = ActivePods(pods) /\ Desired(iuCache)' = Desired(iuCache)
  BY <1>1 DEF ActivePods, Desired
<1>3. CASE Take
  <2>1. pc = "idle" /\ pc' = "check" /\ job' = NewJob(iuCache) /\ iu' = iu
    BY <1>3 DEF Take, clusterVars
  <2>2. job'.iu = iuCache
    BY <2>1 DEF NewJob
  <2>3. Promise!Begin
    BY <1>2, <2>1, <2>2 DEF Promise!Begin, Aim, Doing, Desired
  <2> QED
    BY <2>3 DEF Promise!Next
<1>4. CASE PassScaleGate \/ ListPods \/ PassVersionGate
  <2>1. /\ pc \in {"check", "list", "versions"} /\ pc' \in {"list", "versions", "sync"}
        /\ iu' = iu /\ job \in Job
        /\ \/ job' = job
           \/ job' = [job EXCEPT !.view = ActivePods(cache),
                                 !.behind = {n \in Names : IsActive(cache[n]) /\ rvExp[n] > 0}]
    BY <1>4 DEF PassScaleGate, ListPods, PassVersionGate, clusterVars, TypeOK
  <2>2. job'.iu = job.iu
    BY <2>1 DEF Job
  <2>3. Aim' = Aim
    BY <2>1, <2>2, SameAim
  <2>4. Doing' = Doing
    BY <2>1 DEF Doing
  <2> QED
    BY <1>1, <1>2, <2>1, <2>3, <2>4, Stutters
<1>5. CASE \/ WaitForScale \/ WaitForVersions \/ ReconcileFails
           \/ StatusIsConsistent \/ UpdateStatus \/ UpdateStatusFails
  <2>1. pc \in {"check", "versions", "status"} /\ pc' = "idle"
    BY <1>5 DEF WaitForScale, WaitForVersions, ReconcileFails, StatusIsConsistent,
                UpdateStatus, UpdateStatusFails, Return
  <2>2. iu' = iu \/ iu' = [iu EXCEPT !.status = NewStatus]
    BY <1>5 DEF WaitForScale, WaitForVersions, ReconcileFails, StatusIsConsistent,
                UpdateStatus, UpdateStatusFails, clusterVars
  <2>3. Desired(iu)' = Desired(iu)
    BY <2>2 DEF Desired, TypeOK, ClusterTypeOK, Inplaceu
  <2>4. Promise!End
    BY <1>2, <2>1, <2>3 DEF Promise!End, Aim, Doing
  <2> QED
    BY <2>4 DEF Promise!Next
<1> QED
  BY <1>3, <1>4, <1>5

\* The steps of a pass that call nobody: it turns from one thing to another, or goes on.
LEMMA TurnRefines ==
    ASSUME Mirror,
           \/ ScaleOut \/ DeleteSpecified \/ ScaleIn \/ NothingToScale
           \/ StartBatch \/ EndCreate \/ EndDelete \/ ChooseUpdates
           \/ \E n \in Names : \/ CreateFails(n) \/ ExpectDelete(n) \/ DeleteFails(n)
                               \/ UpdateFails(n)
    PROVE  [Promise!Next]_(Promise!vars)
<1>1. /\ UNCHANGED <<iu, iuCache, pods>> /\ pc # "idle" /\ pc' # "idle"
      /\ job \in Job
  BY DEF ScaleOut, DeleteSpecified, ScaleIn, NothingToScale, DeleteNext, StartBatch, EndCreate,
         EndDelete, ChooseUpdates, CreateFails, ExpectDelete, DeleteFails, DeleteStops,
         UpdateFails, UpdateStops, clusterVars, Mirror, TypeOK
<1>2. ActivePods(pods)' = ActivePods(pods)
  BY <1>1 DEF ActivePods
<1>3. ASSUME job'.iu = job.iu, Doing' = Doing \/ <<Doing, Doing'>> \in Promise!Turns
      PROVE  [Promise!Next]_(Promise!vars)
  <2>1. Aim' = Aim
    BY <1>1, <1>3, SameAim
  <2> QED
    BY <1>1, <1>2, <1>3, <2>1, Stutters, Turned
<1>4. CASE ScaleOut
  <2>1. /\ pc = "sync" /\ pc' = "create"
        /\ \E S : job' = [job EXCEPT !.plan = S, !.todo = S, !.size = 1]
    BY <1>4 DEF ScaleOut
  <2>2. job'.iu = job.iu /\ job'.made = {}
    BY <1>1, <2>1 DEF Job, Mirror, Pass, Unstarted
  <2>3. Doing = "reads" /\ Doing' = "creates"
    BY <2>1, <2>2 DEF Doing
  <2> QED
    BY <1>3, <2>2, <2>3 DEF Promise!Turns
<1>5. CASE DeleteSpecified \/ ScaleIn \/ NothingToScale
  <2>1. /\ pc = "sync" /\ pc' \in {"update", "delete"}
        /\ \E S : job' = [job EXCEPT !.todo = S]
    BY <1>5 DEF DeleteSpecified, ScaleIn, NothingToScale, DeleteNext
  <2>2. job'.iu = job.iu /\ ~job'.did
    BY <1>1, <2>1 DEF Job, Mirror, Causes, DeletesSomething
  <2>3. Doing = "reads" /\ Doing' \in {"updates", "deletes"}
    BY <2>1, <2>2 DEF Doing
  <2> QED
    BY <1>3, <2>2, <2>3 DEF Promise!Turns
<1>6. CASE StartBatch \/ \E n \in Names : CreateFails(n)
  <2>1. /\ pc = "create" /\ pc' = "create"
        /\ \/ \E B : job' = [job EXCEPT !.batch = B, !.todo = job.todo \ B, !.size = 2 * job.size]
           \/ \E n : job' = [job EXCEPT !.batch = job.batch \ {n}, !.err = TRUE]
    BY <1>6 DEF StartBatch, CreateFails
  <2>2. job'.iu = job.iu /\ job'.made = job.made
    BY <1>1, <2>1 DEF Job
  <2>3. Doing' = Doing
    BY <2>1, <2>2 DEF Doing
  <2> QED
    BY <1>3, <2>2, <2>3
<1>7. CASE EndCreate
  <2>1. /\ pc = "create" /\ pc' = IF job.made = {} THEN "update" ELSE "status"
        /\ job' = [job EXCEPT !.todo = {}]
    BY <1>7 DEF EndCreate
  <2>2. job'.iu = job.iu
    BY <1>1, <2>1 DEF Job
  <2>3. \/ Doing = "creates" /\ Doing' = "updates"
        \/ Doing = "created" /\ Doing' = "done"
    BY <2>1 DEF Doing
  <2> QED
    BY <1>3, <2>2, <2>3 DEF Promise!Turns
<1>8. CASE \E n \in Names : ExpectDelete(n)
  <2>1. /\ pc = "delete" /\ pc' = "delete"
        /\ \E n : job' = [job EXCEPT !.batch = {n}, !.todo = job.todo \ {n}]
    BY <1>8 DEF ExpectDelete
  <2>2. job'.iu = job.iu /\ job'.did = job.did
    BY <1>1, <2>1 DEF Job
  <2>3. Doing' = Doing
    BY <2>1, <2>2 DEF Doing
  <2> QED
    BY <1>3, <2>2, <2>3
<1>9. CASE \E n \in Names : DeleteFails(n)
  <2>1. /\ pc = "delete" /\ pc' = IF job.did THEN "status" ELSE "update"
        /\ job' = [job EXCEPT !.batch = {}, !.todo = {}, !.err = TRUE]
    BY <1>9 DEF DeleteFails, DeleteStops
  <2>2. job'.iu = job.iu
    BY <1>1, <2>1 DEF Job
  <2>3. \/ Doing = "deletes" /\ Doing' = "updates"
        \/ Doing = "deleted" /\ Doing' = "done"
    BY <2>1 DEF Doing
  <2> QED
    BY <1>3, <2>2, <2>3 DEF Promise!Turns
<1>10. CASE EndDelete
  <2>1. pc = "delete" /\ pc' = "status" /\ job' = job /\ Chosen = {}
    BY <1>10 DEF EndDelete, Chosen
  <2>2. job.did
    BY <2>1 DEF Mirror, Causes, DeletesSomething
  <2>3. Doing = "deleted" /\ Doing' = "done"
    BY <2>1, <2>2 DEF Doing
  <2> QED
    BY <1>3, <2>1, <2>3 DEF Promise!Turns
<1>11. CASE ChooseUpdates
  <2>1. /\ pc = "update" /\ pc' \in {"status", "updating"}
        /\ \E S : job' = [job EXCEPT !.todo = S]
    BY <1>11 DEF ChooseUpdates
  <2>2. job'.iu = job.iu
    BY <1>1, <2>1 DEF Job
  <2>3. Doing = "updates" /\ Doing' \in {"updates", "done"}
    BY <2>1 DEF Doing
  <2> QED
    BY <1>3, <2>2, <2>3 DEF Promise!Turns
<1>12. CASE \E n \in Names : UpdateFails(n)
  <2>1. pc = "updating" /\ pc' = "status" /\ job' = [job EXCEPT !.todo = {}, !.err = TRUE]
    BY <1>12 DEF UpdateFails, UpdateStops
  <2>2. job'.iu = job.iu
    BY <1>1, <2>1 DEF Job
  <2>3. Doing = "updates" /\ Doing' = "done"
    BY <2>1 DEF Doing
  <2> QED
    BY <1>3, <2>2, <2>3 DEF Promise!Turns
<1> QED
  BY <1>4, <1>5, <1>6, <1>7, <1>8, <1>9, <1>10, <1>11, <1>12

\* createPods: the pod is new, and the pass knew of all there are.
LEMMA CreateRefines ==
    ASSUME Mirror, NEW n \in Names, CreateOne(n)
    PROVE  Promise!Next
<1> DEFINE p == NewPod(job.iu.rev)
           M == Active \cup {n}
<1>1. /\ pc = "create" /\ pc' = "create" /\ n \in job.batch /\ job \in Job
      /\ Publish(n, p) /\ UNCHANGED <<iu, iuCache>>
      /\ job' = [job EXCEPT !.batch = job.batch \ {n}, !.made = job.made \cup {n}]
  BY DEF CreateOne, Mirror, TypeOK
<1>2. job'.iu = job.iu /\ job'.made = job.made \cup {n}
  BY <1>1 DEF Job
<1>3. n \in Unused /\ n \notin Active
  BY <1>1 DEF Mirror, Pass, Planned, Unused, Active, IsActive
<1>4. p \in Pod /\ IsActive(p) /\ p.rev = job.iu.rev /\ ~p.sdel
  <2>1. p \in Pod
    BY <1>1 DEF Job, Inplaceu, NewPod, Pod
  <2> QED
    BY <2>1, NoneAssumption DEF NewPod, IsActive
<1> HIDE DEF p
<1>5. ActivePods(pods)' = [ActivePods(pods) EXCEPT ![n] = p]
  BY <1>1, <1>4, SeenWrite DEF Mirror
<1>6. Promise!Members(ActivePods(pods)') = M
  <2>1. p # None
    BY <1>4 DEF IsActive
  <2>2. DOMAIN ActivePods(pods) = Names
    BY DEF ActivePods
  <2> QED
    BY <1>5, <2>1, <2>2, SameMembers DEF Promise!Members
<1>7. Cardinality(M) <= job.iu.replicas + Surge(job.iu.replicas)
  <2>1. Cardinality(Active \cup job.todo \cup job.batch) <= job.iu.replicas + Surge(job.iu.replicas)
    <3>1. CreationInvariant
      BY DEF Mirror, World, Pass, CreationInvariant
    <3> QED
      BY <1>1, <3>1, BoundFromPlan DEF Mirror, SurgeBound
  <2>2. /\ M \subseteq Active \cup job.todo \cup job.batch
        /\ Active \cup job.todo \cup job.batch \subseteq Names
    BY <1>1 DEF Job, Active
  <2>3. /\ Cardinality(M) <= Cardinality(Active \cup job.todo \cup job.batch)
        /\ Cardinality(M) \in Nat /\ Cardinality(Active \cup job.todo \cup job.batch) \in Nat
    BY <2>2, LargerSetCounts
  <2>4. job.iu.replicas \in Nat /\ Surge(job.iu.replicas) \in Nat
    BY <1>1, StrategyAssumption, GetValueType DEF Surge, Job, Inplaceu
  <2> QED
    BY <2>1, <2>3, <2>4
<1>8. Aim' = Aim /\ Aim = Desired(job.iu)
  BY <1>1, <1>2 DEF Aim
<1>9. Doing \in {"creates", "created"} /\ Doing' = "created"
  BY <1>1, <1>2 DEF Doing
<1>10. ActivePods(pods)[n] = None
  BY <1>3, SeenIs
<1>11. p \in Promise!Pod /\ Promise!IsActive(p)
  BY <1>4 DEF Promise!Pod, Pod, Promise!IsActive, IsActive
<1>12. Aim.replicas = job.iu.replicas /\ Aim.rev = job.iu.rev
  BY <1>8 DEF Desired
<1>13. Promise!Cardinality(Promise!Members(ActivePods(pods)')) <= Aim.replicas + Promise!Surge(Aim.replicas)
  BY <1>6, <1>7, <1>12, SameCardinality, SameSurge
<1> HIDE DEF M
<1>14. Desired(iu)' = Desired(iu) /\ Desired(iuCache)' = Desired(iuCache)
  BY <1>1 DEF Desired
<1>15. Promise!Create(n)
  BY <1>4, <1>5, <1>8, <1>9, <1>10, <1>11, <1>12, <1>13, <1>14 DEF Promise!Create
<1> QED
  BY <1>15 DEF Promise!Next

\* deletePods: the pod is there, and is marked or one of too many.
LEMMA DeleteRefines ==
    ASSUME Mirror, NEW n \in Names, DeleteOne(n)
    PROVE  Promise!Next
<1>1. /\ pc = "delete" /\ pc' = "delete" /\ n \in job.batch /\ job \in Job
      /\ UNCHANGED <<iu, iuCache>>
      /\ job' = [job EXCEPT !.batch = {}, !.did = TRUE]
  BY DEF DeleteOne, Mirror, TypeOK
<1>2. job'.iu = job.iu /\ job'.did
  BY <1>1 DEF Job
<1>3. n \in Active \cap Members(job.view) /\ n \in Chosen
  BY <1>1 DEF Mirror, Sparing, Spared, Chosen
<1>4. ActivePods(pods)' = [ActivePods(pods) EXCEPT ![n] = None]
  <2>1. PICK p \in Deleted(pods[n]) : Publish(n, p)
    BY <1>3 DEF DeleteOne, Active, IsActive
  <2>2. p \in Pod \cup {None} /\ ~IsActive(p)
    BY <1>3, VersionTypes, DeletedType DEF Mirror, Active, Deleted, IsActive, Pod
  <2> QED
    BY <2>1, <2>2, SeenWrite DEF Mirror
<1>5. ActivePods(pods)[n] = pods[n] /\ pods[n] # None
  BY <1>3, SeenIs DEF Active, IsActive
<1>6. \/ pods[n].sdel
      \/ pods[n].rev = job.iu.rev /\ Cardinality(Active \ {n}) >= job.iu.replicas
  <2>1. CASE job.view[n].sdel
    BY <1>1, <1>3, <2>1 DEF Mirror, Causes, ListedMarks
  <2>2. CASE ~job.view[n].sdel
    <3>1. job.view[n].rev = job.iu.rev /\ job.view[n].rev = pods[n].rev
      BY <1>1, <1>3, <2>2 DEF Mirror, Causes, ChosenForCause, Listing, ListedRevisions
    <3>2. Cardinality(Active \ Chosen) >= job.iu.replicas
      BY <1>1, <1>3, <2>2 DEF Mirror, Sparing, Spared
    <3>3. /\ Cardinality(Active \ Chosen) <= Cardinality(Active \ {n})
          /\ Cardinality(Active \ Chosen) \in Nat /\ Cardinality(Active \ {n}) \in Nat
      BY <1>3, LargerSetCounts DEF Active
    <3>4. job.iu.replicas \in Nat
      BY <1>1 DEF Job, Inplaceu
    <3> QED
      BY <3>1, <3>2, <3>3, <3>4
  <2> QED
    BY <2>1, <2>2
<1>7. Aim' = Aim /\ Aim.replicas = job.iu.replicas /\ Aim.rev = job.iu.rev
  BY <1>1, <1>2 DEF Aim, Desired
<1>8. Doing \in {"deletes", "deleted"} /\ Doing' = "deleted"
  BY <1>1, <1>2 DEF Doing
<1>9. \/ ActivePods(pods)[n].sdel
      \/ /\ ActivePods(pods)[n].rev = Aim.rev
         /\ Promise!Cardinality(Promise!Members(ActivePods(pods)) \ {n}) >= Aim.replicas
  BY <1>5, <1>6, <1>7, SameMembers, SameCardinality
<1>10. Desired(iu)' = Desired(iu) /\ Desired(iuCache)' = Desired(iuCache)
  BY <1>1 DEF Desired
<1>11. Promise!Delete(n)
  BY <1>4, <1>5, <1>7, <1>8, <1>9, <1>10 DEF Promise!Delete
<1> QED
  BY <1>11 DEF Promise!Next

\* Update: the pod is at another revision, and goes to the one aimed at or is marked.
LEMMA UpdateRefines ==
    ASSUME Mirror, NEW n \in Names, UpdateInPlace(n) \/ UpdateByRecreate(n)
    PROVE  [Promise!Next]_(Promise!vars)
<1>1. /\ pc = "updating" /\ pc' \in {"updating", "status"} /\ n \in job.todo /\ job \in Job
      /\ UNCHANGED <<iu, iuCache>>
      /\ \E view : job' = [job EXCEPT !.todo = job.todo \ {n}, !.view = view]
  BY DEF UpdateInPlace, UpdateByRecreate, UpdateNext, NextInOrder, Mirror, TypeOK
<1>2. job'.iu = job.iu
  BY <1>1 DEF Job
<1>3. Aim' = Aim /\ Aim.rev = job.iu.rev
  BY <1>1, <1>2 DEF Aim, Desired
<1>4. Doing = "updates" /\ Doing' \in {"updates", "done"}
  BY <1>1 DEF Doing
<1>5. CASE ActivePods(pods)' = ActivePods(pods)
  <2>1. Doing' = Doing \/ <<Doing, Doing'>> \in Promise!Turns
    BY <1>4 DEF Promise!Turns
  <2> QED
    BY <1>1, <1>3, <1>5, <2>1, Stutters, Turned
<1>6. /\ pods \in [Names -> Pod \cup {None}]
      /\ job.iu.rev \in Revs /\ TypeOK
  BY <1>1, VersionTypes DEF Mirror, Job, Inplaceu
<1>7. ASSUME NEW p \in Pod, pods[n] \in Pod, Publish(n, p),
             p.phase = pods[n].phase, p.term = pods[n].term,
             \/ CanUpdateInPlace(n) /\ p = [pods[n] EXCEPT !.rev = job.iu.rev]
             \/ p = [pods[n] EXCEPT !.sdel = TRUE]
      PROVE  [Promise!Next]_(Promise!vars)
  <2>1. IsActive(p) <=> IsActive(pods[n])
    BY <1>7, SameActivity
  <2>2. CASE n \notin Active
    <3>1. ~IsActive(p)
      BY <2>1, <2>2 DEF Active
    <3> QED
      BY <1>5, <1>6, <1>7, <2>2, <3>1, UnseenWrite
  <2>3. CASE n \in Active
    <3>1. ActivePods(pods)[n] = pods[n] /\ pods[n] # None
      BY <2>3, SeenIs DEF Active, IsActive
    <3>2. ActivePods(pods)' = [ActivePods(pods) EXCEPT ![n] = p]
      BY <1>6, <1>7, <2>1, <2>3, SeenWrite DEF Active
    <3>3. job.view[n].rev = pods[n].rev /\ pods[n].rev # Aim.rev
      BY <1>1, <1>3, <2>3 DEF Mirror, Listing, ListedRevisions
    <3>4. CanUpdateInPlace(n) <=> <<ActivePods(pods)[n].rev, Aim.rev>> \in InPlace
      BY <1>3, <3>1, <3>3 DEF CanUpdateInPlace
    <3>5. \/ /\ <<ActivePods(pods)[n].rev, Aim.rev>> \in InPlace
             /\ ActivePods(pods)' = [ActivePods(pods) EXCEPT ![n].rev = Aim.rev]
          \/ ActivePods(pods)' = [ActivePods(pods) EXCEPT ![n].sdel = TRUE]
      BY <1>3, <1>7, <3>1, <3>2, <3>4
    <3>6. Desired(iu)' = Desired(iu) /\ Desired(iuCache)' = Desired(iuCache)
      BY <1>1 DEF Desired
    <3>7. Promise!Update(n)
      BY <1>3, <1>4, <3>1, <3>3, <3>5, <3>6 DEF Promise!Update
    <3> QED
      BY <3>7 DEF Promise!Next
  <2> QED
    BY <2>2, <2>3
<1>8. CASE UpdateInPlace(n)
  <2> DEFINE p == [pods[n] EXCEPT !.rev = job.iu.rev]
  <2>1. CanUpdateInPlace(n) /\ pods[n] \in Pod /\ Publish(n, p)
    BY <1>6, <1>8 DEF UpdateInPlace
  <2>2. p \in Pod /\ p.phase = pods[n].phase /\ p.term = pods[n].term
    BY <1>6, <2>1 DEF Pod
  <2> QED
    BY <1>7, <2>1, <2>2
<1>9. CASE UpdateByRecreate(n)
  <2> DEFINE p == [pods[n] EXCEPT !.sdel = TRUE]
  <2>1. pods' = pods \/ (pods[n] # None /\ Publish(n, p))
    BY <1>9 DEF UpdateByRecreate
  <2>2. CASE pods' = pods
    BY <1>5, <2>2 DEF ActivePods
  <2>3. CASE pods[n] # None /\ Publish(n, p)
    <3>1. pods[n] \in Pod
      BY <1>6, <2>3
    <3>2. p \in Pod /\ p.phase = pods[n].phase /\ p.term = pods[n].term
      BY <3>1 DEF Pod
    <3> QED
      BY <1>7, <2>1, <2>3, <3>1, <3>2
  <2> QED
    BY <2>1, <2>2, <2>3
<1> QED
  BY <1>8, <1>9

-----------------------------------------------------------------------------
LEMMA NoneSlips ==
    ASSUME NoTimeouts, slipped = {}, [Next]_vars
    PROVE  slipped' = {}
<1>1. CASE ListPods
  BY <1>1 DEF ListPods
<1>2. CASE ~ListPods
  BY <1>2, SlippedStays DEF Slip, NoTimeouts
<1> QED
  BY <1>1, <1>2

LEMMA StepRefines ==
    ASSUME NothingElseIsLost, Mirror, TypeOK', [Next]_vars
    PROVE  [Promise!Next]_(Promise!vars)
<1>1. TypeOK
  BY DEF Mirror
<1>2. CASE Worker
  BY <1>1, <1>2, ReadRefines, TurnRefines, CreateRefines, DeleteRefines, UpdateRefines DEF Worker
<1>3. CASE WorkerFault
  <2>1. ReconcileFails \/ \E n \in Names : CreateFails(n)
    BY <1>3 DEF WorkerFault, CreateTimesOut, DeleteTimesOut, UpdateTimesOut,
                UpdateStatusTimesOut, Slip, Disturb, NothingElseIsLost, NoTimeouts
  <2> QED
    BY <1>1, <2>1, ReadRefines, TurnRefines
<1> QED
  BY <1>1, <1>2, <1>3, InformerRefines, EnvironmentRefines DEF Next

\* The controller does to the pods of the API server what Scaler, which sees them, allows:
\* in createPods, deletePods and Update, through a late cache, lost watches, refused calls
\* and restarts, as long as nobody else takes pods away and no call fails after its effect.
THEOREM ControllerImplementsScaler == NothingElseIsLost => (Spec => ImplementsScaler)
<1> SUFFICES ASSUME NothingElseIsLost PROVE Spec => ImplementsScaler
  OBVIOUS
<1>1. Init => Mirror
  BY InitTypeOK, CreationInit, SparingInit, ListingInit, CausesInit DEF Mirror, Init
<1>2. Mirror /\ [Next]_vars => Mirror' /\ [Promise!Next]_(Promise!vars)
  <2> SUFFICES ASSUME Mirror, [Next]_vars PROVE Mirror' /\ [Promise!Next]_(Promise!vars)
    OBVIOUS
  <2>1. TypeOK'
    BY NextTypeOK DEF Mirror
  <2>2. World' /\ Pass' /\ Fates' /\ Sparing'
    BY CreationStep, SparingStep DEF Mirror, NothingElseIsLost
  <2>3. Versions' /\ Listing' /\ MarksStay' /\ Causes'
    BY ListingStep, CausesStep DEF Mirror
  <2>4. slipped' = {}
    BY NoneSlips DEF Mirror, NothingElseIsLost
  <2> QED
    BY <2>1, <2>2, <2>3, <2>4, StepRefines DEF Mirror
<1> QED
  BY <1>1, <1>2, InitRefines, PTL DEF Spec, ImplementsScaler, Promise!Spec
=============================================================================
