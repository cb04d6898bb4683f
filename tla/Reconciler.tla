----------------------------- MODULE Reconciler -----------------------------
(***************************************************************************)
(* The inplaceu controller over a Cluster: the pod event handler, the two  *)
(* expectation stores it shares with the reconcile worker, and the one     *)
(* worker that runs Reconcile for the Inplaceu                             *)
(* (internal/controller/inplaceu_controller.go, internal/sync,             *)
(* internal/inplace_update, internal/status, internal/utils/expectations). *)
(*                                                                         *)
(* A reconcile pass is cut into steps at every call that leaves the worker *)
(* (a cache read, an API write, an access to a store the handler shares),  *)
(* so the handler, the informer, the kubelets, users and a restart of the  *)
(* controller can come between any two of them.                            *)
(***************************************************************************)
EXTENDS Cluster

CONSTANTS
    InPlace,          \* pairs <<old, new>> of revisions CalculateSpec accepts
    InitReplicas,     \* spec.replicas in the initial state
    InitRev,          \* the template's revision in the initial state
    InitCount         \* how many pods run in the initial state

ASSUME ReconcilerAssumption ==
    /\ InPlace \subseteq Revs \X Revs
    /\ InitReplicas \in Nat
    /\ InitRev \in Revs
    /\ InitCount \in Nat

VARIABLES
    exp,        \* ScaleExpectations: names whose create / delete is awaited
    rvExp,      \* ResourceVersionExpectations: name -> how many versions the
                \* cache still lacks of the expected one, or NoEntry
    queued,     \* the Inplaceu is in the work queue
    pc,         \* the step the worker is at
    job         \* the local state of the running Reconcile

controllerVars == <<exp, rvExp, queued, pc, job>>
vars == <<clusterVars, controllerVars>>

NoEntry == -1

Steps == {"idle", "check", "list", "versions", "sync", "create", "delete",
          "update", "updating", "status"}

NoView == [n \in Names |-> None]

\* view and behind are what ListPods saw; plan, todo, batch and made are the
\* pods of the current createPods, deletePods or Update; did and err are what
\* it is going to return.
Job == [iu : Inplaceu, view : [Names -> Pod \cup {None}], behind : SUBSET Names,
        plan : SUBSET Names, todo : SUBSET Names, batch : SUBSET Names, size : Nat,
        made : SUBSET Names, did : BOOLEAN, err : BOOLEAN]

NewJob(obj) == [iu |-> obj, view |-> NoView, behind |-> {}, plan |-> {}, todo |-> {},
                batch |-> {}, size |-> 0, made |-> {}, did |-> FALSE, err |-> FALSE]

TypeOK ==
    /\ ClusterTypeOK
    /\ exp \in [create : SUBSET Names, delete : SUBSET Names]
    /\ rvExp \in [Names -> Nat \cup {NoEntry}]
    /\ queued \in BOOLEAN
    /\ pc \in Steps
    /\ IF pc = "idle" THEN job = None ELSE job \in Job

-----------------------------------------------------------------------------
(* The status. *)

Count(view, Test(_)) == Cardinality({n \in Members(view) : Test(view[n])})

\* calculateStatus on the status that Reconcile starts from
CalculateStatus(obj, view) ==
    LET replicas == Cardinality(Members(view))
        updated  == Cardinality(Updated(view, obj.rev))
    IN  [observed  |-> obj.gen,
         replicas  |-> replicas,
         ready     |-> Count(view, IsRunning),
         available |-> Count(view, IsPodAvailable),
         updated   |-> updated,
         update    |-> obj.rev,
         current   |-> IF \/ updated = replicas /\ replicas = obj.replicas
                          \/ obj.status.current = None
                       THEN obj.rev ELSE obj.status.current]

InconsistentStatus(old, new) ==
    \/ new.observed > old.observed
    \/ \E f \in {"replicas", "ready", "available", "updated", "update", "current"} :
          new[f] # old[f]

ActivePods(objs) == [n \in Names |-> IF IsActive(objs[n]) THEN objs[n] ELSE None]

-----------------------------------------------------------------------------
RunningPod(rev) ==
    [phase |-> "Running", ready |-> TRUE, rev |-> rev, sdel |-> FALSE, term |-> FALSE]

NewPod(rev) ==
    [phase |-> "Pending", ready |-> FALSE, rev |-> rev, sdel |-> FALSE, term |-> FALSE]

EmptyStatus == [observed |-> 0, replicas |-> 0, ready |-> 0, available |-> 0,
                updated |-> 0, update |-> None, current |-> None]

InitObject(objs) ==
    LET new == [replicas |-> InitReplicas, rev |-> InitRev, gen |-> 1, status |-> EmptyStatus]
    IN  IF InitCount = 0 THEN new
        ELSE [new EXCEPT !.status = CalculateStatus(new, objs)]

\* A controller that just started on InitCount running pods and their status
\* (or, with none, on an Inplaceu just created).
Init ==
    /\ \E S \in {X \in SUBSET Names : Cardinality(X) = InitCount} :
          pods = [n \in Names |-> IF n \in S THEN RunningPod(InitRev) ELSE None]
    /\ cache = pods
    /\ watch = [n \in Names |-> <<>>]
    /\ notes = [n \in Names |-> <<>>]
    /\ iu = InitObject(pods)
    /\ iuCache = iu
    /\ budget = Budget /\ slipped = {}
    /\ exp = [create |-> {}, delete |-> {}]
    /\ rvExp = [n \in Names |-> NoEntry]
    /\ queued = TRUE
    /\ pc = "idle"
    /\ job = None

-----------------------------------------------------------------------------
(* The event handler and the work queue. *)

\* Fault: an event that changes a pod does not enqueue its Inplaceu.
HandleNoteOnlyScaling(n) ==
    /\ notes[n] # <<>>
    /\ notes' = [notes EXCEPT ![n] = Tail(@)]
    /\ exp' = CASE Head(notes[n]) = "created" -> [exp EXCEPT !.create = @ \ {n}]
                [] Head(notes[n]) = "gone"    -> [exp EXCEPT !.delete = @ \ {n}]
                [] OTHER                      -> exp
    /\ rvExp' = IF Head(notes[n]) = "gone" THEN [rvExp EXCEPT ![n] = NoEntry] ELSE rvExp
    /\ queued' = (queued \/ Head(notes[n]) # "changed")
    /\ UNCHANGED <<iu, iuCache, pods, watch, cache, budget, slipped, pc, job>>

\* PodEventHandler
HandleNote(n) ==
    /\ notes[n] # <<>>
    /\ notes' = [notes EXCEPT ![n] = Tail(@)]
    /\ exp' = CASE Head(notes[n]) = "created" -> [exp EXCEPT !.create = @ \ {n}]
                [] Head(notes[n]) = "gone"    -> [exp EXCEPT !.delete = @ \ {n}]
                [] OTHER                      -> exp
    /\ rvExp' = IF Head(notes[n]) = "gone" THEN [rvExp EXCEPT ![n] = NoEntry] ELSE rvExp
    /\ queued' = TRUE
    /\ UNCHANGED <<iu, iuCache, pods, watch, cache, budget, slipped, pc, job>>

\* Fault: a version that nobody expects is counted as well.
InformerStepUncounted(n) ==
    /\ CacheApply(n)
    /\ rvExp' = [rvExp EXCEPT ![n] = @ - 1]
    /\ UNCHANGED <<exp, queued, pc, job>>

\* The cache comes one version closer to an expected one.
InformerStep(n) ==
    /\ CacheApply(n)
    /\ rvExp' = [rvExp EXCEPT ![n] = IF @ > 0 THEN @ - 1 ELSE @]
    /\ UNCHANGED <<exp, queued, pc, job>>

InformerRelists ==
    /\ Relist
    /\ rvExp' = [n \in Names |-> IF rvExp[n] > 0 THEN 0 ELSE rvExp[n]]
    /\ UNCHANGED <<exp, queued, pc, job>>

\* Fault: only a change of the spec enqueues.
InplaceuEventOfSpecOnly ==
    /\ iuCache # iu
    /\ iuCache' = iu
    /\ queued' = (queued \/ iuCache.gen # iu.gen)
    /\ UNCHANGED <<iu, pods, watch, cache, notes, budget, slipped, exp, rvExp, pc, job>>

\* Any update of the Inplaceu, of its status too, passes the predicate.
InplaceuEvent ==
    /\ iuCache # iu
    /\ iuCache' = iu
    /\ queued' = TRUE
    /\ UNCHANGED <<iu, pods, watch, cache, notes, budget, slipped, exp, rvExp, pc, job>>

\* The periodic resync of the Inplaceu informer, ten hours apart by default:
\* modelled when nothing else is on its way.
Resync ==
    /\ pc = "idle" /\ ~queued /\ Synced
    /\ queued' = TRUE
    /\ UNCHANGED <<clusterVars, exp, rvExp, pc, job>>

\* The controller process dies, and another one starts.
Crash ==
    /\ Disturb("crash")
    /\ Reload
    /\ exp' = [create |-> {}, delete |-> {}]
    /\ rvExp' = [n \in Names |-> NoEntry]
    /\ queued' = TRUE
    /\ pc' = "idle"
    /\ job' = None

-----------------------------------------------------------------------------
(* Reconcile: from the queue to the pods the pass works on. *)

\* Reconcile returns, to be called again if requeue or if it was enqueued
\* meanwhile.
Return(requeue) ==
    /\ pc' = "idle"
    /\ job' = None
    /\ queued' = (queued \/ requeue)

Satisfied == exp.create = {} /\ exp.delete = {}

Take ==
    /\ pc = "idle" /\ queued
    /\ queued' = FALSE
    /\ job' = NewJob(iuCache)
    /\ pc' = "check"
    /\ UNCHANGED <<clusterVars, exp, rvExp>>

\* Fault: the pass does not wait for the cache to show deletions.
PassScaleGateOfCreations ==
    /\ pc = "check"
    /\ exp.create = {}
    /\ pc' = "list"
    /\ UNCHANGED <<clusterVars, exp, rvExp, queued, job>>

PassScaleGate ==
    /\ pc = "check"
    /\ Satisfied
    /\ pc' = "list"
    /\ UNCHANGED <<clusterVars, exp, rvExp, queued, job>>

\* RequeueAfter is 1000 - unsatisfiedDuration nanoseconds: by the time that
\* passed it requeues at once, or not at all.
WaitForScale ==
    /\ pc = "check"
    /\ ~Satisfied
    /\ \E requeue \in BOOLEAN : Return(requeue)
    /\ UNCHANGED <<clusterVars, exp, rvExp>>

\* getOwnedPods: the active pods of the cache.
ListPods ==
    /\ pc = "list"
    /\ job' = [job EXCEPT !.view = ActivePods(cache),
                          !.behind = {n \in Names : IsActive(cache[n]) /\ rvExp[n] > 0}]
    /\ pc' = "versions"
    /\ slipped' = slipped \ {n \in Names : watch[n] = <<>>}
    /\ UNCHANGED <<iu, iuCache, pods, watch, cache, notes, budget, exp, rvExp, queued>>

\* Listed pods older than expected, unless the handler dropped the entry.
Stale == {n \in job.behind : rvExp[n] # NoEntry}

\* claimPods, the revision list or a revision write fails.
ReconcileFails ==
    /\ pc = "versions"
    /\ Disturb("apierr")
    /\ Return(TRUE)
    /\ UNCHANGED <<iu, iuCache, pods, watch, cache, notes, exp, rvExp>>

\* Fault: the pass goes on with pods older than expected.
PassVersionGateAlways ==
    /\ pc = "versions"
    /\ rvExp' = [n \in Names |-> IF job.view[n] # None THEN NoEntry ELSE rvExp[n]]
    /\ pc' = "sync"
    /\ UNCHANGED <<clusterVars, exp, queued, job>>

\* Observe and IsSatisfied drop the entries of the pods that are up to date.
PassVersionGate ==
    /\ pc = "versions"
    /\ Stale = {}
    /\ rvExp' = [n \in Names |-> IF job.view[n] # None THEN NoEntry ELSE rvExp[n]]
    /\ pc' = "sync"
    /\ UNCHANGED <<clusterVars, exp, queued, job>>

\* Under five minutes requeue, after that return without; the entry stays.
\* Entries of other pods that Observe may drop are no longer awaited.
WaitForVersions ==
    /\ pc = "versions"
    /\ Stale # {}
    /\ \E requeue \in BOOLEAN : Return(requeue)
    /\ UNCHANGED <<clusterVars, exp, rvExp>>

-----------------------------------------------------------------------------
(* Scale. *)

PassDiffs == Diffs(job.iu.replicas, job.view, job.iu.rev)

\* getOrGenAvailableIDs: ids of no pod listed, and so of no pod at all.
Fresh == Unused \ (exp.create \cup exp.delete \cup Members(job.view))

\* Fault: the created pods are not expected.
ScaleOutUnexpected ==
    /\ pc = "sync"
    /\ PassDiffs.scaleUpNum > 0
    /\ \E S \in SUBSET Fresh :
          /\ Cardinality(S) = PassDiffs.scaleUpNum
          /\ exp' = exp
          /\ job' = [job EXCEPT !.plan = S, !.todo = S, !.size = 1]
    /\ pc' = "create"
    /\ UNCHANGED <<clusterVars, rvExp, queued>>

\* Step 3 up to the calls: every new pod is expected before the first is made.
ScaleOut ==
    /\ pc = "sync"
    /\ PassDiffs.scaleUpNum > 0
    /\ \E S \in SUBSET Fresh :
          /\ Cardinality(S) = PassDiffs.scaleUpNum
          /\ exp' = [exp EXCEPT !.create = @ \cup S]
          /\ job' = [job EXCEPT !.plan = S, !.todo = S, !.size = 1]
    /\ pc' = "create"
    /\ UNCHANGED <<clusterVars, rvExp, queued>>

\* deletePods with nothing to delete returns without having modified.
DeleteNext(S) ==
    /\ job' = [job EXCEPT !.todo = S]
    /\ pc' = IF S = {} THEN "update" ELSE "delete"
    /\ UNCHANGED <<clusterVars, exp, rvExp, queued>>

\* Step 4.
DeleteSpecified ==
    /\ pc = "sync"
    /\ PassDiffs.scaleUpNum = 0
    /\ \E S \in SpecifiedDeleteChoices(job.view, PassDiffs) :
          S # {} /\ DeleteNext(S)

\* Step 5, when step 4 found nothing it could delete.
ScaleIn ==
    /\ pc = "sync"
    /\ PassDiffs.scaleUpNum = 0
    /\ {} \in SpecifiedDeleteChoices(job.view, PassDiffs)
    /\ PassDiffs.scaleDownNum > 0
    /\ \E S \in ScaleInChoices(job.view, job.iu.rev, PassDiffs) : DeleteNext(S)

NothingToScale ==
    /\ pc = "sync"
    /\ PassDiffs.scaleUpNum = 0
    /\ {} \in SpecifiedDeleteChoices(job.view, PassDiffs)
    /\ PassDiffs.scaleDownNum = 0
    /\ DeleteNext({})

-----------------------------------------------------------------------------
(* createPods.  DoItSlowly makes the calls of a batch concurrently, doubles *)
(* the batch when all of it succeeded and stops after a batch that failed.  *)

StartBatch ==
    /\ pc = "create" /\ job.batch = {} /\ job.todo # {} /\ ~job.err
    /\ \E B \in SUBSET job.todo :
          /\ Cardinality(B) = Smaller(job.size, Cardinality(job.todo))
          /\ job' = [job EXCEPT !.batch = B, !.todo = @ \ B, !.size = 2 * @]
    /\ UNCHANGED <<clusterVars, exp, rvExp, queued, pc>>

CreateOne(n) ==
    /\ pc = "create" /\ n \in job.batch
    /\ Publish(n, NewPod(job.iu.rev))
    /\ job' = [job EXCEPT !.batch = @ \ {n}, !.made = @ \cup {n}]
    /\ UNCHANGED <<iu, iuCache, cache, notes, budget, slipped, exp, rvExp, queued, pc>>

CreateFails(n) ==
    /\ pc = "create" /\ n \in job.batch
    /\ Disturb("apierr")
    /\ job' = [job EXCEPT !.batch = @ \ {n}, !.err = TRUE]
    /\ UNCHANGED <<iu, iuCache, pods, watch, cache, notes, exp, rvExp, queued, pc>>

\* The API server stores the pod and the call returns an error all the same.
CreateTimesOut(n) ==
    /\ pc = "create" /\ n \in job.batch
    /\ Disturb("timeout")
    /\ Publish(n, NewPod(job.iu.rev))
    /\ job' = [job EXCEPT !.batch = @ \ {n}, !.err = TRUE]
    /\ UNCHANGED <<iu, iuCache, cache, notes, exp, rvExp, queued, pc>>

\* Fault: the expectations of the pods that were not created stay.
EndCreateNoRollback ==
    /\ pc = "create" /\ job.batch = {} /\ (job.todo = {} \/ job.err)
    /\ exp' = exp
    /\ pc' = IF job.made = {} THEN "update" ELSE "status"
    /\ job' = [job EXCEPT !.todo = {}]
    /\ UNCHANGED <<clusterVars, rvExp, queued>>

\* Fault: the rollback takes the created pods back, too.
EndCreateRollsAllBack ==
    /\ pc = "create" /\ job.batch = {} /\ (job.todo = {} \/ job.err)
    /\ exp' = IF job.err THEN [exp EXCEPT !.create = @ \ job.plan] ELSE exp
    /\ pc' = IF job.made = {} THEN "update" ELSE "status"
    /\ job' = [job EXCEPT !.todo = {}]
    /\ UNCHANGED <<clusterVars, rvExp, queued>>

\* The rollback; a pass that created something does not go on to Update.
EndCreate ==
    /\ pc = "create" /\ job.batch = {} /\ (job.todo = {} \/ job.err)
    /\ exp' = [exp EXCEPT !.create = @ \ (job.plan \ job.made)]
    /\ pc' = IF job.made = {} THEN "update" ELSE "status"
    /\ job' = [job EXCEPT !.todo = {}]
    /\ UNCHANGED <<clusterVars, rvExp, queued>>

-----------------------------------------------------------------------------
(* deletePods, in the order of the list. *)

\* Fault: the deletion is not expected.
DoNotExpectDelete(n) ==
    /\ pc = "delete" /\ job.batch = {} /\ n \in job.todo
    /\ exp' = exp
    /\ job' = [job EXCEPT !.batch = {n}, !.todo = @ \ {n}]
    /\ UNCHANGED <<clusterVars, rvExp, queued, pc>>

ExpectDelete(n) ==
    /\ pc = "delete" /\ job.batch = {} /\ n \in job.todo
    /\ exp' = [exp EXCEPT !.delete = @ \cup {n}]
    /\ job' = [job EXCEPT !.batch = {n}, !.todo = @ \ {n}]
    /\ UNCHANGED <<clusterVars, rvExp, queued, pc>>

\* Deleting a pod that is terminating already succeeds and changes nothing.
DeleteOne(n) ==
    /\ pc = "delete" /\ n \in job.batch
    /\ pods[n] # None
    /\ IF pods[n].term THEN UNCHANGED <<pods, watch>>
       ELSE \E p \in Deleted(pods[n]) : Publish(n, p)
    /\ job' = [job EXCEPT !.batch = {}, !.did = TRUE]
    /\ UNCHANGED <<iu, iuCache, cache, notes, budget, slipped, exp, rvExp, queued, pc>>

\* The first error ends the loop; what was expected of the call is taken back.
DeleteStops(n) ==
    /\ exp' = [exp EXCEPT !.delete = @ \ {n}]
    /\ job' = [job EXCEPT !.batch = {}, !.todo = {}, !.err = TRUE]
    /\ pc' = IF job.did THEN "status" ELSE "update"

DeleteFails(n) ==
    /\ pc = "delete" /\ n \in job.batch
    /\ (pods[n] = None /\ Calm) \/ Disturb("apierr")
    /\ DeleteStops(n)
    /\ UNCHANGED <<iu, iuCache, pods, watch, cache, notes, rvExp, queued>>

DeleteTimesOut(n) ==
    /\ pc = "delete" /\ n \in job.batch
    /\ IsActive(pods[n])
    /\ Disturb("timeout")
    /\ \E p \in Deleted(pods[n]) : Publish(n, p)
    /\ DeleteStops(n)
    /\ UNCHANGED <<iu, iuCache, cache, notes, rvExp, queued>>

EndDelete ==
    /\ pc = "delete" /\ job.batch = {} /\ job.todo = {}
    /\ pc' = "status"
    /\ UNCHANGED <<clusterVars, exp, rvExp, queued, job>>

-----------------------------------------------------------------------------
(* Update. *)

ChooseUpdates ==
    /\ pc = "update"
    /\ \E S \in UpdateChoices(job.view, job.iu.rev, PassDiffs) :
          /\ job' = [job EXCEPT !.todo = S]
          /\ pc' = IF S = {} THEN "status" ELSE "updating"
    /\ UNCHANGED <<clusterVars, exp, rvExp, queued>>

CanUpdateInPlace(n) == <<job.view[n].rev, job.iu.rev>> \in InPlace

\* One pod of the loop is done with.
UpdateNext(n, view) ==
    /\ job' = [job EXCEPT !.todo = @ \ {n}, !.view = view]
    /\ pc' = IF job.todo = {n} THEN "status" ELSE "updating"

\* ResourceVersionExpectations.Expect of the version just written.
Expect(n) == rvExp' = [rvExp EXCEPT ![n] = Len(watch'[n])]

\* Fault: the new version is not expected.
UpdateInPlaceUnexpected(n) ==
    /\ pc = "updating" /\ n \in NextInOrder(job.todo, job.view)
    /\ CanUpdateInPlace(n)
    /\ pods[n] # None /\ watch[n] = <<>>
    /\ Publish(n, [pods[n] EXCEPT !.rev = job.iu.rev])
    /\ rvExp' = rvExp
    /\ UpdateNext(n, job.view)
    /\ UNCHANGED <<iu, iuCache, cache, notes, budget, slipped, exp, queued>>

\* updatePodInPlace writes the copy of the cache: it succeeds when that is the
\* latest version.
UpdateInPlace(n) ==
    /\ pc = "updating" /\ n \in NextInOrder(job.todo, job.view)
    /\ CanUpdateInPlace(n)
    /\ pods[n] # None /\ watch[n] = <<>>
    /\ Publish(n, [pods[n] EXCEPT !.rev = job.iu.rev])
    /\ Expect(n)
    /\ UpdateNext(n, job.view)
    /\ UNCHANGED <<iu, iuCache, cache, notes, budget, slipped, exp, queued>>

\* PatchPodSpecifiedDelete; the pod of the list becomes the one the patch
\* returns.  A pod whose revision is not in the list of revisions, which comes from a
\* cache as well, is not updated in place either.
UpdateByRecreate(n) ==
    /\ pc = "updating" /\ n \in NextInOrder(job.todo, job.view)
    /\ (~CanUpdateInPlace(n) /\ Calm) \/ (CanUpdateInPlace(n) /\ Disturb("stale"))
    /\ IF job.view[n].sdel
       THEN UpdateNext(n, job.view) /\ UNCHANGED <<pods, watch, rvExp>>
       ELSE /\ pods[n] # None
            /\ IF pods[n].sdel THEN UNCHANGED <<pods, watch>>
               ELSE Publish(n, [pods[n] EXCEPT !.sdel = TRUE])
            /\ Expect(n)
            /\ UpdateNext(n, [job.view EXCEPT ![n] = pods'[n]])
    /\ UNCHANGED <<iu, iuCache, cache, notes, exp, queued>>

\* The first error ends Update.
UpdateStops ==
    /\ job' = [job EXCEPT !.todo = {}, !.err = TRUE]
    /\ pc' = "status"

\* A cached copy still behind after the retries, a pod that is gone, or a call that
\* fails.
UpdateFails(n) ==
    /\ pc = "updating" /\ n \in NextInOrder(job.todo, job.view)
    /\ \/ CanUpdateInPlace(n) /\ (pods[n] = None \/ watch[n] # <<>>) /\ Calm
       \/ ~CanUpdateInPlace(n) /\ ~job.view[n].sdel /\ pods[n] = None /\ Calm
       \/ (CanUpdateInPlace(n) \/ ~job.view[n].sdel) /\ Disturb("apierr")
    /\ UpdateStops
    /\ UNCHANGED <<iu, iuCache, pods, watch, cache, notes, exp, rvExp, queued>>

\* The write takes effect and returns an error: updatePod returns before it expects
\* the new version.
UpdateTimesOut(n) ==
    /\ pc = "updating" /\ n \in NextInOrder(job.todo, job.view)
    /\ pods[n] # None
    /\ \/ /\ CanUpdateInPlace(n) /\ watch[n] = <<>>
          /\ Slip(n)
          /\ Publish(n, [pods[n] EXCEPT !.rev = job.iu.rev])
       \/ /\ ~CanUpdateInPlace(n) /\ ~job.view[n].sdel /\ ~pods[n].sdel
          /\ Disturb("timeout")
          /\ Publish(n, [pods[n] EXCEPT !.sdel = TRUE])
    /\ UpdateStops
    /\ UNCHANGED <<iu, iuCache, cache, notes, exp, rvExp, queued>>

-----------------------------------------------------------------------------
(* UpdateInplaceuSetStatus, and the return of Reconcile. *)

NewStatus == CalculateStatus(job.iu, job.view)

StatusIsConsistent ==
    /\ pc = "status"
    /\ ~InconsistentStatus(job.iu.status, NewStatus)
    /\ Return(job.err)
    /\ UNCHANGED <<clusterVars, exp, rvExp>>

\* The status replaces that of the cached object: it is accepted when the
\* cache has the latest version.
UpdateStatus ==
    /\ pc = "status"
    /\ InconsistentStatus(job.iu.status, NewStatus)
    /\ iuCache = iu
    /\ iu' = [iu EXCEPT !.status = NewStatus]
    /\ Return(job.err)
    /\ UNCHANGED <<iuCache, pods, watch, cache, notes, budget, slipped, exp, rvExp>>

UpdateStatusFails ==
    /\ pc = "status"
    /\ InconsistentStatus(job.iu.status, NewStatus)
    /\ (iuCache # iu /\ Calm) \/ Disturb("apierr")
    /\ Return(TRUE)
    /\ UNCHANGED <<iu, iuCache, pods, watch, cache, notes, exp, rvExp>>

\* The status is stored and the call returns an error all the same.
UpdateStatusTimesOut ==
    /\ pc = "status"
    /\ InconsistentStatus(job.iu.status, NewStatus)
    /\ iuCache = iu
    /\ Disturb("timeout")
    /\ iu' = [iu EXCEPT !.status = NewStatus]
    /\ Return(TRUE)
    /\ UNCHANGED <<iuCache, pods, watch, cache, notes, exp, rvExp>>

-----------------------------------------------------------------------------
Worker ==
    \/ Take \/ PassScaleGate \/ WaitForScale
    \/ ListPods \/ PassVersionGate \/ WaitForVersions
    \/ ScaleOut \/ DeleteSpecified \/ ScaleIn \/ NothingToScale
    \/ StartBatch \/ EndCreate \/ EndDelete \/ ChooseUpdates
    \/ StatusIsConsistent \/ UpdateStatus \/ UpdateStatusFails
    \/ \E n \in Names :
          \/ CreateOne(n)
          \/ ExpectDelete(n) \/ DeleteOne(n) \/ DeleteFails(n)
          \/ UpdateInPlace(n) \/ UpdateByRecreate(n) \/ UpdateFails(n)

\* Refused calls that are not a worker step of their own above, and accepted
\* calls that return an error.
WorkerFault ==
    \/ ReconcileFails \/ UpdateStatusTimesOut
    \/ \E n \in Names : \/ CreateFails(n) \/ CreateTimesOut(n)
                        \/ DeleteTimesOut(n) \/ UpdateTimesOut(n)

Informer ==
    \/ InplaceuEvent \/ InformerRelists \/ Resync
    \/ \E n \in Names : InformerStep(n) \/ HandleNote(n)

EnvironmentStep == Environment /\ UNCHANGED controllerVars

Next == Worker \/ WorkerFault \/ Informer \/ Crash \/ EnvironmentStep

\* The scheduling of the code: the worker goroutine runs whenever it can, the
\* informers and the handler deliver what they have, kubelets run pods.  No
\* user, no fault and no resync is ever due.
Fairness ==
    /\ WF_vars(Worker)
    /\ WF_vars(InplaceuEvent)
    /\ \A n \in Names : /\ WF_vars(InformerStep(n))
                        /\ WF_vars(HandleNote(n))
                        /\ WF_vars(Kubelet(n) /\ UNCHANGED controllerVars)

Spec == Init /\ [][Next]_vars

FairSpec == Spec /\ Fairness

-----------------------------------------------------------------------------
(* Properties. *)

Active == {n \in Names : IsActive(pods[n])}
ReadyPods == {n \in Active : IsPodAvailable(pods[n])}
RunningPods == {n \in Active : IsRunning(pods[n])}

\* A pod the cache does not show yet is one the scale expectations wait for:
\* while they are satisfied, no active pod is invisible to a pass.
CreateCovered ==
    \A n \in Active : IsActive(cache[n]) \/ n \in exp.create

\* A pass never works towards more pods than spec.replicas plus maxSurge, however
\* late the cache shows the pods of earlier passes: neither those there nor
\* those it may still create.
SurgeBound ==
    pc = "create" =>
        Cardinality(Active \cup job.todo \cup job.batch)
            <= job.iu.replicas + Surge(job.iu.replicas)

\* The controller asks for the deletion of pod n in this step.
ControllerDeletes(n) ==
    /\ pc = "delete" /\ n \in job.batch
    /\ n \in Active /\ ~IsActive(pods'[n])

\* Scaling in stops at spec.replicas: a pod nobody marked for deletion is only
\* deleted while there are more pods than that, even if the pass before it
\* deleted pods this cache still shows.
ScaleInStopsAtReplicas ==
    [][\A n \in Names :
         ControllerDeletes(n) /\ ~job.view[n].sdel =>
             Cardinality(Active \ {n}) >= job.iu.replicas]_vars

\* Marked pods that were not available when the pass listed them: step 4
\* deletes them without regard to the limit, and the limit does not count them.
Escaping == {n \in SpecifiedDelete(job.view) : ~IsPodAvailable(job.view[n])}

\* Deleting pods the pass saw running, other than those, keeps spec.replicas minus
\* maxUnavailable running, but for those.  (A pod listed before it ran is deleted
\* without regard to the limit, too.)
DeletionKeepsRunning ==
    [][\A n \in RunningPods :
         ControllerDeletes(n) /\ IsRunning(job.view[n]) /\ n \notin Escaping =>
             Cardinality(RunningPods \ {n}) + Cardinality(Escaping)
                 >= job.iu.replicas - Unavailable(job.iu.replicas)]_vars

\* An update is written once: a pass never writes an active pod that an earlier pass
\* moved to the revision it is updating to, unless the call that did returned an error
\* and the pass listed the pod while that write was on its way to the cache: nothing
\* expects it then.  (Of a pod that is terminating it may: the handler drops the
\* expected version between the list and the check of it.)
NoRepeatedUpdate ==
    [][\A n \in Active \ slipped :
         /\ pc = "updating" /\ n \in job.todo
         /\ IsActive(pods'[n])
         /\ Len(watch'[n]) > Len(watch[n])
         => pods[n].rev # job.iu.rev]_vars

\* The worker has nothing to do, and nothing is under way to it.
Quiescent ==
    /\ pc = "idle" /\ ~queued
    /\ Synced

\* No kubelet has anything left to do either.
Settled ==
    /\ Quiescent
    /\ \A n \in Names : pods[n] # None =>
          ~pods[n].term /\ (pods[n].phase = "Failed" \/ IsPodAvailable(pods[n]))

\* What the user asked for: replicas pods, all of the template's revision, none
\* marked for deletion.
Converged ==
    /\ Cardinality(Active) = iu.replicas
    /\ \A n \in Active : pods[n].rev = iu.rev /\ ~pods[n].sdel

\* No lost wakeup: when nothing is left to happen by itself, the work is done.
\* There is no state in which the controller waits for an event that will not
\* come, or has missed one.
NoLostWakeup ==
    Settled => Converged /\ Satisfied

\* When nothing is left to happen by itself, the status tells the truth about
\* the pods and the generation it was computed from.
StatusAccurate ==
    Settled => iu.status = CalculateStatus(iu, ActivePods(pods))

\* After the last disturbance the pods come to be as the user asked, and stay.
EventuallyConverged == <>[]Converged

-----------------------------------------------------------------------------
(* Why creation is safe: the inductive invariant behind CreateCovered and   *)
(* SurgeBound, of a controller whose refused calls have no effect ("timeout" *)
(* is not a disturbance).                                                   *)

\* A pod that is terminating or failed never becomes active again: all versions
\* of an active pod still on their way are active.
FutureActive ==
    \A n \in Active : \A i \in DOMAIN watch[n] : IsActive(watch[n][i])

\* The handler observes a creation only after the cache shows the pod.
CreatedSeen ==
    \A n \in Active : (\E i \in DOMAIN notes[n] : notes[n][i] = "created") => IsActive(cache[n])

\* Nothing of createPods has happened yet.
Unstarted ==
    pc \in {"check", "list", "versions", "sync"} => job.made = {} /\ job.batch = {}

\* A pass lists the pods only when no creation is expected.
GatePassed == pc = "list" => exp.create = {}

\* From the list to the end of createPods, the pass knows every active pod.
Listed ==
    pc \in {"versions", "sync", "create"} =>
        \A n \in Active : job.view[n] # None \/ n \in job.made

\* createPods: the names not yet created are unknown to everyone, those not yet
\* tried are expected, and the plan keeps to the surge.
Planned ==
    pc = "create" =>
        /\ job.made \subseteq job.plan
        /\ job.batch \cup job.todo \subseteq job.plan \ job.made
        /\ job.batch \cap job.todo = {}
        /\ job.batch \cup job.todo \subseteq exp.create
        /\ job.plan \ job.made \subseteq Unused
        /\ Cardinality(Members(job.view)) + Cardinality(job.plan)
             <= job.iu.replicas + Surge(job.iu.replicas)

\* The conjunction of these, and CreateCovered.
CreationInvariant ==
    /\ FutureActive /\ CreatedSeen /\ CreateCovered
    /\ Unstarted /\ GatePassed /\ Listed /\ Planned

-----------------------------------------------------------------------------
(* Why deletion is safe: the invariant behind ScaleInStopsAtReplicas and    *)
(* DeletionKeepsRunning, of a controller whose pods are lost to nobody else *)
(* (no "evict", no "fail", no "timeout"), on top of CreationInvariant.      *)

\* The cache shows n as active, or is going to.
Shown(n) == IsActive(cache[n]) \/ \E i \in DOMAIN watch[n] : IsActive(watch[n][i])

RunningVersion(p) == IsActive(p) /\ IsRunning(p)

ShownRunning(n) ==
    RunningVersion(cache[n]) \/ \E i \in DOMAIN watch[n] : RunningVersion(watch[n][i])

\* Of the versions on their way, none is active after one that is not.
EndsForGood ==
    \A n \in Names : \A i, j \in DOMAIN watch[n] :
        i < j /\ IsActive(watch[n][j]) => IsActive(watch[n][i])

\* The handler observes a deletion only after the cache has stopped showing the pod.
GoneSeen ==
    \A n \in Names :
        (\E i \in DOMAIN notes[n] : notes[n][i] = "gone") => n \notin Active /\ ~Shown(n)

\* A deletion the cache does not show yet is expected.
DeleteCovered == \A n \in Names \ Active : Shown(n) => n \in exp.delete

\* A pod that was running and is still active is still running.
RunsOn == \A n \in Active : ShownRunning(n) => IsRunning(pods[n])

\* A pass that passed the gate lists no pod that is on its way out.
ListedAlive ==
    /\ pc = "list" => exp.delete = {}
    /\ pc \in {"versions", "sync"} =>
          \A n \in Members(job.view) :
              n \in Active /\ (IsRunning(job.view[n]) => IsRunning(pods[n]))

Chosen == job.todo \cup job.batch

\* deletePods: what is still to be deleted is there, and without it there are enough.
Spared ==
    pc = "delete" =>
        /\ Chosen \subseteq Active \cap Members(job.view)
        /\ job.batch \cap job.todo = {}
        /\ job.batch \subseteq exp.delete
        /\ (\E n \in Chosen : ~job.view[n].sdel) =>
              Cardinality(Active \ Chosen) >= job.iu.replicas
        /\ (\E n \in Chosen \ Escaping : IsRunning(job.view[n])) =>
              Cardinality(RunningPods \ Chosen) + Cardinality(Escaping)
                  >= job.iu.replicas - Unavailable(job.iu.replicas)

DeletionInvariant ==
    /\ EndsForGood /\ GoneSeen /\ DeleteCovered /\ RunsOn
    /\ ListedAlive /\ Spared

-----------------------------------------------------------------------------
(* Why an in-place update is written once: the inductive invariant behind   *)
(* NoRepeatedUpdate, with FutureActive, whatever fails; but for pods whose  *)
(* update slipped.                                                          *)

\* The versions of n from the one in the cache to the one in the API server.
Version(n, i) == IF i = 0 THEN cache[n] ELSE watch[n][i]

LastVersionIsStored == \A n \in Names : pods[n] = Version(n, Len(watch[n]))

\* The handler drops the expected version of no active pod.
ActiveNotGone == \A n \in Active : \A i \in DOMAIN notes[n] : notes[n][i] # "gone"

\* The expected version is on its way, and from it on the revision is the last one.
RevisionAwaited ==
    \A n \in Names :
        /\ rvExp[n] <= Len(watch[n])
        /\ n \in Active \ slipped => \A i \in 0 .. Len(watch[n]) :
              i >= rvExp[n] /\ Version(n, i) # None => Version(n, i).rev = pods[n].rev

\* Names that were not tried yet are unknown to everyone.
Untried ==
    pc = "create" =>
        /\ job.batch \cup job.todo \subseteq Unused \ Members(job.view)
        /\ job.batch \cap job.todo = {}

\* Past the gate, the revisions a pass listed are those the pods are at, until it
\* updates them itself.
ListedRevisions ==
    /\ pc \in {"check", "list", "versions", "sync"} => job.batch = {}
    /\ pc = "versions" =>
          \A n \in (Active \cap Members(job.view)) \ slipped :
              IF n \in job.behind THEN rvExp[n] # NoEntry
              ELSE rvExp[n] <= 0 /\ job.view[n].rev = pods[n].rev
    /\ pc \in {"sync", "create", "delete", "update"} =>
          \A n \in (Active \cap Members(job.view)) \ slipped : job.view[n].rev = pods[n].rev
    /\ pc = "updating" =>
          /\ \A n \in job.todo : job.view[n].rev # job.iu.rev
          /\ \A n \in (Active \cap job.todo) \ slipped : job.view[n].rev = pods[n].rev

UpdateInvariant ==
    /\ FutureActive /\ LastVersionIsStored /\ ActiveNotGone /\ RevisionAwaited
    /\ Untried /\ ListedRevisions

-----------------------------------------------------------------------------
(* Why the controller does not go to sleep with work left: the invariant    *)
(* behind NoLostWakeup and StatusAccurate, on top of UpdateInvariant, of a  *)
(* controller whose watch is never lost ("relist" is not a disturbance).    *)

\* Something is on its way that queues the Inplaceu (again), or it is queued.
WakeupDue == queued \/ ~Synced

\* The event that takes back an expected creation is to come.
CreationNews(n) ==
    \/ \E i \in DOMAIN notes[n] : notes[n][i] = "created"
    \/ cache[n] = None /\ watch[n] # <<>> /\ watch[n][1] # None /\ ~watch[n][1].term

\* The event that takes back an expected deletion is to come: the pod is going.
DeletionNews(n) ==
    \/ \E i \in DOMAIN notes[n] : notes[n][i] = "gone"
    \/ \E i \in DOMAIN watch[n] : watch[n][i] = None \/ watch[n][i].term
    \/ pods[n] # None /\ pods[n].term

\* This pass is still to make the pod, or to roll its expectation back.
ToCreate(n) == pc = "create" /\ n \in job.plan \ job.made

\* This pass is about to delete the pod.
ToDelete(n) == pc = "delete" /\ n \in job.batch

\* No expectation outlives what it waits for.
CreateAwaited == \A n \in exp.create : ToCreate(n) \/ CreationNews(n)

DeleteAwaited == \A n \in exp.delete : ToDelete(n) \/ DeletionNews(n)

\* deletePods has one call at a time; no pass has made anything before createPods.
CallsInOrder ==
    /\ pc = "delete" => \A m, n \in job.batch : m = n
    /\ pc \in {"check", "list", "versions", "sync"} => job.made = {} /\ ~job.err

\* Nobody has seen a generation that is yet to come.
GenerationsObserved ==
    /\ iuCache.gen <= iu.gen
    /\ iu.status.observed <= iu.gen /\ iuCache.status.observed <= iuCache.gen
    /\ pc # "idle" => job.iu.gen <= iu.gen /\ job.iu.status.observed <= job.iu.gen

\* Scale, on these pods, may have nothing to call.
ScaleRests(obj, view) ==
    LET d == Diffs(obj.replicas, view, obj.rev)
    IN  /\ d.scaleUpNum = 0
        /\ {} \in SpecifiedDeleteChoices(view, d)
        /\ d.scaleDownNum = 0 \/ {} \in ScaleInChoices(view, obj.rev, d)

\* Update may have nothing to call: it passes over pods that are marked already.
UpdateRests(obj, view) ==
    \/ {} \in UpdateChoices(view, obj.rev, Diffs(obj.replicas, view, obj.rev))
    \/ SpecifiedDelete(view) # {}

ListingSteps == {"versions", "sync", "create", "delete", "update", "updating", "status"}

\* The pass works on what there is, has changed nothing yet, and ends with an error or
\* because there was nothing to do.
NothingMissed ==
    /\ pc # "idle" => job.iu = iu
    /\ pc \in ListingSteps => job.view = ActivePods(pods)
    /\ pc = "versions" => job.behind = {}
    /\ pc = "create" => job.made = {} /\ (job.err \/ Chosen # {})
    /\ pc = "delete" => Chosen # {} /\ Chosen \subseteq Members(job.view)
    /\ pc \in {"update", "updating", "status"} => job.err \/ ScaleRests(job.iu, job.view)
    /\ pc = "updating" => job.todo \subseteq Members(job.view)
    /\ pc = "status" => job.err \/ UpdateRests(job.iu, job.view)
    /\ pc = "idle" =>
          \/ ~Satisfied
          \/ /\ ScaleRests(iu, ActivePods(pods)) /\ UpdateRests(iu, ActivePods(pods))
             /\ iu.status = CalculateStatus(iu, ActivePods(pods))

\* Unless the Inplaceu will be queued again, the pass (or the last one) missed nothing.
PassIsCurrent == ~WakeupDue => NothingMissed

WakeupInvariant ==
    /\ CreateAwaited /\ DeleteAwaited
    /\ CallsInOrder /\ GenerationsObserved /\ PassIsCurrent

-----------------------------------------------------------------------------
(* Why the pods of the API server do not surprise a pass: what the mapping   *)
(* to Scaler needs on top of the invariants above.                           *)

\* A mark stays: no version of an active pod bears one that the pod has not.
MarksStay ==
    \A n \in Active : \A i \in 0 .. Len(watch[n]) :
        Version(n, i) # None /\ Version(n, i).sdel => pods[n].sdel

\* So a pod that was listed as marked is.
ListedMarks ==
    pc \in {"versions", "sync", "delete"} =>
        \A n \in Active \cap Members(job.view) : job.view[n].sdel => pods[n].sdel

\* Whatever a pass deletes was listed as marked, or as updated.
ChosenForCause ==
    pc = "delete" => \A n \in Chosen : job.view[n].sdel \/ job.view[n].rev = job.iu.rev

\* A pass that still chooses has not deleted, and one that deletes has, or is going to.
DeletesSomething ==
    /\ pc \in {"check", "list", "versions", "sync"} => ~job.did
    /\ pc = "delete" => job.did \/ Chosen # {}

CauseInvariant == MarksStay /\ ListedMarks /\ ChosenForCause /\ DeletesSomething

-----------------------------------------------------------------------------
(* What the controller promises of the pods. *)

Desired(obj) == [replicas |-> obj.replicas, rev |-> obj.rev]

Aim == IF pc = "idle" THEN None ELSE Desired(job.iu)

Doing ==
    CASE pc = "idle" -> "sleeps"
      [] pc \in {"check", "list", "versions", "sync"} -> "reads"
      [] pc = "create" -> IF job.made = {} THEN "creates" ELSE "created"
      [] pc = "delete" -> IF job.did THEN "deleted" ELSE "deletes"
      [] pc \in {"update", "updating"} -> "updates"
      [] pc = "status" -> "done"

Promise ==
    INSTANCE Scaler WITH
        wanted <- Desired(iu), known <- Desired(iuCache),
        aim <- Aim, doing <- Doing, pods <- ActivePods(pods)

\* Through stale caches, expectations and restarts, the controller does to the pods
\* that there are what it would do if it saw them: it creates up to the surge, deletes
\* what is marked or above replicas, updates what is outdated, one of these a pass.
ImplementsScaler == Promise!Spec

-----------------------------------------------------------------------------
(* What comments and API documentation say, and the code does not do.       *)

\* "rollback to ignore failure pods because the informer won't observe these
\* pods" (inplaceu_scale.go): every pod the informer shows was expected.
ObservedPodsWereExpected ==
    [][\A n \in Names : cache[n] = None /\ cache'[n] # None => n \in exp.create]_vars

\* "expect an rs to create more replicas asap, not wait until the kubelet actually
\* deletes the pod" (the event handler): when nothing is left to happen by itself,
\* deleted pods have been replaced.
DeletedPodsAreReplaced ==
    Settled => Cardinality(Active) >= iu.replicas

\* "updateMaxUnavailable is the maximum number of ready Pods that can be updating"
\* (inplaceu_scale_util.go): an update of a ready pod leaves spec.replicas minus
\* maxUnavailable other ready ones.
UpdateKeepsReady ==
    [][\A n \in ReadyPods :
         pc = "updating" /\ pods'[n] # None /\ pods'[n].rev # pods[n].rev =>
             Cardinality(ReadyPods \ {n}) >= job.iu.replicas - Unavailable(job.iu.replicas)]_vars

\* maxSurge and maxUnavailable, when not given, default to 25% (the API
\* documentation): with neither given, the template's revision still gets out.
DefaultStrategyUpdates ==
    Settled => \A n \in Active : pods[n].rev = iu.rev
=============================================================================
