# Inplaceu, specified

A TLA+ development beside the Inplaceu controller: a Kubernetes controller that
keeps `spec.replicas` pods of one template, replaces pods on request, and moves
them to a new template in place (by changing container images in a running pod)
or by recreating them.

Paths below are relative to `src/`.

- [The system](#the-system): components, state, interaction, what is hard
- [The modules](#the-modules): how definitions correspond to the code
- [The runs](#the-runs): what TLC checks, under which bounds and fairness
- [The proofs](#the-proofs): what TLAPS proves, and along which argument
- [Findings](#findings): where the code differs from what it says of itself
- [Abstractions](#abstractions) and [what is not modelled](#not-modelled)
- [Plan](#plan)

## The system

One process: a controller-runtime manager with shared informers, one event
handler for pods, a work queue, and one worker goroutine (the default of
`MaxConcurrentReconciles`) that runs `Reconcile` for one Inplaceu at a time.
Several packages of `internal/` are called by that pass; two in-memory stores of
expectations are shared between the pass and the event handler.

| component | source | state | operations |
|---|---|---|---|
| Reconcile loop | `internal/controller/inplaceu_controller.go` | none of its own; requeues | `Reconcile`, `syncInplaceu`, predicates of `SetupWithManager` |
| Pod event handler | `internal/inplaceu_event_handler/` | none; writes both stores and the queue | `Create`, `Update`, `Delete`, `Generic` |
| Scale expectations | `internal/utils/expectations/scale_expection.go` | per controller key: names awaited to be created, deleted; since when | `ExpectScale`, `ObserveScale`, `SatisfiedExpectations`, `DeleteExpectations` |
| Resource version expectations | `.../resource_version_expection.go` | per UID: the version expected, since when | `Expect`, `Observe`, `IsSatisfied`, `Delete` |
| Scale | `internal/sync/inplaceu_scale.go`, `inplaceu_scale_util.go` | none | `Scale`, `createPods`, `deletePods`, `calculateDiffsWithExpectation` |
| Update | `internal/sync/inplaceu_update.go` | none | `Update`, `limitUpdateIndexes`, `updatePod` |
| In-place update | `internal/inplace_update/` | annotations of the pod | `CalculateSpec`, `updatePodInPlace` |
| Status | `internal/status/` | the status subresource | `calculateStatus`, `inconsistentStatus`, `updateStatus` |
| Core control | `internal/inplaceu_core/` | none | `newVersionedPods`, the sort function, fixed answers |
| Specified delete | `internal/specifieddelete/` | a label of the pod | `IsSpecifiedDelete`, `PatchPodSpecifiedDelete` |
| Pod sorts, utilities | `internal/utils/` | none | orders on pods, `DoItSlowly`, active pods, partition by revision |
| Revisions | `internal/utils/revision`, `internal/utils/history` | ControllerRevisions, collision count | number, find equal, create with retries, truncate |
| Controller references | `internal/utils/refmgr` | owner references | claim, adopt, release |
| Requeue durations | `internal/utils/requeueduration` | per key: the shortest duration | `Push`, `Pop` |
| Manager, API types, adapters | `cmd/`, `api/`, `internal/utils/*adapter` | - | wiring, schemas |

How they interact, in one pass:

1. The worker takes the key and reads the Inplaceu **from its cache**.
2. `SatisfiedExpectations`: while an earlier creation or deletion has not been
   observed by the handler, return.
3. `getOwnedPods` reads the active pods of which this Inplaceu is an owner from the
   cache, and claims them: pods its selector no longer matches are released, pods
   without a controller adopted, each by an `Update` of the listed copy, which the API
   server refuses if the pod has a later version. Failed, succeeded and terminating
   pods are in no list, and so never released or adopted.
4. `getActiveRevisions` lists the revisions from **their** cache, and creates one for
   the template, renumbers an equal one, or keeps the last. Then, if a pod's version
   is older than the one an earlier pass wrote: return.
5. `Scale` computes how many pods to create or to delete. It either creates
   (expecting every name first), or deletes marked pods, or scales in, and only a
   pass that did none of it goes on to `Update`, which writes pods in place or marks
   them for deletion within the limits of the strategy.
6. The status is computed from the pods that were listed, and written over the
   cached Inplaceu if it changed; old revisions beyond the limit are deleted.
7. If running pods are not available yet, for `minReadySeconds`, the pass asks to be
   run again after that time.

Meanwhile kubelets write pods, users write the Inplaceu and label pods, others evict
pods. Every accepted write reaches the cache late, pod by pod in order, but pods in
any order relative to each other and to the Inplaceu; the handler gets its event
after the cache changed.

What is hard about it, and hard to test (each of these is a hazard of
`PROJECT.json`, at its line):

- a pass works on a **stale cache**; the two expectation stores are all that keeps
  it from repeating what the last pass did;
- expectations are taken back by *events*, so one that is left over, or taken
  back too early, shows only as a controller that does too much or nothing at all;
- **partial failure**: some calls of a batch succeed, others fail, others are never made;
- **restarts** lose both stores between a write and its observation;
- requeues are not to be relied on: `RequeueAfter` is `1000 - duration`
  nanoseconds, so an unsatisfied pass usually **waits for an event**;
- the **numbers**: surge, budget of unavailable pods, marked and outdated pods
  combine in five formulas, over sequences of passes of which each sees the effect of
  the last;
- the status is a write-if-changed of an object that may itself be stale;
- **revisions have no expectations**, no informer that wakes the worker, and names
  that may collide or be used again; a pod is patched by the difference between two
  of them;
- several Inplaceus may select, and own, **the same pods**, which users relabel and
  take away while a pass is claiming or deleting them;
- a pod becomes available by **growing older**, which is no event.

What makes each part correct:

| part | promise | stated as |
|---|---|---|
| scale expectations | no active pod is unknown to a pass that gets past them | `CreateCovered`, `CreationInvariant` |
| the store of them | an entry waits for something; it answers as the sets of names it stands for | `EntriesWait`, `ImplementsWaits` |
| creation | never more pods than replicas plus surge | `SurgeBound` |
| deletion | scaling in stops at replicas, and keeps replicas minus maxUnavailable running | `ScaleInStopsAtReplicas`, `DeletionKeepsRunning`, `DeletionInvariant` |
| choice of pods | a scale in evens out the nodes and takes those ready last | `NodesStayBalanced`, `LongestReadyStay` |
| version expectations | an in-place update is written once, unless its call returns an error although it took effect | `NoRepeatedUpdate`, `UpdateInvariant` |
| the store of them | the newest version expected stays awaited, for a time of its own | `NewestIsAwaited`, `WaitsOwnTime` |
| queue and handler | the controller never goes to sleep with work left | `NoLostWakeup`, `WakeupInvariant` |
| requeues | pods that become available later are counted when they do | `AvailableIsFollowedUp` |
| status | true when nothing is under way | `StatusAccurate`, `StatusNamesTemplate`, `UpdateRevisionIsLatest` |
| revisions | a pod's label tells what it runs | `LabelsTellContents` |
| truncation | drops no revision of a pod, and leaves enough to roll back to | `LiveRevisionsAreKept`, `RollbackIsKept` |
| claims | a pass takes and deletes no pod of another | `NoStealing`, `DeletesOwnPods` |
| handler and claims | at rest, controllers select their active pods, owners adopted theirs, nobody waits | `PodsMatch`, `OwnedPodsAreAdopted`, `NobodyWaits` |
| creation, deletion and update | what a pass does to the pods, it could do seeing them: never more than the surge, none without a cause, one of the three | `ImplementsScaler` |
| all of it | the pods become what the user asked for, and stay so; ownership settles | `EventuallyConverged`, `EventuallySettled` |

## The modules

| module | what |
|---|---|
| `ScaleUtil` | pure: the numbers of a pass and the sets of pods it may choose |
| `Cluster` | the world: API server, users, kubelets, informer (external to `src/`, but for `EventKind`) |
| `Reconciler` | the controller over a `Cluster`: handler, stores, queue, worker, restart |
| `Scaler` | abstract: what the controller promises of the active pods, without caches, expectations or events; `Reconciler` implements it |
| `Waits` | abstract: what the scale expectations promise |
| `ScaleExpectations` | the store of scale expectations, entry by entry; implements `Waits` |
| `VersionExpectations` | the store of version expectations, numbers and unparsable versions |
| `Revisions` | ControllerRevisions: finding, numbering, creating, truncating; labels and contents of pods |
| `Ownership` | owners and controllers of pods, several Inplaceus, the handler's choice of whom to wake, claims |
| `PodSorts` | pure: the order of pods with all its keys, and the ranks by node |
| `Ageing` | the clock, `minReadySeconds` and the requeue; nodes and the choice of a scale in |
| `MC...` | instances for TLC |
| `...Proofs` | theorems: `Reconciler` (types, updates, causes of deletions), `Scaling` (creation, deletion, the refinement of `Scaler`), `Wakeup`, `ScaleStore`, `VersionStore`, `Ownership`, `Revisions`, `Ageing` |

`Reconciler` EXTENDS `Cluster` EXTENDS `ScaleUtil`; `Ageing` EXTENDS `PodSorts` and takes
the numbers of `ScaleUtil` by INSTANCE; `ScaleExpectations` has the refinement mapping to
`Waits` (INSTANCE ... WITH) and its specification as a property, and `Reconciler` likewise the one to
`Scaler` (`Promise`). Each proof module EXTENDS
the module it is about; `ScalingProofs` and `WakeupProofs` are about `Reconciler` and EXTEND
`ReconcilerProofs`.

The modules divide the pass by what is hard about each part. `Reconciler` has the pass
as a whole: both gates, scaling, updating and the status, over caches that lag, with one
Inplaceu that owns its pods and a template that is one value. The others open up what it
takes as given, and leave open what it says in detail:

- `exp` of `Reconciler`, a set of names per action, is what `Waits` promises for one key;
  `rvExp` is the outcome of the comparisons in `VersionExpectations`;
- that the pod's revision label is a name for its contents is `Revisions`, where which pods
  a pass creates, deletes and updates is any choice;
- that labels match and owners stay is `Ownership`, where which pods a pass scales is any
  choice;
- that a running pod is available at once and that only phase and readiness order pods is
  `Ageing`, where caches follow at once.

### State of `Reconciler`

| variable | code |
|---|---|
| `iu`, `iuCache` | the Inplaceu in the API server and in the informer's cache: replicas, the template's revision, generation, status |
| `pods`, `cache` | pods in the API server and in the cache, by name |
| `watch[n]` | versions of a pod written but not in the cache yet |
| `notes[n]` | events of a pod that are in the cache but not handled yet |
| `exp` | `ScaleExpectations` for this Inplaceu |
| `rvExp[n]` | `ResourceVersionExpectations`: how many versions the cache lacks of the expected one (0: it has it), or `NoEntry` |
| `queued` | the key is in the work queue |
| `pc`, `job` | where `Reconcile` is, and its local variables |
| `budget` | disturbances left (a bound) |
| `slipped` | history, read by no action: the pods whose update in place took effect and returned an error, until a list shows the version it wrote |

A pass is cut into a step at every call that leaves the worker: a read of the cache,
a write to the API server, an access to a shared store. Between any two of them
anything else may happen.

| `pc` | steps | code |
|---|---|---|
| idle | `Take` | the queue, `Get` of the Inplaceu |
| check | `PassScaleGate`, `WaitForScale` | `SatisfiedExpectations` |
| list | `ListPods` | `getOwnedPods`, and the `Observe` of the listed versions |
| versions | `PassVersionGate`, `WaitForVersions`, `ReconcileFails` | `IsSatisfied`; errors on the way |
| sync | `ScaleOut`, `DeleteSpecified`, `ScaleIn`, `NothingToScale` | `Scale` up to its first call |
| create | `StartBatch`, `CreateOne`, `CreateFails`, `CreateTimesOut`, `EndCreate` | `createPods`, `DoItSlowly` |
| delete | `ExpectDelete`, `DeleteOne`, `DeleteFails`, `DeleteTimesOut`, `EndDelete` | `deletePods` |
| update, updating | `ChooseUpdates`, `UpdateInPlace`, `UpdateByRecreate`, `UpdateFails`, `UpdateTimesOut` | `Update`, `updatePod` |
| status | `StatusIsConsistent`, `UpdateStatus`, `UpdateStatusFails`, `UpdateStatusTimesOut` | `UpdateInplaceuSetStatus`, return |

`HandleNote` is the event handler (its accesses to the stores and the enqueueing are
one step: the worker cannot tell a state between them from one before or after,
since enqueueing comes last and an event still to be handled enqueues anyway).
`Crash` is the process dying and a new one starting with synced caches and empty
stores.

### The other modules

`Revisions`. `store`, `revCache` and `lag` are the revisions in the API server, in the cache
and the writes in between; `pods`, `podCache`, `exp`, `rvExp` as above but with the label
(`rev`) and the images (`contents`) of a pod; `iu` has the template, the two revisions of the
status and the collision count; `suffered` is a history variable.

| `pc` | steps | code |
|---|---|---|
| idle, pods | `Take`, `ListPods` | `SatisfiedExpectations`, `getOwnedPods` |
| revisions | `KeepRevision`, `RollBack`, `StartRevision` | `getActiveRevisions` |
| renumber | `Renumber`, `RenumberedBefore`, `RenumberFails` | `UpdateControllerRevision` |
| create | `CreateRevision`, `TakeNamed`, `Collide`, `CreateRevisionFails` | `CreateControllerRevision` |
| versions | `PassVersions`, `WaitForVersions` | `IsSatisfied` |
| sync | `CreatePod`, `DeletePod`, `UpdatePod`, `SyncTimesOut`, `EndSync` | `syncInplaceu` |
| status | `StatusIsConsistent`, `UpdateStatus`, `UpdateStatusFails` | `calculateStatus`, the write |
| truncate, drop | `Truncate`, `NothingToTruncate`, `Drop`, `DropFails` | `truncateHistory` |

`Ownership`. `owners` and `ownerCache` are the Inplaceus (live, dying, gone) in the API server
and the cache; a pod has `ctrl`, its controller, `plain`, the other Inplaceus among its owners,
a label, `ended` (it is Failed or Succeeded) and a deletion timestamp; `moved` are the pods with a later
version than the one the pass listed, which is what the conflict of an `Update` depends on. Only pods that
`IsPodActive` (`internal/utils/inplaceu_utils.go:99`) are listed, so a pod that has ended stays with whoever controls it,
whatever becomes of its labels; `PodsMatch`, `OwnedPodsAreAdopted` and `EventuallySettled` are therefore about active pods. `PodEvent` is the informer and
the handler (`Woken`: whom an event enqueues; `Observed`: whose expectations it takes back);
`ListPods`, `Release`, `Adopt`, `AskToAdopt` (`canAdoptOnce`: the Inplaceu is read again, from the cache, once a pass) and
their failures are `ClaimOwnedObjects`; `FindGone`, `Take` and `WaitForScale` are the start of a pass,
of an Inplaceu that was deleted for one.

`Ageing`. `now` is the clock, `timer` when the delaying queue adds the key; a pod has a node,
the time it became ready, restarts and its creation. The pass is `Begin` (lists), one of
`ScaleOut`, `DeleteSpecified`, `ScaleIn`, `NothingToScale`, then `UpdateStatus` or `StatusFails`, then
`FinishWell` (with the requeue) or `FinishFailed`.

`ScaleExpectations` and `VersionExpectations` have one action per method of the stores, in any
order and with any argument, since worker and handler share them under a lock.

Operators whose name or comment says *Fault* are variants of a definition with a
plausible mistake in it (a dropped guard, a missing rollback, an expectation that is
not made). Each property is violated when the fault replaces the definition.

## The runs

Of module `MCReconciler`, starting with a controller that just started on a settled set of
pods, or on a new Inplaceu with none:

| run | instance | checks | shows |
|---|---|---|---|
| `scaling` | 3 pods, maxSurge 1, maxUnavailable 0; two of: replicas 3 to 1, marking a pod | `TypeOK`, `DeletionInvariant`, `ScaleInStopsAtReplicas`, `DeletionKeepsRunning` | however stale the cache, deletions never go below replicas, nor below the budget of running pods; the invariant that is proved is one |
| `rolling` | 2 pods, 25% / 25%, three revisions of which r1 and r2 differ in images; one of: a new template, marking a pod | `SurgeBound`, `NoRepeatedUpdate`, `ImplementsScaler` | in-place and recreating updates keep to the surge and write each pod once; the pass and its stale caches implement `Scaler` |
| `faults` | 1 pod, maxSurge 0, maxUnavailable 25% (rounded up); two of: eviction, failure, loss of readiness, marking, crash, a list of revisions that is behind, a call that is refused or that takes effect and returns an error, new template | `NoLostWakeup`, `StatusAccurate`, `UpdateInvariant`, `WakeupInvariant`, `NoRepeatedUpdate` | no combination of two faults at any step leaves work undone or a wrong status; the surplus `createPods` may make after a timeout is removed again; a pod is written twice only if its update took effect and returned an error (`slipped`); the invariants of updates and wakeups that are proved are invariants |
| `creation` | new Inplaceu with 2 replicas, maxSurge 1; one of: eviction, crash, refused call, scaling, a lost watch | `CreationInvariant`, `CreateCovered` | the invariant that is proved is one, lost watches included |
| `liveness` | 1 pod, maxUnavailable 1, recreating updates; one of eight kinds of disturbance | `EventuallyConverged` | under fairness, the pods converge after any of them |
| `lost_creation` | new Inplaceu; eviction and a lost watch | `DeletedPodsAreReplaced` | **violated**, see [findings](#findings) |

Of the other modules:

| run | instance | checks | shows |
|---|---|---|---|
| `scale_store` | 2 workloads, both actions, 2 names, clock to 4 | `TypeOK`, `EntriesWait`, `ImplementsWaits` | the store implements `Waits` |
| `version_store` | 2 objects, 3 versions, an empty and a garbled one, clock to 3 | `TypeOK`, `NewestIsAwaited`, `WaitsOwnTime` | versions in any order: the newest stays awaited |
| `history` | 1 pod with two containers, 3 templates of which two collide, limit 1; any three of: template, eviction, restart, leader change, a list behind the cache, refused call, timeout | `TypeOK`, `LabelsTellContents`, `StatusNamesTemplate`, `UpdateRevisionIsLatest`, `RollbackIsKept`, `LiveRevisionsAreKept` | names, numbers, contents and status agree, and truncation keeps what it must |
| `claims` | 2 Inplaceus whose selectors overlap, 2 pods, one owned by both; any three of: relabelling, a foreign controller, eviction, a pod that ends, removal of an Inplaceu, scaling in and out, refused call, timeout, crash | `TypeOK`, `PodsMatch`, `OwnedPodsAreAdopted`, `NobodyWaits`, `NoStealing`, `DeletesOwnPods` | no pass takes or deletes a pod of another; at rest ownership is in order |
| `settling` | the same; any two of nine kinds of change of labels, owners, controllers, pods, Inplaceus, refused calls | `EventuallySettled` | conflicts and failed claims are retried, and not for ever |
| `ageing` | 3 pods on 2 nodes, `minReadySeconds` 1, clock to 3; one of: restart, loss of readiness, loss of the pod, marking, scaling, refused call, crash | `TypeOK`, `AvailableIsFollowedUp`, `NodesStayBalanced`, `LongestReadyStay` | the status follows pods that grow older; a scale in takes the right ones |

The properties of `history` hold only while `suffered` (which of timeouts, leader changes and
lists behind the cache there have been) allows: each names the faults it withstands, and its
comment says what happens otherwise.

### Bounds

| bound | what it cuts off | why it is enough |
|---|---|---|
| `Names` (3 or 4) | a pass that wants to create when fewer unknown names are left waits | random ids do not run out in the code. A name can be drawn again as soon as nothing remembers it, so a few are enough: with one name more, `creation`, `faults` and `rolling` have exactly the same number of states, so no pass in them ever waits; `scaling` with five names also holds, and grows from 550k to 917k states |
| `Budget` (1 to 3) | user actions and faults in one behaviour | pairs of disturbances, at any two moments, are what the hazards are made of; triples where ownership and templates go somewhere and back. `history` was also run with budgets of 4 to 6 of fewer kinds, and limit 0: what turned up is in the `suffered` of its properties |
| `MaxLag` (1, in `lost_creation` 2) | versions of one pod on the way before *kubelets and users* pause | the controller is never held up by it, so two versions of one pod are under way whenever it writes one itself; lag across different pods is unbounded |
| `ReplicaChoices`, `InitReplicas`, `InitCount` (0 to 3) | sizes | 1 to 3 pods reach a batch of one and one of two in `createPods`, partial batches, and every sign of the five numbers |
| `MaxTime` (3 or 4) | the clock; the model stops there, hence no liveness of `Ageing` | `minReadySeconds` is 1: a pod can become available twice, or be lost and replaced, before time ends |
| `MaxCollisions` (1), `Limit` (1) | collisions of names, `revisionHistoryLimit` | two templates with one name, and one old revision kept of three, so that truncation has a choice |
| `Revs` (2 or 3) | templates | one that can be reached in place and one that cannot |

Names are symmetric (the code draws them at random, and nothing compares them); the
liveness runs use no symmetry. Deadlock is checked where something always can happen
(`Resync` in `Reconciler`, the calls of the stores); `Revisions`, `Ownership` and `Ageing` may come
to rest with their disturbances or the clock used up, and say at rest what must hold.

### Fairness

`FairSpec` has weak fairness of the worker as a whole, of the delivery of the
Inplaceu to the cache, and per pod of the delivery to the cache, of the handler and
of the kubelet. The worker is a goroutine that only ever blocks on the queue;
informers deliver what is written in the end; kubelets start, ready and end pods.
None is assumed of users, faults, the requeue of a waiting pass (it is a choice of
`WaitForScale`), or of the ten-hourly resync: convergence does not rest on them. In
the same way `NoLostWakeup` is about states in which nothing but a resync or a
disturbance is left to happen.

`Ownership`'s `FairSpec` is the same for two Inplaceus and one worker: weak fairness of the
worker, and strong fairness of taking each key, since the work queue is first in, first
out and the worker takes keys one by one; weak fairness of informers, kubelets and the
garbage collector.

## The proofs

Checked by TLAPS for all values of the constants: any finite sets of names, pods,
Inplaceus and nodes, any templates, selectors, strategies (counts or percentages), limits,
replica counts, disturbances and bounds. The assumptions are the named `ASSUME`s of the
modules, which only type the constants, and those the theorems state.

| module | theorem | states |
|---|---|---|
| `ReconcilerProofs` | `TypeCorrect` | `Spec => []TypeOK` |
| | `UpdateSafe` | `Spec => []UpdateInvariant` |
| | `UpdatedOnce` | `Spec => NoRepeatedUpdate` |
| | `DeletedForCause` | `Spec => []CauseInvariant` |
| `ScalingProofs` | `CreationSafe` | `NoTimeouts => (Spec => []CreationInvariant)` |
| | `CreatedPodsAreCovered` | `NoTimeouts => (Spec => []CreateCovered)` |
| | `SurgeIsBounded` | `NoTimeouts => (Spec => []SurgeBound)` |
| | `DeletionSafe` | `NothingElseIsLost => (Spec => []DeletionInvariant)` |
| | `ScalingInStops` | `NothingElseIsLost => (Spec => ScaleInStopsAtReplicas)` |
| | `DeletionsKeepRunning` | `NothingElseIsLost => (Spec => DeletionKeepsRunning)` |
| | `ControllerImplementsScaler` | `NothingElseIsLost => (Spec => ImplementsScaler)`, the specification of `Scaler` under the mapping |
| `WakeupProofs` | `WakeupSafe` | `NoVersionIsMissed => (Spec => []WakeupInvariant)` |
| | `StatusIsAccurate` | `NoVersionIsMissed => (Spec => []StatusAccurate)` |
| | `NoWakeupIsLost` | `NoVersionIsMissed /\ StrategyMoves => (Spec => []NoLostWakeup)` |
| `ScaleStoreProofs` | `TypeCorrect`, `EntriesWaitAlways` | `Spec => []TypeOK`, `Spec => [](TypeOK /\ EntriesWait)` |
| | `StoreImplementsWaits` | `Spec => ImplementsWaits`, the specification of `Waits` under the mapping |
| `VersionStoreProofs` | `TypeCorrect` | `Spec => []TypeOK` |
| | `NewestAwaited`, `OwnTime` | `Spec => []NewestIsAwaited`, `Spec => [](TypeOK /\ WaitsOwnTime)` |
| `OwnershipProofs` | `TypeCorrect` | `Spec => []TypeOK` |
| | `NothingIsStolen` | `Spec => NoStealing` |
| | `OnlyOwnPodsAreDeleted` | `Undisturbed => (Spec => DeletesOwnPods)` |
| | `NobodyIsLeftWaiting`, `PodsComeToMatch` | from `Undisturbed`: `Spec => []NobodyWaits`, `Spec => []PodsMatch` |
| | `OwnedPodsGetAdopted` | from `Unlinked`: `Spec => []OwnedPodsAreAdopted` |
| `RevisionsProofs` | `TypeCorrect` | `Spec => []TypeOK` |
| | `LiveRevisionsStay` | `Spec => LiveRevisionsAreKept` |
| | `LabelsTellTheTruth` | `Spec => []LabelsTellContents` |
| | `StatusSafe` | `Spec => []StatusInvariant` |
| | `StatusTellsTemplate` | `Spec => []StatusNamesTemplate` |
| | `UpdateRevisionStaysLatest` | `Spec => []UpdateRevisionIsLatest` |
| | `EnoughRevisionsStay` | `Spec => RollbackIsKept` |
| `AgeingProofs` | `LessIsStrictWeakOrder` | `Less` is a strict weak order of pods and node ranks |
| | `TypeCorrect` | `Spec => []TypeOK` |
| | `GrownPodsAreFollowedUp` | `Spec => []AvailableIsFollowedUp` |
| | `TheLongestReadyStay`, `NodesAreEvenedOut` | from `ReadyPodsRun(InitPods)`: `Spec => LongestReadyStay`, `Spec => NodesStayBalanced` |

### Creation

`NoTimeouts` says that a call that returns an error has had no effect. It is not a
convenience: `unexpected_pods.cfg` shows the code breaking the invariant without it,
as the comment of the rollback makes the same assumption.

`CreateCovered` (an active pod is shown by the cache, or expected) is not inductive, for three
reasons, each of which gives conjuncts:

- The handler takes a creation back when it sees a *created* event. Then the cache
  must show the pod as active: `CreatedSeen`. It keeps doing so only if no version
  still on its way shows the pod gone while it is there: `FutureActive`, which holds
  because a terminating or failed pod never becomes active again and a name is used
  anew only when nothing remembers it.
- The rollback at the end of `createPods` takes back what was planned and not made.
  Those names must be no pod's: `Planned` (names not made are in `Unused`; `batch`
  and `todo` are disjoint and expected).
- For `SurgeBound`, the pass must know all active pods: `GatePassed` (creations are
  all observed when it lists), so by `CreateCovered` the list has every one of them,
  `Listed` (it still has every one up to the end of `createPods`, except those it
  made itself: nobody else creates any), and `Planned` bounds those listed plus those
  planned by replicas plus surge, from the lemma `ScaleUpNumBound` on the numbers.

The proof treats `World` (pods, cache, events) and `Pass` (the worker) apart: steps
of the world leave the worker's half alone but for `Unused` and `Active`, and one
lemma per group of actions says what each does to either half.

### Deletion

`NothingElseIsLost` is `NoTimeouts` without evictions and failures: pods go because the
controller deletes them, and only then. With others taking pods away no pass can keep a
number of them: between its list and its call, any may be gone. (Users may mark pods,
scale, change the template; pods may become unready; the controller may restart.)

On top of the invariant of creation, which says that a pass knows every active pod:

- A pod that is deleted and that the cache shows as active, or is still going to, is
  expected (`DeleteCovered`). The handler takes the expectation back when it sees the pod
  *gone*, and by then nothing shows it any more (`GoneSeen`), because versions on their way
  are not active again after one that is not (`EndsForGood`).
- So a pass that finds no deletion expected lists no pod that is on its way out, and
  what it lists as running is running (`ListedAlive`, from `RunsOn`).
- The choices of `Scale` on that list leave enough (`Spared`: what is chosen is active, and
  without it there are `replicas`, or enough running pods), from `ScaleInSpares`,
  `ScaleInSparesRunning` and `SpecifiedSparesRunning` on the numbers. During `deletePods` the
  others stay, and each call takes one from both sides.

### Updates

`UpdatedOnce` excludes no fault, but is not about every pod. When an in-place write takes effect and its call returns an
error (`internal/inplace_update/inplace_update.go:286-292`), `updatePod` returns (`internal/sync/inplaceu_update.go:145`) without the
`Expect` above it. Nothing then holds back the next pass: it may list the pod as it was, read it again when the cache has caught up, and write
it a second time at the revision it has, as a version of its own for the annotation with the time. `UpdateTimesOut` is that step, and the pod
is in `slipped` until a pass lists it with no version on its way. `NoRepeatedUpdate`, `RevisionAwaited` and `ListedRevisions`
leave out the pods in `slipped`, and those only; nothing else in the model depends on that variable.

The heart of the proof is `RevisionAwaited`: of an active pod that has not slipped, every version from the expected one on is at the revision the API server has. It
is kept because whoever changes the revision expects the version it writes, all others write
pods at the revision they have, and the handler drops expected versions only of pods
that are gone (`ActiveNotGone`). If nothing is expected beyond what the cache has, the pod that
is listed is at the present revision; the gate goes back over the pods that were listed while
something was expected (`Stale`), and a handler that drops an entry in between drops it for a
pod that is not active. Past the gate `ListedRevisions` says that of every active pod listed
that has not slipped, until the pass writes it (a pod leaves `slipped` only when a list has it as it is: `SlippedStays`); `Untried` keeps names that are being created apart from listed ones.
What is chosen for an update is listed at another revision, so it is at another.

### The refinement of `Scaler`

`Scaler` sees the API server only. `Promise` maps its `pods` to the active pods of `pods`
(`ActivePods`), `wanted` and `known` to replicas and revision of `iu` and `iuCache`, `aim` to those
of the Inplaceu a pass took, and `doing` to where the pass is and whether it has created (`made`) or
deleted (`did`) anything. Cache, watches, events, both stores and the queue have no counterpart: a
step of the informer, or of the handler, is `Hear` or a stutter. `Create` counts the pods there
*are* against the surge, `Delete` those there are against replicas, `Update` compares the revision
the pod *has*; the code does all of this on lists. So each step of the pass that writes needs an
invariant that ties its list to the pods, and the theorem is where they meet (`Mirror` is their
conjunction):

- `CreateOne` is `Create` by `CreationInvariant`: with what is planned there are at most replicas plus surge.
- `DeleteOne` is `Delete` by `DeletionInvariant` for the number, and by `CauseInvariant`
  (`DeletedForCause`) for the reason. What is chosen was listed as marked or as updated
  (`ChosenForCause`). A mark that was listed is on the pod, for marks never come off, in no version
  (`MarksStay`, `ListedMarks`); a pod listed as updated is at the revision by `ListedRevisions`.
- `UpdateInPlace` and `UpdateByRecreate` are `Update` by `UpdateInvariant`: what is listed at another
  revision is at another.
- A pass goes on to `Update` only if it wrote nothing: `DeletesSomething` says that one that chose to delete
  does delete, unless its first call fails, and the code then goes on as well (`Turns`).

`NothingElseIsLost` stands here for two reasons: a creation that times out and is stored may pass the
surge, and a pod lost to others may be one that a scale in counts on to stay.

### Wakeups

`NoLostWakeup` speaks of states in which nothing is left to happen by itself, and so says nothing
of how they are reached. `WakeupInvariant` says it at every step, in two halves:

- *Whoever waits is woken.* An expectation is one that the running pass is still to act on
  (`ToCreate`, `ToDelete`), or the event that takes it back is on its way (`CreationNews`,
  `DeletionNews`). So a controller at rest expects nothing, and its gates are open.
- *Whoever is not woken has missed nothing* (`PassIsCurrent`). If nothing is queued, no version or
  event is on its way and no pod is going, then the pass at work read the Inplaceu and the pods as they are
  (`NothingMissed`), has not written anything, and ends with an error, or found nothing for `Scale` to call (`ScaleRests`),
  nothing for `Update` (`UpdateRests`), and a status that is right. A pass that writes a pod has an event of it to
  come; one that fails is queued again; one that writes the status finds its own write on the way.
  `GenerationsObserved` is what makes "the status differs" hold of a status that is not of this
  generation.

At rest the second half gives `StatusAccurate` as it stands. For `NoLostWakeup` the numbers do the rest
(`RestIsConverged`): at rest all pods are available, and where the strategy lets a pod move (`StrategyMoves`) the
limits are positive (`SomethingMoves`), so that a choice can be empty only if there is nothing to choose from
(`AnyUpdateIsAllowed`, `EmptyWithinLimit`).

`NoVersionIsMissed` excludes lost watches, and `StrategyMoves` that `maxSurge` and `maxUnavailable` are both 0. Both are
necessary, and TLC shows it: `lost_creation` and `default_strategy`. Timeouts, crashes, evictions and marks are all
admitted; nothing is assumed of the length of the queue or of the caches' lag.

### The stores

An entry of the scale store exists only while it has a name to wait for, so that "no entry"
and "nothing awaited" are the same and the time of an entry is that of one uninterrupted
wait; under this each method maps to the operation of `Waits`, or to a stutter (an
observation of what nobody expects). For the version store, the entry of an object is the
greatest of the numbers expected since it was made, whatever does not parse; its time is that of
its making.

### Ownership

The invariant is about the pods between list and claim: what the pass listed is, unless a later
version is under way (`moved`), what the API server has, so that an `Update` that is accepted is one
of what was listed. `NothingIsStolen` then needs no assumption. For
`OnlyOwnPodsAreDeleted` the pods claimed must still be the pass's own when it deletes them. Other passes
do not run meanwhile, foreign controllers adopt only orphans; but a user may take the pod
away, hence `Undisturbed`, which excludes `orphan` and `demote`.

What holds at rest needs more of the past than of the present:

- `NobodyIsLeftWaiting`, by `AwaitInvariant`: a creation that is awaited is the *next* version of the pod on its
  way to the cache (`CreateAwaited`), and a pod whose deletion is awaited terminates under the Inplaceu that awaits
  it, or did in the version before the one that shows it gone (`DeleteAwaited`), which is the one the handler
  looks at to find whom to tell. That an Inplaceu that went and came into view as gone is forgotten is `GoneIsForgotten`.
- `PodsComeToMatch`, by `MismatchHandled`: a live Inplaceu that the cache shows as the controller of an active pod it does not
  select is queued, waits for something, is about to claim that pod or has failed to, or has a version of the pod on
  its way. An event that brings about such a mismatch wakes it (`EventMeets`).
- `OwnedPodsGetAdopted`, by the same for an active pod without a controller (`AbandonedHandled`). Here a version on its way is no
  excuse unless it is one that ends the matter, since of an orphan not every event wakes everybody; so it needs that owners
  are only ever taken away and no pod becomes active again (`OwnersShrink`), which is `Unlinked` and the nature of the phases.

`Undisturbed` and `Unlinked` are what the code needs, not what the prover needs. With `orphan` or with `demote`, TLC
finds the deletion of an orphan awaited for good (`awaited_orphan` is the shortest of these), and from then on, since
its Inplaceu waits, a change of a label or an orphan it owns that are never looked at; with `link`, an
owned pod that nobody adopts (`linked`).

### Revisions

`LiveRevisionsAreKept` is a property of two gates. `CacheCovers`: what the pod cache does not
show is expected, as a creation or deletion, or as a version. So a list taken when nothing is
expected (`NothingAwaited`) lacks at most versions expected (`ViewCovers`), and past the second gate
nothing but what this pass has done itself (`ViewIsCurrent`), which is at the update revision. An
expected version is forgotten when the list has it; `CacheFollowsView` says that the cache has it
then. What truncation deletes is fixed when it begins (`OldIsNotLive`). The list of revisions plays no
part in it: it may be as old as it likes.

`LabelsTellContents` needs that list. `LagLeads` relates revision cache, store and the writes in
between, so that a list taken with nothing in between is the store; `ListTells` (whatever was
listed is there with its template), `CacheIsWhole` and `DataTold` (the update revision has the data the
pass believes) carry this to the pods. An update patches the difference of the listed revision and
the new one onto the cached pod: by `ViewIsCurrent` the pod is still the one listed, so that the
result is the new template (`PatchedFully`). A name that comes back with another template needs a
revision that was dropped, and by the other theorem no pod is at it.

The status, by `StatusInvariant`: `NumberDrawn` says that a number that was drawn, until it is
written, is no lower than any in the store, with nothing in between, and that the revision it is for is there (or no
revision of the template is); hence past it the pass's revision is the latest and holds the template
(`UpdateIsLatest`). Template and pass agree unless another pass is due (`JobIsCached`), and a status that is
written is that of the pass (`StatusTells`), which `exp` and the queue protect until the end. All of this is
on condition that no list was behind (`ListsAreCurrent`); with one that was, see the [findings](#findings).

`EnoughRevisionsStay`: `Truncate` fixes what it drops, from which the revisions in use and as many as the limit are
left out. While it drops them one by one, pods come, go and change their revision, and users the template:
`EnoughIsKept` counts what the pass knew to be out of use, is not to be dropped, and is still there, which is the limit
at first and stays so, as nobody else drops revisions and nothing the pass knows changes. Counting needs that
there are finitely many (`HistoryIsFinite`).

### Ageing

`Following` is `TypeOK` and: a timer is never further away than `minReadySeconds`
(`TimerIsNear`), what a pass listed is what there is or the key is queued (`ListIsCurrent`), and a
pass that is about to end with running pods not available will set a timer
(`WillFollowUp`), which from then on is set, or the counts are right (`IsFollowedUp`). Time alone
only ever makes ready pods available, never the reverse.

`LessIsStrictWeakOrder`: `Less` compares pods by a tuple of seven integers, and the
lexicographic order of those is asymmetric, transitive and total (`Lexicographic...`).

The choice of a scale in rests on three lemmas. `ChosenFirst`: of what is deleted and what stays, no pod that stays
goes before a running one that is deleted. That is clear of a list that was sorted; a list that is chosen whole is not
sorted, and then nothing may stay: `WholeIsDeleted` says of the numbers that it only happens with 0 replicas, where the limit
lets every running pod through. `NotBefore` reads off the keys what staying says: a phase, a readiness, a rank on the
node, a time that are no worse. `LongestReadyStay` follows, as ranks follow the times on one node.
For `NodesStayBalanced`, `SortedBalance` counts: if `r` pods of a node stay and one goes, one of those that go has a
rank of at most `r`, for the ranks of a node are 0, 1, 2, ... without gap; so all pods of the other node that stay
have ranks up to `r`, each its own, and there are at most `r + 1`. The hypothesis `ReadyPodsRun` (only running pods are
ready) is what kubelets report, and is kept.

### Only model-checked

Every safety property of a passing run has its theorem. Liveness (`EventuallyConverged`,
`EventuallySettled`) rests on fairness and `ENABLED`, which are out of the prover's reach, and stays with TLC.

## Findings

One is a run in which TLC finds a behaviour of the code that a line of the repository excludes:

- `lost_creation`: an expected creation is taken back only by an event that shows the
  pod without a deletion timestamp, and never times out. A pod that is created and
  evicted while a watch is broken leaves it for ever; the Inplaceu is not reconciled
  again before a restart.

More configurations, each of which violates its one property:

| configuration (module) | property | what the code does |
|---|---|---|
| `unexpected_pods` (`MCReconciler`) | `ObservedPodsWereExpected` | a creation that times out although it was stored is rolled back, because "the informer won't observe these pods" (`internal/sync/inplaceu_scale.go:155`). It does |
| `update_budget` (`MCReconciler`) | `UpdateKeepsReady` | the budget of an update counts running pods, not ready ones, unlike `internal/sync/inplaceu_scale_util.go:51` and the API documentation |
| `default_strategy` (`MCReconciler`) | `DefaultStrategyUpdates` | with neither `maxSurge` nor `maxUnavailable` given both are 0, not 25%, and no template gets out |
| `orphans` (`MCOwnership`) | `OrphansAreAdopted` | pods are listed by the index of owner UIDs: an orphan is in nobody's list and never adopted, although the handler wakes the Inplaceus that select it "to see if anyone wants to adopt it" (`internal/inplaceu_event_handler/inplaceu_event_handler.go:89`) |
| `linked` (`MCOwnership`) | `OwnedPodsAreAdopted` | making an Inplaceu an owner of an orphan, which is what brings it into the list, wakes nobody (`inplaceu_event_handler.go:168`) |
| `gone_pod` (`MCOwnership`) | `GonePodsAreIgnored` | "If the pod no longer exists, ignore the error" (`internal/utils/refmgr/refmgr.go:236`), but the error is wrapped so that `IsNotFound` does not see it: the pass fails and is repeated |
| `awaited_orphan` (`MCOwnership`) | `NobodyWaits` | a pod that is orphaned between list and deletion is deleted, and the deletion of an orphan is not observed ("No controller should care about orphans being deleted", `inplaceu_event_handler.go:191`): the expectation stays, and with it the Inplaceu stops |

And four that appear when a condition on `suffered` is dropped from the properties of `Revisions`:

- `LiveRevisionsAreKept` after a leader change: the pod informer of a standby starts before it is
  elected, so its cache may lack the last pods, and a revision that one of them is at is deleted
  (`internal/controller/inplaceu_controller.go:351`, `:388`).
- `LabelsTellContents` after a timeout: the patch is computed from the revision the listed
  pod is labelled with and applied to the copy the cache has by then
  (`internal/inplace_update/inplace_update.go:262`). After an update that took effect and returned an
  error nothing is expected of the pod: listed at A, read again at B, patched by the difference
  from A to C, it runs a mixture and is labelled C. And with a list of revisions behind:
  `KeepRevision` goes by a revision that was dropped, whose name a colliding template then gets.
- `RollbackIsKept` with a list behind: a revision dropped by an earlier pass is counted again, and
  one too many of the others goes (`inplaceu_controller.go:367`).
- `UpdateRevisionIsLatest` and `StatusNamesTemplate` with a list behind: the number after the highest
  listed may be taken already (`inplaceu_controller.go:295`), and a revision that is listed may be gone;
  nothing wakes the worker when the list catches up.

Met on the way, without a run: `ReadyReplicas` counts running pods
(`api/v1/inplaceu_types.go:84` says ready ones) and `UnavailableReplicas` is never set;
`spec.paused` is read by nothing; the controller reads `*spec.replicas` and
`spec.strategy.rollingUpdate` without a check for nil; `maxUnavailable` is rounded up
when the surge is 0; step 4 of `Scale` deletes marked pods that are not available without
charging `deleteReadyLimit` (hence `Escaping` in `DeletionKeepsRunning`), and both steps delete pods listed before they ran
without charging it, though they may run by the time of the call (hence
`IsRunning(job.view[n])` there); a terminating pod can
be updated in place twice (hence `Active` in `NoRepeatedUpdate`), and so can one whose update took effect and returned an error
(hence `slipped` there); a Failed or Succeeded pod that no longer matches is never released, and one that is owned and without a
controller never adopted (hence `IsActive` in `PodsMatch` and `OwnedPodsAreAdopted`).

## Abstractions

`Reconciler`:

- A template is its revision; comparing hashes is comparing revisions. `InPlace` is
  the relation `CalculateSpec` accepts. A pod whose revision is not among those the pass
  listed is marked for recreation although it could be updated in place
  (`internal/sync/inplaceu_update.go:128-136`): the disturbance `stale`.
- `ApplyRevision`, of the two revisions of a pass (`internal/controller/inplaceu_controller.go:206-213`),
  succeeds: it fails only on revisions whose data does not decode, and the controller wrote them. Such a pass would
  neither scale nor update, and still write its status.
- The status has no conditions. `syncInplaceu` appends one when scaling or updating failed (`:221-240`); it is written
  with the other fields, and is no reason to write them (`inconsistentStatus`).
- `minReadySeconds` is 0. A pod's phase is Pending, Running or Failed (Succeeded is
  Failed; Unknown does not occur). `ready` is the Ready condition.
- Sort keys below phase and readiness are left open: any order of such pods.
- A version is its place in the order of writes; an expected version is the number
  of versions the cache still lacks of it.
- Five minutes of an unsatisfied version expectation, and the nanoseconds of the
  requeue, are a choice between requeueing and not.
- An in-place update does not itself restart the kubelet's containers; that the pod
  loses readiness is the disturbance `unready`.
- The API server's conflict detection is exact: a write of a cached copy is accepted
  if and only if the cache has the latest version. The retries of `updatePodInPlace`
  are one step: the cache is behind through all of them, or not.
- A lost watch is one new list: the versions in between are never seen.

`Revisions`: its pods do not fail (a Failed pod is not listed, and truncation does not count its revision as in use); which pods a pass creates, deletes and updates is open, one place each and at
most once a pass; the informer of pods delivers the last version of each; between
revisions of one number the order is fixed by `Age` (creation time and name in the
code); a hash is `HashName`; that a pass lists revisions behind its own writes is counted as a
disturbance, `stale`; of contents there are the images of containers.

`Ownership`: a pod that is deleted terminates first, one that has ended as well; an event reaches the cache and the handler in one step, per pod in order; a
deletion and its expectation are one step; an Inplaceu is not created anew under the name of a
deleted one; `canAdopt` reads the cache, as the client it is given does; that the template's labels match the selector is assumed, as
the API types say ("It must match the pod template's labels").

`Ageing`: caches follow at once; all pods are of the update revision, so `Update` does nothing;
kubelets set the time of a transition exactly; the delay of a failed pass is left open; a
pass lists pods in one step. The properties of the choice of pods ask that the pods listed are
still there.

The stores: each method is one step, as each holds the lock; versions are numbers that fit
64 bits, or do not parse.

## Not modelled

- `AdoptControllerRevision`, `ReleaseControllerRevision`, and `UpdateWithMsg`, `Merge` and `GetWithMsg` of
  the duration store: called by nothing. `ApplyRevision` is called, and left out (see above).
- The contents of the in-place patch beyond images: annotations, the container states before
  the update, grace periods (the controller passes 0). Hashing and the JSON comparison
  of revisions are taken as exact.
- The delays and the memory of the rate limiters: wake-ups may come at any time.
- `cmd/`, generated code, adapters and interfaces: no behaviour of their own. `test/` is
  scaffolding.

## Plan

What would add most, in this order:

1. A composition of `Reconciler` with the claims of `Ownership`: two Inplaceus that scale.
2. `ImplementsWaits` for the names `exp` of `Reconciler` has, so that the stores and the pass meet in one theorem.
