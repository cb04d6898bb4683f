------------------------------ MODULE Revisions ------------------------------
(***************************************************************************)
(* The history of an Inplaceu: the ControllerRevisions that Reconcile      *)
(* creates, renumbers and truncates (getActiveRevisions, truncateHistory,  *)
(* internal/utils/history), and the pods that carry the name of one.       *)
(*                                                                         *)
(* A pod is two things that must agree: the revision it is labelled with   *)
(* and the contents it was created or patched to.  Which pods a pass       *)
(* creates, deletes or updates is left open here (the Reconciler says);    *)
(* the expectations that hold a pass back are those of the code.           *)
(* Revisions, pods and the Inplaceu each have an informer of their own,    *)
(* and no informer wakes the worker for a revision.                        *)
(***************************************************************************)
EXTENDS Integers, Sequences, FiniteSets

CONSTANTS
    Pods,             \* places for pods; spec.replicas is their number
    Containers, Images,
    Templates,        \* the templates users choose from: container -> image
    Names,            \* names of revisions
    Age,              \* name -> order of creation, which decides between revisions
                      \* of one number
    HashName,         \* <<template, collision count>> -> name
    MaxCollisions,    \* bound: HashName is collision-free at this count
    Limit,            \* spec.revisionHistoryLimit
    InitTemplate,
    Disturbances,     \* which of AllDisturbances happen
    Budget,           \* bound: how many disturbances happen in a behaviour
    None

\* "stale": a pass lists revisions before its informer has seen all writes of them.
AllDisturbances == {"template", "evict", "apierr", "timeout", "crash", "failover", "stale"}

ASSUME RevisionsAssumption ==
    /\ Templates \subseteq [Containers -> Images]
    /\ MaxCollisions \in Nat
    /\ HashName \in [Templates \X (0 .. MaxCollisions) -> Names]
    \* the names of the last count are no other template's
    /\ \A s, t \in Templates, i \in 0 .. MaxCollisions :
          HashName[<<s, i>>] = HashName[<<t, MaxCollisions>>] => s = t
    /\ Age \in [Names -> Nat] /\ \A m, n \in Names : Age[m] = Age[n] => m = n
    /\ Limit \in Nat
    /\ InitTemplate \in Templates
    /\ Disturbances \subseteq AllDisturbances
    /\ Budget \in Nat
    /\ None \notin Names /\ None \notin [template : Templates, number : Nat]

VARIABLES
    iu,         \* the Inplaceu in the API server
    iuCache,    \* the Inplaceu in the informer cache
    store,      \* name -> revision in the API server, or None
    revCache,   \* name -> revision in the informer cache, or None
    lag,        \* writes of revisions the cache has not got yet, in order
    pods,       \* place -> pod in the API server, or None
    podCache,   \* place -> pod in the informer cache, or None
    exp,        \* ScaleExpectations: places with an awaited write
    rvExp,      \* ResourceVersionExpectations: place -> awaited pod, or None
    queued,     \* the Inplaceu is in the work queue
    pc,         \* the step the worker is at
    job,        \* the local state of the running Reconcile
    budget,     \* disturbances left
    suffered    \* history: which of the graver ones there have been

vars == <<iu, iuCache, store, revCache, lag, pods, podCache, exp, rvExp,
          queued, pc, job, budget, suffered>>

Graver == {"timeout", "failover", "stale"}
calm == <<budget, suffered>>

objects == <<iu, iuCache, store, revCache, lag, pods, podCache>>
memory  == <<exp, rvExp>>

\* The data of a revision is a template; its number is what Revisions sort by.
Revision == [template : Templates, number : Nat]

Inplaceu == [template : Templates, update : Names \cup {None},
             current : Names \cup {None}, collisions : 0 .. MaxCollisions]

Pod == [rev : Names, contents : [Containers -> Images]]

NoView == [p \in Pods |-> None]
NoList == [n \in Names |-> None]

\* view and list are the pods and revisions the pass listed; update and data
\* its update revision; count and number what a new one is made with; todo the
\* pods it has not dealt with yet, old the revisions it is going to delete.
Job == [iu : Inplaceu, view : [Pods -> Pod \cup {None}],
        list : [Names -> Revision \cup {None}],
        update : Names \cup {None}, data : Templates,
        count : 0 .. MaxCollisions, number : Nat,
        todo : SUBSET Pods, old : SUBSET Names, err : BOOLEAN]

NewJob(obj) == [iu |-> obj, view |-> NoView, list |-> NoList, update |-> None,
                data |-> obj.template, count |-> obj.collisions, number |-> 0,
                todo |-> Pods, old |-> {}, err |-> FALSE]

Steps == {"idle", "pods", "revisions", "renumber", "create", "versions", "sync",
          "status", "truncate", "drop"}

TypeOK ==
    /\ iu \in Inplaceu /\ iuCache \in Inplaceu
    /\ store \in [Names -> Revision \cup {None}]
    /\ revCache \in [Names -> Revision \cup {None}]
    /\ lag \in Seq(Names \X (Revision \cup {None}))
    /\ pods \in [Pods -> Pod \cup {None}]
    /\ podCache \in [Pods -> Pod \cup {None}]
    /\ exp \in SUBSET Pods
    /\ rvExp \in [Pods -> Pod \cup {None}]
    /\ queued \in BOOLEAN
    /\ pc \in Steps
    /\ IF pc = "idle" THEN job = None ELSE job \in Job
    /\ budget \in 0 .. Budget /\ suffered \subseteq Graver

-----------------------------------------------------------------------------
Existing(objs) == {n \in DOMAIN objs : objs[n] # None}

\* SortControllerRevisions: by number, then by creation time and name.
SortedBefore(list, m, n) ==
    \/ list[m].number < list[n].number
    \/ list[m].number = list[n].number /\ Age[m] < Age[n]

\* The one sorted last, of the given names.
Newest(list, S) == {n \in S : \A m \in S \ {n} : SortedBefore(list, m, n)}

\* One more than the number of the last revision: the only element of this set.
NextRevision(list) ==
    IF Existing(list) = {} THEN {1}
    ELSE {1 + list[n].number : n \in Newest(list, Existing(list))}

\* FindEqualRevisions: by the data.
EqualRevisions(list, t) == {n \in Existing(list) : list[n].template = t}

\* updatePodInPlace: what differs between two templates, applied to a pod.
Patched(old, new, contents) ==
    [c \in Containers |-> IF old[c] # new[c] THEN new[c] ELSE contents[c]]

Disturb(kind) ==
    /\ kind \in Disturbances
    /\ budget > 0
    /\ budget' = budget - 1
    /\ suffered' = suffered \cup ({kind} \cap Graver)

Calm == UNCHANGED calm

WriteRevision(n, r) ==
    /\ store' = [store EXCEPT ![n] = r]
    /\ lag' = Append(lag, <<n, r>>)

Goto(step) == pc' = step

\* Fault: a pass that fails goes on with what it had.
ReturnKeepingJob(err) ==
    /\ Goto("idle")
    /\ job' = job
    /\ queued' = (queued \/ err)

\* Reconcile returns; an error puts the key back into the queue.
Return(err) ==
    /\ Goto("idle")
    /\ job' = None
    /\ queued' = (queued \/ err)

NewInplaceu == [template |-> InitTemplate, update |-> None, current |-> None, collisions |-> 0]

FirstName == HashName[<<InitTemplate, 0>>]

\* A new Inplaceu, or one whose pods are all at its first revision.
Init ==
    /\ \/ /\ iu = NewInplaceu
          /\ store = NoList
          /\ pods = NoView
       \/ /\ iu = [NewInplaceu EXCEPT !.update = FirstName, !.current = FirstName]
          /\ store = [NoList EXCEPT ![FirstName] = [template |-> InitTemplate, number |-> 1]]
          /\ pods = [p \in Pods |-> [rev |-> FirstName, contents |-> InitTemplate]]
    /\ iuCache = iu /\ revCache = store /\ podCache = pods
    /\ lag = <<>>
    /\ exp = {} /\ rvExp = NoView
    /\ queued = TRUE
    /\ pc = "idle" /\ job = None
    /\ budget = Budget /\ suffered = {}

-----------------------------------------------------------------------------
(* Users, informers, and the process itself. *)

UserChangesTemplate(t) ==
    /\ t # iu.template
    /\ Disturb("template")
    /\ iu' = [iu EXCEPT !.template = t]
    /\ UNCHANGED <<iuCache, store, revCache, lag, pods, podCache, memory, queued, pc, job>>

Evict(p) ==
    /\ pods[p] # None
    /\ Disturb("evict")
    /\ pods' = [pods EXCEPT ![p] = None]
    /\ UNCHANGED <<iu, iuCache, store, revCache, lag, podCache, memory, queued, pc, job>>

InplaceuEvent ==
    /\ iuCache # iu
    /\ iuCache' = iu
    /\ queued' = TRUE
    /\ UNCHANGED <<iu, store, revCache, lag, pods, podCache, memory, pc, job, calm>>

RevisionEvent ==
    /\ lag # <<>>
    /\ revCache' = [revCache EXCEPT ![Head(lag)[1]] = Head(lag)[2]]
    /\ lag' = Tail(lag)
    /\ UNCHANGED <<iu, iuCache, store, pods, podCache, memory, queued, pc, job, calm>>

\* The cache and then the handler get the versions of a pod: what was expected
\* of it is observed, and what was expected of a pod that is gone is dropped.
PodEvent(p) ==
    /\ podCache[p] # pods[p] \/ p \in exp
    /\ podCache' = [podCache EXCEPT ![p] = pods[p]]
    /\ exp' = exp \ {p}
    /\ rvExp' = IF pods[p] = None THEN [rvExp EXCEPT ![p] = None] ELSE rvExp
    /\ queued' = TRUE
    /\ UNCHANGED <<iu, iuCache, store, revCache, lag, pods, pc, job, calm>>

\* Another process takes over.  It lists the Inplaceu and the revisions anew.
Restarts ==
    /\ iuCache' = iu /\ revCache' = store /\ lag' = <<>>
    /\ exp' = {} /\ rvExp' = NoView
    /\ queued' = TRUE
    /\ pc' = "idle" /\ job' = None
    /\ UNCHANGED <<iu, store, pods>>

\* Its first list of the pods ...
Crash == Disturb("crash") /\ Restarts /\ podCache' = pods

\* ... or, for a standby that becomes the leader, the cache it has had before
\* (IndexField starts the pod informer when the manager is set up).
Failover == Disturb("failover") /\ Restarts /\ UNCHANGED podCache

-----------------------------------------------------------------------------
(* Reconcile, up to its revisions. *)

\* A pass starts if no write of the last one is awaited.
Take ==
    /\ pc = "idle" /\ queued
    /\ queued' = FALSE
    /\ IF exp = {} THEN job' = NewJob(iuCache) /\ Goto("pods")
                   ELSE UNCHANGED <<job, pc>>
    /\ UNCHANGED <<objects, memory, calm>>

ListPods ==
    /\ pc = "pods"
    /\ job' = [job EXCEPT !.view = podCache]
    /\ Goto("revisions")
    /\ UNCHANGED <<objects, memory, queued, calm>>

\* Nothing makes a pass wait for its informer of revisions.
MayBeStale == IF lag = <<>> THEN Calm ELSE Disturb("stale")

\* The last revision is the one of the template.
KeepRevision ==
    /\ pc = "revisions" /\ MayBeStale
    /\ \E n \in Newest(revCache, Existing(revCache)) :
          /\ revCache[n].template = job.iu.template
          /\ job' = [job EXCEPT !.list = revCache, !.update = n]
    /\ Goto("versions")
    /\ UNCHANGED <<objects, memory, queued>>

\* Fault: an earlier revision is taken as it is.
RollBackAsIs ==
    /\ pc = "revisions" /\ MayBeStale
    /\ \E last \in Newest(revCache, Existing(revCache)) :
          revCache[last].template # job.iu.template
    /\ \E n \in Newest(revCache, EqualRevisions(revCache, job.iu.template)) :
          job' = [job EXCEPT !.list = revCache, !.update = n]
    /\ Goto("versions")
    /\ UNCHANGED <<objects, memory, queued>>

\* An earlier one is: it is about to get the next number.
RollBack ==
    /\ pc = "revisions" /\ MayBeStale
    /\ \E last \in Newest(revCache, Existing(revCache)) :
          revCache[last].template # job.iu.template
    /\ \E n \in Newest(revCache, EqualRevisions(revCache, job.iu.template)),
          k \in NextRevision(revCache) :
          job' = [job EXCEPT !.list = revCache, !.update = n, !.number = k]
    /\ Goto("renumber")
    /\ UNCHANGED <<objects, memory, queued>>

StartRevision ==
    /\ pc = "revisions" /\ MayBeStale
    /\ EqualRevisions(revCache, job.iu.template) = {}
    /\ \E k \in NextRevision(revCache) :
          job' = [job EXCEPT !.list = revCache, !.number = k]
    /\ Goto("create")
    /\ UNCHANGED <<objects, memory, queued>>

-----------------------------------------------------------------------------
(* UpdateControllerRevision: the listed copy, then, on conflicts, the one of *)
(* the cache.                                                               *)

Attempts == {job.list[job.update], revCache[job.update]}

\* The listed copy is refused.  The one read instead has the number already, or
\* there is none in the cache, and the refused one, which has it, counts as written.
Refused == store[job.update] # None /\ store[job.update] # job.list[job.update]

HasNumber == revCache[job.update] # None => revCache[job.update].number = job.number

Renumber ==
    /\ pc = "renumber"
    /\ store[job.update] # None /\ store[job.update] \in Attempts
    /\ ~(Refused /\ HasNumber)
    /\ WriteRevision(job.update, [store[job.update] EXCEPT !.number = job.number])
    /\ job' = [job EXCEPT !.data = store[job.update].template]
    /\ Goto("versions")
    /\ UNCHANGED <<iu, iuCache, revCache, pods, podCache, memory, queued, calm>>

RenumberedBefore ==
    /\ pc = "renumber" /\ Refused /\ HasNumber
    /\ job' = IF revCache[job.update] = None THEN job
              ELSE [job EXCEPT !.data = revCache[job.update].template]
    /\ Goto("versions")
    /\ UNCHANGED <<objects, memory, queued, calm>>

RenumberFails ==
    /\ pc = "renumber"
    /\ \/ store[job.update] = None /\ Calm
       \/ store[job.update] \notin Attempts /\ ~HasNumber /\ Calm
       \/ Disturb("apierr")
    /\ Return(TRUE)
    /\ UNCHANGED <<objects, memory>>

-----------------------------------------------------------------------------
(* CreateControllerRevision: names of the template, one collision count     *)
(* after the other.                                                         *)

Candidate == HashName[<<job.data, job.count>>]

CreateRevision ==
    /\ pc = "create"
    /\ store[Candidate] = None
    /\ WriteRevision(Candidate, [template |-> job.data, number |-> job.number])
    /\ job' = [job EXCEPT !.update = Candidate]
    /\ Goto("versions")
    /\ UNCHANGED <<iu, iuCache, revCache, pods, podCache, memory, queued, calm>>

\* Fault: whatever has the name is taken for the revision.
TakeAnyNamed ==
    /\ pc = "create"
    /\ store[Candidate] # None /\ revCache[Candidate] # None
    /\ job' = [job EXCEPT !.update = Candidate, !.data = revCache[Candidate].template]
    /\ Goto("versions")
    /\ UNCHANGED <<objects, memory, queued, calm>>

\* The name is taken by an equal revision, which a cache behind did not list.
TakeNamed ==
    /\ pc = "create"
    /\ store[Candidate] # None /\ revCache[Candidate] # None
    /\ revCache[Candidate].template = job.data
    /\ job' = [job EXCEPT !.update = Candidate]
    /\ Goto("versions")
    /\ UNCHANGED <<objects, memory, queued, calm>>

\* The name is taken by another template.
Collide ==
    /\ pc = "create"
    /\ store[Candidate] # None /\ revCache[Candidate] # None
    /\ revCache[Candidate].template # job.data
    /\ job' = [job EXCEPT !.count = @ + 1]
    /\ UNCHANGED <<objects, memory, queued, pc, calm>>

\* The name is taken by a revision the cache does not have, or the call fails,
\* in the case of a timeout after it took effect.
CreateRevisionFails ==
    /\ pc = "create"
    /\ \/ /\ store[Candidate] # None /\ revCache[Candidate] = None /\ Calm
          /\ UNCHANGED <<store, lag>>
       \/ Disturb("apierr") /\ UNCHANGED <<store, lag>>
       \/ /\ store[Candidate] = None /\ Disturb("timeout")
          /\ WriteRevision(Candidate, [template |-> job.data, number |-> job.number])
    /\ Return(TRUE)
    /\ UNCHANGED <<iu, iuCache, revCache, pods, podCache, memory>>

-----------------------------------------------------------------------------
(* The gate on the listed pods, and what syncInplaceu does to them.         *)

Stale(p) == rvExp[p] # None /\ job.view[p] \notin {None, rvExp[p]}

\* Fault: versions are not waited for.
PassVersionsAlways ==
    /\ pc = "versions"
    /\ rvExp' = [p \in Pods |-> IF job.view[p] = rvExp[p] THEN None ELSE rvExp[p]]
    /\ Goto("sync")
    /\ UNCHANGED <<objects, exp, queued, job, calm>>

PassVersions ==
    /\ pc = "versions"
    /\ \A p \in Pods : ~Stale(p)
    /\ rvExp' = [p \in Pods |-> IF job.view[p] = rvExp[p] THEN None ELSE rvExp[p]]
    /\ Goto("sync")
    /\ UNCHANGED <<objects, exp, queued, job, calm>>

WaitForVersions ==
    /\ pc = "versions"
    /\ \E p \in Pods : Stale(p)
    /\ Return(TRUE)
    /\ UNCHANGED <<objects, memory, calm>>

NewPod == [rev |-> job.update, contents |-> job.data]

\* A place the pass and the cache know nothing of: instance ids are not reused.
CreatePod(p) ==
    /\ pc = "sync" /\ p \in job.todo
    /\ job.view[p] = None /\ podCache[p] = None /\ pods[p] = None
    /\ pods' = [pods EXCEPT ![p] = NewPod]
    /\ exp' = exp \cup {p}
    /\ job' = [job EXCEPT !.todo = @ \ {p}]
    /\ UNCHANGED <<iu, iuCache, store, revCache, lag, podCache, rvExp, queued, pc, calm>>

DeletePod(p) ==
    /\ pc = "sync" /\ p \in job.todo
    /\ job.view[p] # None /\ pods[p] # None
    /\ pods' = [pods EXCEPT ![p] = None]
    /\ exp' = exp \cup {p}
    /\ job' = [job EXCEPT !.todo = @ \ {p}]
    /\ UNCHANGED <<iu, iuCache, store, revCache, lag, podCache, rvExp, queued, pc, calm>>

\* An in-place update of p: the difference from the listed revision of the
\* listed pod is applied to the pod as the cache has it, which must be the
\* latest for the write to be accepted.  (A pod of a revision that is not in the
\* list is recreated.)
Updatable(p) ==
    /\ pc = "sync" /\ p \in job.todo
    /\ job.view[p] # None /\ job.view[p].rev # job.update
    /\ job.list[job.view[p].rev] # None
    /\ pods[p] # None /\ podCache[p] = pods[p]

UpdatedPod(p) ==
    [rev |-> job.update,
     contents |-> Patched(job.list[job.view[p].rev].template, job.data, podCache[p].contents)]

UpdatePod(p) ==
    /\ Updatable(p)
    /\ pods' = [pods EXCEPT ![p] = UpdatedPod(p)]
    /\ rvExp' = [rvExp EXCEPT ![p] = UpdatedPod(p)]
    /\ job' = [job EXCEPT !.todo = @ \ {p}]
    /\ UNCHANGED <<iu, iuCache, store, revCache, lag, podCache, exp, queued, pc, calm>>

\* A call on p takes effect and returns an error: nothing is expected of it.
SyncTimesOut(p) ==
    /\ pc = "sync" /\ p \in job.todo
    /\ \/ /\ Updatable(p)
          /\ pods' = [pods EXCEPT ![p] = UpdatedPod(p)]
       \/ /\ job.view[p] = None /\ podCache[p] = None /\ pods[p] = None
          /\ pods' = [pods EXCEPT ![p] = NewPod]
    /\ Disturb("timeout")
    /\ job' = [job EXCEPT !.err = TRUE]
    /\ Goto("status")
    /\ UNCHANGED <<iu, iuCache, store, revCache, lag, podCache, memory, queued>>

\* Nothing more to do to the pods of this pass, or an error.
EndSync ==
    /\ pc = "sync"
    /\ \E err \in BOOLEAN : job' = [job EXCEPT !.err = err]
    /\ Goto("status")
    /\ UNCHANGED <<objects, memory, queued, calm>>

-----------------------------------------------------------------------------
(* The status, and the end of the history.                                  *)

\* getActiveRevisions: the one the status names, if it is listed.
CurrentRevision ==
    IF job.iu.current # None /\ job.list[job.iu.current] # None
    THEN job.iu.current ELSE job.update

\* calculateStatus: stable when every pod asked for is at the update revision.
StableRevision ==
    IF \A p \in Pods : job.view[p] # None /\ job.view[p].rev = job.update
    THEN job.update ELSE CurrentRevision

\* The counts of pods in the status, which are not modelled here, may be what
\* makes it differ; the collision count is not looked at.
StatusIsConsistent ==
    /\ pc = "status"
    /\ job.iu.update = job.update /\ job.iu.current = StableRevision
    /\ Goto("truncate")
    /\ UNCHANGED <<objects, memory, queued, job, calm>>

UpdateStatus ==
    /\ pc = "status"
    /\ iuCache = iu
    /\ iu' = [iu EXCEPT !.update = job.update, !.current = StableRevision, !.collisions = job.count]
    /\ Goto("truncate")
    /\ UNCHANGED <<iuCache, store, revCache, lag, pods, podCache, memory, queued, job, calm>>

UpdateStatusFails ==
    /\ pc = "status"
    /\ (iuCache # iu /\ Calm) \/ Disturb("apierr")
    /\ Return(TRUE)
    /\ UNCHANGED <<objects, memory>>

\* Fault: the update revision is what keeps revisions of pods, not the list.
NotLiveIgnoringPods ==
    Existing(job.list) \ {CurrentRevision, job.update}

\* Revisions of the list that nothing the pass knows is at.
NotLive ==
    Existing(job.list) \ ({CurrentRevision, job.update}
                            \cup {job.view[p].rev : p \in Existing(job.view)})

OldestFirst(S) == \A n \in S, m \in NotLive \ S : SortedBefore(job.list, n, m)

\* Fault: one too many goes.
TruncateOneMore ==
    /\ pc = "truncate" /\ Cardinality(NotLive) > Limit
    /\ \E S \in SUBSET NotLive :
          /\ Cardinality(S) = Cardinality(NotLive) - Limit + 1
          /\ OldestFirst(S)
          /\ job' = [job EXCEPT !.old = S]
    /\ Goto("drop")
    /\ UNCHANGED <<objects, memory, queued, calm>>

\* The oldest beyond the limit.
Truncate ==
    /\ pc = "truncate" /\ Cardinality(NotLive) > Limit
    /\ \E S \in SUBSET NotLive :
          /\ Cardinality(S) = Cardinality(NotLive) - Limit
          /\ OldestFirst(S)
          /\ job' = [job EXCEPT !.old = S]
    /\ Goto("drop")
    /\ UNCHANGED <<objects, memory, queued, calm>>

NothingToTruncate ==
    /\ pc = "truncate" /\ Cardinality(NotLive) <= Limit
    /\ Return(job.err)
    /\ UNCHANGED <<objects, memory, calm>>

\* The next of the list.
NextToDrop(n) ==
    /\ pc = "drop" /\ n \in job.old
    /\ \A m \in job.old \ {n} : SortedBefore(job.list, n, m)

Drop(n) ==
    /\ NextToDrop(n)
    /\ store[n] # None
    /\ WriteRevision(n, None)
    /\ IF job.old = {n} THEN Return(job.err)
       ELSE job' = [job EXCEPT !.old = @ \ {n}] /\ UNCHANGED <<pc, queued>>
    /\ UNCHANGED <<iu, iuCache, revCache, pods, podCache, memory, calm>>

\* The first error, of a revision that is gone already for one, ends the loop;
\* it is logged, and not returned.
DropFails(n) ==
    /\ NextToDrop(n)
    /\ \/ store[n] = None /\ Calm /\ UNCHANGED <<store, lag>>
       \/ Disturb("apierr") /\ UNCHANGED <<store, lag>>
       \/ store[n] # None /\ Disturb("timeout") /\ WriteRevision(n, None)
    /\ Return(job.err)
    /\ UNCHANGED <<iu, iuCache, revCache, pods, podCache, memory>>

-----------------------------------------------------------------------------
Worker ==
    \/ Take \/ ListPods \/ KeepRevision \/ RollBack \/ StartRevision
    \/ Renumber \/ RenumberedBefore \/ RenumberFails
    \/ CreateRevision \/ TakeNamed \/ Collide \/ CreateRevisionFails
    \/ PassVersions \/ WaitForVersions \/ EndSync
    \/ \E p \in Pods : CreatePod(p) \/ DeletePod(p) \/ UpdatePod(p) \/ SyncTimesOut(p)
    \/ StatusIsConsistent \/ UpdateStatus \/ UpdateStatusFails
    \/ Truncate \/ NothingToTruncate
    \/ \E n \in Names : Drop(n) \/ DropFails(n)

Environment ==
    \/ \E t \in Templates : UserChangesTemplate(t)
    \/ InplaceuEvent \/ RevisionEvent
    \/ \E p \in Pods : Evict(p) \/ PodEvent(p)
    \/ Crash \/ Failover

Next == Worker \/ Environment

Spec == Init /\ [][Next]_vars

-----------------------------------------------------------------------------
(* Properties. *)

\* A pod's label tells what its containers run: whatever names collide, come
\* back after truncation, or are patched over one another, the revision a pod is
\* labelled with has the contents of the pod.  (Not after a timeout or a leader
\* change: a patch may be computed for one version of a pod and applied to another.
\* Nor when a pass goes by a list of revisions that shows a deleted one: a template
\* that collides with it may have got its name.)
LabelsTellContents ==
    suffered = {} =>
        \A p \in Existing(pods) :
            store[pods[p].rev] # None => store[pods[p].rev].template = pods[p].contents

Drops(n) == store[n] # None /\ store'[n] = None

\* Truncation never drops the revision of a pod, although it only knows the
\* pods and revisions the pass listed, however old the list of revisions.  (Not
\* after a timeout or a leader change, of which no expectation is left.)
LiveRevisionsAreKept ==
    [][suffered \subseteq {"stale"} =>
         \A n \in Names : Drops(n) => \A p \in Existing(pods) : pods[p].rev # n]_vars

\* The revisions a pass could roll back to: no pod is at them, and neither is it.
Old == Existing(store) \ ({pods[p].rev : p \in Existing(pods)} \cup {job.update})

\* Truncation leaves as many old revisions as the limit says, although pods come,
\* go and change their revision after the pass listed them.  (Not if it lists
\* revisions that are deleted already, or lacks pods: suffered says when.)
RollbackIsKept ==
    [][suffered = {} =>
         \A n \in Names : Drops(n) => Cardinality(Old \ {n}) >= Limit]_vars

\* Nothing is left to happen by itself.
Rest ==
    /\ pc = "idle" /\ ~queued
    /\ iuCache = iu /\ lag = <<>> /\ podCache = pods /\ exp = {}

\* At rest the status names the revision of the template.  (Unless a pass listed
\* revisions that had been deleted: nothing wakes it when the list catches up.)
StatusNamesTemplate ==
    Rest /\ "stale" \notin suffered =>
            /\ iu.update # None
            /\ store[iu.update] # None
            /\ store[iu.update].template = iu.template

\* "UpdateRevision, if not empty, indicates the latest revision" (the API
\* types): no revision has a number above that of the update revision.  (Unless a
\* list lacked one when a number was drawn.)
UpdateRevisionIsLatest ==
    Rest /\ "stale" \notin suffered => \A n \in Existing(store) : store[n].number <= store[iu.update].number
=============================================================================
