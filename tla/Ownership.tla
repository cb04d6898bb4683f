----------------------------- MODULE Ownership ------------------------------
(***************************************************************************)
(* Who controls a pod.  Pods name Inplaceus as owners, at most one of them *)
(* as their controller; the event handler wakes the Inplaceus a change of  *)
(* a pod concerns (internal/inplaceu_event_handler), and each pass claims  *)
(* the pods it lists: it releases those its selector no longer matches and *)
(* adopts those without a controller (internal/utils/refmgr).  Meanwhile   *)
(* users relabel pods and edit their owners, other controllers adopt them, *)
(* and Inplaceus are deleted.                                              *)
(*                                                                         *)
(* One worker serves all Inplaceus.  What a pass deletes and creates of    *)
(* the pods it claimed is left open (Reconciler says it); an event reaches *)
(* cache and handler in one step.                                          *)
(***************************************************************************)
EXTENDS Integers, Sequences, FiniteSets

CONSTANTS
    Owners,           \* the Inplaceus
    Pods,             \* names of pods
    Labels,
    Matches,          \* pairs <<Inplaceu, label>>: its selector matches the label
    TemplateLabel,    \* Inplaceu -> label of the pods it creates
    InitPods,         \* name -> pod, or None, in the initial state
    Disturbances,     \* which of AllDisturbances happen
    Budget,           \* bound: how many disturbances happen in a behaviour
    Foreign,          \* a controller that is not an Inplaceu
    None

AllDisturbances ==
    {"label", "orphan", "demote", "link",  \* users: labels and owners of pods
     "foreign", "evict", "remove",         \* another controller; deleted pods, Inplaceus
     "end",                                \* containers that stop for good
     "scaleout", "scalein",                \* passes that create and delete pods
     "apierr", "timeout", "crash"}

\* ctrl is the controller, plain are the other Inplaceus among the owners; ended:
\* its phase is Failed or Succeeded.
Pod == {pod \in [ctrl : Owners \cup {Foreign, None}, plain : SUBSET Owners,
                 label : Labels, ended : BOOLEAN, term : BOOLEAN] : pod.ctrl \notin pod.plain}

ASSUME OwnershipAssumption ==
    /\ Matches \subseteq Owners \X Labels
    /\ TemplateLabel \in [Owners -> Labels]
    \* "It must match the pod template's labels" (the API types)
    /\ \A o \in Owners : <<o, TemplateLabel[o]>> \in Matches
    /\ InitPods \in [Pods -> Pod \cup {None}] /\ None \notin Pod
    /\ Disturbances \subseteq AllDisturbances
    /\ Budget \in Nat
    /\ Foreign \notin Owners /\ None \notin Owners \cup {Foreign}

VARIABLES
    owners,      \* Inplaceu -> its state in the API server
    ownerCache,  \* Inplaceu -> its state in the informer cache
    pods,        \* name -> pod in the API server, or None
    watch,       \* name -> versions of the pod the cache has not got yet
    cache,       \* name -> pod in the informer cache, or None
    exp,         \* ScaleExpectations: Inplaceu -> awaited <<action, name>>
    queued,      \* the Inplaceus in the work queue
    pc,          \* the step the worker is at
    job,         \* the local state of the running Reconcile
    moved,       \* pods with a later version than the one the pass listed
    budget       \* disturbances left

vars == <<owners, ownerCache, pods, watch, cache, exp, queued, pc, job, moved, budget>>

OwnerStates == {"live", "dying", "gone"}

\* owner is the Inplaceu as Reconcile read it; mine are the pods it claimed, todo
\* those that need a call for it; adopting is what canAdoptOnce remembers.
Job == [for : Owners, owner : {"live", "dying"}, view : [Pods -> Pod \cup {None}],
        todo : SUBSET Pods, mine : SUBSET Pods,
        adopting : {"unasked", "yes", "no"}, err : BOOLEAN]

TypeOK ==
    /\ owners \in [Owners -> OwnerStates] /\ ownerCache \in [Owners -> OwnerStates]
    /\ pods \in [Pods -> Pod \cup {None}]
    /\ cache \in [Pods -> Pod \cup {None}]
    /\ watch \in [Pods -> Seq(Pod \cup {None})]
    /\ exp \in [Owners -> SUBSET ({"create", "delete"} \X Pods)]
    /\ queued \in SUBSET Owners
    /\ pc \in {"idle", "list", "claim", "sync"}
    /\ IF pc = "idle" THEN job = None ELSE job \in Job
    /\ moved \in SUBSET Pods
    /\ budget \in 0 .. Budget

-----------------------------------------------------------------------------
Existing(objs) == {p \in Pods : objs[p] # None}
Remains(pod) == pod # None /\ ~pod.term
\* Neither Failed nor Succeeded, and not terminating.
IsActive(pod) == Remains(pod) /\ ~pod.ended
Match(o, pod) == <<o, pod.label>> \in Matches

\* The index ownerRefUID has every owner of a pod, not only its controller.
IsOwned(o, pod) == pod.ctrl = o \/ o \in pod.plain

Disturb(kind) ==
    /\ kind \in Disturbances
    /\ budget > 0
    /\ budget' = budget - 1

Calm == UNCHANGED budget

\* A write the API server accepts.
Publish(p, pod) ==
    /\ pods' = [pods EXCEPT ![p] = pod]
    /\ watch' = [watch EXCEPT ![p] = Append(@, pod)]
    /\ moved' = moved \cup {p}

NoWrite == UNCHANGED <<pods, watch, moved>>

Init ==
    /\ owners = [o \in Owners |-> "live"] /\ ownerCache = owners
    /\ pods = InitPods /\ cache = pods
    /\ watch = [p \in Pods |-> <<>>]
    /\ exp = [o \in Owners |-> {}]
    /\ queued = Owners
    /\ pc = "idle" /\ job = None /\ moved = {}
    /\ budget = Budget

-----------------------------------------------------------------------------
(* The handler: whom an event wakes, and which expectations it meets.       *)

\* getPodInplaceUs, of the Inplaceus in the cache.
Selecting(pod) == {o \in Owners : ownerCache[o] # "gone" /\ Match(o, pod)}

\* Fault: a pod without controller wakes nobody but the one it had.
WokenControllersOnly(old, new) ==
    {obj.ctrl : obj \in {old, new} \ {None}}

\* Create, Update and Delete.
Woken(old, new) ==
    LET changed == old # None /\ new # None /\ old.ctrl # new.ctrl
        relabelled == old # None /\ new # None /\ old.label # new.label
    IN  CASE new = None -> {old.ctrl}
          [] new # None /\ new.term -> {new.ctrl} \cup IF relabelled THEN {old.ctrl} ELSE {}
          [] OTHER ->
               (IF changed THEN {old.ctrl} ELSE {})
                 \cup (IF new.ctrl # None THEN {new.ctrl}
                       ELSE IF old = None \/ changed \/ relabelled THEN Selecting(new) ELSE {})

\* Fault: only the event that shows the pod terminating observes its deletion, and
\* not if the label changed as well.
ObservedUnlessRelabelled(p, old, new) ==
    CASE new = None -> {}
      [] new # None /\ new.term ->
           IF old # None /\ old.label = new.label THEN {<<new.ctrl, <<"delete", p>>>>} ELSE {}
      [] OTHER -> IF old = None THEN {<<new.ctrl, <<"create", p>>>>} ELSE {}

\* What is observed, for the controller the object of the event names.
Observed(p, old, new) ==
    CASE new = None -> {<<old.ctrl, <<"delete", p>>>>}
      [] new # None /\ new.term ->
           {<<new.ctrl, <<"delete", p>>>>}
             \cup IF old # None /\ old.label # new.label THEN {<<old.ctrl, <<"delete", p>>>>} ELSE {}
      [] OTHER -> IF old = None THEN {<<new.ctrl, <<"create", p>>>>} ELSE {}

PodEvent(p) ==
    /\ watch[p] # <<>>
    /\ LET old == cache[p]
           new == Head(watch[p])
       IN  /\ cache' = [cache EXCEPT ![p] = new]
           /\ IF old = None /\ new = None THEN UNCHANGED <<exp, queued>>
              ELSE /\ queued' = queued \cup (Woken(old, new) \cap Owners)
                   /\ exp' = [o \in Owners |->
                                exp[o] \ {w \in {"create", "delete"} \X Pods :
                                            <<o, w>> \in Observed(p, old, new)}]
    /\ watch' = [watch EXCEPT ![p] = Tail(@)]
    /\ UNCHANGED <<owners, ownerCache, pods, pc, job, moved, budget>>

OwnerEvent(o) ==
    /\ ownerCache[o] # owners[o]
    /\ ownerCache' = [ownerCache EXCEPT ![o] = owners[o]]
    /\ queued' = queued \cup {o}
    /\ UNCHANGED <<owners, pods, watch, cache, exp, pc, job, moved, budget>>

\* Another process, with an add event for every pod and every Inplaceu.
Crash ==
    /\ Disturb("crash")
    /\ ownerCache' = owners
    /\ cache' = pods /\ watch' = [p \in Pods |-> <<>>]
    /\ exp' = [o \in Owners |-> {}]
    /\ queued' = {o \in Owners : owners[o] # "gone"}
                   \cup ({pods[p].ctrl : p \in Existing(pods)} \cap Owners)
    /\ pc' = "idle" /\ job' = None /\ moved' = {}
    /\ UNCHANGED <<owners, pods>>

-----------------------------------------------------------------------------
(* Reconcile: the pods of an Inplaceu.                                      *)

worker == <<exp, queued, pc, job>>

Return(requeue) ==
    /\ pc' = "idle" /\ job' = None
    /\ queued' = IF requeue THEN queued \cup {job.for} ELSE queued

\* Get does not find the Inplaceu: DeleteExpectations.
FindGone(o) ==
    /\ pc = "idle" /\ o \in queued /\ ownerCache[o] = "gone"
    /\ queued' = queued \ {o}
    /\ exp' = [exp EXCEPT ![o] = {}]
    /\ UNCHANGED <<owners, ownerCache, pods, watch, cache, pc, job, moved, budget>>

Take(o) ==
    /\ pc = "idle" /\ o \in queued /\ ownerCache[o] # "gone"
    /\ queued' = queued \ {o}
    /\ pc' = "list"
    /\ job' = [for |-> o, owner |-> ownerCache[o], view |-> [p \in Pods |-> None],
               todo |-> {}, mine |-> {}, adopting |-> "unasked", err |-> FALSE]
    /\ UNCHANGED <<owners, ownerCache, pods, watch, cache, exp, moved, budget>>

\* A handful of nanoseconds later, or not at all.
WaitForScale ==
    /\ pc = "list" /\ exp[job.for] # {}
    /\ \E requeue \in BOOLEAN : Return(requeue)
    /\ UNCHANGED <<owners, ownerCache, pods, watch, cache, exp, moved, budget>>

\* Fault: a controller that is not this Inplaceu is not looked at.
ClaimedByAnyOwner(view) == {p \in Existing(view) : view[p].ctrl # None /\ Match(job.for, view[p])}

\* claimObject, for the pods that are owned by job.for and need no call ...
Claimed(view) == {p \in Existing(view) : view[p].ctrl = job.for /\ Match(job.for, view[p])}

\* ... and for those that are to be released or adopted.
ToRelease(view) ==
    {p \in Existing(view) : /\ view[p].ctrl = job.for /\ ~Match(job.for, view[p])
                            /\ job.owner = "live"}
ToAdopt(view) ==
    {p \in Existing(view) : /\ view[p].ctrl = None /\ Match(job.for, view[p])
                            /\ job.owner = "live"}

\* getOwnedPods: the active ones, by the index.
ListPods ==
    /\ pc = "list" /\ exp[job.for] = {}
    /\ LET view == [p \in Pods |-> IF IsActive(cache[p]) /\ IsOwned(job.for, cache[p])
                                   THEN cache[p] ELSE None]
       IN  job' = [job EXCEPT !.view = view, !.mine = Claimed(view),
                              !.todo = ToRelease(view) \cup ToAdopt(view)]
    /\ pc' = "claim"
    /\ moved' = {p \in Pods : watch[p] # <<>>}
    /\ UNCHANGED <<owners, ownerCache, pods, watch, cache, exp, queued, budget>>

\* Update writes the listed copy: it must be the latest version.
UpToDate(p) == pods[p] # None /\ p \notin moved

Done(p, mine, err) ==
    job' = [job EXCEPT !.todo = @ \ {p}, !.mine = @ \cup mine, !.err = @ \/ err]

\* Fault: the reference it had stays beside the new one.
AdoptedTwice(pod) == [pod EXCEPT !.ctrl = job.for]

Released(pod) == [pod EXCEPT !.ctrl = None]
Adopted(pod) == [pod EXCEPT !.ctrl = job.for, !.plain = @ \ {job.for}]

Releases(p) == pc = "claim" /\ p \in job.todo /\ job.view[p].ctrl = job.for

\* Fault: a release that fails is not an error of the pass.
ReleaseFailsSilently(p) ==
    /\ Releases(p)
    /\ (~UpToDate(p) /\ Calm) \/ Disturb("apierr")
    /\ Done(p, {}, FALSE)
    /\ NoWrite
    /\ UNCHANGED <<owners, ownerCache, cache, exp, queued, pc>>

Release(p) ==
    /\ Releases(p) /\ UpToDate(p)
    /\ Publish(p, Released(pods[p]))
    /\ Done(p, {}, FALSE)
    /\ UNCHANGED <<owners, ownerCache, cache, exp, queued, pc, budget>>

\* A conflict, a pod that is gone (the error is wrapped, and IsNotFound does not
\* know it again), or a call that fails.
ReleaseFails(p) ==
    /\ Releases(p)
    /\ \/ ~UpToDate(p) /\ Calm /\ NoWrite
       \/ Disturb("apierr") /\ NoWrite
       \/ UpToDate(p) /\ Disturb("timeout") /\ Publish(p, Released(pods[p]))
    /\ Done(p, {}, TRUE)
    /\ UNCHANGED <<owners, ownerCache, cache, exp, queued, pc>>

Adopts(p) == pc = "claim" /\ p \in job.todo /\ job.view[p].ctrl = None

\* The first adoption of a pass looks the Inplaceu up again, in the cache.
AskToAdopt ==
    /\ pc = "claim" /\ job.adopting = "unasked" /\ \E p \in job.todo : Adopts(p)
    /\ job' = [job EXCEPT !.adopting = IF ownerCache[job.for] = "live" THEN "yes" ELSE "no"]
    /\ UNCHANGED <<owners, ownerCache, pods, watch, cache, exp, queued, pc, moved, budget>>

\* Fault: the version of the listed copy is not checked.
AdoptAnyVersion(p) ==
    /\ Adopts(p) /\ job.adopting = "yes" /\ pods[p] # None
    /\ Publish(p, Adopted(pods[p]))
    /\ Done(p, {p}, FALSE)
    /\ UNCHANGED <<owners, ownerCache, cache, exp, queued, pc, budget>>

Adopt(p) ==
    /\ Adopts(p) /\ job.adopting = "yes" /\ UpToDate(p)
    /\ Publish(p, Adopted(pods[p]))
    /\ Done(p, {p}, FALSE)
    /\ UNCHANGED <<owners, ownerCache, cache, exp, queued, pc, budget>>

AdoptFails(p) ==
    /\ Adopts(p) /\ job.adopting # "unasked"
    /\ \/ (job.adopting = "no" \/ ~UpToDate(p)) /\ Calm /\ NoWrite
       \/ job.adopting = "yes" /\ Disturb("apierr") /\ NoWrite
       \/ job.adopting = "yes" /\ UpToDate(p) /\ Disturb("timeout") /\ Publish(p, Adopted(pods[p]))
    /\ Done(p, {}, TRUE)
    /\ UNCHANGED <<owners, ownerCache, cache, exp, queued, pc>>

EndClaims ==
    /\ pc = "claim" /\ job.todo = {}
    /\ IF job.err THEN Return(TRUE) ELSE pc' = "sync" /\ UNCHANGED <<job, queued>>
    /\ UNCHANGED <<owners, ownerCache, pods, watch, cache, exp, moved, budget>>

-----------------------------------------------------------------------------
(* What a pass may do to the pods it claimed, unless the Inplaceu is being  *)
(* deleted.                                                                 *)

Unknown(p) == pods[p] = None /\ cache[p] = None /\ watch[p] = <<>>

CreatePod(p) ==
    /\ pc = "sync" /\ job.owner = "live" /\ Unknown(p)
    /\ Disturb("scaleout")
    /\ Publish(p, [ctrl |-> job.for, plain |-> {}, label |-> TemplateLabel[job.for],
                   ended |-> FALSE, term |-> FALSE])
    /\ exp' = [exp EXCEPT ![job.for] = @ \cup {<<"create", p>>}]
    /\ UNCHANGED <<owners, ownerCache, cache, queued, pc, job>>

\* Delete goes by the name of the pod.
DeletePod(p) ==
    /\ pc = "sync" /\ job.owner = "live" /\ p \in job.mine
    /\ pods[p] # None
    /\ Disturb("scalein")
    /\ IF pods[p].term THEN NoWrite ELSE Publish(p, [pods[p] EXCEPT !.term = TRUE])
    /\ exp' = [exp EXCEPT ![job.for] = @ \cup {<<"delete", p>>}]
    /\ job' = [job EXCEPT !.mine = @ \ {p}]
    /\ UNCHANGED <<owners, ownerCache, cache, queued, pc>>

EndSync ==
    /\ pc = "sync"
    /\ \E err \in BOOLEAN : (err => "apierr" \in Disturbances) /\ Return(err)
    /\ UNCHANGED <<owners, ownerCache, pods, watch, cache, exp, moved, budget>>

-----------------------------------------------------------------------------
(* Users, other controllers, kubelets and the garbage collector.            *)

Edit(p, pod) ==
    /\ Publish(p, pod)
    /\ UNCHANGED <<owners, ownerCache, cache, worker>>

UserRelabels(p, l) ==
    /\ Remains(pods[p]) /\ pods[p].label # l
    /\ Disturb("label")
    /\ Edit(p, [pods[p] EXCEPT !.label = l])

UserOrphans(p) ==
    /\ Remains(pods[p]) /\ pods[p].ctrl \in Owners
    /\ Disturb("orphan")
    /\ Edit(p, [pods[p] EXCEPT !.ctrl = None])

\* The owner stays an owner, but not as the controller.
UserDemotes(p) ==
    /\ Remains(pods[p]) /\ pods[p].ctrl \in Owners
    /\ Disturb("demote")
    /\ Edit(p, [pods[p] EXCEPT !.ctrl = None, !.plain = @ \cup {pods[p].ctrl}])

UserLinks(p, o) ==
    /\ Remains(pods[p]) /\ ~IsOwned(o, pods[p])
    /\ Disturb("link")
    /\ Edit(p, [pods[p] EXCEPT !.plain = @ \cup {o}])

ForeignAdopts(p) ==
    /\ Remains(pods[p]) /\ pods[p].ctrl = None
    /\ Disturb("foreign")
    /\ Edit(p, [pods[p] EXCEPT !.ctrl = Foreign])

Evict(p) ==
    /\ Remains(pods[p])
    /\ Disturb("evict")
    /\ Edit(p, [pods[p] EXCEPT !.term = TRUE])

PodEnds(p) ==
    /\ IsActive(pods[p])
    /\ Disturb("end")
    /\ Edit(p, [pods[p] EXCEPT !.ended = TRUE])

PodGone(p) ==
    /\ pods[p] # None /\ pods[p].term
    /\ Edit(p, None) /\ Calm

\* In the foreground or in the background.
UserRemoves(o) ==
    /\ owners[o] = "live"
    /\ Disturb("remove")
    /\ \E s \in {"dying", "gone"} : owners' = [owners EXCEPT ![o] = s]
    /\ UNCHANGED <<ownerCache, cache, worker>> /\ NoWrite

OwnersOf(pod) == ({pod.ctrl} \cup pod.plain) \ {None}

\* Pods without a live owner are deleted; others lose the owners that are not.
GarbageCollect(p) ==
    /\ Remains(pods[p])
    /\ LET lost == {o \in OwnersOf(pods[p]) \cap Owners : owners[o] # "live"}
       IN  \/ /\ lost # {} /\ lost = OwnersOf(pods[p])
              /\ Edit(p, [pods[p] EXCEPT !.term = TRUE])
           \/ /\ lost # {} /\ lost # OwnersOf(pods[p])
              /\ Edit(p, [pods[p] EXCEPT !.plain = @ \ lost,
                                         !.ctrl = IF @ \in lost THEN None ELSE @])
    /\ Calm

OwnerGone(o) ==
    /\ owners[o] = "dying"
    /\ \A p \in Existing(pods) : pods[p].ctrl # o
    /\ owners' = [owners EXCEPT ![o] = "gone"]
    /\ UNCHANGED <<ownerCache, cache, worker, budget>> /\ NoWrite

-----------------------------------------------------------------------------
Worker ==
    \/ \E o \in Owners : FindGone(o) \/ Take(o)
    \/ WaitForScale \/ ListPods \/ AskToAdopt \/ EndClaims \/ EndSync
    \/ \E p \in Pods : Release(p) \/ ReleaseFails(p) \/ Adopt(p) \/ AdoptFails(p)

Scaling == \E p \in Pods : CreatePod(p) \/ DeletePod(p)

Users ==
    \/ \E p \in Pods : \/ \E l \in Labels : UserRelabels(p, l)
                       \/ UserOrphans(p) \/ UserDemotes(p)
                       \/ \E o \in Owners : UserLinks(p, o)
                       \/ ForeignAdopts(p) \/ Evict(p)
    \/ \E o \in Owners : UserRemoves(o)

Cluster ==
    \/ \E p \in Pods : PodEnds(p) \/ PodGone(p) \/ GarbageCollect(p)
    \/ \E o \in Owners : OwnerGone(o)

Informers == (\E p \in Pods : PodEvent(p)) \/ (\E o \in Owners : OwnerEvent(o))

Next == Worker \/ Scaling \/ Users \/ Cluster \/ Informers \/ Crash

\* The worker serves every Inplaceu in the queue, informers deliver, kubelets
\* and the garbage collector finish what they have begun.
Fairness ==
    /\ WF_vars(Worker)
    /\ \A o \in Owners : SF_vars(FindGone(o) \/ Take(o)) /\ WF_vars(OwnerEvent(o) \/ OwnerGone(o))
    /\ \A p \in Pods : WF_vars(PodEvent(p)) /\ WF_vars(PodGone(p) \/ GarbageCollect(p))

Spec == Init /\ [][Next]_vars

FairSpec == Spec /\ Fairness

-----------------------------------------------------------------------------
(* Properties. *)

\* A pod that has a controller is taken from it by no pass of another Inplaceu,
\* however old the copy it claims.
NoStealing ==
    [][\A p \in Existing(pods) :
         /\ job # None /\ pods'[p] # None
         /\ pods'[p].ctrl = job.for /\ pods[p].ctrl # job.for
         => pods[p].ctrl = None]_vars

\* "ControllerRef will ensure we don't do anything crazy" (the event handler),
\* even where the selectors of two Inplaceus overlap: the passes of an Inplaceu
\* that is not being deleted only delete pods it controls at that moment.  (A user
\* may still take one away between list and deletion: "orphan" and "demote".)
DeletesOwnPods ==
    [][\A o \in Owners, p \in Existing(pods) :
         owners[o] = "live" /\ <<"delete", p>> \in exp'[o] \ exp[o] => pods[p].ctrl = o]_vars

\* Nothing is left to happen by itself.
Rest ==
    /\ pc = "idle" /\ queued = {}
    /\ ownerCache = owners /\ \A o \in Owners : owners[o] # "dying"
    /\ \A p \in Pods : watch[p] = <<>> /\ (pods[p] # None => ~pods[p].term)

\* At rest no Inplaceu controls an active pod that its selector does not match: no
\* change of a label is missed, and no failed release is forgotten.  (A pod that is
\* Failed or Succeeded is in no list of getOwnedPods: it stays with its controller.)
PodsMatch ==
    Rest => \A p \in Existing(pods), o \in Owners :
              owners[o] = "live" /\ IsActive(pods[p]) /\ pods[p].ctrl = o => Match(o, pods[p])

\* "If anything changed, sync matching controllers to see if anyone wants to adopt
\* it now" (the event handler): at rest no Inplaceu owns and selects an active pod
\* that is without a controller.  (Not when a user adds it as an owner: "link".)
OwnedPodsAreAdopted ==
    Rest => \A p \in Existing(pods), o \in Owners :
              /\ owners[o] = "live" /\ IsActive(pods[p])
              /\ o \in pods[p].plain /\ Match(o, pods[p])
              => pods[p].ctrl # None

\* At rest nothing is awaited, whoever deleted pods and Inplaceus meanwhile: an
\* expectation left over would stop its Inplaceu for good.  ("No controller should
\* be waiting for an orphan", says the event handler; if "orphan" happens, one is.)
NobodyWaits == Rest => \A o \in Owners : exp[o] = {}

Settled ==
    \A p \in Existing(pods) :
      /\ pods[p].ctrl \in Owners => owners[pods[p].ctrl] = "live"
      /\ \A o \in Owners :
           owners[o] = "live" /\ IsActive(pods[p]) /\ pods[p].ctrl = o => Match(o, pods[p])

\* After the last disturbance ownership settles: the active pods that an Inplaceu
\* controls are pods it selects, and no pod is left to one that is deleted.  Conflicts
\* and failed claims are retried, but not forever.
EventuallySettled == <>[]Settled

-----------------------------------------------------------------------------
(* What comments say, and the code does not do.                             *)

\* "sync them to see if anyone wants to adopt it" (the event handler): an orphan
\* that an Inplaceu selects, and that is active, is adopted in the end.
OrphansAreAdopted ==
    Rest => \A p \in Existing(pods), o \in Owners :
              owners[o] = "live" /\ IsActive(pods[p]) /\ Match(o, pods[p])
                => pods[p].ctrl # None

\* "If the pod no longer exists, ignore the error" (claimObject): a release of a
\* pod that is gone does not fail the pass.
GonePodsAreIgnored ==
    [][\A p \in Pods :
         /\ Releases(p) /\ pods[p] = None /\ ~job.err
         /\ budget' = budget /\ job' # None
         => ~job'.err]_vars
=============================================================================
