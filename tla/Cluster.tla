------------------------------- MODULE Cluster -------------------------------
(***************************************************************************)
(* The world around the inplaceu controller: the API server's pods and the *)
(* one Inplaceu object, the users and kubelets that write them, and the    *)
(* informer that carries the writes, late, to the controller's cache and   *)
(* from there to its event handler.  All of it is external to src/ and is  *)
(* modelled from how the controller uses it, except the classification of  *)
(* watch events (EventKind), which is the code of the event handler.       *)
(***************************************************************************)
EXTENDS ScaleUtil, Sequences

CONSTANTS
    ReplicaChoices,   \* values a user gives spec.replicas
    Disturbances,     \* which of AllDisturbances happen
    Budget,           \* bound: how many disturbances happen in a behaviour
    MaxLag            \* bound: versions of a pod on their way to the handler
                      \* before users and kubelets pause (the controller never does)

AllDisturbances ==
    {"scale", "template", "label",         \* users: replicas, template, specified-delete
     "evict", "fail", "unready",           \* pods that get lost or lose readiness
     "apierr", "timeout",                  \* refused and ambiguous API calls
     "crash", "relist",                    \* a controller restart, a lost watch
     "stale"}                              \* a list of revisions from before the last ones

ASSUME ClusterAssumption ==
    /\ ReplicaChoices \subseteq Nat
    /\ Disturbances \subseteq AllDisturbances
    /\ Budget \in Nat
    /\ MaxLag \in Nat \ {0}

VARIABLES
    iu,         \* the Inplaceu in the API server
    iuCache,    \* the Inplaceu in the informer cache
    pods,       \* name -> pod in the API server, or None
    watch,      \* name -> versions of the pod the cache has not got yet
    cache,      \* name -> pod in the informer cache, or None
    notes,      \* name -> events in the cache the handler has not had yet
    budget,     \* disturbances left
    slipped     \* history: pods whose update in place took effect and returned an
                \* error, and that no list has shown up to date since

clusterVars == <<iu, iuCache, pods, watch, cache, notes, budget, slipped>>

EventKinds == {"created", "changed", "gone"}

Status == [observed : Nat, replicas : Nat, ready : Nat, available : Nat,
           updated : Nat, update : Revs \cup {None}, current : Revs \cup {None}]

Inplaceu == [replicas : Nat, rev : Revs, gen : Nat, status : Status]

ClusterTypeOK ==
    /\ iu \in Inplaceu
    /\ iuCache \in Inplaceu
    /\ pods \in [Names -> Pod \cup {None}]
    /\ cache \in [Names -> Pod \cup {None}]
    /\ watch \in [Names -> Seq(Pod \cup {None})]
    /\ notes \in [Names -> Seq(EventKinds)]
    /\ budget \in 0 .. Budget
    /\ slipped \subseteq Names

-----------------------------------------------------------------------------
(* Writes to the API server. *)

\* Every accepted write of a pod becomes a version on its way to the cache.
Publish(n, p) ==
    /\ pods' = [pods EXCEPT ![n] = p]
    /\ watch' = [watch EXCEPT ![n] = Append(@, p)]

\* Deleting a pod starts its graceful termination; one that never started may
\* go at once.
Deleted(p) == {[p EXCEPT !.term = TRUE]} \cup IF p.phase = "Pending" THEN {None} ELSE {}

Disturb(kind) ==
    /\ kind \in Disturbances
    /\ budget > 0
    /\ budget' = budget - 1
    /\ UNCHANGED slipped

Calm == UNCHANGED <<budget, slipped>>

\* A write of n that takes effect and returns an error all the same.
Slip(n) ==
    /\ "timeout" \in Disturbances
    /\ budget > 0
    /\ budget' = budget - 1
    /\ slipped' = slipped \cup {n}

\* Names nothing in the system remembers: a random instance id is new.
Unused == {n \in Names : /\ pods[n] = None
                         /\ cache[n] = None
                         /\ watch[n] = <<>>
                         /\ notes[n] = <<>>}

-----------------------------------------------------------------------------
(* Kubelets. *)

CanWrite(n) == pods[n] # None /\ Len(watch[n]) + Len(notes[n]) < MaxLag

KubeletWrites(n, p) ==
    /\ CanWrite(n)
    /\ Publish(n, p)
    /\ UNCHANGED <<iu, iuCache, cache, notes>>

PodRuns(n) ==
    /\ IsActive(pods[n]) /\ pods[n].phase = "Pending"
    /\ KubeletWrites(n, [pods[n] EXCEPT !.phase = "Running"])
    /\ Calm

PodReady(n) ==
    /\ IsActive(pods[n]) /\ IsRunning(pods[n]) /\ ~pods[n].ready
    /\ KubeletWrites(n, [pods[n] EXCEPT !.ready = TRUE])
    /\ Calm

PodGone(n) ==
    /\ pods[n] # None /\ pods[n].term
    /\ KubeletWrites(n, None)
    /\ Calm

Kubelet(n) == PodRuns(n) \/ PodReady(n) \/ PodGone(n)

PodFails(n) ==
    /\ IsActive(pods[n])
    /\ Disturb("fail")
    /\ KubeletWrites(n, [pods[n] EXCEPT !.phase = "Failed", !.ready = FALSE])

\* A probe fails, or a container restarts (which an image change also causes).
PodUnready(n) ==
    /\ IsActive(pods[n]) /\ pods[n].ready
    /\ Disturb("unready")
    /\ KubeletWrites(n, [pods[n] EXCEPT !.ready = FALSE])

-----------------------------------------------------------------------------
(* Users and other controllers. *)

Evict(n) ==
    /\ IsActive(pods[n])
    /\ Disturb("evict")
    /\ \E p \in Deleted(pods[n]) : KubeletWrites(n, p)

UserMarksDelete(n) ==
    /\ IsActive(pods[n]) /\ ~pods[n].sdel
    /\ Disturb("label")
    /\ KubeletWrites(n, [pods[n] EXCEPT !.sdel = TRUE])

UserScales(r) ==
    /\ Disturb("scale")
    /\ r # iu.replicas
    /\ iu' = [iu EXCEPT !.replicas = r, !.gen = @ + 1]
    /\ UNCHANGED <<iuCache, pods, watch, cache, notes>>

UserChangesTemplate(rev) ==
    /\ Disturb("template")
    /\ rev # iu.rev
    /\ iu' = [iu EXCEPT !.rev = rev, !.gen = @ + 1]
    /\ UNCHANGED <<iuCache, pods, watch, cache, notes>>

Environment ==
    \/ \E n \in Names : \/ PodRuns(n) \/ PodReady(n) \/ PodGone(n)
                        \/ PodFails(n) \/ PodUnready(n)
                        \/ Evict(n) \/ UserMarksDelete(n)
    \/ \E r \in ReplicaChoices : UserScales(r)
    \/ \E rev \in Revs : UserChangesTemplate(rev)

-----------------------------------------------------------------------------
(* The informer. *)

\* PodEventHandler.Create, Update and Delete come down to three kinds of
\* event: a pod with a deletion timestamp goes to Delete whichever it came by.
EventKind(old, new) ==
    IF new = None \/ new.term THEN "gone"
    ELSE IF old = None THEN "created" ELSE "changed"

\* One version reaches the cache, and with it an event for the handler.
CacheApply(n) ==
    /\ watch[n] # <<>>
    /\ cache' = [cache EXCEPT ![n] = Head(watch[n])]
    /\ watch' = [watch EXCEPT ![n] = Tail(@)]
    /\ notes' = [notes EXCEPT ![n] = Append(@, EventKind(cache[n], Head(watch[n])))]
    /\ UNCHANGED <<iu, iuCache, pods>> /\ Calm

\* The watch breaks and the informer lists again: the versions in between are
\* never seen, and there is one event for each pod that the list shows changed.
Relist ==
    /\ Disturb("relist")
    /\ \E n \in Names : watch[n] # <<>>
    /\ cache' = pods
    /\ watch' = [n \in Names |-> <<>>]
    /\ notes' = [n \in Names |->
                   IF watch[n] = <<>> \/ (cache[n] = None /\ pods[n] = None) THEN notes[n]
                   ELSE Append(notes[n], EventKind(cache[n], pods[n]))]
    /\ UNCHANGED <<iu, iuCache, pods>>

\* A new controller process: synced caches, and an add event for every pod.
Reload ==
    /\ iuCache' = iu
    /\ cache' = pods
    /\ watch' = [n \in Names |-> <<>>]
    /\ notes' = [n \in Names |-> IF pods[n] = None THEN <<>>
                                 ELSE <<EventKind(None, pods[n])>>]
    /\ UNCHANGED <<iu, pods>>

\* The cache has every write and the handler has had every event.
Synced ==
    /\ iuCache = iu
    /\ \A n \in Names : watch[n] = <<>> /\ notes[n] = <<>>
=============================================================================
