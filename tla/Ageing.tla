------------------------------- MODULE Ageing -------------------------------
(***************************************************************************)
(* The passage of time: a running pod becomes available minReadySeconds    *)
(* after it became ready, and nothing happens to the pod at that moment    *)
(* that would call the controller.  A pass that leaves running pods out of *)
(* the count of the available ones therefore asks to be run again          *)
(* (DurationStore, RequeueAfter).                                          *)
(*                                                                         *)
(* One Inplaceu, whose pods all have the update revision, so that Update   *)
(* has nothing to do.  Unlike in Reconciler, the informer caches follow    *)
(* the API server at once: a change of a pod is seen, observed by the      *)
(* scale expectations and queued in one step.  What this module has that   *)
(* Reconciler leaves out is the clock, the nodes and the order of pods.    *)
(***************************************************************************)
EXTENDS PodSorts

CONSTANTS
    MinReadySeconds,  \* spec.minReadySeconds
    MaxSurge, MaxUnavailable,
    InitPods,         \* the pods at the start
    MaxReplicas,      \* the largest spec.replicas a user asks for
    Disturbances,     \* what may happen besides pods starting up
    MaxTime,          \* bound on the clock
    Budget            \* bound on the number of disturbances

ASSUME AgeingAssumption ==
    /\ MinReadySeconds \in Nat
    /\ InitPods \in [Names -> Pod \cup {None}]
    /\ MaxReplicas \in Nat /\ MaxTime \in Nat /\ Budget \in Nat
    /\ None \notin Nat

VARIABLES
    now,        \* the clock
    replicas,   \* spec.replicas
    pods,       \* the active pods of the Inplaceu
    status,     \* status.readyReplicas and status.availableReplicas
    queued,     \* whether the key is in the work queue
    timer,      \* when the delaying queue adds the key, None when it will not
    pc, job,    \* the pass of the worker
    used        \* disturbances so far

vars == <<now, replicas, pods, status, queued, timer, pc, job, used>>

U == INSTANCE ScaleUtil WITH Revs <- {Revision}

ASSUME StrategyAssumption == MaxSurge \in U!IntOrPercent /\ MaxUnavailable \in U!IntOrPercent

Counts == [ready : Nat, available : Nat]

NoCounts == [ready |-> 0, available |-> 0]

NoView == [n \in Names |-> None]

Idle == [replicas |-> 0, view |-> NoView, failed |-> FALSE]

TypeOK ==
    /\ now \in Nat
    /\ replicas \in Nat
    /\ pods \in [Names -> Pod \cup {None}]
    /\ status \in Counts
    /\ queued \in BOOLEAN
    /\ timer \in Nat \cup {None}
    /\ pc \in {"idle", "scale", "status", "finish"}
    /\ job \in [replicas : Nat, view : [Names -> Pod \cup {None}], failed : BOOLEAN]
    /\ used \in 0..Budget

-----------------------------------------------------------------------------
(* Time. *)

\* IsPodAvailable at time t.
IsPodAvailable(p, t) ==
    /\ IsRunning(p) /\ p.ready
    /\ MinReadySeconds = 0 \/ p.readyAt + MinReadySeconds < t

AvailablePods(view, t) == {n \in Members(view) : IsPodAvailable(view[n], t)}

RunningPods(view) == {n \in Members(view) : IsRunning(view[n])}

Tick ==
    /\ now < MaxTime
    /\ now' = now + 1
    /\ UNCHANGED <<replicas, pods, status, queued, timer, pc, job, used>>

\* The delaying queue hands the key over some time after it is due.
TimerFires ==
    /\ timer # None /\ timer <= now
    /\ timer' = None
    /\ queued' = TRUE
    /\ UNCHANGED <<now, replicas, pods, status, pc, job, used>>

-----------------------------------------------------------------------------
(* Pods. *)

Disturb(d) ==
    /\ d \in Disturbances /\ used < Budget
    /\ used' = used + 1

Calm == UNCHANGED used

\* A pod changes: the event reaches the cache and queues the key.
Write(n, p) ==
    /\ pods' = [pods EXCEPT ![n] = p]
    /\ queued' = TRUE
    /\ UNCHANGED <<now, replicas, status, timer, pc, job>>

Schedule(n, node) ==
    /\ pods[n] # None /\ pods[n].node = None
    /\ Write(n, [pods[n] EXCEPT !.node = node])
    /\ Calm

Start(n) ==
    /\ pods[n] # None /\ pods[n].node # None /\ pods[n].phase = "Pending"
    /\ Write(n, [pods[n] EXCEPT !.phase = "Running"])
    /\ Calm

BecomeReady(n) ==
    /\ pods[n] # None /\ IsRunning(pods[n]) /\ ~pods[n].ready
    /\ Write(n, [pods[n] EXCEPT !.ready = TRUE, !.readyAt = now])
    /\ Calm

\* A container of a ready pod restarts, or its readiness probe fails.
LoseReadiness(n) ==
    /\ pods[n] # None /\ pods[n].ready
    /\ \/ /\ Disturb("restart")
          /\ Write(n, [pods[n] EXCEPT !.ready = FALSE, !.readyAt = 0,
                                      !.restarts = @ + 1])
       \/ /\ Disturb("unready")
          /\ Write(n, [pods[n] EXCEPT !.ready = FALSE, !.readyAt = 0])

\* A pod is evicted, fails or is deleted by someone else.
Lose(n) ==
    /\ pods[n] # None
    /\ Disturb("lose")
    /\ Write(n, None)

\* A user marks a pod for deletion.
Mark(n) ==
    /\ pods[n] # None /\ ~pods[n].sdel
    /\ Disturb("mark")
    /\ Write(n, [pods[n] EXCEPT !.sdel = TRUE])

SetReplicas(k) ==
    /\ k # replicas
    /\ Disturb("scale")
    /\ replicas' = k
    /\ queued' = TRUE
    /\ UNCHANGED <<now, pods, status, timer, pc, job>>

-----------------------------------------------------------------------------
(* The pass. *)

Begin ==
    /\ pc = "idle" /\ queued
    /\ queued' = FALSE
    /\ pc' = "scale"
    /\ job' = [replicas |-> replicas, view |-> pods, failed |-> FALSE]
    /\ UNCHANGED <<now, replicas, pods, status, timer, used>>

Diffs == U!Diffs(job.replicas, job.view, Revision)

NewPod == [phase |-> "Pending", node |-> None, ready |-> FALSE, readyAt |-> 0,
           restarts |-> 0, created |-> now, rev |-> Revision, sdel |-> FALSE]

Scaled(failed) ==
    /\ pc' = "status"
    /\ job' = [job EXCEPT !.failed = failed]
    /\ UNCHANGED <<now, replicas, status, timer>>

ScaleOut ==
    /\ pc = "scale" /\ Diffs.scaleUpNum > 0
    /\ \E S \in SUBSET {n \in Names : pods[n] = None /\ job.view[n] = None} :
          /\ \/ Cardinality(S) = Diffs.scaleUpNum /\ Calm /\ Scaled(FALSE)
             \/ Cardinality(S) < Diffs.scaleUpNum /\ Disturb("apierr") /\ Scaled(TRUE)
          /\ pods' = [n \in Names |-> IF n \in S THEN NewPod ELSE pods[n]]
          /\ queued' = (queued \/ S # {})

\* deletePods: the first deletion that fails ends it.  The deletion of a pod
\* that was lost succeeds while the pod is terminating and fails once it is gone.
DeletePods(D) ==
    \E S \in SUBSET {n \in D : pods[n] # None} :
       /\ \/ (\A n \in D \ S : pods[n] = None) /\ Calm /\ Scaled(FALSE)
          \/ S # D /\ (\E n \in D : pods[n] = None) /\ Calm /\ Scaled(TRUE)
          \/ S # D /\ Disturb("apierr") /\ Scaled(TRUE)
       /\ pods' = [n \in Names |-> IF n \in S THEN None ELSE pods[n]]
       /\ queued' = (queued \/ S # {})

SpecifiedDelete == {n \in Members(job.view) : job.view[n].sdel}

\* Scale, step 4: the marked pods that are not available yet, and as many of
\* the available ones as the budget allows, in the order of the list (any).
SpecifiedDeleteChoices ==
    LET available == SpecifiedDelete \cap AvailablePods(job.view, now)
    IN  {(SpecifiedDelete \ available) \cup R : R \in
           {X \in SUBSET available :
              Cardinality(X) = U!Smaller(Diffs.deleteReadyLimit, Cardinality(available))}}

DeleteSpecified ==
    /\ pc = "scale" /\ Diffs.scaleUpNum = 0
    /\ \E D \in SpecifiedDeleteChoices : D # {} /\ DeletePods(D)

\* Scale, step 5, when step 4 deleted nothing.
ScaleIn ==
    /\ pc = "scale" /\ Diffs.scaleUpNum = 0 /\ Diffs.scaleDownNum > 0
    /\ {} \in SpecifiedDeleteChoices
    /\ \E D \in ScaleInChoices(job.view, Diffs.scaleDownNum, Diffs.deleteReadyLimit) :
          DeletePods(D)

NothingToScale ==
    /\ pc = "scale" /\ Diffs.scaleUpNum = 0 /\ Diffs.scaleDownNum = 0
    /\ {} \in SpecifiedDeleteChoices
    /\ Scaled(FALSE) /\ Calm
    /\ UNCHANGED <<pods, queued>>

\* calculateStatus, from the pods listed at the start of the pass and the
\* clock at this moment.
Calculated ==
    [ready |-> Cardinality(RunningPods(job.view)),
     available |-> Cardinality(AvailablePods(job.view, now))]

\* UpdateInplaceuSetStatus writes the status when it differs from the old one.
UpdateStatus ==
    /\ pc = "status"
    /\ status' = Calculated
    /\ job' = [Idle EXCEPT !.failed = job.failed]
    /\ pc' = "finish"
    /\ UNCHANGED <<now, replicas, pods, queued, timer, used>>

Retry ==
    /\ pc' = "idle" /\ job' = Idle
    /\ queued' = TRUE

\* A pass that returns an error is run again.
StatusFails ==
    /\ pc = "status" /\ status # Calculated
    /\ Disturb("apierr")
    /\ Retry
    /\ UNCHANGED <<now, replicas, pods, status, timer>>

\* Fault: the pass asks to be run again only while no pod is available.
RequeueAfterNone ==
    IF MinReadySeconds > 0 /\ status.available = 0 /\ status.ready > 0
    THEN MinReadySeconds ELSE 0

\* What Pop returns: the duration pushed when running pods are not available
\* yet, the only one a pass ever pushes.  The status is what the pass calculated.
RequeueAfter ==
    IF MinReadySeconds > 0 /\ status.available # status.ready
    THEN MinReadySeconds ELSE 0

\* Fault: the time to wait is counted from the wrong end.
DueBackwards == RequeueAfter - now

Due == now + RequeueAfter

\* The delaying queue keeps the earlier of two times for one key.
Earlier(t, u) == IF t = None \/ u < t THEN u ELSE t

FinishWell ==
    /\ pc = "finish" /\ ~job.failed
    /\ timer' = IF RequeueAfter > 0 THEN Earlier(timer, Due) ELSE timer
    /\ pc' = "idle" /\ job' = Idle
    /\ UNCHANGED <<now, replicas, pods, status, queued, used>>

\* With an error, the durations are dropped and the key is queued again.
FinishFailed ==
    /\ pc = "finish" /\ job.failed
    /\ Retry /\ Calm
    /\ UNCHANGED <<now, replicas, pods, status, timer>>

\* A new process lists everything and has no timers.
Crash ==
    /\ Disturb("crash")
    /\ Retry
    /\ timer' = None
    /\ UNCHANGED <<now, replicas, pods, status>>

-----------------------------------------------------------------------------
Init ==
    /\ now = 0
    /\ replicas \in 0..MaxReplicas
    /\ pods = InitPods
    /\ status = NoCounts
    /\ queued = TRUE
    /\ timer = None
    /\ pc = "idle" /\ job = Idle
    /\ used = 0

Next ==
    \/ Tick \/ TimerFires
    \/ \E n \in Names : \/ \E node \in Nodes : Schedule(n, node)
                        \/ Start(n) \/ BecomeReady(n) \/ LoseReadiness(n)
                        \/ Lose(n) \/ Mark(n)
    \/ \E k \in 0..MaxReplicas : SetReplicas(k)
    \/ Begin
    \/ ScaleOut \/ DeleteSpecified \/ ScaleIn \/ NothingToScale
    \/ UpdateStatus \/ StatusFails
    \/ FinishWell \/ FinishFailed
    \/ Crash

Spec == Init /\ [][Next]_vars

-----------------------------------------------------------------------------
(* Properties. *)

AtRest == pc = "idle" /\ ~queued

\* While no pass is running or queued, status.availableReplicas is the number
\* of pods available now, or a pass is due within minReadySeconds: no pod that
\* became available by growing older is left out for longer (the requeue of
\* Reconcile, DurationStore, IsPodAvailable).
AvailableIsFollowedUp ==
    AtRest /\ status.available # Cardinality(AvailablePods(pods, now)) =>
        timer # None /\ timer <= now + MinReadySeconds

\* The pods the pass deletes in this step.
Deleted == {n \in Names : pods[n] # None /\ pods'[n] = None}

ScalesIn == pc = "scale" /\ pc' = "status" /\ Deleted # {} /\ SpecifiedDelete = {}

\* The pods of a node that the pass listed and does not delete.
Kept(node) == OnNode(job.view, node) \ Deleted

\* A scale in evens the nodes out: if all pods listed are ready and still there,
\* none is taken from a node that is left with two pods fewer than another
\* (sameNodeRanker).
NodesStayBalanced ==
    [][ScalesIn /\ ~job'.failed
          /\ (\A n \in Members(job.view) : job.view[n].ready /\ pods[n] # None) =>
         \A a, b \in Nodes :
            (\E n \in Deleted : job.view[n].node = a) =>
                Cardinality(Kept(b)) <= Cardinality(Kept(a)) + 1]_vars

\* Of the pods of one node, a scale in keeps the running before the pending,
\* the ready before the others, and among ready ones those that have been
\* ready longest (ActivePodsWithRanks.Less).
LongestReadyStay ==
    [][ScalesIn /\ ~job'.failed =>
         \A d \in Deleted, k \in Members(job.view) \ Deleted :
            LET p == job.view[d]
                q == job.view[k]
            IN  pods[k] # None /\ p.node # None /\ p.node = q.node =>
                  /\ IsRunning(p) => IsRunning(q)
                  /\ p.ready => q.ready /\ q.readyAt <= p.readyAt]_vars
=============================================================================
