------------------------------ MODULE ScaleUtil ------------------------------
(***************************************************************************)
(* The pure decisions of the sync control of the inplaceu controller:      *)
(* internal/sync/inplaceu_scale_util.go (the counts the reconcile pass     *)
(* works towards), and the choices that inplaceu_scale.go and              *)
(* inplaceu_update.go make from them.                                      *)
(*                                                                         *)
(* A view is what one reconcile pass listed from the informer cache: for   *)
(* every pod name, the active pod of that name or None.  A revision stands *)
(* for the controller revision of one pod template; equality of revision   *)
(* hashes is equality of revisions.                                        *)
(***************************************************************************)
EXTENDS Integers, FiniteSets

CONSTANTS
    Names,            \* pod names the controller may generate
    Revs,             \* controller revisions (pod templates)
    None,             \* "no such object"
    MaxSurge,         \* spec.strategy.rollingUpdate.maxSurge
    MaxUnavailable    \* spec.strategy.rollingUpdate.maxUnavailable

\* An int-or-string field of the strategy: a count, or a percentage.
IntOrPercent == [percent : BOOLEAN, value : Nat]

ASSUME NamesAssumption == IsFiniteSet(Names)

ASSUME StrategyAssumption ==
    /\ MaxSurge \in IntOrPercent
    /\ MaxUnavailable \in IntOrPercent

\* What the controller can tell about a pod.  "Failed" stands for both
\* terminal phases; sdel is the specified-delete label; term is a deletion
\* timestamp.
Pod == [phase : {"Pending", "Running", "Failed"},
        ready : BOOLEAN,
        rev   : Revs,
        sdel  : BOOLEAN,
        term  : BOOLEAN]

ASSUME NoneAssumption == None \notin Pod /\ None \notin Revs

-----------------------------------------------------------------------------
(* Predicates on pods. *)

IsRunning(p) == p.phase = "Running"

\* IsPodAvailable with minReadySeconds = 0.
IsPodAvailable(p) == IsRunning(p) /\ p.ready

\* kubecontroller.IsPodActive
IsActive(p) == p # None /\ p.phase # "Failed" /\ ~p.term

Members(view) == {n \in Names : view[n] # None}

Updated(view, rev) == {n \in Members(view) : view[n].rev = rev}

SpecifiedDelete(view) == {n \in Members(view) : view[n].sdel}

NotRunning(view) == {n \in Members(view) : ~IsRunning(view[n])}

-----------------------------------------------------------------------------
(* The numbers of one pass. *)

Larger(i, j) == IF i >= j THEN i ELSE j
Smaller(i, j) == IF i <= j THEN i ELSE j

\* intstr.GetValueFromIntOrPercent: a percentage of total is rounded up or down.
GetValue(v, total, roundUp) ==
    IF ~v.percent THEN v.value
    ELSE (v.value * total + (IF roundUp THEN 99 ELSE 0)) \div 100

Surge(replicas) == GetValue(MaxSurge, replicas, TRUE)

Unavailable(replicas) == GetValue(MaxUnavailable, replicas, Surge(replicas) = 0)

\* Fault: the surge for pods marked for deletion is not capped by maxSurge.
UseSurgeUncapped(replicas, marked, outdated) ==
    IF Surge(replicas) > 0 THEN Larger(marked, outdated) ELSE 0

\* How far above the desired replicas the pass may go for a smooth
\* replacement of marked and outdated pods.
UseSurge(replicas, marked, outdated) ==
    IF Surge(replicas) > 0
    THEN Smaller(Larger(marked, outdated), Surge(replicas))
    ELSE 0

\* Fault: pods that are already down are not charged against the budget.
DeleteReadyLimitIgnoringDown(replicas, all, down) ==
    Larger(Unavailable(replicas) + (all - replicas), 0)

\* How many running pods the pass may delete.
DeleteReadyLimit(replicas, all, down) ==
    Larger(Unavailable(replicas) + (all - replicas) - down, 0)

\* calculateDiffsWithExpectation
Diffs(replicas, view, rev) ==
    LET all       == Cardinality(Members(view))
        marked    == Cardinality(SpecifiedDelete(view))
        down      == Cardinality(NotRunning(view) \ SpecifiedDelete(view))
        outdated  == Cardinality((Members(view) \ Updated(view, rev)) \ SpecifiedDelete(view))
        excess    == all - (replicas + UseSurge(replicas, marked, outdated))
        scaleDown == Larger(excess - marked, 0)
    IN  [scaleUpNum           |-> Larger(-excess, 0),
         scaleDownNum         |-> scaleDown,
         deleteReadyLimit     |-> IF marked > 0 \/ scaleDown > 0
                                  THEN DeleteReadyLimit(replicas, all, down)
                                  ELSE 0,
         updateNum            |-> outdated,
         updateMaxUnavailable |-> IF outdated > 0
                                  THEN Unavailable(replicas) + all - replicas
                                  ELSE 0]

-----------------------------------------------------------------------------
(* The choices of one pass.  The sort keys below the three of Rank (ready   *)
(* time, restarts, creation time, node rank) are left open: any order of    *)
(* pods of one rank is possible.                                            *)

\* ActivePods.Less and ActivePodsWithRanks.Less: pending < running, and
\* not ready < ready.
Rank(p) == CASE ~IsRunning(p)     -> 0
             [] IsPodAvailable(p) -> 2
             [] OTHER             -> 1

\* S is a prefix of W sorted by Rank.
Prefix(S, W, view) ==
    /\ S \subseteq W
    /\ \A s \in S, w \in W \ S : Rank(view[s]) <= Rank(view[w])

Prefixes(W, k, view) ==
    {S \in SUBSET W : Prefix(S, W, view) /\ Cardinality(S) = Smaller(k, Cardinality(W))}

Running(S, view) == {n \in S : IsRunning(view[n])}

\* Scale, step 4: specified-delete pods that are not available, and available
\* ones within the limit, in the order of the list (any).
SpecifiedDeleteChoices(view, d) ==
    LET marked == SpecifiedDelete(view)
        ready  == {n \in marked : IsPodAvailable(view[n])}
    IN  {(marked \ ready) \cup R : R \in
            {X \in SUBSET ready : Cardinality(X) = Smaller(d.deleteReadyLimit, Cardinality(ready))}}

\* choosePodsToDelete: only updated pods, in sorted order unless all of them go.
PodsPreparingToDelete(view, rev, d) == Prefixes(Updated(view, rev), d.scaleDownNum, view)

\* Which running pods of the chosen ones C the limit lets through: the first
\* of them, which are any when choosePodsToDelete had no reason to sort.
RunningWithinLimit(C, view, rev, d) ==
    IF Cardinality(Updated(view, rev)) > d.scaleDownNum
    THEN Prefixes(Running(C, view), d.deleteReadyLimit, view)
    ELSE {X \in SUBSET Running(C, view) :
            Cardinality(X) = Smaller(d.deleteReadyLimit, Cardinality(Running(C, view)))}

\* Scale, step 5: of the chosen pods, those not running, and running ones
\* within the limit.
ScaleInChoices(view, rev, d) ==
    {S \in SUBSET Updated(view, rev) :
        \E C \in PodsPreparingToDelete(view, rev, d) :
            \E R \in RunningWithinLimit(C, view, rev, d) :
                S = (C \ Running(C, view)) \cup R}

\* The pods waiting for the update, Update step 2.
Waiting(view, rev) ==
    {n \in Members(view) : view[n].rev # rev /\ view[n].phase # "Failed"}

\* limitUpdateIndexes: the longest prefix of the waiting pods, no longer than
\* updateNum, each of whose pods passes the two checks on updateMaxUnavailable.
UpdateChoices(view, rev, d) ==
    LET targetDown == Cardinality(NotRunning(view) \cap Updated(view, rev))
        allDown    == Cardinality(NotRunning(view))
        Allowed    == {S \in SUBSET Waiting(view, rev) :
                        /\ Prefix(S, Waiting(view, rev), view)
                        /\ Cardinality(S) <= d.updateNum
                        /\ S # {} => targetDown + Cardinality(S) <= d.updateMaxUnavailable
                        /\ Running(S, view) # {} =>
                             allDown + Cardinality(Running(S, view)) <= d.updateMaxUnavailable}
    IN  {S \in Allowed : \A X \in Allowed : Cardinality(X) <= Cardinality(S)}

\* The waiting pods that updatePod may be called on next.
NextInOrder(todo, view) ==
    {n \in todo : \A m \in todo : Rank(view[n]) <= Rank(view[m])}
=============================================================================
