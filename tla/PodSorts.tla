------------------------------ MODULE PodSorts ------------------------------
(***************************************************************************)
(* The order in which running pods are given up                            *)
(* (internal/utils/pod_sorts.go), and the choice of the pods of a scale in *)
(* (choosePodsToDelete in internal/sync/inplaceu_scale.go).                *)
(*                                                                         *)
(* A view maps every pod name to a pod or to None.  Times are natural      *)
(* numbers.  A pod that is ready has a transition time: the API server     *)
(* sets every creation time and the kubelet every transition time, so the  *)
(* zero time that afterOrZero also handles does not occur.                 *)
(***************************************************************************)
EXTENDS Integers, FiniteSets

CONSTANTS
    Names,            \* pod names
    Nodes,            \* nodes of the cluster
    None,             \* no pod; no node yet
    Revision          \* the revision of the template, which every pod here has

ASSUME PodSortsAssumption ==
    /\ IsFiniteSet(Names)
    /\ None \notin Nodes

Pod == [phase    : {"Pending", "Unknown", "Running"},
        node     : Nodes \cup {None},
        ready    : BOOLEAN,
        readyAt  : Nat,               \* since when it is ready, 0 while it is not
        restarts : Nat,               \* the largest count of a container
        created  : Nat,
        rev      : {Revision},
        sdel     : BOOLEAN]           \* the specified-delete label

ASSUME NoPodAssumption == None \notin Pod

Members(view) == {n \in Names : view[n] # None}

IsRunning(p) == p.phase = "Running"

-----------------------------------------------------------------------------
(* ActivePodsWithRanks.Less *)

Bit(b) == IF b THEN 1 ELSE 0

Ordinal(phase) ==
    CASE phase = "Pending" -> 0
      [] phase = "Unknown" -> 1
      [] phase = "Running" -> 2

\* Fault: the pod that has been ready longest goes first.
KeysOldestFirst(p, r) ==
    <<Bit(p.node # None), Ordinal(p.phase), Bit(p.ready), -r,
      IF p.ready THEN p.readyAt ELSE 0, -p.restarts, -p.created>>

\* What Less compares of a pod of node rank r, the most important key first:
\* a smaller key goes first.  The AvailableFunc of the caller is IsRunning,
\* which the key before it decides.  Only two ready pods are told apart by the
\* time they became ready.
Keys(p, r) ==
    <<Bit(p.node # None), Ordinal(p.phase), Bit(p.ready), -r,
      IF p.ready THEN -p.readyAt ELSE 0, -p.restarts, -p.created>>

Lexicographic(a, b) ==
    \E i \in 1..7 : a[i] < b[i] /\ \A j \in 1..(i - 1) : a[j] = b[j]

Less(p, rp, q, rq) == Lexicographic(Keys(p, rp), Keys(q, rq))

-----------------------------------------------------------------------------
(* sameNodeRanker *)

OnNode(view, node) == {n \in Members(view) : view[n].node = node}

\* Fault: every pod has the rank of a pod alone on its node.
IsRankingFlat(rank, view) == \A n \in Members(view) : rank[n] = 0

\* The ranks NewSameNodeRanker may give: the pods of a node in an order that
\* Less allows, counted down to 0 for the last of them.
IsRanking(rank, view) ==
    /\ \A n \in OnNode(view, None) : rank[n] = 0
    /\ \A node \in Nodes :
         LET here == OnNode(view, node)
         IN  /\ {rank[n] : n \in here} = 0..(Cardinality(here) - 1)
             /\ \A m, n \in here : Less(view[m], 0, view[n], 0) => rank[m] > rank[n]

Rankings(view) ==
    {rank \in [Members(view) -> 0..Cardinality(Names)] : IsRanking(rank, view)}

-----------------------------------------------------------------------------
(* choosePodsToDelete *)

\* S may come before the rest of W when W is sorted.
SortedFirst(S, W, view, rank) ==
    \A s \in S, w \in W \ S : ~Less(view[w], rank[w], view[s], rank[s])

Running(S, view) == {n \in S : IsRunning(view[n])}

\* Of the first k pods, those that are not running and as many of the running
\* ones as limit says, in the order of the list.  A list that is chosen whole
\* is not sorted: its order is open.
ScaleInChoices(view, k, limit) ==
    LET W == Members(view)
        Within(C, R) == /\ R \subseteq Running(C, view)
                        /\ \/ R = Running(C, view) /\ Cardinality(R) <= limit
                           \/ R # Running(C, view) /\ Cardinality(R) = limit
    IN  {S \in SUBSET W :
           \E C \in SUBSET W, rank \in Rankings(view) :
              /\ Cardinality(C) = k
              /\ k < Cardinality(W) => SortedFirst(C, W, view, rank)
              /\ \E R \in SUBSET W :
                    /\ Within(C, R)
                    /\ k < Cardinality(W) => SortedFirst(R, Running(C, view), view, rank)
                    /\ S = (C \ Running(C, view)) \cup R}
=============================================================================
