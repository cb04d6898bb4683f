------------------------------ MODULE MCAgeing ------------------------------
(* Three pods on two nodes. *)
EXTENDS Ageing, TLC

CONSTANTS n1, n2, n3, a, b

ThreeNames == {n1, n2, n3}
TwoNodes == {a, b}

\* The two pods on one node start alike.
Symmetric == Permutations({n1, n2})

On(node, ready) ==
    [phase |-> "Running", node |-> node, ready |-> ready, readyAt |-> 0,
     restarts |-> 0, created |-> 0, rev |-> Revision, sdel |-> FALSE]

\* Two pods on one node have just started, the one on the other is ready.
TwoAndOne == [n \in ThreeNames |-> IF n = n3 THEN On(b, TRUE) ELSE On(a, FALSE)]

Zero == [percent |-> FALSE, value |-> 0]
One == [percent |-> FALSE, value |-> 1]
=============================================================================
