----------------------------- MODULE MCOwnership -----------------------------
(* Two Inplaceus whose selectors overlap: A selects "a", B selects both. *)
EXTENDS Ownership

CONSTANTS A, B, p1, p2

AandB == {A, B}
TwoPods == {p1, p2}
TwoLabels == {"a", "b"}

Overlapping == {<<A, "a">>, <<B, "a">>, <<B, "b">>}
OwnLabel == [o \in AandB |-> IF o = A THEN "a" ELSE "b"]

PodOf(o) == [ctrl |-> o, plain |-> {}, label |-> OwnLabel[o],
             ended |-> FALSE, term |-> FALSE]

OneEach == [p \in TwoPods |-> IF p = p1 THEN PodOf(A) ELSE PodOf(B)]
\* B owns the pod that A controls, too.
Shared == [OneEach EXCEPT ![p1].plain = {B}]
OneOfTwo == [p \in TwoPods |-> IF p = p1 THEN PodOf(A) ELSE None]
=============================================================================
