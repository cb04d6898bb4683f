---------------------------- MODULE MCReconciler ----------------------------
(***************************************************************************)
(* Instances of Reconciler for TLC.                                        *)
(***************************************************************************)
EXTENDS Reconciler, TLC

CONSTANTS n1, n2, n3, n4, r1, r2, r3

ThreeNames == {n1, n2, n3}
FourNames == {n1, n2, n3, n4}

TwoRevs == {r1, r2}
ThreeRevs == {r1, r2, r3}

\* The names are interchangeable: the controller draws them at random.
ThreeNamesSymmetry == Permutations(ThreeNames)
FourNamesSymmetry == Permutations(FourNames)

Zero == [percent |-> FALSE, value |-> 0]
One == [percent |-> FALSE, value |-> 1]
\* An odd percentage: of two replicas it rounds up to one and down to none.
Quarter == [percent |-> TRUE, value |-> 25]

AllInPlace == TwoRevs \X TwoRevs
NoneInPlace == {}
\* r2 differs from r1 in an image, r3 in more than that.
ImageOnly == {r1, r2} \X {r1, r2}
=============================================================================
