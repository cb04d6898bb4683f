------------------------ MODULE MCScaleExpectations -------------------------
(* Two workloads, the two actions of the code, and two names. *)
EXTENDS ScaleExpectations

CONSTANTS k1, k2, n1, n2

TwoKeys == {k1, k2}
ScaleActions == {"create", "delete"}
TwoNames == {n1, n2}
=============================================================================
