----------------------- MODULE MCVersionExpectations ------------------------
(* Two objects, three versions, the empty one and one that does not parse. *)
EXTENDS VersionExpectations

CONSTANTS o1, o2, empty, garbled

TwoObjects == {o1, o2}
ThreeVersions == 1 .. 3
NotNumbers == {empty, garbled}
=============================================================================
