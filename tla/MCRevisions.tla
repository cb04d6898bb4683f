----------------------------- MODULE MCRevisions -----------------------------
(* Small instances of Revisions: two containers with two images each, and   *)
(* three templates of which the first and the third collide.                *)
EXTENDS Revisions

CONSTANTS c1, c2, p1, x, y, z, w

TwoContainers == {c1, c2}
TwoImages == {1, 2}

Template(i, j) == [c \in TwoContainers |-> IF c = c1 THEN i ELSE j]
A == Template(1, 1)
B == Template(1, 2)
C == Template(2, 1)

ThreeTemplates == {A, B, C}
OnePod == {p1}

FourNames == {x, y, z, w}

\* A and C hash to the same name as long as there was no collision.
Colliding ==
    [h \in Templates \X (0 .. 1) |->
        CASE h = <<A, 0>> -> x [] h = <<C, 0>> -> x
          [] h[1] = B     -> y
          [] h = <<A, 1>> -> w [] h = <<C, 1>> -> z]

InOrder == [n \in FourNames |-> CASE n = x -> 1 [] n = y -> 2 [] n = z -> 3 [] n = w -> 4]
=============================================================================
