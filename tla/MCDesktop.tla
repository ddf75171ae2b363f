---------------------------- MODULE MCDesktop ----------------------------
(* A small window and one that also covers what is beside it.              *)
EXTENDS Desktop

CONSTANTS p1, p2

MCShapes == {{p1}, {p1, p2}}
MCItems == [i \in 0 .. MaxMenus - 1 |-> 1]
=============================================================================
