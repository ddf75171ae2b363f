---------------------------- MODULE MCHeapClients ----------------------------
(* A pool of a few words, two windows, two page tables; areas that fit, an *)
(* empty one, one whose size wraps to a small number, and one whose size   *)
(* wraps when kmalloc rounds it up.                                        *)
EXTENDS HeapClients

CONSTANTS p1, p2

MCShapes == {[area |-> 1, bar |-> {p1}], [area |-> 2, bar |-> {p1, p2}],
             [area |-> 0, bar |-> {}], [area |-> 9, bar |-> {p2}], [area |-> 7, bar |-> {p1}]}
=============================================================================
