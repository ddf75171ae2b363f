------------------------------- MODULE MCKMem -------------------------------
(* KMem on a pool of a few words.  A word stands for 4 bytes: the header   *)
(* of 12 bytes is 3 words and the alignment of 8 bytes is 2.               *)
EXTENDS KMem

(* Sizes that need rounding, sizes that do not, zero, one that no block    *)
(* can hold, and one whose rounding wraps to zero.                         *)
SmallRequests == {0, 1, 4, 7, 63}

=============================================================================
