------------------------------ MODULE Allocator ------------------------------
(***************************************************************************)
(* What a memory allocator promises its callers, with nothing said of how  *)
(* it finds the memory: every region it grants lies in the pool, is long   *)
(* enough, and shares no byte with another region that is still held, and  *)
(* a region stays where it is until its holder gives it back.  KMem, the   *)
(* model of kernel/memory.c, is shown to implement it.                     *)
(***************************************************************************)
EXTENDS Integers

CONSTANTS
  PoolSize,    \* words in the pool, at addresses 0 .. PoolSize - 1
  Requests,    \* the lengths callers ask for
  MaxRequest   \* a request above this one is granted with no length promised

VARIABLES
  granted,     \* pointer -> length of the region, for the pointers held
  pending      \* the set of requests not yet answered: at most one

vars == <<granted, pending>>

Overlaps(p, n, q, m) == p < q + m /\ q < p + n

Init == granted = [p \in {} |-> 0] /\ pending = {}

Request(n) ==
  /\ pending = {}
  /\ pending' = {n}
  /\ UNCHANGED granted

(* The region [p, p + g) answers the pending request.                      *)
Grant(p, g) ==
  /\ p + g <= PoolSize
  /\ p \notin DOMAIN granted
  /\ \A q \in DOMAIN granted : ~Overlaps(p, g, q, granted[q])
  /\ \E n \in pending : n <= MaxRequest => g >= n
  /\ granted' = [q \in DOMAIN granted \cup {p} |-> IF q = p THEN g ELSE granted[q]]
  /\ pending' = {}

Refuse == pending # {} /\ pending' = {} /\ UNCHANGED granted

Release(p) ==
  /\ pending = {}
  /\ p \in DOMAIN granted
  /\ granted' = [q \in DOMAIN granted \ {p} |-> granted[q]]
  /\ UNCHANGED pending

Next ==
  \/ \E n \in Requests : Request(n)
  \/ \E p \in 0 .. PoolSize : \E g \in 0 .. PoolSize : Grant(p, g)
  \/ Refuse
  \/ \E p \in DOMAIN granted : Release(p)

Spec == Init /\ [][Next]_vars
=============================================================================
