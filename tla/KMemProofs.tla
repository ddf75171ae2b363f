----------------------------- MODULE KMemProofs -----------------------------
(***************************************************************************)
(* Proofs, for every pool, header and alignment, of the safety properties  *)
(* of KMem.                                                                *)
(***************************************************************************)
EXTENDS KMem, TLAPS

(* What a caller was given is at least what it asked for, unless rounding  *)
(* the request wrapped.                                                    *)
GrantedEnough ==
  \A p \in DOMAIN held :
    held[p] <= MaxRequest => block[p - HeaderSize].size >= held[p]

(* The inductive invariant.                                                *)
IInv == TypeOK /\ Tiled /\ HeldIsUsed /\ GrantedEnough /\ FirstFit

-----------------------------------------------------------------------------
(* Facts of arithmetic.                                                    *)

(* RoundUp, the rounding of memory.c:31, yields a size.                    *)
LEMMA RoundUpType ==
  ASSUME NEW n \in Nat
  PROVE  RoundUp(n) \in Nat
<1> DEFINE m == (n + Align - 1) % WordMod
<1>1. m \in Nat
  BY ConstantsAssumption
<1>2. m % Align \in Nat /\ m % Align <= m
  BY <1>1, ConstantsAssumption
<1> QED
  BY <1>1, <1>2 DEF RoundUp

(* A request that does not wrap is rounded up, never down.                 *)
LEMMA RoundUpEnough ==
  ASSUME NEW n \in Nat, n <= MaxRequest
  PROVE  RoundUp(n) >= n
<1> DEFINE m == (n + Align - 1) % WordMod
<1>1. m = n + Align - 1
  BY ConstantsAssumption DEF MaxRequest
<1>2. m \in Nat /\ m % Align \in 0 .. Align - 1
  BY <1>1, ConstantsAssumption
<1> QED
  BY <1>1, <1>2, ConstantsAssumption DEF RoundUp

-----------------------------------------------------------------------------
(* The invariant holds initially and every step keeps it.                  *)

(* What Tiled and TypeOK say of the blocks, in terms of numbers alone.     *)
LEMMA BlockFacts ==
  ASSUME TypeOK, Tiled
  PROVE  /\ \A h \in Heads :
              /\ h \in Nat /\ h < PoolSize
              /\ block[h].size \in Nat /\ block[h].used \in BOOLEAN
              /\ block[h].next = h + HeaderSize + block[h].size
              /\ block[h].next \in Heads \/ block[h].next = PoolSize
              /\ block[h].next \in Nat /\ block[h].next <= PoolSize
              /\ h < block[h].next
         /\ \A g, h \in Heads : g < h => block[g].next <= h
<1>1. \A h \in Heads : /\ h \in 0 .. PoolSize - 1
                       /\ block[h] \in Header
  BY DEF TypeOK
<1>2. \A h \in Heads : /\ block[h].size \in Nat /\ block[h].used \in BOOLEAN
                       /\ block[h].next \in 0 .. PoolSize
  BY <1>1 DEF Header
<1>3. \A h \in Heads : /\ block[h].next = h + HeaderSize + block[h].size
                       /\ block[h].next \in Heads \/ block[h].next = PoolSize
  BY DEF Tiled, Null
<1>4. \A g, h \in Heads : g < h => block[g].next <= h
  BY DEF Tiled
<1> HIDE DEF Heads
<1> QED
  BY <1>1, <1>2, <1>3, <1>4, ConstantsAssumption

(* Before memory_init the list is empty and nobody holds anything.         *)
LEMMA InitIInv == Init => IInv
<1> SUFFICES ASSUME Init PROVE IInv
  OBVIOUS
<1> USE ConstantsAssumption DEF Init, Heads, Null
<1>1. TypeOK
  BY DEF TypeOK, Header
<1>2. Tiled
  BY DEF Tiled
<1>3. HeldIsUsed
  BY DEF HeldIsUsed
<1>4. GrantedEnough /\ FirstFit
  BY DEF GrantedEnough, FirstFit
<1> QED
  BY <1>1, <1>2, <1>3, <1>4 DEF IInv

(* memory_init makes a list of one free block that covers the pool.        *)
LEMMA MemoryInitIInv == IInv /\ MemoryInit => IInv'
<1> SUFFICES ASSUME IInv, MemoryInit PROVE IInv'
  OBVIOUS
<1> USE ConstantsAssumption DEF IInv, MemoryInit, Heads, Null, Payload
<1>1. TypeOK'
  <2>1. block' \in [{0} -> Header]
    BY DEF Header
  <2> QED
    BY <2>1 DEF TypeOK, Tiled
<1>2. Tiled'
  BY DEF Tiled
<1>3. HeldIsUsed'
  BY DEF HeldIsUsed, Tiled, TypeOK
<1>4. DOMAIN held = {}
  BY DEF HeldIsUsed, Tiled, TypeOK
<1>5. GrantedEnough' /\ FirstFit'
  BY <1>4 DEF GrantedEnough, FirstFit
<1> QED
  BY <1>1, <1>2, <1>3, <1>5

(* The call of kmalloc starts at the head of the list, before every block. *)
LEMMA KmallocCallIInv ==
  ASSUME IInv, NEW n \in Requests, KmallocCall(n)
  PROVE  IInv'
<1> USE ConstantsAssumption DEF IInv, KmallocCall, Heads, Null, Payload
<1>1. TypeOK'
  BY DEF TypeOK, Tiled
<1>2. Tiled' /\ HeldIsUsed' /\ GrantedEnough'
  BY DEF Tiled, HeldIsUsed, GrantedEnough
<1>3. FirstFit'
  BY DEF FirstFit, TypeOK, Tiled
<1> QED
  BY <1>1, <1>2, <1>3

(* A block the walk passes is unfit, and no block lies between it and the  *)
(* next one the walk looks at.                                             *)
LEMMA ScanSkipIInv == IInv /\ ScanSkip => IInv'
<1> SUFFICES ASSUME IInv, ScanSkip PROVE IInv'
  OBVIOUS
<1> USE ConstantsAssumption DEF IInv, ScanSkip, Heads, Null, Payload
<1>1. TypeOK'
  BY DEF TypeOK, Tiled
<1>2. Tiled' /\ HeldIsUsed' /\ GrantedEnough'
  BY DEF Tiled, HeldIsUsed, GrantedEnough
<1>3. FirstFit'
  <2> SUFFICES ASSUME NEW b \in Heads, b < current'
               PROVE  block[b].used \/ block[b].size < RoundUp(asked)
    BY DEF FirstFit
  <2>1. b \in Nat /\ current \in Heads /\ current \in Nat
    BY DEF TypeOK
  <2>2. current < b => current' <= b
    BY <2>1 DEF Tiled
  <2>3. current' \in Nat
    BY <2>1 DEF TypeOK, Tiled
  <2>4. b <= current
    BY <2>1, <2>2, <2>3
  <2> QED
    BY <2>1, <2>4, BlockFacts, RoundUpType DEF FirstFit, Fits, TypeOK
<1> QED
  BY <1>1, <1>2, <1>3

(* Ending a walk, of either loop, changes no block.                        *)
LEMMA ScanFailIInv == IInv /\ ScanFail => IInv'
<1> QED
  BY DEF IInv, ScanFail, TypeOK, Tiled, HeldIsUsed, GrantedEnough, FirstFit,
         Heads, Payload

LEMMA MergeDoneIInv == IInv /\ MergeDone => IInv'
<1> QED
  BY DEF IInv, MergeDone, TypeOK, Tiled, HeldIsUsed, GrantedEnough, FirstFit,
         Heads, Payload

LEMMA MergeSkipIInv == IInv /\ MergeSkip => IInv'
<1> QED
  BY DEF IInv, MergeSkip, TypeOK, Tiled, HeldIsUsed, GrantedEnough, FirstFit,
         Heads, Payload, Null

(* Taking the whole block marks it used and hands out its payload, which   *)
(* is as long as the request rounded up.                                   *)
LEMMA TakeWholeIInv ==
  ASSUME IInv, ScanTake, ~CanSplit(current, RoundUp(asked))
  PROVE  IInv'
<1> USE ConstantsAssumption DEF IInv, Heads, Null, Payload
<1> DEFINE b == current
           n == RoundUp(asked)
<1>1. /\ b \in Heads /\ asked \in Nat /\ n \in Nat
      /\ block[b].size >= n /\ ~block[b].used
      /\ block' = [block EXCEPT ![b].used = TRUE]
      /\ held' = [p \in DOMAIN held \cup {b + HeaderSize} |->
                    IF p = b + HeaderSize THEN asked ELSE held[p]]
      /\ pc' = "idle" /\ asked' = 0 /\ current' = Null /\ free_list' = free_list
  BY RoundUpType DEF ScanTake, TypeOK, Fits
<1> HIDE DEF b, n
<1>2. TypeOK'
  <2>1. block' \in [Heads -> Header]
    BY <1>1 DEF TypeOK, Header
  <2>2. held' \in [DOMAIN held' -> Nat]
    BY <1>1 DEF TypeOK
  <2> QED
    BY <1>1, <2>1, <2>2 DEF TypeOK
<1>3. Tiled'
  <2>1. /\ Heads' = Heads
        /\ \A h \in Heads : /\ block'[h].size = block[h].size
                            /\ block'[h].next = block[h].next
    BY <1>1 DEF TypeOK, Header
  <2> QED
    BY <1>1, <2>1 DEF Tiled
<1>4. HeldIsUsed'
  BY <1>1 DEF HeldIsUsed, TypeOK, Header
<1>5. GrantedEnough'
  BY <1>1, RoundUpEnough DEF GrantedEnough, HeldIsUsed, TypeOK, Header, n
<1>6. FirstFit'
  BY <1>1 DEF FirstFit
<1> QED
  BY <1>2, <1>3, <1>4, <1>5, <1>6

(* Splitting cuts the block to the request and makes the rest a free block *)
(* between it and what followed it.                                        *)
LEMMA TakeSplitIInv ==
  ASSUME IInv, ScanTake, CanSplit(current, RoundUp(asked))
  PROVE  IInv'
<1> USE ConstantsAssumption DEF IInv, Heads, Null, Payload
<1> DEFINE b == current
           n == RoundUp(asked)
           rest == b + HeaderSize + n
<1>1. /\ b \in Heads /\ b \in Nat /\ asked \in Nat /\ n \in Nat
      /\ ~block[b].used /\ block[b].size \in Nat
      /\ block[b].size >= n + HeaderSize + Align
      /\ block' = SplitAt(b, n)
      /\ held' = [p \in DOMAIN held \cup {b + HeaderSize} |->
                    IF p = b + HeaderSize THEN asked ELSE held[p]]
      /\ pc' = "idle" /\ asked' = 0 /\ current' = Null /\ free_list' = free_list
  BY RoundUpType DEF ScanTake, TypeOK, Fits, CanSplit, Header
<1>2. asked <= MaxRequest => n >= asked
  BY <1>1, RoundUpEnough
<1> HIDE DEF b, n
<1>3. /\ rest \in Nat /\ b < rest /\ rest < block[b].next
      /\ block[b].next <= PoolSize
      /\ rest \notin Heads
  BY <1>1, BlockFacts
<1>4. /\ Heads' = Heads \cup {rest}
      /\ block'[b] = [size |-> n, used |-> TRUE, next |-> rest]
      /\ block'[rest] = [size |-> block[b].size - n - HeaderSize,
                         used |-> FALSE, next |-> block[b].next]
      /\ \A h \in Heads : h # b => block'[h] = block[h]
  BY <1>1, <1>3 DEF SplitAt
<1> HIDE DEF rest
<1>5. TypeOK'
  <2>1. \A h \in Heads' : block'[h] \in Header
    <3>0. rest \in 0 .. PoolSize
      BY <1>1, <1>3, BlockFacts
    <3>1. block'[b] \in Header
      BY <1>1, <1>4, <3>0 DEF Header
    <3>2. /\ block[b].size - n - HeaderSize \in Nat
          /\ block[b].next \in 0 .. PoolSize
      BY <1>1, BlockFacts
    <3>3. block'[rest] \in Header
      BY <1>4, <3>2 DEF Header
    <3>4. \A h \in Heads : h # b => block'[h] \in Header
      BY <1>4 DEF TypeOK
    <3> QED
      BY <1>4, <3>1, <3>3, <3>4
  <2>2. block' \in [Heads' -> Header]
    BY <1>1, <2>1 DEF SplitAt, rest
  <2>3. held' \in [DOMAIN held' -> Nat]
    BY <1>1 DEF TypeOK
  <2>4. Heads' \subseteq 0 .. PoolSize - 1
    <3>1. rest \in 0 .. PoolSize - 1
      BY <1>1, <1>3, BlockFacts
    <3> QED
      BY <3>1, <1>4 DEF TypeOK
  <2> QED
    BY <1>1, <2>2, <2>3, <2>4 DEF TypeOK
<1>6. Tiled'
  <2>1. \A h \in Heads' :
          /\ block'[h].next = h + HeaderSize + block'[h].size
          /\ block'[h].next \in Heads' \cup {Null}
    BY <1>1, <1>3, <1>4, BlockFacts DEF rest
  <2>2. ASSUME NEW g \in Heads', NEW h \in Heads', g < h
        PROVE  block'[g].next <= h
    <3>1. CASE g = b
      BY <3>1, <2>2, <1>1, <1>3, <1>4, BlockFacts
    <3>2. CASE g = rest
      BY <3>2, <2>2, <1>1, <1>3, <1>4, BlockFacts
    <3>3. CASE g \in Heads /\ g # b
      BY <3>3, <2>2, <1>1, <1>3, <1>4, BlockFacts
    <3> QED
      BY <3>1, <3>2, <3>3, <1>4
  <2>3. (free_list' = 0) = (0 \in Heads') /\ (free_list' = Null => Heads' = {})
    BY <1>1, <1>3, <1>4 DEF Tiled, TypeOK
  <2> QED
    BY <2>1, <2>2, <2>3 DEF Tiled
<1>7. HeldIsUsed'
  BY <1>1, <1>3, <1>4 DEF HeldIsUsed, TypeOK, Header
<1>8. GrantedEnough'
  BY <1>1, <1>2, <1>3, <1>4 DEF GrantedEnough, HeldIsUsed, TypeOK, Header
<1>9. FirstFit'
  BY <1>1 DEF FirstFit
<1> QED
  BY <1>5, <1>6, <1>7, <1>8, <1>9

(* A pointer somebody holds has its block right in front of it; giving it  *)
(* back only unmarks that block.                                           *)
LEMMA KfreeCallIInv ==
  ASSUME IInv, NEW p \in DOMAIN held, KfreeCall(p)
  PROVE  IInv'
<1> USE ConstantsAssumption DEF IInv, Heads, Null, Payload
<1> DEFINE b == p - HeaderSize
<1>1. /\ b \in Heads /\ p = b + HeaderSize /\ b \in Nat
      /\ block' = [block EXCEPT ![b].used = FALSE]
      /\ held' = [q \in DOMAIN held \ {p} |-> held[q]]
      /\ pc' = "merge" /\ asked' = asked /\ current' = free_list
      /\ free_list' = free_list
  BY DEF KfreeCall, HeldIsUsed, TypeOK
<1> HIDE DEF b
<1>2. /\ Heads' = Heads
      /\ \A h \in Heads : /\ block'[h].size = block[h].size
                          /\ block'[h].next = block[h].next
                          /\ block'[h].used = (block[h].used /\ h # b)
  BY <1>1 DEF TypeOK, Header
<1>3. TypeOK'
  <2>1. block' \in [Heads' -> Header]
    <3>1. block \in [Heads -> Header] /\ b \in Heads
      BY <1>1 DEF TypeOK
    <3>2. [block[b] EXCEPT !.used = FALSE] \in Header
      BY <3>1 DEF Header
    <3>3. [block EXCEPT ![b] = [block[b] EXCEPT !.used = FALSE]] \in [Heads -> Header]
      BY <3>1, <3>2
    <3>4. Heads' = Heads
      BY <1>2
    <3> QED
      BY <1>1, <3>3, <3>4
  <2>2. held' \in [DOMAIN held' -> Nat]
    BY <1>1 DEF TypeOK
  <2> QED
    BY <1>1, <1>2, <2>1, <2>2 DEF TypeOK, Tiled
<1>4. Tiled'
  BY <1>1, <1>2 DEF Tiled
<1>5. HeldIsUsed'
  BY <1>1, <1>2 DEF HeldIsUsed, TypeOK
<1>6. GrantedEnough'
  BY <1>1, <1>2 DEF GrantedEnough, HeldIsUsed, TypeOK
<1>7. FirstFit'
  BY <1>1 DEF FirstFit
<1> QED
  BY <1>3, <1>4, <1>5, <1>6, <1>7

(* A joined neighbour was free, so nobody holds it, and the joined block   *)
(* ends where the neighbour did.                                           *)
LEMMA MergeJoinIInv == IInv /\ MergeJoin => IInv'
<1> SUFFICES ASSUME IInv, MergeJoin PROVE IInv'
  OBVIOUS
<1> USE ConstantsAssumption DEF IInv, Heads, Null, Payload
<1> DEFINE b == current
           n == block[b].next
<1>1. /\ b \in Heads /\ b \in Nat /\ n \in Heads /\ n \in Nat /\ b < n
      /\ ~block[b].used /\ ~block[n].used
      /\ block' = [h \in Heads \ {n} |->
                     IF h = b
                       THEN [size |-> block[h].size + HeaderSize + block[n].size,
                             used |-> FALSE, next |-> block[n].next]
                       ELSE block[h]]
      /\ current' = block[n].next
      /\ UNCHANGED <<free_list, pc, asked, held>>
      /\ pc = "merge"
  BY DEF MergeJoin, Joined, Mergeable, TypeOK, Tiled, Header
<1>2. block[b].next = n
  OBVIOUS
<1> HIDE DEF b, n
<1>3. /\ Heads' = Heads \ {n}
      /\ block'[b] = [size |-> block[b].size + HeaderSize + block[n].size,
                      used |-> FALSE, next |-> block[n].next]
      /\ \A h \in Heads \ {n} : h # b => block'[h] = block[h]
  BY <1>1
<1>4. \A h \in Heads \ {n} : h # b => block[h].next # n
  BY <1>1, <1>2, BlockFacts
<1>5. TypeOK'
  <2>1. \A h \in Heads' : block'[h] \in Header
    BY <1>1, <1>3 DEF TypeOK, Header
  <2>2. block' \in [Heads' -> Header]
    BY <1>1, <2>1
  <2>3. current' \in Heads' \cup {Null}
    BY <1>1, <1>3, SMTT(60) DEF Tiled, TypeOK, Header
  <2> QED
    BY <1>1, <1>3, <2>2, <2>3 DEF TypeOK
<1>6. Tiled'
  <2>1. \A h \in Heads' :
          /\ block'[h].next = h + HeaderSize + block'[h].size
          /\ block'[h].next \in Heads' \cup {Null}
    BY <1>1, <1>2, <1>3, <1>4, BlockFacts
  <2>2. ASSUME NEW g \in Heads', NEW h \in Heads', g < h
        PROVE  block'[g].next <= h
    <3>1. CASE g = b
      BY <3>1, <2>2, <1>1, <1>2, <1>3, BlockFacts
    <3>2. CASE g # b
      BY <3>2, <2>2, <1>1, <1>3 DEF Tiled
    <3> QED
      BY <3>1, <3>2
  <2>3. (free_list' = 0) = (0 \in Heads') /\ (free_list' = Null => Heads' = {})
    BY <1>1, <1>3, SMTT(60) DEF Tiled, TypeOK
  <2> QED
    BY <2>1, <2>2, <2>3 DEF Tiled
<1>7. HeldIsUsed'
  BY <1>1, <1>3 DEF HeldIsUsed, TypeOK, Header
<1>8. GrantedEnough'
  BY <1>1, <1>3 DEF GrantedEnough, HeldIsUsed, TypeOK, Header
<1>9. FirstFit'
  BY <1>1 DEF FirstFit
<1> QED
  BY <1>5, <1>6, <1>7, <1>8, <1>9

LEMMA NextIInv == IInv /\ [Next]_vars => IInv'
<1> SUFFICES ASSUME IInv, [Next]_vars PROVE IInv'
  OBVIOUS
<1>1. CASE MemoryInit
  BY <1>1, MemoryInitIInv
<1>2. CASE \E n \in Requests : KmallocCall(n)
  BY <1>2, KmallocCallIInv
<1>3. CASE \E p \in DOMAIN held : KfreeCall(p)
  BY <1>3, KfreeCallIInv
<1>4. CASE ScanTake
  BY <1>4, TakeWholeIInv, TakeSplitIInv
<1>5. CASE ScanSkip
  BY <1>5, ScanSkipIInv
<1>6. CASE ScanFail
  BY <1>6, ScanFailIInv
<1>7. CASE MergeJoin
  BY <1>7, MergeJoinIInv
<1>8. CASE MergeSkip
  BY <1>8, MergeSkipIInv
<1>9. CASE MergeDone
  BY <1>9, MergeDoneIInv
<1>10. CASE UNCHANGED vars
  BY <1>10 DEF vars, IInv, TypeOK, Tiled, HeldIsUsed, GrantedEnough, FirstFit,
               Heads
<1> QED
  BY <1>1, <1>2, <1>3, <1>4, <1>5, <1>6, <1>7, <1>8, <1>9, <1>10
     DEF Next, Calls, Loops, KmallocZero, KfreeNull

-----------------------------------------------------------------------------
(* The theorems.                                                           *)

(* Every reachable state of the heap of memory.c satisfies the invariant.  *)
THEOREM Invariance == Spec => []IInv
<1> QED
  BY InitIInv, NextIInv, PTL DEF Spec

(* The list, the cursor and the held pointers of memory.c keep their types *)
(* whatever is allocated and freed.                                        *)
THEOREM TypeCorrect == Spec => []TypeOK
<1>1. IInv => TypeOK
  BY DEF IInv
<1> QED
  BY <1>1, Invariance, PTL

(* Splits and merges keep the blocks tiling the pool.                      *)
THEOREM TiledAlways == Spec => []Tiled
<1>1. IInv => Tiled
  BY DEF IInv
<1> QED
  BY <1>1, Invariance, PTL

(* The used blocks are exactly those in front of a held pointer.           *)
THEOREM HeldIsUsedAlways == Spec => []HeldIsUsed
<1>1. IInv => HeldIsUsed
  BY DEF IInv
<1> QED
  BY <1>1, Invariance, PTL

(* kmalloc takes the first block that fits, and refuses only when none of  *)
(* the list does.                                                          *)
THEOREM FirstFitAlways == Spec => []FirstFit
<1>1. IInv => FirstFit
  BY DEF IInv
<1> QED
  BY <1>1, Invariance, PTL

(* No two callers share a byte of the pool, and none reaches past its end. *)
THEOREM NoOverlap == Spec => []HeldDisjoint
<1>1. IInv => HeldDisjoint
  <2> SUFFICES ASSUME IInv, NEW p \in DOMAIN held, held[p] <= MaxRequest
               PROVE  /\ p + held[p] <= PoolSize
                      /\ \A q \in DOMAIN held : p < q => p + held[p] <= q - HeaderSize
    BY DEF HeldDisjoint
  <2> USE ConstantsAssumption
  <2>1. /\ p - HeaderSize \in Heads /\ p \in Int
        /\ block[p - HeaderSize].size >= held[p] /\ held[p] \in Nat
    BY BlockFacts DEF IInv, HeldIsUsed, GrantedEnough, TypeOK, Payload
  <2>2. p + held[p] <= PoolSize
    BY <2>1, BlockFacts DEF IInv
  <2>3. ASSUME NEW q \in DOMAIN held, p < q
        PROVE  p + held[p] <= q - HeaderSize
    <3>1. q - HeaderSize \in Heads /\ q \in Int
      BY BlockFacts DEF IInv, HeldIsUsed, Payload
    <3>2. block[p - HeaderSize].next <= q - HeaderSize
      BY <2>1, <2>3, <3>1, BlockFacts DEF IInv
    <3> QED
      BY <2>1, <3>1, <3>2, BlockFacts DEF IInv
  <2> QED
    BY <2>2, <2>3
<1> QED
  BY <1>1, Invariance, PTL

-----------------------------------------------------------------------------
(* What a step may do to the blocks that stay.                             *)

(* Headers that survive a step, and what became of those that change.      *)
StaysPut ==
  \A p \in DOMAIN held \cap DOMAIN held' :
    /\ p - HeaderSize \in DOMAIN block'
    /\ block'[p - HeaderSize] = block[p - HeaderSize]

(* The block kmalloc takes was free, so no pointer already held points     *)
(* into it.                                                                *)
LEMMA ScanTakeStaysPut == IInv /\ ScanTake => StaysPut
<1> SUFFICES ASSUME IInv, ScanTake, NEW p \in DOMAIN held
             PROVE  /\ p - HeaderSize \in DOMAIN block'
                    /\ block'[p - HeaderSize] = block[p - HeaderSize]
  BY DEF StaysPut
<1> USE ConstantsAssumption
<1>1. /\ p - HeaderSize \in Heads /\ block[p - HeaderSize].used
      /\ p - HeaderSize \in Nat
  BY BlockFacts DEF IInv, HeldIsUsed, Payload
<1>2. current \in Heads /\ ~block[current].used
  BY DEF IInv, ScanTake, TypeOK, Fits
<1>3. p - HeaderSize # current
  BY <1>1, <1>2
<1>4. CASE CanSplit(current, RoundUp(asked))
  <2>1. block' = SplitAt(current, RoundUp(asked))
    BY <1>4 DEF ScanTake
  <2>2. current + HeaderSize + RoundUp(asked) \notin Heads
    <3>1. RoundUp(asked) \in Nat
      BY RoundUpType DEF IInv, TypeOK
    <3> QED
      BY <1>2, <1>4, <3>1, BlockFacts DEF IInv, CanSplit
  <2> QED
    BY <1>1, <1>3, <2>1, <2>2 DEF SplitAt, Heads
<1>5. CASE ~CanSplit(current, RoundUp(asked))
  BY <1>1, <1>3, <1>5 DEF ScanTake, Heads, IInv, TypeOK
<1> QED
  BY <1>4, <1>5

(* The neighbour the merge pass absorbs was free.                          *)
LEMMA MergeJoinStaysPut == IInv /\ MergeJoin => StaysPut
<1> SUFFICES ASSUME IInv, MergeJoin, NEW p \in DOMAIN held
             PROVE  /\ p - HeaderSize \in DOMAIN block'
                    /\ block'[p - HeaderSize] = block[p - HeaderSize]
  BY DEF StaysPut
<1>1. p - HeaderSize \in Heads /\ block[p - HeaderSize].used
  BY BlockFacts, ConstantsAssumption DEF IInv, HeldIsUsed, Payload
<1>2. p - HeaderSize # current /\ p - HeaderSize # block[current].next
  BY <1>1 DEF MergeJoin, Mergeable
<1> QED
  BY <1>1, <1>2 DEF MergeJoin, Joined, Heads

LEMMA KfreeCallStaysPut ==
  ASSUME IInv, NEW p \in DOMAIN held, KfreeCall(p)
  PROVE  StaysPut
<1> SUFFICES ASSUME NEW q \in DOMAIN held, q # p
             PROVE  /\ q - HeaderSize \in DOMAIN block'
                    /\ block'[q - HeaderSize] = block[q - HeaderSize]
  BY DEF StaysPut, KfreeCall
<1>1. /\ q - HeaderSize \in Heads /\ p - HeaderSize \in Heads
      /\ q - HeaderSize # p - HeaderSize
  BY BlockFacts, ConstantsAssumption DEF IInv, HeldIsUsed, Payload
<1> QED
  BY <1>1 DEF KfreeCall, Heads

LEMMA NextStaysPut == IInv /\ [Next]_vars => StaysPut
<1> SUFFICES ASSUME IInv, [Next]_vars PROVE StaysPut
  OBVIOUS
<1>1. CASE MemoryInit
  BY <1>1 DEF MemoryInit, StaysPut, IInv, Tiled, HeldIsUsed
<1>2. CASE \E p \in DOMAIN held : KfreeCall(p)
  BY <1>2, KfreeCallStaysPut
<1>3. CASE ScanTake
  BY <1>3, ScanTakeStaysPut
<1>4. CASE MergeJoin
  BY <1>4, MergeJoinStaysPut
<1>5. CASE UNCHANGED <<block, held>>
  <2>1. \A p \in DOMAIN held : p - HeaderSize \in Heads
    BY BlockFacts, ConstantsAssumption DEF IInv, HeldIsUsed, Payload
  <2> QED
    BY <1>5, <2>1 DEF StaysPut, Heads
<1> QED
  BY <1>1, <1>2, <1>3, <1>4, <1>5
     DEF Next, Calls, Loops, KmallocZero, KfreeNull, KmallocCall, ScanSkip,
         ScanFail, MergeSkip, MergeDone, vars

(* No call moves, resizes or relinks a block that a caller goes on holding.*)
THEOREM HeldStaysPutAlways == Spec => HeldStaysPut
<1>1. IInv /\ [Next]_vars => StaysPut
  BY NextStaysPut
<1>2. StaysPut <=> \A p \in DOMAIN held \cap DOMAIN held' :
                     /\ p - HeaderSize \in DOMAIN block'
                     /\ block'[p - HeaderSize] = block[p - HeaderSize]
  BY DEF StaysPut
<1> QED
  BY <1>1, <1>2, Invariance, PTL DEF Spec, HeldStaysPut

-----------------------------------------------------------------------------
(* Free memory stays free until it is handed out.                          *)

FreeKept ==
  \A b \in Heads :
    (~block[b].used /\ ~(pc = "scan" /\ current = b)) =>
      \E c \in DOMAIN block' :
        /\ ~block'[c].used
        /\ c <= b /\ b + block[b].size <= c + block'[c].size

LEMMA ScanTakeFreeKept == IInv /\ ScanTake => FreeKept
<1> SUFFICES ASSUME IInv, ScanTake, NEW b \in Heads,
                    ~block[b].used, b # current
             PROVE  /\ b \in DOMAIN block' /\ ~block'[b].used
                    /\ b <= b /\ b + block[b].size <= b + block'[b].size
  BY DEF FreeKept, ScanTake
<1>1. current \in Heads /\ RoundUp(asked) \in Nat
  BY RoundUpType DEF IInv, ScanTake, TypeOK
<1>2. b <= b /\ b + block[b].size <= b + block[b].size
  BY BlockFacts DEF IInv
<1>3. CASE CanSplit(current, RoundUp(asked))
  <2>1. block' = SplitAt(current, RoundUp(asked))
    BY <1>3 DEF ScanTake
  <2>2. current + HeaderSize + RoundUp(asked) \notin Heads
    BY <1>1, <1>3, BlockFacts, ConstantsAssumption DEF IInv, CanSplit
  <2> QED
    BY <1>2, <2>1, <2>2 DEF SplitAt, Heads
<1>4. CASE ~CanSplit(current, RoundUp(asked))
  BY <1>2, <1>4 DEF ScanTake, Heads, IInv, TypeOK
<1> QED
  BY <1>3, <1>4

LEMMA MergeJoinFreeKept == IInv /\ MergeJoin => FreeKept
<1> SUFFICES ASSUME IInv, MergeJoin, NEW b \in Heads, ~block[b].used
             PROVE  \E c \in DOMAIN block' :
                      /\ ~block'[c].used
                      /\ c <= b /\ b + block[b].size <= c + block'[c].size
  BY DEF FreeKept
<1> DEFINE n == block[current].next
<1>1. /\ current \in Heads /\ n \in Heads /\ current < n
      /\ current \in DOMAIN block' /\ ~block'[current].used
      /\ block'[current].size = block[current].size + HeaderSize + block[n].size
      /\ n = current + HeaderSize + block[current].size
  <2>1. current \in Heads /\ n \in Heads /\ current < n
    BY BlockFacts DEF IInv, MergeJoin, Mergeable, TypeOK, Null
  <2>2. current # n
    BY <2>1, BlockFacts DEF IInv
  <2> QED
    BY <2>1, <2>2, BlockFacts DEF MergeJoin, Joined, Heads, IInv
<1>2. CASE b = current \/ b = n
  BY <1>1, <1>2, BlockFacts, ConstantsAssumption DEF IInv
<1>3. CASE b # current /\ b # n
  <2>1. b \in DOMAIN block' /\ block'[b] = block[b]
    BY <1>3 DEF MergeJoin, Joined, Heads
  <2> QED
    BY <2>1, BlockFacts DEF IInv
<1> QED
  BY <1>2, <1>3

LEMMA KfreeCallFreeKept ==
  ASSUME IInv, NEW p \in DOMAIN held, KfreeCall(p)
  PROVE  FreeKept
<1> SUFFICES ASSUME NEW b \in Heads, ~block[b].used
             PROVE  /\ b \in DOMAIN block' /\ ~block'[b].used
                    /\ b <= b /\ b + block[b].size <= b + block'[b].size
  BY DEF FreeKept, KfreeCall
<1>1. p - HeaderSize \in Heads /\ block[p - HeaderSize].used
  BY BlockFacts, ConstantsAssumption DEF IInv, HeldIsUsed, Payload
<1>2. b \in DOMAIN block' /\ block'[b] = block[b]
  BY <1>1 DEF KfreeCall, Heads
<1> QED
  BY <1>2, BlockFacts DEF IInv

LEMMA NextFreeKept == IInv /\ [Next]_vars => FreeKept
<1> SUFFICES ASSUME IInv, [Next]_vars PROVE FreeKept
  OBVIOUS
<1>1. CASE MemoryInit
  BY <1>1 DEF MemoryInit, FreeKept, IInv, Tiled
<1>2. CASE \E p \in DOMAIN held : KfreeCall(p)
  BY <1>2, KfreeCallFreeKept
<1>3. CASE ScanTake
  BY <1>3, ScanTakeFreeKept
<1>4. CASE MergeJoin
  BY <1>4, MergeJoinFreeKept
<1>5. CASE UNCHANGED block
  <2>1. \A b \in Heads : b <= b /\ b + block[b].size <= b + block[b].size
    BY BlockFacts DEF IInv
  <2> QED
    BY <1>5, <2>1 DEF FreeKept, Heads
<1> QED
  BY <1>1, <1>2, <1>3, <1>4, <1>5
     DEF Next, Calls, Loops, KmallocZero, KfreeNull, KmallocCall, ScanSkip,
         ScanFail, MergeSkip, MergeDone, vars

(* The merge pass of kfree joins free blocks and loses none; only kmalloc  *)
(* ends the freedom of a block, the one it takes.                          *)
THEOREM FreeIsNeverLostAlways == Spec => FreeIsNeverLost
<1>1. IInv /\ [Next]_vars => FreeKept
  BY NextFreeKept
<1>2. FreeKept <=> \A b \in Heads :
                     (~block[b].used /\ ~(pc = "scan" /\ current = b)) =>
                       \E c \in DOMAIN block' :
                         /\ ~block'[c].used
                         /\ c <= b /\ b + block[b].size <= c + block'[c].size
  BY DEF FreeKept
<1> QED
  BY <1>1, <1>2, Invariance, PTL DEF Spec, FreeIsNeverLost

-----------------------------------------------------------------------------
(* KMem implements Allocator.                                              *)

(* The region the abstract allocator sees behind a held pointer.           *)
Region == [p \in DOMAIN held |-> block[p - HeaderSize].size]
Asking == IF pc = "scan" THEN {asked} ELSE {}

LEMMA RegionType == IInv => Region \in [DOMAIN held -> Nat]
<1> SUFFICES ASSUME IInv, NEW p \in DOMAIN held
             PROVE  block[p - HeaderSize].size \in Nat
  BY DEF Region
<1> QED
  BY BlockFacts, ConstantsAssumption DEF IInv, HeldIsUsed, Payload

(* A block that was taken is one grant: its payload is long enough, inside *)
(* the pool, and apart from every region held before.                      *)
LEMMA ScanTakeGrants ==
  ASSUME IInv, IInv', ScanTake
  PROVE  \E p \in 0 .. PoolSize : \E g \in 0 .. PoolSize : Alloc!Grant(p, g)
<1> USE ConstantsAssumption
<1> DEFINE p == Payload(current)
           g == block'[current].size
<1>1. /\ DOMAIN held' = DOMAIN held \cup {p} /\ held'[p] = asked
      /\ current \in Heads /\ current \in Nat /\ ~block[current].used
      /\ pc = "scan" /\ pc' = "idle"
  BY DEF IInv, ScanTake, TypeOK, Fits
<1>2. current \in Heads'
  BY <1>1 DEF ScanTake, SplitAt, Heads
<1>0. /\ \A h \in Heads' : /\ h \in Nat /\ block'[h].size \in Nat
                             /\ block'[h].next = h + HeaderSize + block'[h].size
                             /\ block'[h].next <= PoolSize
      /\ \A h, k \in Heads' : h < k => block'[h].next <= k
  <2>1. TypeOK' /\ Tiled'
    BY DEF IInv
  <2>2. \A h \in Heads' : h \in Nat /\ block'[h] \in Header
    BY <2>1 DEF TypeOK
  <2>3. \A h \in Heads' : block'[h].size \in Nat /\ block'[h].next \in 0 .. PoolSize
    BY <2>2 DEF Header
  <2> QED
    BY <2>1, <2>2, <2>3 DEF Tiled
<1>3. g \in Nat /\ p \in Nat /\ p + g <= PoolSize
  BY <1>0, <1>1, <1>2 DEF IInv, Payload
<1>4. p \notin DOMAIN held
  BY <1>1, BlockFacts DEF IInv, HeldIsUsed, Payload
<1>5. ASSUME NEW q \in DOMAIN held
      PROVE  ~Alloc!Overlaps(p, g, q, Region[q])
  <2>1. /\ q - HeaderSize \in Heads' /\ q \in Int
        /\ block'[q - HeaderSize] = block[q - HeaderSize]
        /\ q - HeaderSize # current
    <3>1. q - HeaderSize \in Heads /\ block[q - HeaderSize].used /\ q \in Int
      BY BlockFacts DEF IInv, HeldIsUsed, Payload
    <3>2. /\ q - HeaderSize \in DOMAIN block'
          /\ block'[q - HeaderSize] = block[q - HeaderSize]
      BY <1>1, ScanTakeStaysPut DEF StaysPut
    <3> QED
      BY <1>1, <3>1, <3>2 DEF Heads
  <2>2. Region[q] = block'[q - HeaderSize].size
    BY <2>1 DEF Region
  <2> QED
    BY <1>1, <1>2, <1>3, <2>1, <2>2, <1>0 DEF IInv, Payload, Alloc!Overlaps
<1>6. asked <= MaxRequest => g >= asked
  BY <1>1 DEF IInv, GrantedEnough, Payload, TypeOK
<1>7. Region' = [q \in DOMAIN held \cup {p} |-> IF q = p THEN g ELSE Region[q]]
  <2>1. \A q \in DOMAIN held : block'[q - HeaderSize] = block[q - HeaderSize]
    BY <1>1, ScanTakeStaysPut DEF StaysPut
  <2>2. p - HeaderSize = current
    BY <1>1 DEF Payload
  <2> QED
    BY <1>1, <1>4, <2>1, <2>2 DEF Region
<1>8. Asking = {asked} /\ Asking' = {}
  BY <1>1 DEF Asking
<1>9. Alloc!Grant(p, g)
  BY <1>3, <1>4, <1>5, <1>6, <1>7, <1>8 DEF Alloc!Grant, Region, Asking
<1>10. p \in 0 .. PoolSize /\ g \in 0 .. PoolSize
  BY <1>3
<1> HIDE DEF p, g
<1> QED
  BY <1>9, <1>10 DEF Alloc!Grant

LEMMA KfreeReleases ==
  ASSUME IInv, NEW p \in DOMAIN held, KfreeCall(p)
  PROVE  Alloc!Release(p)
<1>1. \A q \in DOMAIN held \ {p} : block'[q - HeaderSize] = block[q - HeaderSize]
  BY KfreeCallStaysPut DEF StaysPut, KfreeCall
<1>2. Region' = [q \in DOMAIN held \ {p} |-> Region[q]]
  BY <1>1 DEF Region, KfreeCall
<1>3. Asking = {} /\ Asking' = {}
  BY DEF Asking, KfreeCall
<1> QED
  BY <1>2, <1>3 DEF Alloc!Release, Region, Asking

(* A step that leaves the callers' pointers and kmalloc's argument alone is*)
(* no step of the abstract allocator.                                      *)
LEMMA QuietStutters ==
  ASSUME IInv, [Next]_vars, UNCHANGED <<held, asked>>, (pc = "scan") = (pc' = "scan")
  PROVE  UNCHANGED <<Region, Asking>>
<1>1. \A p \in DOMAIN held : block'[p - HeaderSize] = block[p - HeaderSize]
  BY NextStaysPut DEF StaysPut
<1> QED
  BY <1>1 DEF Region, Asking

LEMMA StepSimulates ==
  ASSUME IInv, IInv', [Next]_vars
  PROVE  Alloc!Next \/ UNCHANGED <<Region, Asking>>
<1>1. CASE \E n \in Requests : KmallocCall(n)
  <2>1. PICK n \in Requests : KmallocCall(n)
    BY <1>1
  <2>2. Asking = {} /\ Asking' = {n} /\ UNCHANGED Region
    BY <2>1 DEF Asking, Region, KmallocCall
  <2>3. n \in Requests \ {0} /\ Alloc!Request(n)
    BY <2>1, <2>2 DEF KmallocCall, Alloc!Request, Asking, Region
  <2> QED
    BY <2>3 DEF Alloc!Next
<1>2. CASE \E p \in DOMAIN held : KfreeCall(p)
  BY <1>2, KfreeReleases DEF Alloc!Next, Region
<1>3. CASE ScanTake
  BY <1>3, ScanTakeGrants DEF Alloc!Next
<1>4. CASE ScanFail
  <2>1. Asking # {} /\ Asking' = {} /\ UNCHANGED Region
    BY <1>4 DEF ScanFail, Asking, Region
  <2> QED
    BY <2>1 DEF Alloc!Next, Alloc!Refuse, Asking, Region
<1>5. CASE MemoryInit \/ ScanSkip \/ MergeJoin \/ MergeSkip \/ MergeDone
           \/ UNCHANGED vars
  <2>1. UNCHANGED <<held, asked>> /\ (pc = "scan") = (pc' = "scan")
    BY <1>5 DEF MemoryInit, ScanSkip, MergeJoin, MergeSkip, MergeDone, vars
  <2> QED
    BY <2>1, QuietStutters
<1> QED
  BY <1>1, <1>2, <1>3, <1>4, <1>5 DEF Next, Calls, Loops, KmallocZero, KfreeNull

(* The heap of memory.c implements the abstract allocator: every region it *)
(* grants is in the pool, long enough, and disjoint from those still held. *)
THEOREM Refinement == Spec => ImplementsAllocator
<1>1. Init => Alloc!Init
  BY DEF Init, Alloc!Init
<1>2. IInv /\ IInv' /\ [Next]_vars => [Alloc!Next]_(Alloc!vars)
  BY StepSimulates DEF Alloc!vars, Region, Asking
<1> QED
  BY <1>1, <1>2, Invariance, PTL DEF Spec, ImplementsAllocator, Alloc!Spec
=============================================================================
