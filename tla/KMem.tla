-------------------------------- MODULE KMem --------------------------------
(***************************************************************************)
(* The kernel heap of kernel/memory.c: one static pool cut into blocks,    *)
(* each a header followed by its payload, in a singly linked list ordered  *)
(* by address.  kmalloc walks the list for the first free block that fits  *)
(* and splits it; kfree marks the block free and makes one pass over the   *)
(* list that joins neighbours.  A step is one iteration of one of the two  *)
(* loops, so that the walk itself (its cursor, what it skips, whether it   *)
(* ends) is part of the model.                                             *)
(*                                                                         *)
(* A block's payload is named by the offset of its first word.  NULL is    *)
(* the first offset outside the pool, which no block can have.             *)
(***************************************************************************)
EXTENDS Integers

CONSTANTS
  PoolSize,     \* PAGE_SIZE * MAX_PAGES, the length of memory_pool
  HeaderSize,   \* sizeof(MemoryBlock)
  Align,        \* the 8 of the rounding, and of the smallest leftover
  WordMod,      \* size_t is arithmetic modulo WordMod
  Requests      \* the sizes the callers of kmalloc ask for

ASSUME ConstantsAssumption ==
  /\ HeaderSize \in Nat \ {0} /\ Align \in Nat \ {0}
  /\ PoolSize \in Nat /\ PoolSize > HeaderSize
  /\ WordMod \in Nat /\ WordMod > PoolSize + HeaderSize + Align
  /\ WordMod % Align = 0
  /\ Requests \subseteq 0 .. WordMod - 1

VARIABLES
  free_list,    \* the head of the list: NULL until memory_init has run
  block,        \* header of every block in the list, by the block's offset
  pc,           \* "idle", or the loop that is running: "scan", "merge"
  current,      \* the loop's cursor
  asked,        \* kmalloc's argument while it scans
  held          \* pointer -> size asked for, of what the callers hold

vars == <<free_list, block, pc, current, asked, held>>

Null == PoolSize
Header == [size : Nat, used : BOOLEAN, next : 0 .. PoolSize]
Heads == DOMAIN block
Payload(b) == b + HeaderSize

(* Bug: truncates to the alignment instead of rounding up.                 *)
RoundUpTruncates(n) == n - (n % Align)

(* (size + 7) & ~7, in size_t.                                             *)
RoundUp(n) ==
  LET m == (n + Align - 1) % WordMod IN m - (m % Align)

(* The largest request whose rounding does not wrap.                       *)
MaxRequest == WordMod - Align

Init ==
  /\ free_list = Null
  /\ block = [b \in {} |-> [size |-> 0, used |-> FALSE, next |-> Null]]
  /\ pc = "idle" /\ current = Null /\ asked = 0
  /\ held = [p \in {} |-> 0]

(* memory_init: one free block covers the pool.  kernel_init calls it      *)
(* once, before anything is allocated.                                     *)
MemoryInit ==
  /\ pc = "idle" /\ free_list = Null
  /\ free_list' = 0
  /\ block' = [b \in {0} |->
                 [size |-> PoolSize - HeaderSize, used |-> FALSE, next |-> Null]]
  /\ UNCHANGED <<pc, current, asked, held>>

-----------------------------------------------------------------------------
(* kmalloc                                                                 *)

(* A request of zero returns NULL at once: nothing changes.                *)
KmallocZero ==
  /\ pc = "idle" /\ 0 \in Requests
  /\ UNCHANGED vars

KmallocCall(n) ==
  /\ pc = "idle" /\ n # 0
  /\ pc' = "scan" /\ asked' = n /\ current' = free_list
  /\ UNCHANGED <<free_list, block, held>>

(* Bug: a block of exactly the size asked for is passed over.              *)
FitsStrictly(b, n) == ~block[b].used /\ block[b].size > n

Fits(b, n) == ~block[b].used /\ block[b].size >= n

(* The headers after block b has been cut to n and the rest made a free    *)
(* block of its own.                                                       *)
SplitAt(b, n) ==
  LET rest == b + HeaderSize + n
  IN [h \in Heads \cup {rest} |->
        CASE h = b    -> [size |-> n, used |-> TRUE, next |-> rest]
          [] h = rest -> [size |-> block[b].size - n - HeaderSize,
                          used |-> FALSE, next |-> block[b].next]
          [] OTHER    -> block[h]]

(* Bug: forgets that the rest needs a header and a payload of its own.     *)
CanSplitNoHeader(b, n) == block[b].size >= n

CanSplit(b, n) == block[b].size >= n + HeaderSize + Align

ScanTake ==
  LET n == RoundUp(asked) IN
  /\ pc = "scan" /\ current # Null /\ Fits(current, n)
  /\ block' = IF CanSplit(current, n)
                THEN SplitAt(current, n)
                ELSE [block EXCEPT ![current].used = TRUE]
  /\ held' = [p \in DOMAIN held \cup {Payload(current)} |->
                IF p = Payload(current) THEN asked ELSE held[p]]
  /\ pc' = "idle" /\ asked' = 0 /\ current' = Null
  /\ UNCHANGED free_list

ScanSkip ==
  /\ pc = "scan" /\ current # Null /\ ~Fits(current, RoundUp(asked))
  /\ current' = block[current].next
  /\ UNCHANGED <<free_list, block, pc, asked, held>>

(* The walk reached the end of the list: NULL, out of memory.              *)
ScanFail ==
  /\ pc = "scan" /\ current = Null
  /\ pc' = "idle" /\ asked' = 0
  /\ UNCHANGED <<free_list, block, current, held>>

-----------------------------------------------------------------------------
(* kfree                                                                   *)

(* kfree(NULL) returns at once.                                            *)
KfreeNull == pc = "idle" /\ UNCHANGED vars

(* A caller gives back a pointer it holds.                                 *)
KfreeCall(p) ==
  /\ pc = "idle"
  /\ block' = [block EXCEPT ![p - HeaderSize].used = FALSE]
  /\ held' = [q \in DOMAIN held \ {p} |-> held[q]]
  /\ pc' = "merge" /\ current' = free_list
  /\ UNCHANGED <<free_list, asked>>

(* Bug: the block's own mark is not looked at.                             *)
MergeableUsedBlock(b) == block[b].next # Null /\ ~block[block[b].next].used

Mergeable(b) ==
  /\ ~block[b].used
  /\ block[b].next # Null
  /\ ~block[block[b].next].used

(* Bug: the absorbed header is not added to the block.                     *)
JoinedNoHeader(b, n) ==
  [h \in Heads \ {n} |->
     IF h = b THEN [size |-> block[h].size + block[n].size,
                    used |-> FALSE, next |-> block[n].next]
              ELSE block[h]]

(* The headers after block n has become part of the free block b.          *)
Joined(b, n) ==
  [h \in Heads \ {n} |->
     IF h = b THEN [size |-> block[h].size + HeaderSize + block[n].size,
                    used |-> FALSE, next |-> block[n].next]
              ELSE block[h]]

(* The cursor moves on past the joined block.                              *)
MergeJoin ==
  LET n == block[current].next IN
  /\ pc = "merge" /\ current # Null /\ Mergeable(current)
  /\ block' = Joined(current, n)
  /\ current' = block[n].next
  /\ UNCHANGED <<free_list, pc, asked, held>>

(* Bug: the cursor advances only after a join.                             *)
MergeSkipStuck ==
  /\ pc = "merge" /\ current # Null /\ ~Mergeable(current)
  /\ UNCHANGED vars

MergeSkip ==
  /\ pc = "merge" /\ current # Null /\ ~Mergeable(current)
  /\ current' = block[current].next
  /\ UNCHANGED <<free_list, block, pc, asked, held>>

MergeDone ==
  /\ pc = "merge" /\ current = Null
  /\ pc' = "idle"
  /\ UNCHANGED <<free_list, block, current, asked, held>>

-----------------------------------------------------------------------------
Calls ==
  \/ MemoryInit
  \/ KmallocZero
  \/ \E n \in Requests : KmallocCall(n)
  \/ KfreeNull
  \/ \E p \in DOMAIN held : KfreeCall(p)

Loops ==
  \/ ScanTake \/ ScanSkip \/ ScanFail
  \/ MergeJoin \/ MergeSkip \/ MergeDone

Next == Calls \/ Loops

(* A call that has begun is run by the only thread there is, and nothing   *)
(* in the two loops waits.  Callers owe nothing: they may never call.      *)
Spec == Init /\ [][Next]_vars /\ WF_vars(Loops)

-----------------------------------------------------------------------------
(* Properties                                                              *)

(* The variables have the shape the code gives them.                       *)
TypeOK ==
  /\ free_list \in {0, Null}
  /\ Heads \subseteq 0 .. PoolSize - 1
  /\ block \in [Heads -> Header]
  /\ pc \in {"idle", "scan", "merge"}
  /\ current \in Heads \cup {Null}
  /\ asked \in Nat
  /\ held \in [DOMAIN held -> Nat]

(* The next pointers that kmalloc's split and kfree's merge rewrite always *)
(* lead to the address just behind the block, which is a block or the end  *)
(* of the pool, and no block begins inside another: the blocks tile the    *)
(* pool however splits and merges follow each other.                       *)
Tiled ==
  /\ (free_list = 0) = (0 \in Heads)
  /\ free_list = Null => Heads = {}
  /\ \A b \in Heads :
       /\ block[b].next = b + HeaderSize + block[b].size
       /\ block[b].next \in Heads \cup {Null}
  /\ \A b, c \in Heads : b < c => block[b].next <= c

(* A pointer is held by a caller exactly when the block in front of it is  *)
(* in the list and marked used: no call forgets a block somebody holds,    *)
(* absorbs it into a neighbour, or keeps one nobody can give back.         *)
HeldIsUsed ==
  DOMAIN held = {Payload(b) : b \in {h \in Heads : block[h].used}}

(* What two callers hold never overlaps, and ends inside the pool, as long *)
(* as the size asked for survived the rounding of memory.c:31.             *)
HeldDisjoint ==
  \A p \in DOMAIN held :
    held[p] <= MaxRequest =>
      /\ p + held[p] <= PoolSize
      /\ \A q \in DOMAIN held : p < q => p + held[p] <= q - HeaderSize

(* While kmalloc walks, every block it has passed was unfit: together with *)
(* the walk ending at NULL, a request is refused only when no free block   *)
(* of the whole list can hold it, and the first that can is the one taken. *)
FirstFit ==
  pc = "scan" => \A b \in Heads : b < current =>
    (block[b].used \/ block[b].size < RoundUp(asked))

(* A call never moves, resizes or relinks a block a caller goes on         *)
(* holding, whatever is split, freed or merged around it.                  *)
HeldStaysPut ==
  [][\A p \in DOMAIN held \cap DOMAIN held' :
       /\ p - HeaderSize \in DOMAIN block'
       /\ block'[p - HeaderSize] = block[p - HeaderSize]]_vars

(* Memory that is free stays inside a free block until kmalloc hands out   *)
(* that very block: the merge pass may join free blocks but it loses none. *)
FreeIsNeverLost ==
  [][\A b \in Heads :
       (~block[b].used /\ ~(pc = "scan" /\ current = b)) =>
          \E c \in DOMAIN block' :
             /\ ~block'[c].used
             /\ c <= b /\ b + block[b].size <= c + block'[c].size]_vars

(* Both loops reach the end of the list: a call to kmalloc or kfree always *)
(* returns.                                                                *)
CallReturns == (pc # "idle") ~> (pc = "idle")

(* Every behaviour of the heap is one of the abstract allocator, whose     *)
(* region is the payload of the block behind a held pointer.               *)
Alloc == INSTANCE Allocator WITH
  Requests <- Requests \ {0},
  granted  <- [p \in DOMAIN held |-> block[p - HeaderSize].size],
  pending  <- IF pc = "scan" THEN {asked} ELSE {}
ImplementsAllocator == Alloc!Spec

(* "Merge adjacent free blocks" (memory.c:63): between calls no two        *)
(* neighbours are both free.                                               *)
AllFreeMerged ==
  pc = "idle" => \A b \in Heads : ~Mergeable(b)
=============================================================================
