------------------------------ MODULE BumpHeap ------------------------------
(***************************************************************************)
(* malloc, calloc, realloc and free of kernel/stdlib.c: a pointer that     *)
(* only moves up through one array.  A block is what a caller holds: its   *)
(* address, the bytes it asked for, and the bytes it has written so far.   *)
(* Callers write to their own blocks.  A refused call (NULL) changes       *)
(* nothing and is no step.                                                 *)
(***************************************************************************)
EXTENDS Integers, Sequences

CONSTANTS
  HeapSize,   \* sizeof(heap)
  SizeMod,    \* 2^32: size_t arithmetic wraps there
  Sizes,      \* the sizes callers ask for
  Counts      \* calloc's first argument

ASSUME BumpAssumption ==
  /\ HeapSize \in Nat /\ SizeMod \in Nat /\ HeapSize < SizeMod
  /\ Sizes \subseteq 0 .. SizeMod - 1 /\ Counts \subseteq 0 .. SizeMod - 1

VARIABLES
  heap_ptr,   \* the first byte not handed out
  heap,       \* the array; 0 is the byte a zeroed one holds
  blocks,     \* the blocks callers hold
  wrapped     \* a size has wrapped: nothing is said of what follows

bumpVars == <<heap_ptr, heap, blocks, wrapped>>

HeapBytes == 0 .. HeapSize - 1

BumpInit ==
  /\ heap_ptr = 0
  /\ heap = [a \in HeapBytes |-> 0]
  /\ blocks = {}
  /\ wrapped = FALSE

EndOf(size) == (heap_ptr + size) % SizeMod

Fits(size) == EndOf(size) <= HeapSize

(* The blocks as they are after a call that grants one of size bytes for a *)
(* request of asked bytes, with data already in it.                        *)
Grant(size, asked, others, data) ==
  /\ Fits(size)
  /\ blocks' = others \cup {[size |-> asked, data |-> data, at |-> heap_ptr]}
  /\ heap_ptr' = EndOf(size)
  /\ wrapped' = (heap_ptr + size >= SizeMod \/ asked # size)

Malloc(size) ==
  /\ Grant(size, size, blocks, <<>>)
  /\ UNCHANGED heap

(* The product wraps before malloc sees it.                                *)
Calloc(nmemb, size) ==
  LET bytes == (nmemb * size) % SizeMod IN
  /\ Grant(bytes, nmemb * size, blocks, [k \in 1 .. bytes |-> 0])
  /\ heap' = [a \in HeapBytes |->
                IF a \in heap_ptr .. heap_ptr + bytes - 1 THEN 0 ELSE heap[a]]

(* Bug: the copy starts at the new block, which is still empty.            *)
CopiedFromTop(from, to, size) == heap

(* memcpy copies upwards: where the source runs into the destination it    *)
(* meets bytes that have just been written.                                *)
Copied(from, to, size) ==
  [a \in HeapBytes |->
     IF a \in to .. to + size - 1 THEN heap[from + ((a - to) % (to - from))] ELSE heap[a]]

(* size bytes are copied, whatever the old block held.  realloc(NULL, n)   *)
(* is malloc(n).  A block of no bytes shares its address with the next.    *)
Realloc(b, size) ==
  LET kept == IF size < Len(b.data) THEN size ELSE Len(b.data) IN
  /\ Grant(size, size, blocks \ {b}, SubSeq(b.data, 1, kept))
  /\ heap' = IF b.at < heap_ptr THEN Copied(b.at, heap_ptr, size) ELSE heap

Free(b) ==
  /\ blocks' = blocks \ {b}
  /\ UNCHANGED <<heap_ptr, heap, wrapped>>

(* A caller fills its block; every byte of the heap has a value of its own.*)
WriteBlock(b) ==
  /\ blocks' = (blocks \ {b}) \cup {[b EXCEPT !.data = [k \in 1 .. b.size |-> b.at + k]]}
  /\ heap' = [a \in HeapBytes |-> IF a \in b.at .. b.at + b.size - 1 THEN a + 1 ELSE heap[a]]
  /\ UNCHANGED <<heap_ptr, wrapped>>

BumpNext ==
  /\ ~wrapped
  /\ \/ \E size \in Sizes : Malloc(size)
     \/ \E nmemb \in Counts, size \in Sizes : Calloc(nmemb, size)
     \/ \E b \in blocks : Free(b) \/ WriteBlock(b) \/ \E size \in Sizes : Realloc(b, size)

BumpSpec == BumpInit /\ [][BumpNext]_bumpVars

-----------------------------------------------------------------------------
BumpTypeOK ==
  /\ heap_ptr \in 0 .. HeapSize
  /\ heap \in [HeapBytes -> 0 .. HeapSize]
  /\ wrapped \in BOOLEAN

BytesOf(b) == b.at .. b.at + b.size - 1

(* What malloc, calloc and realloc hand out lies in the array, behind the  *)
(* pointer, and no two blocks share a byte.                                *)
BlocksDisjoint ==
  /\ \A b \in blocks : BytesOf(b) \subseteq 0 .. heap_ptr - 1
  /\ \A b, c \in blocks : b # c => BytesOf(b) \cap BytesOf(c) = {}

(* A block keeps what its caller has written to it, or calloc has cleared. *)
BlocksKeepData ==
  \A b \in blocks : \A k \in DOMAIN b.data : heap[b.at + k - 1] = b.data[k]

(* As long as no size has wrapped, blocks are disjoint and keep their data *)
(* while others are handed out, written and copied: realloc copies the     *)
(* new size, past the end of the old block when it grows, and still        *)
(* carries every byte of the old block over and harms no other.            *)
BlocksAreTheirs == ~wrapped => heap_ptr <= HeapSize /\ BlocksDisjoint /\ BlocksKeepData
=============================================================================
