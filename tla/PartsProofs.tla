---------------------------- MODULE PartsProofs -----------------------------
(***************************************************************************)
(* Proofs about the small parts of the kernel and its build host, each for *)
(* every value of its constants: the boot chain, the C heap, the mouse,    *)
(* the network table, the two configuration programs, the dock, the text   *)
(* console, the string functions and the formatting of text and numbers.   *)
(***************************************************************************)
EXTENDS Boot, BumpHeap, Strings, Format, Mouse, Network, Dock, Terminal, HostTools,
        TerminalOpsProofs, SequenceTheorems

(* The boot chain hands over nothing half loaded and its main loop has a   *)
(* multiboot loader behind it, for any numbers of sectors, retries and     *)
(* paths.                                                                  *)

Stage1Steps == {"reset", "params", "read2"}
EfiSteps == {"image", "filesystem", "volume", "open", "size", "pool", "info", "pages", "read", "exit"}
KernelSteps == {"start", "init", "main"}

(* Every loader keeps to its own steps, and its counters have not run out  *)
(* where they are used again.                                              *)
OnItsWay ==
  /\ pc \in Stage1Steps => loader = "stage1"
  /\ pc = "load" => loader = "bootloader"
  /\ pc \in EfiSteps => loader = "efi"
  /\ pc = "jump" /\ loader = "stage1" => got = Stage2Sectors
  /\ pc = "reset" => retry_count > 0
  /\ pc \in {"image", "filesystem", "volume", "open"} => path < Paths

(* A failure that has not ended the boot is one that is retried where the  *)
(* loader is, or that of AllocatePool, which GetInfo runs into.            *)
RetriedFailure(step) ==
  CASE step = "reset" -> {"reset"}
    [] step = "open" -> {"open"}
    [] step = "info" -> {"pool"}
    [] OTHER -> {}

FailuresInHand == pc \notin Ends => refused \subseteq RetriedFailure(pc)

(* The magic number comes from a multiboot loader only, in its register    *)
(* and on the stack.                                                       *)
MagicFromLoader ==
  /\ eax = "magic" => loader = "multiboot"
  /\ pc \in {"init", "main"} => args # <<>> /\ (args[1] = "magic" => loader = "multiboot")
  /\ pc = "shell" => loader = "multiboot"

BootInv == TypeOK /\ OnItsWay /\ FailuresInHand /\ MagicFromLoader

-----------------------------------------------------------------------------
(* The loaders start at their first steps, with nothing refused.           *)
LEMMA BootStarts == Init => BootInv
<1> SUFFICES ASSUME Init PROVE BootInv
  OBVIOUS
<1> USE BootAssumption DEF Loaders
<1>1. pc = (CASE loader = "stage1" -> "reset" [] loader = "bootloader" -> "load"
              [] loader = "efi" -> "image" [] OTHER -> "start")
  BY DEF Init, FirstStep
<1>2. TypeOK
  BY <1>1 DEF Init, TypeOK, Calls, Ends
<1>3. OnItsWay
  BY <1>1 DEF Init, OnItsWay, Stage1Steps, EfiSteps
<1>4. FailuresInHand
  BY DEF Init, FailuresInHand
<1>5. MagicFromLoader
  BY <1>1 DEF Init, MagicFromLoader
<1> QED BY <1>2, <1>3, <1>4, <1>5 DEF BootInv

(* A call of the firmware leaves the registers alone, and does not go to   *)
(* the kernel.                                                             *)
LEMMA CallKeepsMagic ==
  ASSUME BootInv, UNCHANGED <<loader, hardware>>, pc' \notin {"init", "main", "shell"}
  PROVE  MagicFromLoader'
BY DEF BootInv, MagicFromLoader, hardware

(* What a call of the firmware leaves alone keeps its type.                *)
LEMMA CallKeepsTypes ==
  ASSUME BootInv, UNCHANGED <<loader, entry, hardware>>, pc' \in Calls \cup Ends \cup {"jump"},
         NEW call \in Calls, refused' \in {refused \cup {call}, refused \ {call}},
         retry_count' \in 0 .. MaxRetries, path' \in 0 .. Paths,
         got' \in 0 .. Stage2Sectors \cup 0 .. KernelSectors
  PROVE  TypeOK'
<1>1. refused' \subseteq Calls
  BY DEF BootInv, TypeOK
<1> QED BY <1>1 DEF BootInv, TypeOK, hardware

(* The steps of the first stage: its retries, the parameters, the sectors. *)
LEMMA Stage1Keeps ==
  ASSUME BootInv, ResetDisk \/ CheckDiskStatus \/ LoadStage2 PROVE BootInv'
<1> USE BootAssumption DEF BootInv, Accept, Refuse, GoTo, Stop, hardware
<1>1. CASE ResetDisk
  <2>1. TypeOK'
    <3>1. retry_count' \in 0 .. MaxRetries
      BY <1>1 DEF ResetDisk, TypeOK, OnItsWay
    <3>2. path' \in 0 .. Paths /\ got' \in 0 .. Stage2Sectors \cup 0 .. KernelSectors
      BY <1>1 DEF ResetDisk, TypeOK
    <3> QED BY <1>1, <3>1, <3>2, CallKeepsTypes DEF ResetDisk, Calls, Ends
  <2>4. OnItsWay'
    BY <1>1 DEF ResetDisk, OnItsWay, TypeOK, Stage1Steps, EfiSteps
  <2>2. FailuresInHand'
    BY <1>1 DEF ResetDisk, FailuresInHand, RetriedFailure, Ends
  <2>3. MagicFromLoader'
    BY <1>1, CallKeepsMagic DEF ResetDisk
  <2> QED BY <2>1, <2>2, <2>3, <2>4
<1>2. CASE CheckDiskStatus
  <2>1. TypeOK'
    BY <1>2 DEF CheckDiskStatus, TypeOK, Calls, Ends
  <2>4. OnItsWay'
    BY <1>2 DEF CheckDiskStatus, OnItsWay, TypeOK, Stage1Steps, EfiSteps
  <2>2. FailuresInHand'
    BY <1>2 DEF CheckDiskStatus, FailuresInHand, RetriedFailure, Ends
  <2>3. MagicFromLoader'
    BY <1>2, CallKeepsMagic DEF CheckDiskStatus
  <2> QED BY <2>1, <2>2, <2>3, <2>4
<1>3. CASE LoadStage2
  <2> USE DEF AfterReadFailure, ReadIsEnough
  <2>1. TypeOK'
    BY <1>3 DEF LoadStage2, TypeOK, Calls, Ends
  <2>4. OnItsWay'
    BY <1>3 DEF LoadStage2, OnItsWay, TypeOK, Stage1Steps, EfiSteps
  <2>2. FailuresInHand'
    BY <1>3 DEF LoadStage2, FailuresInHand, RetriedFailure, Ends
  <2>3. MagicFromLoader'
    BY <1>3, CallKeepsMagic DEF LoadStage2
  <2> QED BY <2>1, <2>2, <2>3, <2>4
<1> QED BY <1>1, <1>2, <1>3

(* bootloader.asm reads the kernel in one call and stops when it is        *)
(* refused.                                                                *)
LEMMA BootloaderKeeps == ASSUME BootInv, LoadKernel PROVE BootInv'
<1> USE BootAssumption DEF BootInv, Accept, Refuse, GoTo, Stop, hardware, LoadKernel
<1>1. TypeOK'
  BY DEF TypeOK, Calls, Ends
<1>4. OnItsWay'
  BY DEF OnItsWay, TypeOK, Stage1Steps, EfiSteps
<1>2. FailuresInHand'
  BY DEF FailuresInHand, RetriedFailure, Ends
<1>3. MagicFromLoader'
  BY CallKeepsMagic
<1> QED BY <1>1, <1>2, <1>3, <1>4

(* The steps of the UEFI loader.                                           *)
LEMMA EfiKeeps ==
  ASSUME BootInv, \/ Protocols \/ OpenKernel \/ AskSize \/ AllocatePool \/ GetInfo \/ Services
  PROVE  BootInv'
<1> USE BootAssumption DEF BootInv, Accept, Refuse, GoTo, Stop, hardware
<1>1. CASE OpenKernel
  <2> USE DEF OpenKernel, PathsTried, AfterPaths
  <2>1. TypeOK'
    <3>1. path' \in 0 .. Paths
      BY <1>1 DEF TypeOK, OnItsWay
    <3>2. retry_count' \in 0 .. MaxRetries /\ got' \in 0 .. Stage2Sectors \cup 0 .. KernelSectors
      BY <1>1 DEF TypeOK
    <3> QED BY <1>1, <3>1, <3>2, CallKeepsTypes DEF Calls, Ends
  <2>4. OnItsWay'
    BY <1>1 DEF OnItsWay, TypeOK, Stage1Steps, EfiSteps
  <2>2. FailuresInHand'
    BY <1>1 DEF FailuresInHand, RetriedFailure, Ends
  <2>3. MagicFromLoader'
    BY <1>1, CallKeepsMagic
  <2> QED BY <2>1, <2>2, <2>3, <2>4
<1>2. CASE Protocols \/ Services
  <2> USE DEF Protocols, Services
  <2>5. PICK call \in Calls, next \in Calls \cup {"jump"} :
          /\ \/ Accept(call) /\ GoTo(next)
             \/ Refuse(call) /\ Stop
          /\ call \in {"image", "filesystem", "volume", "pages", "read", "exit"}
          /\ next \in EfiSteps \cup {"jump"}
          /\ next \in {"image", "filesystem", "volume", "open"} =>
               call \in {"image", "filesystem", "volume"}
    BY <1>2 DEF Calls, EfiSteps
  <2>6. UNCHANGED <<loader, entry, retry_count, got, path, hardware>>
    BY <1>2
  <2>1. TypeOK'
    BY <2>5, <2>6, CallKeepsTypes DEF TypeOK, Ends
  <2>7. loader = "efi" /\ (call \in {"image", "filesystem", "volume"} => path < Paths)
    BY <2>5 DEF OnItsWay, EfiSteps
  <2>4. OnItsWay'
    BY <2>5, <2>6, <2>7 DEF OnItsWay, Stage1Steps, EfiSteps
  <2>2. FailuresInHand'
    BY <1>2 DEF FailuresInHand, RetriedFailure, Ends
  <2>3. MagicFromLoader'
    BY <1>2, CallKeepsMagic
  <2> QED BY <2>1, <2>2, <2>3, <2>4
<1>3. CASE AskSize \/ AllocatePool \/ GetInfo
  <2> USE DEF AskSize, AllocatePool, GetInfo
  <2>1. TypeOK'
    BY <1>3 DEF TypeOK, Calls, Ends
  <2>4. OnItsWay'
    BY <1>3 DEF OnItsWay, TypeOK, Stage1Steps, EfiSteps
  <2>2. FailuresInHand'
    BY <1>3 DEF FailuresInHand, RetriedFailure, Ends
  <2>3. MagicFromLoader'
    BY <1>3, CallKeepsMagic
  <2> QED BY <2>1, <2>2, <2>3, <2>4
<1> QED BY <1>1, <1>2, <1>3

(* The steps of the kernel's entry and of main.                            *)
LEMMA KernelKeeps ==
  ASSUME BootInv, Jump \/ EntryAsm \/ BootAsm \/ KernelInit \/ KernelMain PROVE BootInv'
<1> USE BootAssumption DEF BootInv, GoTo, Stop, hardware
<1>1. CASE Jump \/ KernelInit \/ KernelMain
  <2> USE DEF Jump, KernelInit, KernelMain, MagicIsRight
  <2>1. TypeOK'
    BY <1>1 DEF TypeOK, Calls, Ends
  <2>4. OnItsWay'
    BY <1>1 DEF OnItsWay, TypeOK, Stage1Steps, EfiSteps
  <2>2. FailuresInHand'
    BY <1>1 DEF FailuresInHand, RetriedFailure, Ends
  <2>3. MagicFromLoader'
    BY <1>1 DEF MagicFromLoader
  <2> QED BY <2>1, <2>2, <2>3, <2>4
<1>2. CASE EntryAsm \/ BootAsm
  <2> USE DEF EntryAsm, BootAsm
  <2>1. TypeOK'
    <3>1. args' = <<>> \/ args' \in {"magic", "info", "other"} \X {"info", "other"}
      BY <1>2 DEF TypeOK
    <3>2. pc' \in {"init", "main", "stopped"}
      BY <1>2
    <3>3. UNCHANGED <<loader, entry, retry_count, got, path, refused, eax, ebx>>
      BY <1>2
    <3> QED BY <3>1, <3>2, <3>3 DEF TypeOK, Ends
  <2>4. OnItsWay'
    BY <1>2 DEF OnItsWay, TypeOK, Stage1Steps, EfiSteps
  <2>2. FailuresInHand'
    BY <1>2 DEF FailuresInHand, RetriedFailure, Ends
  <2>3. MagicFromLoader'
    BY <1>2 DEF MagicFromLoader, TypeOK
  <2> QED BY <2>1, <2>2, <2>3, <2>4
<1> QED BY <1>1, <1>2

(* So the invariant holds always.                                          *)
LEMMA BootInvAlways == Spec => []BootInv
<1>1. BootInv /\ [Next]_vars => BootInv'
  <2> SUFFICES ASSUME BootInv, [Next]_vars PROVE BootInv'
    OBVIOUS
  <2>1. CASE UNCHANGED vars
    BY <2>1 DEF vars, hardware, BootInv, TypeOK, OnItsWay, FailuresInHand, MagicFromLoader
  <2> QED
    BY <2>1, Stage1Keeps, BootloaderKeeps, EfiKeeps, KernelKeeps DEF Next
<1> QED BY <1>1, BootStarts, PTL DEF Spec

(* No loader hands over with a failure unheeded or a stage half read, for  *)
(* any numbers of sectors, retries and paths (bootloader_stage1.asm,       *)
(* bootloader.asm, efi_boot.c).                                            *)
THEOREM HandoversAreSoundAlways == Spec => []HandoversAreSound
<1>1. BootInv => HandoversAreSound
  BY DEF BootInv, OnItsWay, FailuresInHand, RetriedFailure, Ends, HandoversAreSound,
         FailuresAreHeeded
<1> QED BY <1>1, BootInvAlways, PTL

(* Whichever entry is linked, the main loop is reached from a multiboot    *)
(* loader only (entry.asm, boot.asm, kernel.c:248).                        *)
THEOREM ShellMeansMultibootAlways == Spec => []ShellMeansMultiboot
<1>1. BootInv => ShellMeansMultiboot
  BY DEF BootInv, MagicFromLoader, ShellMeansMultiboot
<1> QED BY <1>1, BootInvAlways, PTL

-----------------------------------------------------------------------------
(* The C heap: what it hands out stays apart and keeps its bytes, as long  *)
(* as no size has wrapped.  The invariant is not inductive: a block that   *)
(* shares no byte with others may still lie ahead of the pointer, where    *)
(* the next one goes.  Behind adds that every block, an empty one too,     *)
(* ends at the pointer or before it, and has no more data than bytes.      *)

Behind(b) == b.at + b.size <= heap_ptr /\ Len(b.data) <= b.size

Typed ==
  /\ heap_ptr \in 0 .. HeapSize
  /\ heap \in [HeapBytes -> Int]
  /\ wrapped \in BOOLEAN
  /\ blocks \subseteq [size : Nat, data : Seq(Int), at : Nat]

Kept == ~wrapped => /\ \A b \in blocks : Behind(b)
                    /\ BlocksDisjoint
                    /\ BlocksKeepData

HeapInv == Typed /\ Kept

\* A remainder below the divisor is the number itself, and always below it.
LEMMA SmallMod == \A n, m \in Nat : n < m => n % m = n
  BY SMT

(* A remainder is below its divisor.                                       *)
LEMMA ModRange == \A n \in Nat, m \in Nat \ {0} : n % m \in 0 .. m - 1
  BY SMT

\* Where the pointer goes when a call is granted.
LEMMA PointerMoves ==
  ASSUME HeapInv, NEW size \in 0 .. SizeMod - 1, NEW asked \in Nat,
         NEW others, NEW data, Grant(size, asked, others, data)
  PROVE  /\ heap_ptr' \in 0 .. HeapSize
         /\ wrapped' \in BOOLEAN
         /\ ~wrapped' => asked = size /\ heap_ptr' = heap_ptr + size
  <1> USE BumpAssumption DEF HeapInv, Typed, Grant, Fits, EndOf
  <1>1. heap_ptr \in Nat /\ SizeMod \in Nat \ {0} /\ heap_ptr + size \in Nat
    OBVIOUS
  <1>2. heap_ptr' \in 0 .. SizeMod - 1
    BY <1>1, ModRange
  <1>3. heap_ptr' \in 0 .. HeapSize
    BY <1>2
  <1>4. ~wrapped' => asked = size /\ heap_ptr + size < SizeMod
    <2>1. ~wrapped' => ~(heap_ptr + size >= SizeMod) /\ asked = size
      BY Zenon
    <2> QED
      BY <2>1, <1>1
  <1>5. heap_ptr + size < SizeMod => heap_ptr' = heap_ptr + size
    BY <1>1, SmallMod
  <1> QED
    BY <1>3, <1>4, <1>5

\* A block is granted, the array has its data there and is unchanged below.
LEMMA GrantKeeps ==
  ASSUME HeapInv, ~wrapped, NEW size \in 0 .. SizeMod - 1, NEW asked \in Nat,
         NEW others \in SUBSET blocks, NEW data \in Seq(Int), Len(data) <= size,
         Grant(size, asked, others, data),
         heap' \in [HeapBytes -> Int],
         \A a \in HeapBytes : a < heap_ptr => heap'[a] = heap[a],
         \A k \in 1 .. Len(data) :
           heap_ptr + k - 1 \in HeapBytes => heap'[heap_ptr + k - 1] = data[k]
  PROVE  HeapInv'
  <1> DEFINE new == [size |-> asked, data |-> data, at |-> heap_ptr]
  <1>1. /\ heap_ptr' \in 0 .. HeapSize
        /\ wrapped' \in BOOLEAN
        /\ ~wrapped' => asked = size /\ heap_ptr' = heap_ptr + size
    BY PointerMoves
  <1>2. blocks' = others \cup {new}
    BY DEF Grant
  <1>3. new \in [size : Nat, data : Seq(Int), at : Nat]
    BY BumpAssumption DEF HeapInv, Typed
  <1>4. Typed'
    BY <1>1, <1>2, <1>3 DEF HeapInv, Typed, HeapBytes
  <1>5. ASSUME ~wrapped'  PROVE Kept'
    <2> HIDE DEF new
    <2>1. new.at = heap_ptr /\ new.size = size /\ new.data = data
      BY <1>1, <1>5 DEF new
    <2>2. /\ heap_ptr \in Nat /\ HeapSize \in Nat /\ size \in Nat
          /\ heap_ptr' = heap_ptr + size /\ heap_ptr' <= HeapSize
      BY <1>1, <1>5, BumpAssumption DEF HeapInv, Typed
    <2>3. ASSUME NEW b \in others
          PROVE  /\ b \in [size : Nat, data : Seq(Int), at : Nat]
                 /\ b.at + b.size <= heap_ptr /\ Len(b.data) <= b.size
                 /\ \A k \in DOMAIN b.data : heap[b.at + k - 1] = b.data[k]
      BY DEF HeapInv, Typed, Kept, Behind, BlocksKeepData
    <2>4. \A b \in blocks' : Behind(b)'
      BY <1>2, <2>1, <2>2, <2>3 DEF Behind
    <2>5. BlocksDisjoint'
      <3>1. ASSUME NEW b \in blocks'  PROVE BytesOf(b) \subseteq 0 .. heap_ptr' - 1
        <4>1. CASE b = new
          BY <4>1, <2>1, <2>2 DEF BytesOf
        <4>2. CASE b \in others
          BY <4>2, <2>2, <2>3 DEF BytesOf
        <4> QED
          BY <4>1, <4>2, <1>2
      <3>2. ASSUME NEW b \in others  PROVE BytesOf(b) \cap BytesOf(new) = {}
        BY <2>1, <2>2, <2>3 DEF BytesOf
      <3>3. ASSUME NEW b \in others, NEW c \in others, b # c  PROVE BytesOf(b) \cap BytesOf(c) = {}
        BY <3>3 DEF HeapInv, Kept, BlocksDisjoint
      <3> QED
        BY <1>2, <3>1, <3>2, <3>3 DEF BlocksDisjoint, BytesOf
    <2>6. BlocksKeepData'
      <3> SUFFICES ASSUME NEW b \in blocks', NEW k \in DOMAIN b.data
                   PROVE  heap'[b.at + k - 1] = b.data[k]
        BY DEF BlocksKeepData
      <3>1. CASE b = new
        <4>1. k \in 1 .. Len(data)
          BY <3>1, <2>1
        <4>2. heap_ptr + k - 1 \in HeapBytes
          BY <4>1, <2>2 DEF HeapBytes
        <4> QED
          BY <3>1, <4>1, <4>2, <2>1
      <3>2. CASE b \in others
        <4>1. b.at \in Nat /\ b.size \in Nat /\ b.data \in Seq(Int) /\ Len(b.data) \in Nat
          BY <3>2, <2>3
        <4>2. /\ k \in Nat /\ 1 <= k /\ k <= Len(b.data)
              /\ b.at + b.size <= heap_ptr /\ Len(b.data) <= b.size
          BY <4>1, <3>2, <2>3
        <4>3. heap_ptr <= HeapSize
          BY <2>2
        <4>4. \A from, n, top, end, j \in Nat :
                from + n <= top /\ top <= end /\ 1 <= j /\ j <= n
                  => from + j - 1 \in 0 .. end - 1 /\ from + j - 1 < top
          BY SMT
        <4>5. k <= b.size
          BY <4>1, <4>2
        <4>6. b.at + k - 1 \in HeapBytes /\ b.at + k - 1 < heap_ptr
          BY <4>1, <4>2, <4>3, <4>4, <4>5, <2>2, Zenon DEF HeapBytes
        <4> QED
          BY <4>6, <3>2, <2>3
      <3> QED
        BY <3>1, <3>2, <1>2
    <2> QED
      BY <2>4, <2>5, <2>6 DEF Kept
  <1> QED
    BY <1>4, <1>5 DEF HeapInv, Kept

\* malloc: nothing is written.
LEMMA MallocKeeps == ASSUME HeapInv, ~wrapped, NEW size \in Sizes, Malloc(size)  PROVE HeapInv'
  <1>1. size \in 0 .. SizeMod - 1 /\ size \in Nat
    BY BumpAssumption
  <1> DEFINE none == <<>>
  <1>2. none \in Seq(Int) /\ Len(none) = 0
    OBVIOUS
  <1>3. Grant(size, size, blocks, none) /\ heap' = heap /\ heap \in [HeapBytes -> Int]
    BY DEF Malloc, HeapInv, Typed
  <1> HIDE DEF none
  <1>4. Len(none) <= size /\ \A k \in 1 .. Len(none) : FALSE
    BY <1>1, <1>2
  <1> QED
    BY <1>1, <1>2, <1>3, <1>4, GrantKeeps

\* calloc: the bytes from the pointer on are cleared.
LEMMA CallocKeeps ==
  ASSUME HeapInv, ~wrapped, NEW nmemb \in Counts, NEW size \in Sizes, Calloc(nmemb, size)
  PROVE  HeapInv'
  <1> DEFINE amount == (nmemb * size) % SizeMod
             zeros == [k \in 1 .. amount |-> 0]
  <1>1. nmemb \in Nat /\ size \in Nat /\ nmemb * size \in Nat /\ SizeMod \in Nat \ {0}
    BY BumpAssumption
  <1>2. amount \in 0 .. SizeMod - 1
    BY <1>1, ModRange
  <1>3. /\ Grant(amount, nmemb * size, blocks, zeros)
        /\ heap' = [a \in HeapBytes |->
                      IF a \in heap_ptr .. heap_ptr + amount - 1 THEN 0 ELSE heap[a]]
    BY DEF Calloc
  <1> HIDE DEF amount
  <1>4. heap_ptr \in Nat /\ heap \in [HeapBytes -> Int]
    BY BumpAssumption DEF HeapInv, Typed
  <1>5. zeros \in Seq(Int) /\ Len(zeros) = amount /\ \A k \in 1 .. amount : zeros[k] = 0
    BY <1>2
  <1> HIDE DEF zeros
  <1>6. heap' \in [HeapBytes -> Int]
    BY <1>3, <1>4
  <1>7. \A a \in HeapBytes : a < heap_ptr => heap'[a] = heap[a]
    BY <1>3, <1>4, BumpAssumption DEF HeapBytes
  <1>8. \A k \in 1 .. Len(zeros) :
          heap_ptr + k - 1 \in HeapBytes => heap'[heap_ptr + k - 1] = zeros[k]
    BY <1>2, <1>3, <1>4, <1>5
  <1> QED
    BY <1>1, <1>2, <1>3, <1>5, <1>6, <1>7, <1>8, GrantKeeps

\* realloc: however far the copy runs, the first bytes of the new block are
\* the data of the old one, and nothing behind the pointer is touched.
LEMMA ReallocKeeps ==
  ASSUME HeapInv, ~wrapped, NEW b \in blocks, NEW size \in Sizes, Realloc(b, size)
  PROVE  HeapInv'
  <1> DEFINE carried == IF size < Len(b.data) THEN size ELSE Len(b.data)
             data == SubSeq(b.data, 1, carried)
  <1>1. /\ size \in Nat /\ size \in 0 .. SizeMod - 1
        /\ heap_ptr \in Nat /\ HeapSize \in Nat /\ heap_ptr <= HeapSize
        /\ heap \in [HeapBytes -> Int]
    BY BumpAssumption DEF HeapInv, Typed
  <1>2. b.at \in Nat /\ b.size \in Nat /\ b.data \in Seq(Int) /\ Len(b.data) \in Nat
    BY DEF HeapInv, Typed
  <1>3. b.at + b.size <= heap_ptr /\ Len(b.data) <= b.size
    BY DEF HeapInv, Kept, Behind
  <1>4. carried \in Nat /\ carried <= size /\ carried <= Len(b.data)
    BY <1>1, <1>2
  <1>5. /\ Grant(size, size, blocks \ {b}, data)
        /\ heap' = IF b.at < heap_ptr THEN Copied(b.at, heap_ptr, size) ELSE heap
    BY DEF Realloc
  <1> HIDE DEF carried
  <1>6. data \in Seq(Int) /\ Len(data) = carried /\ \A k \in 1 .. carried : data[k] = b.data[k]
    BY <1>2, <1>4
  <1> HIDE DEF data
  <1>7. \A k \in DOMAIN b.data : heap[b.at + k - 1] = b.data[k]
    BY DEF HeapInv, Kept, BlocksKeepData
  <1>8. CASE b.at >= heap_ptr
    <2>1. carried = 0 /\ heap' = heap
      BY <1>8, <1>1, <1>2, <1>3, <1>4, <1>5
    <2>2. Len(data) <= size /\ \A k \in 1 .. Len(data) : FALSE
      BY <2>1, <1>1, <1>6
    <2> QED
      BY <2>1, <2>2, <1>1, <1>5, <1>6, GrantKeeps
  <1>9. CASE b.at < heap_ptr
    <2> DEFINE gap == heap_ptr - b.at
               From(a) == b.at + ((a - heap_ptr) % gap)
    <2>1. gap \in Nat \ {0} /\ carried <= gap
      BY <1>9, <1>1, <1>2, <1>3, <1>4
    <2>2. heap' = [a \in HeapBytes |->
                     IF a \in heap_ptr .. heap_ptr + size - 1 THEN heap[From(a)] ELSE heap[a]]
      BY <1>5, <1>9 DEF Copied
    <2>3. ASSUME NEW a \in HeapBytes, a \in heap_ptr .. heap_ptr + size - 1
          PROVE  From(a) \in HeapBytes
      <3>1. a - heap_ptr \in Nat
        BY <2>3, <1>1 DEF HeapBytes
      <3> HIDE DEF gap
      <3>2. (a - heap_ptr) % gap \in 0 .. gap - 1
        BY <3>1, <2>1, ModRange
      <3> USE DEF gap
      <3> QED
        BY <3>2, <1>1, <1>2, <1>9, SMTT(60) DEF HeapBytes
    <2> HIDE DEF From
    <2>4. heap' \in [HeapBytes -> Int]
      BY <2>2, <2>3, <1>1
    <2>5. \A a \in HeapBytes : a < heap_ptr => heap'[a] = heap[a]
      BY <2>2, <1>1 DEF HeapBytes
    <2>6. ASSUME NEW k \in 1 .. Len(data), heap_ptr + k - 1 \in HeapBytes
          PROVE  heap'[heap_ptr + k - 1] = data[k]
      <3>1. /\ k \in 1 .. carried /\ k - 1 \in Nat /\ k \in DOMAIN b.data
            /\ heap_ptr + k - 1 \in heap_ptr .. heap_ptr + size - 1
            /\ (heap_ptr + k - 1) - heap_ptr = k - 1
        <4>1. k \in 1 .. carried
          BY <1>6
        <4>2. k \in Nat /\ k >= 1 /\ k <= carried /\ k <= size /\ k <= Len(b.data)
          BY <4>1, <1>1, <1>2, <1>4
        <4>3. k \in DOMAIN b.data
          <5>1. DOMAIN b.data = 1 .. Len(b.data)
            BY <1>2
          <5> QED BY <5>1, <4>2, <1>2
        <4> QED BY <4>1, <4>2, <4>3, <1>1
      <3> HIDE DEF gap
      <3>2. (k - 1) % gap = k - 1
        BY <3>1, <2>1, <1>4, SmallMod, SMTT(60)
      <3>3. From(heap_ptr + k - 1) = b.at + k - 1
        BY <3>1, <3>2, <1>2 DEF From
      <3> QED
        BY <3>1, <3>3, <2>2, <2>6, <1>6, <1>7
    <2> QED
      BY <2>4, <2>5, <2>6, <1>1, <1>4, <1>5, <1>6, GrantKeeps
  <1> QED
    BY <1>8, <1>9, <1>1, <1>2

\* free gives nothing back and moves nothing.
LEMMA FreeKeeps == ASSUME HeapInv, ~wrapped, NEW b \in blocks, Free(b)  PROVE HeapInv'
  BY DEF HeapInv, Typed, Kept, Free, Behind, BlocksDisjoint, BlocksKeepData, BytesOf

\* A caller fills its block: what it writes is in no other.
LEMMA WriteKeeps == ASSUME HeapInv, ~wrapped, NEW b \in blocks, WriteBlock(b)  PROVE HeapInv'
  <1> DEFINE filled == [k \in 1 .. b.size |-> b.at + k]
             new == [b EXCEPT !.data = filled]
  <1>1. heap_ptr \in Nat /\ HeapSize \in Nat /\ heap_ptr <= HeapSize /\ heap \in [HeapBytes -> Int]
    BY BumpAssumption DEF HeapInv, Typed
  <1>2. ASSUME NEW c \in blocks
        PROVE  /\ c \in [size : Nat, data : Seq(Int), at : Nat]
               /\ c.at \in Nat /\ c.size \in Nat /\ c.data \in Seq(Int) /\ Len(c.data) \in Nat
               /\ c.at + c.size <= heap_ptr /\ Len(c.data) <= c.size
               /\ \A k \in DOMAIN c.data : heap[c.at + k - 1] = c.data[k]
    BY DEF HeapInv, Typed, Kept, Behind, BlocksKeepData
  <1>3. filled \in Seq(Int) /\ Len(filled) = b.size /\ \A k \in 1 .. b.size : filled[k] = b.at + k
    <2>1. b.at \in Nat /\ b.size \in Nat
      BY <1>2
    <2>2. \A k \in 1 .. b.size : b.at + k \in Int
      BY <2>1
    <2> QED
      BY <2>1, <2>2
  <1> HIDE DEF filled
  <1>4. /\ new \in [size : Nat, data : Seq(Int), at : Nat]
        /\ new.at = b.at /\ new.size = b.size /\ new.data = filled
    BY <1>2, <1>3
  <1>5. /\ blocks' = (blocks \ {b}) \cup {new}
        /\ heap' = [a \in HeapBytes |-> IF a \in BytesOf(b) THEN a + 1 ELSE heap[a]]
        /\ heap_ptr' = heap_ptr /\ wrapped' = wrapped
    BY <1>3 DEF WriteBlock, BytesOf, filled
  <1> HIDE DEF new
  <1>6. Typed'
    BY <1>1, <1>4, <1>5 DEF HeapInv, Typed, HeapBytes
  <1>7. \A c \in blocks' : Behind(c)'
    BY <1>2, <1>3, <1>4, <1>5 DEF Behind
  <1>8. BytesOf(new) = BytesOf(b)
    BY <1>4 DEF BytesOf
  <1>9. BlocksDisjoint'
    <2>1. BlocksDisjoint
      BY DEF HeapInv, Kept
    <2> QED
      BY <2>1, <1>5, <1>8 DEF BlocksDisjoint, BytesOf
  <1>10. BlocksKeepData'
    <2> SUFFICES ASSUME NEW c \in blocks', NEW k \in DOMAIN c.data
                 PROVE  heap'[c.at + k - 1] = c.data[k]
      BY DEF BlocksKeepData
    <2>1. CASE c = new
      <3>1. k \in 1 .. b.size /\ c.data[k] = b.at + k /\ c.at = b.at
        BY <2>1, <1>2, <1>3, <1>4
      <3>2. b.at + k - 1 \in HeapBytes /\ b.at + k - 1 \in BytesOf(b)
        BY <3>1, <1>1, <1>2, SMTT(60) DEF HeapBytes, BytesOf
      <3> QED
        BY <3>1, <3>2, <1>2, <1>5
    <2>2. CASE c \in blocks /\ c # b
      <3>1. /\ k \in 1 .. Len(c.data) /\ c.at \in Nat /\ c.size \in Nat /\ Len(c.data) \in Nat
            /\ c.at + c.size <= heap_ptr /\ Len(c.data) <= c.size
        BY <2>2, <1>2
      <3>2. c.at + k - 1 \in HeapBytes /\ c.at + k - 1 \in BytesOf(c)
        BY <3>1, <1>1, SMTT(60) DEF HeapBytes, BytesOf
      <3>3. BytesOf(c) \cap BytesOf(b) = {}
        BY <2>2 DEF HeapInv, Kept, BlocksDisjoint
      <3> QED
        BY <3>2, <3>3, <2>2, <1>2, <1>5
    <2> QED
      BY <2>1, <2>2, <1>5
  <1> QED
    BY <1>6, <1>7, <1>9, <1>10 DEF HeapInv, Kept

\* The strengthened invariant holds of every state.
LEMMA HeapInvAlways == BumpSpec => []HeapInv
  <1>1. ASSUME BumpInit  PROVE HeapInv
    <2>1. Typed
      <3>1. heap_ptr = 0 /\ wrapped = FALSE
        BY <1>1 DEF BumpInit
      <3>2. 0 \in 0 .. HeapSize
        BY BumpAssumption
      <3>3. heap \in [HeapBytes -> Int]
        <4>1. heap = [a \in HeapBytes |-> 0]
          BY <1>1 DEF BumpInit
        <4> QED
          BY <4>1
      <3>4. blocks \subseteq [size : Nat, data : Seq(Int), at : Nat]
        BY <1>1 DEF BumpInit
      <3> QED
        BY <3>1, <3>2, <3>3, <3>4, Zenon DEF Typed
    <2>2. blocks = {}
      BY <1>1 DEF BumpInit
    <2>3. Kept
      BY <2>2 DEF Kept, BlocksDisjoint, BlocksKeepData
    <2> QED
      BY <2>1, <2>3 DEF HeapInv
  <1>2. HeapInv /\ [BumpNext]_bumpVars => HeapInv'
    <2> SUFFICES ASSUME HeapInv, [BumpNext]_bumpVars  PROVE HeapInv'
      OBVIOUS
    <2>1. CASE UNCHANGED bumpVars
      BY <2>1 DEF bumpVars, HeapInv, Typed, Kept, Behind, BlocksDisjoint, BlocksKeepData, BytesOf
    <2>2. CASE BumpNext
      BY <2>2, MallocKeeps, CallocKeeps, ReallocKeeps, FreeKeeps, WriteKeeps DEF BumpNext
    <2> QED
      BY <2>1, <2>2
  <1> QED
    BY <1>1, <1>2, PTL DEF BumpSpec

\* As long as no size has wrapped, the blocks malloc, calloc and realloc hand
\* out lie in the array, share no byte, and keep what was written to them,
\* through every later call.
THEOREM BlocksTheirs == BumpSpec => []BlocksAreTheirs
  <1>1. HeapInv => BlocksAreTheirs
    BY BumpAssumption DEF HeapInv, Typed, Kept, BlocksAreTheirs
  <1> QED
    BY <1>1, HeapInvAlways, PTL

-----------------------------------------------------------------------------
(* The mouse: packets are applied whatever bytes were lost or put in       *)
(* between them, for any packets, keys and positions.                      *)

Byte == 0 .. 255
Heard == [byte : Byte, nth : Int, cycle : 0 .. 2]

PortOK == port.byte \in Byte /\ port.nth \in Int

DeviceOK ==
  /\ device = [on |-> device.on, acks |-> device.acks, packet |-> device.packet]
  /\ device.packet \in Seq(Byte)

StateOK ==
  /\ DOMAIN mouse_state = {"x", "y", "left", "right", "middle"}
  /\ mouse_state.x \in Int /\ mouse_state.y \in Int

MouseTypeOK ==
  /\ PortOK /\ DeviceOK /\ StateOK
  /\ bytes \in Seq(Byte) /\ Len(bytes) \in 0 .. 2
  /\ heard \in Seq(Heard)

(* What is left in the handler of the one or two bytes of a packet it has  *)
(* read last: that depends on the cycle the first of them was read in, and *)
(* on which of them it could take for a first byte.                        *)
AfterOne(h) ==
  CASE h[1].cycle = 0 -> IF InStep(h[1].byte) THEN bytes = <<h[1].byte>> ELSE bytes = <<>>
    [] h[1].cycle = 1 -> Len(bytes) = 2
    [] OTHER -> bytes = <<>>

AfterTwo(h) ==
  CASE h[1].cycle = 0 /\ InStep(h[1].byte) -> bytes = <<h[1].byte, h[2].byte>>
    [] h[1].cycle = 1 -> bytes = <<>>
    [] OTHER -> IF InStep(h[2].byte) THEN bytes = <<h[2].byte>> ELSE bytes = <<>>

InHand ==
  /\ Len(heard) = 1 => AfterOne(heard)
  /\ Len(heard) = 2 => AfterTwo(heard)

MouseInv == MouseTypeOK /\ InHand

-----------------------------------------------------------------------------
(* Sequences of any set.                                                   *)

(* The elements of a sequence of S are in S.                               *)
LEMMA Elements ==
  ASSUME NEW S, NEW s \in Seq(S)
  PROVE  Len(s) \in Nat /\ \A k \in 1 .. Len(s) : s[k] \in S
OBVIOUS

(* What Append returns.                                                    *)
LEMMA Appending ==
  ASSUME NEW S, NEW s \in Seq(S), NEW e \in S
  PROVE  /\ Append(s, e) \in Seq(S) /\ Len(Append(s, e)) = Len(s) + 1
         /\ \A k \in 1 .. Len(s) : Append(s, e)[k] = s[k]
         /\ Append(s, e)[Len(s) + 1] = e
         /\ Len(s) = 0 => Append(s, e) = <<e>>
<1>1. Append(s, e) \in Seq(S) /\ Len(Append(s, e)) = Len(s) + 1
  OBVIOUS
<1>2. \A k \in 1 .. Len(s) : Append(s, e)[k] = s[k]
  OBVIOUS
<1>3. Append(s, e)[Len(s) + 1] = e
  OBVIOUS
<1>4. ASSUME Len(s) = 0 PROVE Append(s, e) = <<e>>
  <2>1. s = <<>>
    BY <1>4
  <2> QED BY <2>1
<1> QED BY <1>1, <1>2, <1>3, <1>4

(* A sequence of one element.                                              *)
LEMMA Single ==
  ASSUME NEW S, NEW e \in S
  PROVE  <<e>> \in Seq(S) /\ Len(<<e>>) = 1 /\ <<e>>[1] = e
OBVIOUS

(* The parts of a sequence that is not empty.                              *)
LEMMA HeadAndTail ==
  ASSUME NEW S, NEW s \in Seq(S), s # <<>>
  PROVE  Head(s) \in S /\ Tail(s) \in Seq(S)
OBVIOUS

-----------------------------------------------------------------------------
(* A packet moves the pointer to a place of the screen and sets the three  *)
(* buttons.                                                                *)
LEMMA MovedTypes ==
  ASSUME NEW s, s.x \in Int, s.y \in Int,
         NEW b0 \in Byte, NEW b1 \in Byte, NEW b2 \in Byte
  PROVE  /\ DOMAIN Moved(s, b0, b1, b2) = {"x", "y", "left", "right", "middle"}
         /\ Moved(s, b0, b1, b2).x \in Int /\ Moved(s, b0, b1, b2).y \in Int
<1>1. PosMod \in Nat \ {0}
  BY MouseAssumption
<1>2. \A n \in Int : n % PosMod \in Int
  BY <1>1
<1>3. /\ (IF Bit(b0, 4) THEN s.x - (b1 - 256) ELSE s.x + b1) \in Int
      /\ (IF Bit(b0, 5) THEN s.y + (b2 - 256) ELSE s.y - b2) \in Int
  BY DEF Byte
<1> QED BY <1>2, <1>3 DEF Moved

(* One call of the handler, by what it had in hand.                        *)
LEMMA HandlerCases ==
  ASSUME MouseTypeOK, HandleInterrupt
  PROVE  \/ /\ Len(bytes) = 2 /\ bytes' = <<>>
            /\ mouse_state' = Moved(mouse_state, bytes[1], bytes[2], port.byte)
         \/ /\ Len(bytes) = 1 /\ bytes' = Append(bytes, port.byte)
            /\ mouse_state' = mouse_state
         \/ /\ bytes = <<>> /\ InStep(port.byte) /\ bytes' = <<port.byte>>
            /\ mouse_state' = mouse_state
         \/ /\ bytes = <<>> /\ ~InStep(port.byte) /\ bytes' = <<>>
            /\ mouse_state' = mouse_state
<1>1. CASE Len(bytes) = 2
  BY <1>1 DEF HandleInterrupt
<1>2. CASE Len(bytes) = 1
  BY <1>2 DEF HandleInterrupt
<1>3. CASE bytes = <<>>
  <2>1. Len(bytes) = 0 /\ Append(bytes, port.byte) = <<port.byte>>
    BY <1>3
  <2>2. CASE InStep(port.byte)
    BY <1>3, <2>1, <2>2 DEF HandleInterrupt
  <2>3. CASE ~InStep(port.byte)
    BY <1>3, <2>1, <2>3 DEF HandleInterrupt
  <2> QED BY <2>2, <2>3
<1>4. Len(bytes) = 2 \/ Len(bytes) = 1 \/ bytes = <<>>
  BY DEF MouseTypeOK
<1> QED BY <1>1, <1>2, <1>3, <1>4

(* What it adds to what has been heard.                                    *)
LEMMA HeardCases ==
  ASSUME MouseTypeOK, HandleInterrupt,
         NEW this, this = [byte |-> port.byte, nth |-> port.nth, cycle |-> Len(bytes)]
  PROVE  /\ this \in Heard
         /\ heard' = <<this>> \/ heard' = Append(heard, this) \/ heard' = <<>>
         /\ heard' \in Seq(Heard)
<1>1. this \in Heard
  BY DEF MouseTypeOK, PortOK, Heard
<1>2. heard' = <<this>> \/ heard' = Append(heard, this) \/ heard' = <<>>
  BY DEF HandleInterrupt
<1>3. heard' \in Seq(Heard)
  <2>1. <<this>> \in Seq(Heard) /\ Append(heard, this) \in Seq(Heard)
    BY <1>1, Single, Appending DEF MouseTypeOK
  <2>2. <<>> \in Seq(Heard)
    OBVIOUS
  <2> QED BY <1>2, <2>1, <2>2
<1> QED BY <1>1, <1>2, <1>3

(* The interrupt handler stores a byte in its cycle of three and keeps the *)
(* state's type.                                                           *)
LEMMA HandlerKeepsTypes == ASSUME MouseTypeOK, HandleInterrupt PROVE MouseTypeOK'
<1>1. UNCHANGED <<port, device>>
  BY DEF HandleInterrupt
<1>2. heard' \in Seq(Heard)
  BY HeardCases
<1>3. port.byte \in Byte /\ (Len(bytes) = 2 => bytes[1] \in Byte /\ bytes[2] \in Byte)
  BY Elements DEF MouseTypeOK, PortOK
<1>4. bytes' \in Seq(Byte) /\ Len(bytes') \in 0 .. 2
  <2>1. Append(bytes, port.byte) \in Seq(Byte) /\ Len(Append(bytes, port.byte)) = Len(bytes) + 1
    BY <1>3, Appending DEF MouseTypeOK
  <2>2. <<port.byte>> \in Seq(Byte) /\ Len(<<port.byte>>) = 1
    BY <1>3, Single
  <2>3. <<>> \in Seq(Byte) /\ Len(<<>>) = 0
    OBVIOUS
  <2>4. bytes' = <<>> \/ bytes' = <<port.byte>> \/ (Len(bytes) = 1 /\ bytes' = Append(bytes, port.byte))
    BY HandlerCases
  <2>5. CASE bytes' = <<>>
    BY <2>3, <2>5
  <2>6. CASE bytes' = <<port.byte>>
    BY <2>2, <2>6
  <2>7. CASE Len(bytes) = 1 /\ bytes' = Append(bytes, port.byte)
    BY <2>1, <2>7
  <2> QED BY <2>4, <2>5, <2>6, <2>7
<1>5. StateOK'
  <2>1. \/ mouse_state' = mouse_state
        \/ Len(bytes) = 2 /\ mouse_state' = Moved(mouse_state, bytes[1], bytes[2], port.byte)
    BY HandlerCases
  <2>2. CASE mouse_state' = mouse_state
    BY <2>2 DEF MouseTypeOK, StateOK
  <2>3. ASSUME Len(bytes) = 2, mouse_state' = Moved(mouse_state, bytes[1], bytes[2], port.byte)
        PROVE  StateOK'
    <3>1. mouse_state.x \in Int /\ mouse_state.y \in Int
      BY DEF MouseTypeOK, StateOK
    <3>2. bytes[1] \in Byte /\ bytes[2] \in Byte /\ port.byte \in Byte
      BY <1>3, <2>3
    <3>3. /\ DOMAIN mouse_state' = {"x", "y", "left", "right", "middle"}
          /\ mouse_state'.x \in Int /\ mouse_state'.y \in Int
      BY <2>3, <3>1, <3>2, MovedTypes
    <3> QED BY <3>3 DEF StateOK
  <2> QED BY <2>1, <2>2, <2>3
<1> QED BY <1>1, <1>2, <1>4, <1>5 DEF MouseTypeOK, PortOK, DeviceOK

(* It keeps what it holds in step with the bytes it has heard since the    *)
(* cycle began.                                                            *)
LEMMA HandlerKeepsInHand == ASSUME MouseInv, HandleInterrupt PROVE InHand'
<1> USE DEF MouseInv
<1> DEFINE this == [byte |-> port.byte, nth |-> port.nth, cycle |-> Len(bytes)]
<1>1. /\ this \in Heard
      /\ heard' = <<this>> \/ heard' = Append(heard, this) \/ heard' = <<>>
  BY HeardCases
<1>2. this.byte = port.byte /\ this.cycle = Len(bytes)
  OBVIOUS
<1>3. Len(bytes) \in 0 .. 2 /\ heard \in Seq(Heard) /\ bytes \in Seq(Byte)
  BY DEF MouseTypeOK
<1> HIDE DEF this
<1>4. CASE heard' = <<>>
  BY <1>4 DEF InHand
<1>5. CASE heard' = <<this>> \/ (heard' = Append(heard, this) /\ Len(heard) = 0)
  <2>1. heard' = <<this>>
    BY <1>1, <1>3, <1>5, Appending
  <2>2. Len(heard') = 1 /\ heard'[1] = this
    BY <1>1, <2>1, Single
  <2>3. AfterOne(heard)'
    <3>1. CASE Len(bytes) = 0
      BY <1>2, <1>3, <2>2, <3>1, HandlerCases DEF AfterOne
    <3>2. CASE Len(bytes) = 1
      <4>1. bytes' = Append(bytes, port.byte) /\ port.byte \in Byte
        <5>1. port.byte \in Byte
          BY DEF MouseTypeOK, PortOK
        <5> QED BY <3>2, <5>1, HandlerCases
      <4>2. Len(Append(bytes, port.byte)) = Len(bytes) + 1
        BY <1>3, <4>1, Appending
      <4>3. Len(bytes') = 2
        BY <3>2, <4>1, <4>2
      <4>4. heard'[1].cycle = 1
        BY <1>2, <2>2, <3>2
      <4> QED BY <4>3, <4>4 DEF AfterOne
    <3>3. CASE Len(bytes) = 2
      BY <1>2, <1>3, <2>2, <3>3, HandlerCases DEF AfterOne
    <3> QED BY <1>3, <3>1, <3>2, <3>3
  <2> QED BY <2>2, <2>3 DEF InHand
<1>6. CASE heard' = Append(heard, this) /\ Len(heard) = 1
  <2>1. /\ Len(heard') = 2 /\ heard'[1] = heard[1] /\ heard'[2] = this
        /\ heard[1].cycle \in 0 .. 2
    <3>1. Len(heard') = 2 /\ heard'[1] = heard[1] /\ heard'[2] = this
      <4>1. /\ Len(Append(heard, this)) = Len(heard) + 1
            /\ \A k \in 1 .. Len(heard) : Append(heard, this)[k] = heard[k]
            /\ Append(heard, this)[Len(heard) + 1] = this
        BY <1>1, <1>3, Appending
      <4> QED BY <1>6, <4>1
    <3>2. heard[1] \in Heard
      <4>1. \A k \in 1 .. Len(heard) : heard[k] \in Heard
        BY <1>3, Elements
      <4> QED BY <1>6, <4>1
    <3> QED BY <3>1, <3>2 DEF Heard
  <2>2. AfterOne(heard)
    BY <1>6 DEF InHand
  <2>3. AfterTwo(heard)'
    <3>1. CASE heard[1].cycle = 0 /\ InStep(heard[1].byte)
      <4>1. bytes = <<heard[1].byte>>
        BY <2>2, <3>1 DEF AfterOne
      <4>2. Len(bytes) = 1 /\ bytes' = <<heard[1].byte, port.byte>>
        BY <4>1, HandlerCases
      <4> QED BY <1>2, <2>1, <3>1, <4>2 DEF AfterTwo
    <3>2. CASE heard[1].cycle = 0 /\ ~InStep(heard[1].byte)
      <4>1. bytes = <<>>
        BY <2>2, <3>2 DEF AfterOne
      <4> QED BY <1>2, <2>1, <3>2, <4>1, HandlerCases DEF AfterTwo
    <3>3. CASE heard[1].cycle = 1
      <4>1. Len(bytes) = 2
        BY <2>2, <3>3 DEF AfterOne
      <4> QED BY <2>1, <3>3, <4>1, HandlerCases DEF AfterTwo
    <3>4. CASE heard[1].cycle = 2
      <4>1. bytes = <<>>
        BY <2>2, <3>4 DEF AfterOne
      <4> QED BY <1>2, <2>1, <3>4, <4>1, HandlerCases DEF AfterTwo
    <3> QED BY <2>1, <3>1, <3>2, <3>3, <3>4
  <2> QED BY <2>1, <2>3 DEF InHand
<1>7. CASE heard' = Append(heard, this) /\ Len(heard) >= 2
  <2>1. Len(Append(heard, this)) = Len(heard) + 1 /\ Len(heard) \in Nat
    BY <1>1, <1>3, Appending, Elements
  <2>2. Len(heard') # 1 /\ Len(heard') # 2
    BY <1>7, <2>1
  <2> QED BY <2>2 DEF InHand
<1>8. Len(heard) \in Nat
  BY <1>3, Elements
<1> QED BY <1>1, <1>4, <1>5, <1>6, <1>7, <1>8

-----------------------------------------------------------------------------
(* The devices and the other readers touch neither bytes nor heard.        *)
LEMMA OthersKeep ==
  ASSUME MouseInv,
         \/ EnableMouse \/ MouseSends \/ KeyboardReads
         \/ \E code \in Scancodes : KeyArrives(code)
         \/ \E x, y \in Positions : SetPosition(x, y)
         \/ UNCHANGED mouseVars
  PROVE  MouseInv' /\ heard' = heard
<1> USE DEF MouseInv
<1>1. UNCHANGED <<bytes, heard>>
  BY DEF EnableMouse, MouseSends, KeyboardReads, KeyArrives, SetPosition, mouseVars
<1>2. StateOK'
  <2>1. CASE UNCHANGED mouse_state
    BY <2>1 DEF MouseTypeOK, StateOK
  <2>2. ASSUME NEW x \in Positions, NEW y \in Positions, SetPosition(x, y) PROVE StateOK'
    <3>1. mouse_state' = [mouse_state EXCEPT !.x = x, !.y = y]
      BY <2>2 DEF SetPosition
    <3>2. 0 .. PosMod - 1 \subseteq Int
      OBVIOUS
    <3>3. x \in Int /\ y \in Int
      BY <2>2, <3>2, MouseAssumption
    <3> QED BY <3>1, <3>3 DEF MouseTypeOK, StateOK
  <2> QED BY <2>1, <2>2 DEF EnableMouse, MouseSends, KeyboardReads, KeyArrives, mouseVars
<1>3. PortOK'
  <2>1. ASSUME NEW b \in Byte, NEW n \in Int, Arrives(b, n) PROVE PortOK'
    BY <2>1 DEF Arrives, PortOK
  <2>2. CASE MouseSends
    <3>1. ASSUME Arrives(Ack, Foreign) PROVE PortOK'
      BY <2>1, <3>1 DEF Ack, Foreign, Byte
    <3>2. ASSUME device.packet # <<>>, Arrives(Head(device.packet), 4 - Len(device.packet))
          PROVE  PortOK'
      <4>1. Head(device.packet) \in Byte /\ 4 - Len(device.packet) \in Int
        BY <3>2, HeadAndTail, Elements DEF MouseTypeOK, DeviceOK
      <4> QED BY <2>1, <3>2, <4>1
    <3>3. ASSUME NEW p \in Packets, Arrives(p[1], 1) PROVE PortOK'
      <4>1. p[1] \in Byte
        BY MouseAssumption DEF Byte
      <4> QED BY <2>1, <3>3, <4>1
    <3> QED BY <2>2, <3>1, <3>2, <3>3 DEF MouseSends
  <2>3. ASSUME NEW code \in Scancodes, KeyArrives(code) PROVE PortOK'
    <3>1. code \in Byte /\ Foreign \in Int
      BY MouseAssumption DEF Byte, Foreign
    <3> QED BY <2>1, <2>3, <3>1 DEF KeyArrives
  <2>4. CASE UNCHANGED port
    BY <2>4 DEF MouseTypeOK, PortOK
  <2> QED BY <2>2, <2>3, <2>4 DEF EnableMouse, KeyboardReads, SetPosition, mouseVars
<1>4. DeviceOK'
  <2>1. CASE MouseSends
    <3>1. ASSUME device' = [device EXCEPT !.acks = @ - 1] PROVE DeviceOK'
      BY <3>1 DEF MouseTypeOK, DeviceOK
    <3>2. ASSUME device.packet # <<>>, device' = [device EXCEPT !.packet = Tail(@)]
          PROVE  DeviceOK'
      BY <3>2, HeadAndTail DEF MouseTypeOK, DeviceOK
    <3>3. ASSUME NEW p \in Packets, device' = [device EXCEPT !.packet = Tail(p)]
          PROVE  DeviceOK'
      <4>1. p \in [1 .. 3 -> Byte]
        BY MouseAssumption DEF Byte
      <4>2. p \in Seq(Byte) /\ Len(p) = 3
        BY <4>1
      <4>3. Tail(p) \in Seq(Byte)
        BY <4>2, HeadAndTail
      <4> QED BY <3>3, <4>3 DEF MouseTypeOK, DeviceOK
    <3> QED BY <2>1, <3>1, <3>2, <3>3 DEF MouseSends
  <2>2. CASE EnableMouse
    BY <2>2 DEF EnableMouse, MouseTypeOK, DeviceOK
  <2>3. CASE UNCHANGED device
    BY <2>3 DEF MouseTypeOK, DeviceOK
  <2> QED BY <2>1, <2>2, <2>3 DEF KeyboardReads, KeyArrives, SetPosition, mouseVars
<1>5. MouseTypeOK'
  BY <1>1, <1>2, <1>3, <1>4 DEF MouseTypeOK
<1>6. InHand'
  BY <1>1 DEF InHand, AfterOne, AfterTwo
<1> QED BY <1>1, <1>5, <1>6

(* Nothing has been heard at first.                                        *)
LEMMA MouseStarts == MouseInit => MouseInv
<1> SUFFICES ASSUME MouseInit PROVE MouseInv
  OBVIOUS
<1>1. MouseTypeOK
  BY DEF MouseInit, MouseTypeOK, PortOK, DeviceOK, StateOK, Byte, Foreign
<1>2. InHand
  BY DEF MouseInit, InHand
<1> QED BY <1>1, <1>2 DEF MouseInv

(* The bytes in hand are always the last ones heard.                       *)
LEMMA MouseInvAlways == MouseSpec => []MouseInv
<1>1. MouseInv /\ [MouseNext]_mouseVars => MouseInv'
  <2>1. ASSUME MouseInv, HandleInterrupt PROVE MouseInv'
    BY <2>1, HandlerKeepsTypes, HandlerKeepsInHand DEF MouseInv
  <2> QED BY <2>1, OthersKeep DEF MouseNext
<1> QED BY <1>1, MouseStarts, PTL DEF MouseSpec

-----------------------------------------------------------------------------
(* The third byte of a packet.                                             *)
LEMMA ThirdByte ==
  ASSUME MouseInv, HandleInterrupt, Len(heard') = 3
  PROVE  /\ Len(heard) = 2 /\ heard[1].cycle \in 0 .. 2
         /\ heard'[1] = heard[1] /\ heard'[2] = heard[2] /\ heard'[3].byte = port.byte
<1> DEFINE this == [byte |-> port.byte, nth |-> port.nth, cycle |-> Len(bytes)]
<1>1. /\ this \in Heard
      /\ heard' = <<this>> \/ heard' = Append(heard, this) \/ heard' = <<>>
  BY HeardCases DEF MouseInv
<1>2. this.byte = port.byte /\ heard \in Seq(Heard)
  BY DEF MouseInv, MouseTypeOK
<1> HIDE DEF this
<1>3. heard' = Append(heard, this)
  BY <1>1
<1>4. /\ Len(Append(heard, this)) = Len(heard) + 1 /\ Len(heard) \in Nat
      /\ \A k \in 1 .. Len(heard) : Append(heard, this)[k] = heard[k] /\ heard[k] \in Heard
      /\ Append(heard, this)[Len(heard) + 1] = this
  BY <1>1, <1>2, Appending, Elements
<1>5. Len(heard) = 2
  BY <1>3, <1>4, SMTT(30)
<1>6. heard'[1] = heard[1] /\ heard'[2] = heard[2] /\ heard'[3] = this
  BY <1>3, <1>5, <1>4
<1>7. heard[1].cycle \in 0 .. 2
  <2>1. heard[1] \in Heard
    BY <1>5, <1>4
  <2> QED BY <2>1 DEF Heard
<1> QED BY <1>2, <1>5, <1>6, <1>7

(* A packet whose first byte was taken for one is applied; one whose       *)
(* movement bytes cannot be taken for a first byte leaves none behind      *)
(* (mouse.c:52-80).                                                        *)
THEOREM PacketsAreAppliedAlways == MouseSpec => PacketsAreApplied
<1> DEFINE Taken(p) == p[1].cycle = 0 /\ Bit(p[1].byte, 3)
           Applied(p) ==
             /\ bytes' = <<>>
             /\ \A button \in {<<"left", 0>>, <<"right", 1>>, <<"middle", 2>>} :
                  mouse_state'[button[1]] = Bit(p[1].byte, button[2])
             /\ mouse_state'.x = (mouse_state.x + Distance(p[2].byte, Bit(p[1].byte, 4))) % PosMod
             /\ mouse_state'.y = (mouse_state.y - Distance(p[3].byte, Bit(p[1].byte, 5))) % PosMod
           Small(p) == ~Bit(p[2].byte, 3) /\ ~Bit(p[3].byte, 3)
<1>1. ASSUME MouseInv, [MouseNext]_mouseVars, Len(heard') = 3, heard' # heard
      PROVE  (Taken(heard') => Applied(heard')) /\ (Small(heard') => bytes' = <<>>)
  <2>1. HandleInterrupt
    BY <1>1, OthersKeep DEF MouseNext
  <2>2. /\ Len(heard) = 2 /\ heard[1].cycle \in 0 .. 2
        /\ heard'[1] = heard[1] /\ heard'[2] = heard[2] /\ heard'[3].byte = port.byte
    BY <1>1, <2>1, ThirdByte
  <2>3. AfterTwo(heard) /\ MouseTypeOK
    BY <1>1, <2>2 DEF MouseInv, InHand
  <2>4. ASSUME Taken(heard') PROVE Applied(heard')
    <3>1. bytes = <<heard[1].byte, heard[2].byte>>
      BY <2>2, <2>3, <2>4 DEF AfterTwo, InStep
    <3>2. Len(bytes) = 2 /\ bytes[1] = heard[1].byte /\ bytes[2] = heard[2].byte
      BY <3>1
    <3>3. /\ bytes' = <<>>
          /\ mouse_state' = Moved(mouse_state, heard[1].byte, heard[2].byte, port.byte)
      BY <2>1, <2>3, <3>2, HandlerCases
    <3>4. /\ heard[1].byte \in Byte /\ heard[2].byte \in Byte /\ port.byte \in Byte
          /\ mouse_state.x \in Int /\ mouse_state.y \in Int
      <4>0. \A k \in 1 .. Len(heard) : heard[k] \in Heard
        BY <2>3, Elements DEF MouseTypeOK
      <4>1. heard[1] \in Heard /\ heard[2] \in Heard
        BY <2>2, <4>0
      <4> QED BY <2>3, <4>1 DEF MouseTypeOK, PortOK, StateOK, Heard
    <3>5. mouse_state'.x = (mouse_state.x + Distance(heard[2].byte, Bit(heard[1].byte, 4))) % PosMod
      <4>1. (IF Bit(heard[1].byte, 4) THEN mouse_state.x - (heard[2].byte - 256)
                                      ELSE mouse_state.x + heard[2].byte)
              = mouse_state.x + Distance(heard[2].byte, Bit(heard[1].byte, 4))
        BY <3>4 DEF Distance, Byte
      <4> QED BY <3>3, <4>1 DEF Moved
    <3>6. mouse_state'.y = (mouse_state.y - Distance(port.byte, Bit(heard[1].byte, 5))) % PosMod
      <4>1. (IF Bit(heard[1].byte, 5) THEN mouse_state.y + (port.byte - 256)
                                      ELSE mouse_state.y - port.byte)
              = mouse_state.y - Distance(port.byte, Bit(heard[1].byte, 5))
        BY <3>4 DEF Distance, Byte
      <4> QED BY <3>3, <4>1 DEF Moved
    <3>7. /\ mouse_state'["left"] = Bit(heard[1].byte, 0)
          /\ mouse_state'["right"] = Bit(heard[1].byte, 1)
          /\ mouse_state'["middle"] = Bit(heard[1].byte, 2)
      BY <3>3 DEF Moved
    <3>8. ASSUME NEW button \in {<<"left", 0>>, <<"right", 1>>, <<"middle", 2>>}
          PROVE  mouse_state'[button[1]] = Bit(heard[1].byte, button[2])
      <4>1. CASE button = <<"left", 0>>
        BY <3>7, <4>1
      <4>2. CASE button = <<"right", 1>>
        BY <3>7, <4>2
      <4>3. CASE button = <<"middle", 2>>
        BY <3>7, <4>3
      <4> QED BY <3>8, <4>1, <4>2, <4>3
    <3> QED BY <2>2, <3>3, <3>5, <3>6, <3>8
  <2>5. ASSUME Small(heard') PROVE bytes' = <<>>
    <3>1. ~InStep(heard[2].byte) /\ ~InStep(port.byte)
      BY <2>2, <2>5 DEF InStep
    <3>2. CASE heard[1].cycle = 0 /\ InStep(heard[1].byte)
      <4>1. Len(bytes) = 2
        BY <2>3, <3>2 DEF AfterTwo
      <4> QED BY <2>1, <2>3, <4>1, HandlerCases
    <3>3. CASE ~(heard[1].cycle = 0 /\ InStep(heard[1].byte))
      <4>1. bytes = <<>>
        BY <2>3, <3>1, <3>3 DEF AfterTwo
      <4> QED BY <2>1, <2>3, <3>1, <4>1, HandlerCases
    <3> QED BY <3>2, <3>3
  <2> QED BY <2>4, <2>5
<1>2. MouseInv /\ [MouseNext]_mouseVars =>
        [Len(heard') = 3 /\ heard' # heard =>
           /\ Taken(heard') => Applied(heard')
           /\ Small(heard') => bytes' = <<>>]_mouseVars
  BY <1>1
<1> QED BY <1>2, MouseInvAlways, PTL DEF MouseSpec, PacketsAreApplied

-----------------------------------------------------------------------------
(* The network table.                                                      *)

(* A quiet device is down in its caller's structure, whatever the copy in  *)
(* the table says of it.                                                   *)
NetInv ==
  /\ owned \in [Devices -> [is_up : BOOLEAN, is_running : BOOLEAN]]
  /\ quiet \subseteq Devices
  /\ \A d \in quiet : ~owned[d].is_up
  /\ QuietUntilEnabled

(* The table is empty at first.                                            *)
LEMMA NetStarts == NetInit => NetInv
<1> QED
  BY DEF NetInit, NetInv, QuietUntilEnabled

(* network_init, registering a device, switching it, a driver that starts  *)
(* or stops and a packet passed keep it: a packet is counted only for a    *)
(* device that is up in its caller's structure.                            *)
LEMMA NetSteps == NetInv /\ [NetNext]_netVars => NetInv'
<1> SUFFICES ASSUME NetInv, [NetNext]_netVars PROVE NetInv'
  OBVIOUS
<1> USE DEF NetInv
<1>1. CASE NetworkInit
  BY <1>1, NetworkAssumption DEF NetworkInit, NotPassed, QuietUntilEnabled
<1>2. ASSUME NEW d \in Devices, Register(d) PROVE NetInv'
  BY <1>2, NetworkAssumption DEF Register, NotPassed, QuietUntilEnabled
<1>3. ASSUME NEW d \in Devices, NEW on \in BOOLEAN, SetDeviceState(d, on) PROVE NetInv'
  BY <1>3, NetworkAssumption DEF SetDeviceState, NotPassed, QuietUntilEnabled
<1>4. ASSUME NEW d \in Devices, NEW on \in BOOLEAN, DriverRuns(d, on) PROVE NetInv'
  BY <1>4, NetworkAssumption DEF DriverRuns, NotPassed, QuietUntilEnabled
<1>5. ASSUME NEW d \in Devices, NEW by \in Drivers[d], PassPacket(d, by) PROVE NetInv'
  BY <1>5 DEF PassPacket, QuietUntilEnabled
<1>6. CASE UNCHANGED netVars
  BY <1>6 DEF netVars, QuietUntilEnabled
<1> QED
  BY <1>1, <1>2, <1>3, <1>4, <1>5, <1>6 DEF NetNext

(* For any devices and any size of the table: network_receive_packet hands *)
(* nothing to a device that network_set_device_state has not switched on,  *)
(* although the table holds a copy that the caller's structure does not    *)
(* follow (network.c).                                                     *)
THEOREM QuietUntilEnabledAlways == NetSpec => []QuietUntilEnabled
<1>1. NetInv => QuietUntilEnabled
  BY DEF NetInv
<1> QED
  BY <1>1, NetStarts, NetSteps, PTL DEF NetSpec

-----------------------------------------------------------------------------
(* kernel/menuconfig.c.                                                    *)

(* A save that has begun keeps nothing before it ends, and between its two *)
(* files the first is complete.                                            *)
ConfigInv ==
  /\ enabled \subseteq Options /\ selected \in Options
  /\ kept = Nothing \/ kept \subseteq Options
  /\ stage \in {"config", "header"} => kept = Nothing
  /\ stage = "header" => config_file = [i \in Options |-> i \in enabled]
  /\ HeaderIsConfig

(* Nothing has been saved at first.                                        *)
LEMMA ConfigStarts == ConfigInit => ConfigInv
<1> QED
  BY MenuConfigAssumption DEF ConfigInit, ConfigInv, HeaderIsConfig, Options

(* Each step keeps it: loading, moving, toggling and quitting write no     *)
(* file, opening .config forgets the last save, and config.h is written    *)
(* from the options that .config was written from.                         *)
LEMMA ConfigSteps == ConfigInv /\ [ConfigNext]_menuConfigVars => ConfigInv'
<1> SUFFICES ASSUME ConfigInv, [ConfigNext]_menuConfigVars PROVE ConfigInv'
  OBVIOUS
<1> USE DEF ConfigInv, HeaderIsConfig
<1>1. CASE StartMenu
  <2>1. Loaded \subseteq Options /\ 0 \in Options
    BY MenuConfigAssumption DEF Loaded, Options
  <2> QED
    BY <1>1, <2>1 DEF StartMenu
<1>2. CASE MoveSelection
  BY <1>2 DEF MoveSelection
<1>3. CASE ToggleOption
  BY <1>3 DEF ToggleOption
<1>4. CASE Quit
  BY <1>4 DEF Quit
<1>5. CASE OpenConfig
  BY <1>5 DEF OpenConfig
<1>6. CASE CloseConfig
  BY <1>6 DEF CloseConfig
<1>7. CASE CloseHeader
  BY <1>7 DEF CloseHeader
<1>8. CASE Stopped
  BY <1>8 DEF Stopped
<1>9. CASE UNCHANGED menuConfigVars
  BY <1>9 DEF menuConfigVars
<1> QED
  BY <1>1, <1>2, <1>3, <1>4, <1>5, <1>6, <1>7, <1>8, <1>9 DEF ConfigNext

(* For any options and defaults: once a save has ended, and until the next *)
(* begins, config.h defines what .config enables, wherever a session       *)
(* before it was stopped and whichever file could not be opened            *)
(* (kernel/menuconfig.c).                                                  *)
THEOREM HeaderIsConfigAlways == ConfigSpec => []HeaderIsConfig
<1>1. ConfigInv => HeaderIsConfig
  BY DEF ConfigInv
<1> QED
  BY <1>1, ConfigStarts, ConfigSteps, PTL DEF ConfigSpec

-----------------------------------------------------------------------------
(* scripts/menuconfig.c.                                                   *)

(* What is said of a file or a string, that it is a sequence, in the       *)
(* prover's words.                                                         *)
LEMMA ReadSequence ==
  ASSUME NEW h, Len(h) \in Nat, h = [k \in 1 .. Len(h) |-> h[k]]
  PROVE  h \in Seq({h[k] : k \in 1 .. Len(h)})
  <1> DEFINE X == {h[k] : k \in 1 .. Len(h)}
  <1>1. h \in [1 .. Len(h) -> X]
    OBVIOUS
  <1> HIDE DEF X
  <1> QED BY <1>1

(* load_config's loop over the lines: it makes a sequence of them, and     *)
(* skips none when each has a value.                                       *)
LEMMA ValuedIs ==
  ASSUME IsSequence(header)
  PROVE  /\ Len(Valued) \in Nat /\ DOMAIN Valued = 1 .. Len(Valued)
         /\ (\A k \in 1 .. Len(header) : header[k].words # <<>>) => Valued = header
<1> DEFINE L == Len(header)
           X == {header[k] : k \in 1 .. L}
           step == [i \in Nat |-> [s \in Seq(X) |->
                     IF i \in 1 .. L /\ header[i].words # <<>> THEN Append(s, header[i]) ELSE s]]
           Reads(f) == f = [i \in 0 .. L |->
                        IF i = 0 THEN <<>>
                        ELSE IF header[i].words = <<>> THEN f[i - 1] ELSE Append(f[i - 1], header[i])]
<1>0. L \in Nat /\ header \in Seq(X) /\ header = [k \in 1 .. L |-> header[k]]
  BY ReadSequence DEF IsSequence
<1>1. step \in [Nat -> [Seq(X) -> Seq(X)]]
  OBVIOUS
<1>2. \E g : Iterates(g, Seq(X), <<>>, step, L)
  <2>1. L \in Nat /\ <<>> \in Seq(X) /\ Steps(step, Seq(X))
    BY <1>0, <1>1 DEF Steps
  <2> HIDE DEF step, X, L
  <2> QED BY <2>1, Recursion
<1>3. PICK g \in [0 .. L -> Seq(X)] : Reads(g)
  <2>1. PICK g \in [0 .. L -> Seq(X)] : g[0] = <<>> /\ \A i \in 1 .. L : g[i] = step[i][g[i - 1]]
    <3> HIDE DEF step, X, L
    <3> QED BY <1>2 DEF Iterates
  <2>2. ASSUME NEW i \in 0 .. L, i # 0
        PROVE  g[i] = IF header[i].words = <<>> THEN g[i - 1] ELSE Append(g[i - 1], header[i])
    <3>1. i \in Nat /\ i \in 1 .. L /\ i - 1 \in 0 .. L /\ g[i - 1] \in Seq(X)
      BY <2>2, <1>0
    <3>2. g[i] = step[i][g[i - 1]]
      BY <2>1, <3>1
    <3> HIDE DEF X, L
    <3> QED BY <3>1, <3>2
  <2> HIDE DEF step, X, L
  <2> QED BY <2>1, <2>2
<1> DEFINE f == CHOOSE f : Reads(f)
<1>4. Reads(f)
  <2> HIDE DEF Reads
  <2> QED BY <1>3
<1>5. Valued = f[L]
  BY DEF Valued
<1> HIDE DEF f
<1>6. 0 .. L \subseteq {i \in 0 .. L : f[i] \in Seq(X)}
  <2> DEFINE D == {i \in 0 .. L : f[i] \in Seq(X)}
  <2>1. 0 \in D
    BY <1>0, <1>4
  <2>2. ASSUME NEW i \in 1 .. L, i - 1 \in D PROVE i \in D
    <3>1. i \in 0 .. L /\ i # 0 /\ f[i - 1] \in Seq(X) /\ header[i] \in X
      BY <2>2, <1>0
    <3>2. f[i] = IF header[i].words = <<>> THEN f[i - 1] ELSE Append(f[i - 1], header[i])
      BY <1>4, <3>1
    <3>3. f[i] \in Seq(X)
      <4> HIDE DEF X, L
      <4> QED BY <3>1, <3>2
    <3> QED BY <3>1, <3>3
  <2>3. 0 .. L \subseteq D
    <3> HIDE DEF D, L
    <3> QED BY <1>0, <2>1, <2>2, Throughout
  <2> QED BY <2>3
<1>7. Len(Valued) \in Nat /\ DOMAIN Valued = 1 .. Len(Valued)
  <2>1. f[L] \in Seq(X)
    BY <1>6, <1>0
  <2> HIDE DEF X, L
  <2> QED BY <1>5, <2>1
<1>8. ASSUME \A k \in 1 .. L : header[k].words # <<>> PROVE Valued = header
  <2> DEFINE D == {i \in 0 .. L : f[i] = SubSeq(header, 1, i)}
  <2>1. 0 \in D
    <3>1. SubSeq(header, 1, 0) = <<>>
      BY <1>0
    <3> QED BY <1>0, <1>4, <3>1
  <2>2. ASSUME NEW i \in 1 .. L, i - 1 \in D PROVE i \in D
    <3>1. i \in 0 .. L /\ i # 0 /\ f[i - 1] = SubSeq(header, 1, i - 1)
      BY <2>2, <1>0
    <3>2. f[i] = Append(f[i - 1], header[i])
      BY <1>4, <1>8, <3>1
    <3>3. Append(SubSeq(header, 1, i - 1), header[i]) = SubSeq(header, 1, i)
      <4> HIDE DEF X
      <4> QED BY <1>0
    <3> QED BY <3>1, <3>2, <3>3
  <2>3. L \in D
    <3> HIDE DEF D, L
    <3> QED BY <1>0, <2>1, <2>2, Throughout
  <2>4. SubSeq(header, 1, L) = header
    <3> HIDE DEF X
    <3> QED BY <1>0
  <2> QED BY <1>5, <2>3, <2>4
<1> QED BY <1>7, <1>8

-----------------------------------------------------------------------------
EntryOK(e) ==
  /\ e = [name |-> e.name, words |-> e.words, type |-> e.type]
  /\ \/ e.type = "bool" /\ e.words \in {<<"0">>, <<"1">>}
     \/ e.type = "int" /\ \E w \in DOMAIN AtoiOf : e.words = <<w>> /\ AtoiOf[w] = w
     \/ e.type = "string" /\ IsSequence(e.words)

Table(t) == IsSequence(t) /\ \A i \in DOMAIN t : EntryOK(t[i])

LinesOf(t) == [i \in DOMAIN t |-> [name |-> t[i].name, words |-> t[i].words]]

HeaderInv ==
  /\ IsSequence(header) /\ Table(entries) /\ Table(saved)
  /\ mode = "saving" => saved = Unsaved
  /\ saved # Unsaved => header = LinesOf(saved)

(* What load_config reads from a line is an option of one of its three     *)
(* types.                                                                  *)
LEMMA EntryIsOK == ASSUME NEW line PROVE EntryOK(Entry(line))
<1> DEFINE word == line.words[1]
<1>1. CASE word \in {"0", "1"}
  BY <1>1 DEF Entry, EntryOK
<1>2. CASE word \in DOMAIN AtoiOf \ {"0", "1"}
  <2>1. AtoiOf[word] \in DOMAIN AtoiOf /\ AtoiOf[AtoiOf[word]] = AtoiOf[word]
    BY <1>2, HeaderAssumption
  <2>2. Entry(line) = [name |-> line.name, words |-> <<AtoiOf[word]>>, type |-> "int"]
    BY <1>2 DEF Entry
  <2> HIDE DEF word
  <2> QED BY <2>1, <2>2 DEF EntryOK
<1>3. CASE word \notin DOMAIN AtoiOf
  <2>1. Entry(line) = [name |-> line.name, words |-> <<word>>, type |-> "string"]
    BY <1>3, HeaderAssumption DEF Entry
  <2>2. IsSequence(<<word>>)
    BY DEF IsSequence
  <2> HIDE DEF word
  <2> QED BY <2>1, <2>2 DEF EntryOK
<1> QED BY <1>1, <1>2, <1>3

(* A lasting option read from the line save_config wrote for it is the     *)
(* option.                                                                 *)
LEMMA LastingIsReadBack ==
  ASSUME NEW e, EntryOK(e), Lasting(e)
  PROVE  /\ Entry([name |-> e.name, words |-> e.words]) = e
         /\ e.words # <<>>
<1> DEFINE line == [name |-> e.name, words |-> e.words]
<1>1. CASE e.type = "bool" /\ e.words \in {<<"0">>, <<"1">>}
  <2>1. line.words[1] \in {"0", "1"} /\ e.words = <<line.words[1]>>
    BY <1>1
  <2>2. Entry(line) = [name |-> e.name, words |-> e.words, type |-> "bool"]
    BY <2>1 DEF Entry
  <2> QED BY <1>1, <2>2 DEF EntryOK
<1>2. ASSUME e.type = "int", NEW w \in DOMAIN AtoiOf, e.words = <<w>>, AtoiOf[w] = w
      PROVE  /\ Entry(line) = e /\ e.words # <<>>
  <2>1. line.words[1] = w /\ w \notin {"0", "1"}
    BY <1>2 DEF Lasting
  <2>2. Entry(line) = [name |-> e.name, words |-> e.words, type |-> "int"]
    BY <1>2, <2>1 DEF Entry
  <2> QED BY <1>2, <2>2 DEF EntryOK
<1>3. CASE e.type = "string" /\ IsSequence(e.words)
  <2>1. Len(e.words) = 1 /\ e.words[1] \notin DOMAIN AtoiOf
    BY <1>3 DEF Lasting
  <2>2. e.words = <<e.words[1]>>
    BY <1>3, <2>1 DEF IsSequence
  <2>3. Entry(line) = [name |-> e.name, words |-> e.words, type |-> "string"]
    BY <2>1, <2>2, HeaderAssumption DEF Entry
  <2> QED BY <1>3, <2>2, <2>3 DEF EntryOK
<1> QED BY <1>1, <1>2, <1>3 DEF EntryOK

(* save_config writes a line for every option, and what a save that is     *)
(* stopped leaves of them is a file too.                                   *)
LEMMA LinesAreSequence ==
  ASSUME NEW t, IsSequence(t)
  PROVE  /\ IsSequence(LinesOf(t)) /\ Len(LinesOf(t)) = Len(t)
         /\ DOMAIN t = 1 .. Len(t)
         /\ \A k \in 0 .. Len(t) : IsSequence(SubSeq(LinesOf(t), 1, k))
<1> DEFINE n == Len(t)
           l == LinesOf(t)
           LineFor(i) == [name |-> t[i].name, words |-> t[i].words]
           X == {LineFor(i) : i \in 1 .. n}
<1>1. n \in Nat /\ DOMAIN t = 1 .. n
  BY DEF IsSequence
<1>2. l = [i \in 1 .. n |-> LineFor(i)]
  BY <1>1 DEF LinesOf
<1>3. l \in Seq(X) /\ Len(l) = n
  <2>1. l \in [1 .. n -> X]
    BY <1>2
  <2>2. DOMAIN l = 1 .. n
    BY <1>2
  <2> HIDE DEF X, l, n
  <2> QED BY <1>1, <2>1, <2>2
<1>4. ASSUME NEW s \in Seq(X) PROVE IsSequence(s)
  <2> HIDE DEF X
  <2> QED BY <1>4 DEF IsSequence
<1>5. ASSUME NEW k \in 0 .. n PROVE SubSeq(l, 1, k) \in Seq(X)
  <2> HIDE DEF X, l, n
  <2> QED BY <1>1, <1>3, <1>5
<1> HIDE DEF X, l
<1> QED BY <1>1, <1>3, <1>4, <1>5 DEF l

(* A table as long as a sequence is one.                                   *)
LEMMA SameDomain ==
  ASSUME NEW s, IsSequence(s), NEW t, t = [i \in DOMAIN s |-> t[i]]
  PROVE  IsSequence(t)
<1> DEFINE n == Len(s)
           X == {t[i] : i \in 1 .. n}
<1>1. n \in Nat /\ t = [i \in 1 .. n |-> t[i]]
  BY DEF IsSequence
<1>2. t \in [1 .. n -> X]
  BY <1>1
<1>3. DOMAIN t = 1 .. n
  BY <1>1
<1> HIDE DEF X, n
<1>4. t \in Seq(X) /\ Len(t) = n
  BY <1>1, <1>2, <1>3
<1> QED BY <1>1, <1>4 DEF IsSequence

(* A session of scripts/menuconfig.c that starts on a file that holds a    *)
(* save of lasting options shows that save.                                *)
LEMMA SavedIsRead ==
  ASSUME HeaderInv, StartEditor, saved # Unsaved, \A i \in DOMAIN saved : Lasting(saved[i])
  PROVE  entries' = saved
<1>1. header = LinesOf(saved) /\ Table(saved)
  BY DEF HeaderInv
<1>2. DOMAIN saved = 1 .. Len(saved) /\ Len(header) = Len(saved) /\ IsSequence(header)
  BY <1>1, LinesAreSequence DEF Table
<1>3. ASSUME NEW i \in DOMAIN saved
      PROVE  /\ header[i] = [name |-> saved[i].name, words |-> saved[i].words]
             /\ header[i].words # <<>>
             /\ Entry(header[i]) = saved[i]
  <2>1. EntryOK(saved[i]) /\ Lasting(saved[i])
    BY <1>1 DEF Table
  <2>2. header[i] = [name |-> saved[i].name, words |-> saved[i].words]
    BY <1>1 DEF LinesOf
  <2> QED BY <2>1, <2>2, LastingIsReadBack
<1>4. Valued = header
  <2>1. \A k \in 1 .. Len(header) : header[k].words # <<>>
    BY <1>2, <1>3
  <2> QED BY <1>2, <2>1, ValuedIs
<1>5. entries' = [i \in DOMAIN saved |-> Entry(header[i])]
  <2>1. DOMAIN header = DOMAIN saved
    BY <1>1 DEF LinesOf
  <2> QED BY <1>4, <2>1 DEF StartEditor
<1>6. saved = [i \in DOMAIN saved |-> saved[i]]
  <2>1. IsSequence(saved)
    BY <1>1 DEF Table
  <2> QED BY <1>2, <2>1 DEF IsSequence
<1> QED BY <1>3, <1>5, <1>6

(* No option has been loaded at first.                                     *)
LEMMA HeaderStarts == HeaderInit => HeaderInv
<1> SUFFICES ASSUME HeaderInit PROVE HeaderInv
  OBVIOUS
<1>1. Table(<<>>)
  BY DEF Table, IsSequence
<1>2. IsSequence(header)
  BY HeaderAssumption DEF HeaderInit
<1> QED BY <1>1, <1>2 DEF HeaderInit, HeaderInv, Unsaved

(* Each step of scripts/menuconfig.c keeps the tables well formed, and the *)
(* file what was saved until it is opened for writing again.               *)
LEMMA HeaderSteps == HeaderInv /\ [HeaderNext]_headerVars => HeaderInv'
<1> SUFFICES ASSUME HeaderInv, [HeaderNext]_headerVars PROVE HeaderInv'
  OBVIOUS
<1>0. Table(<<>>) /\ IsSequence(<<>>)
  BY DEF Table, IsSequence
<1>1. CASE StartEditor
  <2>1. Len(Valued) \in Nat /\ DOMAIN Valued = 1 .. Len(Valued)
    BY ValuedIs DEF HeaderInv
  <2>2. entries' = [i \in 1 .. Len(Valued) |-> Entry(Valued[i])]
    BY <1>1, <2>1 DEF StartEditor
  <2>3. IsSequence(entries')
    BY <2>1, <2>2 DEF IsSequence
  <2>4. \A i \in DOMAIN entries' : EntryOK(entries'[i])
    BY <2>2, EntryIsOK
  <2>5. Table(entries')
    BY <2>3, <2>4 DEF Table
  <2>6. mode' # "saving" /\ UNCHANGED <<header, saved>>
    BY <1>1 DEF StartEditor
  <2> QED BY <2>5, <2>6 DEF HeaderInv
<1>2. CASE MoveCurrent
  BY <1>2 DEF MoveCurrent, HeaderInv
<1>3. CASE ToggleEntry
  <2>1. /\ current + 1 \in DOMAIN entries /\ entries[current + 1].type = "bool"
        /\ entries' = [entries EXCEPT ![current + 1].words = <<Flip(entries[current + 1].words[1])>>]
        /\ UNCHANGED <<header, mode, saved>>
    BY <1>3 DEF ToggleEntry
  <2>2. EntryOK(entries'[current + 1])
    <3>1. EntryOK(entries[current + 1])
      BY <2>1 DEF HeaderInv, Table
    <3>2. Flip(entries[current + 1].words[1]) \in {"0", "1"}
      BY DEF Flip
    <3>3. entries'[current + 1] = [entries[current + 1] EXCEPT !.words = <<Flip(entries[current + 1].words[1])>>]
      BY <2>1
    <3> QED BY <2>1, <3>1, <3>2, <3>3 DEF EntryOK
  <2>3. Table(entries')
    <3>1. DOMAIN entries' = DOMAIN entries /\ \A i \in DOMAIN entries : i # current + 1 => entries'[i] = entries[i]
      BY <2>1
    <3>2. IsSequence(entries')
      <4>1. entries' = [i \in DOMAIN entries |-> entries'[i]]
        BY <2>1
      <4> QED BY <4>1, SameDomain DEF HeaderInv, Table
    <3> QED BY <2>2, <3>1, <3>2 DEF HeaderInv, Table
  <2> QED BY <2>1, <2>3 DEF HeaderInv
<1>4. ASSUME NEW input \in Inputs, EditEntry(input) PROVE HeaderInv'
  <2>1. /\ current + 1 \in DOMAIN entries /\ entries[current + 1].type = "string"
        /\ entries' = [entries EXCEPT ![current + 1].words = input]
        /\ mode' # "saving" /\ UNCHANGED <<header, saved>>
    BY <1>4 DEF EditEntry, Drawn
  <2>2. EntryOK(entries'[current + 1])
    <3>1. EntryOK(entries[current + 1])
      BY <2>1 DEF HeaderInv, Table
    <3>2. IsSequence(input)
      BY HeaderAssumption
    <3>3. entries'[current + 1] = [entries[current + 1] EXCEPT !.words = input]
      BY <2>1
    <3> QED BY <2>1, <3>1, <3>2, <3>3 DEF EntryOK
  <2>3. Table(entries')
    <3>1. DOMAIN entries' = DOMAIN entries /\ \A i \in DOMAIN entries : i # current + 1 => entries'[i] = entries[i]
      BY <2>1
    <3>2. IsSequence(entries')
      <4>1. entries' = [i \in DOMAIN entries |-> entries'[i]]
        BY <2>1
      <4> QED BY <4>1, SameDomain DEF HeaderInv, Table
    <3> QED BY <2>2, <3>1, <3>2 DEF HeaderInv, Table
  <2> QED BY <2>1, <2>3 DEF HeaderInv
<1>5. CASE OpenHeader
  <2>1. UNCHANGED entries
    BY <1>5 DEF OpenHeader
  <2>2. CASE mode' = "exited" /\ UNCHANGED <<header, saved>>
    BY <2>1, <2>2 DEF HeaderInv
  <2>3. CASE header' = <<>> /\ saved' = Unsaved
    BY <1>0, <2>1, <2>3 DEF HeaderInv, Unsaved
  <2> QED BY <1>5, <2>2, <2>3 DEF OpenHeader
<1>6. CASE WriteHeader
  <2>1. mode' # "saving" /\ header' = LinesOf(entries) /\ saved' = entries /\ entries' = entries
    BY <1>6 DEF WriteHeader, Lines, LinesOf
  <2>2. IsSequence(LinesOf(entries)) /\ Table(entries)
    BY LinesAreSequence DEF HeaderInv, Table
  <2> QED BY <2>1, <2>2 DEF HeaderInv
<1>7. CASE LeaveEditor
  <2>1. entries' = <<>> /\ saved' = saved /\ mode' # "saving"
    BY <1>7 DEF LeaveEditor
  <2>2. CASE mode = "saving"
    <3>1. IsSequence(entries) /\ saved' = Unsaved
      BY <2>1, <2>2 DEF HeaderInv, Table
    <3>2. PICK k \in 0 .. Len(entries) : header' = SubSeq(LinesOf(entries), 1, k)
      BY <1>7, <2>2 DEF LeaveEditor, Lines, LinesOf
    <3>3. IsSequence(header')
      BY <3>1, <3>2, LinesAreSequence
    <3> QED BY <1>0, <2>1, <3>1, <3>3 DEF HeaderInv, Unsaved
  <2>3. CASE header' = header
    BY <1>0, <2>1, <2>3 DEF HeaderInv
  <2> QED BY <1>7, <2>2, <2>3 DEF LeaveEditor
<1>8. CASE UNCHANGED headerVars
  BY <1>8 DEF headerVars, HeaderInv
<1> QED BY <1>1, <1>2, <1>3, <1>4, <1>5, <1>6, <1>7, <1>8 DEF HeaderNext

(* The two programs work on files of their own.                            *)
LEMMA ToolInvAlways == ToolSpec => [](ConfigInv /\ HeaderInv)
<1>1. ToolInit => ConfigInv /\ HeaderInv
  BY ConfigStarts, HeaderStarts DEF ToolInit
<1>2. ConfigInv /\ HeaderInv /\ [ToolNext]_toolVars => (ConfigInv /\ HeaderInv)'
  <2>1. [ToolNext]_toolVars => [ConfigNext]_menuConfigVars /\ [HeaderNext]_headerVars
    BY DEF ToolNext, toolVars
  <2> QED BY <2>1, ConfigSteps, HeaderSteps
<1> QED BY <1>1, <1>2, PTL DEF ToolSpec

(* For any files, options, words typed and numbers: a session that starts  *)
(* on files whose last save ended shows what was saved; in                 *)
(* scripts/menuconfig.c if every option saved is a lasting one.            *)
THEOREM SavedIsSeenAgainAlways == ToolSpec => SavedIsSeenAgain
<1> DEFINE Again == /\ StartMenu /\ kept # Nothing => enabled' = kept
                    /\ StartEditor /\ saved # Unsaved /\ (\A i \in DOMAIN saved : Lasting(saved[i]))
                         => entries' = saved
<1>1. ConfigInv /\ HeaderInv => Again
  <2>1. ASSUME ConfigInv, StartMenu, kept # Nothing PROVE enabled' = kept
    <3>1. Loaded = kept
      BY <2>1 DEF ConfigInv, HeaderIsConfig, Loaded
    <3> QED BY <2>1, <3>1 DEF StartMenu
  <2> QED BY <2>1, SavedIsRead
<1>2. ConfigInv /\ HeaderInv /\ [ToolNext]_toolVars => [Again]_toolVars
  BY <1>1
<1> QED BY <1>2, ToolInvAlways, PTL DEF ToolSpec, SavedIsSeenAgain

-----------------------------------------------------------------------------
(* The dock.                                                               *)

Item == [is_running : BOOLEAN, is_active : BOOLEAN]

DockInv ==
  /\ dock_x \in Int /\ dock_y \in Int
  /\ dock_items \in Seq(Item)
  /\ canvas = Wiped \/ canvas = [i \in DOMAIN dock_items |-> ColourOf(dock_items[i])]

(* dock_init: no items, and nothing drawn.                                 *)
LEMMA DockStarts == DockInit => DockInv
<1> SUFFICES ASSUME DockInit PROVE DockInv
  OBVIOUS
<1>1. DeskWidth \in Int /\ MaxDockItems \in Int /\ ItemSize + ItemGap \in Int
  BY DockAssumption
<1> DEFINE row == MaxDockItems * (ItemSize + ItemGap)
<1>2. row \in Int
  BY <1>1
<1>3. dock_x \in Int
  <2>1. dock_x = (DeskWidth - row) \div 2
    BY DEF DockInit
  <2> HIDE DEF row
  <2> QED BY <1>1, <1>2, <2>1
<1>4. dock_y \in Int
  BY DockAssumption DEF DockInit
<1> QED BY <1>3, <1>4 DEF DockInit, DockInv

(* A flag of an item that is set leaves a row of items.                    *)
LEMMA ItemChanged ==
  ASSUME dock_items \in Seq(Item), NEW k \in DOMAIN dock_items, NEW item \in Item
  PROVE  [dock_items EXCEPT ![k] = item] \in Seq(Item)
<1> DEFINE n == Len(dock_items)
           new == [dock_items EXCEPT ![k] = item]
<1> HIDE DEF Item
<1>1. n \in Nat /\ dock_items \in [1 .. n -> Item] /\ k \in 1 .. n
  OBVIOUS
<1>2. new \in [1 .. n -> Item]
  <2> HIDE DEF n
  <2> QED BY <1>1
<1> HIDE DEF n, new
<1>3. new \in Seq(Item)
  BY <1>1, <1>2
<1> QED BY <1>3 DEF new

(* Adding an item and setting its flags draw the dock again; desktop_draw  *)
(* wipes it.                                                               *)
LEMMA DockSteps == DockInv /\ [DockNext]_dockVars => DockInv'
<1> SUFFICES ASSUME DockInv, [DockNext]_dockVars PROVE DockInv'
  OBVIOUS
<1>1. CASE AddDockItem
  BY <1>1 DEF AddDockItem, DockDraw, DockInv, Item, ColourOf
<1>2. CASE DesktopWipes
  BY <1>2 DEF DesktopWipes, DockInv
<1>3. ASSUME NEW id \in -1 .. MaxDockItems, NEW on \in BOOLEAN, SetRunning(id, on)
      PROVE  DockInv'
  <2>1. dock_items' \in Seq(Item)
    <3>1. dock_items[id + 1] \in Item
      BY <1>3 DEF SetRunning, DockInv
    <3>2. [dock_items[id + 1] EXCEPT !.is_running = on] \in Item
      BY <3>1 DEF Item
    <3>3. dock_items' = [dock_items EXCEPT ![id + 1] = [dock_items[id + 1] EXCEPT !.is_running = on]]
      BY <1>3 DEF SetRunning
    <3> QED BY <1>3, <3>2, <3>3, ItemChanged DEF SetRunning, DockInv
  <2> QED BY <1>3, <2>1 DEF SetRunning, DockDraw, DockInv, ColourOf
<1>4. ASSUME NEW id \in -1 .. MaxDockItems, NEW on \in BOOLEAN, SetActive(id, on)
      PROVE  DockInv'
  <2>1. dock_items' \in Seq(Item)
    <3>1. dock_items[id + 1] \in Item
      BY <1>4 DEF SetActive, DockInv
    <3>2. [dock_items[id + 1] EXCEPT !.is_active = on] \in Item
      BY <3>1 DEF Item
    <3>3. dock_items' = [dock_items EXCEPT ![id + 1] = [dock_items[id + 1] EXCEPT !.is_active = on]]
      BY <1>4 DEF SetActive
    <3> QED BY <1>4, <3>2, <3>3, ItemChanged DEF SetActive, DockInv
  <2> QED BY <1>4, <2>1 DEF SetActive, DockDraw, DockInv, ColourOf
<1>5. CASE UNCHANGED dockVars
  BY <1>5 DEF dockVars, DockInv, ColourOf
<1> QED BY <1>1, <1>2, <1>3, <1>4, <1>5 DEF DockNext

(* The squares of two items share no point: the left one ends before the   *)
(* right one begins.                                                       *)
LEMMA InRow ==
  ASSUME dock_x \in Int, NEW i \in Nat, NEW j \in Nat, i < j
  PROVE  ItemX(i) \in Int /\ ItemX(j) \in Int /\ ItemX(i) + ItemSize <= ItemX(j)
<1> DEFINE w == ItemSize + ItemGap
<1>1. w \in Nat /\ ItemSize <= w
  BY DockAssumption
<1>2. i * w \in Int /\ j * w \in Int /\ (j - i - 1) * w \in Nat /\ j * w = i * w + w + (j - i - 1) * w
  <2> HIDE DEF w
  <2>1. j - i - 1 \in Nat
    OBVIOUS
  <2> QED BY <1>1, <2>1
<1>3. ItemX(i) = dock_x + i * w /\ ItemX(j) = dock_x + j * w
  BY DEF ItemX
<1> HIDE DEF w
<1> QED BY <1>1, <1>2, <1>3, DockAssumption

(* A point of an item's square, in the words of the loop of                *)
(* dock_handle_click that looks it up.                                     *)
LEMMA InSquare ==
  ASSUME DockInv, NEW i \in Nat, NEW x \in Int, NEW y \in Int
  PROVE  /\ <<x, y>> \in Square(i) <=> /\ x >= ItemX(i) /\ x < ItemX(i) + ItemSize
                                       /\ y >= ItemY /\ y < ItemY + ItemSize
         /\ <<x, y>> \in Square(i) => y >= dock_y /\ y <= dock_y + DockHeight
<1> DEFINE X == ItemX(i)
           Y == ItemY
<1>1. X \in Int /\ Y \in Int /\ ItemSize \in Nat
  <2>1. X \in Int
    BY InRow, DockAssumption DEF DockInv
  <2> QED BY <2>1, DockAssumption DEF DockInv, ItemY
<1>2. dock_y <= Y /\ Y + ItemSize <= dock_y + DockHeight
  BY DockAssumption DEF DockInv, ItemY
<1>3. Square(i) = {<<X + a, Y + b>> : a \in 0 .. ItemSize - 1, b \in 0 .. ItemSize - 1}
  BY DEF Square
<1> HIDE DEF X, Y
<1>4. <<x, y>> \in Square(i) <=> x >= X /\ x < X + ItemSize /\ y >= Y /\ y < Y + ItemSize
  <2>1. ASSUME x >= X, x < X + ItemSize, y >= Y, y < Y + ItemSize PROVE <<x, y>> \in Square(i)
    <3>1. x - X \in 0 .. ItemSize - 1 /\ y - Y \in 0 .. ItemSize - 1
      BY <1>1, <2>1
    <3>2. <<x, y>> = <<X + (x - X), Y + (y - Y)>>
      BY <1>1
    <3> QED BY <1>3, <3>1, <3>2
  <2>2. ASSUME <<x, y>> \in Square(i) PROVE x >= X /\ x < X + ItemSize /\ y >= Y /\ y < Y + ItemSize
    BY <1>1, <1>3, <2>2
  <2> QED BY <2>1, <2>2
<1> QED BY <1>1, <1>2, <1>4, DockAssumption DEF X, Y, DockInv

(* As long as the dock is drawn the item under a click is the one seen     *)
(* there: at most one square holds the point, so the first one found is    *)
(* the last one painted.                                                   *)
LEMMA ClickMeets == DockInv => ClickMeetsWhatIsSeen
<1> SUFFICES ASSUME DockInv, canvas # Wiped,
                    NEW x \in 0 .. DeskWidth - 1, NEW y \in 0 .. DeskHeight - 1
             PROVE  LET i == HandleClick(x, y) IN
                    /\ Seen(<<x, y>>) = i
                    /\ i >= 0 => canvas[i + 1] = ColourOf(dock_items[i + 1])
  BY DEF ClickMeetsWhatIsSeen
<1> DEFINE n == Len(dock_items)
           Meets(i) == <<x, y>> \in Square(i)
           hit == {i \in 0 .. n - 1 : /\ x >= ItemX(i) /\ x < ItemX(i) + ItemSize
                                      /\ y >= ItemY /\ y < ItemY + ItemSize}
           over == {i \in DOMAIN canvas : <<x, y>> \in Square(i - 1)}
<1>1. /\ n \in Nat /\ x \in Int /\ y \in Int
      /\ canvas = [i \in 1 .. n |-> ColourOf(dock_items[i])]
  <2>1. n \in Nat /\ DOMAIN dock_items = 1 .. n
    BY DEF DockInv
  <2>2. x \in Int /\ y \in Int
    BY DockAssumption
  <2>3. canvas = [i \in DOMAIN dock_items |-> ColourOf(dock_items[i])]
    BY DEF DockInv
  <2> QED BY <2>1, <2>2, <2>3
<1>2. hit = {i \in 0 .. n - 1 : Meets(i)}
  BY <1>1, InSquare
<1>3. over = {i \in 1 .. n : Meets(i - 1)}
  BY <1>1
<1>4. \A i, j \in 0 .. n - 1 : Meets(i) /\ Meets(j) => i = j
  <2>1. ASSUME NEW i \in 0 .. n - 1, NEW j \in 0 .. n - 1, Meets(i), Meets(j), i < j PROVE FALSE
    <3>1. x < ItemX(i) + ItemSize /\ x >= ItemX(j)
      BY <1>1, <2>1, InSquare
    <3>2. ItemX(i) \in Int /\ ItemX(j) \in Int /\ ItemX(i) + ItemSize <= ItemX(j)
      BY <1>1, <2>1, InRow DEF DockInv
    <3>3. ItemSize \in Int
      BY DockAssumption
    <3> QED BY <1>1, <3>1, <3>2, <3>3
  <2> HIDE DEF Meets
  <2> QED BY <1>1, <2>1
<1>5. HandleClick(x, y) = IF y < dock_y \/ y > dock_y + DockHeight \/ hit = {} THEN -1
                          ELSE CHOOSE i \in hit : \A j \in hit : i <= j
  BY DEF HandleClick
<1>6. Seen(<<x, y>>) = IF over = {} THEN -1 ELSE (CHOOSE i \in over : \A j \in over : j <= i) - 1
  BY DEF Seen
<1>7. CASE \A i \in 0 .. n - 1 : ~Meets(i)
  <2>1. hit = {} /\ over = {}
    <3> HIDE DEF hit, over, Meets
    <3> QED BY <1>1, <1>2, <1>3, <1>7
  <2> QED BY <1>5, <1>6, <2>1
<1>8. ASSUME NEW i \in 0 .. n - 1, Meets(i)
      PROVE  /\ Seen(<<x, y>>) = i /\ HandleClick(x, y) = i
             /\ canvas[i + 1] = ColourOf(dock_items[i + 1])
  <2>1. ~(y < dock_y) /\ ~(y > dock_y + DockHeight)
    BY <1>1, <1>8, InSquare, DockAssumption DEF DockInv
  <2>2. hit = {i} /\ over = {i + 1}
    <3> HIDE DEF hit, over, Meets
    <3> QED BY <1>1, <1>2, <1>3, <1>4, <1>8
  <2>3. HandleClick(x, y) = i
    <3> HIDE DEF hit
    <3> QED BY <1>1, <1>5, <2>1, <2>2
  <2>4. Seen(<<x, y>>) = i
    <3> HIDE DEF over
    <3> QED BY <1>1, <1>6, <2>2
  <2> QED BY <1>1, <2>3, <2>4
<1> QED BY <1>1, <1>7, <1>8, <1>5, <1>6

(* For any sizes of the desktop, the dock and its items, with the items no *)
(* taller than the dock: dock_handle_click answers with the item that      *)
(* dock_draw shows at that point, drawn as it is now (de/dock.c).          *)
THEOREM ClickMeetsWhatIsSeenAlways == DockSpec => []ClickMeetsWhatIsSeen
<1> QED BY DockStarts, DockSteps, ClickMeets, PTL DEF DockSpec

-----------------------------------------------------------------------------
(* The text console.                                                       *)

Symbols == Chars \cup {Blank, Newline}

(* CursorOnScreen and StaleOnlyAtRowStart, which are inductive together.   *)
TermInv == term \in Console(Symbols) /\ Fresh(term)

(* terminal_initialize leaves a blank screen with the cursor in its first  *)
(* cell.                                                                   *)
LEMMA TermStarts == TermInit => TermInv
<1> SUFFICES ASSUME TermInit PROVE TermInv
  OBVIOUS
<1>1. 0 \in Rows /\ 0 \in Cols /\ 0 \in Cells
  BY ScreenSize DEF Sized, Cells
<1>2. BlankScreen \in [Cells -> Symbols]
  BY DEF BlankScreen, Symbols
<1>3. term \in Console(Symbols)
  BY <1>1, <1>2 DEF TermInit, InitialTerminal, Console
<1> QED BY <1>3 DEF TermInv, Fresh, TermInit, InitialTerminal

(* Every call of the console keeps the cursor on the screen.               *)
LEMMA TermSteps == TermInv /\ [TermNext]_termVars => TermInv'
<1> SUFFICES ASSUME TermInv, [TermNext]_termVars PROVE TermInv'
  OBVIOUS
<1>1. term \in Console(Symbols) /\ Fresh(term) /\ Blank \in Symbols
  BY DEF TermInv, Symbols
<1> SUFFICES term' \in Console(Symbols) /\ Fresh(term')
  BY DEF TermInv, Console, Fresh, Position, At
<1>2. \A string \in Strings : string \in Seq(Symbols) /\ string \in Seq(Symbols \cup {Newline})
  <2>1. Chars \cup {Newline} \subseteq Symbols
    BY DEF Symbols
  <2> QED BY <2>1, WrittenAssumption
<1>3. ASSUME NEW c \in Chars \cup {Newline}, PutChar(c) \/ Putchar(c)
      PROVE  term' \in Console(Symbols) /\ Fresh(term')
  <2>1. c \in Symbols \cup {Newline}
    BY DEF Symbols
  <2> QED BY <1>1, <1>3, <2>1, PutCharKeeps DEF PutChar, Putchar
<1>4. ASSUME NEW string \in Strings, WriteString(string)
      PROVE  term' \in Console(Symbols) /\ Fresh(term')
  BY <1>1, <1>2, <1>4, WritingKeeps DEF WriteString
<1>5. ASSUME ClearScreen \/ DeleteChar \/ ClearLine
      PROVE  term' \in Console(Symbols) /\ Fresh(term')
  BY <1>1, <1>5, ClearsKeep DEF ClearScreen, DeleteChar, ClearLine
<1>6. ASSUME NEW x \in -1 .. Width, NEW y \in -1 .. Height, PutPixel(x, y)
      PROVE  term' \in Console(Symbols) /\ Fresh(term')
  <2>1. x \in Int /\ y \in Int
    OBVIOUS
  <2> QED BY <1>1, <1>6, <2>1, PaintingKeeps DEF PutPixel
<1>7. ASSUME NEW x \in -1 .. Width, NEW y \in -1 .. Height, MoveCursor(y, x)
      PROVE  term' \in Console(Symbols) /\ Fresh(term')
  <2>1. x \in Int /\ y \in Int
    OBVIOUS
  <2> QED BY <1>1, <1>7, <2>1, CursorMovesKeep DEF MoveCursor
<1>8. ASSUME NEW x \in Cols, NEW y \in Rows, NEW string \in Strings, DrawStringAt(x, y, string)
      PROVE  term' \in Console(Symbols) /\ Fresh(term')
  <2>1. x \in Int /\ y \in Int
    BY DEF Rows, Cols
  <2> QED BY <1>1, <1>2, <1>8, <2>1, PaintingKeeps DEF DrawStringAt
<1>9. ASSUME MoveCursorLeft \/ MoveCursorRight
      PROVE  term' \in Console(Symbols) /\ Fresh(term')
  BY <1>1, <1>9, CursorMovesKeep DEF MoveCursorLeft, MoveCursorRight
<1>10. CASE UNCHANGED termVars
  BY <1>1, <1>10 DEF termVars
<1> QED BY <1>3, <1>4, <1>5, <1>6, <1>7, <1>8, <1>9, <1>10 DEF TermNext

(* The console is always one whose cursor is on the screen.                *)
LEMMA TermInvAlways == TermSpec => []TermInv
<1> QED BY TermStarts, TermSteps, PTL DEF TermSpec

(* For any size of the screen and any characters: no call sends the row,   *)
(* the column or the hardware's cursor off the screen, whichever calls     *)
(* came before (terminal.c keeps row and column in separate variables, and *)
(* wraps each in several places).                                          *)
THEOREM CursorOnScreenAlways == TermSpec => []CursorOnScreen
<1>1. TermInv => CursorOnScreen
  BY DEF TermInv, CursorOnScreen, Console, Symbols
<1> QED BY <1>1, TermInvAlways, PTL

(* For any screen: the hardware's cursor is where row and column say,      *)
(* except after a newline, which terminal_put_char returns from before it  *)
(* updates it.                                                             *)
THEOREM StaleOnlyAtRowStartAlways == TermSpec => []StaleOnlyAtRowStart
<1>1. TermInv => StaleOnlyAtRowStart
  BY DEF TermInv, StaleOnlyAtRowStart, Fresh
<1> QED BY <1>1, TermInvAlways, PTL

(* For any screen and any strings: terminal_writestring fills the cells    *)
(* from the cursor on in order, around the end of the screen, and leaves   *)
(* every other cell alone.                                                 *)
THEOREM WritesAreLinearAlways == TermSpec => []WritesAreLinear
<1>1. TermInv => WritesAreLinear
  <2> SUFFICES ASSUME TermInv, NEW string \in Strings,
                      Newline \notin ToSet(string), Len(string) <= LastCell
               PROVE  LaidOut(TerminalWriteString(term, string), Len(string), term, string)
    BY DEF WritesAreLinear, LaidOut, Offset
  <2>1. string \in Seq(Symbols)
    <3>1. Chars \cup {Newline} \subseteq Symbols
      BY DEF Symbols
    <3> QED BY <3>1, WrittenAssumption
  <2> QED BY <2>1, WritingIsLinear DEF TermInv
<1> QED BY <1>1, TermInvAlways, PTL

-----------------------------------------------------------------------------
(* The functions of kernel/string.c keep the C library's promises, in a    *)
(* memory of any size with bytes of any width. Every function is a loop.   *)
(* Those that write are followed round by round: after k rounds k bytes of *)
(* the result are there. Those that read look for an exit, and answer for  *)
(* the first round that does not go on (FirstExit); that this round exists *)
(* makes the function of rounds well-defined (LoopAnswers).                *)

(* What memory holds.                                                      *)
OneByte == 0 .. ByteMod - 1
Mem == [Addrs -> OneByte]

(* Loops that look for an exit: what they answer from round k on.          *)
Answers(f, n, goes, value) ==
  f = [k \in 0 .. n |-> IF k \in goes THEN f[k + 1] ELSE value[k]]

(* Such a loop has an answer, which is that of the first round that does   *)
(* not go on.                                                              *)
LEMMA LoopAnswers ==
  ASSUME NEW n \in Nat, NEW goes \in SUBSET (0 .. n - 1), NEW value
  PROVE  \E f : Answers(f, n, goes, value)
<1> DEFINE Stays(k) == {j \in k .. n : j \notin goes}
           First(k) == CHOOSE j \in Stays(k) : \A i \in Stays(k) : j <= i
           f == [k \in 0 .. n |-> value[First(k)]]
<1>1. ASSUME NEW k \in 0 .. n
      PROVE  First(k) \in Stays(k) /\ \A i \in Stays(k) : First(k) <= i
  <2>1. n \in Stays(k) /\ Stays(k) \subseteq Nat
    OBVIOUS
  <2> HIDE DEF Stays
  <2>2. \E j \in Stays(k) : \A i \in Stays(k) : j <= i
    BY <2>1, LeastNat
  <2> QED BY <2>2
<1>2. ASSUME NEW k \in 0 .. n, k \in goes PROVE First(k) = First(k + 1)
  <2>1. k + 1 \in 0 .. n /\ Stays(k) = Stays(k + 1)
    BY <1>2
  <2> HIDE DEF Stays
  <2> QED BY <2>1
<1>3. ASSUME NEW k \in 0 .. n, k \notin goes PROVE First(k) = k
  <2>1. k \in Stays(k) /\ \A i \in Stays(k) : i \in Int /\ k <= i
    BY <1>3
  <2>2. First(k) \in Int /\ First(k) <= k /\ k <= First(k)
    BY <1>1, <2>1
  <2> HIDE DEF First
  <2> QED BY <2>2
<1>4. ASSUME NEW k \in 0 .. n
      PROVE  f[k] = IF k \in goes THEN f[k + 1] ELSE value[k]
  <2>1. CASE k \in goes
    <3>1. k + 1 \in 0 .. n
      BY <2>1
    <3> HIDE DEF First
    <3> QED BY <2>1, <3>1, <1>2
  <2>2. CASE k \notin goes
    <3> HIDE DEF First
    <3> QED BY <2>2, <1>3
  <2> QED BY <2>1, <2>2
<1> HIDE DEF First
<1>5. f = [k \in 0 .. n |-> IF k \in goes THEN f[k + 1] ELSE value[k]]
  BY <1>4
<1> HIDE DEF f
<1> QED BY <1>5 DEF Answers

(* Whatever answers, answers for the first round that does not go on.      *)
LEMMA FirstExit ==
  ASSUME NEW n \in Nat, NEW goes \in SUBSET (0 .. n - 1), NEW value,
         NEW f, Answers(f, n, goes, value), NEW k \in 0 .. n
  PROVE  \E j \in k .. n : j \notin goes /\ k .. j - 1 \subseteq goes /\ f[k] = value[j]
<1> DEFINE Stays == {j \in k .. n : j \notin goes}
<1>1. n \in Stays /\ Stays \subseteq Nat
  OBVIOUS
<1>2. PICK j \in Stays : \A i \in Stays : j <= i
  <2> HIDE DEF Stays
  <2> QED BY <1>1, LeastNat
<1>3. j \in k .. n /\ j \notin goes /\ k .. j - 1 \subseteq goes
  BY <1>2
<1>4. f[j] = value[j]
  BY <1>3 DEF Answers
<1> DEFINE D == {i \in 0 .. j - k : f[k + i] = f[k]}
<1>5. 0 .. j - k \subseteq D
  <2>1. 0 \in D /\ j - k \in Nat
    BY <1>3
  <2>2. ASSUME NEW i \in 1 .. j - k, i - 1 \in D PROVE i \in D
    <3>1. k + i - 1 \in goes /\ (k + i - 1) + 1 = k + i /\ k + (i - 1) = k + i - 1 /\ k + i - 1 \in 0 .. n
      BY <1>3, <2>2
    <3>2. f[k + i - 1] = f[k + i]
      BY <3>1 DEF Answers
    <3> QED BY <2>2, <3>1, <3>2
  <2> HIDE DEF D
  <2> QED BY <2>1, <2>2, Throughout
<1>6. f[j] = f[k]
  <2>1. j - k \in D /\ k + (j - k) = j
    BY <1>3, <1>5
  <2> QED BY <2>1
<1> QED BY <1>3, <1>4, <1>6

(* memset fills n bytes with the low byte of its value.                    *)
LEMMA MemSetFills ==
  ASSUME NEW m \in Mem, NEW d \in Nat, NEW val \in Int, NEW n \in Nat, d + n <= MemSize
  PROVE  MemSet(m, d, val, n) = [a \in Addrs |-> IF a \in d .. d + n - 1 THEN val % ByteMod ELSE m[a]]
<1> DEFINE b == val % ByteMod
           PutIn(w, i) == [w EXCEPT ![d + i - 1] = b]
           step == [i \in Nat |-> [w \in Mem |-> PutIn(w, i)]]
           Is(f) == f = [k \in 0 .. n |-> IF k = 0 THEN m ELSE PutIn(f[k - 1], k)]
           f == CHOOSE f : Is(f)
<1>1. b \in OneByte
  BY StringsAssumption DEF OneByte
<1>2. MemSet(m, d, val, n) = f[n]
  BY DEF MemSet
<1> HIDE DEF b
<1>3. \A w \in Mem, i \in Nat : PutIn(w, i) \in Mem
  BY <1>1 DEF Mem
<1> DEFINE Filled(k) == [a \in Addrs |-> IF a \in d .. d + k - 1 THEN b ELSE m[a]]
<1>4. Filled(0) = m
  BY DEF Mem
<1>5. ASSUME NEW i \in 1 .. n PROVE PutIn(Filled(i - 1), i) = Filled(i)
  <2> DEFINE w == Filled(i - 1)
  <2>1. d + i - 1 \in Addrs /\ w = [a \in Addrs |-> IF a \in d .. d + (i - 1) - 1 THEN b ELSE m[a]]
    BY StringsAssumption DEF Addrs
  <2>2. ASSUME NEW a \in Addrs PROVE (IF a = d + i - 1 THEN b ELSE w[a]) = Filled(i)[a]
    BY <2>1 DEF Addrs
  <2>3. DOMAIN w = Addrs
    BY <2>1
  <2> HIDE DEF w
  <2>4. PutIn(w, i) = [a \in Addrs |-> IF a = d + i - 1 THEN b ELSE w[a]]
    BY <2>1, <2>3
  <2>5. PutIn(w, i) = Filled(i)
    BY <2>2, <2>4
  <2> QED BY <2>5 DEF w
<1> HIDE DEF PutIn
<1>6. Is(f)
  <2>1. PICK g : Iterates(g, Mem, m, step, n)
    <3>1. Steps(step, Mem)
      BY <1>3 DEF Steps
    <3> HIDE DEF step
    <3> QED BY <3>1, Recursion
  <2>2. g \in [0 .. n -> Mem] /\ g[0] = m /\ \A i \in 1 .. n : g[i] = step[i][g[i - 1]]
    BY <2>1 DEF Iterates
  <2>3. ASSUME NEW i \in 1 .. n PROVE g[i] = PutIn(g[i - 1], i)
    <3>1. i \in Nat /\ g[i - 1] \in Mem
      BY <2>2
    <3>2. step[i][g[i - 1]] = PutIn(g[i - 1], i)
      BY <3>1
    <3> QED BY <2>2, <3>2
  <2>4. Is(g)
    BY <2>2, <2>3
  <2> HIDE DEF Is
  <2> QED BY <2>4
<1> HIDE DEF f
<1> DEFINE D == {k \in 0 .. n : f[k] = Filled(k)}
<1>7. 0 .. n \subseteq D
  <2> HIDE DEF Filled
  <2>1. 0 \in D
    BY <1>4, <1>6
  <2>2. ASSUME NEW i \in 1 .. n, i - 1 \in D PROVE i \in D
    BY <1>5, <1>6, <2>2
  <2> HIDE DEF D
  <2> QED BY <2>1, <2>2, Throughout
<1>8. f[n] = Filled(n)
  <2> HIDE DEF Filled
  <2> QED BY <1>7
<1> QED BY <1>2, <1>8 DEF b

(* The memory with c bytes from s copied to d.                             *)
Copy(m, d, s, c) == [a \in Addrs |-> IF a \in d .. d + c - 1 THEN m[s + (a - d)] ELSE m[a]]

(* Before the first round nothing is copied.                               *)
LEMMA CopyBegins ==
  ASSUME NEW m \in Mem, NEW d \in Nat, NEW s \in Nat
  PROVE  Copy(m, d, s, 0) = m
BY DEF Copy, Mem

(* One more byte, where source and destination do not overlap.             *)
LEMMA CopyGrows ==
  ASSUME NEW m \in Mem, NEW d \in Nat, NEW s \in Nat, NEW i \in Nat \ {0}, NEW w,
         w = Copy(m, d, s, i - 1), d + i <= MemSize, s + i <= MemSize, Apart(d, i, s, i)
  PROVE  /\ w[s + i - 1] = m[s + i - 1]
         /\ [w EXCEPT ![d + i - 1] = w[s + i - 1]] = Copy(m, d, s, i)
<1>1. /\ d + i - 1 \in Addrs /\ s + i - 1 \in Addrs /\ s + ((d + i - 1) - d) = s + i - 1
      /\ s + i - 1 \notin d .. d + (i - 1) - 1
  BY StringsAssumption DEF Addrs, Apart
<1>2. w[s + i - 1] = m[s + i - 1] /\ DOMAIN w = Addrs
  BY <1>1 DEF Copy
<1>3. ASSUME NEW a \in Addrs
      PROVE  (IF a = d + i - 1 THEN m[s + i - 1] ELSE w[a]) = Copy(m, d, s, i)[a]
  BY <1>1 DEF Copy, Addrs
<1>4. [w EXCEPT ![d + i - 1] = m[s + i - 1]]
        = [a \in Addrs |-> IF a = d + i - 1 THEN m[s + i - 1] ELSE w[a]]
  BY <1>1, <1>2
<1>5. Copy(m, d, s, i) = [a \in Addrs |-> Copy(m, d, s, i)[a]]
  BY DEF Copy
<1> QED BY <1>2, <1>3, <1>4, <1>5

(* One byte of the memory over another.                                    *)
LEMMA ByteCopied ==
  ASSUME NEW w \in Mem, NEW i \in Addrs, NEW j \in Addrs
  PROVE  [w EXCEPT ![i] = w[j]] \in Mem
BY DEF Mem

(* memcpy stays in the memory, and copies where nothing overlaps.          *)
LEMMA MemCpyCopies ==
  ASSUME NEW m \in Mem, NEW d \in Nat, NEW s \in Nat, NEW n \in Nat,
         d + n <= MemSize, s + n <= MemSize
  PROVE  /\ MemCpy(m, d, s, n) \in Mem
         /\ Apart(d, n, s, n) => MemCpy(m, d, s, n) = Copy(m, d, s, n)
<1> DEFINE PutIn(w, i) == [w EXCEPT ![d + i - 1] = w[s + i - 1]]
           step == [i \in Nat |-> [w \in Mem |-> IF i \in 1 .. n THEN PutIn(w, i) ELSE w]]
           Is(f) == f = [k \in 0 .. n |-> IF k = 0 THEN m ELSE PutIn(f[k - 1], k)]
           f == CHOOSE f : Is(f)
<1>2. MemCpy(m, d, s, n) = f[n]
  BY DEF MemCpy
<1>3. ASSUME NEW w \in Mem, NEW i \in 1 .. n PROVE PutIn(w, i) \in Mem
  <2>1. d + i - 1 \in Addrs /\ s + i - 1 \in Addrs
    BY StringsAssumption DEF Addrs
  <2> QED BY <2>1, ByteCopied
<1>5. ASSUME NEW i \in 1 .. n, Apart(d, n, s, n)
      PROVE  PutIn(Copy(m, d, s, i - 1), i) = Copy(m, d, s, i)
  <2>1. i \in Nat \ {0} /\ d + i <= MemSize /\ s + i <= MemSize /\ Apart(d, i, s, i)
    BY <1>5, StringsAssumption DEF Apart
  <2> QED BY <2>1, CopyGrows
<1> HIDE DEF PutIn
<1>6. Is(f) /\ f[n] \in Mem
  <2>1. PICK g : Iterates(g, Mem, m, step, n)
    <3>1. Steps(step, Mem)
      BY <1>3 DEF Steps
    <3> HIDE DEF step
    <3> QED BY <3>1, Recursion
  <2>2. g \in [0 .. n -> Mem] /\ g[0] = m /\ \A i \in 1 .. n : g[i] = step[i][g[i - 1]]
    BY <2>1 DEF Iterates
  <2>3. ASSUME NEW i \in 1 .. n PROVE g[i] = PutIn(g[i - 1], i)
    <3>1. i \in Nat /\ g[i - 1] \in Mem
      BY <2>2
    <3>2. step[i][g[i - 1]] = PutIn(g[i - 1], i)
      BY <3>1
    <3> QED BY <2>2, <3>2
  <2>4. Is(g)
    BY <2>2, <2>3
  <2>5. Is(f)
    <3> HIDE DEF Is
    <3> QED BY <2>4
  <2> HIDE DEF f
  <2> DEFINE D == {k \in 0 .. n : f[k] \in Mem}
  <2>6. 0 .. n \subseteq D
    <3>1. 0 \in D
      BY <2>5
    <3>2. ASSUME NEW i \in 1 .. n, i - 1 \in D PROVE i \in D
      BY <1>3, <2>5, <3>2
    <3> HIDE DEF D
    <3> QED BY <3>1, <3>2, Throughout
  <2> QED BY <2>5, <2>6
<1> HIDE DEF f
<1>7. ASSUME Apart(d, n, s, n) PROVE f[n] = Copy(m, d, s, n)
  <2> DEFINE D == {k \in 0 .. n : f[k] = Copy(m, d, s, k)}
  <2>1. 0 \in D
    BY <1>6, CopyBegins
  <2>2. ASSUME NEW i \in 1 .. n, i - 1 \in D PROVE i \in D
    BY <1>5, <1>6, <1>7, <2>2
  <2> HIDE DEF D
  <2>3. 0 .. n \subseteq D
    BY <2>1, <2>2, Throughout
  <2> QED BY <2>3 DEF D
<1> QED BY <1>2, <1>6, <1>7

(* A memory is told from one that was left.                                *)
LEMMA NotLost == Lost \notin Mem
<1>1. 0 \in Addrs /\ \A w \in Mem : DOMAIN w = Addrs
  BY StringsAssumption DEF Addrs, Mem
<1>2. 0 \notin DOMAIN Lost
  BY DEF Lost
<1> QED BY <1>1, <1>2

(* A string from s on, with its terminator at e.                           *)
EndsAt(m, s, e) ==
  /\ s \in Addrs /\ e \in s .. MemSize - 1
  /\ m[e] = 0 /\ \A k \in s .. e - 1 : m[k] # 0

Least(i, j) == IF i < j THEN i ELSE j

(* The end of the loop of the copying functions: it has stayed in the      *)
(* memory or is Lost, and a string of L bytes with its terminator is       *)
(* copied whole, or its first n bytes.                                     *)
CopiedTo(l, m, d, s, n) ==
  /\ l.mem \in Mem \cup {Lost}
  /\ l.copied \in 0 .. n
  /\ \A e : /\ EndsAt(m, s, e)
           /\ d + Least(n, e - s + 1) <= MemSize
           /\ Apart(d, Least(n, e - s + 1), s, Least(n, e - s + 1))
           => /\ l.mem = Copy(m, d, s, Least(n, e - s + 1))
              /\ l.copied = Least(n, e - s + 1)
              /\ l.ended = (n >= e - s + 1)

(* The loop of the copying functions does that, by induction over its      *)
(* rounds.                                                                 *)
LEMMA CopyCharsCopies ==
  ASSUME NEW m \in Mem, NEW d \in Nat, NEW s \in Nat, NEW n \in Nat
  PROVE  CopiedTo(CopyChars(m, d, s, n), m, d, s, n)
<1> DEFINE Round(l, k) ==
             IF l.ended \/ l.mem = Lost THEN l
             ELSE IF ~ {d + k - 1, s + k - 1} \subseteq Addrs THEN [l EXCEPT !.mem = Lost]
             ELSE [mem |-> [l.mem EXCEPT ![d + k - 1] = l.mem[s + k - 1]],
                   copied |-> k, ended |-> l.mem[s + k - 1] = 0]
           States == [mem : Mem \cup {Lost}, copied : 0 .. n, ended : BOOLEAN]
           start == [mem |-> m, copied |-> 0, ended |-> FALSE]
           step == [i \in Nat |-> [l \in States |-> IF i \in 1 .. n THEN Round(l, i) ELSE l]]
           Is(f) == f = [k \in 0 .. n |-> IF k = 0 THEN start ELSE Round(f[k - 1], k)]
           f == CHOOSE f : Is(f)
<1>1. CopyChars(m, d, s, n) = f[n]
  BY DEF CopyChars
<1>2. start \in States
  OBVIOUS
<1>3. ASSUME NEW l \in States, NEW i \in 1 .. n PROVE Round(l, i) \in States
  <2>1. CASE l.ended \/ l.mem = Lost
    BY <2>1
  <2>2. CASE ~ (l.ended \/ l.mem = Lost) /\ ~ {d + i - 1, s + i - 1} \subseteq Addrs
    BY <2>2
  <2>3. CASE ~ (l.ended \/ l.mem = Lost) /\ {d + i - 1, s + i - 1} \subseteq Addrs
    <3>1. [l.mem EXCEPT ![d + i - 1] = l.mem[s + i - 1]] \in Mem
      BY <2>3, ByteCopied
    <3> DEFINE w == [l.mem EXCEPT ![d + i - 1] = l.mem[s + i - 1]]
               z == l.mem[s + i - 1] = 0
    <3>2. Round(l, i) = [mem |-> w, copied |-> i, ended |-> z]
      BY <2>3
    <3>3. z \in BOOLEAN /\ i \in 0 .. n
      OBVIOUS
    <3> HIDE DEF w, z, Round
    <3> QED BY <3>1, <3>2, <3>3 DEF w
  <2> QED BY <2>1, <2>2, <2>3
<1>4. ASSUME NEW e, EndsAt(m, s, e), NEW i \in 1 .. n,
             d + Least(n, e - s + 1) <= MemSize,
             Apart(d, Least(n, e - s + 1), s, Least(n, e - s + 1)),
             NEW l, l.mem = Copy(m, d, s, Least(i - 1, e - s + 1)), l.mem \in Mem,
             l.copied = Least(i - 1, e - s + 1), l.ended = (i - 1 >= e - s + 1)
      PROVE  LET r == Round(l, i) IN
             /\ r.mem = Copy(m, d, s, Least(i, e - s + 1))
             /\ r.copied = Least(i, e - s + 1)
             /\ r.ended = (i >= e - s + 1)
  <2> DEFINE L == e - s + 1
  <2>0. L \in Nat \ {0} /\ s + L <= MemSize /\ MemSize \in Nat
    BY <1>4, StringsAssumption DEF EndsAt, Addrs
  <2>1. CASE i - 1 >= L
    <3>1. Least(i - 1, L) = L /\ Least(i, L) = L /\ i >= L
      BY <2>0, <2>1 DEF Least
    <3>2. Round(l, i) = l
      BY <1>4, <2>1
    <3> HIDE DEF Round, L
    <3> QED BY <1>4, <2>0, <2>1, <3>1, <3>2 DEF L
  <2>2. CASE ~ (i - 1 >= L)
    <3>1. /\ Least(i - 1, L) = i - 1 /\ Least(i, L) = i /\ i <= L /\ i <= Least(n, L)
          /\ Least(n, L) \in Nat
      BY <2>0, <2>2 DEF Least
    <3>2. /\ i \in Nat \ {0} /\ d + i <= MemSize /\ s + i <= MemSize /\ Apart(d, i, s, i)
          /\ d + i - 1 \in Addrs /\ s + i - 1 \in Addrs
      BY <1>4, <2>0, <3>1, StringsAssumption DEF Apart, Addrs
    <3>3. l.mem[s + i - 1] = m[s + i - 1] /\ l.mem # Lost /\ ~ l.ended
          /\ [l.mem EXCEPT ![d + i - 1] = l.mem[s + i - 1]] = Copy(m, d, s, i)
      <4> DEFINE w == l.mem
      <4>1. w = Copy(m, d, s, i - 1) /\ w \in Mem /\ l.ended = FALSE
        <5>1. ~ (i - 1 >= e - s + 1) /\ Least(i - 1, e - s + 1) = i - 1
          BY <2>2, <3>1
        <5>2. (i - 1 >= e - s + 1) = FALSE
          BY <5>1
        <5> QED BY <1>4, <5>1, <5>2
      <4> HIDE DEF w
      <4>2. w[s + i - 1] = m[s + i - 1] /\ [w EXCEPT ![d + i - 1] = w[s + i - 1]] = Copy(m, d, s, i)
        BY <4>1, <3>2, CopyGrows
      <4> QED BY <4>1, <4>2, NotLost DEF w
    <3>4. (m[s + i - 1] = 0) = (i >= L)
      <4>1. CASE i = L
        <5>1. s + i - 1 = e
          BY <4>1, <1>4 DEF EndsAt
        <5> QED BY <5>1, <1>4, <4>1, <2>0 DEF EndsAt
      <4>2. CASE i # L
        <5>1. s + i - 1 \in s .. e - 1 /\ ~ (i >= L)
          BY <4>2, <3>1, <1>4 DEF EndsAt, Addrs
        <5> QED BY <5>1, <1>4 DEF EndsAt
      <4> QED BY <4>1, <4>2
    <3>5. Round(l, i) = [mem |-> Copy(m, d, s, i), copied |-> i, ended |-> (i >= L)]
      <4>1. Round(l, i) = [mem |-> [l.mem EXCEPT ![d + i - 1] = l.mem[s + i - 1]],
                           copied |-> i, ended |-> (l.mem[s + i - 1] = 0)]
        BY <3>2, <3>3
      <4> HIDE DEF Round, L
      <4> QED BY <4>1, <3>3, <3>4
    <3> HIDE DEF Round, L
    <3> QED BY <3>1, <3>5 DEF L
  <2> QED BY <2>1, <2>2
<1> HIDE DEF Round, start
<1>5. Is(f) /\ \A i \in 0 .. n : f[i] \in States
  <2>1. PICK g : Iterates(g, States, start, step, n)
    <3>1. Steps(step, States)
      BY <1>3 DEF Steps
    <3> HIDE DEF step, States
    <3> QED BY <1>2, <3>1, Recursion
  <2>2. g \in [0 .. n -> States] /\ g[0] = start /\ \A i \in 1 .. n : g[i] = step[i][g[i - 1]]
    BY <2>1 DEF Iterates
  <2> HIDE DEF States
  <2>3. ASSUME NEW i \in 1 .. n PROVE g[i] = Round(g[i - 1], i)
    <3>1. i \in Nat /\ g[i - 1] \in States
      BY <2>2
    <3>2. step[i][g[i - 1]] = Round(g[i - 1], i)
      BY <3>1
    <3> QED BY <2>2, <3>2
  <2>4. Is(g)
    BY <2>2, <2>3
  <2>5. Is(f)
    <3> HIDE DEF Is
    <3> QED BY <2>4
  <2> HIDE DEF f
  <2> DEFINE D == {k \in 0 .. n : f[k] \in States}
  <2>6. 0 .. n \subseteq D
    <3>1. 0 \in D
      BY <1>2, <2>5
    <3>2. ASSUME NEW i \in 1 .. n, i - 1 \in D PROVE i \in D
      BY <1>3, <2>5, <3>2
    <3> HIDE DEF D
    <3> QED BY <3>1, <3>2, Throughout
  <2> QED BY <2>5, <2>6
<1> HIDE DEF f
<1>6. ASSUME NEW e, EndsAt(m, s, e),
             d + Least(n, e - s + 1) <= MemSize,
             Apart(d, Least(n, e - s + 1), s, Least(n, e - s + 1))
      PROVE  /\ f[n].mem = Copy(m, d, s, Least(n, e - s + 1))
             /\ f[n].copied = Least(n, e - s + 1)
             /\ f[n].ended = (n >= e - s + 1)
  <2> DEFINE Good(k) == /\ f[k].mem = Copy(m, d, s, Least(k, e - s + 1))
                        /\ f[k].copied = Least(k, e - s + 1)
                        /\ f[k].ended = (k >= e - s + 1)
             D == {k \in 0 .. n : Good(k)}
  <2>1. Good(0)
    <3>1. Least(0, e - s + 1) = 0 /\ (0 >= e - s + 1) = FALSE
      BY <1>6, StringsAssumption DEF EndsAt, Addrs, Least
    <3>2. f[0] = start
      BY <1>5
    <3>3. f[0].mem = m /\ f[0].copied = 0 /\ f[0].ended = FALSE
      BY <3>2 DEF start
    <3>4. Copy(m, d, s, 0) = m
      BY CopyBegins
    <3> QED BY <3>1, <3>3, <3>4
  <2>2. ASSUME NEW i \in 1 .. n, Good(i - 1) PROVE Good(i)
    <3>1. f[i] = Round(f[i - 1], i) /\ f[i - 1] \in States
      <4>1. i \in 0 .. n /\ i # 0 /\ i - 1 \in 0 .. n
        OBVIOUS
      <4>2. \A k \in 0 .. n : f[k] = IF k = 0 THEN start ELSE Round(f[k - 1], k)
        BY <1>5
      <4> HIDE DEF States, Round, start
      <4> QED BY <4>1, <4>2, <1>5
    <3>2. f[i - 1].mem \in Mem
      <4>1. Copy(m, d, s, Least(i - 1, e - s + 1)) # Lost
        <5>1. DOMAIN Copy(m, d, s, Least(i - 1, e - s + 1)) = Addrs /\ 0 \in Addrs
          BY StringsAssumption DEF Copy, Addrs
        <5>2. 0 \notin DOMAIN Lost
          BY DEF Lost
        <5> QED BY <5>1, <5>2
      <4> QED BY <4>1, <3>1, <2>2
    <3> HIDE DEF Is
    <3> QED BY <1>4, <1>6, <2>2, <3>1, <3>2
  <2> HIDE DEF Good
  <2>3. 0 .. n \subseteq D
    <3>1. 0 \in D
      BY <2>1
    <3>2. ASSUME NEW i \in 1 .. n, i - 1 \in D PROVE i \in D
      BY <2>2, <3>2
    <3> HIDE DEF D
    <3> QED BY <3>1, <3>2, Throughout
  <2> QED BY <2>3 DEF Good
<1>7. f[n].mem \in Mem \cup {Lost} /\ f[n].copied \in 0 .. n
  BY <1>5
<1>8. CopiedTo(f[n], m, d, s, n)
  BY <1>6, <1>7 DEF CopiedTo
<1> QED BY <1>1, <1>8

(* A string has one end, and EndAt is it.                                  *)
LEMMA TextIs ==
  ASSUME memory \in Mem, NEW s \in Addrs, IsStr(s)
  PROVE  /\ EndsAt(memory, s, EndAt(s))
         /\ \A e : EndsAt(memory, s, e) => e = EndAt(s)
         /\ Text(s) \in Seq(OneByte) /\ Len(Text(s)) = EndAt(s) - s
         /\ \A k \in 1 .. EndAt(s) - s : Text(s)[k] = memory[s + k - 1] /\ Text(s)[k] # 0
<1> DEFINE First(e) == memory[e] = 0 /\ \A k \in s .. e - 1 : memory[k] # 0
           E == {e \in s .. MemSize - 1 : memory[e] = 0}
<1>0. s \in Nat /\ MemSize \in Nat
  BY StringsAssumption DEF Addrs
<1>1. \E e \in s .. MemSize - 1 : First(e)
  <2>1. E # {} /\ E \subseteq Nat
    BY <1>0 DEF IsStr
  <2>2. PICK e \in E : \A k \in E : e <= k
    <3> HIDE DEF E
    <3> QED BY <2>1, LeastNat
  <2>3. \A k \in s .. e - 1 : k \notin E
    BY <2>2, <1>0
  <2>4. First(e)
    BY <2>2, <2>3, <1>0
  <2> QED BY <2>2, <2>4
<1>2. EndAt(s) = CHOOSE e \in s .. MemSize - 1 : First(e)
  BY DEF EndAt
<1>3. EndAt(s) \in s .. MemSize - 1 /\ First(EndAt(s))
  <2> HIDE DEF First
  <2> QED BY <1>1, <1>2
<1>4. EndsAt(memory, s, EndAt(s))
  BY <1>3 DEF EndsAt
<1>5. ASSUME NEW e, EndsAt(memory, s, e) PROVE e = EndAt(s)
  BY <1>0, <1>3, <1>5 DEF EndsAt
<1> DEFINE n == EndAt(s) - s
<1>6. n \in Nat /\ \A k \in 1 .. n : s + k - 1 \in Addrs /\ memory[s + k - 1] \in OneByte /\ memory[s + k - 1] # 0
  BY <1>0, <1>3 DEF Mem, Addrs
<1>7. Text(s) = [k \in 1 .. n |-> memory[s + k - 1]]
  BY DEF Text
<1> HIDE DEF n
<1>8. Text(s) \in Seq(OneByte) /\ Len(Text(s)) = n
  BY <1>6, <1>7
<1> QED BY <1>4, <1>5, <1>6, <1>7, <1>8 DEF n

(* The loop over a string stops at its end.                                *)
LEMMA EndIsFound ==
  ASSUME NEW m \in Mem, NEW s \in Counted
  PROVE  /\ EndOfStr(m, s) \in s .. MemSize
         /\ \A e : EndsAt(m, s, e) => EndOfStr(m, s) = e
<1> DEFINE goes == {a \in Addrs : m[a] # 0}
           value == [a \in Counted |-> a]
           f == CHOOSE f : f = [a \in Counted |-> IF a \in Addrs /\ m[a] # 0 THEN f[a + 1] ELSE a]
<1>1. EndOfStr(m, s) = f[s]
  BY DEF EndOfStr
<1>2. ASSUME NEW g
      PROVE  Answers(g, MemSize, goes, value) <=>
               g = [a \in Counted |-> IF a \in Addrs /\ m[a] # 0 THEN g[a + 1] ELSE a]
  <2>1. \A a \in Counted : (IF a \in goes THEN g[a + 1] ELSE value[a])
                              = (IF a \in Addrs /\ m[a] # 0 THEN g[a + 1] ELSE a)
    OBVIOUS
  <2> HIDE DEF goes, value
  <2>2. [a \in Counted |-> IF a \in goes THEN g[a + 1] ELSE value[a]]
          = [a \in Counted |-> IF a \in Addrs /\ m[a] # 0 THEN g[a + 1] ELSE a]
    BY <2>1
  <2> QED BY <2>2 DEF Answers, Counted
<1>3. MemSize \in Nat /\ goes \in SUBSET (0 .. MemSize - 1) /\ s \in 0 .. MemSize
  BY StringsAssumption DEF Addrs, Counted
<1>4. Answers(f, MemSize, goes, value)
  <2>1. \E g : Answers(g, MemSize, goes, value)
    <3> HIDE DEF goes, value
    <3> QED BY <1>3, LoopAnswers
  <2>2. f = [a \in Counted |-> IF a \in Addrs /\ m[a] # 0 THEN f[a + 1] ELSE a]
    <3> HIDE DEF goes, value
    <3> QED BY <1>2, <2>1
  <2> HIDE DEF f, goes, value
  <2> QED BY <1>2, <2>2
<1>5. PICK j \in s .. MemSize : j \notin goes /\ s .. j - 1 \subseteq goes /\ f[s] = value[j]
  <2> HIDE DEF f, goes, value
  <2> QED BY <1>3, <1>4, FirstExit
<1>6. f[s] = j
  <2>1. j \in Counted
    BY <1>3, <1>5 DEF Counted
  <2> HIDE DEF f
  <2> QED BY <1>5, <2>1
<1>7. ASSUME NEW e, EndsAt(m, s, e) PROVE j = e
  <2>1. e \in Addrs /\ e \notin goes /\ e \in s .. MemSize - 1 /\ \A k \in s .. e - 1 : k \in goes
    BY <1>7, <1>3 DEF EndsAt, Addrs
  <2> HIDE DEF goes
  <2> QED BY <1>3, <1>5, <2>1 DEF Addrs
<1> HIDE DEF f
<1> QED BY <1>1, <1>5, <1>6, <1>7

(* What the bytes of a text leave in the memory.                           *)
LEMMA OverIs ==
  ASSUME NEW d \in Nat, NEW n \in Nat, NEW text \in Seq(OneByte), Len(text) = n, NEW w,
         w = [a \in Addrs |-> w[a]],
         \A a \in Addrs : w[a] = IF a \in d .. d + n - 1 THEN text[a - d + 1] ELSE memory[a]
  PROVE  w = Over(d, text)
BY DEF Over

(* memset.                                                                 *)
LEMMA MemSetAgrees ==
  ASSUME memory \in Mem, NEW d \in Addrs, NEW n \in Counted, Inside(d, n), NEW val \in Vals
  PROVE  MemSet(memory, d, val, n) = Over(d, [k \in 1 .. n |-> val % ByteMod])
<1> DEFINE b == val % ByteMod
           text == [k \in 1 .. n |-> b]
           w == [a \in Addrs |-> IF a \in d .. d + n - 1 THEN b ELSE memory[a]]
<1>1. d \in Nat /\ n \in Nat /\ d + n <= MemSize /\ val \in Int /\ b \in OneByte
  BY StringsAssumption DEF Addrs, Counted, Inside, Vals, OneByte
<1>2. MemSet(memory, d, val, n) = w
  BY <1>1, MemSetFills
<1> HIDE DEF b
<1>3. text \in Seq(OneByte) /\ Len(text) = n
  BY <1>1
<1>4. \A a \in Addrs : w[a] = IF a \in d .. d + n - 1 THEN text[a - d + 1] ELSE memory[a]
  BY <1>1 DEF Addrs
<1>5. w = [a \in Addrs |-> w[a]]
  OBVIOUS
<1> HIDE DEF w, text
<1>6. w = Over(d, text)
  BY <1>1, <1>3, <1>4, <1>5, OverIs
<1> QED BY <1>2, <1>6 DEF text, b

(* A copy is the text of its bytes.                                        *)
LEMMA CopyIsOver ==
  ASSUME memory \in Mem, NEW d \in Nat, NEW s \in Nat, NEW n \in Nat,
         NEW text \in Seq(OneByte), Len(text) = n,
         \A k \in 1 .. n : text[k] = memory[s + k - 1]
  PROVE  Copy(memory, d, s, n) = Over(d, text)
<1> DEFINE w == Copy(memory, d, s, n)
<1>1. w = [a \in Addrs |-> w[a]]
  BY DEF Copy
<1>2. ASSUME NEW a \in Addrs
      PROVE  w[a] = IF a \in d .. d + n - 1 THEN text[a - d + 1] ELSE memory[a]
  <2>1. CASE a \in d .. d + n - 1
    <3>1. a - d + 1 \in 1 .. n /\ s + (a - d + 1) - 1 = s + (a - d)
      BY <2>1
    <3>2. text[a - d + 1] = memory[s + (a - d)]
      BY <3>1
    <3> QED BY <2>1, <3>2 DEF Copy
  <2>2. CASE a \notin d .. d + n - 1
    BY <2>2 DEF Copy
  <2> QED BY <2>1, <2>2
<1> HIDE DEF w
<1>3. w = Over(d, text)
  BY <1>1, <1>2, OverIs
<1> QED BY <1>3 DEF w

(* memcpy.                                                                 *)
LEMMA MemCpyAgrees ==
  ASSUME memory \in Mem, NEW d \in Addrs, NEW s \in Addrs, NEW n \in Counted,
         Inside(d, n), Inside(s, n), Apart(d, n, s, n)
  PROVE  MemCpy(memory, d, s, n) = Over(d, [k \in 1 .. n |-> memory[s + k - 1]])
<1> DEFINE text == [k \in 1 .. n |-> memory[s + k - 1]]
<1>1. /\ d \in Nat /\ s \in Nat /\ n \in Nat /\ d + n <= MemSize /\ s + n <= MemSize
      /\ \A k \in 1 .. n : memory[s + k - 1] \in OneByte
  BY StringsAssumption DEF Addrs, Counted, Inside, Mem
<1>2. MemCpy(memory, d, s, n) = Copy(memory, d, s, n)
  BY <1>1, MemCpyCopies
<1>3. text \in Seq(OneByte) /\ Len(text) = n /\ \A k \in 1 .. n : text[k] = memory[s + k - 1]
  BY <1>1
<1> HIDE DEF text
<1>4. Copy(memory, d, s, n) = Over(d, text)
  BY <1>1, <1>3, CopyIsOver, ZenonT(30)
<1> QED BY <1>2, <1>4 DEF text

(* A text with its terminator.                                             *)
LEMMA TerminatedText ==
  ASSUME memory \in Mem, NEW s \in Addrs, IsStr(s)
  PROVE  LET t == Append(Text(s), 0) IN
         /\ t \in Seq(OneByte) /\ Len(t) = EndAt(s) - s + 1
         /\ \A k \in 1 .. EndAt(s) - s + 1 : t[k] = memory[s + k - 1]
<1> DEFINE n == EndAt(s) - s
           text == Text(s)
<1>1. /\ EndAt(s) \in s .. MemSize - 1 /\ memory[EndAt(s)] = 0 /\ s \in Nat /\ n \in Nat
      /\ text \in Seq(OneByte) /\ Len(text) = n
      /\ \A k \in 1 .. n : text[k] = memory[s + k - 1]
  BY TextIs, StringsAssumption DEF EndsAt, Addrs
<1>2. 0 \in OneByte /\ s + (n + 1) - 1 = EndAt(s)
  BY <1>1, StringsAssumption DEF OneByte, Addrs
<1> HIDE DEF n, text
<1>3. Append(text, 0) \in Seq(OneByte) /\ Len(Append(text, 0)) = n + 1
  BY <1>1, <1>2
<1>4. ASSUME NEW k \in 1 .. n + 1 PROVE Append(text, 0)[k] = memory[s + k - 1]
  <2>1. CASE k = n + 1
    BY <1>1, <1>2, <2>1
  <2>2. CASE k # n + 1
    <3>1. k \in 1 .. n /\ Append(text, 0)[k] = text[k]
      BY <1>1, <2>2
    <3> QED BY <3>1, <1>1
  <2> QED BY <2>1, <2>2
<1> QED BY <1>3, <1>4 DEF n, text

(* strcpy, from any place d of the memory.                                 *)
LEMMA StrCpyAgrees ==
  ASSUME memory \in Mem, NEW d \in Nat, NEW s \in Addrs, IsStr(s),
         Inside(d, Len(Text(s)) + 1), Apart(d, Len(Text(s)) + 1, s, Len(Text(s)) + 1)
  PROVE  StrCpy(memory, d, s) = Over(d, Append(Text(s), 0))
<1> DEFINE n == EndAt(s) - s + 1
           text == Append(Text(s), 0)
<1>1. /\ EndsAt(memory, s, EndAt(s)) /\ n \in Nat /\ s \in Nat /\ Len(Text(s)) + 1 = n
      /\ MemSize + 1 \in Nat /\ n <= MemSize
  BY TextIs, StringsAssumption DEF EndsAt, Addrs
<1>2. Least(MemSize + 1, n) = n /\ d + n <= MemSize /\ Apart(d, n, s, n)
  BY <1>1, StringsAssumption DEF Least, Inside
<1>3. StrCpy(memory, d, s) = Copy(memory, d, s, n)
  <2>1. CopiedTo(CopyChars(memory, d, s, MemSize + 1), memory, d, s, MemSize + 1)
    BY <1>1, CopyCharsCopies
  <2> QED BY <2>1, <1>1, <1>2 DEF StrCpy, CopiedTo
<1>4. text \in Seq(OneByte) /\ Len(text) = n /\ \A k \in 1 .. n : text[k] = memory[s + k - 1]
  BY TerminatedText
<1> HIDE DEF text, n
<1>5. Copy(memory, d, s, n) = Over(d, text)
  BY <1>1, <1>4, CopyIsOver
<1> QED BY <1>3, <1>5 DEF text

(* strncpy: the string cut to n bytes, or NULs up to n of them.            *)
LEMMA StrNCpyAgrees ==
  ASSUME memory \in Mem, NEW d \in Addrs, NEW s \in Addrs, NEW n \in Counted, IsStr(s),
         Inside(d, n), Apart(d, n, s, Len(Text(s)) + 1)
  PROVE  StrNCpy(memory, d, s, n) = Over(d, Padded(Text(s), n))
<1> DEFINE L == EndAt(s) - s + 1
           c == Least(n, L)
           l == CopyChars(memory, d, s, n)
           t == Text(s)
           text == Padded(t, n)
           w == MemSet(l.mem, d + l.copied, 0, n - l.copied)
<1>1. /\ EndsAt(memory, s, EndAt(s)) /\ L \in Nat \ {0} /\ s \in Nat /\ n \in Nat /\ d \in Nat
      /\ d + n <= MemSize /\ s + L <= MemSize /\ Len(t) = L - 1
      /\ \A k \in 1 .. L - 1 : t[k] = memory[s + k - 1] /\ t[k] \in OneByte
  BY TextIs, StringsAssumption, SMTT(30) DEF EndsAt, Addrs, Counted, Inside
<1>2. /\ c \in Nat /\ c <= n /\ c <= L /\ (c = n \/ c = L)
      /\ d + c <= MemSize /\ Apart(d, c, s, c)
  BY <1>1, StringsAssumption DEF Least, Apart
<1>3. l.mem = Copy(memory, d, s, c) /\ l.mem \in Mem \cup {Lost} /\ l.copied = c
  <2>1. CopiedTo(l, memory, d, s, n)
    BY <1>1, CopyCharsCopies
  <2> HIDE DEF l
  <2> QED BY <2>1, <1>1, <1>2 DEF CopiedTo
<1>4. l.mem # Lost
  <2>1. DOMAIN Copy(memory, d, s, c) = Addrs /\ 0 \in Addrs
    BY StringsAssumption DEF Copy, Addrs
  <2>2. 0 \notin DOMAIN Lost
    BY DEF Lost
  <2> HIDE DEF l, c
  <2> QED BY <2>1, <2>2, <1>3
<1>5. StrNCpy(memory, d, s, n) = w
  BY <1>4 DEF StrNCpy
<1> HIDE DEF l, L, c, t
<1>6. w = [a \in Addrs |-> IF a \in d + c .. d + n - 1 THEN 0 ELSE l.mem[a]]
  <2>1. d + c \in Nat /\ n - c \in Nat /\ (d + c) + (n - c) <= MemSize /\ l.mem \in Mem
    BY <1>1, <1>2, <1>3, <1>4
  <2>2. w = [a \in Addrs |-> IF a \in d + c .. (d + c) + (n - c) - 1 THEN 0 % ByteMod ELSE l.mem[a]]
    <3> DEFINE m == l.mem
               p == d + c
               q == n - c
    <3>1. m \in Mem /\ p \in Nat /\ q \in Nat /\ p + q <= MemSize
      BY <2>1
    <3> HIDE DEF m, p, q
    <3>2. MemSet(m, p, 0, q) = [a \in Addrs |-> IF a \in p .. p + q - 1 THEN 0 % ByteMod ELSE m[a]]
      BY <3>1, MemSetFills
    <3> QED BY <3>2, <1>3 DEF m, p, q
  <2>3. 0 % ByteMod = 0 /\ (d + c) + (n - c) - 1 = d + n - 1
    BY <1>1, <1>2, StringsAssumption
  <2> QED BY <2>2, <2>3
<1>7. text = [k \in 1 .. n |-> IF k <= L - 1 THEN t[k] ELSE 0]
  BY <1>1 DEF Padded
<1>8. text \in Seq(OneByte) /\ Len(text) = n
  <2>1. \A k \in 1 .. n : (IF k <= L - 1 THEN t[k] ELSE 0) \in OneByte
    BY <1>1, StringsAssumption DEF OneByte
  <2> HIDE DEF text
  <2> QED BY <2>1, <1>1, <1>7
<1> HIDE DEF text, w
<1>9. ASSUME NEW a \in Addrs
      PROVE  w[a] = IF a \in d .. d + n - 1 THEN text[a - d + 1] ELSE memory[a]
  <2>0. a \in Nat
    BY StringsAssumption DEF Addrs
  <2>1. CASE a \in d .. d + n - 1
    <3>1. a - d + 1 \in 1 .. n /\ s + (a - d + 1) - 1 = s + (a - d)
      BY <2>0, <2>1, <1>1
    <3>2. CASE a - d + 1 <= L - 1
      <4>1. text[a - d + 1] = memory[s + (a - d)]
        BY <3>1, <3>2, <1>1, <1>7
      <4>2. a \in d .. d + c - 1 /\ a \notin d + c .. d + n - 1
        BY <3>1, <3>2, <2>1, <2>0, <1>1, <1>2
      <4>3. w[a] = memory[s + (a - d)]
        BY <4>2, <1>3, <1>6 DEF Copy
      <4> QED BY <4>1, <4>3, <2>1
    <3>3. CASE ~ (a - d + 1 <= L - 1)
      <4>1. text[a - d + 1] = 0
        BY <3>1, <3>3, <1>7
      <4>2. CASE a \in d + c .. d + n - 1
        BY <4>1, <4>2, <1>6, <2>1
      <4>3. CASE a \notin d + c .. d + n - 1
        <5>1. a \in d .. d + c - 1 /\ s + (a - d) = EndAt(s)
          <6>1. a \in d .. d + c - 1 /\ a - d + 1 = L
            BY <4>3, <3>3, <2>1, <2>0, <1>1, <1>2
          <6>2. EndAt(s) \in Int
            BY <1>1, StringsAssumption DEF EndsAt
          <6> QED BY <6>1, <6>2, <1>1, <2>0, SMTT(30) DEF L
        <5>2. w[a] = memory[s + (a - d)]
          BY <5>1, <4>3, <1>3, <1>6 DEF Copy
        <5> QED BY <4>1, <5>1, <5>2, <2>1, <1>1 DEF EndsAt
      <4> QED BY <4>2, <4>3
    <3> QED BY <3>2, <3>3
  <2>2. CASE a \notin d .. d + n - 1
    <3>1. a \notin d + c .. d + n - 1 /\ a \notin d .. d + c - 1
      BY <2>0, <2>2, <1>1, <1>2
    <3> QED BY <3>1, <2>2, <1>3, <1>6 DEF Copy
  <2> QED BY <2>1, <2>2
<1>10. w = [a \in Addrs |-> w[a]]
  BY <1>6
<1>11. w = Over(d, text)
  <2>1. \A a \in Addrs : w[a] = IF a \in d .. d + n - 1 THEN text[a - d + 1] ELSE memory[a]
    BY <1>9
  <2>2. w = [a \in Addrs |-> IF a \in d .. d + n - 1 THEN text[a - d + 1] ELSE memory[a]]
    BY <2>1, <1>10
  <2> QED BY <1>8, <2>2 DEF Over
<1> QED BY <1>5, <1>11 DEF text, t

(* The first n characters of a string are those of the memory.             *)
LEMMA CutIs ==
  ASSUME memory \in Mem, NEW s \in Addrs, IsStr(s), NEW n \in Nat
  PROVE  LET c == Least(n, EndAt(s) - s)  t == Cut(Text(s), n) IN
         /\ c \in Nat /\ c <= n /\ c <= EndAt(s) - s
         /\ t \in Seq(OneByte) /\ Len(t) = c
         /\ \A k \in 1 .. c : t[k] = memory[s + k - 1] /\ t[k] # 0
<1> DEFINE text == Text(s)
           L == EndAt(s) - s
           c == Least(n, L)
<1>1. L \in Nat /\ text \in Seq(OneByte) /\ Len(text) = L
      /\ \A k \in 1 .. L : text[k] = memory[s + k - 1] /\ text[k] # 0
  BY TextIs, StringsAssumption DEF EndsAt, Addrs
<1> HIDE DEF text, L
<1>2. c \in Nat /\ c <= n /\ c <= L
  BY <1>1 DEF Least
<1>3. Cut(text, n) = SubSeq(text, 1, c)
  BY <1>1 DEF Cut, Least
<1> HIDE DEF c
<1>4. SubSeq(text, 1, c) \in Seq(OneByte) /\ Len(SubSeq(text, 1, c)) = c
      /\ \A k \in 1 .. c : SubSeq(text, 1, c)[k] = text[k]
  <2>1. c <= Len(text) /\ 1 \in Nat
    BY <1>1, <1>2
  <2> QED BY <1>1, <1>2, <2>1
<1>5. \A k \in 1 .. c : k \in 1 .. L
  BY <1>1, <1>2
<1> QED BY <1>1, <1>2, <1>3, <1>4, <1>5 DEF text, c, L

(* strcat is strcpy to the end of the first string.                        *)
LEMMA StrCatAgrees ==
  ASSUME memory \in Mem, NEW d \in Addrs, NEW s \in Addrs, IsStr(d), IsStr(s),
         Inside(EndAt(d), Len(Text(s)) + 1),
         Apart(d, EndAt(d) - d + (Len(Text(s)) + 1), s, Len(Text(s)) + 1)
  PROVE  StrCat(memory, d, s) = Over(EndAt(d), Append(Text(s), 0))
<1>1. EndAt(d) \in Nat /\ d \in Nat /\ d <= EndAt(d) /\ EndsAt(memory, d, EndAt(d)) /\ d \in Counted
  BY TextIs, StringsAssumption DEF EndsAt, Addrs, Counted
<1>2. EndOfStr(memory, d) = EndAt(d)
  BY <1>1, EndIsFound
<1>3. Len(Text(s)) \in Nat /\ s \in Nat
  BY TextIs, StringsAssumption DEF EndsAt, Addrs
<1>4. Apart(EndAt(d), Len(Text(s)) + 1, s, Len(Text(s)) + 1)
  BY <1>1, <1>3 DEF Apart
<1>5. StrCpy(memory, EndAt(d), s) = Over(EndAt(d), Append(Text(s), 0))
  BY <1>1, <1>4, StrCpyAgrees
<1> QED BY <1>2, <1>5 DEF StrCat

(* strncat: at most n characters, and always a terminator.                 *)
LEMMA StrNCatAgrees ==
  ASSUME memory \in Mem, NEW d \in Addrs, NEW s \in Addrs, NEW n \in Counted, IsStr(d), IsStr(s),
         Inside(EndAt(d), Len(Text(s)) + 1),
         Apart(d, EndAt(d) - d + (Len(Text(s)) + 1), s, Len(Text(s)) + 1)
  PROVE  StrNCat(memory, d, s, n) = Over(EndAt(d), Append(Cut(Text(s), n), 0))
<1> DEFINE e == EndAt(d)
           L == EndAt(s) - s + 1
           c == Least(n, L)
           k == Least(n, L - 1)
           l == CopyChars(memory, e, s, n)
           t == Cut(Text(s), n)
           text == Append(t, 0)
<1>1. /\ EndsAt(memory, s, EndAt(s)) /\ EndsAt(memory, d, e)
      /\ d \in Counted /\ d \in Nat /\ e \in Nat /\ d <= e
      /\ L \in Nat \ {0} /\ s \in Nat /\ n \in Nat /\ Len(Text(s)) + 1 = L
      /\ L - 1 = EndAt(s) - s
  BY TextIs, StringsAssumption, SMTT(30) DEF EndsAt, Addrs, Counted
<1>2. /\ t \in Seq(OneByte) /\ Len(t) = k
      /\ \A i \in 1 .. k : t[i] = memory[s + i - 1]
  BY <1>1, CutIs
<1>3. EndOfStr(memory, d) = e
  BY <1>1, EndIsFound
<1>4. StrNCat(memory, d, s, n) = IF l.ended \/ l.mem = Lost THEN l.mem
                                 ELSE IF e + n \in Addrs THEN [l.mem EXCEPT ![e + n] = 0] ELSE Lost
  BY <1>3 DEF StrNCat
<1>5. e + L <= MemSize /\ (d + (e - d + L) <= s \/ s + L <= d)
  BY <1>1 DEF Inside, Apart
<1>6. CopiedTo(l, memory, e, s, n)
  BY <1>1, CopyCharsCopies
<1> HIDE DEF l, t
<1>7. e + c <= MemSize /\ Apart(e, c, s, c) /\ c <= n /\ c \in Nat
  <2> HIDE DEF e, L
  <2> QED BY <1>1, <1>5, StringsAssumption DEF Apart, Least
<1>8. l.mem = Copy(memory, e, s, c) /\ l.ended = (n >= L) /\ l.mem \in Mem \cup {Lost}
  BY <1>1, <1>6, <1>7 DEF CopiedTo
<1>9. l.mem # Lost
  <2>1. DOMAIN Copy(memory, e, s, c) = Addrs /\ 0 \in Addrs
    BY StringsAssumption DEF Copy, Addrs
  <2>2. 0 \notin DOMAIN Lost
    BY DEF Lost
  <2> QED BY <2>1, <2>2, <1>8
<1>10. 0 \in OneByte
  BY StringsAssumption DEF OneByte
<1>11. text \in Seq(OneByte) /\ Len(text) = k + 1 /\ text[k + 1] = 0
       /\ \A i \in 1 .. k : text[i] = t[i]
  <2>1. k \in Nat
    BY <1>1 DEF Least
  <2> HIDE DEF k
  <2> QED BY <2>1, <1>2, <1>10
<1>12. CASE n >= L
  <2>1. k = L - 1 /\ c = L
    BY <1>12, <1>1 DEF Least
  <2>2. l.ended = TRUE
    BY <1>12, <1>8
  <2>3. StrNCat(memory, d, s, n) = Copy(memory, e, s, L)
    BY <1>4, <1>8, <2>1, <2>2
  <2>4. ASSUME NEW i \in 1 .. L PROVE text[i] = memory[s + i - 1]
    <3>1. CASE i = L
      <4>1. s + i - 1 = EndAt(s) /\ memory[EndAt(s)] = 0
        BY <3>1, <1>1, StringsAssumption DEF EndsAt, Addrs
      <4> HIDE DEF text, L
      <4> QED BY <4>1, <3>1, <2>1, <1>1, <1>11
    <3>2. CASE i # L
      <4>1. i \in 1 .. k
        BY <3>2, <2>1, <1>1
      <4> HIDE DEF text, k
      <4> QED BY <4>1, <1>2, <1>11
    <3> QED BY <3>1, <3>2
  <2>5. Len(text) = L /\ L \in Nat
    BY <2>1, <1>1, <1>11
  <2>6. text \in Seq(OneByte) /\ e \in Nat /\ s \in Nat /\ \A i \in 1 .. L : text[i] = memory[s + i - 1]
    BY <2>4, <1>1, <1>11
  <2> HIDE DEF text, L, e
  <2>7. Copy(memory, e, s, L) = Over(e, text)
    BY <2>5, <2>6, CopyIsOver, ZenonT(30)
  <2> QED BY <2>3, <2>7 DEF text, t, e
<1>13. CASE ~ (n >= L)
  <2>1. k = n /\ c = n /\ n <= L - 1 /\ e + n \in Addrs
    <3>1. n < L
      BY <1>13, <1>1
    <3> HIDE DEF e, L
    <3> QED BY <3>1, <1>1, <1>5, StringsAssumption DEF Least, Addrs
  <2>2. l.ended = FALSE
    <3>1. (n >= L) = FALSE
      BY <1>13
    <3> QED BY <3>1, <1>8
  <2> DEFINE m == Copy(memory, e, s, n)
             w == [m EXCEPT ![e + n] = 0]
  <2>3. StrNCat(memory, d, s, n) = w
    BY <1>4, <1>8, <1>9, <2>1, <2>2
  <2>4. m = [a \in Addrs |-> IF a \in e .. e + n - 1 THEN memory[s + (a - e)] ELSE memory[a]]
    BY DEF Copy
  <2> HIDE DEF m, k, c, text, L, e
  <2>5. w = [a \in Addrs |-> IF a = e + n THEN 0 ELSE m[a]]
    BY <2>1, <2>4
  <2>6. ASSUME NEW a \in Addrs
        PROVE  (IF a = e + n THEN 0 ELSE m[a])
                 = (IF a \in e .. e + Len(text) - 1 THEN text[a - e + 1] ELSE memory[a])
    <3>0. a \in Nat /\ Len(text) = n + 1
      BY StringsAssumption, <2>1, <1>11 DEF Addrs
    <3>1. CASE a = e + n
      <4>1. a \in e .. e + Len(text) - 1 /\ a - e + 1 = k + 1
        BY <3>0, <3>1, <2>1, <1>1
      <4> QED BY <4>1, <3>1, <1>11
    <3>2. CASE a \in e .. e + n - 1
      <4>1. a - e + 1 \in 1 .. k /\ a # e + n /\ a \in e .. e + Len(text) - 1
            /\ s + (a - e + 1) - 1 = s + (a - e)
        BY <3>0, <3>2, <2>1, <1>1
      <4>2. text[a - e + 1] = memory[s + (a - e)]
        BY <4>1, <1>2, <1>11
      <4> QED BY <4>1, <4>2, <3>2, <2>4
    <3>3. CASE a \notin e .. e + n
      <4>1. a # e + n /\ a \notin e .. e + n - 1 /\ a \notin e .. e + Len(text) - 1
        BY <3>0, <3>3, <1>1
      <4> QED BY <4>1, <2>4
    <3> QED BY <3>0, <3>1, <3>2, <3>3, <1>1
  <2> HIDE DEF w
  <2>7. w = [a \in Addrs |-> IF a \in e .. e + Len(text) - 1 THEN text[a - e + 1] ELSE memory[a]]
    BY <2>5, <2>6
  <2>8. w = Over(e, text)
    BY <2>7 DEF Over
  <2> QED BY <2>3, <2>8 DEF text, t, e
<1> QED BY <1>12, <1>13

(* Every copying function, on all of its arguments.                        *)
LEMMA CopiesAgree == memory \in Mem => CopiesAreFaithful
<1> SUFFICES ASSUME memory \in Mem, NEW d \in Addrs, NEW s \in Addrs, NEW n \in Counted
             PROVE  /\ Inside(d, n) /\ Inside(s, n) /\ Apart(d, n, s, n) =>
                         MemCpy(memory, d, s, n) = Over(d, [k \in 1 .. n |-> memory[s + k - 1]])
                    /\ Inside(d, n) => \A val \in Vals :
                         MemSet(memory, d, val, n) = Over(d, [k \in 1 .. n |-> val % ByteMod])
                    /\ IsStr(s) =>
                         /\ Inside(d, Len(Text(s)) + 1) /\ Apart(d, Len(Text(s)) + 1, s, Len(Text(s)) + 1) =>
                              StrCpy(memory, d, s) = Over(d, Append(Text(s), 0))
                         /\ Inside(d, n) /\ Apart(d, n, s, Len(Text(s)) + 1) =>
                              StrNCpy(memory, d, s, n) = Over(d, Padded(Text(s), n))
                         /\ IsStr(d) /\ Inside(EndAt(d), Len(Text(s)) + 1)
                              /\ Apart(d, EndAt(d) - d + (Len(Text(s)) + 1), s, Len(Text(s)) + 1) =>
                              /\ StrCat(memory, d, s) = Over(EndAt(d), Append(Text(s), 0))
                              /\ StrNCat(memory, d, s, n) = Over(EndAt(d), Append(Cut(Text(s), n), 0))
  BY DEF CopiesAreFaithful
<1> DEFINE size == Len(Text(s)) + 1
<1>1. Inside(d, n) /\ Inside(s, n) /\ Apart(d, n, s, n) =>
        MemCpy(memory, d, s, n) = Over(d, [k \in 1 .. n |-> memory[s + k - 1]])
  BY MemCpyAgrees
<1>2. Inside(d, n) => \A val \in Vals :
        MemSet(memory, d, val, n) = Over(d, [k \in 1 .. n |-> val % ByteMod])
  BY MemSetAgrees
<1>3. ASSUME IsStr(s), Inside(d, size), Apart(d, size, s, size)
      PROVE  StrCpy(memory, d, s) = Over(d, Append(Text(s), 0))
  <2>1. d \in Nat
    BY DEF Addrs
  <2> QED BY <1>3, <2>1, StrCpyAgrees
<1>4. ASSUME IsStr(s), Inside(d, n), Apart(d, n, s, size)
      PROVE  StrNCpy(memory, d, s, n) = Over(d, Padded(Text(s), n))
  BY <1>4, StrNCpyAgrees
<1>5. ASSUME IsStr(s), IsStr(d), Inside(EndAt(d), size), Apart(d, EndAt(d) - d + size, s, size)
      PROVE  /\ StrCat(memory, d, s) = Over(EndAt(d), Append(Text(s), 0))
             /\ StrNCat(memory, d, s, n) = Over(EndAt(d), Append(Cut(Text(s), n), 0))
  BY <1>5, StrCatAgrees, StrNCatAgrees
<1>6. IsStr(s) =>
        /\ Inside(d, size) /\ Apart(d, size, s, size) =>
             StrCpy(memory, d, s) = Over(d, Append(Text(s), 0))
        /\ Inside(d, n) /\ Apart(d, n, s, size) =>
             StrNCpy(memory, d, s, n) = Over(d, Padded(Text(s), n))
        /\ IsStr(d) /\ Inside(EndAt(d), size) /\ Apart(d, EndAt(d) - d + size, s, size) =>
             /\ StrCat(memory, d, s) = Over(EndAt(d), Append(Text(s), 0))
             /\ StrNCat(memory, d, s, n) = Over(EndAt(d), Append(Cut(Text(s), n), 0))
  <2> HIDE DEF size
  <2> QED BY <1>3, <1>4, <1>5, Zenon
<1> QED BY <1>1, <1>2, <1>6, Zenon

(* memcmp ends at the first difference, or after n bytes.                  *)
LEMMA MemCmpStops ==
  ASSUME NEW m, NEW p, NEW q, NEW n \in Nat
  PROVE  \E j \in 0 .. n :
           /\ \A k \in 0 .. j - 1 : k < n /\ m[p + k] = m[q + k]
           /\ ~ (j < n /\ m[p + j] = m[q + j])
           /\ MemCmp(m, p, q, n) = (IF j = n THEN 0 ELSE IF m[p + j] < m[q + j] THEN -1 ELSE 1)
<1> DEFINE Goes(k) == k < n /\ m[p + k] = m[q + k]
           Value(k) == (IF k = n THEN 0 ELSE IF m[p + k] < m[q + k] THEN -1 ELSE 1)
           goes == {k \in 0 .. n - 1 : Goes(k)}
           value == [k \in 0 .. n |-> Value(k)]
           f == CHOOSE f : f = [k \in 0 .. n |-> IF Goes(k) THEN f[k + 1] ELSE Value(k)]
<1>1. MemCmp(m, p, q, n) = f[0]
  BY DEF MemCmp
<1>2. /\ n \in Nat /\ 0 .. n = 0 .. n /\ 0 \in 0 .. n
      /\ \A k \in 0 .. n : Goes(k) => k \in 0 .. n - 1
  BY StringsAssumption DEF Addrs, Counted
<1> HIDE DEF Goes, Value
<1>3. goes \in SUBSET (0 .. n - 1)
  OBVIOUS
<1>4. ASSUME NEW g
      PROVE  Answers(g, n, goes, value) <=>
               g = [k \in 0 .. n |-> IF Goes(k) THEN g[k + 1] ELSE Value(k)]
  <2>1. \A k \in 0 .. n : (IF k \in goes THEN g[k + 1] ELSE value[k])
                              = (IF Goes(k) THEN g[k + 1] ELSE Value(k))
    BY <1>2
  <2> HIDE DEF goes, value
  <2>2. [k \in 0 .. n |-> IF k \in goes THEN g[k + 1] ELSE value[k]]
          = [k \in 0 .. n |-> IF Goes(k) THEN g[k + 1] ELSE Value(k)]
    BY <2>1
  <2> QED BY <1>2, <2>2 DEF Answers
<1>5. Answers(f, n, goes, value)
  <2> HIDE DEF goes, value
  <2>1. \E g : Answers(g, n, goes, value)
    BY <1>2, <1>3, LoopAnswers
  <2>2. f = [k \in 0 .. n |-> IF Goes(k) THEN f[k + 1] ELSE Value(k)]
    BY <1>4, <2>1
  <2> HIDE DEF f
  <2> QED BY <1>4, <2>2
<1>6. PICK j \in 0 .. n : j \notin goes /\ 0 .. j - 1 \subseteq goes /\ f[0] = value[j]
  <2> HIDE DEF f, goes, value
  <2> QED BY <1>2, <1>3, <1>5, FirstExit
<1> HIDE DEF f
<1>7. ~ Goes(j) /\ f[0] = Value(j) /\ \A k \in 0 .. j - 1 : Goes(k)
  BY <1>2, <1>6
<1> QED BY <1>1, <1>7 DEF Goes, Value

(* strcmp, at the end of the first string or a difference.                 *)
LEMMA StrCmpStops ==
  ASSUME NEW m, NEW p \in Nat, NEW q \in Nat
  PROVE  \E j \in 0 .. MemSize :
           /\ \A k \in 0 .. j - 1 : {p + k, q + k} \subseteq Addrs /\ m[p + k] # 0 /\ m[p + k] = m[q + k]
           /\ ~ ({p + j, q + j} \subseteq Addrs /\ m[p + j] # 0 /\ m[p + j] = m[q + j])
           /\ StrCmp(m, p, q) = m[p + j] - m[q + j]
<1> DEFINE Goes(k) == {p + k, q + k} \subseteq Addrs /\ m[p + k] # 0 /\ m[p + k] = m[q + k]
           Value(k) == m[p + k] - m[q + k]
           goes == {k \in 0 .. MemSize - 1 : Goes(k)}
           value == [k \in Counted |-> Value(k)]
           f == CHOOSE f : f = [k \in Counted |-> IF Goes(k) THEN f[k + 1] ELSE Value(k)]
<1>1. StrCmp(m, p, q) = f[0]
  BY DEF StrCmp
<1>2. /\ MemSize \in Nat /\ Counted = 0 .. MemSize /\ 0 \in 0 .. MemSize
      /\ \A k \in Counted : Goes(k) => k \in 0 .. MemSize - 1
  BY StringsAssumption DEF Addrs, Counted
<1> HIDE DEF Goes, Value
<1>3. goes \in SUBSET (0 .. MemSize - 1)
  OBVIOUS
<1>4. ASSUME NEW g
      PROVE  Answers(g, MemSize, goes, value) <=>
               g = [k \in Counted |-> IF Goes(k) THEN g[k + 1] ELSE Value(k)]
  <2>1. \A k \in Counted : (IF k \in goes THEN g[k + 1] ELSE value[k])
                              = (IF Goes(k) THEN g[k + 1] ELSE Value(k))
    BY <1>2
  <2> HIDE DEF goes, value
  <2>2. [k \in Counted |-> IF k \in goes THEN g[k + 1] ELSE value[k]]
          = [k \in Counted |-> IF Goes(k) THEN g[k + 1] ELSE Value(k)]
    BY <2>1
  <2> QED BY <1>2, <2>2 DEF Answers
<1>5. Answers(f, MemSize, goes, value)
  <2> HIDE DEF goes, value
  <2>1. \E g : Answers(g, MemSize, goes, value)
    BY <1>2, <1>3, LoopAnswers
  <2>2. f = [k \in Counted |-> IF Goes(k) THEN f[k + 1] ELSE Value(k)]
    BY <1>4, <2>1
  <2> HIDE DEF f
  <2> QED BY <1>4, <2>2
<1>6. PICK j \in 0 .. MemSize : j \notin goes /\ 0 .. j - 1 \subseteq goes /\ f[0] = value[j]
  <2> HIDE DEF f, goes, value
  <2> QED BY <1>2, <1>3, <1>5, FirstExit
<1> HIDE DEF f
<1>7. ~ Goes(j) /\ f[0] = Value(j) /\ \A k \in 0 .. j - 1 : Goes(k)
  BY <1>2, <1>6
<1> QED BY <1>1, <1>7 DEF Goes, Value

(* strncmp, also after n characters.                                       *)
LEMMA StrNCmpStops ==
  ASSUME NEW m, NEW p, NEW q, NEW n \in Nat
  PROVE  \E j \in 0 .. n :
           /\ \A k \in 0 .. j - 1 : k < n /\ m[p + k] = m[q + k] /\ m[p + k] # 0
           /\ ~ (j < n /\ m[p + j] = m[q + j] /\ m[p + j] # 0)
           /\ StrNCmp(m, p, q, n) = (IF j = n THEN 0 ELSE m[p + j] - m[q + j])
<1> DEFINE Goes(k) == k < n /\ m[p + k] = m[q + k] /\ m[p + k] # 0
           Value(k) == (IF k = n THEN 0 ELSE m[p + k] - m[q + k])
           goes == {k \in 0 .. n - 1 : Goes(k)}
           value == [k \in 0 .. n |-> Value(k)]
           f == CHOOSE f : f = [k \in 0 .. n |-> IF Goes(k) THEN f[k + 1] ELSE Value(k)]
<1>1. StrNCmp(m, p, q, n) = f[0]
  BY DEF StrNCmp
<1>2. /\ n \in Nat /\ 0 .. n = 0 .. n /\ 0 \in 0 .. n
      /\ \A k \in 0 .. n : Goes(k) => k \in 0 .. n - 1
  BY StringsAssumption DEF Addrs, Counted
<1> HIDE DEF Goes, Value
<1>3. goes \in SUBSET (0 .. n - 1)
  OBVIOUS
<1>4. ASSUME NEW g
      PROVE  Answers(g, n, goes, value) <=>
               g = [k \in 0 .. n |-> IF Goes(k) THEN g[k + 1] ELSE Value(k)]
  <2>1. \A k \in 0 .. n : (IF k \in goes THEN g[k + 1] ELSE value[k])
                              = (IF Goes(k) THEN g[k + 1] ELSE Value(k))
    BY <1>2
  <2> HIDE DEF goes, value
  <2>2. [k \in 0 .. n |-> IF k \in goes THEN g[k + 1] ELSE value[k]]
          = [k \in 0 .. n |-> IF Goes(k) THEN g[k + 1] ELSE Value(k)]
    BY <2>1
  <2> QED BY <1>2, <2>2 DEF Answers
<1>5. Answers(f, n, goes, value)
  <2> HIDE DEF goes, value
  <2>1. \E g : Answers(g, n, goes, value)
    BY <1>2, <1>3, LoopAnswers
  <2>2. f = [k \in 0 .. n |-> IF Goes(k) THEN f[k + 1] ELSE Value(k)]
    BY <1>4, <2>1
  <2> HIDE DEF f
  <2> QED BY <1>4, <2>2
<1>6. PICK j \in 0 .. n : j \notin goes /\ 0 .. j - 1 \subseteq goes /\ f[0] = value[j]
  <2> HIDE DEF f, goes, value
  <2> QED BY <1>2, <1>3, <1>5, FirstExit
<1> HIDE DEF f
<1>7. ~ Goes(j) /\ f[0] = Value(j) /\ \A k \in 0 .. j - 1 : Goes(k)
  BY <1>2, <1>6
<1> QED BY <1>1, <1>7 DEF Goes, Value

(* strchr, at the character or at the end.                                 *)
LEMMA StrChrStops ==
  ASSUME NEW m, NEW s \in Counted, NEW ch
  PROVE  \E j \in s .. MemSize :
           /\ \A k \in s .. j - 1 : k \in Addrs /\ m[k] \notin {0, ch % ByteMod}
           /\ ~ (j \in Addrs /\ m[j] \notin {0, ch % ByteMod})
           /\ StrChr(m, s, ch) = (IF m[j] = ch % ByteMod THEN j ELSE -1)
<1> DEFINE Goes(k) == k \in Addrs /\ m[k] \notin {0, ch % ByteMod}
           Value(k) == (IF m[k] = ch % ByteMod THEN k ELSE -1)
           goes == {k \in 0 .. MemSize - 1 : Goes(k)}
           value == [k \in Counted |-> Value(k)]
           f == CHOOSE f : f = [k \in Counted |-> IF Goes(k) THEN f[k + 1] ELSE Value(k)]
<1>1. StrChr(m, s, ch) = f[s]
  BY DEF StrChr
<1>2. /\ MemSize \in Nat /\ Counted = 0 .. MemSize /\ s \in 0 .. MemSize
      /\ \A k \in Counted : Goes(k) => k \in 0 .. MemSize - 1
  BY StringsAssumption DEF Addrs, Counted
<1> HIDE DEF Goes, Value
<1>3. goes \in SUBSET (0 .. MemSize - 1)
  OBVIOUS
<1>4. ASSUME NEW g
      PROVE  Answers(g, MemSize, goes, value) <=>
               g = [k \in Counted |-> IF Goes(k) THEN g[k + 1] ELSE Value(k)]
  <2>1. \A k \in Counted : (IF k \in goes THEN g[k + 1] ELSE value[k])
                              = (IF Goes(k) THEN g[k + 1] ELSE Value(k))
    BY <1>2
  <2> HIDE DEF goes, value
  <2>2. [k \in Counted |-> IF k \in goes THEN g[k + 1] ELSE value[k]]
          = [k \in Counted |-> IF Goes(k) THEN g[k + 1] ELSE Value(k)]
    BY <2>1
  <2> QED BY <1>2, <2>2 DEF Answers
<1>5. Answers(f, MemSize, goes, value)
  <2> HIDE DEF goes, value
  <2>1. \E g : Answers(g, MemSize, goes, value)
    BY <1>2, <1>3, LoopAnswers
  <2>2. f = [k \in Counted |-> IF Goes(k) THEN f[k + 1] ELSE Value(k)]
    BY <1>4, <2>1
  <2> HIDE DEF f
  <2> QED BY <1>4, <2>2
<1>6. PICK j \in s .. MemSize : j \notin goes /\ s .. j - 1 \subseteq goes /\ f[s] = value[j]
  <2> HIDE DEF f, goes, value
  <2> QED BY <1>2, <1>3, <1>5, FirstExit
<1> HIDE DEF f
<1>7. ~ Goes(j) /\ f[s] = Value(j) /\ \A k \in s .. j - 1 : Goes(k)
  BY <1>2, <1>6
<1> QED BY <1>1, <1>7 DEF Goes, Value

(* The inner loop of strstr, at a difference or an end.                    *)
BothGo(m, p, q, k) ==
  {p + k, q + k} \subseteq Addrs /\ 0 \notin {m[p + k], m[q + k]} /\ m[p + k] = m[q + k]
StopsAt(m, p, q, j) ==
  /\ \A k \in 0 .. j - 1 : BothGo(m, p, q, k)
  /\ ~ BothGo(m, p, q, j)
  /\ StartsWith(m, p, q) <=> m[q + j] = 0

(* The inner loop of strstr ends somewhere in the memory, and it has found *)
(* a start exactly when it ended at the end of the second string.          *)
LEMMA StartsWithStops ==
  ASSUME NEW m, NEW p \in Nat, NEW q \in Nat
  PROVE  \E j \in 0 .. MemSize : StopsAt(m, p, q, j)
<1> DEFINE Goes(k) == {p + k, q + k} \subseteq Addrs /\ 0 \notin {m[p + k], m[q + k]} /\ m[p + k] = m[q + k]
           Value(k) == (m[q + k] = 0)
           goes == {k \in 0 .. MemSize - 1 : Goes(k)}
           value == [k \in Counted |-> Value(k)]
           f == CHOOSE f : f = [k \in Counted |-> IF Goes(k) THEN f[k + 1] ELSE Value(k)]
<1>1. StartsWith(m, p, q) = f[0]
  BY DEF StartsWith
<1>2. /\ MemSize \in Nat /\ Counted = 0 .. MemSize /\ 0 \in 0 .. MemSize
      /\ \A k \in Counted : Goes(k) => k \in 0 .. MemSize - 1
  BY StringsAssumption DEF Addrs, Counted
<1> HIDE DEF Goes, Value
<1>3. goes \in SUBSET (0 .. MemSize - 1)
  OBVIOUS
<1>4. ASSUME NEW g
      PROVE  Answers(g, MemSize, goes, value) <=>
               g = [k \in Counted |-> IF Goes(k) THEN g[k + 1] ELSE Value(k)]
  <2>1. \A k \in Counted : (IF k \in goes THEN g[k + 1] ELSE value[k])
                              = (IF Goes(k) THEN g[k + 1] ELSE Value(k))
    BY <1>2
  <2> HIDE DEF goes, value
  <2>2. [k \in Counted |-> IF k \in goes THEN g[k + 1] ELSE value[k]]
          = [k \in Counted |-> IF Goes(k) THEN g[k + 1] ELSE Value(k)]
    BY <2>1
  <2> QED BY <1>2, <2>2 DEF Answers
<1>5. Answers(f, MemSize, goes, value)
  <2> HIDE DEF goes, value
  <2>1. \E g : Answers(g, MemSize, goes, value)
    BY <1>2, <1>3, LoopAnswers
  <2>2. f = [k \in Counted |-> IF Goes(k) THEN f[k + 1] ELSE Value(k)]
    BY <1>4, <2>1
  <2> HIDE DEF f
  <2> QED BY <1>4, <2>2
<1>6. PICK j \in 0 .. MemSize : j \notin goes /\ 0 .. j - 1 \subseteq goes /\ f[0] = value[j]
  <2> HIDE DEF f, goes, value
  <2> QED BY <1>2, <1>3, <1>5, FirstExit
<1> HIDE DEF f
<1>7. ~ Goes(j) /\ f[0] = Value(j) /\ \A k \in 0 .. j - 1 : Goes(k)
  BY <1>2, <1>6
<1>8. StopsAt(m, p, q, j)
  BY <1>1, <1>7 DEF Goes, Value, StopsAt, BothGo
<1> QED BY <1>8

(* Its outer loop, where the second string is found or the first ends.     *)
LEMMA SearchStops ==
  ASSUME NEW m, NEW p \in Counted, NEW q
  PROVE  \E j \in p .. MemSize :
           /\ \A k \in p .. j - 1 : k \in Addrs /\ m[k] # 0 /\ ~ StartsWith(m, k, q)
           /\ ~ (j \in Addrs /\ m[j] # 0 /\ ~ StartsWith(m, j, q))
           /\ Search(m, p, q) = (IF j \in Addrs /\ m[j] # 0 THEN j ELSE -1)
<1> DEFINE Goes(k) == k \in Addrs /\ m[k] # 0 /\ ~ StartsWith(m, k, q)
           Value(k) == (IF k \in Addrs /\ m[k] # 0 THEN k ELSE -1)
           goes == {k \in 0 .. MemSize - 1 : Goes(k)}
           value == [k \in Counted |-> Value(k)]
           f == CHOOSE f : f = [k \in Counted |-> IF Goes(k) THEN f[k + 1] ELSE Value(k)]
<1>1. Search(m, p, q) = f[p]
  BY DEF Search
<1>2. /\ MemSize \in Nat /\ Counted = 0 .. MemSize /\ p \in 0 .. MemSize
      /\ \A k \in Counted : Goes(k) => k \in 0 .. MemSize - 1
  BY StringsAssumption DEF Addrs, Counted
<1> HIDE DEF Goes, Value
<1>3. goes \in SUBSET (0 .. MemSize - 1)
  OBVIOUS
<1>4. ASSUME NEW g
      PROVE  Answers(g, MemSize, goes, value) <=>
               g = [k \in Counted |-> IF Goes(k) THEN g[k + 1] ELSE Value(k)]
  <2>1. \A k \in Counted : (IF k \in goes THEN g[k + 1] ELSE value[k])
                              = (IF Goes(k) THEN g[k + 1] ELSE Value(k))
    BY <1>2
  <2> HIDE DEF goes, value
  <2>2. [k \in Counted |-> IF k \in goes THEN g[k + 1] ELSE value[k]]
          = [k \in Counted |-> IF Goes(k) THEN g[k + 1] ELSE Value(k)]
    BY <2>1
  <2> QED BY <1>2, <2>2 DEF Answers
<1>5. Answers(f, MemSize, goes, value)
  <2> HIDE DEF goes, value
  <2>1. \E g : Answers(g, MemSize, goes, value)
    BY <1>2, <1>3, LoopAnswers
  <2>2. f = [k \in Counted |-> IF Goes(k) THEN f[k + 1] ELSE Value(k)]
    BY <1>4, <2>1
  <2> HIDE DEF f
  <2> QED BY <1>4, <2>2
<1>6. PICK j \in p .. MemSize : j \notin goes /\ p .. j - 1 \subseteq goes /\ f[p] = value[j]
  <2> HIDE DEF f, goes, value
  <2> QED BY <1>2, <1>3, <1>5, FirstExit
<1> HIDE DEF f
<1>7. ~ Goes(j) /\ f[p] = Value(j) /\ \A k \in p .. j - 1 : Goes(k)
  BY <1>2, <1>6
<1> QED BY <1>1, <1>7 DEF Goes, Value

(* Two texts that agree up to j, and a result that tells how they go on.   *)
LEMMA OrderedBy ==
  ASSUME NEW m \in Nat, NEW n \in Nat, NEW x \in Seq(Int), NEW y \in Seq(Int),
         Len(x) = m, Len(y) = n, NEW j \in Nat, j <= m, j <= n,
         \A i \in 1 .. j : x[i] = y[i], NEW result \in Int,
         \/ j = m /\ j = n /\ result = 0
         \/ j = m /\ j < n /\ result < 0
         \/ j < m /\ j = n /\ result > 0
         \/ j < m /\ j < n /\ x[j + 1] < y[j + 1] /\ result < 0
         \/ j < m /\ j < n /\ x[j + 1] > y[j + 1] /\ result > 0
  PROVE  Ordered(x, y, result)
<1> DEFINE Before(u, v) == \E k \in 1 .. Len(v) :
                             /\ \A i \in 1 .. k - 1 : i <= Len(u) /\ u[i] = v[i]
                             /\ k > Len(u) \/ u[k] < v[k]
<1>1. \A i \in 1 .. m : x[i] \in Int
  OBVIOUS
<1>2. \A i \in 1 .. n : y[i] \in Int
  OBVIOUS
<1>3. ASSUME j = m, j < n PROVE Before(x, y) /\ ~ Before(y, x)
  <2>1. Before(x, y)
    <3>1. j + 1 \in 1 .. Len(y) /\ (\A i \in 1 .. (j + 1) - 1 : i <= Len(x) /\ x[i] = y[i]) /\ j + 1 > Len(x)
      BY <1>3
    <3> QED BY <3>1
  <2>2. ~ Before(y, x)
    <3>1. ASSUME NEW k \in 1 .. Len(x), k > Len(y) \/ y[k] < x[k] PROVE FALSE
      <4>1. k \in 1 .. j /\ ~ (k > Len(y)) /\ x[k] = y[k] /\ x[k] \in Int
        BY <1>1, <1>3
      <4> QED BY <3>1, <4>1
    <3> QED BY <3>1
  <2> QED BY <2>1, <2>2
<1>4. ASSUME j = n, j < m PROVE Before(y, x) /\ ~ Before(x, y)
  <2>1. Before(y, x)
    <3>1. j + 1 \in 1 .. Len(x) /\ (\A i \in 1 .. (j + 1) - 1 : i <= Len(y) /\ y[i] = x[i]) /\ j + 1 > Len(y)
      BY <1>4
    <3> QED BY <3>1
  <2>2. ~ Before(x, y)
    <3>1. ASSUME NEW k \in 1 .. Len(y), k > Len(x) \/ x[k] < y[k] PROVE FALSE
      <4>1. k \in 1 .. j /\ ~ (k > Len(x)) /\ x[k] = y[k] /\ x[k] \in Int
        BY <1>1, <1>4
      <4> QED BY <3>1, <4>1
    <3> QED BY <3>1
  <2> QED BY <2>1, <2>2
<1>5. ASSUME j = m, j = n PROVE ~ Before(x, y) /\ ~ Before(y, x)
  <2>1. ASSUME NEW k \in 1 .. Len(y), k > Len(x) \/ x[k] < y[k] PROVE FALSE
    <3>1. k \in 1 .. j /\ ~ (k > Len(x)) /\ x[k] = y[k] /\ x[k] \in Int
      BY <1>1, <1>5
    <3> QED BY <2>1, <3>1
  <2>2. ASSUME NEW k \in 1 .. Len(x), k > Len(y) \/ y[k] < x[k] PROVE FALSE
    <3>1. k \in 1 .. j /\ ~ (k > Len(y)) /\ x[k] = y[k] /\ x[k] \in Int
      BY <1>1, <1>5
    <3> QED BY <2>2, <3>1
  <2> QED BY <2>1, <2>2
<1>6. ASSUME j < m, j < n, NEW u \in Seq(Int), NEW v \in Seq(Int),
             (u = x /\ v = y) \/ (u = y /\ v = x), u[j + 1] < v[j + 1]
      PROVE  Before(u, v) /\ ~ Before(v, u)
  <2>1. /\ j + 1 \in 1 .. Len(u) /\ j + 1 \in 1 .. Len(v)
        /\ \A i \in 1 .. j : i <= Len(u) /\ i <= Len(v) /\ u[i] = v[i] /\ u[i] \in Int
        /\ u[j + 1] \in Int /\ v[j + 1] \in Int
    BY <1>1, <1>2, <1>6, SMTT(30)
  <2>2. Before(u, v)
    <3>1. \A i \in 1 .. (j + 1) - 1 : i <= Len(u) /\ u[i] = v[i]
      BY <2>1, SMTT(30)
    <3> QED BY <2>1, <3>1, <1>6
  <2>3. ~ Before(v, u)
    <3>1. ASSUME NEW k \in 1 .. Len(u), \A i \in 1 .. k - 1 : i <= Len(v) /\ v[i] = u[i],
                 k > Len(v) \/ v[k] < u[k]
          PROVE  FALSE
      <4>1. CASE k <= j
        <5>1. k \in 1 .. j
          BY <4>1
        <5> QED BY <5>1, <2>1, <3>1, SMTT(30)
      <4>2. CASE k = j + 1
        BY <4>2, <2>1, <3>1, <1>6, SMTT(30)
      <4>3. CASE k > j + 1
        <5>1. j + 1 \in 1 .. k - 1
          BY <4>3
        <5> QED BY <5>1, <2>1, <3>1, <1>6, SMTT(30)
      <4> QED BY <4>1, <4>2, <4>3
    <3> QED BY <3>1
  <2> QED BY <2>2, <2>3
<1>7. Ordered(x, y, result) <=> (result < 0 <=> Before(x, y)) /\ (result > 0 <=> Before(y, x))
  BY DEF Ordered
<1>8. CASE j = m /\ j = n /\ result = 0
  <2> HIDE DEF Before
  <2> QED BY <1>5, <1>7, <1>8
<1>9. CASE j = m /\ j < n /\ result < 0
  <2> HIDE DEF Before
  <2> QED BY <1>3, <1>7, <1>9
<1>10. CASE j < m /\ j = n /\ result > 0
  <2> HIDE DEF Before
  <2> QED BY <1>4, <1>7, <1>10
<1>11. CASE j < m /\ j < n /\ x[j + 1] < y[j + 1] /\ result < 0
  <2> HIDE DEF Before
  <2> QED BY <1>6, <1>7, <1>11
<1>12. CASE j < m /\ j < n /\ x[j + 1] > y[j + 1] /\ result > 0
  <2>1. y[j + 1] < x[j + 1]
    BY <1>12, <1>1, <1>2
  <2> HIDE DEF Before
  <2> QED BY <2>1, <1>6, <1>7, <1>12
<1> QED BY <1>8, <1>9, <1>10, <1>11, <1>12

(* memcmp answers the order of the first difference.                       *)
LEMMA MemCmpAgrees ==
  ASSUME memory \in Mem, NEW p \in Addrs, NEW q \in Addrs, NEW n \in Counted, Inside(p, n), Inside(q, n)
  PROVE  Ordered([k \in 1 .. n |-> memory[p + k - 1]], [k \in 1 .. n |-> memory[q + k - 1]],
                 MemCmp(memory, p, q, n))
<1>0. n \in Nat
  BY DEF Counted
<1>2. PICK j \in 0 .. n : /\ \A k \in 0 .. j - 1 : k < n /\ memory[p + k] = memory[q + k]
                          /\ ~ (j < n /\ memory[p + j] = memory[q + j])
                          /\ MemCmp(memory, p, q, n) = (IF j = n THEN 0 ELSE IF memory[p + j] < memory[q + j] THEN -1 ELSE 1)
  BY <1>0, MemCmpStops
<1> DEFINE x == [k \in 1 .. n |-> memory[p + k - 1]]
           y == [k \in 1 .. n |-> memory[q + k - 1]]
           r == MemCmp(memory, p, q, n)
<1>1. /\ p \in Nat /\ q \in Nat /\ n \in Nat
      /\ \A k \in 0 .. n - 1 : memory[p + k] \in Int /\ memory[q + k] \in Int
  BY StringsAssumption DEF Addrs, Counted, Inside, Mem, OneByte
<1>9. r = (IF j = n THEN 0 ELSE IF memory[p + j] < memory[q + j] THEN -1 ELSE 1)
  BY <1>2
<1> HIDE DEF r
<1>3. /\ x \in Seq(Int) /\ y \in Seq(Int) /\ Len(x) = n /\ Len(y) = n
      /\ \A i \in 1 .. n : x[i] = memory[p + (i - 1)] /\ y[i] = memory[q + (i - 1)]
  <2>1. \A k \in 1 .. n : p + k - 1 = p + (k - 1) /\ q + k - 1 = q + (k - 1) /\ k - 1 \in 0 .. n - 1
    BY <1>1
  <2> QED BY <1>1, <2>1
<1> HIDE DEF x, y
<1>4. \A i \in 1 .. j : x[i] = y[i]
  <2>1. \A i \in 1 .. j : i \in 1 .. n /\ i - 1 \in 0 .. j - 1
    BY <1>1
  <2> QED BY <2>1, <1>2, <1>3
<1>5. j < n => x[j + 1] = memory[p + j] /\ y[j + 1] = memory[q + j]
  <2>1. j < n => j + 1 \in 1 .. n /\ (j + 1) - 1 = j
    BY <1>1
  <2> QED BY <2>1, <1>3
<1>6. j \in Nat /\ j <= n /\ r \in Int
  BY <1>1, <1>2, <1>9
<1>7. \/ j = n /\ r = 0
      \/ j < n /\ x[j + 1] < y[j + 1] /\ r < 0
      \/ j < n /\ x[j + 1] > y[j + 1] /\ r > 0
  <2>1. j < n => j \in 0 .. n - 1
    BY <1>1, <1>6
  <2> QED BY <2>1, <1>1, <1>2, <1>5, <1>6, <1>9
<1>8. Ordered(x, y, r)
  BY <1>1, <1>3, <1>4, <1>6, <1>7, OrderedBy
<1> QED BY <1>8 DEF x, y, r

(* Texts of bytes, as OrderedBy takes them.                                *)
LEMMA BytesAreInts ==
  ASSUME NEW t \in Seq(OneByte)
  PROVE  t \in Seq(Int)
<1>1. Len(t) \in Nat /\ t = [i \in 1 .. Len(t) |-> t[i]] /\ \A i \in 1 .. Len(t) : t[i] \in OneByte
  OBVIOUS
<1>2. \A i \in 1 .. Len(t) : t[i] \in Int
  BY <1>1 DEF OneByte
<1> DEFINE n == Len(t)
<1> HIDE DEF n
<1>3. n \in Nat /\ t = [i \in 1 .. n |-> t[i]] /\ \A i \in 1 .. n : t[i] \in Int
  BY <1>1, <1>2 DEF n
<1> QED BY <1>3

(* Where a string ends, as the proofs of its readers use it.               *)
LEMMA TextBytes ==
  ASSUME memory \in Mem, NEW p \in Addrs, IsStr(p), NEW n, n = Len(Text(p))
  PROVE  /\ p \in Nat /\ n \in Nat /\ EndAt(p) = p + n /\ memory[p + n] = 0 /\ p + n < MemSize
         /\ \A k \in 0 .. n : p + k \in Addrs /\ memory[p + k] \in Nat
         /\ \A k \in 0 .. n - 1 : memory[p + k] # 0
         /\ Text(p) \in Seq(Int)
         /\ \A i \in 1 .. n : Text(p)[i] = memory[p + (i - 1)]
<1>1. /\ EndAt(p) \in p .. MemSize - 1 /\ memory[EndAt(p)] = 0 /\ p \in Nat /\ MemSize \in Nat
      /\ \A a \in p .. EndAt(p) - 1 : memory[a] # 0
      /\ Text(p) \in Seq(OneByte) /\ n = EndAt(p) - p
      /\ \A k \in 1 .. EndAt(p) - p : Text(p)[k] = memory[p + k - 1]
  BY TextIs, StringsAssumption DEF EndsAt, Addrs
<1>2. n \in Nat /\ EndAt(p) = p + n /\ memory[p + n] = 0 /\ p + n < MemSize
  BY <1>1
<1>3. ASSUME NEW k \in 0 .. n PROVE p + k \in Addrs /\ memory[p + k] \in Nat
  <2>1. p + k \in Addrs
    BY <1>1, <1>2 DEF Addrs
  <2> QED BY <2>1 DEF Mem, OneByte
<1>4. ASSUME NEW k \in 0 .. n - 1 PROVE memory[p + k] # 0
  <2>1. p + k \in p .. EndAt(p) - 1
    BY <1>1, <1>2
  <2> QED BY <2>1, <1>1
<1>5. Text(p) \in Seq(Int)
  BY <1>1, BytesAreInts
<1>6. \A i \in 1 .. n : p + i - 1 = p + (i - 1)
  BY <1>1
<1> QED BY <1>1, <1>2, <1>3, <1>4, <1>5, <1>6

(* strlen.                                                                 *)
LEMMA StrLenAgrees ==
  ASSUME memory \in Mem, NEW p \in Addrs, IsStr(p)
  PROVE  StrLen(memory, p) = Len(Text(p))
<1>1. EndsAt(memory, p, EndAt(p)) /\ p \in Counted
  BY TextIs, StringsAssumption DEF Addrs, Counted
<1>2. EndOfStr(memory, p) = EndAt(p)
  BY <1>1, EndIsFound
<1>3. p \in Nat /\ EndAt(p) = p + Len(Text(p)) /\ Len(Text(p)) \in Nat
  BY TextBytes
<1> QED BY <1>2, <1>3 DEF StrLen

(* strcmp.                                                                 *)
LEMMA StrCmpAgrees ==
  ASSUME memory \in Mem, NEW p \in Addrs, NEW q \in Addrs, IsStr(p), IsStr(q)
  PROVE  Ordered(Text(p), Text(q), StrCmp(memory, p, q))
<1>1. p \in Nat /\ q \in Nat
  BY DEF Addrs
<1>2. PICK j \in 0 .. MemSize :
        /\ \A k \in 0 .. j - 1 :
             {p + k, q + k} \subseteq Addrs /\ memory[p + k] # 0 /\ memory[p + k] = memory[q + k]
        /\ ~ ({p + j, q + j} \subseteq Addrs /\ memory[p + j] # 0 /\ memory[p + j] = memory[q + j])
        /\ StrCmp(memory, p, q) = memory[p + j] - memory[q + j]
  BY <1>1, StrCmpStops, ZenonT(30)
<1> DEFINE x == Text(p)
           y == Text(q)
           m == Len(x)
           n == Len(y)
           r == StrCmp(memory, p, q)
<1>3. \A k \in 0 .. j - 1 : memory[p + k] # 0 /\ memory[p + k] = memory[q + k]
  BY <1>2
<1>4. /\ memory[p + m] = 0 /\ memory[q + n] = 0
      /\ \A k \in 0 .. m : p + k \in Addrs /\ memory[p + k] \in Nat
      /\ \A k \in 0 .. n : q + k \in Addrs /\ memory[q + k] \in Nat
      /\ \A k \in 0 .. m - 1 : memory[p + k] # 0
      /\ \A k \in 0 .. n - 1 : memory[q + k] # 0
  BY TextBytes
<1>5. r = memory[p + j] - memory[q + j]
  BY <1>2
<1>6. /\ m \in Nat /\ n \in Nat /\ x \in Seq(Int) /\ y \in Seq(Int) /\ Len(x) = m /\ Len(y) = n
      /\ \A i \in 1 .. m : x[i] = memory[p + (i - 1)]
      /\ \A i \in 1 .. n : y[i] = memory[q + (i - 1)]
  BY TextBytes
<1> HIDE DEF m, n, x, y, r
<1>7. j \in Nat /\ MemSize \in Nat
  BY <1>2, StringsAssumption
<1>8. j <= m
  <2>1. ~ (m \in 0 .. j - 1)
    BY <1>3, <1>4
  <2> QED BY <2>1, <1>6, <1>7
<1>9. j <= n
  <2>1. n \in 0 .. j - 1 => memory[p + n] # 0 /\ memory[p + n] = memory[q + n]
    BY <1>3
  <2>2. ~ (n \in 0 .. j - 1)
    BY <2>1, <1>4
  <2> QED BY <2>2, <1>6, <1>7
<1>10. \A i \in 1 .. j : x[i] = y[i]
  <2>1. \A i \in 1 .. j : i \in 1 .. m /\ i \in 1 .. n /\ i - 1 \in 0 .. j - 1
    BY <1>6, <1>7, <1>8, <1>9
  <2> QED BY <2>1, <1>3, <1>6
<1>11. /\ j < m => x[j + 1] = memory[p + j] /\ memory[p + j] # 0
       /\ j < n => y[j + 1] = memory[q + j] /\ memory[q + j] # 0
  <2>1. j < m => j + 1 \in 1 .. m /\ (j + 1) - 1 = j /\ j \in 0 .. m - 1
    BY <1>6, <1>7
  <2>2. j < n => j + 1 \in 1 .. n /\ (j + 1) - 1 = j /\ j \in 0 .. n - 1
    BY <1>6, <1>7
  <2> QED BY <2>1, <2>2, <1>4, <1>6
<1>12. /\ j \in 0 .. m /\ j \in 0 .. n
       /\ p + j \in Addrs /\ q + j \in Addrs /\ memory[p + j] \in Nat /\ memory[q + j] \in Nat
       /\ memory[p + j] = 0 \/ memory[p + j] # memory[q + j]
  <2>1. j \in 0 .. m /\ j \in 0 .. n
    BY <1>6, <1>7, <1>8, <1>9
  <2> QED BY <2>1, <1>2, <1>4
<1>13. r \in Int
  BY <1>5, <1>12
<1>14. \/ j = m /\ j = n /\ r = 0
       \/ j = m /\ j < n /\ r < 0
       \/ j < m /\ j = n /\ r > 0
       \/ j < m /\ j < n /\ x[j + 1] < y[j + 1] /\ r < 0
       \/ j < m /\ j < n /\ x[j + 1] > y[j + 1] /\ r > 0
  <2>1. CASE j = m /\ j = n
    BY <2>1, <1>4, <1>5
  <2>2. CASE j = m /\ j < n
    BY <2>2, <1>4, <1>5, <1>11, <1>12
  <2>3. CASE j < m /\ j = n
    BY <2>3, <1>4, <1>5, <1>11, <1>12
  <2>4. CASE j < m /\ j < n
    BY <2>4, <1>5, <1>11, <1>12
  <2> QED BY <2>1, <2>2, <2>3, <2>4, <1>6, <1>7, <1>8, <1>9
<1>15. Ordered(x, y, r)
  BY <1>6, <1>7, <1>8, <1>9, <1>10, <1>13, <1>14, OrderedBy
<1> QED BY <1>15 DEF x, y, r

(* The first n characters of a string, in the form of TextBytes.           *)
LEMMA CutBytes ==
  ASSUME memory \in Mem, NEW p \in Addrs, IsStr(p), NEW n \in Nat, NEW c, c = Least(n, Len(Text(p)))
  PROVE  /\ c \in Nat /\ Cut(Text(p), n) \in Seq(Int) /\ Len(Cut(Text(p), n)) = c
         /\ \A i \in 1 .. c : Cut(Text(p), n)[i] = memory[p + (i - 1)]
<1>1. p \in Nat /\ EndAt(p) = p + Len(Text(p)) /\ Len(Text(p)) \in Nat
  BY TextBytes
<1>2. EndAt(p) - p = Len(Text(p))
  BY <1>1
<1>3. /\ c \in Nat /\ Cut(Text(p), n) \in Seq(OneByte) /\ Len(Cut(Text(p), n)) = c
      /\ \A k \in 1 .. c : Cut(Text(p), n)[k] = memory[p + k - 1]
  BY <1>2, CutIs
<1>4. \A i \in 1 .. c : p + i - 1 = p + (i - 1)
  BY <1>1, <1>3
<1> QED BY <1>3, <1>4, BytesAreInts

(* strncmp compares the two strings cut to n characters.                   *)
LEMMA StrNCmpAgrees ==
  ASSUME memory \in Mem, NEW p \in Addrs, NEW q \in Addrs, IsStr(p), IsStr(q), NEW n \in Nat
  PROVE  Ordered(Cut(Text(p), n), Cut(Text(q), n), StrNCmp(memory, p, q, n))
<1>1. PICK j \in 0 .. n :
        /\ \A k \in 0 .. j - 1 : k < n /\ memory[p + k] = memory[q + k] /\ memory[p + k] # 0
        /\ ~ (j < n /\ memory[p + j] = memory[q + j] /\ memory[p + j] # 0)
        /\ StrNCmp(memory, p, q, n) = (IF j = n THEN 0 ELSE memory[p + j] - memory[q + j])
  BY StrNCmpStops
<1> DEFINE x == Cut(Text(p), n)
           y == Cut(Text(q), n)
           m == Len(Text(p))
           l == Len(Text(q))
           u == Least(n, m)
           v == Least(n, l)
           r == StrNCmp(memory, p, q, n)
<1>2. \A k \in 0 .. j - 1 : memory[p + k] # 0 /\ memory[p + k] = memory[q + k]
  BY <1>1
<1>3. /\ m \in Nat /\ l \in Nat /\ memory[p + m] = 0 /\ memory[q + l] = 0
      /\ \A k \in 0 .. m : memory[p + k] \in Nat
      /\ \A k \in 0 .. l : memory[q + k] \in Nat
      /\ \A k \in 0 .. m - 1 : memory[p + k] # 0
      /\ \A k \in 0 .. l - 1 : memory[q + k] # 0
  BY TextBytes
<1>4. r = (IF j = n THEN 0 ELSE memory[p + j] - memory[q + j])
  BY <1>1
<1>5. /\ u \in Nat /\ x \in Seq(Int) /\ Len(x) = u /\ \A i \in 1 .. u : x[i] = memory[p + (i - 1)]
      /\ v \in Nat /\ y \in Seq(Int) /\ Len(y) = v /\ \A i \in 1 .. v : y[i] = memory[q + (i - 1)]
  BY CutBytes
<1> HIDE DEF m, l, x, y, r
<1>6. j \in Nat /\ j <= n
  BY <1>1
<1>7. j <= m
  <2>1. ~ (m \in 0 .. j - 1)
    BY <1>2, <1>3
  <2> QED BY <2>1, <1>3, <1>6
<1>8. j <= l
  <2>1. l \in 0 .. j - 1 => memory[p + l] # 0 /\ memory[p + l] = memory[q + l]
    BY <1>2
  <2>2. ~ (l \in 0 .. j - 1)
    BY <2>1, <1>3
  <2> QED BY <2>2, <1>3, <1>6
<1>9. /\ j <= u /\ j <= v
      /\ j = n => j = u /\ j = v
      /\ j < n => (j = u <=> j = m) /\ (j = v <=> j = l) /\ (j < u <=> j < m) /\ (j < v <=> j < l)
  BY <1>3, <1>6, <1>7, <1>8 DEF Least
<1> HIDE DEF u, v
<1>10. \A i \in 1 .. j : x[i] = y[i]
  <2>1. \A i \in 1 .. j : i \in 1 .. u /\ i \in 1 .. v /\ i - 1 \in 0 .. j - 1
    BY <1>5, <1>6, <1>9
  <2> QED BY <2>1, <1>2, <1>5
<1>11. /\ j < u => x[j + 1] = memory[p + j]
       /\ j < v => y[j + 1] = memory[q + j]
  <2>1. j < u => j + 1 \in 1 .. u /\ (j + 1) - 1 = j
    BY <1>5, <1>6
  <2>2. j < v => j + 1 \in 1 .. v /\ (j + 1) - 1 = j
    BY <1>5, <1>6
  <2> QED BY <2>1, <2>2, <1>5
<1>12. /\ memory[p + j] \in Nat /\ memory[q + j] \in Nat
       /\ j < m => memory[p + j] # 0
       /\ j < l => memory[q + j] # 0
  <2>1. j \in 0 .. m /\ j \in 0 .. l
    BY <1>3, <1>6, <1>7, <1>8
  <2>2. (j < m => j \in 0 .. m - 1) /\ (j < l => j \in 0 .. l - 1)
    BY <1>3, <1>6
  <2> QED BY <2>1, <2>2, <1>3
<1>13. r \in Int
  BY <1>4, <1>12
<1>14. \/ j = u /\ j = v /\ r = 0
       \/ j = u /\ j < v /\ r < 0
       \/ j < u /\ j = v /\ r > 0
       \/ j < u /\ j < v /\ x[j + 1] < y[j + 1] /\ r < 0
       \/ j < u /\ j < v /\ x[j + 1] > y[j + 1] /\ r > 0
  <2>0. CASE j = n
    BY <2>0, <1>4, <1>9
  <2>1. CASE j < n /\ j = m /\ j = l
    BY <2>1, <1>3, <1>4, <1>9
  <2>2. CASE j < n /\ j = m /\ j < l
    BY <2>2, <1>3, <1>4, <1>9, <1>12
  <2>3. CASE j < n /\ j < m /\ j = l
    BY <2>3, <1>3, <1>4, <1>9, <1>12
  <2>4. CASE j < n /\ j < m /\ j < l
    <3>1. memory[p + j] # memory[q + j]
      BY <2>4, <1>1, <1>12
    <3> QED BY <2>4, <3>1, <1>4, <1>9, <1>11, <1>12
  <2> QED BY <2>0, <2>1, <2>2, <2>3, <2>4, <1>3, <1>6, <1>7, <1>8
<1>15. Ordered(x, y, r)
  BY <1>5, <1>6, <1>9, <1>10, <1>13, <1>14, OrderedBy
<1> QED BY <1>15 DEF x, y, r

(* The places of a character in a string, its end among them.              *)
Places(p, ch) == {k \in p .. EndAt(p) : memory[k] = ch % ByteMod}

(* strchr finds the first place of a character, the terminator included.   *)
LEMMA StrChrAgrees ==
  ASSUME memory \in Mem, NEW p \in Addrs, IsStr(p), NEW ch \in Vals
  PROVE  LET k == StrChr(memory, p, ch) IN
         IF Places(p, ch) = {} THEN k = -1
         ELSE k \in Places(p, ch) /\ \A j \in Places(p, ch) : k <= j
<1> DEFINE e == EndAt(p)
           b == ch % ByteMod
           r == StrChr(memory, p, ch)
<1>0. p \in Counted
  BY StringsAssumption DEF Addrs, Counted
<1>1. PICK j \in p .. MemSize :
        /\ \A k \in p .. j - 1 : k \in Addrs /\ memory[k] \notin {0, ch % ByteMod}
        /\ ~ (j \in Addrs /\ memory[j] \notin {0, ch % ByteMod})
        /\ StrChr(memory, p, ch) = (IF memory[j] = ch % ByteMod THEN j ELSE -1)
  BY <1>0, StrChrStops
<1>2. e \in p .. MemSize - 1 /\ memory[e] = 0 /\ \A k \in p .. e - 1 : memory[k] # 0
  BY TextIs DEF EndsAt
<1>3. p \in Nat /\ MemSize \in Nat /\ Addrs = 0 .. MemSize - 1
  BY StringsAssumption DEF Addrs
<1>4. r = (IF memory[j] = b THEN j ELSE -1)
  BY <1>1
<1>5. \A k \in p .. j - 1 : memory[k] # 0 /\ memory[k] # b
  BY <1>1
<1>6. ~ (j \in Addrs /\ memory[j] # 0 /\ memory[j] # b)
  BY <1>1
<1> HIDE DEF e, b, r
<1>7. j \in p .. e
  BY <1>2, <1>3, <1>5
<1>8. memory[j] = b \/ (memory[j] = 0 /\ j = e)
  <2>1. j \in Addrs
    BY <1>2, <1>3, <1>7
  <2>2. j = e \/ j \in p .. e - 1
    BY <1>2, <1>3, <1>7
  <2> QED BY <2>1, <2>2, <1>2, <1>6
<1>9. Places(p, ch) = {k \in p .. e : memory[k] = b}
  BY DEF Places, e, b
<1>10. CASE memory[j] = b
  <2>1. j \in Places(p, ch) /\ r = j
    BY <1>4, <1>7, <1>9, <1>10
  <2>2. \A k \in Places(p, ch) : j <= k
    BY <1>2, <1>3, <1>5, <1>7, <1>9
  <2> QED BY <2>1, <2>2 DEF r
<1>11. CASE memory[j] # b
  <2>1. j = e /\ r = -1
    BY <1>4, <1>8, <1>11
  <2>2. Places(p, ch) = {}
    <3>1. ASSUME NEW k \in p .. e, memory[k] = b PROVE FALSE
      <4>1. k \in p .. j - 1 \/ k = j
        BY <2>1, <1>2, <1>3
      <4> QED BY <4>1, <3>1, <1>5, <1>11
    <3> QED BY <3>1, <1>9
  <2> QED BY <2>1, <2>2 DEF r
<1> QED BY <1>10, <1>11

(* The loop of strrchr has an answer: the last place passed before a.      *)
LEMMA LastSeen ==
  ASSUME NEW m, NEW s \in Addrs, NEW ch
  PROVE  LET r == StrRChr(m, s, ch)  e == EndOfStr(m, s) IN
         e \in s .. MemSize =>
           \/ r = -1 /\ \A k \in s .. e - 1 : m[k] # ch % ByteMod
           \/ /\ r \in s .. e - 1 /\ m[r] = ch % ByteMod
              /\ \A k \in r + 1 .. e - 1 : m[k] # ch % ByteMod
<1> DEFINE b == ch % ByteMod
           Is(f) == f = [a \in s .. MemSize |->
                          IF a = s THEN -1 ELSE IF m[a - 1] = b THEN a - 1 ELSE f[a - 1]]
           f == CHOOSE f : Is(f)
           e == EndOfStr(m, s)
           n == MemSize - s
           step == [i \in Nat |-> [x \in Int |-> IF m[s + i - 1] = b THEN s + i - 1 ELSE x]]
<1>1. StrRChr(m, s, ch) = f[e]
  BY DEF StrRChr
<1>2. s \in Nat /\ MemSize \in Nat /\ s <= MemSize /\ n \in Nat
  BY StringsAssumption DEF Addrs
<1> HIDE DEF b, e
<1>3. Is(f)
  <2>1. PICK g : Iterates(g, Int, -1, step, n)
    <3>1. Steps(step, Int) /\ -1 \in Int
      BY <1>2 DEF Steps
    <3> HIDE DEF step, n
    <3> QED BY <1>2, <3>1, Recursion
  <2>2. g \in [0 .. n -> Int] /\ g[0] = -1 /\ \A i \in 1 .. n : g[i] = step[i][g[i - 1]]
    BY <2>1 DEF Iterates
  <2> DEFINE h == [a \in s .. MemSize |-> g[a - s]]
  <2>3. ASSUME NEW a \in s .. MemSize
        PROVE  h[a] = IF a = s THEN -1 ELSE IF m[a - 1] = b THEN a - 1 ELSE h[a - 1]
    <3>1. CASE a = s
      BY <1>2, <2>2, <3>1
    <3>2. CASE a # s
      <4>1. /\ a - s \in 1 .. n /\ (a - 1) - s = (a - s) - 1 /\ s + (a - s) - 1 = a - 1
            /\ a - 1 \in s .. MemSize /\ (a - s) - 1 \in 0 .. n
        BY <1>2, <3>2
      <4>2. step[a - s][g[(a - s) - 1]] = IF m[a - 1] = b THEN a - 1 ELSE g[(a - s) - 1]
        BY <2>2, <4>1
      <4>3. h[a] = g[a - s] /\ h[a - 1] = g[(a - s) - 1]
        BY <4>1
      <4> HIDE DEF step, h
      <4> QED BY <2>2, <3>2, <4>1, <4>2, <4>3
    <3> QED BY <3>1, <3>2
  <2>4. h = [a \in s .. MemSize |-> h[a]]
    OBVIOUS
  <2> HIDE DEF h
  <2>5. Is(h)
    BY <2>3, <2>4
  <2> HIDE DEF Is
  <2> QED BY <2>5
<1> HIDE DEF f
<1> DEFINE SeenLast(r, a) ==
             \/ r = -1 /\ \A k \in s .. a - 1 : m[k] # b
             \/ r \in s .. a - 1 /\ m[r] = b /\ \A k \in r + 1 .. a - 1 : m[k] # b
           D == {i \in 0 .. n : SeenLast(f[s + i], s + i)}
<1>4. 0 .. n \subseteq D
  <2>1. 0 \in D
    BY <1>2, <1>3
  <2>2. ASSUME NEW i \in 1 .. n, i - 1 \in D PROVE i \in D
    <3> DEFINE a == s + i
               r == f[a - 1]
    <3>1. a \in s .. MemSize /\ a # s /\ a - 1 = s + (i - 1) /\ a \in Nat
      BY <1>2
    <3>2. f[a] = IF m[a - 1] = b THEN a - 1 ELSE r
      BY <1>3, <3>1
    <3>3. SeenLast(r, a - 1)
      BY <2>2, <3>1
    <3> HIDE DEF a, r, f, Is
    <3>4. SeenLast(f[a], a)
      <4>1. CASE m[a - 1] = b
        <5>1. f[a] = a - 1 /\ a - 1 \in s .. a - 1 /\ (a - 1) + 1 .. a - 1 = {}
          BY <4>1, <1>2, <3>1, <3>2
        <5> QED BY <5>1, <4>1
      <4>2. CASE m[a - 1] # b
        <5>1. \A k \in s .. a - 1 : k \in s .. (a - 1) - 1 \/ k = a - 1
          BY <1>2, <3>1
        <5>2. CASE r = -1 /\ \A k \in s .. (a - 1) - 1 : m[k] # b
          BY <4>2, <5>1, <5>2, <3>2
        <5>3. CASE r \in s .. (a - 1) - 1 /\ m[r] = b /\ \A k \in r + 1 .. (a - 1) - 1 : m[k] # b
          <6>1. r \in s .. a - 1
            BY <5>3, <1>2, <3>1
          <6>2. \A k \in r + 1 .. a - 1 : k \in r + 1 .. (a - 1) - 1 \/ k = a - 1
            BY <6>1, <1>2, <3>1
          <6> QED BY <4>2, <5>3, <6>1, <6>2, <3>2
        <5> QED BY <5>2, <5>3, <3>3
      <4> QED BY <4>1, <4>2
    <3> HIDE DEF SeenLast
    <3> QED BY <3>4 DEF a
  <2> HIDE DEF D
  <2> QED BY <1>2, <2>1, <2>2, Throughout
<1>5. ASSUME e \in s .. MemSize PROVE SeenLast(f[e], e)
  <2>1. e - s \in 0 .. n /\ s + (e - s) = e
    BY <1>2, <1>5
  <2> HIDE DEF SeenLast
  <2> QED BY <1>4, <2>1
<1> QED BY <1>1, <1>5 DEF b, e

(* strrchr finds the last one, the terminator excluded.                    *)
LEMMA StrRChrAgrees ==
  ASSUME memory \in Mem, NEW p \in Addrs, IsStr(p), NEW ch \in Vals
  PROVE  LET k == StrRChr(memory, p, ch) IN
         IF Places(p, ch) = {} \/ ch % ByteMod = 0 THEN k = -1
         ELSE k \in Places(p, ch) /\ \A j \in Places(p, ch) : j <= k
<1> DEFINE e == EndAt(p)
           b == ch % ByteMod
           r == StrRChr(memory, p, ch)
<1>1. EndsAt(memory, p, e) /\ e \in p .. MemSize - 1 /\ memory[e] = 0
      /\ \A k \in p .. e - 1 : memory[k] # 0
  BY TextIs DEF EndsAt
<1>2. p \in Nat /\ MemSize \in Nat /\ p \in Counted
  BY StringsAssumption DEF Addrs, Counted
<1>3. EndOfStr(memory, p) = e /\ e \in p .. MemSize
  BY <1>1, <1>2, EndIsFound
<1>4. \/ r = -1 /\ \A k \in p .. e - 1 : memory[k] # b
      \/ r \in p .. e - 1 /\ memory[r] = b /\ \A k \in r + 1 .. e - 1 : memory[k] # b
  BY <1>3, LastSeen
<1>5. Places(p, ch) = {k \in p .. e : memory[k] = b}
  BY DEF Places
<1> HIDE DEF e, b, r
<1>6. \A k \in p .. e : k = e \/ k \in p .. e - 1
  BY <1>1, <1>2
<1>7. CASE b = 0
  <2>1. r = -1
    BY <1>1, <1>4, <1>7
  <2> QED BY <2>1, <1>7 DEF b, r
<1>8. CASE b # 0 /\ r = -1 /\ \A k \in p .. e - 1 : memory[k] # b
  <2>1. Places(p, ch) = {}
    BY <1>1, <1>5, <1>6, <1>8
  <2> QED BY <2>1, <1>8 DEF r
<1>9. CASE b # 0 /\ r \in p .. e - 1 /\ memory[r] = b /\ \A k \in r + 1 .. e - 1 : memory[k] # b
  <2>1. r \in Places(p, ch)
    BY <1>1, <1>2, <1>5, <1>9
  <2>2. ASSUME NEW k \in Places(p, ch) PROVE k <= r
    <3>1. k \in p .. e - 1 /\ memory[k] = b
      BY <1>1, <1>5, <1>6, <1>9
    <3>2. ~ (k \in r + 1 .. e - 1)
      BY <3>1, <1>9
    <3> QED BY <3>1, <3>2, <1>1, <1>2, <1>9
  <2> QED BY <2>1, <2>2, <1>9 DEF b, r
<1> QED BY <1>4, <1>7, <1>8, <1>9

(* Texts are equal character by character.                                 *)
LEMMA SameText ==
  ASSUME NEW x \in Seq(Int), NEW y \in Seq(Int), NEW n, Len(x) = n, Len(y) = n,
         \A i \in 1 .. n : x[i] = y[i]
  PROVE  x = y
<1>1. n \in Nat /\ x = [i \in 1 .. n |-> x[i]] /\ y = [i \in 1 .. n |-> y[i]]
  OBVIOUS
<1> QED BY <1>1

(* A string from one of its later characters on.                           *)
LEMMA SuffixIs ==
  ASSUME memory \in Mem, NEW p \in Addrs, IsStr(p), NEW k \in p .. EndAt(p)
  PROVE  k \in Addrs /\ IsStr(k) /\ EndAt(k) = EndAt(p)
<1>1. /\ EndAt(p) \in p .. MemSize - 1 /\ memory[EndAt(p)] = 0 /\ p \in Nat /\ MemSize \in Nat
      /\ \A a \in p .. EndAt(p) - 1 : memory[a] # 0
  BY TextIs, StringsAssumption DEF EndsAt, Addrs
<1>2. k \in Addrs /\ EndAt(p) \in k .. MemSize - 1
  BY <1>1 DEF Addrs
<1>3. IsStr(k)
  BY <1>1, <1>2 DEF IsStr
<1>4. EndsAt(memory, k, EndAt(p))
  BY <1>1, <1>2 DEF EndsAt
<1> QED BY <1>2, <1>3, <1>4, TextIs

(* The inner loop of strstr finds out whether a string starts with another. *)
LEMMA StartsWithAgrees ==
  ASSUME memory \in Mem, NEW p \in Addrs, NEW q \in Addrs, IsStr(p), IsStr(q)
  PROVE  StartsWith(memory, p, q) <=> Cut(Text(p), Len(Text(q))) = Text(q)
<1>1. p \in Nat /\ q \in Nat
  BY DEF Addrs
<1>2. PICK j \in 0 .. MemSize : StopsAt(memory, p, q, j)
  BY <1>1, StartsWithStops
<1> DEFINE m == Len(Text(p))
           l == Len(Text(q))
           x == Cut(Text(p), l)
           y == Text(q)
           u == Least(l, m)
           found == StartsWith(memory, p, q)
<1>3. \A k \in 0 .. j - 1 : memory[p + k] # 0 /\ memory[q + k] # 0 /\ memory[p + k] = memory[q + k]
  BY <1>2 DEF StopsAt, BothGo
<1>4. /\ m \in Nat /\ l \in Nat /\ memory[p + m] = 0 /\ memory[q + l] = 0
      /\ \A k \in 0 .. m : p + k \in Addrs /\ memory[p + k] \in Nat
      /\ \A k \in 0 .. l : q + k \in Addrs /\ memory[q + k] \in Nat
      /\ \A k \in 0 .. m - 1 : memory[p + k] # 0
      /\ \A k \in 0 .. l - 1 : memory[q + k] # 0
      /\ y \in Seq(Int) /\ \A i \in 1 .. l : y[i] = memory[q + (i - 1)]
  BY TextBytes
<1>5. u \in Nat /\ x \in Seq(Int) /\ Len(x) = u /\ \A i \in 1 .. u : x[i] = memory[p + (i - 1)]
  BY <1>4, CutBytes
<1>6. found <=> memory[q + j] = 0
  BY <1>2 DEF StopsAt
<1>7. Len(y) = l
  OBVIOUS
<1> HIDE DEF m, l, x, y, found
<1>8. j \in Nat
  BY <1>2, StringsAssumption
<1>9. j <= m /\ j <= l
  <2>1. ~ (m \in 0 .. j - 1) /\ ~ (l \in 0 .. j - 1)
    BY <1>3, <1>4
  <2> QED BY <2>1, <1>4, <1>8
<1>10. CASE memory[q + j] = 0
  <2>1. ~ (j \in 0 .. l - 1)
    BY <1>4, <1>10
  <2>2. j = l /\ u = l
    BY <2>1, <1>4, <1>8, <1>9 DEF Least
  <2>3. ASSUME NEW i \in 1 .. l PROVE x[i] = y[i]
    <3>1. i \in 1 .. u /\ i - 1 \in 0 .. j - 1
      BY <1>4, <2>2
    <3> QED BY <3>1, <1>3, <1>4, <1>5
  <2>4. x = y
    BY <2>2, <2>3, <1>4, <1>5, <1>7, SameText
  <2> QED BY <2>4, <1>6, <1>10 DEF found, x, y, l
<1>11. CASE memory[q + j] # 0
  <2>1. j < l
    BY <1>4, <1>8, <1>9, <1>11
  <2>2. x # y
    <3>1. CASE j = m
      <4>1. u = m /\ m < l
        BY <3>1, <2>1, <1>4 DEF Least
      <4> QED BY <4>1, <1>4, <1>5, <1>7
    <3>2. CASE j # m
      <4>1. j < m /\ j \in 0 .. m /\ j \in 0 .. m - 1 /\ j \in 0 .. l /\ j + 1 \in 1 .. l /\ (j + 1) - 1 = j
            /\ j + 1 \in 1 .. u
        BY <3>2, <2>1, <1>4, <1>8, <1>9 DEF Least
      <4>2. {p + j, q + j} \subseteq Addrs /\ memory[p + j] # 0
        BY <4>1, <1>4
      <4>3. memory[p + j] # memory[q + j]
        BY <4>2, <1>2, <1>11 DEF StopsAt, BothGo
      <4>4. x[j + 1] = memory[p + j] /\ y[j + 1] = memory[q + j]
        BY <4>1, <1>4, <1>5
      <4> QED BY <4>3, <4>4
    <3> QED BY <3>1, <3>2
  <2> QED BY <2>2, <1>6, <1>11 DEF found, x, y, l
<1> QED BY <1>10, <1>11

(* strstr finds the first place where the second string occurs.            *)
LEMMA StrStrAgrees ==
  ASSUME memory \in Mem, NEW p \in Addrs, NEW q \in Addrs, IsStr(p), IsStr(q)
  PROVE  LET at == {k \in p .. EndAt(p) : Cut(Text(k), Len(Text(q))) = Text(q)}
             k == StrStr(memory, p, q)
         IN  IF at = {} THEN k = -1 ELSE k \in at /\ \A j \in at : k <= j
<1> DEFINE e == EndAt(p)
           Occurs(k) == Cut(Text(k), Len(Text(q))) = Text(q)
           at == {k \in p .. e : Occurs(k)}
           r == StrStr(memory, p, q)
<1>1. /\ e \in p .. MemSize - 1 /\ memory[e] = 0 /\ p \in Nat /\ MemSize \in Nat /\ p \in Counted
      /\ \A a \in p .. e - 1 : memory[a] # 0
  BY TextIs, StringsAssumption DEF EndsAt, Addrs, Counted
<1>2. ASSUME NEW k \in p .. e PROVE k \in Addrs /\ (StartsWith(memory, k, q) <=> Occurs(k))
  <2>1. k \in Addrs /\ IsStr(k)
    BY <1>2, SuffixIs
  <2> QED BY <2>1, StartsWithAgrees
<1>3. /\ Len(Text(q)) \in Nat /\ Text(q) \in Seq(Int)
      /\ \A k \in 0 .. Len(Text(q)) - 1 : memory[q + k] # 0
      /\ memory[q + Len(Text(q))] = 0 /\ q \in Nat
  BY TextBytes
<1>4. CASE memory[q] = 0
  <2>1. r = p
    BY <1>4 DEF StrStr
  <2>2. Len(Text(q)) = 0
    <3>1. q + 0 = q
      BY <1>3
    <3>2. ~ (0 \in 0 .. Len(Text(q)) - 1)
      BY <3>1, <1>3, <1>4
    <3> QED BY <3>2, <1>3
  <2>3. Occurs(p)
    <3>1. Least(0, Len(Text(p))) = 0 /\ Len(Text(p)) \in Nat
      BY TextBytes DEF Least
    <3>2. Cut(Text(p), 0) \in Seq(Int) /\ Len(Cut(Text(p), 0)) = 0
      BY <3>1, CutBytes
    <3>3. Cut(Text(p), 0) = Text(q)
      BY <3>2, <2>2, <1>3, SameText
    <3> QED BY <3>3, <2>2
  <2>4. p \in at /\ \A j \in at : p <= j
    BY <2>3, <1>1
  <2> HIDE DEF at
  <2>5. at # {} /\ r \in at /\ \A j \in at : r <= j
    BY <2>1, <2>4
  <2> QED BY <2>5 DEF at
<1>5. CASE memory[q] # 0
  <2>1. r = Search(memory, p, q)
    BY <1>5 DEF StrStr
  <2>2. PICK j \in p .. MemSize :
          /\ \A k \in p .. j - 1 : k \in Addrs /\ memory[k] # 0 /\ ~ StartsWith(memory, k, q)
          /\ ~ (j \in Addrs /\ memory[j] # 0 /\ ~ StartsWith(memory, j, q))
          /\ Search(memory, p, q) = (IF j \in Addrs /\ memory[j] # 0 THEN j ELSE -1)
    BY <1>1, SearchStops
  <2> HIDE DEF Occurs, e, r
  <2>3. j \in p .. e
    <3>1. ~ (e \in p .. j - 1)
      BY <2>2, <1>1
    <3> QED BY <3>1, <1>1
  <2>4. \A k \in p .. j - 1 : ~ Occurs(k)
    <3>1. \A k \in p .. j - 1 : k \in p .. e
      BY <2>3, <1>1
    <3> QED BY <3>1, <2>2, <1>2
  <2>5. j \in Addrs
    BY <2>3, <1>2
  <2>6. CASE memory[j] = 0
    <3>1. j = e /\ r = -1
      BY <2>1, <2>2, <2>3, <2>6, <1>1
    <3>2. ~ Occurs(e)
      <4>1. e \in p .. e
        BY <1>1
      <4>2. e \in Addrs /\ IsStr(e) /\ EndAt(e) = e
        BY <4>1, SuffixIs DEF e
      <4>3. e = e + Len(Text(e)) /\ Len(Text(e)) \in Nat /\ e \in Nat
        BY <4>2, TextBytes
      <4>4. Len(Text(e)) = 0
        BY <4>3
      <4>5. Least(Len(Text(q)), Len(Text(e))) = 0
        BY <4>4, <1>3 DEF Least
      <4>6. Len(Cut(Text(e), Len(Text(q)))) = 0
        BY <4>2, <4>5, <1>3, CutBytes
      <4>7. Len(Text(q)) # 0
        <5>1. q + 0 = q
          BY <1>3
        <5> QED BY <5>1, <1>3, <1>5
      <4> QED BY <4>6, <4>7 DEF Occurs
    <3>3. \A k \in p .. e : ~ Occurs(k)
      <4>1. \A k \in p .. e : k = e \/ k \in p .. j - 1
        BY <3>1, <1>1
      <4> QED BY <4>1, <3>2, <2>4
    <3>4. at = {}
      BY <3>3
    <3> QED BY <3>1, <3>4 DEF Occurs, e, r
  <2>7. CASE memory[j] # 0
    <3>1. r = j /\ Occurs(j)
      BY <2>1, <2>2, <2>3, <2>5, <2>7, <1>2
    <3>2. j \in at /\ \A k \in at : j <= k
      <4>1. \A k \in p .. e : k \in p .. j - 1 \/ j <= k
        BY <2>3, <1>1
      <4> QED BY <4>1, <3>1, <2>3, <2>4
    <3> HIDE DEF at
    <3>3. at # {} /\ r \in at /\ \A k \in at : r <= k
      BY <3>1, <3>2
    <3> QED BY <3>3 DEF at, Occurs, e, r
  <2> QED BY <2>6, <2>7
<1> QED BY <1>4, <1>5

(* Every reading function, on all of its arguments.                        *)
LEMMA SearchesAgreeIn == memory \in Mem => SearchesAgree
<1> DEFINE Compared(p, q, n) ==
             Ordered([k \in 1 .. n |-> memory[p + k - 1]], [k \in 1 .. n |-> memory[q + k - 1]],
                     MemCmp(memory, p, q, n))
           Strs == {a \in Addrs : IsStr(a)}
           Occurs(p, ch) == {k \in p .. EndAt(p) : memory[k] = ch % ByteMod}
           FirstOne(p, ch) ==
             LET k == StrChr(memory, p, ch) IN
             IF Occurs(p, ch) = {} THEN k = -1 ELSE k \in Occurs(p, ch) /\ \A j \in Occurs(p, ch) : k <= j
           LastOne(p, ch) ==
             LET k == StrRChr(memory, p, ch) IN
             IF Occurs(p, ch) = {} \/ ch % ByteMod = 0 THEN k = -1
             ELSE k \in Occurs(p, ch) /\ \A j \in Occurs(p, ch) : j <= k
           Found(p, q) ==
             LET at == {k \in p .. EndAt(p) : Cut(Text(k), Len(Text(q))) = Text(q)}
                 k == StrStr(memory, p, q)
             IN  IF at = {} THEN k = -1 ELSE k \in at /\ \A j \in at : k <= j
<1> SUFFICES ASSUME memory \in Mem PROVE SearchesAgree
  OBVIOUS
<1>1. ASSUME NEW p \in Addrs, NEW q \in Addrs, NEW n \in Counted, Inside(p, n), Inside(q, n)
      PROVE  Compared(p, q, n)
  BY <1>1, MemCmpAgrees
<1>2. ASSUME NEW p \in Strs PROVE StrLen(memory, p) = Len(Text(p))
  BY StrLenAgrees
<1>3. ASSUME NEW p \in Strs, NEW ch \in Vals PROVE FirstOne(p, ch)
  BY StrChrAgrees DEF Places
<1>4. ASSUME NEW p \in Strs, NEW ch \in Vals PROVE LastOne(p, ch)
  BY StrRChrAgrees DEF Places
<1>5. ASSUME NEW p \in Strs, NEW q \in Strs PROVE Ordered(Text(p), Text(q), StrCmp(memory, p, q))
  BY StrCmpAgrees
<1>6. ASSUME NEW p \in Strs, NEW q \in Strs, NEW n \in Counted
      PROVE  Ordered(Cut(Text(p), n), Cut(Text(q), n), StrNCmp(memory, p, q, n))
  <2>1. n \in Nat
    BY StringsAssumption DEF Counted
  <2> QED BY <2>1, StrNCmpAgrees
<1>7. ASSUME NEW p \in Strs, NEW q \in Strs PROVE Found(p, q)
  BY StrStrAgrees
<1>8. SearchesAgree <=>
        /\ \A p, q \in Addrs, n \in Counted : Inside(p, n) /\ Inside(q, n) => Compared(p, q, n)
        /\ \A p \in Strs :
             /\ StrLen(memory, p) = Len(Text(p))
             /\ \A ch \in Vals : FirstOne(p, ch) /\ LastOne(p, ch)
             /\ \A q \in Strs :
                  /\ Ordered(Text(p), Text(q), StrCmp(memory, p, q))
                  /\ \A n \in Counted :
                       Ordered(Cut(Text(p), n), Cut(Text(q), n), StrNCmp(memory, p, q, n))
                  /\ Found(p, q)
  BY Zenon DEF SearchesAgree
<1> HIDE DEF Compared, Strs, FirstOne, LastOne, Found
<1> QED BY <1>1, <1>2, <1>3, <1>4, <1>5, <1>6, <1>7, <1>8, Zenon

(* No call leaves anything but bytes in the memory.                        *)
LEMMA StringsStep ==
  ASSUME memory \in Mem, StrNext
  PROVE  memory' \in Mem
<1>1. /\ MemSize \in Nat /\ MemSize + 1 \in Nat /\ ByteMod \in Nat
      /\ \A a \in Addrs : a \in Nat /\ a \in Counted
      /\ \A n \in Counted : n \in Nat
      /\ \A val \in Vals : val \in Int
  BY StringsAssumption DEF Addrs, Counted, Vals
<1>2. ASSUME NEW m \in Mem, NEW d \in Nat, NEW s \in Nat, NEW n \in Nat
      PROVE  /\ CopyChars(m, d, s, n).mem \in Mem \cup {Lost}
             /\ CopyChars(m, d, s, n).copied \in 0 .. n
  BY CopyCharsCopies DEF CopiedTo
<1>3. ASSUME NEW m \in Mem, NEW d \in Nat, NEW val \in Int, NEW n \in Nat
      PROVE  MemSet(m, d, val, n) \in Mem \cup {Lost}
  <2>1. CASE d + n <= MemSize
    <3>1. val % ByteMod \in OneByte /\ \A a \in Addrs : m[a] \in OneByte
      BY StringsAssumption DEF OneByte, Mem
    <3>2. [a \in Addrs |-> IF a \in d .. d + n - 1 THEN val % ByteMod ELSE m[a]] \in Mem
      BY <3>1 DEF Mem
    <3> QED BY <3>2, <2>1, MemSetFills
  <2>2. CASE ~ (d + n <= MemSize)
    BY <2>2 DEF MemSet
  <2> QED BY <2>1, <2>2
<1>4. ASSUME NEW d \in Nat, NEW s \in Addrs
      PROVE  StrCpy(memory, d, s) \in Mem \cup {Lost}
  BY <1>1, <1>2 DEF StrCpy
<1>5. ASSUME NEW d \in Addrs, NEW s \in Addrs
      PROVE  StrCat(memory, d, s) \in Mem \cup {Lost}
  <2>1. EndOfStr(memory, d) \in Nat
    BY <1>1, EndIsFound DEF Addrs
  <2> QED BY <2>1, <1>4 DEF StrCat
<1>6. ASSUME NEW d \in Addrs, NEW s \in Addrs, NEW n \in Counted
      PROVE  MemCpy(memory, d, s, n) \in Mem \cup {Lost}
  <2>1. CASE d + n <= MemSize /\ s + n <= MemSize
    BY <2>1, <1>1, MemCpyCopies
  <2>2. CASE ~ (d + n <= MemSize /\ s + n <= MemSize)
    BY <2>2 DEF MemCpy
  <2> QED BY <2>1, <2>2
<1>7. ASSUME NEW d \in Addrs, NEW s \in Addrs, NEW n \in Counted
      PROVE  StrNCpy(memory, d, s, n) \in Mem \cup {Lost}
  <2> DEFINE l == CopyChars(memory, d, s, n)
  <2>1. l.mem \in Mem \cup {Lost} /\ l.copied \in 0 .. n
    BY <1>1, <1>2
  <2>2. StrNCpy(memory, d, s, n)
          = (IF l.mem = Lost THEN Lost ELSE MemSet(l.mem, d + l.copied, 0, n - l.copied))
    BY DEF StrNCpy
  <2> HIDE DEF l
  <2>3. d + l.copied \in Nat /\ n - l.copied \in Nat /\ 0 \in Int
    BY <1>1, <2>1
  <2>4. CASE l.mem # Lost
    <3>1. l.mem \in Mem
      BY <2>1, <2>4
    <3> QED BY <3>1, <2>2, <2>3, <2>4, <1>3
  <2> QED BY <2>2, <2>4
<1>8. ASSUME NEW d \in Addrs, NEW s \in Addrs, NEW n \in Counted
      PROVE  StrNCat(memory, d, s, n) \in Mem \cup {Lost}
  <2> DEFINE e == EndOfStr(memory, d)
             l == CopyChars(memory, e, s, n)
             cut == [l.mem EXCEPT ![e + n] = 0]
  <2>1. e \in Nat
    BY <1>1, EndIsFound DEF Addrs
  <2>2. StrNCat(memory, d, s, n)
          = (IF l.ended \/ l.mem = Lost THEN l.mem ELSE IF e + n \in Addrs THEN cut ELSE Lost)
    BY DEF StrNCat
  <2> HIDE DEF e
  <2>3. l.mem \in Mem \cup {Lost}
    BY <1>1, <1>2, <2>1
  <2> HIDE DEF l
  <2>4. ASSUME l.mem # Lost PROVE cut \in Mem
    <3>1. l.mem \in Mem /\ 0 \in OneByte
      BY <2>3, <2>4, StringsAssumption DEF OneByte
    <3> QED BY <3>1 DEF Mem
  <2> HIDE DEF cut
  <2> QED BY <2>2, <2>3, <2>4
<1>9. ASSUME NEW m, m \in Mem \cup {Lost}, Leaves(m)
      PROVE  memory' \in Mem
  BY <1>9 DEF Leaves
<1>10. PICK d \in Addrs :
         \/ \E val \in Vals, n \in Counted : Leaves(MemSet(memory, d, val, n))
         \/ \E s \in Addrs : Leaves(StrCpy(memory, d, s)) \/ Leaves(StrCat(memory, d, s))
         \/ \E s \in Addrs, n \in Counted :
              \/ Leaves(MemCpy(memory, d, s, n))
              \/ Leaves(StrNCpy(memory, d, s, n))
              \/ Leaves(StrNCat(memory, d, s, n))
  BY DEF StrNext
<1>11. CASE \E val \in Vals, n \in Counted : Leaves(MemSet(memory, d, val, n))
  BY <1>1, <1>3, <1>9, <1>11
<1>12. CASE \E s \in Addrs : Leaves(StrCpy(memory, d, s)) \/ Leaves(StrCat(memory, d, s))
  BY <1>1, <1>4, <1>5, <1>9, <1>12
<1>13. CASE \E s \in Addrs, n \in Counted :
              \/ Leaves(MemCpy(memory, d, s, n))
              \/ Leaves(StrNCpy(memory, d, s, n))
              \/ Leaves(StrNCat(memory, d, s, n))
  BY <1>6, <1>7, <1>8, <1>9, <1>13
<1> QED BY <1>10, <1>11, <1>12, <1>13

MemoryInv == memory \in Mem

(* The memory holds bytes in every reachable state.                        *)
LEMMA MemoryIsBytes == StrSpec => []MemoryInv
<1>1. StrInit => MemoryInv
  BY DEF StrInit, MemoryInv, Mem, OneByte
<1>2. MemoryInv /\ [StrNext]_strVars => MemoryInv'
  BY StringsStep DEF strVars, MemoryInv
<1> QED BY <1>1, <1>2, PTL DEF StrSpec

(* The copying functions of string.c write what the C library promises,    *)
(* for every size of the memory, every content and every pair of           *)
(* addresses that do not overlap, after any calls before.                  *)
THEOREM CopiesAreFaithfulAlways == StrSpec => []CopiesAreFaithful
<1>1. MemoryInv => CopiesAreFaithful
  BY CopiesAgree DEF MemoryInv
<1> QED BY <1>1, MemoryIsBytes, PTL

(* Its reading functions answer what the C library promises, in every      *)
(* memory that calls of string.c can leave behind.                         *)
THEOREM SearchesAgreeAlways == StrSpec => []SearchesAgree
<1>1. MemoryInv => SearchesAgree
  BY SearchesAgreeIn DEF MemoryInv
<1> QED BY <1>1, MemoryIsBytes, PTL

(* Both, and that no call they are made for loses the memory: all of       *)
(* string.c as the C library has it.                                       *)
THEOREM StringFunctionsAgreeAlways == StrSpec => [](memory # Lost /\ StringFunctionsAgree)
<1>1. MemoryInv => memory # Lost
  BY NotLost DEF MemoryInv
<1>2. memory # Lost /\ CopiesAreFaithful /\ SearchesAgree
        => memory # Lost /\ StringFunctionsAgree
  BY DEF StringFunctionsAgree
<1> QED BY <1>1, <1>2, MemoryIsBytes, CopiesAreFaithfulAlways, SearchesAgreeAlways, PTL

-----------------------------------------------------------------------------
(* The formatting of text and numbers. A digit is what division by a power *)
(* of the base leaves: so are the digits number_to_string and itoa take    *)
(* off, those of the reference numeral, and those atoi puts together. The  *)
(* text a call has written is at every step the expansion of the format    *)
(* characters it has passed, cut to its room.                              *)

(* Two functions that start alike and go on alike are one.                 *)
LEMMA LoopsAgree ==
  ASSUME NEW n \in Nat, NEW f, NEW g, f[0] = g[0],
         \A i \in 1 .. n : f[i - 1] = g[i - 1] => f[i] = g[i]
  PROVE  f[n] = g[n]
<1> DEFINE D == {i \in 0 .. n : f[i] = g[i]}
<1>1. 0 \in D
  OBVIOUS
<1>2. ASSUME NEW i \in 1 .. n, i - 1 \in D PROVE i \in D
  BY <1>2
<1>3. 0 .. n \subseteq D
  <2> HIDE DEF D
  <2> QED BY <1>1, <1>2, Throughout
<1> QED BY <1>3

(* The powers of a base.                                                   *)
LEMMA PowersOf ==
  ASSUME NEW b \in Nat
  PROVE  /\ Power(b, 0) = 1
         /\ \A n \in Nat : Power(b, n) \in Nat /\ Power(b, n + 1) = b * Power(b, n)
<1> DEFINE Is(f, n) == f = [j \in 0 .. n |-> IF j = 0 THEN 1 ELSE b * f[j - 1]]
           F(n) == CHOOSE f : Is(f, n)
           step == [i \in Nat |-> [x \in Nat |-> b * x]]
<1>1. ASSUME NEW n \in Nat PROVE Power(b, n) = F(n)[n]
  BY DEF Power
<1>2. ASSUME NEW n \in Nat
      PROVE  F(n) \in [0 .. n -> Nat] /\ F(n)[0] = 1 /\ \A i \in 1 .. n : F(n)[i] = b * F(n)[i - 1]
  <2>1. PICK g : Iterates(g, Nat, 1, step, n)
    <3>1. Steps(step, Nat)
      BY DEF Steps
    <3> HIDE DEF step
    <3> QED BY <3>1, Recursion
  <2>2. g \in [0 .. n -> Nat] /\ g[0] = 1 /\ \A i \in 1 .. n : g[i] = step[i][g[i - 1]]
    BY <2>1 DEF Iterates
  <2>3. ASSUME NEW i \in 1 .. n PROVE g[i] = b * g[i - 1]
    <3>1. i \in Nat /\ g[i - 1] \in Nat
      BY <2>2
    <3>2. step[i][g[i - 1]] = b * g[i - 1]
      BY <3>1
    <3> QED BY <2>2, <3>2
  <2>4. Is(g, n)
    BY <2>2, <2>3
  <2>5. Is(F(n), n)
    <3> HIDE DEF Is
    <3> QED BY <2>4
  <2> HIDE DEF F
  <2>6. F(n)[0] = 1 /\ \A i \in 1 .. n : F(n)[i] = b * F(n)[i - 1]
    BY <2>5
  <2>7. F(n)[n] = g[n] /\ \A i \in 0 .. n : F(n)[i] \in Nat
    <3> DEFINE D == {i \in 0 .. n : F(n)[i] = g[i]}
    <3>1. 0 \in D
      BY <2>2, <2>6
    <3>2. ASSUME NEW i \in 1 .. n, i - 1 \in D PROVE i \in D
      BY <2>3, <2>6, <3>2
    <3>3. 0 .. n \subseteq D
      <4> HIDE DEF D
      <4> QED BY <3>1, <3>2, Throughout
    <3> QED BY <2>2, <3>3
  <2>8. DOMAIN F(n) = 0 .. n /\ F(n) = [i \in 0 .. n |-> F(n)[i]]
    BY <2>5
  <2> QED BY <2>6, <2>7, <2>8
<1> HIDE DEF F
<1>3. Power(b, 0) = 1
  BY <1>1, <1>2
<1>4. ASSUME NEW n \in Nat PROVE Power(b, n) \in Nat /\ Power(b, n + 1) = b * Power(b, n)
  <2>1. n + 1 \in Nat /\ n + 1 \in 1 .. n + 1 /\ (n + 1) - 1 = n /\ \A i \in 1 .. n : i \in 1 .. n + 1
    OBVIOUS
  <2>2. F(n)[0] = F(n + 1)[0] /\ \A i \in 1 .. n : F(n)[i - 1] = F(n + 1)[i - 1] => F(n)[i] = F(n + 1)[i]
    BY <2>1, <1>2
  <2>3. F(n)[n] = F(n + 1)[n]
    BY <2>2, LoopsAgree
  <2>4. F(n)[n] \in Nat /\ F(n + 1)[n + 1] = b * F(n + 1)[n]
    BY <2>1, <1>2
  <2> QED BY <2>1, <2>3, <2>4, <1>1
<1> QED BY <1>3, <1>4

(* Division by a divisor.                                                  *)
LEMMA DivisionIs ==
  ASSUME NEW n \in Nat, NEW d \in Nat \ {0}
  PROVE  /\ n \div d \in Nat /\ n % d \in 0 .. d - 1 /\ n = (n \div d) * d + (n % d)
         /\ \A q \in Nat, r \in 0 .. d - 1 : n = q * d + r => n \div d = q /\ n % d = r
<1>1. n \div d \in Nat /\ n % d \in 0 .. d - 1 /\ n = (n \div d) * d + (n % d)
  OBVIOUS
<1>2. ASSUME NEW q \in Nat, NEW r \in 0 .. d - 1, n = q * d + r
      PROVE  n \div d = q /\ n % d = r
  <2> DEFINE p == n \div d
             s == n % d
  <2>1. p \in Nat /\ s \in 0 .. d - 1 /\ p * d + s = q * d + r
    BY <1>1, <1>2
  <2> HIDE DEF p, s
  <2>2. (p - q) * d = r - s
    BY <2>1
  <2>3. ASSUME p - q >= 1 PROVE FALSE
    <3>1. (p - q) * d = d + (p - q - 1) * d /\ (p - q - 1) * d >= 0
      BY <2>1, <2>3
    <3> QED BY <3>1, <2>1, <2>2
  <2>4. ASSUME q - p >= 1 PROVE FALSE
    <3>1. (q - p) * d = d + (q - p - 1) * d /\ (q - p - 1) * d >= 0 /\ (q - p) * d = s - r
      BY <2>1, <2>2, <2>4
    <3> QED BY <3>1, <2>1
  <2>5. p = q
    BY <2>1, <2>3, <2>4
  <2>6. s = r
    BY <2>1, <2>5
  <2> QED BY <2>5, <2>6 DEF p, s
<1> QED BY <1>1, <1>2

(* Dividing twice is dividing by the product.                              *)
LEMMA DividedTwice ==
  ASSUME NEW n \in Nat, NEW d \in Nat \ {0}, NEW b \in Nat \ {0}
  PROVE  (n \div d) \div b = n \div (b * d)
<1> DEFINE q == n \div d
           r == n % d
           p == q \div b
           s == q % b
<1>1. q \in Nat /\ r \in 0 .. d - 1 /\ n = q * d + r
  BY DivisionIs
<1> HIDE DEF q, r
<1>2. p \in Nat /\ s \in 0 .. b - 1 /\ q = p * b + s
  BY <1>1, DivisionIs
<1> HIDE DEF p, s
<1>3. s * d \in Nat /\ (b - 1 - s) * d \in Nat /\ (b - 1 - s) * d = b * d - d - s * d /\ b * d \in Nat
  BY <1>2
<1>4. b * d # 0
  BY <1>3, <1>2
<1>5. s * d + r \in 0 .. b * d - 1
  BY <1>1, <1>3
<1>6. n = p * (b * d) + (s * d + r)
  <2>1. (p * b + s) * d = p * (b * d) + s * d
    BY <1>1, <1>2
  <2> QED BY <1>1, <1>2, <1>3, <2>1
<1>7. b * d \in Nat \ {0}
  BY <1>3, <1>4
<1> DEFINE c == b * d
           t == s * d + r
<1>8. p \in Nat /\ c \in Nat \ {0} /\ t \in 0 .. c - 1 /\ n = p * c + t
  BY <1>2, <1>5, <1>6, <1>7
<1> HIDE DEF c, t
<1>9. n \div c = p
  BY <1>8, DivisionIs
<1> QED BY <1>9 DEF p, q, c

(* The powers of a base grow.                                              *)
LEMMA PowersGrow ==
  ASSUME NEW b \in Nat, b >= 2
  PROVE  /\ \A k \in Nat : Power(b, k) >= k + 1
         /\ \A i \in Nat, j \in Nat : i <= j => Power(b, i) <= Power(b, j)
<1> DEFINE p == [k \in Nat |-> Power(b, k)]
<1>1. p[0] = 1 /\ \A n \in Nat : p[n] \in Nat /\ p[n + 1] = b * p[n]
  BY PowersOf
<1>2. \A k \in Nat : Power(b, k) = p[k]
  OBVIOUS
<1> HIDE DEF p
<1>3. ASSUME NEW n \in Nat PROVE p[n + 1] >= 2 * p[n]
  <2>1. \A x \in Nat, c \in Nat : c * x \in Nat /\ (c + 2) * x = (2 * x) + (c * x)
    OBVIOUS
  <2>2. p[n] \in Nat /\ b - 2 \in Nat /\ (b - 2) + 2 = b
    BY <1>1
  <2>3. b * p[n] = (2 * p[n]) + ((b - 2) * p[n]) /\ (b - 2) * p[n] \in Nat
    BY <2>1, <2>2
  <2> QED BY <1>1, <2>2, <2>3
<1>4. ASSUME NEW k \in Nat PROVE p[k] >= k + 1
  <2> DEFINE D == {i \in Nat : p[i] >= i + 1}
  <2>1. 0 \in D
    BY <1>1
  <2>2. ASSUME NEW i \in Nat, i \in D PROVE i + 1 \in D
    BY <1>1, <1>3, <2>2
  <2>3. Nat \subseteq D
    <3> HIDE DEF D
    <3> QED BY <2>1, <2>2, Induction
  <2> QED BY <2>3
<1>5. ASSUME NEW i \in Nat, NEW j \in Nat, i <= j PROVE p[i] <= p[j]
  <2> DEFINE D == {d \in Nat : p[i] <= p[i + d]}
  <2>1. 0 \in D
    BY <1>1
  <2>2. ASSUME NEW d \in Nat, d \in D PROVE d + 1 \in D
    <3>1. i + d \in Nat /\ i + (d + 1) = (i + d) + 1
      OBVIOUS
    <3>2. p[i + d] \in Nat /\ p[i] \in Nat /\ p[(i + d) + 1] \in Nat /\ p[(i + d) + 1] >= 2 * p[i + d]
      BY <3>1, <1>1, <1>3
    <3> QED BY <3>1, <3>2, <2>2
  <2>3. Nat \subseteq D
    <3> HIDE DEF D
    <3> QED BY <2>1, <2>2, Induction
  <2>4. j - i \in Nat /\ i + (j - i) = j
    BY <1>5
  <2> QED BY <2>3, <2>4
<1> QED BY <1>2, <1>4, <1>5

(* When a quotient is zero.                                                *)
LEMMA QuotientIsZero ==
  ASSUME NEW n \in Nat, NEW d \in Nat \ {0}
  PROVE  n \div d \in Nat /\ (n \div d = 0 <=> n < d)
<1> DEFINE q == n \div d
           r == n % d
<1>1. q \in Nat /\ r \in 0 .. d - 1 /\ n = q * d + r
  BY DivisionIs
<1>2. ASSUME n < d PROVE n \div d = 0
  <2>1. n \in 0 .. d - 1 /\ n = 0 * d + n
    BY <1>2
  <2> QED BY <2>1, DivisionIs
<1> HIDE DEF q, r
<1>3. q = 0 => n < d
  BY <1>1
<1> QED BY <1>1, <1>2, <1>3 DEF q

(* What is left of a number after k digits are off is its quotient by the  *)
(* k-th power of the base.                                                 *)
LEMMA LeftIs ==
  ASSUME NEW v \in Nat, NEW b \in Nat, b >= 2
  PROVE  \A k \in Nat : Left(v, b, k) = v \div Power(b, k)
<1> DEFINE p == [k \in Nat |-> Power(b, k)]
<1>1. p[0] = 1 /\ \A n \in Nat : p[n] \in Nat \ {0} /\ p[n + 1] = b * p[n]
  BY PowersOf, PowersGrow
<1>2. \A k \in Nat : Power(b, k) = p[k]
  OBVIOUS
<1> HIDE DEF p
<1> SUFFICES ASSUME NEW k \in Nat PROVE Left(v, b, k) = v \div p[k]
  BY <1>2
<1> DEFINE Is(f) == f = [j \in 0 .. k |-> IF j = 0 THEN v ELSE Quotient(f[j - 1], b)]
           F == CHOOSE f : Is(f)
           g == [j \in 0 .. k |-> v \div p[j]]
<1>3. Left(v, b, k) = F[k]
  BY DEF Left
<1>4. g[0] = v
  BY <1>1
<1>5. ASSUME NEW j \in 1 .. k PROVE g[j] = Quotient(g[j - 1], b)
  <2>1. j - 1 \in Nat /\ (j - 1) + 1 = j /\ j \in 0 .. k /\ j - 1 \in 0 .. k
    OBVIOUS
  <2>2. v \div p[j - 1] \in Nat
    BY <1>1, <2>1, QuotientIsZero
  <2>3. (v \div p[j - 1]) \div b = v \div p[j]
    BY <1>1, <2>1, DividedTwice
  <2>4. Quotient(v \div p[j - 1], b) = (v \div p[j - 1]) \div b
    BY <2>2 DEF Quotient
  <2> QED BY <2>1, <2>3, <2>4
<1>6. DOMAIN g = 0 .. k /\ g = [j \in 0 .. k |-> g[j]]
  OBVIOUS
<1>7. g[k] = v \div p[k]
  OBVIOUS
<1> HIDE DEF g
<1>8. Is(g)
  <2>1. \A j \in 0 .. k : g[j] = IF j = 0 THEN v ELSE Quotient(g[j - 1], b)
    BY <1>4, <1>5
  <2> QED BY <1>6, <2>1
<1>9. Is(F)
  <2> HIDE DEF Is
  <2> QED BY <1>8
<1> HIDE DEF F
<1>10. F[0] = v /\ \A j \in 1 .. k : F[j] = Quotient(F[j - 1], b)
  BY <1>9
<1>11. F[0] = g[0] /\ \A j \in 1 .. k : F[j - 1] = g[j - 1] => F[j] = g[j]
  BY <1>4, <1>5, <1>10
<1>12. F[k] = g[k]
  BY <1>11, LoopsAgree
<1> QED BY <1>3, <1>7, <1>12

(* Before the first round all of the number is left.                       *)
LEMMA LeftAtFirst ==
  ASSUME NEW v \in Int, NEW b \in Nat
  PROVE  Left(v, b, 0) = v
<1> DEFINE Is(f) == f = [j \in 0 .. 0 |-> IF j = 0 THEN v ELSE Quotient(f[j - 1], b)]
           F == CHOOSE f : Is(f)
           g == [j \in 0 .. 0 |-> v]
<1>1. Left(v, b, 0) = F[0]
  BY DEF Left
<1>2. Is(g)
  OBVIOUS
<1>3. Is(F)
  <2> HIDE DEF Is, g
  <2> QED BY <1>2
<1> HIDE DEF F
<1>4. F[0] = v
  BY <1>3
<1> QED BY <1>1, <1>4

(* The powers of a base, as one function.                                  *)
LEMMA PowerTable ==
  ASSUME NEW b \in Nat, b >= 2
  PROVE  \E p : /\ p[0] = 1
                /\ \A k \in Nat : /\ Power(b, k) = p[k] /\ p[k] \in Nat \ {0} /\ p[k] >= k + 1
                                  /\ p[k + 1] = b * p[k]
                /\ \A i \in Nat, j \in Nat : i <= j => p[i] <= p[j]
<1> DEFINE p == [k \in Nat |-> Power(b, k)]
<1>1. \A k \in Nat : Power(b, k) = p[k]
  OBVIOUS
<1> HIDE DEF p
<1>2. 0 \in Nat /\ \A k \in Nat : k + 1 \in Nat
  OBVIOUS
<1>3. p[0] = 1 /\ \A k \in Nat : p[k] \in Nat /\ p[k + 1] = b * p[k]
  BY <1>1, <1>2, PowersOf
<1>4. \A k \in Nat : p[k] >= k + 1
  BY <1>1, PowersGrow
<1>5. \A i \in Nat, j \in Nat : i <= j => p[i] <= p[j]
  <2>1. ASSUME NEW i \in Nat, NEW j \in Nat, i <= j PROVE p[i] <= p[j]
    BY <1>1, <2>1, PowersGrow
  <2> QED BY <2>1
<1>6. \A k \in Nat : p[k] \in Nat \ {0}
  BY <1>3, <1>4
<1> QED BY <1>1, <1>3, <1>4, <1>5, <1>6

(* The number of digits of n.                                              *)
DigitCount(n, b, w) ==
  /\ w \in 1 .. n + 1
  /\ n < Power(b, w)
  /\ w > 1 => Power(b, w - 1) <= n

(* Every number has one width.                                             *)
LEMMA OneDigitCount ==
  ASSUME NEW n \in Nat, NEW b \in Nat, b >= 2
  PROVE  /\ \E w : DigitCount(n, b, w)
         /\ \A v, w : DigitCount(n, b, v) /\ DigitCount(n, b, w) => v = w
<1>1. PICK p : /\ \A k \in Nat : Power(b, k) = p[k] /\ p[k] \in Nat /\ p[k] >= k + 1
               /\ \A i \in Nat, j \in Nat : i <= j => p[i] <= p[j]
  BY PowerTable
<1>2. \A k \in Nat : Power(b, k) = p[k]
  BY <1>1
<1>3. \A w : DigitCount(n, b, w) <=> w \in 1 .. n + 1 /\ n < p[w] /\ (w > 1 => p[w - 1] <= n)
  BY <1>2 DEF DigitCount
<1>4. \E w : DigitCount(n, b, w)
  <2> DEFINE T == {w \in Nat : w >= 1 /\ n < p[w]}
  <2>1. T \subseteq Nat /\ n + 1 \in T
    BY <1>1
  <2>2. \E w \in T : \A m \in T : w <= m
    <3> HIDE DEF T
    <3> QED BY <2>1, LeastNat
  <2>3. PICK w \in T : \A m \in T : w <= m
    BY <2>2
  <2>4. w \in 1 .. n + 1 /\ n < p[w]
    BY <2>1, <2>3
  <2>5. ASSUME w > 1 PROVE p[w - 1] <= n
    <3>1. w - 1 \in Nat /\ w - 1 >= 1 /\ w - 1 \notin T
      BY <2>3, <2>4, <2>5
    <3>2. p[w - 1] \in Nat
      BY <3>1, <1>1
    <3> QED BY <3>1, <3>2
  <2> QED BY <1>3, <2>4, <2>5
<1>5. ASSUME NEW v, NEW w, DigitCount(n, b, v), DigitCount(n, b, w), v < w PROVE FALSE
  <2>1. v \in 1 .. n + 1 /\ n < p[v] /\ w \in 1 .. n + 1 /\ p[w - 1] <= n
    BY <1>3, <1>5
  <2>2. v \in Nat /\ w - 1 \in Nat /\ v <= w - 1
    BY <2>1, <1>5
  <2>3. p[v] <= p[w - 1] /\ p[v] \in Nat /\ p[w - 1] \in Nat
    BY <2>2, <1>1
  <2> QED BY <2>1, <2>3
<1>6. ASSUME NEW v, NEW w, DigitCount(n, b, v), DigitCount(n, b, w) PROVE v = w
  <2>1. v \in Nat /\ w \in Nat
    BY <1>3, <1>6
  <2> QED BY <1>5, <1>6, <2>1
<1> QED BY <1>4, <1>6

(* The digit of n at the place of the k-th power of the base.              *)
Place(n, b, k) == Digit((n \div Power(b, k)) % b)

(* A number in w digits, the first of them first.                          *)
InDigits(n, b, w) == [i \in 1 .. w |-> Place(n, b, w - i)]

(* The reference numeral, by the width of its number.                      *)
LEMMA UnsignedIs ==
  ASSUME NEW n \in Nat, NEW b \in Nat, b >= 2, NEW w, DigitCount(n, b, w)
  PROVE  Unsigned(n, b) = InDigits(n, b, w)
<1> DEFINE W == CHOOSE v \in 1 .. n + 1 : n < Power(b, v) /\ (v > 1 => Power(b, v - 1) <= n)
<1>1. DigitCount(n, b, W)
  <2>1. \E v \in 1 .. n + 1 : n < Power(b, v) /\ (v > 1 => Power(b, v - 1) <= n)
    BY DEF DigitCount
  <2> QED BY <2>1 DEF DigitCount
<1>2. W = w
  <2> HIDE DEF W
  <2> QED BY <1>1, OneDigitCount
<1>3. Unsigned(n, b) = InDigits(n, b, W)
  BY DEF Unsigned, InDigits, Place
<1> QED BY <1>2, <1>3

(* What number_to_string's loop takes off a positive number is its digits, *)
(* the last one first.                                                     *)
LEMMA DigitsAre ==
  ASSUME NEW n \in 1 .. IntHalf - 1, NEW b \in Nat, b >= 2, NEW w, DigitCount(n, b, w)
  PROVE  Digits(n, b) = [k \in 1 .. w |-> Place(n, b, k - 1)]
<1> USE FormatAssumption
<1> DEFINE StopsAfter(m) == ~ Left(n, b, m) > 0 /\ \A k \in 0 .. m - 1 : Left(n, b, k) > 0
           R == CHOOSE m \in 0 .. IntHalf : StopsAfter(m)
<1>0. n \in Nat
  OBVIOUS
<1>1. PICK p : /\ p[0] = 1
               /\ \A i \in Nat : Power(b, i) = p[i] /\ p[i] \in Nat \ {0}
               /\ \A i \in Nat, j \in Nat : i <= j => p[i] <= p[j]
  BY PowerTable
<1>2. \A k \in Nat : Power(b, k) = p[k]
  BY <1>1
<1>3. \A k \in Nat : Left(n, b, k) = n \div p[k]
  BY <1>0, <1>2, LeftIs
<1>4. \A k \in Nat : n \div p[k] \in Nat /\ (n \div p[k] > 0 <=> p[k] <= n)
  <2> SUFFICES ASSUME NEW k \in Nat PROVE n \div p[k] \in Nat /\ (n \div p[k] > 0 <=> p[k] <= n)
    OBVIOUS
  <2>1. p[k] \in Nat \ {0}
    BY <1>1
  <2>2. n \div p[k] \in Nat /\ (n \div p[k] = 0 <=> n < p[k])
    BY <1>0, <2>1, QuotientIsZero
  <2> QED BY <2>1, <2>2
<1>5. w \in 1 .. n + 1 /\ n < p[w] /\ (w > 1 => p[w - 1] <= n)
  BY <1>2 DEF DigitCount
<1>6. \A m \in Nat : StopsAfter(m) <=> n < p[m] /\ \A k \in 0 .. m - 1 : p[k] <= n
  <2> SUFFICES ASSUME NEW m \in Nat
               PROVE  StopsAfter(m) <=> n < p[m] /\ \A k \in 0 .. m - 1 : p[k] <= n
    OBVIOUS
  <2>1. \A k \in 0 .. m - 1 : k \in Nat
    OBVIOUS
  <2>2. (~ Left(n, b, m) > 0) <=> n < p[m]
    <3>1. Left(n, b, m) = n \div p[m] /\ n \div p[m] \in Nat /\ p[m] \in Nat
      BY <1>1, <1>3, <1>4
    <3>2. n \div p[m] > 0 <=> p[m] <= n
      BY <1>4
    <3> QED BY <3>1, <3>2
  <2>3. \A k \in 0 .. m - 1 : Left(n, b, k) > 0 <=> p[k] <= n
    BY <2>1, <1>3, <1>4
  <2> QED BY <2>2, <2>3
<1>7. StopsAfter(w)
  <2>1. ASSUME NEW k \in 0 .. w - 1 PROVE p[k] <= n
    <3>1. CASE w > 1
      <4>1. k \in Nat /\ w - 1 \in Nat /\ k <= w - 1
        BY <3>1, <1>5
      <4>2. p[k] <= p[w - 1] /\ p[k] \in Nat /\ p[w - 1] \in Nat
        BY <4>1, <1>1
      <4> QED BY <4>2, <3>1, <1>5
    <3>2. CASE w = 1
      <4>1. k = 0
        BY <3>2
      <4> QED BY <4>1, <1>1
    <3> QED BY <3>1, <3>2, <1>5
  <2> QED BY <2>1, <1>5, <1>6
<1>8. R \in 0 .. IntHalf /\ StopsAfter(R)
  <2>1. w \in 0 .. IntHalf
    BY <1>5
  <2> HIDE DEF StopsAfter
  <2> QED BY <2>1, <1>7
<1>9. Digits(n, b) = [k \in 1 .. R |-> Digit(Left(n, b, k - 1) % b)]
  BY DEF Digits
<1> HIDE DEF R
<1>10. R \in Nat /\ n < p[R] /\ \A k \in 0 .. R - 1 : p[k] <= n
  BY <1>6, <1>8
<1>11. R = w
  <2>1. R >= 1
    BY <1>10, <1>1
  <2>2. ASSUME R > w PROVE FALSE
    <3>1. w \in 0 .. R - 1
      BY <2>2, <1>5, <1>10
    <3>2. p[w] \in Nat
      BY <3>1, <1>1
    <3> QED BY <3>1, <3>2, <1>5, <1>10
  <2>3. ASSUME R < w PROVE FALSE
    <3>1. w > 1 /\ w - 1 \in Nat /\ R <= w - 1
      BY <2>1, <2>3, <1>5, <1>10
    <3>2. p[R] <= p[w - 1] /\ p[R] \in Nat /\ p[w - 1] \in Nat
      BY <3>1, <1>1, <1>10
    <3> QED BY <3>1, <3>2, <1>5, <1>10
  <2> QED BY <2>2, <2>3, <1>5, <1>10
<1>12. \A k \in 1 .. w : Left(n, b, k - 1) = n \div Power(b, k - 1)
  <2>1. \A k \in 1 .. w : k - 1 \in Nat
    BY <1>5
  <2> QED BY <2>1, <1>2, <1>3
<1> QED BY <1>9, <1>11, <1>12 DEF Place

(* An int stays what it is, and the negation of the least one is itself.   *)
LEMMA WrapIs ==
  /\ \A n \in -IntHalf .. IntHalf - 1 : Wrap(n) = n
  /\ Wrap(IntHalf) = -IntHalf
<1> USE FormatAssumption
<1>1. ASSUME NEW n \in -IntHalf .. IntHalf - 1 PROVE Wrap(n) = n
  <2> DEFINE m == n + IntHalf
             d == 2 * IntHalf
  <2>1. m \in Nat /\ d \in Nat \ {0} /\ m \in 0 .. d - 1 /\ m = 0 * d + m
    OBVIOUS
  <2>2. m % d = m
    <3> HIDE DEF m, d
    <3> QED BY <2>1, DivisionIs
  <2>3. Wrap(n) = (m % d) - IntHalf
    BY DEF Wrap
  <2> QED BY <2>2, <2>3
<1>2. Wrap(IntHalf) = -IntHalf
  <2> DEFINE d == 2 * IntHalf
  <2>1. d \in Nat \ {0} /\ 0 \in 0 .. d - 1 /\ d = 1 * d + 0
    OBVIOUS
  <2>2. d % d = 0
    <3> HIDE DEF d
    <3> QED BY <2>1, DivisionIs
  <2>3. Wrap(IntHalf) = (d % d) - IntHalf
    BY DEF Wrap
  <2> QED BY <2>2, <2>3
<1> QED BY <1>1, <1>2

(* What texts are made of: the letters, the digits and the minus sign.     *)
Letter == Letters \cup {Digit(d) : d \in 0 .. 15} \cup {"-"}

(* The digits are characters, and no two of them are the same; none is a   *)
(* blank, a sign or the terminator.                                        *)
LEMMA DigitsApart ==
  /\ \A d \in 0 .. 15 : Digit(d) \in Letter
  /\ \A d \in 0 .. 9 : \A e \in 0 .. 9 : Digit(d) = Digit(e) => d = e
  /\ \A d \in 0 .. 9 : Digit(d) \notin {" ", "\t", "-", "+", Nul}
<1>2. /\ Digit(0) = "0" /\ Digit(1) = "1" /\ Digit(2) = "2" /\ Digit(3) = "3" /\ Digit(4) = "4"
      /\ Digit(5) = "5" /\ Digit(6) = "6" /\ Digit(7) = "7" /\ Digit(8) = "8" /\ Digit(9) = "9"
  BY DEF Digit
<1>4. \A d \in 0 .. 15 : Digit(d) \in Letter
  BY DEF Letter
<1>5. \A d \in 0 .. 9 : d = 0 \/ d = 1 \/ d = 2 \/ d = 3 \/ d = 4 \/ d = 5 \/ d = 6 \/ d = 7
                          \/ d = 8 \/ d = 9
  OBVIOUS
<1>6. \A d \in 0 .. 9 : \A e \in 0 .. 9 : Digit(d) = Digit(e) => d = e
  BY <1>2, <1>5
<1>7. \A d \in 0 .. 9 : Digit(d) \notin {" ", "\t", "-", "+", Nul}
  BY <1>2, <1>5 DEF Nul
<1> QED BY <1>4, <1>6, <1>7

(* A number in digits is a text of characters.                             *)
LEMMA InDigitsIs ==
  ASSUME NEW n \in Nat, NEW b \in 2 .. 16, NEW w \in Nat
  PROVE  /\ \A k \in Nat : Place(n, b, k) \in Letter
         /\ InDigits(n, b, w) \in Seq(Letter) /\ Len(InDigits(n, b, w)) = w
         /\ \A i \in 1 .. w : InDigits(n, b, w)[i] = Place(n, b, w - i)
<1>1. ASSUME NEW k \in Nat PROVE Place(n, b, k) \in Letter
  <2>0. b \in Nat \ {0} /\ b >= 2
    OBVIOUS
  <2>1. Power(b, k) \in Nat \ {0}
    <3>1. Power(b, k) \in Nat /\ Power(b, k) >= k + 1
      BY <2>0, PowersOf, PowersGrow
    <3> QED BY <3>1
  <2>2. n \div Power(b, k) \in Nat
    BY <2>1, QuotientIsZero
  <2>3. (n \div Power(b, k)) % b \in 0 .. b - 1
    BY <2>0, <2>2, DivisionIs
  <2>4. (n \div Power(b, k)) % b \in 0 .. 15
    BY <2>3
  <2> QED BY <2>4, DigitsApart DEF Place
<1>2. \A i \in 1 .. w : w - i \in Nat
  OBVIOUS
<1>3. InDigits(n, b, w) \in [1 .. w -> Letter]
  BY <1>1, <1>2 DEF InDigits
<1>4. InDigits(n, b, w) \in Seq(Letter) /\ Len(InDigits(n, b, w)) = w
  BY <1>3
<1> QED BY <1>1, <1>4 DEF InDigits

(* Turned round, the digits taken off last first are the number.           *)
LEMMA TurnedRound ==
  ASSUME NEW n \in Nat, NEW b \in 2 .. 16, NEW w \in Nat
  PROVE  LET s == [k \in 1 .. w |-> Place(n, b, k - 1)]
         IN  s \in Seq(Letter) /\ Len(s) = w /\ Reverse(s) = InDigits(n, b, w)
<1> DEFINE s == [k \in 1 .. w |-> Place(n, b, k - 1)]
<1>1. \A k \in 1 .. w : k - 1 \in Nat
  OBVIOUS
<1>2. s \in [1 .. w -> Letter]
  BY <1>1, InDigitsIs
<1>3. s \in Seq(Letter) /\ Len(s) = w
  BY <1>2
<1>4. Reverse(s) = [i \in 1 .. w |-> s[(w - i) + 1]]
  BY <1>3 DEF Reverse
<1>5. \A i \in 1 .. w : s[(w - i) + 1] = Place(n, b, w - i)
  <2>1. \A i \in 1 .. w : (w - i) + 1 \in 1 .. w /\ ((w - i) + 1) - 1 = w - i
    OBVIOUS
  <2> QED BY <2>1
<1>6. Reverse(s) = InDigits(n, b, w)
  BY <1>4, <1>5 DEF InDigits
<1> QED BY <1>3, <1>6

(* Turned round, what was written last comes first.                        *)
LEMMA LastComesFirst ==
  ASSUME NEW s \in Seq(Letter), NEW c \in Letter
  PROVE  Reverse(s \o <<c>>) = <<c>> \o Reverse(s)
<1> DEFINE t == s \o <<c>>
           r == Reverse(s)
           u == <<c>> \o r
<1>1. <<c>> \in Seq(Letter) /\ Len(<<c>>) = 1 /\ <<c>>[1] = c
  OBVIOUS
<1>2. Len(s) \in Nat /\ DOMAIN s = 1 .. Len(s) /\ \A i \in 1 .. Len(s) : s[i] \in Letter
  BY LenProperties, ElementOfSeq
<1>3. t \in Seq(Letter) /\ Len(t) = Len(s) + 1
      /\ \A i \in 1 .. Len(s) + 1 : t[i] = IF i <= Len(s) THEN s[i] ELSE <<c>>[i - Len(s)]
  BY <1>1, ConcatProperties
<1>4. r \in Seq(Letter) /\ Len(r) = Len(s) /\ \A i \in 1 .. Len(s) : r[i] = s[(Len(s) - i) + 1]
  <2>1. r = [i \in 1 .. Len(s) |-> s[(Len(s) - i) + 1]]
    BY DEF Reverse
  <2>2. \A i \in 1 .. Len(s) : (Len(s) - i) + 1 \in 1 .. Len(s)
    BY <1>2
  <2>3. r \in [1 .. Len(s) -> Letter]
    BY <2>1, <2>2, <1>2
  <2> QED BY <2>1, <2>3, <1>2
<1>5. u \in Seq(Letter) /\ Len(u) = 1 + Len(s)
      /\ \A i \in 1 .. 1 + Len(s) : u[i] = IF i <= 1 THEN <<c>>[i] ELSE r[i - 1]
  <2> HIDE DEF r
  <2> QED BY <1>1, <1>4, ConcatProperties
<1>6. Reverse(t) = [i \in 1 .. Len(t) |-> t[(Len(t) - i) + 1]]
  BY DEF Reverse
<1> HIDE DEF t, r, u
<1>7. ASSUME NEW i \in 1 .. Len(s) + 1 PROVE t[(Len(t) - i) + 1] = u[i]
  <2>1. CASE i = 1
    <3>1. (Len(t) - i) + 1 = Len(s) + 1 /\ (Len(s) + 1) - Len(s) = 1
      BY <2>1, <1>2, <1>3
    <3> QED BY <3>1, <2>1, <1>1, <1>2, <1>3, <1>5
  <2>2. CASE i # 1
    <3> DEFINE j == i - 1
    <3>1. j \in 1 .. Len(s) /\ (Len(t) - i) + 1 = (Len(s) - j) + 1
      BY <2>2, <1>2, <1>3
    <3>2. (Len(s) - j) + 1 \in 1 .. Len(s)
      BY <3>1, <1>2
    <3>3. t[(Len(s) - j) + 1] = s[(Len(s) - j) + 1]
      BY <3>2, <1>2, <1>3
    <3>4. u[i] = r[j]
      BY <2>2, <1>2, <1>5
    <3> HIDE DEF j
    <3> QED BY <3>1, <3>3, <3>4, <1>4
  <2> QED BY <2>1, <2>2
<1>8. Reverse(t) = [i \in 1 .. Len(s) + 1 |-> u[i]]
  BY <1>3, <1>6, <1>7
<1>9. u = [i \in 1 .. Len(s) + 1 |-> u[i]]
  <2>1. u \in [1 .. Len(u) -> Letter]
    BY <1>5, LenProperties
  <2> QED BY <2>1, <1>2, <1>5
<1>10. Reverse(t) = u
  BY <1>8, <1>9
<1> QED BY <1>10 DEF t, u, r

(* number_to_string writes the numeral of every int, in base ten.          *)
LEMMA NumberToStringIs ==
  ASSUME NEW n \in -IntHalf .. IntHalf - 1
  PROVE  NumberToString(n, 10) = Numeral(n, 10)
<1> USE FormatAssumption
<1>1. CASE n = 0
  <2>1. NumberToString(n, 10) = <<"0">>
    BY <1>1 DEF NumberToString
  <2>2. DigitCount(0, 10, 1)
    <3>1. Power(10, 1) = 10
      <4>1. Power(10, 0 + 1) = 10 * Power(10, 0) /\ Power(10, 0) = 1
        BY PowersOf
      <4> QED BY <4>1
    <3> QED BY <3>1 DEF DigitCount
  <2>3. Unsigned(0, 10) = InDigits(0, 10, 1)
    BY <2>2, UnsignedIs
  <2>4. Place(0, 10, 0) = "0"
    <3>1. Power(10, 0) = 1
      BY PowersOf
    <3>2. (0 \div 1) % 10 = 0
      OBVIOUS
    <3> QED BY <3>1, <3>2 DEF Place, Digit
  <2>5. InDigits(0, 10, 1) = <<"0">>
    <3>1. \A i \in 1 .. 1 : i = 1 /\ 1 - i = 0
      OBVIOUS
    <3>2. InDigits(0, 10, 1) = [i \in 1 .. 1 |-> "0"]
      BY <3>1, <2>4 DEF InDigits
    <3> QED BY <3>2
  <2>6. Numeral(n, 10) = Unsigned(0, 10)
    BY <1>1 DEF Numeral
  <2> QED BY <2>1, <2>3, <2>5, <2>6
<1>2. ASSUME NEW m \in 1 .. IntHalf - 1
      PROVE  \E w : /\ Unsigned(m, 10) = InDigits(m, 10, w) /\ w \in Nat
                    /\ Digits(m, 10) \in Seq(Letter)
                    /\ Reverse(Digits(m, 10)) = InDigits(m, 10, w)
  <2>1. m \in Nat
    OBVIOUS
  <2>2. PICK w : DigitCount(m, 10, w)
    BY <2>1, OneDigitCount
  <2>3. w \in Nat
    BY <2>2 DEF DigitCount
  <2>4. Unsigned(m, 10) = InDigits(m, 10, w)
    BY <2>1, <2>2, UnsignedIs
  <2>5. Digits(m, 10) = [k \in 1 .. w |-> Place(m, 10, k - 1)]
    BY <2>2, DigitsAre
  <2>6. Digits(m, 10) \in Seq(Letter) /\ Reverse(Digits(m, 10)) = InDigits(m, 10, w)
    <3>1. 10 \in 2 .. 16
      OBVIOUS
    <3> QED BY <3>1, <2>1, <2>3, <2>5, TurnedRound
  <2> QED BY <2>3, <2>4, <2>6
<1>3. CASE n > 0
  <2>1. n \in 1 .. IntHalf - 1
    BY <1>3
  <2>2. Digits(n, 10) \in Seq(Letter) /\ Reverse(Digits(n, 10)) = Unsigned(n, 10)
    BY <2>1, <1>2
  <2>3. NumberToString(n, 10) = Reverse(Digits(n, 10) \o <<>>)
    <3>1. ~ n < 0 /\ n # 0
      BY <1>3
    <3> QED BY <3>1 DEF NumberToString
  <2>4. Digits(n, 10) \o <<>> = Digits(n, 10)
    BY <2>2, ConcatEmptySeq
  <2>5. Numeral(n, 10) = Unsigned(n, 10)
    BY <1>3 DEF Numeral
  <2> QED BY <2>2, <2>3, <2>4, <2>5
<1>4. CASE n < 0 /\ n # -IntHalf
  <2>1. -n \in 1 .. IntHalf - 1
    BY <1>4
  <2>2. Digits(-n, 10) \in Seq(Letter) /\ Reverse(Digits(-n, 10)) = Unsigned(-n, 10)
    BY <2>1, <1>2
  <2>3. Wrap(-n) = -n
    BY <2>1, WrapIs
  <2>4. NumberToString(n, 10) = Reverse(Digits(-n, 10) \o <<"-">>)
    BY <1>4, <2>1, <2>3 DEF NumberToString
  <2>5. Reverse(Digits(-n, 10) \o <<"-">>) = <<"-">> \o Unsigned(-n, 10)
    <3>1. "-" \in Letter
      BY DEF Letter
    <3> QED BY <3>1, <2>2, LastComesFirst
  <2>6. Numeral(n, 10) = <<"-">> \o Unsigned(-n, 10)
    BY <1>4 DEF Numeral
  <2> QED BY <2>4, <2>5, <2>6
<1>5. CASE n = -IntHalf
  <2>1. n < 0 /\ n \in Int /\ -n = IntHalf /\ Wrap(-n) = n
    BY <1>5, WrapIs
  <2> DEFINE StopsAfter(m) == ~ Left(n, 10, m) > 0 /\ \A k \in 0 .. m - 1 : Left(n, 10, k) > 0
             R == CHOOSE m \in 0 .. IntHalf : StopsAfter(m)
  <2>2. ~ Left(n, 10, 0) > 0
    BY <2>1, LeftAtFirst
  <2>3. StopsAfter(0)
    BY <2>2
  <2>4. R \in 0 .. IntHalf /\ StopsAfter(R)
    <3>1. 0 \in 0 .. IntHalf
      OBVIOUS
    <3> HIDE DEF StopsAfter
    <3> QED BY <3>1, <2>3
  <2>5. Digits(n, 10) = [k \in 1 .. R |-> Digit(Left(n, 10, k - 1) % 10)]
    BY DEF Digits
  <2> HIDE DEF R
  <2>6. R = 0
    <3>1. R > 0 => 0 \in 0 .. R - 1
      BY <2>4
    <3> QED BY <2>2, <2>4, <3>1
  <2>7. Digits(n, 10) = <<>>
    <3>1. 1 .. 0 = {}
      OBVIOUS
    <3> QED BY <3>1, <2>5, <2>6
  <2>8. NumberToString(n, 10) = Reverse(<<>> \o <<"-">>)
    <3>1. n < 0 /\ n # 0 /\ Wrap(-n) = n
      BY <2>1
    <3>2. NumberToString(n, 10) = Reverse(Digits(n, 10) \o <<"-">>)
      BY <3>1 DEF NumberToString
    <3> QED BY <3>2, <2>7
  <2>9. Reverse(<<>> \o <<"-">>) = <<"-">> \o Reverse(<<>>)
    <3>1. "-" \in Letter
      BY DEF Letter
    <3>2. <<>> \in Seq(Letter)
      OBVIOUS
    <3> HIDE DEF Letter
    <3> QED BY <3>1, <3>2, LastComesFirst
  <2>10. Reverse(<<>>) = <<>>
    <3>1. 1 .. 0 = {} /\ Len(<<>>) = 0
      OBVIOUS
    <3> QED BY <3>1 DEF Reverse
  <2>11. <<"-">> \o <<>> = <<"-">>
    OBVIOUS
  <2>12. Numeral(n, 10) = <<"-">>
    BY <1>5 DEF Numeral
  <2> QED BY <2>8, <2>9, <2>10, <2>11, <2>12
<1> QED BY <1>1, <1>3, <1>4, <1>5

(* itoa writes the numeral of every int that is not negative.              *)
LEMMA ItoaIs ==
  ASSUME NEW n \in 0 .. IntHalf - 1, NEW b \in 2 .. 16
  PROVE  Itoa(n, b) = Numeral(n, b)
<1> DEFINE Taken(k) == Left(n, b, k - 1) - Left(n, b, k) * b
           StopsAfter(m) == Left(n, b, m) = 0 /\ \A k \in 1 .. m - 1 : Left(n, b, k) # 0
           R == CHOOSE m \in 1 .. IntHalf : StopsAfter(m)
<1>0. n \in Nat /\ n < IntHalf /\ IntHalf \in Nat /\ b \in Nat \ {0} /\ b >= 2 /\ b \in 2 .. 16
  BY FormatAssumption
<1>1. PICK w : DigitCount(n, b, w)
  BY <1>0, OneDigitCount
<1>2. PICK p : /\ \A k \in Nat : /\ Power(b, k) = p[k] /\ p[k] \in Nat \ {0}
                                 /\ p[k + 1] = b * p[k]
               /\ \A i \in Nat, j \in Nat : i <= j => p[i] <= p[j]
  <2>1. b \in Nat /\ b >= 2
    BY <1>0
  <2>2. PICK p : /\ p[0] = 1
                 /\ \A k \in Nat : /\ Power(b, k) = p[k] /\ p[k] \in Nat \ {0} /\ p[k] >= k + 1
                                   /\ p[k + 1] = b * p[k]
                 /\ \A i \in Nat, j \in Nat : i <= j => p[i] <= p[j]
    BY <2>1, PowerTable
  <2> QED BY <2>2
<1>3. \A k \in Nat : Left(n, b, k) = n \div p[k]
  <2>1. b \in Nat /\ b >= 2 /\ n \in Nat
    BY <1>0
  <2>2. \A k \in Nat : Left(n, b, k) = n \div Power(b, k)
    BY <2>1, LeftIs
  <2> QED BY <2>2, <1>2
<1>4. ASSUME NEW k \in Nat PROVE n \div p[k] \in Nat /\ (n \div p[k] = 0 <=> n < p[k])
  <2>1. p[k] \in Nat \ {0}
    BY <1>2
  <2> QED BY <1>0, <2>1, QuotientIsZero
<1>5. w \in 1 .. n + 1 /\ n < p[w] /\ (w > 1 => p[w - 1] <= n)
  <2>1. w \in 1 .. n + 1 /\ n < Power(b, w) /\ (w > 1 => Power(b, w - 1) <= n)
    BY <1>1 DEF DigitCount
  <2>2. w \in Nat /\ w - 1 \in Nat
    BY <2>1, <1>0
  <2> QED BY <2>1, <2>2, <1>2
<1>6. ASSUME NEW m \in Nat
      PROVE  StopsAfter(m) <=> n < p[m] /\ \A k \in 1 .. m - 1 : p[k] <= n
  <2>1. \A k \in 1 .. m - 1 : k \in Nat
    OBVIOUS
  <2>2. Left(n, b, m) = 0 <=> n < p[m]
    BY <1>3, <1>4
  <2>3. ASSUME NEW k \in 1 .. m - 1 PROVE Left(n, b, k) # 0 <=> p[k] <= n
    <3>1. Left(n, b, k) = 0 <=> n < p[k]
      BY <2>1, <1>3, <1>4
    <3>2. p[k] \in Nat
      BY <2>1, <1>2
    <3> QED BY <3>1, <3>2, <1>0
  <2> QED BY <2>2, <2>3
<1>7. StopsAfter(w)
  <2>1. ASSUME NEW k \in 1 .. w - 1 PROVE p[k] <= n
    <3>1. w > 1 /\ k \in Nat /\ w - 1 \in Nat /\ k <= w - 1
      BY <1>0, <1>5
    <3>2. p[k] <= p[w - 1] /\ p[k] \in Nat /\ p[w - 1] \in Nat
      BY <3>1, <1>2
    <3> QED BY <3>1, <3>2, <1>0, <1>5
  <2>2. w \in Nat
    BY <1>0, <1>5
  <2> HIDE DEF StopsAfter
  <2> QED BY <2>1, <2>2, <1>5, <1>6
<1>8. R \in 1 .. IntHalf /\ StopsAfter(R)
  <2>1. w \in 1 .. IntHalf
    BY <1>0, <1>5
  <2> HIDE DEF StopsAfter
  <2> QED BY <2>1, <1>7
<1>9. Itoa(n, b) = Reverse([k \in 1 .. R |-> IF Taken(k) < 0 THEN Stray ELSE Digit(Taken(k))])
  BY DEF Itoa
<1> HIDE DEF R
<1>10. R \in Nat /\ R >= 1 /\ n < p[R] /\ \A k \in 1 .. R - 1 : p[k] <= n
  <2>1. R \in Nat
    BY <1>8
  <2> HIDE DEF StopsAfter
  <2> QED BY <2>1, <1>6, <1>8
<1>11. R = w
  <2>0. w \in Nat /\ w >= 1
    BY <1>0, <1>5
  <2>2. ASSUME R > w PROVE FALSE
    <3>1. w \in 1 .. R - 1 /\ w \in Nat
      BY <2>0, <2>2, <1>10
    <3>2. p[w] \in Nat /\ p[w] <= n
      BY <3>1, <1>2, <1>10
    <3> QED BY <3>2, <1>0, <1>5
  <2>3. ASSUME R < w PROVE FALSE
    <3>1. w > 1 /\ w - 1 \in Nat /\ R <= w - 1
      BY <2>0, <2>3, <1>10
    <3>2. p[R] <= p[w - 1] /\ p[R] \in Nat /\ p[w - 1] \in Nat
      BY <3>1, <1>2, <1>10
    <3> QED BY <3>1, <3>2, <1>0, <1>5, <1>10
  <2> QED BY <2>0, <2>2, <2>3, <1>10
<1>12. ASSUME NEW k \in 1 .. w
       PROVE  (IF Taken(k) < 0 THEN Stray ELSE Digit(Taken(k))) = Place(n, b, k - 1)
  <2> DEFINE q == n \div p[k - 1]
  <2>1. k - 1 \in Nat /\ k \in Nat /\ (k - 1) + 1 = k
    BY <1>0, <1>5
  <2>2. q \in Nat /\ n \div p[k] = q \div b
    <3>1. p[k - 1] \in Nat \ {0} /\ p[k] = b * p[k - 1]
      BY <1>2, <2>1
    <3>2. q \in Nat
      BY <1>4, <2>1
    <3>3. n \in Nat /\ b \in Nat \ {0}
      BY <1>0
    <3>4. (n \div p[k - 1]) \div b = n \div (b * p[k - 1])
      BY <3>1, <3>3, DividedTwice
    <3> QED BY <3>1, <3>2, <3>4
  <2>3. Left(n, b, k - 1) = q /\ Left(n, b, k) = q \div b
    BY <1>3, <2>1, <2>2
  <2>4. Power(b, k - 1) = p[k - 1]
    BY <1>2, <2>1
  <2> HIDE DEF q
  <2>5. q \div b \in Nat /\ q % b \in 0 .. b - 1 /\ q = (q \div b) * b + (q % b)
    BY <1>0, <2>2, DivisionIs
  <2>6. Taken(k) = q % b
    <3>1. \A x \in Nat, y \in Nat : (x + y) - x = y
      OBVIOUS
    <3>2. (q \div b) * b \in Nat /\ q % b \in Nat
      <4>1. \A x \in Nat, y \in Nat : x * y \in Nat
        OBVIOUS
      <4>2. q \div b \in Nat /\ b \in Nat
        BY <1>0, <2>5
      <4>3. q % b \in Nat
        BY <1>0, <2>5
      <4> HIDE DEF Taken, StopsAfter
      <4> QED BY <4>1, <4>2, <4>3
    <3>3. q - (q \div b) * b = q % b
      BY <3>1, <3>2, <2>5
    <3> QED BY <3>3, <2>3
  <2>7. ~ Taken(k) < 0
    BY <1>0, <2>5, <2>6
  <2>8. Place(n, b, k - 1) = Digit(q % b)
    BY <2>4 DEF Place, q
  <2> HIDE DEF Taken
  <2> QED BY <2>6, <2>7, <2>8
<1> HIDE DEF Taken
<1>13. Itoa(n, b) = Reverse([k \in 1 .. w |-> Place(n, b, k - 1)])
  BY <1>9, <1>11, <1>12
<1>14. Itoa(n, b) = InDigits(n, b, w)
  <2>1. w \in Nat
    BY <1>0, <1>5
  <2> QED BY <2>1, <1>0, <1>13, TurnedRound
<1>15. Numeral(n, b) = InDigits(n, b, w)
  <2>1. Unsigned(n, b) = InDigits(n, b, w)
    BY <1>0, <1>1, UnsignedIs
  <2>2. n # -IntHalf /\ ~ n < 0
    BY FormatAssumption
  <2> QED BY <2>1, <2>2 DEF Numeral
<1> QED BY <1>14, <1>15

(* A loop that passes over characters ends at one place.                   *)
LEMMA PassedIs ==
  ASSUME NEW text, NEW S, Len(text) \in Nat, NEW start \in Nat,
         NEW e \in start .. Len(text) + 1,
         e <= Len(text) => text[e] \notin S,
         \A k \in start .. e - 1 : text[k] \in S
  PROVE  Passed(text, start, S) = e
<1> DEFINE IsThere(i) == /\ i <= Len(text) => text[i] \notin S
                    /\ \A k \in start .. i - 1 : text[k] \in S
           P == CHOOSE i \in start .. Len(text) + 1 : IsThere(i)
<1>1. Passed(text, start, S) = P
  BY DEF Passed
<1>2. P \in start .. Len(text) + 1 /\ IsThere(P)
  <2>1. IsThere(e)
    OBVIOUS
  <2> HIDE DEF IsThere
  <2> QED BY <2>1
<1> HIDE DEF P
<1>3. ASSUME P < e PROVE FALSE
  <2>1. P \in start .. e - 1 /\ P <= Len(text)
    BY <1>2, <1>3
  <2> QED BY <2>1, <1>2
<1>4. ASSUME e < P PROVE FALSE
  <2>1. e \in start .. P - 1 /\ e <= Len(text)
    BY <1>2, <1>4
  <2> QED BY <2>1, <1>2
<1> QED BY <1>1, <1>2, <1>3, <1>4

(* A decimal place holds a decimal digit.                                  *)
LEMMA PlaceIsDecimal ==
  ASSUME NEW n \in Nat, NEW k \in Nat
  PROVE  /\ (n \div Power(10, k)) \in Nat
         /\ (n \div Power(10, k)) % 10 \in 0 .. 9
         /\ Place(n, 10, k) \in Decimals
         /\ n \div Power(10, k) <= n
<1> DEFINE p == Power(10, k)
           q == n \div p
<1>1. p \in Nat \ {0}
  <2>1. Power(10, k) \in Nat /\ Power(10, k) >= k + 1
    BY PowersOf, PowersGrow
  <2> QED BY <2>1
<1> HIDE DEF p
<1>2. q \in Nat /\ n % p \in 0 .. p - 1 /\ n = q * p + (n % p)
  BY <1>1, DivisionIs
<1> HIDE DEF q
<1>3. q <= n
  <2>1. \A x \in Nat, y \in Nat : x * (y + 1) = (x * y) + x /\ x * y \in Nat
    OBVIOUS
  <2>2. p - 1 \in Nat /\ (p - 1) + 1 = p
    BY <1>1
  <2>3. q * p = (q * (p - 1)) + q /\ q * (p - 1) \in Nat
    BY <2>1, <2>2, <1>2
  <2> QED BY <2>3, <1>1, <1>2
<1>4. q % 10 \in 0 .. 9
  BY <1>2
<1>5. Place(n, 10, k) = Digit(q % 10)
  BY DEF Place, p, q
<1>6. Place(n, 10, k) \in Decimals
  BY <1>4, <1>5 DEF Decimals
<1> QED BY <1>2, <1>3, <1>4, <1>6 DEF p, q

(* atoi's loop puts the digits of a number together again: after the first *)
(* k of them it has what is left of the number without the others, which   *)
(* no step wraps.                                                          *)
LEMMA DecimalIs ==
  ASSUME NEW n \in 0 .. IntHalf - 1, NEW w, DigitCount(n, 10, w), NEW text, NEW i \in Nat,
         \A k \in 1 .. w : text[(i + k) - 1] = Place(n, 10, w - k)
  PROVE  Decimal(text, i, i + w) = n
<1>0. n \in Nat /\ IntHalf \in Nat /\ n < IntHalf
  BY FormatAssumption
<1>1. w \in Nat /\ n < Power(10, w)
  BY <1>0 DEF DigitCount
<1> DEFINE Value(k) == CHOOSE d \in 0 .. 9 : text[k - 1] = Digit(d)
           Is(f) == f = [k \in i .. i + w |-> IF k = i THEN 0 ELSE Wrap(f[k - 1] * 10 + Value(k))]
           F == CHOOSE f : Is(f)
           g == [k \in i .. i + w |-> n \div Power(10, (i + w) - k)]
<1>2. Decimal(text, i, i + w) = F[i + w]
  BY DEF Decimal
<1>3. g[i] = 0
  <2>1. (i + w) - i = w /\ i \in i .. i + w
    BY <1>1
  <2>2. Power(10, w) \in Nat \ {0}
    <3>1. Power(10, w) \in Nat
      BY <1>1, PowersOf
    <3> QED BY <3>1, <1>0, <1>1
  <2>3. n \div Power(10, w) = 0
    BY <2>2, <1>0, <1>1, QuotientIsZero
  <2> QED BY <2>1, <2>3
<1>4. ASSUME NEW k \in i + 1 .. i + w PROVE g[k] = Wrap(g[k - 1] * 10 + Value(k))
  <2> DEFINE m == (i + w) - k
             q == n \div Power(10, m)
  <2>1. /\ m \in Nat /\ (i + w) - (k - 1) = m + 1 /\ k \in i .. i + w /\ k - 1 \in i .. i + w
        /\ k - i \in 1 .. w /\ (i + (k - i)) - 1 = k - 1 /\ w - (k - i) = m
    BY <1>1
  <2>2. g[k] = q /\ g[k - 1] = n \div Power(10, m + 1)
    BY <2>1
  <2>3. q \in Nat /\ q <= n /\ q % 10 \in 0 .. 9
    BY <2>1, <1>0, PlaceIsDecimal
  <2>4. text[k - 1] = Digit(q % 10)
    <3>1. text[(i + (k - i)) - 1] = Place(n, 10, w - (k - i))
      BY <2>1
    <3>2. text[k - 1] = Place(n, 10, m)
      <4> HIDE DEF m
      <4> QED BY <2>1, <3>1
    <3> QED BY <3>2 DEF Place
  <2>5. Value(k) = q % 10
    <3>1. Value(k) \in 0 .. 9 /\ text[k - 1] = Digit(Value(k))
      <4> HIDE DEF q
      <4> QED BY <2>3, <2>4
    <3> HIDE DEF Value, q
    <3> QED BY <2>3, <2>4, <3>1, DigitsApart
  <2>6. n \div Power(10, m + 1) = q \div 10
    <3>1. Power(10, m) \in Nat \ {0} /\ Power(10, m + 1) = 10 * Power(10, m)
      <4>1. Power(10, m) \in Nat /\ Power(10, m) >= m + 1 /\ Power(10, m + 1) = 10 * Power(10, m)
        <5> HIDE DEF m
        <5> QED BY <2>1, PowersOf, PowersGrow
      <4> HIDE DEF m
      <4> QED BY <4>1, <2>1
    <3>2. 10 \in Nat \ {0}
      OBVIOUS
    <3> QED BY <3>1, <3>2, <1>0, DividedTwice
  <2> HIDE DEF q, Value, g
  <2>7. g[k - 1] * 10 + Value(k) = q
    <3>1. q = (q \div 10) * 10 + (q % 10)
      BY <2>3
    <3> QED BY <3>1, <2>2, <2>5, <2>6
  <2>8. Wrap(q) = q
    <3>1. q \in -IntHalf .. IntHalf - 1
      BY <1>0, <2>3
    <3> QED BY <3>1, WrapIs
  <2> QED BY <2>2, <2>7, <2>8
<1>5. g[i + w] = n
  <2>1. (i + w) - (i + w) = 0 /\ i + w \in i .. i + w
    BY <1>1
  <2>2. Power(10, 0) = 1
    BY PowersOf
  <2>3. n \div 1 = n
    BY <1>0
  <2> QED BY <2>1, <2>2, <2>3
<1>6. g = [k \in i .. i + w |-> g[k]]
  OBVIOUS
<1> HIDE DEF g, Value
<1>7. Is(g)
  <2>1. \A k \in i .. i + w : k # i => k \in i + 1 .. i + w
    BY <1>1
  <2>2. \A k \in i .. i + w : g[k] = IF k = i THEN 0 ELSE Wrap(g[k - 1] * 10 + Value(k))
    BY <2>1, <1>3, <1>4
  <2> QED BY <1>6, <2>2
<1>8. Is(F)
  <2> HIDE DEF Is
  <2> QED BY <1>7
<1> HIDE DEF F
<1>9. F[i] = 0 /\ \A k \in i + 1 .. i + w : F[k] = Wrap(F[k - 1] * 10 + Value(k))
  <2>1. i \in i .. i + w /\ \A k \in i + 1 .. i + w : k \in i .. i + w /\ k # i
    BY <1>1
  <2> QED BY <1>8, <2>1
<1>10. F[i + w] = g[i + w]
  <2> DEFINE a == [k \in 0 .. w |-> F[i + k]]
             c == [k \in 0 .. w |-> g[i + k]]
  <2>1. a[0] = c[0]
    <3>1. i + 0 = i /\ 0 \in 0 .. w
      BY <1>1
    <3> QED BY <3>1, <1>3, <1>9
  <2>2. ASSUME NEW k \in 1 .. w, a[k - 1] = c[k - 1] PROVE a[k] = c[k]
    <3>1. k - 1 \in 0 .. w /\ k \in 0 .. w /\ i + k \in i + 1 .. i + w /\ (i + k) - 1 = i + (k - 1)
      BY <1>1
    <3>2. F[i + (k - 1)] = g[i + (k - 1)]
      BY <2>2, <3>1
    <3>3. F[i + k] = Wrap(F[i + (k - 1)] * 10 + Value(i + k))
      BY <3>1, <1>9
    <3>4. g[i + k] = Wrap(g[i + (k - 1)] * 10 + Value(i + k))
      BY <3>1, <1>4
    <3> QED BY <3>1, <3>2, <3>3, <3>4
  <2>3. a[w] = F[i + w] /\ c[w] = g[i + w]
    BY <1>1
  <2> HIDE DEF a, c
  <2>4. a[w] = c[w]
    BY <1>1, <2>1, <2>2, LoopsAgree
  <2> QED BY <2>3, <2>4
<1> QED BY <1>2, <1>5, <1>10

(* A number's numeral is a text of characters.                             *)
LEMMA NumeralIsText ==
  ASSUME NEW n \in -IntHalf .. IntHalf - 1, NEW b \in 2 .. 16
  PROVE  Numeral(n, b) \in Seq(Letter)
<1>0. IntHalf \in Nat \ {0}
  BY FormatAssumption
<1>1. ASSUME NEW m \in Nat PROVE Unsigned(m, b) \in Seq(Letter)
  <2>0. b \in Nat /\ b >= 2
    OBVIOUS
  <2>1. PICK w : DigitCount(m, b, w)
    BY <2>0, OneDigitCount
  <2>2. w \in Nat
    BY <2>1 DEF DigitCount
  <2>3. Unsigned(m, b) = InDigits(m, b, w)
    BY <2>0, <2>1, UnsignedIs
  <2> QED BY <2>2, <2>3, InDigitsIs
<1>2. <<"-">> \in Seq(Letter)
  <2>1. "-" \in Letter
    BY DEF Letter
  <2> QED BY <2>1
<1>3. CASE n = -IntHalf
  BY <1>2, <1>3 DEF Numeral
<1>4. CASE n < 0 /\ n # -IntHalf
  <2>1. -n \in Nat
    BY <1>0, <1>4
  <2>2. Unsigned(-n, b) \in Seq(Letter)
    BY <1>1, <2>1
  <2>3. Numeral(n, b) = <<"-">> \o Unsigned(-n, b)
    BY <1>4 DEF Numeral
  <2> QED BY <1>2, <2>2, <2>3, ConcatProperties
<1>5. CASE n >= 0
  <2>1. n \in Nat /\ n # -IntHalf /\ ~ n < 0
    BY <1>0, <1>5
  <2> QED BY <1>1, <2>1 DEF Numeral
<1> QED BY <1>0, <1>3, <1>4, <1>5

(* A text that ends with its terminator.                                   *)
LEMMA Terminated ==
  ASSUME NEW s \in Seq(Letter)
  PROVE  /\ Len(s) \in Nat /\ Len(Append(s, Nul)) = Len(s) + 1
         /\ \A i \in 1 .. Len(s) : Append(s, Nul)[i] = s[i]
         /\ Append(s, Nul)[Len(s) + 1] = Nul
<1> DEFINE S == Letter \cup {Nul}
<1>1. s \in Seq(S) /\ Nul \in S
  <2>1. Letter \subseteq S /\ Nul \in S
    OBVIOUS
  <2> HIDE DEF S
  <2> QED BY <2>1, SeqMonotonic
<1> HIDE DEF S
<1> QED BY <1>1, AppendProperties, LenProperties

(* What atoi makes of the digits of a number, with or without a sign.      *)
LEMMA AtoiOfDigits ==
  ASSUME NEW m \in 0 .. IntHalf - 1, NEW w, DigitCount(m, 10, w), NEW f \in {1, 2},
         NEW text, Len(text) = f + w,
         \A k \in 1 .. w : text[(f + k) - 1] = Place(m, 10, w - k),
         text[f + w] = Nul,
         f = 2 => text[1] = "-"
  PROVE  Atoi(text) = IF f = 2 THEN Wrap(-m) ELSE m
<1> DEFINE start == Passed(text, 1, {" ", "\t"})
           sign == IF start <= Len(text) /\ text[start] \in {"-", "+"} THEN <<text[start]>> ELSE <<>>
           first == start + Len(sign)
           end == Passed(text, first, Decimals)
           result == Decimal(text, first, end)
<1>0. m \in Nat /\ IntHalf \in Nat /\ m < IntHalf /\ f \in Nat
  BY FormatAssumption
<1>1. w \in Nat /\ w >= 1
  BY <1>0 DEF DigitCount
<1>2. Atoi(text) = IF sign = <<"-">> THEN Wrap(-result) ELSE result
  BY DEF Atoi
<1>3. \A c \in Decimals : c \notin {" ", "\t", "-", "+", Nul}
  BY DigitsApart DEF Decimals
<1>4. \A k \in f .. (f + w) - 1 : text[k] \in Decimals
  <2> SUFFICES ASSUME NEW k \in f .. (f + w) - 1 PROVE text[k] \in Decimals
    OBVIOUS
  <2>1. (k - f) + 1 \in 1 .. w /\ (f + ((k - f) + 1)) - 1 = k /\ w - ((k - f) + 1) \in Nat
    BY <1>0, <1>1
  <2>2. text[(f + ((k - f) + 1)) - 1] = Place(m, 10, w - ((k - f) + 1))
    BY <2>1
  <2> QED BY <2>1, <2>2, <1>0, PlaceIsDecimal
<1>5. text[1] \notin {" ", "\t"}
  <2>1. CASE f = 1
    <3>1. 1 \in f .. (f + w) - 1
      BY <2>1, <1>1
    <3> QED BY <3>1, <1>3, <1>4
  <2>2. CASE f = 2
    BY <2>2
  <2> QED BY <2>1, <2>2
<1>6. start = 1
  <2>1. Len(text) \in Nat /\ 1 \in Nat /\ 1 \in 1 .. Len(text) + 1
    BY <1>0, <1>1
  <2>2. \A k \in 1 .. 1 - 1 : text[k] \in {" ", "\t"}
    <3>1. 1 .. 1 - 1 = {}
      OBVIOUS
    <3> QED BY <3>1
  <2> QED BY <2>1, <2>2, <1>5, PassedIs
<1> HIDE DEF start
<1>7. sign = (IF f = 2 THEN <<"-">> ELSE <<>>) /\ first = f
  <2>1. start <= Len(text)
    BY <1>0, <1>1, <1>6
  <2>2. CASE f = 1
    <3>1. 1 \in f .. (f + w) - 1
      BY <2>2, <1>1
    <3>2. text[1] \notin {"-", "+"}
      BY <3>1, <1>3, <1>4
    <3>3. sign = <<>>
      BY <3>2, <1>6
    <3> HIDE DEF sign
    <3> QED BY <3>3, <2>2, <1>6
  <2>3. CASE f = 2
    <3>1. sign = <<"-">>
      BY <2>1, <2>3, <1>6
    <3> HIDE DEF sign
    <3> QED BY <3>1, <2>3, <1>6
  <2> QED BY <2>2, <2>3
<1> HIDE DEF sign, first
<1>8. end = f + w
  <2>1. Len(text) \in Nat /\ first \in Nat /\ f + w \in first .. Len(text) + 1
    BY <1>0, <1>1, <1>7
  <2>2. text[f + w] \notin Decimals
    BY <1>3
  <2>3. \A k \in first .. (f + w) - 1 : text[k] \in Decimals
    BY <1>4, <1>7
  <2> QED BY <2>1, <2>2, <2>3, PassedIs
<1> HIDE DEF end
<1>9. result = m
  <2>1. Decimal(text, f, f + w) = m
    BY <1>0, DecimalIs
  <2> QED BY <2>1, <1>7, <1>8
<1> HIDE DEF result
<1>10. sign = <<"-">> <=> f = 2
  <2>1. <<>> # <<"-">>
    OBVIOUS
  <2> QED BY <2>1, <1>7
<1> QED BY <1>2, <1>9, <1>10

(* atoi reads back every int that was printed, but the least.              *)
LEMMA AtoiReadsBack ==
  ASSUME NEW n \in -IntHalf .. IntHalf - 1
  PROVE  Atoi(Append(Numeral(n, 10), Nul)) = IF n = -IntHalf THEN 0 ELSE n
<1> DEFINE s == Numeral(n, 10)
           text == Append(s, Nul)
<1>0. IntHalf \in Nat \ {0} /\ 10 \in 2 .. 16 /\ 10 \in Nat /\ 10 >= 2
  BY FormatAssumption
<1>1. s \in Seq(Letter)
  BY <1>0, NumeralIsText
<1>2. /\ Len(s) \in Nat /\ Len(text) = Len(s) + 1
      /\ \A i \in 1 .. Len(s) : text[i] = s[i]
      /\ text[Len(s) + 1] = Nul
  <2> HIDE DEF s
  <2> QED BY <1>1, Terminated
<1>3. CASE n >= 0
  <2>1. n \in 0 .. IntHalf - 1 /\ n \in Nat /\ n # -IntHalf /\ ~ n < 0
    BY <1>0, <1>3
  <2>2. PICK w : DigitCount(n, 10, w)
    BY <2>1, <1>0, OneDigitCount
  <2>3. w \in Nat
    BY <2>2 DEF DigitCount
  <2>4. s = InDigits(n, 10, w)
    <3>1. s = Unsigned(n, 10)
      BY <2>1 DEF Numeral
    <3> QED BY <3>1, <2>1, <2>2, <1>0, UnsignedIs
  <2>5. Len(s) = w /\ \A i \in 1 .. w : s[i] = Place(n, 10, w - i)
    BY <2>1, <2>3, <2>4, <1>0, InDigitsIs
  <2> HIDE DEF text, s
  <2>6. Len(text) = 1 + w /\ text[1 + w] = Nul
    BY <2>3, <2>5, <1>2
  <2>7. \A k \in 1 .. w : text[(1 + k) - 1] = Place(n, 10, w - k)
    BY <2>3, <2>5, <1>2
  <2>8. 1 \in {1, 2}
    OBVIOUS
  <2>9. Atoi(text) = n
    BY <2>1, <2>2, <2>6, <2>7, <2>8, AtoiOfDigits
  <2> QED BY <2>1, <2>9 DEF text, s
<1>4. CASE n < 0 /\ n # -IntHalf
  <2>1. -n \in 0 .. IntHalf - 1 /\ -n \in Nat
    BY <1>0, <1>4
  <2>2. PICK w : DigitCount(-n, 10, w)
    BY <2>1, <1>0, OneDigitCount
  <2>3. w \in Nat
    BY <2>1, <2>2 DEF DigitCount
  <2> DEFINE u == InDigits(-n, 10, w)
  <2>4. s = <<"-">> \o u
    <3>1. s = <<"-">> \o Unsigned(-n, 10)
      BY <1>4 DEF Numeral
    <3> QED BY <3>1, <2>1, <2>2, <1>0, UnsignedIs
  <2>5. u \in Seq(Letter) /\ Len(u) = w /\ \A i \in 1 .. w : u[i] = Place(-n, 10, w - i)
    BY <2>1, <2>3, <1>0, InDigitsIs
  <2>6. <<"-">> \in Seq(Letter) /\ Len(<<"-">>) = 1 /\ <<"-">>[1] = "-"
    <3>1. "-" \in Letter
      BY DEF Letter
    <3> QED BY <3>1
  <2> HIDE DEF u
  <2>7. /\ Len(s) = 1 + w
        /\ \A i \in 1 .. 1 + w : s[i] = IF i <= 1 THEN <<"-">>[i] ELSE u[i - 1]
    <3> HIDE DEF s
    <3>1. /\ Len(<<"-">> \o u) = Len(<<"-">>) + Len(u)
          /\ \A i \in 1 .. Len(<<"-">>) + Len(u) :
               (<<"-">> \o u)[i] = IF i <= Len(<<"-">>) THEN <<"-">>[i] ELSE u[i - Len(<<"-">>)]
      BY <2>5, <2>6, ConcatProperties
    <3> QED BY <3>1, <2>4, <2>5, <2>6
  <2> HIDE DEF text, s
  <2>8. Len(text) = 2 + w /\ text[2 + w] = Nul
    BY <2>3, <2>7, <1>2
  <2>9. \A k \in 1 .. w : text[(2 + k) - 1] = Place(-n, 10, w - k)
    <3> SUFFICES ASSUME NEW k \in 1 .. w PROVE text[(2 + k) - 1] = Place(-n, 10, w - k)
      OBVIOUS
    <3>1. (2 + k) - 1 \in 1 .. 1 + w /\ ((2 + k) - 1) - 1 = k /\ ~ (2 + k) - 1 <= 1
      BY <2>3
    <3>2. text[(2 + k) - 1] = s[(2 + k) - 1]
      BY <3>1, <2>7, <1>2
    <3>3. s[(2 + k) - 1] = u[((2 + k) - 1) - 1]
      BY <3>1, <2>7
    <3> QED BY <3>1, <3>2, <3>3, <2>5
  <2>10. text[1] = "-"
    <3>1. 1 \in 1 .. Len(s) /\ s[1] = "-"
      BY <2>3, <2>6, <2>7
    <3> QED BY <3>1, <1>2
  <2>11. 2 \in {1, 2}
    OBVIOUS
  <2>12. Atoi(text) = Wrap(-(-n))
    BY <2>1, <2>2, <2>8, <2>9, <2>10, <2>11, AtoiOfDigits
  <2>13. Wrap(-(-n)) = n
    <3>1. -(-n) = n
      BY <2>1
    <3> QED BY <3>1, WrapIs
  <2> QED BY <2>12, <2>13, <1>4 DEF text, s
<1>5. CASE n = -IntHalf
  <2>1. s = <<"-">>
    BY <1>5 DEF Numeral
  <2>2. Len(text) = 2 /\ text[1] = "-" /\ text[2] = Nul
    <3>1. Len(s) = 1 /\ s[1] = "-"
      BY <2>1
    <3> HIDE DEF text, s
    <3> QED BY <3>1, <1>2
  <2> HIDE DEF text
  <2>3. Passed(text, 1, {" ", "\t"}) = 1
    <3>1. Len(text) \in Nat /\ 1 \in Nat /\ 1 \in 1 .. Len(text) + 1
      BY <2>2
    <3>2. text[1] \notin {" ", "\t"} /\ \A k \in 1 .. 1 - 1 : text[k] \in {" ", "\t"}
      BY <2>2
    <3> QED BY <3>1, <3>2, PassedIs
  <2>4. Passed(text, 2, Decimals) = 2
    <3>1. Len(text) \in Nat /\ 2 \in Nat /\ 2 \in 2 .. Len(text) + 1
      BY <2>2
    <3>2. text[2] \notin Decimals
      BY <2>2, DigitsApart DEF Decimals
    <3>3. \A k \in 2 .. 2 - 1 : text[k] \in Decimals
      OBVIOUS
    <3> QED BY <3>1, <3>2, <3>3, PassedIs
  <2>5. Decimal(text, 2, 2) = 0
    <3> DEFINE Value(k) == CHOOSE d \in 0 .. 9 : text[k - 1] = Digit(d)
               Is(f) == f = [k \in 2 .. 2 |-> IF k = 2 THEN 0 ELSE Wrap(f[k - 1] * 10 + Value(k))]
               F == CHOOSE f : Is(f)
               g == [k \in 2 .. 2 |-> 0]
    <3>1. Decimal(text, 2, 2) = F[2]
      BY DEF Decimal
    <3> HIDE DEF Value
    <3>2. Is(g)
      OBVIOUS
    <3>3. Is(F)
      <4> HIDE DEF Is, g
      <4> QED BY <3>2
    <3> HIDE DEF F
    <3>4. F[2] = 0
      BY <3>3
    <3> QED BY <3>1, <3>4
  <2>6. Atoi(text) = Wrap(-0)
    <3> DEFINE start == Passed(text, 1, {" ", "\t"})
               sign == IF start <= Len(text) /\ text[start] \in {"-", "+"} THEN <<text[start]>> ELSE <<>>
               first == start + Len(sign)
               result == Decimal(text, first, Passed(text, first, Decimals))
    <3>1. Atoi(text) = IF sign = <<"-">> THEN Wrap(-result) ELSE result
      BY DEF Atoi
    <3>2. start = 1
      BY <2>3
    <3> HIDE DEF start
    <3>3. sign = <<"-">>
      BY <3>2, <2>2
    <3> HIDE DEF sign
    <3>4. first = 2
      BY <3>2, <3>3
    <3> HIDE DEF first
    <3>5. result = 0
      BY <3>4, <2>4, <2>5
    <3> HIDE DEF result
    <3> QED BY <3>1, <3>3, <3>5
  <2>7. Wrap(-0) = 0
    <3>1. \A x \in Int : x <= 0 /\ x >= 0 => -x = x
      OBVIOUS
    <3>2. -0 = 0
      <4>1. 0 \in Int /\ 0 <= 0 /\ 0 >= 0
        OBVIOUS
      <4> QED BY <3>1, <4>1, Zenon
    <3>3. 0 \in -IntHalf .. IntHalf - 1
      BY <1>0
    <3>4. Wrap(0) = 0
      BY <3>3, WrapIs
    <3> QED BY <3>2, <3>4
  <2> QED BY <2>6, <2>7, <1>5 DEF text
<1> QED BY <1>0, <1>3, <1>4, <1>5

(* What a format amounts to so far, and the round of its expansion that    *)
(* reads the character f[i].                                               *)
Expanded == [text : Seq(Letter), args : Nat, percent : BOOLEAN]
NoText == [text |-> <<>>, args |-> 0, percent |-> FALSE]
With(l, piece, n) == [text |-> l.text \o piece, args |-> l.args + n, percent |-> FALSE]
NextRound(f, given, i, l) ==
  CASE ~l.percent /\ f[i] = "%" -> [l EXCEPT !.percent = TRUE]
    [] l.percent /\ f[i] = "d" -> With(l, Numeral(given[l.args + 1].d, 10), 1)
    [] l.percent /\ f[i] = "s" -> With(l, given[l.args + 1].s, 1)
    [] OTHER -> With(l, <<f[i]>>, 0)

(* Every argument takes two characters of the format.                      *)
TwoEach(l, i) == (2 * l.args) + (IF l.percent THEN 1 ELSE 0) <= i

(* The arguments a directive takes are there.                              *)
LEMMA ArgumentIsThere ==
  ASSUME NEW f \in Seq(Letters), NEW given \in Arguments(f), NEW k \in Nat, 2 * (k + 1) <= Len(f)
  PROVE  /\ given[k + 1].d \in -IntHalf .. IntHalf - 1
         /\ given[k + 1].s \in Seq(Letter)
         /\ Numeral(given[k + 1].d, 10) \in Seq(Letter)
<1>1. Len(f) \in Nat
  BY LenProperties
<1>2. k + 1 \in 1 .. Len(f) \div 2
  BY <1>1
<1>3. given[k + 1] \in Words
  BY <1>2 DEF Arguments
<1>4. given[k + 1].d \in -IntHalf .. IntHalf - 1 /\ given[k + 1].s \in Seq(Letters)
  BY <1>3, FormatAssumption
<1>5. given[k + 1].s \in Seq(Letter)
  <2>1. Letters \subseteq Letter
    BY DEF Letter
  <2> QED BY <1>4, <2>1, SeqMonotonic
<1>6. 10 \in 2 .. 16
  OBVIOUS
<1> QED BY <1>4, <1>5, <1>6, NumeralIsText

(* A round of the expansion adds text, and takes arguments that are there. *)
LEMMA NextRoundIs ==
  ASSUME NEW f \in Seq(Letters), NEW given \in Arguments(f), NEW i \in 1 .. Len(f),
         NEW l \in Expanded, TwoEach(l, i - 1)
  PROVE  /\ NextRound(f, given, i, l) \in Expanded
         /\ TwoEach(NextRound(f, given, i, l), i)
         /\ \E piece \in Seq(Letter) : NextRound(f, given, i, l).text = l.text \o piece
<1> DEFINE m == NextRound(f, given, i, l)
<1>1. Len(f) \in Nat /\ f[i] \in Letters /\ i \in Nat /\ i >= 1
  BY LenProperties, ElementOfSeq
<1>2. l.text \in Seq(Letter) /\ l.args \in Nat /\ l.percent \in BOOLEAN
  BY DEF Expanded
<1>3. (2 * l.args) + (IF l.percent THEN 1 ELSE 0) <= i - 1
  BY DEF TwoEach
<1>4. ASSUME NEW piece \in Seq(Letter), NEW n \in {0, 1}, m = With(l, piece, n),
             (2 * (l.args + n)) <= i
      PROVE  m \in Expanded /\ TwoEach(m, i) /\ \E p \in Seq(Letter) : m.text = l.text \o p
  <2> HIDE DEF m
  <2>1. m.text = l.text \o piece /\ m.args = l.args + n /\ m.percent = FALSE
    BY <1>4 DEF With
  <2>2. l.text \o piece \in Seq(Letter)
    BY <1>2, ConcatProperties
  <2>3. m \in Expanded
    <3>1. l.args + n \in Nat
      BY <1>2
    <3> QED BY <1>4, <2>2, <3>1 DEF With, Expanded
  <2>4. TwoEach(m, i)
    BY <2>1, <1>1, <1>2, <1>4, SMTT(30) DEF TwoEach
  <2> QED BY <2>1, <2>3, <2>4
<1>5. CASE ~l.percent /\ f[i] = "%"
  <2>1. m = [l EXCEPT !.percent = TRUE]
    BY <1>5 DEF NextRound
  <2> HIDE DEF m
  <2>2. m.text = l.text /\ m.args = l.args /\ m.percent = TRUE /\ m \in Expanded
    BY <2>1 DEF Expanded
  <2>3. TwoEach(m, i)
    BY <2>2, <1>1, <1>2, <1>3, <1>5 DEF TwoEach
  <2>4. m.text = l.text \o <<>> /\ <<>> \in Seq(Letter)
    BY <2>2, <1>2, ConcatEmptySeq, EmptySeq
  <2>5. m \in Expanded /\ TwoEach(m, i) /\ \E p \in Seq(Letter) : m.text = l.text \o p
    BY <2>2, <2>3, <2>4
  <2> QED BY <2>5 DEF m
<1>6. CASE l.percent /\ f[i] = "d"
  <2>1. m = With(l, Numeral(given[l.args + 1].d, 10), 1)
    BY <1>6 DEF NextRound
  <2>2. 2 * (l.args + 1) <= i
    BY <1>1, <1>2, <1>3, <1>6
  <2>3. 2 * (l.args + 1) <= Len(f)
    BY <2>2, <1>1, <1>2
  <2>4. Numeral(given[l.args + 1].d, 10) \in Seq(Letter)
    BY <2>3, <1>2, ArgumentIsThere
  <2> QED BY <2>1, <2>2, <2>4, <1>4
<1>7. CASE l.percent /\ f[i] = "s"
  <2>1. m = With(l, given[l.args + 1].s, 1)
    BY <1>7 DEF NextRound
  <2>2. 2 * (l.args + 1) <= i
    BY <1>1, <1>2, <1>3, <1>7
  <2>3. 2 * (l.args + 1) <= Len(f)
    BY <2>2, <1>1, <1>2
  <2>4. given[l.args + 1].s \in Seq(Letter)
    BY <2>3, <1>2, ArgumentIsThere
  <2> QED BY <2>1, <2>2, <2>4, <1>4
<1>8. CASE ~ (~l.percent /\ f[i] = "%") /\ ~ (l.percent /\ f[i] = "d") /\ ~ (l.percent /\ f[i] = "s")
  <2>1. m = With(l, <<f[i]>>, 0)
    BY <1>8 DEF NextRound
  <2>2. 2 * (l.args + 0) <= i
    BY <1>1, <1>2, <1>3
  <2>3. <<f[i]>> \in Seq(Letter)
    <3>1. f[i] \in Letter
      BY <1>1 DEF Letter
    <3> QED BY <3>1
  <2> QED BY <2>1, <2>2, <2>3, <1>4
<1> QED BY <1>5, <1>6, <1>7, <1>8

(* The rounds of the expansion, one after the other.                       *)
Rounds(f, given, g) ==
  /\ g[0] = NoText
  /\ \A i \in 1 .. Len(f) : g[i] = NextRound(f, given, i, g[i - 1])

(* An expansion goes round by round, and asks for no argument the caller   *)
(* has not passed.                                                         *)
LEMMA ExpandingIs ==
  ASSUME NEW f \in Seq(Letters), NEW given \in Arguments(f)
  PROVE  /\ Rounds(f, given, Expanding(f, given))
         /\ \A i \in 0 .. Len(f) : /\ Expanding(f, given)[i] \in Expanded
                                   /\ TwoEach(Expanding(f, given)[i], i)
<1> DEFINE n == Len(f)
           step == [i \in Nat |-> [l \in Expanded |->
                      IF NextRound(f, given, i, l) \in Expanded THEN NextRound(f, given, i, l) ELSE l]]
           Is(h) == h = [i \in 0 .. n |-> IF i = 0 THEN NoText ELSE NextRound(f, given, i, h[i - 1])]
           F == CHOOSE h : Is(h)
<1>0. n \in Nat
  BY LenProperties
<1>1. NoText \in Expanded /\ TwoEach(NoText, 0)
  BY EmptySeq DEF NoText, Expanded, TwoEach
<1>2. PICK g : Iterates(g, Expanded, NoText, step, n)
  <2>1. Steps(step, Expanded)
    BY DEF Steps
  <2> HIDE DEF step, n
  <2> QED BY <1>0, <1>1, <2>1, Recursion
<1>3. g \in [0 .. n -> Expanded] /\ g[0] = NoText /\ \A i \in 1 .. n : g[i] = step[i][g[i - 1]]
  <2> HIDE DEF step, n
  <2> QED BY <1>2 DEF Iterates
<1>4. ASSUME NEW i \in 1 .. n, TwoEach(g[i - 1], i - 1)
      PROVE  g[i] = NextRound(f, given, i, g[i - 1]) /\ TwoEach(g[i], i)
  <2>1. g[i - 1] \in Expanded /\ i \in Nat
    BY <1>0, <1>3
  <2>2. NextRound(f, given, i, g[i - 1]) \in Expanded /\ TwoEach(NextRound(f, given, i, g[i - 1]), i)
    BY <2>1, <1>4, NextRoundIs
  <2>3. step[i][g[i - 1]] = NextRound(f, given, i, g[i - 1])
    BY <2>1, <2>2
  <2> HIDE DEF step
  <2> QED BY <2>2, <2>3, <1>3
<1> HIDE DEF step
<1>5. \A i \in 0 .. n : TwoEach(g[i], i)
  <2> DEFINE D == {i \in 0 .. n : TwoEach(g[i], i)}
  <2>1. 0 \in D
    BY <1>0, <1>1, <1>3
  <2>2. ASSUME NEW i \in 1 .. n, i - 1 \in D PROVE i \in D
    <3>1. i \in 0 .. n /\ TwoEach(g[i - 1], i - 1)
      BY <1>0, <2>2
    <3> QED BY <3>1, <1>4
  <2>3. 0 .. n \subseteq D
    <3> HIDE DEF D, n
    <3> QED BY <1>0, <2>1, <2>2, Throughout
  <2> QED BY <2>3
<1>6. \A i \in 1 .. n : g[i] = NextRound(f, given, i, g[i - 1])
  <2>1. \A i \in 1 .. n : i - 1 \in 0 .. n
    BY <1>0
  <2> QED BY <2>1, <1>4, <1>5
<1>7. Is(g)
  <2>1. g = [i \in 0 .. n |-> g[i]]
    BY <1>3
  <2>2. \A i \in 0 .. n : i # 0 => i \in 1 .. n
    BY <1>0
  <2>3. \A i \in 0 .. n : g[i] = IF i = 0 THEN NoText ELSE NextRound(f, given, i, g[i - 1])
    BY <2>2, <1>3, <1>6
  <2> HIDE DEF n
  <2> QED BY <2>1, <2>3
<1>8. Is(F)
  <2> HIDE DEF Is
  <2> QED BY <1>7
<1>9. Expanding(f, given) = F
  BY DEF Expanding, NextRound, With, NoText
<1> HIDE DEF F
<1>10. F[0] = NoText /\ \A i \in 1 .. n : F[i] = NextRound(f, given, i, F[i - 1])
  <2>1. 0 \in 0 .. n /\ \A i \in 1 .. n : i \in 0 .. n /\ i # 0
    BY <1>0
  <2> HIDE DEF n
  <2> QED BY <2>1, <1>8
<1>11. ASSUME NEW k \in 0 .. n PROVE F[k] = g[k]
  <2>1. \A i \in 1 .. k : i \in 1 .. n
    BY <1>0
  <2>2. F[0] = g[0] /\ \A i \in 1 .. k : F[i - 1] = g[i - 1] => F[i] = g[i]
    <3> HIDE DEF n
    <3> QED BY <2>1, <1>3, <1>6, <1>10
  <2>3. k \in Nat
    BY <1>0
  <2> QED BY <2>2, <2>3, LoopsAgree
<1>12. Rounds(f, given, F)
  BY <1>10 DEF Rounds
<1>13. \A i \in 0 .. n : F[i] \in Expanded /\ TwoEach(F[i], i)
  <2> HIDE DEF n
  <2> QED BY <1>3, <1>5, <1>11
<1> QED BY <1>9, <1>12, <1>13

(* A text cut to a room.                                                   *)
LEMMA ClipIs ==
  ASSUME NEW t \in Seq(Letter), NEW room \in Nat
  PROVE  /\ Clip(t, room) \in Seq(Letter) /\ Len(t) \in Nat
         /\ Len(Clip(t, room)) = IF Len(t) < room THEN Len(t) ELSE room
         /\ \A i \in 1 .. Len(Clip(t, room)) : Clip(t, room)[i] = t[i]
<1> DEFINE n == IF Len(t) < room THEN Len(t) ELSE room
<1>1. Len(t) \in Nat
  BY LenProperties
<1>2. n \in Nat /\ n <= Len(t)
  BY <1>1
<1>3. Clip(t, room) = SubSeq(t, 1, n)
  BY DEF Clip
<1> HIDE DEF n
<1>4. \A i \in 1 .. n : t[i] \in Letter
  BY <1>1, <1>2, ElementOfSeq
<1>5. /\ SubSeq(t, 1, n) \in Seq(Letter)
      /\ Len(SubSeq(t, 1, n)) = IF 1 <= n THEN (n - 1) + 1 ELSE 0
      /\ \A i \in 1 .. (n - 1) + 1 : SubSeq(t, 1, n)[i] = t[(1 + i) - 1]
  <2>1. 1 \in Int /\ n \in Int
    BY <1>2
  <2>2. /\ SubSeq(t, 1, n) \in Seq(Letter)
        /\ Len(SubSeq(t, 1, n)) = IF 1 <= n THEN n - 1 + 1 ELSE 0
        /\ \A i \in 1 .. n - 1 + 1 : SubSeq(t, 1, n)[i] = t[1 + i - 1]
    BY <1>4, <2>1, SubSeqProperties
  <2>3. \A i \in 1 .. (n - 1) + 1 : 1 + i - 1 = i /\ (1 + i) - 1 = i
    BY <1>2
  <2> QED BY <2>2, <2>3
<1>6. Len(SubSeq(t, 1, n)) = n
  BY <1>2, <1>5
<1>7. \A i \in 1 .. n : (1 + i) - 1 = i /\ i \in 1 .. (n - 1) + 1
  BY <1>2
<1> QED BY <1>1, <1>3, <1>5, <1>6, <1>7 DEF n

(* Writing a piece into what is left of a room is cutting the whole text   *)
(* to the room.                                                            *)
LEMMA ClipPut ==
  ASSUME NEW t \in Seq(Letter), NEW u \in Seq(Letter), NEW room \in Nat
  PROVE  /\ room - Len(Clip(t, room)) \in Nat
         /\ Clip(t, room) \o Clip(u, room - Len(Clip(t, room))) = Clip(t \o u, room)
<1> DEFINE c == Clip(t, room)
           left == room - Len(c)
           d == Clip(u, left)
           e == Clip(t \o u, room)
           a == c \o d
<1>1. /\ c \in Seq(Letter) /\ Len(t) \in Nat
      /\ Len(c) = (IF Len(t) < room THEN Len(t) ELSE room)
      /\ \A i \in 1 .. Len(c) : c[i] = t[i]
  BY ClipIs
<1> HIDE DEF c
<1>2. left \in Nat /\ left = room - Len(c)
  BY <1>1
<1> HIDE DEF left
<1>3. /\ d \in Seq(Letter) /\ Len(u) \in Nat
      /\ Len(d) = (IF Len(u) < left THEN Len(u) ELSE left)
      /\ \A i \in 1 .. Len(d) : d[i] = u[i]
  BY <1>2, ClipIs
<1> HIDE DEF d
<1>4. /\ t \o u \in Seq(Letter) /\ Len(t \o u) = Len(t) + Len(u)
      /\ \A i \in 1 .. Len(t) + Len(u) : (t \o u)[i] = IF i <= Len(t) THEN t[i] ELSE u[i - Len(t)]
  BY ConcatProperties
<1>5. /\ e \in Seq(Letter)
      /\ Len(e) = (IF Len(t) + Len(u) < room THEN Len(t) + Len(u) ELSE room)
      /\ \A i \in 1 .. Len(e) : e[i] = (t \o u)[i]
  BY <1>4, ClipIs, ZenonT(30)
<1> HIDE DEF e
<1>6. /\ a \in Seq(Letter) /\ Len(a) = Len(c) + Len(d)
      /\ \A i \in 1 .. Len(c) + Len(d) : a[i] = IF i <= Len(c) THEN c[i] ELSE d[i - Len(c)]
  BY <1>1, <1>3, ConcatProperties
<1> HIDE DEF a
<1>7. /\ Len(a) = Len(e) /\ Len(a) = Len(c) + Len(d) /\ Len(a) <= Len(t) + Len(u)
      /\ Len(d) > 0 => Len(c) = Len(t)
      /\ Len(t) \in Nat /\ Len(u) \in Nat /\ Len(c) \in Nat /\ Len(d) \in Nat
  <2> DEFINE x == Len(t)
             y == Len(u)
             k == Len(c)
             m == Len(d)
             z == Len(e)
  <2>1. /\ x \in Nat /\ y \in Nat /\ k = (IF x < room THEN x ELSE room) /\ left = room - k
        /\ m = (IF y < left THEN y ELSE left)
        /\ z = (IF x + y < room THEN x + y ELSE room)
        /\ Len(a) = k + m
    BY <1>1, <1>2, <1>3, <1>5, <1>6
  <2> HIDE DEF x, y, k, m, z
  <2>2. k + m = z /\ z <= x + y /\ (m > 0 => k = x) /\ k \in Nat /\ m \in Nat
    <3>1. CASE x < room
      <4>1. k = x /\ left = room - x
        BY <2>1, <3>1
      <4> QED BY <2>1, <3>1, <4>1
    <3>2. CASE ~ x < room
      <4>1. k = room
        BY <2>1, <3>2
      <4>2. left = 0
        BY <2>1, <4>1
      <4>3. m = 0
        BY <2>1, <4>2
      <4>4. z = room
        BY <2>1, <3>2
      <4> QED BY <2>1, <3>2, <4>1, <4>3, <4>4
    <3> QED BY <3>1, <3>2
  <2> QED BY <2>1, <2>2 DEF x, y, k, m, z
<1>8. ASSUME NEW i \in 1 .. Len(a) PROVE a[i] = e[i]
  <2>1. i \in Nat /\ i >= 1 /\ i <= Len(c) + Len(d) /\ i \in 1 .. Len(t) + Len(u) /\ i \in 1 .. Len(e)
    BY <1>7
  <2>2. CASE i <= Len(c)
    <3>1. i \in 1 .. Len(c) /\ i <= Len(t)
      BY <2>1, <2>2, <1>1
    <3> QED BY <2>1, <2>2, <3>1, <1>1, <1>4, <1>5, <1>6
  <2>3. CASE i > Len(c)
    <3>1. Len(c) = Len(t)
      BY <2>1, <2>3, <1>7
    <3>2. i - Len(c) \in 1 .. Len(d) /\ ~ i <= Len(c) /\ ~ i <= Len(t)
      BY <2>1, <2>3, <3>1, <1>1, <1>3
    <3>3. a[i] = d[i - Len(c)] /\ d[i - Len(c)] = u[i - Len(c)]
      BY <2>1, <3>2, <1>3, <1>6
    <3>4. e[i] = u[i - Len(t)]
      BY <2>1, <3>2, <1>4, <1>5
    <3> QED BY <3>1, <3>3, <3>4
  <2> QED BY <2>1, <2>2, <2>3, <1>1
<1>9. a = e
  BY <1>5, <1>6, <1>7, <1>8, SeqEqual
<1> QED BY <1>2, <1>9 DEF a, c, d, e, left

(* A room that is full stays as it is, whatever the rest of the format     *)
(* adds.                                                                   *)
LEMMA FullStaysFull ==
  ASSUME NEW f \in Seq(Letters), NEW given \in Arguments(f), NEW i \in 0 .. Len(f), NEW room \in Nat,
         Len(Clip(Expanding(f, given)[i].text, room)) = room
  PROVE  Clip(Expansion(f, given), room) = Clip(Expanding(f, given)[i].text, room)
<1> DEFINE E == Expanding(f, given)
           n == Len(f)
           D == {k \in 0 .. n - i : Clip(E[i + k].text, room) = Clip(E[i].text, room)}
<1>1. n \in Nat /\ i \in Nat /\ i <= n /\ n - i \in Nat
  BY LenProperties
<1>2. /\ \A k \in 0 .. n : E[k] \in Expanded /\ TwoEach(E[k], k)
      /\ \A k \in 1 .. n : E[k] = NextRound(f, given, k, E[k - 1])
  BY ExpandingIs DEF Rounds
<1>3. Len(Clip(E[i].text, room)) = room
  OBVIOUS
<1>3a. Expansion(f, given) = E[n].text
  BY DEF Expansion
<1> HIDE DEF E
<1>4. 0 \in D
  <2>1. i + 0 = i /\ 0 \in 0 .. n - i
    BY <1>1
  <2> QED BY <2>1
<1>5. ASSUME NEW k \in 1 .. n - i, k - 1 \in D PROVE k \in D
  <2> DEFINE l == E[i + (k - 1)]
  <2>1. i + k \in 1 .. n /\ (i + k) - 1 = i + (k - 1) /\ i + (k - 1) \in 0 .. n /\ k \in 0 .. n - i
    BY <1>1
  <2>2. l \in Expanded /\ TwoEach(l, i + (k - 1)) /\ E[i + k] = NextRound(f, given, i + k, l)
    BY <2>1, <1>2
  <2>3. Clip(l.text, room) = Clip(E[i].text, room)
    BY <1>5
  <2> HIDE DEF l
  <2>4. PICK piece \in Seq(Letter) : E[i + k].text = l.text \o piece
    <3>1. TwoEach(l, (i + k) - 1)
      BY <2>1, <2>2
    <3>2. \E piece \in Seq(Letter) : NextRound(f, given, i + k, l).text = l.text \o piece
      BY <2>1, <2>2, <3>1, NextRoundIs
    <3> QED BY <3>2, <2>2
  <2>5. l.text \in Seq(Letter)
    BY <2>2 DEF Expanded
  <2>6. Clip(l.text, room) \o Clip(piece, room - Len(Clip(l.text, room))) = Clip(l.text \o piece, room)
    BY <2>5, ClipPut
  <2>7. Clip(piece, room - Len(Clip(l.text, room))) = <<>>
    <3>1. room - Len(Clip(l.text, room)) = 0
      BY <1>3, <2>3
    <3>2. Clip(piece, 0) = <<>>
      <4>1. Clip(piece, 0) \in Seq(Letter) /\ Len(Clip(piece, 0)) = 0
        <5>1. 0 \in Nat
          OBVIOUS
        <5>2. /\ Clip(piece, 0) \in Seq(Letter) /\ Len(piece) \in Nat
              /\ Len(Clip(piece, 0)) = IF Len(piece) < 0 THEN Len(piece) ELSE 0
          BY <5>1, ClipIs
        <5> QED BY <5>2
      <4> QED BY <4>1, EmptySeq
    <3> QED BY <3>1, <3>2
  <2>8. Clip(l.text, room) \o <<>> = Clip(l.text, room)
    <3>1. Clip(l.text, room) \in Seq(Letter)
      BY <2>5, ClipIs
    <3> QED BY <3>1, ConcatEmptySeq
  <2>9. Clip(E[i + k].text, room) = Clip(E[i].text, room)
    BY <2>3, <2>4, <2>6, <2>7, <2>8
  <2> QED BY <2>1, <2>9
<1>6. 0 .. n - i \subseteq D
  <2> HIDE DEF D, n
  <2> QED BY <1>1, <1>4, <1>5, Throughout
<1>7. n - i \in D /\ i + (n - i) = n
  <2>1. n - i \in 0 .. n - i /\ i + (n - i) = n
    BY <1>1
  <2> HIDE DEF D, n
  <2> QED BY <2>1, <1>6
<1>8. Clip(E[n].text, room) = Clip(E[i].text, room)
  BY <1>7
<1> QED BY <1>3a, <1>8 DEF E

(* The call that runs, what its format amounts to up to the character it   *)
(* has come to, and what a call that has returned has written.             *)
CallOfPrintf ==
  /\ printing.fn = "printf" /\ printing.size \in Nat
  /\ printing.format \in Formats /\ printing.args \in Arguments(printing.format)

SoFar == Expanding(printing.format, printing.args)[fmt_pos - 1]

Reached ==
  /\ printing.size > 0
  /\ fmt_pos \in 1 .. Len(printing.format) + 1
  /\ ~ SoFar.percent /\ SoFar.args = taken
  /\ str = Clip(SoFar.text, printing.size - 1)

TextWritten ==
  IF printing.size = 0 THEN str = <<>>
  ELSE str = Append(Clip(Expansion(printing.format, printing.args), printing.size - 1), Nul)

NumberWritten ==
  /\ printing.fn = "itoa" /\ printing.base \in {10, 16} /\ printing.value \in -IntHalf .. IntHalf - 1
  /\ str = Append(Itoa(printing.value, printing.base), Nul)

FmtInv ==
  /\ phase \in {"idle", "running", "returned", "lost"}
  /\ phase = "running" => CallOfPrintf /\ Reached
  /\ phase = "returned" => (CallOfPrintf /\ TextWritten) \/ NumberWritten

(* What the expansion makes of a character in front of which no percent    *)
(* sign waits, and of a percent sign with its letter.                      *)
LEMMA NextPiece ==
  ASSUME NEW f \in Formats, NEW given \in Arguments(f), NEW i \in 1 .. Len(f),
         ~ Expanding(f, given)[i - 1].percent
  PROVE  LET E == Expanding(f, given)
             l == E[i - 1]
         IN  /\ f \in Seq(Letters) /\ Len(f) \in Nat /\ f[i] \in Letters
             /\ l.text \in Seq(Letter) /\ l.args \in Nat
             /\ f[i] # "%" => E[i] = With(l, <<f[i]>>, 0)
             /\ f[i] = "%" /\ i < Len(f) =>
                  /\ f[i + 1] \in Letters
                  /\ f[i + 1] \in {"d", "s"} => 2 * (l.args + 1) <= Len(f)
                  /\ f[i + 1] = "d" => E[i + 1] = With(l, Numeral(given[l.args + 1].d, 10), 1)
                  /\ f[i + 1] = "s" => E[i + 1] = With(l, given[l.args + 1].s, 1)
                  /\ f[i + 1] \notin {"d", "s"} => E[i + 1] = With(l, <<f[i + 1]>>, 0)
<1> DEFINE E == Expanding(f, given)
           l == E[i - 1]
<1>0. f \in Seq(Letters) /\ Len(f) \in Nat /\ f[i] \in Letters
  <2>1. f \in Seq(Letters)
    BY FormatAssumption
  <2> QED BY <2>1, LenProperties, ElementOfSeq
<1>1. /\ \A k \in 0 .. Len(f) : E[k] \in Expanded /\ TwoEach(E[k], k)
      /\ \A k \in 1 .. Len(f) : E[k] = NextRound(f, given, k, E[k - 1])
  BY <1>0, ExpandingIs DEF Rounds
<1>2. l \in Expanded /\ TwoEach(l, i - 1) /\ E[i] = NextRound(f, given, i, l) /\ ~l.percent
  <2>1. i - 1 \in 0 .. Len(f)
    BY <1>0
  <2> HIDE DEF E
  <2>2. l \in Expanded /\ TwoEach(l, i - 1) /\ E[i] = NextRound(f, given, i, l)
    BY <2>1, <1>1
  <2> QED BY <2>2 DEF E
<1>3. l.text \in Seq(Letter) /\ l.args \in Nat
  BY <1>2 DEF Expanded
<1> HIDE DEF E, l
<1>4. ASSUME f[i] # "%" PROVE E[i] = With(l, <<f[i]>>, 0)
  BY <1>2, <1>4 DEF NextRound
<1>5. ASSUME f[i] = "%", i < Len(f)
      PROVE  /\ f[i + 1] \in Letters
             /\ f[i + 1] \in {"d", "s"} => 2 * (l.args + 1) <= Len(f)
             /\ f[i + 1] = "d" => E[i + 1] = With(l, Numeral(given[l.args + 1].d, 10), 1)
             /\ f[i + 1] = "s" => E[i + 1] = With(l, given[l.args + 1].s, 1)
             /\ f[i + 1] \notin {"d", "s"} => E[i + 1] = With(l, <<f[i + 1]>>, 0)
  <2> DEFINE m == E[i]
  <2>1. m = [l EXCEPT !.percent = TRUE]
    BY <1>2, <1>5 DEF NextRound
  <2>2. m.text = l.text /\ m.args = l.args /\ m.percent = TRUE
    BY <2>1, <1>2 DEF Expanded
  <2>3. i + 1 \in 1 .. Len(f) /\ (i + 1) - 1 = i
    BY <1>0, <1>5
  <2>4. E[i + 1] = NextRound(f, given, i + 1, m)
    BY <2>3, <1>1
  <2>5. \A piece, n : With(m, piece, n) = With(l, piece, n)
    <3> HIDE DEF m
    <3> QED BY <2>2 DEF With
  <2>6. f[i + 1] \in Letters
    BY <2>3, <1>0, ElementOfSeq
  <2>7. 2 * (l.args + 1) <= Len(f)
    <3>1. TwoEach(m, i)
      BY <2>3, <1>0, <1>1
    <3>2. (2 * m.args) + (IF m.percent THEN 1 ELSE 0) <= i
      BY <3>1 DEF TwoEach
    <3> HIDE DEF m
    <3>3. (2 * l.args) + 1 <= i
      BY <2>2, <3>2
    <3> QED BY <3>3, <1>0, <1>3, <1>5
  <2> HIDE DEF m
  <2>8. ASSUME f[i + 1] = "d" PROVE E[i + 1] = With(l, Numeral(given[l.args + 1].d, 10), 1)
    <3>1. NextRound(f, given, i + 1, m) = With(m, Numeral(given[m.args + 1].d, 10), 1)
      BY <2>2, <2>8 DEF NextRound
    <3> QED BY <3>1, <2>2, <2>4, <2>5
  <2>9. ASSUME f[i + 1] = "s" PROVE E[i + 1] = With(l, given[l.args + 1].s, 1)
    <3>1. NextRound(f, given, i + 1, m) = With(m, given[m.args + 1].s, 1)
      BY <2>2, <2>9 DEF NextRound
    <3> QED BY <3>1, <2>2, <2>4, <2>5
  <2>10. ASSUME f[i + 1] \notin {"d", "s"} PROVE E[i + 1] = With(l, <<f[i + 1]>>, 0)
    <3>1. NextRound(f, given, i + 1, m) = With(m, <<f[i + 1]>>, 0)
      BY <2>2, <2>10 DEF NextRound
    <3> QED BY <3>1, <2>4, <2>5
  <2> QED BY <2>6, <2>7, <2>8, <2>9, <2>10
<1> QED BY <1>0, <1>3, <1>4, <1>5 DEF E, l

(* Writing the next piece of the expansion keeps the text what the format  *)
(* amounts to.                                                             *)
LEMMA PieceIsPut ==
  ASSUME phase = "running", CallOfPrintf, Reached, SoFar.text \in Seq(Letter), SoFar.args \in Nat,
         NEW piece \in Seq(Letter), NEW length \in {1, 2}, NEW n \in Nat,
         fmt_pos + length <= Len(printing.format) + 1, Len(printing.format) \in Nat,
         Expanding(printing.format, printing.args)[(fmt_pos - 1) + length] = With(SoFar, piece, n),
         Put(piece, length), taken' = taken + n
  PROVE  FmtInv'
<1> DEFINE room == printing.size - 1
           m == With(SoFar, piece, n)
<1>1. phase' = "running" /\ printing' = printing /\ fmt_pos' = fmt_pos + length
      /\ str' = str \o Clip(piece, Room)
  BY DEF Put
<1>2. room \in Nat /\ fmt_pos \in Nat /\ fmt_pos >= 1 /\ ~ SoFar.percent /\ SoFar.args = taken
      /\ str = Clip(SoFar.text, room)
  BY DEF CallOfPrintf, Reached
<1>3. Room = room - Len(Clip(SoFar.text, room))
  BY <1>2 DEF Room
<1>4. str' = Clip(SoFar.text \o piece, room)
  <2> HIDE DEF room
  <2>1. Clip(SoFar.text, room) \o Clip(piece, room - Len(Clip(SoFar.text, room)))
          = Clip(SoFar.text \o piece, room)
    BY <1>2, ClipPut
  <2> QED BY <2>1, <1>1, <1>2, <1>3
<1>5. SoFar' = m
  <2>1. (fmt_pos + length) - 1 = (fmt_pos - 1) + length
    BY <1>2
  <2>3. SoFar' = Expanding(printing.format, printing.args)[(fmt_pos + length) - 1]
    BY <1>1 DEF SoFar
  <2> QED BY <2>1, <2>3
<1>6. m.text = SoFar.text \o piece /\ m.args = SoFar.args + n /\ m.percent = FALSE
  BY DEF With
<1> HIDE DEF m
<1>7. CallOfPrintf'
  BY <1>1 DEF CallOfPrintf
<1>8. Reached'
  <2>1. fmt_pos' \in 1 .. Len(printing.format) + 1
    BY <1>1, <1>2
  <2>2. ~ SoFar'.percent /\ SoFar'.args = taken' /\ str' = Clip(SoFar'.text, printing.size - 1)
    BY <1>2, <1>4, <1>5, <1>6
  <2>3. printing.size > 0
    BY DEF Reached
  <2> QED BY <2>1, <2>2, <2>3, <1>1 DEF Reached
<1> QED BY <1>1, <1>7, <1>8 DEF FmtInv

(* The text of a call that runs is cut from what its format amounts to so  *)
(* far, from the first call on.                                            *)
THEOREM FmtInvAlways == FmtSpec => []FmtInv
<1>1. FmtInit => FmtInv
  BY DEF FmtInit, FmtInv
<1>2. FmtInv /\ [FmtNext]_fmtVars => FmtInv'
  <2> SUFFICES ASSUME FmtInv, [FmtNext]_fmtVars PROVE FmtInv'
    OBVIOUS
  <2>1. ASSUME NEW size \in Rooms \cup {Ample}, NEW f \in Formats, NEW given \in Arguments(f),
               Printf(size, f, given)
        PROVE  FmtInv'
    <3>1. /\ printing'.fn = "printf" /\ printing'.size = size /\ printing'.format = f
          /\ printing'.args = given /\ fmt_pos' = 1 /\ taken' = 0 /\ str' = <<>>
          /\ phase' = IF size = 0 THEN "returned" ELSE "running"
      BY <2>1 DEF Printf
    <3>2. size \in Nat
      BY FormatAssumption
    <3>3. CallOfPrintf'
      BY <3>1, <3>2 DEF CallOfPrintf
    <3>4. CASE size = 0
      <4>1. TextWritten'
        BY <3>1, <3>4 DEF TextWritten
      <4> QED BY <3>1, <3>3, <3>4, <4>1 DEF FmtInv
    <3>5. CASE size # 0
      <4>1. f \in Seq(Letters) /\ Len(f) \in Nat
        BY FormatAssumption, LenProperties
      <4>2. Expanding(f, given)[0] = NoText
        BY <4>1, ExpandingIs DEF Rounds
      <4>3. SoFar' = NoText
        <5>1. SoFar' = Expanding(f, given)[1 - 1]
          BY <3>1 DEF SoFar
        <5> QED BY <4>2, <5>1
      <4>4. Clip(<<>>, size - 1) = <<>>
        <5>1. <<>> \in Seq(Letter) /\ size - 1 \in Nat
          BY <3>2, <3>5, EmptySeq
        <5>2. Clip(<<>>, size - 1) \in Seq(Letter)
              /\ Len(Clip(<<>>, size - 1)) = IF Len(<<>>) < size - 1 THEN Len(<<>>) ELSE size - 1
          BY <5>1, ClipIs
        <5>3. Len(Clip(<<>>, size - 1)) = 0
          BY <5>1, <5>2, EmptySeq
        <5> QED BY <5>2, <5>3, EmptySeq
      <4>5. Reached'
        BY <3>1, <3>2, <3>5, <4>1, <4>3, <4>4 DEF Reached, NoText
      <4> QED BY <3>1, <3>3, <3>5, <4>5 DEF FmtInv
    <3> QED BY <3>4, <3>5
  <2> DEFINE f == printing.format
             given == printing.args
             E == Expanding(f, given)
             room == printing.size - 1
  <2>2. ASSUME More
        PROVE  /\ phase = "running" /\ CallOfPrintf /\ Reached
               /\ f \in Formats /\ given \in Arguments(f) /\ fmt_pos \in 1 .. Len(f)
               /\ E[fmt_pos - 1] = SoFar /\ ~ SoFar.percent /\ SoFar.args = taken
               /\ Len(f) \in Nat /\ (fmt_pos - 1) + 1 = fmt_pos /\ (fmt_pos - 1) + 2 = fmt_pos + 1
    <3>1. phase = "running" /\ fmt_pos <= Len(f) /\ CallOfPrintf /\ Reached
      BY <2>2 DEF More, FmtInv
    <3>2. f \in Formats /\ given \in Arguments(f) /\ ~ SoFar.percent /\ SoFar.args = taken
      BY <3>1 DEF CallOfPrintf, Reached
    <3>3. Len(f) \in Nat
      <4>1. f \in Seq(Letters)
        BY <3>2, FormatAssumption
      <4> QED BY <4>1, LenProperties
    <3>4. fmt_pos \in 1 .. Len(f) + 1
      BY <3>1 DEF Reached
    <3>5. E[fmt_pos - 1] = SoFar
      BY DEF SoFar
    <3> HIDE DEF f, given, E
    <3> QED BY <3>1, <3>2, <3>3, <3>4, <3>5
  <2>3. ASSUME More
        PROVE  /\ f[fmt_pos] \in Letters
               /\ SoFar.text \in Seq(Letter) /\ SoFar.args \in Nat
               /\ f[fmt_pos] # "%" => E[fmt_pos] = With(SoFar, <<f[fmt_pos]>>, 0)
               /\ f[fmt_pos] = "%" /\ fmt_pos < Len(f) =>
                    /\ f[fmt_pos + 1] \in Letters
                    /\ f[fmt_pos + 1] \in {"d", "s"} => 2 * (taken + 1) <= Len(f)
                    /\ f[fmt_pos + 1] = "d" =>
                         E[fmt_pos + 1] = With(SoFar, Numeral(given[taken + 1].d, 10), 1)
                    /\ f[fmt_pos + 1] = "s" => E[fmt_pos + 1] = With(SoFar, given[taken + 1].s, 1)
                    /\ f[fmt_pos + 1] \notin {"d", "s"} =>
                         E[fmt_pos + 1] = With(SoFar, <<f[fmt_pos + 1]>>, 0)
    <3>1. f \in Formats /\ given \in Arguments(f) /\ fmt_pos \in 1 .. Len(f)
          /\ E[fmt_pos - 1] = SoFar /\ ~ SoFar.percent /\ SoFar.args = taken
      BY <2>2, <2>3
    <3>2. ~ Expanding(f, given)[fmt_pos - 1].percent
      BY <3>1
    <3> DEFINE e == Expanding(f, given)
               l == e[fmt_pos - 1]
    <3>3. /\ f[fmt_pos] \in Letters
          /\ l.text \in Seq(Letter) /\ l.args \in Nat
          /\ f[fmt_pos] # "%" => e[fmt_pos] = With(l, <<f[fmt_pos]>>, 0)
          /\ f[fmt_pos] = "%" /\ fmt_pos < Len(f) =>
               /\ f[fmt_pos + 1] \in Letters
               /\ f[fmt_pos + 1] \in {"d", "s"} => 2 * (l.args + 1) <= Len(f)
               /\ f[fmt_pos + 1] = "d" => e[fmt_pos + 1] = With(l, Numeral(given[l.args + 1].d, 10), 1)
               /\ f[fmt_pos + 1] = "s" => e[fmt_pos + 1] = With(l, given[l.args + 1].s, 1)
               /\ f[fmt_pos + 1] \notin {"d", "s"} => e[fmt_pos + 1] = With(l, <<f[fmt_pos + 1]>>, 0)
      <4> HIDE DEF f, given
      <4> QED BY <3>1, <3>2, NextPiece
    <3>4. l = SoFar /\ l.args = taken /\ e = E
      BY <3>1
    <3> HIDE DEF f, given, e, E, l
    <3> QED BY <3>3, <3>4
  <2>4. ASSUME More, NEW piece \in Seq(Letter), NEW length \in {1, 2}, NEW n \in Nat,
               fmt_pos + length <= Len(f) + 1,
               E[(fmt_pos - 1) + length] = With(SoFar, piece, n),
               Put(piece, length), taken' = taken + n
        PROVE  FmtInv'
    BY <2>2, <2>3, <2>4, PieceIsPut
  <2>5. ASSUME PutPlain PROVE FmtInv'
    <3>1. More /\ f[fmt_pos] # "%" /\ Put(<<f[fmt_pos]>>, 1) /\ taken' = taken
      BY <2>5 DEF PutPlain, Char
    <3>2. f[fmt_pos] \in Letter /\ E[(fmt_pos - 1) + 1] = With(SoFar, <<f[fmt_pos]>>, 0)
      <4> HIDE DEF f, E, given
      <4> QED BY <3>1, <2>2, <2>3 DEF Letter
    <3>3. taken' = taken + 0 /\ fmt_pos + 1 <= Len(f) + 1
      <4>1. taken \in Nat /\ fmt_pos \in 1 .. Len(f) /\ Len(f) \in Nat
        BY <3>1, <2>2, <2>3
      <4> QED BY <3>1, <4>1
    <3>4. <<f[fmt_pos]>> \in Seq(Letter)
      <4> HIDE DEF f
      <4> QED BY <3>2
    <3> HIDE DEF f, E
    <3> QED BY <3>1, <3>2, <3>3, <3>4, <2>4
  <2>6. ASSUME Directive
        PROVE  /\ More /\ f[fmt_pos] = "%" /\ fmt_pos < Len(f)
               /\ fmt_pos + 2 <= Len(f) + 1 /\ taken \in Nat /\ taken + 0 = taken
               /\ (fmt_pos - 1) + 2 = fmt_pos + 1
    <3>1. More /\ f[fmt_pos] = "%" /\ fmt_pos < Len(f)
      BY <2>6 DEF Directive, Char
    <3>2. taken \in Nat /\ fmt_pos \in 1 .. Len(f) /\ Len(f) \in Nat /\ (fmt_pos - 1) + 2 = fmt_pos + 1
      BY <3>1, <2>2, <2>3
    <3> HIDE DEF f
    <3> QED BY <3>1, <3>2
  <2>7. ASSUME PutNumber PROVE FmtInv'
    <3> DEFINE word == given[taken + 1]
    <3>1. Directive /\ f[fmt_pos + 1] = "d" /\ Put(NumberToString(word.d, 10), 2) /\ taken' = taken + 1
      BY <2>7 DEF PutNumber, Char, Argument
    <3>2. word.d \in -IntHalf .. IntHalf - 1 /\ Numeral(word.d, 10) \in Seq(Letter)
      <4>1. 2 * (taken + 1) <= Len(f) /\ f \in Formats /\ given \in Arguments(f) /\ taken \in Nat
        BY <3>1, <2>2, <2>3, <2>6
      <4>2. f \in Seq(Letters)
        BY <4>1, FormatAssumption
      <4> HIDE DEF f, given
      <4> QED BY <4>1, <4>2, ArgumentIsThere
    <3>3. NumberToString(word.d, 10) = Numeral(word.d, 10)
      BY <3>2, NumberToStringIs
    <3>4. E[fmt_pos + 1] = With(SoFar, Numeral(word.d, 10), 1)
      BY <3>1, <2>3, <2>6
    <3>5. More /\ fmt_pos + 2 <= Len(f) + 1 /\ (fmt_pos - 1) + 2 = fmt_pos + 1
      BY <3>1, <2>6
    <3>6. E[(fmt_pos - 1) + 2] = With(SoFar, Numeral(word.d, 10), 1) /\ Put(Numeral(word.d, 10), 2)
      BY <3>1, <3>3, <3>4, <3>5
    <3> HIDE DEF f, E, word
    <3> QED BY <3>1, <3>2, <3>5, <3>6, <2>4
  <2>8. ASSUME PutText PROVE FmtInv'
    <3> DEFINE word == given[taken + 1]
    <3>1. Directive /\ f[fmt_pos + 1] = "s" /\ Put(word.s, 2) /\ taken' = taken + 1
      BY <2>8 DEF PutText, Char, Argument
    <3>2. word.s \in Seq(Letter)
      <4>1. 2 * (taken + 1) <= Len(f) /\ f \in Formats /\ given \in Arguments(f) /\ taken \in Nat
        BY <3>1, <2>2, <2>3, <2>6
      <4>2. f \in Seq(Letters)
        BY <4>1, FormatAssumption
      <4> HIDE DEF f, given
      <4> QED BY <4>1, <4>2, ArgumentIsThere
    <3>4. E[fmt_pos + 1] = With(SoFar, word.s, 1)
      BY <3>1, <2>3, <2>6
    <3>5. More /\ fmt_pos + 2 <= Len(f) + 1 /\ (fmt_pos - 1) + 2 = fmt_pos + 1
      BY <3>1, <2>6
    <3>6. E[(fmt_pos - 1) + 2] = With(SoFar, word.s, 1)
      BY <3>4, <3>5
    <3> HIDE DEF f, E, word
    <3> QED BY <3>1, <3>2, <3>5, <3>6, <2>4
  <2>9. ASSUME PutLiteral PROVE FmtInv'
    <3>1. Directive /\ f[fmt_pos + 1] \notin {"d", "s"} /\ Put(<<f[fmt_pos + 1]>>, 2) /\ taken' = taken
      BY <2>9 DEF PutLiteral, Char
    <3>2. f[fmt_pos + 1] \in Letter /\ E[fmt_pos + 1] = With(SoFar, <<f[fmt_pos + 1]>>, 0)
      <4>1. f[fmt_pos + 1] \in Letters /\ E[fmt_pos + 1] = With(SoFar, <<f[fmt_pos + 1]>>, 0)
        BY <3>1, <2>3, <2>6
      <4> HIDE DEF f, E
      <4> QED BY <4>1 DEF Letter
    <3>3. <<f[fmt_pos + 1]>> \in Seq(Letter)
      <4> HIDE DEF f
      <4> QED BY <3>2
    <3>5. More /\ fmt_pos + 2 <= Len(f) + 1 /\ (fmt_pos - 1) + 2 = fmt_pos + 1 /\ taken' = taken + 0
      BY <3>1, <2>6
    <3>6. E[(fmt_pos - 1) + 2] = With(SoFar, <<f[fmt_pos + 1]>>, 0)
      BY <3>2, <3>5
    <3> HIDE DEF f, E
    <3> QED BY <3>1, <3>3, <3>5, <3>6, <2>4
  <2>10. ASSUME PassTheEnd PROVE FmtInv'
    BY <2>10 DEF PassTheEnd, FmtInv
  <2>11. ASSUME PrintReturns PROVE FmtInv'
    <3>1. /\ phase = "running" /\ phase' = "returned" /\ str' = Append(str, Nul)
          /\ printing' = printing /\ (fmt_pos > Len(f) \/ Room = 0)
      BY <2>11 DEF PrintReturns
    <3>2. CallOfPrintf /\ Reached
      BY <3>1 DEF FmtInv
    <3>3. /\ f \in Formats /\ given \in Arguments(f) /\ printing.size \in Nat /\ printing.size > 0
          /\ fmt_pos \in 1 .. Len(f) + 1 /\ str = Clip(E[fmt_pos - 1].text, room)
      BY <3>2 DEF CallOfPrintf, Reached, SoFar
    <3>4. f \in Seq(Letters) /\ Len(f) \in Nat
      BY <3>3, FormatAssumption, LenProperties
    <3>5. room \in Nat
      BY <3>3
    <3>6. str = Clip(Expansion(f, given), room)
      <4>1. CASE fmt_pos > Len(f)
        <5>1. fmt_pos - 1 = Len(f)
          BY <3>3, <3>4, <4>1
        <5>2. E[fmt_pos - 1].text = Expansion(f, given)
          BY <5>1 DEF Expansion
        <5> QED BY <3>3, <5>2
      <4>2. CASE Room = 0
        <5>1. fmt_pos - 1 \in 0 .. Len(f)
          BY <3>3, <3>4
        <5>2. E[fmt_pos - 1] \in Expanded
          BY <3>3, <3>4, <5>1, ExpandingIs
        <5>3. E[fmt_pos - 1].text \in Seq(Letter)
          BY <5>2 DEF Expanded
        <5>4. Len(str) \in Nat
          <6>1. str \in Seq(Letter)
            BY <3>3, <3>5, <5>3, ClipIs
          <6> QED BY <6>1, LenProperties
        <5>5. Len(str) = room
          BY <3>3, <4>2, <5>4 DEF Room
        <5>6. Len(Clip(Expanding(f, given)[fmt_pos - 1].text, room)) = room
          BY <3>3, <5>5
        <5> HIDE DEF f, given, room
        <5> QED BY <3>3, <3>4, <3>5, <5>1, <5>6, FullStaysFull DEF E
      <4> QED BY <3>1, <4>1, <4>2
    <3>7. str' = Append(Clip(Expansion(f, given), room), Nul)
      BY <3>1, <3>6
    <3>8. CallOfPrintf'
      BY <3>1, <3>2 DEF CallOfPrintf
    <3>9. TextWritten'
      BY <3>1, <3>3, <3>7 DEF TextWritten
    <3> QED BY <3>1, <3>8, <3>9 DEF FmtInv
  <2>12. ASSUME NEW word \in Words, NEW base \in {10, 16}, CallItoa(word.d, base) PROVE FmtInv'
    <3>1. /\ printing'.fn = "itoa" /\ printing'.base = base /\ printing'.value = word.d
          /\ str' = Append(Itoa(word.d, base), Nul) /\ phase' = "returned"
      BY <2>12 DEF CallItoa
    <3>2. word.d \in -IntHalf .. IntHalf - 1
      BY FormatAssumption
    <3>3. NumberWritten'
      BY <3>1, <3>2 DEF NumberWritten
    <3> QED BY <3>1, <3>3 DEF FmtInv
  <2>13. ASSUME TextUsed PROVE FmtInv'
    BY <2>13 DEF TextUsed, FmtInv
  <2>14. ASSUME UNCHANGED fmtVars PROVE FmtInv'
    BY <2>14 DEF fmtVars, FmtInv, CallOfPrintf, Reached, SoFar, TextWritten, NumberWritten
  <2> QED BY <2>1, <2>5, <2>7, <2>8, <2>9, <2>10, <2>11, <2>12, <2>13, <2>14 DEF FmtNext
<1> QED BY <1>1, <1>2, PTL DEF FmtSpec

(* A call of sprintf or snprintf that returns has written its format with  *)
(* its arguments in place, cut to the room with the terminator inside it;  *)
(* itoa the numeral of a value that is not negative; and atoi reads back   *)
(* what %d and itoa print but for the least int: for every width of an     *)
(* int, every format and every argument.                                   *)
THEOREM TextIsExpansionAlways == FmtSpec => []TextIsExpansion
<1>1. FmtInv => TextIsExpansion
  <2> SUFFICES ASSUME FmtInv, phase = "returned" PROVE TextIsExpansion
    BY DEF TextIsExpansion
  <2>0. IntHalf \in Nat \ {0}
    BY FormatAssumption
  <2>1. CASE CallOfPrintf /\ TextWritten /\ printing.size = 0
    BY <2>1 DEF CallOfPrintf, TextWritten, TextIsExpansion
  <2>2. CASE CallOfPrintf /\ TextWritten /\ printing.size # 0
    <3> DEFINE f == printing.format
               given == printing.args
               room == printing.size - 1
               text == Expansion(f, given)
               n == given[1].d
    <3>1. /\ printing.fn = "printf" /\ printing.size > 0 /\ room \in Nat
          /\ f \in Formats /\ given \in Arguments(f) /\ str = Append(Clip(text, room), Nul)
      BY <2>2 DEF CallOfPrintf, TextWritten
    <3>2. f \in Seq(Letters) /\ Len(f) \in Nat
      BY <3>1, FormatAssumption, LenProperties
    <3>3. ASSUME f = <<"%", "d">>, room >= Len(text)
          PROVE  Atoi(str) = IF n = -IntHalf THEN 0 ELSE n
      <4> DEFINE E == Expanding(f, given)
      <4>1. Len(f) = 2 /\ f[1] = "%" /\ f[2] = "d"
        BY <3>3
      <4>2. E[0] = NoText
        BY <3>1, <3>2, ExpandingIs DEF Rounds
      <4>3. ~ E[1 - 1].percent /\ E[1 - 1].args = 0 /\ E[1 - 1].text = <<>>
        <5>1. 1 - 1 = 0
          OBVIOUS
        <5> HIDE DEF E
        <5> QED BY <4>2, <5>1 DEF NoText
      <4>4. E[2] = With(E[1 - 1], Numeral(given[E[1 - 1].args + 1].d, 10), 1)
        <5>1. 1 \in 1 .. Len(f) /\ 1 < Len(f) /\ 1 + 1 = 2
          BY <4>1
        <5>2. ~ Expanding(f, given)[1 - 1].percent
          BY <4>3
        <5>3. f[1] = "%" /\ 1 < Len(f) /\ f[1 + 1] = "d" =>
                Expanding(f, given)[1 + 1]
                   = With(Expanding(f, given)[1 - 1],
                          Numeral(given[Expanding(f, given)[1 - 1].args + 1].d, 10), 1)
          <6> HIDE DEF f, given
          <6> QED BY <3>1, <5>1, <5>2, NextPiece
        <5> HIDE DEF f, given
        <5> QED BY <4>1, <5>1, <5>3
      <4>5. n \in -IntHalf .. IntHalf - 1 /\ Numeral(n, 10) \in Seq(Letter)
        <5>1. 0 \in Nat /\ 2 * (0 + 1) <= Len(f) /\ 0 + 1 = 1
          BY <4>1
        <5>2. given[0 + 1].d \in -IntHalf .. IntHalf - 1 /\ Numeral(given[0 + 1].d, 10) \in Seq(Letter)
          <6> HIDE DEF f, given
          <6> QED BY <3>1, <3>2, <5>1, ArgumentIsThere
        <5> QED BY <5>1, <5>2
      <4>6. text = Numeral(n, 10)
        <5>1. 0 + 1 = 1
          OBVIOUS
        <5>2. E[2].text = <<>> \o Numeral(n, 10)
          <6> HIDE DEF E
          <6> QED BY <4>3, <4>4, <5>1 DEF With
        <5>3. <<>> \o Numeral(n, 10) = Numeral(n, 10)
          BY <4>5, ConcatEmptySeq
        <5>4. text = E[2].text
          BY <4>1 DEF Expansion
        <5> QED BY <5>2, <5>3, <5>4
      <4> HIDE DEF n, text
      <4>7. Clip(text, room) = text
        <5>1. text \in Seq(Letter)
          BY <4>5, <4>6
        <5>2. Len(text) \in Nat
          BY <5>1, LenProperties
        <5>3. Clip(text, room) = SubSeq(text, 1, Len(text))
          <6>1. (IF Len(text) < room THEN Len(text) ELSE room) = Len(text)
            BY <3>1, <3>3, <5>2
          <6> QED BY <6>1 DEF Clip
        <5> QED BY <5>1, <5>3, SubSeqFull
      <4>8. str = Append(Numeral(n, 10), Nul)
        BY <3>1, <4>6, <4>7
      <4> QED BY <4>5, <4>8, AtoiReadsBack
    <3>4. /\ str = Append(Clip(Expansion(printing.format, printing.args), printing.size - 1), Nul)
          /\ printing.format = <<"%", "d">> /\ printing.size - 1 >= Len(Expansion(printing.format, printing.args)) =>
               Atoi(str) = IF printing.args[1].d = -IntHalf THEN 0 ELSE printing.args[1].d
      BY <3>1, <3>3
    <3>5. printing.fn = "printf" /\ printing.size > 0 /\ printing.size # 0 /\ printing.fn # "itoa"
      BY <3>1
    <3> HIDE DEF f, given, room, text, n
    <3> QED BY <3>4, <3>5 DEF TextIsExpansion
  <2>3. CASE NumberWritten
    <3> DEFINE value == printing.value
               base == printing.base
    <3>1. /\ printing.fn = "itoa" /\ base \in {10, 16} /\ value \in -IntHalf .. IntHalf - 1
          /\ str = Append(Itoa(value, base), Nul)
      BY <2>3 DEF NumberWritten
    <3>2. ASSUME value >= 0
          PROVE  /\ str = Append(Numeral(value, base), Nul)
                 /\ base = 10 => Atoi(str) = value
      <4>1. value \in 0 .. IntHalf - 1 /\ base \in 2 .. 16 /\ value # -IntHalf
        BY <2>0, <3>1, <3>2
      <4>2. Itoa(value, base) = Numeral(value, base)
        BY <4>1, ItoaIs
      <4>3. str = Append(Numeral(value, base), Nul)
        BY <3>1, <4>2
      <4>4. Atoi(Append(Numeral(value, 10), Nul)) = value
        BY <3>1, <4>1, AtoiReadsBack
      <4> QED BY <4>3, <4>4
    <3>3. printing.fn # "printf"
      BY <3>1
    <3> HIDE DEF value, base
    <3>4. printing.value >= 0 =>
            /\ str = Append(Numeral(printing.value, printing.base), Nul)
            /\ printing.base = 10 => Atoi(str) = printing.value
      BY <3>2 DEF value, base
    <3> QED BY <3>3, <3>4 DEF TextIsExpansion
  <2> QED BY <2>1, <2>2, <2>3 DEF FmtInv
<1> QED BY <1>1, FmtInvAlways, PTL
=============================================================================
