-------------------------------- MODULE Boot --------------------------------
(***************************************************************************)
(* From the firmware to the main loop: the three loaders of boot/, a       *)
(* multiboot loader and one that is none (both external), the two entries  *)
(* that can be linked into the kernel, and the check kernel_main makes.    *)
(* The firmware may answer every call with a failure.  Control is lost     *)
(* where it goes to bytes that are not the code meant to run there.        *)
(***************************************************************************)
EXTENDS Integers, Sequences

CONSTANTS
  Stage2Sectors,   \* STAGE2_SECTORS of bootloader_stage1.asm
  KernelSectors,   \* KERNEL_SECTORS of bootloader.asm
  MaxRetries,      \* MAX_RETRIES of bootloader_stage1.asm
  Paths            \* the length of kernel_paths in efi_boot.c

ASSUME BootAssumption ==
  /\ Stage2Sectors \in Nat \ {0} /\ KernelSectors \in Nat \ {0}
  /\ MaxRetries \in Nat \ {0} /\ Paths \in Nat \ {0}

VARIABLES
  loader,       \* who loads: one of Loaders
  entry,        \* the file whose _start is linked
  pc,           \* the call of the firmware or the routine that comes next
  retry_count,
  got,          \* sectors the last read has put in memory
  path,         \* efi_main's index into kernel_paths
  refused,      \* history: the calls whose last answer was a failure
  eax, ebx,     \* the registers at _start
  args          \* what kernel_main finds on the stack

vars == <<loader, entry, pc, retry_count, got, path, refused, eax, ebx, args>>
hardware == <<eax, ebx, args>>

Loaders == {"stage1", "bootloader", "efi", "multiboot", "other"}
FirstStep ==
  [stage1 |-> "reset", bootloader |-> "load", efi |-> "image",
   multiboot |-> "start", other |-> "start"]

Init ==
  /\ loader \in Loaders /\ entry \in {"entry.asm", "boot.asm"}
  /\ pc = FirstStep[loader]
  /\ retry_count = MaxRetries /\ got = 0 /\ path = 0
  /\ refused = {}
  /\ eax = (IF loader = "multiboot" THEN "magic" ELSE "other")
  /\ ebx = (IF loader = "multiboot" THEN "info" ELSE "other")
  /\ args = <<>>

Accept(call) == pc = call /\ refused' = refused \ {call}
Refuse(call) == pc = call /\ refused' = refused \cup {call}
GoTo(step) == pc' = step /\ UNCHANGED <<loader, entry>>
Stop == GoTo("stopped")

-----------------------------------------------------------------------------
(* bootloader_stage1.asm                                                   *)

ResetDisk ==
  /\ \/ Accept("reset") /\ GoTo("params") /\ UNCHANGED retry_count
     \/ /\ Refuse("reset")
        /\ retry_count' = retry_count - 1
        /\ GoTo(IF retry_count' = 0 THEN "stopped" ELSE "reset")
  /\ UNCHANGED <<got, path, hardware>>

(* The geometry that is stored is not used by this stage.                  *)
CheckDiskStatus ==
  /\ \/ Accept("params") /\ GoTo("read2")
     \/ Refuse("params") /\ Stop
  /\ UNCHANGED <<retry_count, got, path, hardware>>

ReadIsEnough(n) == n = Stage2Sectors

(* Bug: a read that fails is tried again after a reset, without counting.  *)
AfterReadFailureAgain == "reset"

AfterReadFailure == "stopped"

LoadStage2 ==
  /\ \/ /\ Accept("read2") /\ got' \in 0 .. Stage2Sectors
        /\ GoTo(IF ReadIsEnough(got') THEN "jump" ELSE "stopped")
     \/ Refuse("read2") /\ GoTo(AfterReadFailure) /\ UNCHANGED got
  /\ UNCHANGED <<retry_count, path, hardware>>

-----------------------------------------------------------------------------
(* bootloader.asm: the carry flag is looked at, the count is not.          *)
LoadKernel ==
  /\ \/ Accept("load") /\ got' \in 0 .. KernelSectors /\ GoTo("jump")
     \/ Refuse("load") /\ Stop /\ UNCHANGED got
  /\ UNCHANGED <<retry_count, path, hardware>>

-----------------------------------------------------------------------------
(* efi_boot.c: to stop is to return to the firmware with its error.        *)

Protocols ==
  /\ \E step \in {<<"image", "filesystem">>, <<"filesystem", "volume">>, <<"volume", "open">>} :
       \/ Accept(step[1]) /\ GoTo(step[2])
       \/ Refuse(step[1]) /\ Stop
  /\ UNCHANGED <<retry_count, got, path, hardware>>

(* Bug: the loop ends and its last status is not looked at.                *)
AfterPathsAnyway == "size"

AfterPaths == "stopped"

PathsTried(n) == n = Paths

(* The paths are tried in turn until one can be opened.                    *)
OpenKernel ==
  /\ \/ Accept("open") /\ GoTo("size") /\ UNCHANGED path
     \/ /\ Refuse("open") /\ path' = path + 1
        /\ GoTo(IF PathsTried(path') THEN AfterPaths ELSE "open")
  /\ UNCHANGED <<retry_count, got, hardware>>

(* GetInfo with no buffer answers that it is too small, or an error.       *)
AskSize ==
  /\ \/ Accept("size") /\ GoTo("pool")
     \/ Refuse("size") /\ Stop
  /\ UNCHANGED <<retry_count, got, path, hardware>>

(* AllocatePool: its answer is not looked at.                              *)
AllocatePool ==
  /\ (Accept("pool") \/ Refuse("pool")) /\ GoTo("info")
  /\ UNCHANGED <<retry_count, got, path, hardware>>

(* GetInfo into the pool.  With no pool it fails, or writes to address 0.  *)
GetInfo ==
  /\ \/ Accept("info") /\ GoTo(IF "pool" \in refused THEN "lost" ELSE "pages")
     \/ Refuse("info") /\ Stop
  /\ UNCHANGED <<retry_count, got, path, hardware>>

(* AllocatePages, Read, ExitBootServices: the latter is given a map key    *)
(* nobody asked the firmware for, and may still be lucky.                  *)
Services ==
  /\ \E step \in {<<"pages", "read">>, <<"read", "exit">>, <<"exit", "jump">>} :
       \/ Accept(step[1]) /\ GoTo(step[2])
       \/ Refuse(step[1]) /\ Stop
  /\ UNCHANGED <<retry_count, got, path, hardware>>

-----------------------------------------------------------------------------
(* None of the three goes to an entry.  Stage 1 jumps to the first byte of *)
(* stage 2, which is its GDT; the other two to the first byte of           *)
(* kernel.bin, which is the header of an ELF file.                         *)
Jump ==
  /\ pc = "jump" /\ GoTo("lost")
  /\ UNCHANGED <<retry_count, got, path, refused, hardware>>

(* kernel/entry.asm pushes the info pointer, and nothing above it.         *)
EntryAsm ==
  /\ pc = "start" /\ entry = "entry.asm"
  /\ IF eax = "magic" THEN GoTo("main") /\ args' = <<ebx, "other">>
                      ELSE Stop /\ UNCHANGED args
  /\ UNCHANGED <<retry_count, got, path, refused, eax, ebx>>

(* boot/boot.asm checks nothing and passes both.                           *)
BootAsm ==
  /\ pc = "start" /\ entry = "boot.asm"
  /\ GoTo("init") /\ args' = <<eax, ebx>>
  /\ UNCHANGED <<retry_count, got, path, refused, eax, ebx>>

(* kernel_init: cpu_enable_features writes to CR4 the bits of CPUID, some  *)
(* of which a processor refuses.                                           *)
KernelInit ==
  /\ pc = "init" /\ (GoTo("main") \/ GoTo("lost"))
  /\ UNCHANGED <<retry_count, got, path, refused, hardware>>

(* Bug: any number will do.                                                *)
MagicIsRightAny == args # <<>>

MagicIsRight == args[1] = "magic"

KernelMain ==
  /\ pc = "main" /\ GoTo(IF MagicIsRight THEN "shell" ELSE "stopped")
  /\ UNCHANGED <<retry_count, got, path, refused, hardware>>

Next ==
  \/ ResetDisk \/ CheckDiskStatus \/ LoadStage2 \/ LoadKernel
  \/ Protocols \/ OpenKernel \/ AskSize \/ AllocatePool \/ GetInfo \/ Services
  \/ Jump \/ EntryAsm \/ BootAsm \/ KernelInit \/ KernelMain

(* The processor runs and the firmware answers.                            *)
Spec == Init /\ [][Next]_vars /\ WF_vars(Next)
-----------------------------------------------------------------------------
Calls ==
  {"reset", "params", "read2", "load", "image", "filesystem", "volume", "open",
   "size", "pool", "info", "pages", "read", "exit"}
Ends == {"shell", "stopped", "lost"}

TypeOK ==
  /\ loader \in Loaders /\ entry \in {"entry.asm", "boot.asm"}
  /\ pc \in Calls \cup Ends \cup {"jump", "start", "init", "main"}
  /\ retry_count \in 0 .. MaxRetries
  /\ got \in 0 .. Stage2Sectors \cup 0 .. KernelSectors
  /\ path \in 0 .. Paths
  /\ refused \subseteq Calls
  /\ eax \in {"magic", "other"} /\ ebx \in {"info", "other"}
  /\ args = <<>> \/ args \in {"magic", "info", "other"} \X {"info", "other"}

(* A loader gives control away only when no call it depends on was left    *)
(* refused: failures are retried (the reset, the paths), or end the boot,  *)
(* also the one of AllocatePool that no line looks at.  What stage 1 jumps *)
(* into is all there, also when the firmware stops short without an error. *)
FailuresAreHeeded ==
  pc = "jump" => refused = {} /\ (loader = "stage1" => got = Stage2Sectors)

(* What the loaders keep while they retry and give up: their counters stay *)
(* in bounds, and no failure is carried over into the kernel.              *)
HandoversAreSound == TypeOK /\ FailuresAreHeeded

(* The main loop is reached only from a multiboot loader, whichever entry  *)
(* is linked: what one of the two checks fails to see, the other one does. *)
ShellMeansMultiboot == pc = "shell" => loader = "multiboot"

(* However often the firmware fails, the boot comes to an end.             *)
BootEnds == <>(pc \in Ends)

(* "Check if we were loaded by a multiboot-compliant bootloader"           *)
(* (kernel.c:247): from such a loader the kernel does not turn back.       *)
CompliantLoaderAccepted == loader = "multiboot" => pc # "stopped"
=============================================================================
