----------------------------- MODULE HeapClients -----------------------------
(***************************************************************************)
(* The two clients of the kernel heap, init_paging and the window manager, *)
(* sharing one allocator.  The kernel has one thread: a call of the heap,  *)
(* and init_paging as a whole, is over before the other client runs.       *)
(***************************************************************************)
EXTENDS WindowManager, Paging

clientVars == <<granted, pending, windowVars, pagingVars>>

ClientInit == Init /\ WmInit /\ PagingInit

PagingAtRest == paging \in {"off", "enabled", "failed"}

(* What the heap does after entries were written over its headers is not   *)
(* defined: nothing is said of it.                                         *)
ClientNext ==
  \/ PagingAtRest /\ ~overrun /\ WmNext /\ UNCHANGED pagingVars
  \/ ~creating /\ PagingNext /\ UNCHANGED windowVars

ClientSpec == ClientInit /\ [][ClientNext]_clientVars
-----------------------------------------------------------------------------
TypeOK == WmTypeOK /\ PagingTypeOK

(* The windows in use draw from buffers the heap has granted to them and   *)
(* to nobody else, whatever was refused: the tables keep their bounds, a   *)
(* refused window is not counted, and a drawing reads no further than the  *)
(* buffer that was asked for.                                              *)
BuffersAreBacked == TypeOK /\ WindowsHaveBuffers /\ DrawStaysInBuffer

(* Every region the heap grants has an owner that can name it, so nothing  *)
(* is lost to both: a window in use, a page table, or the directory of an  *)
(* init_paging that has not failed.                                        *)
EveryRegionHasAnOwner ==
  DOMAIN granted =
    {buffer[i] : i \in Windows} \cup {page_tables[i] : i \in 0 .. table - 1}
      \cup (IF paging \in {"next", "table", "free", "enabled"} THEN {page_directory} ELSE {})
=============================================================================
