-------------------------------- MODULE Paging --------------------------------
(***************************************************************************)
(* init_paging of kernel/kernel.c as a client of the kernel heap: a page   *)
(* for the directory, one for each table, and the entries it writes, which *)
(* are uint64_t.  Lengths are in words of four bytes.                      *)
(***************************************************************************)
EXTENDS Allocator

CONSTANTS
  PageWords,    \* PAGE_SIZE
  Tables,       \* 1024: the page tables, and the entries written to one
  EntryWords    \* sizeof(uint64_t)

ASSUME PagingAssumption ==
  PageWords \in Nat \ {0} /\ Tables \in Nat \ {0} /\ EntryWords \in Nat

VARIABLES
  page_directory,  \* a pointer, or NULL
  page_tables,     \* pointers, or NULL
  paging,          \* how far init_paging is
  table,           \* its loop's i
  overrun          \* entries were written past the end of a page

pagingVars == <<page_directory, page_tables, paging, table, overrun>>

NullPage == -1
TableIds == 0 .. Tables - 1

PagingInit ==
  /\ page_directory = NullPage
  /\ page_tables = [i \in TableIds |-> NullPage]
  /\ paging = "off" /\ table = 0 /\ overrun = FALSE

(* Nothing in the tree calls init_paging yet: it is taken to run once.     *)
CallInitPaging ==
  /\ paging = "off" /\ Request(PageWords)
  /\ paging' = "directory"
  /\ UNCHANGED <<page_directory, page_tables, table, overrun>>

DirectoryRefused ==
  /\ paging = "directory" /\ Refuse
  /\ page_directory' = NullPage /\ paging' = "failed"
  /\ UNCHANGED <<page_tables, table, overrun>>

DirectoryGranted ==
  /\ paging = "directory"
  /\ \E p \in 0 .. PoolSize, g \in 0 .. PoolSize : Grant(p, g) /\ page_directory' = p
  /\ paging' = "next"
  /\ UNCHANGED <<page_tables, table, overrun>>

AskForTable ==
  /\ paging = "next" /\ table < Tables /\ Request(PageWords)
  /\ paging' = "table"
  /\ UNCHANGED <<page_directory, page_tables, table, overrun>>

(* Bug: a table the heap refuses is skipped.                               *)
AfterRefusalSkip == "next"

AfterRefusal == "free"

TableRefused ==
  /\ paging = "table" /\ Refuse
  /\ page_tables' = [page_tables EXCEPT ![table] = NullPage]
  /\ paging' = AfterRefusal
  /\ table' = IF AfterRefusal = "next" THEN table + 1 ELSE table
  /\ UNCHANGED <<page_directory, overrun>>

TableGranted ==
  /\ paging = "table"
  /\ \E p \in 0 .. PoolSize, g \in 0 .. PoolSize :
       Grant(p, g) /\ page_tables' = [page_tables EXCEPT ![table] = p]
  /\ paging' = "next" /\ table' = table + 1
  /\ UNCHANGED <<page_directory, overrun>>

(* Bug: the directory is kept when a table is refused.                     *)
FreeNothing == UNCHANGED <<granted, pending>>

FreeDirectory == Release(page_directory)

(* The error path gives the directory back, and none of the tables.        *)
GiveBack ==
  /\ paging = "free" /\ FreeDirectory
  /\ paging' = "failed"
  /\ UNCHANGED <<page_directory, page_tables, table, overrun>>

(* The first table gets its entries, and the directory its first and last. *)
EnablePaging ==
  /\ paging = "next" /\ table = Tables
  /\ overrun' = \E p \in {page_tables[0], page_directory} :
                  p \notin DOMAIN granted \/ Tables * EntryWords > granted[p]
  /\ paging' = "enabled"
  /\ UNCHANGED <<page_directory, page_tables, table, granted, pending>>

PagingNext ==
  \/ CallInitPaging \/ DirectoryRefused \/ DirectoryGranted
  \/ AskForTable \/ TableRefused \/ TableGranted
  \/ GiveBack \/ EnablePaging
-----------------------------------------------------------------------------
PagingTypeOK ==
  /\ page_directory \in (0 .. PoolSize) \cup {NullPage}
  /\ page_tables \in [TableIds -> (0 .. PoolSize) \cup {NullPage}]
  /\ paging \in {"off", "directory", "next", "table", "free", "enabled", "failed"}
  /\ table \in 0 .. Tables
  /\ overrun \in BOOLEAN

(* Paging is enabled only with the directory and every table in place, on  *)
(* pages of their own that the heap still grants.                          *)
EnabledIsBacked ==
  paging = "enabled" =>
    /\ page_directory \in DOMAIN granted
    /\ \A i \in TableIds : page_tables[i] \in DOMAIN granted \ {page_directory}
    /\ \A i, j \in TableIds : page_tables[i] = page_tables[j] => i = j
=============================================================================
