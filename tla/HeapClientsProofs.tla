-------------------------- MODULE HeapClientsProofs --------------------------
(***************************************************************************)
(* The window manager and init_paging share a heap of any size, of which   *)
(* they know only what Allocator promises: no region has two owners, none  *)
(* is without one, and each stays in its own.                              *)
(***************************************************************************)
EXTENDS HeapClients, TLAPS

DirectoryHeld == paging \in {"next", "table", "free", "enabled"}
Counted == 0 .. table - 1

OwnedBy(p) ==
  \/ \E i \in Windows : p = buffer[i]
  \/ \E k \in Counted : p = page_tables[k]
  \/ DirectoryHeld /\ p = page_directory

Owned == \A p : p \in DOMAIN granted <=> OwnedBy(p)

(* No region has two owners: without this a region given back by one of    *)
(* them would be taken from the other.                                     *)
Apart ==
  /\ \A i, j \in Windows : buffer[i] = buffer[j] => i = j
  /\ \A k, l \in Counted : page_tables[k] = page_tables[l] => k = l
  /\ \A i \in Windows, k \in Counted : buffer[i] # page_tables[k]
  /\ DirectoryHeld => /\ \A i \in Windows : buffer[i] # page_directory
                      /\ \A k \in Counted : page_tables[k] # page_directory

(* What a call of the heap that has not returned is for.                   *)
Calling ==
  /\ creating => window_count < MaxWindows /\ pending = {BufferWords(shape[window_count])}
  /\ paging = "table" => table < Tables
  /\ paging = "enabled" => table = Tables

HInv ==
  TypeOK /\ FlagIsIndex /\ Owned /\ Apart /\ DrawStaysInBuffer /\ Calling

-----------------------------------------------------------------------------
(* What the calls of the heap do to the regions granted.                   *)

LEMMA GrantAdds ==
  ASSUME NEW p, NEW g, Grant(p, g)
  PROVE  /\ p \notin DOMAIN granted
         /\ \A q : q \in DOMAIN granted' <=> q \in DOMAIN granted \/ q = p
         /\ \A q \in DOMAIN granted : granted'[q] = granted[q]
         /\ granted'[p] = g
         /\ \E n \in pending : n <= MaxRequest => g >= n
BY DEF Grant

LEMMA ReleaseTakes ==
  ASSUME NEW p, Release(p)
  PROVE  /\ \A q : q \in DOMAIN granted' <=> q \in DOMAIN granted /\ q # p
         /\ \A q \in DOMAIN granted' : granted'[q] = granted[q]
BY DEF Release

LEMMA WindowsHeld ==
  ASSUME Owned PROVE \A i \in Windows : buffer[i] \in DOMAIN granted
BY DEF Owned, OwnedBy

-----------------------------------------------------------------------------
(* The window manager.                                                     *)

LEMMA SetActiveKeeps ==
  ASSUME HInv, NEW id, SetActive(id), UNCHANGED pagingVars
  PROVE  HInv'
<1> USE DEF HInv, pagingVars
<1>1. UNCHANGED <<shape, buffer, window_count, creating, granted, pending>>
  BY DEF SetActive
<1>2. CASE id \in Windows
  <2>1. /\ is_active' = [i \in Slots |-> i = id \/ (is_active[i] /\ i # active_window)]
        /\ active_window' = id
    BY <1>2 DEF SetActive, Activated, ActiveAfter
  <2>2. FlagIsIndex'
    BY <2>1 DEF FlagIsIndex, Slots
  <2>3. is_active' \in [Slots -> BOOLEAN]
    BY <2>1
  <2>4. TypeOK'
    BY <1>1, <1>2, <2>1, <2>3 DEF TypeOK, WmTypeOK, PagingTypeOK, Windows, Slots
  <2>5. Owned' /\ Apart' /\ DrawStaysInBuffer' /\ Calling'
    BY <1>1 DEF Owned, OwnedBy, Apart, DrawStaysInBuffer, Calling, Windows, Counted,
                DirectoryHeld, BufferWords
  <2> QED BY <2>2, <2>4, <2>5
<1>3. CASE id \notin Windows
  <2>1. UNCHANGED <<is_active, active_window>>
    BY <1>3 DEF SetActive, Activated, ActiveAfter
  <2> QED
    BY <1>1, <2>1 DEF TypeOK, WmTypeOK, PagingTypeOK, FlagIsIndex, Owned, OwnedBy, Apart,
              DrawStaysInBuffer, Calling, Windows, Counted, DirectoryHeld, BufferWords
<1> QED BY <1>2, <1>3

(* The slot a window is created in is not in use yet.                      *)
LEMMA WmCreateKeeps ==
  ASSUME HInv, NEW s \in Shapes, WmCreate(s), UNCHANGED pagingVars
  PROVE  HInv'
<1> USE WindowAssumption DEF HInv, pagingVars
<1>1. window_count \in Slots /\ window_count \in Nat
  BY DEF WmCreate, CanCreate, TypeOK, WmTypeOK, Slots
<1>2. /\ shape' = [shape EXCEPT ![window_count] = s]
      /\ is_active' = [is_active EXCEPT ![window_count] = FALSE]
      /\ UNCHANGED <<active_window, window_count, granted>>
  BY DEF WmCreate, Request
<1>3. buffer' = buffer \/ buffer' = [buffer EXCEPT ![window_count] = Null]
  BY DEF WmCreate
<1>4. Windows' = Windows /\ window_count \notin Windows /\ Windows \subseteq Slots
  BY <1>1, <1>2 DEF Windows, Slots, TypeOK, WmTypeOK
<1>5. TypeOK'
  <2>1. buffer' \in [Slots -> (0 .. PoolSize) \cup {Null}]
    BY <1>3 DEF TypeOK, WmTypeOK, Null
  <2>2. creating' \in BOOLEAN
    BY DEF WmCreate, TypeOK, WmTypeOK
  <2>3. shape' \in [Slots -> Shapes \cup {NoShape}] /\ is_active' \in [Slots -> BOOLEAN]
    BY <1>2 DEF TypeOK, WmTypeOK
  <2>4. active_window' \in Windows' \cup {NoWindow} /\ window_count' \in 0 .. MaxWindows
    BY <1>2, <1>4 DEF TypeOK, WmTypeOK
  <2> QED BY <2>1, <2>2, <2>3, <2>4 DEF TypeOK, WmTypeOK, PagingTypeOK
<1>6. FlagIsIndex'
  <2>1. active_window # window_count
    BY <1>1, <1>4 DEF TypeOK, WmTypeOK, NoWindow
  <2> QED BY <1>1, <1>2, <2>1 DEF FlagIsIndex, TypeOK, WmTypeOK
<1>7. \A i \in Windows : buffer'[i] = buffer[i] /\ shape'[i] = shape[i]
  BY <1>2, <1>3, <1>4 DEF TypeOK, WmTypeOK
<1>8. Owned' /\ Apart' /\ DrawStaysInBuffer'
  BY <1>2, <1>4, <1>7 DEF Owned, OwnedBy, Apart, DrawStaysInBuffer, Counted, DirectoryHeld
<1>9. Calling'
  <2>1. creating' => pending' = {BufferWords(s)}
    BY DEF WmCreate, Request
  <2>2. shape'[window_count'] = s /\ window_count' < MaxWindows
    BY <1>1, <1>2 DEF TypeOK, WmTypeOK, WmCreate, CanCreate
  <2> QED BY <2>1, <2>2 DEF Calling, BufferWords
<1> QED BY <1>5, <1>6, <1>8, <1>9

LEMMA WmRefusedKeeps ==
  ASSUME HInv, WmRefused, UNCHANGED pagingVars
  PROVE  HInv'
<1> USE WindowAssumption DEF HInv, pagingVars
<1>1. window_count \in Slots /\ window_count \in Nat
  BY DEF WmRefused, Calling, TypeOK, WmTypeOK, Slots
<1>2. /\ buffer' = [buffer EXCEPT ![window_count] = Null] /\ creating' = FALSE
      /\ UNCHANGED <<shape, is_active, active_window, window_count, granted>>
  BY DEF WmRefused, Refuse, CountAfterRefusal
<1>3. Windows' = Windows /\ window_count \notin Windows /\ Windows \subseteq Slots
  BY <1>1, <1>2 DEF Windows, Slots
<1>4. TypeOK' /\ FlagIsIndex'
  BY <1>2, <1>3 DEF TypeOK, WmTypeOK, PagingTypeOK, FlagIsIndex, Null
<1>5. \A i \in Windows : buffer'[i] = buffer[i]
  BY <1>2, <1>3 DEF TypeOK, WmTypeOK
<1>6. Owned' /\ Apart' /\ DrawStaysInBuffer'
  BY <1>2, <1>3, <1>5 DEF Owned, OwnedBy, Apart, DrawStaysInBuffer, Counted, DirectoryHeld
<1>7. Calling'
  BY <1>2 DEF Calling
<1> QED BY <1>4, <1>6, <1>7

(* The new buffer is nobody else's, and as long as the window's pixels if  *)
(* neither the product nor the rounding has wrapped.                       *)
LEMMA WmCreatedKeeps ==
  ASSUME HInv, WmCreated, UNCHANGED pagingVars
  PROVE  HInv'
<1> USE WindowAssumption DEF HInv, pagingVars
<1> DEFINE new == window_count
<1>1. new \in Slots /\ new \in Nat /\ pending = {BufferWords(shape[new])}
  BY DEF WmCreated, Calling, TypeOK, WmTypeOK, Slots
<1>2. PICK p \in 0 .. PoolSize, g \in 0 .. PoolSize :
        Grant(p, g) /\ buffer' = [buffer EXCEPT ![new] = p]
  BY DEF WmCreated
<1>3. /\ Windows' = Windows \cup {new} /\ new \notin Windows /\ Windows' \subseteq Slots
      /\ window_count' \in 0 .. MaxWindows
  BY <1>1 DEF WmCreated, Windows, Slots
<1>4. UNCHANGED <<shape, is_active, active_window>> /\ creating' = FALSE
  BY <1>3 DEF WmCreated, Activated, ActiveAfter
<1>5. TypeOK' /\ FlagIsIndex'
  <2>1. buffer' \in [Slots -> (0 .. PoolSize) \cup {Null}]
    BY <1>2 DEF TypeOK, WmTypeOK
  <2> QED
    BY <1>3, <1>4, <2>1 DEF TypeOK, WmTypeOK, PagingTypeOK, FlagIsIndex
<1>6. /\ \A i \in Windows : buffer'[i] = buffer[i]
      /\ buffer'[new] = p
  BY <1>1, <1>2, <1>3 DEF TypeOK, WmTypeOK
<1>7. /\ p \notin DOMAIN granted
      /\ \A q : q \in DOMAIN granted' <=> q \in DOMAIN granted \/ q = p
      /\ \A q \in DOMAIN granted : granted'[q] = granted[q]
      /\ granted'[p] = g
      /\ \E n \in pending : n <= MaxRequest => g >= n
  BY <1>2, GrantAdds
<1>8. Owned'
  BY <1>3, <1>6, <1>7 DEF Owned, OwnedBy, Counted, DirectoryHeld
<1>9. Apart'
  BY <1>3, <1>6, <1>7 DEF Owned, OwnedBy, Apart, Counted, DirectoryHeld
<1>10. DrawStaysInBuffer'
  <2>1. ASSUME shape[new].area < WordMod, shape[new].area <= MaxRequest
        PROVE  shape[new].area <= granted'[p]
    <3>1. shape[new].area \in Nat
      BY <1>1 DEF TypeOK, WmTypeOK, NoShape
    <3>2. BufferWords(shape[new]) = shape[new].area
      BY <2>1, <3>1 DEF BufferWords
    <3> QED BY <1>1, <1>2, <1>7, <2>1, <3>1, <3>2
  <2>2. \A i \in Windows : granted'[buffer'[i]] = granted[buffer[i]]
    BY <1>6, <1>7, WindowsHeld
  <2> QED BY <1>3, <1>4, <1>6, <2>1, <2>2 DEF DrawStaysInBuffer
<1>11. Calling'
  BY <1>4 DEF Calling
<1> QED BY <1>5, <1>8, <1>9, <1>10, <1>11

LEMMA WmKeeps == ASSUME HInv, WmNext, UNCHANGED pagingVars PROVE HInv'
<1>1. CASE \E s \in Shapes : WmCreate(s)
  BY <1>1, WmCreateKeeps
<1>2. CASE \E s \in Shapes : \E point \in s.bar : WmHandleMouse(point)
  <2>1. PICK id : SetActive(id)
    BY <1>2 DEF WmHandleMouse
  <2> QED BY <2>1, SetActiveKeeps
<1>3. CASE \E id \in Slots : SetActive(id)
  BY <1>3, SetActiveKeeps
<1>4. CASE WmRefused \/ WmCreated
  BY <1>4, WmRefusedKeeps, WmCreatedKeeps
<1> QED BY <1>1, <1>2, <1>3, <1>4 DEF WmNext

-----------------------------------------------------------------------------
(* init_paging.                                                            *)

(* What the window manager has does not change while it runs, but for the  *)
(* regions granted, of which it keeps its own.                             *)
LEMMA WindowsRest ==
  ASSUME HInv, UNCHANGED windowVars, ~creating,
         \A i \in Windows : granted'[buffer[i]] = granted[buffer[i]]
  PROVE  /\ WmTypeOK' /\ FlagIsIndex' /\ DrawStaysInBuffer'
         /\ Windows' = Windows /\ buffer' = buffer /\ creating' = FALSE
<1>1. creating' = FALSE
  BY DEF HInv, TypeOK, WmTypeOK, windowVars
<1> QED
  BY <1>1 DEF HInv, TypeOK, WmTypeOK, FlagIsIndex, DrawStaysInBuffer, Windows, windowVars

(* The steps that only ask, are refused, or write entries.                 *)
LEMMA PagingAsks ==
  ASSUME HInv, ~creating, UNCHANGED windowVars,
         CallInitPaging \/ DirectoryRefused \/ AskForTable \/ EnablePaging
  PROVE  HInv'
<1> USE PagingAssumption DEF HInv
<1>1. UNCHANGED <<granted, page_tables, table>> /\ PagingTypeOK'
  BY DEF CallInitPaging, DirectoryRefused, AskForTable, EnablePaging, Request, Refuse, TypeOK,
         PagingTypeOK, NullPage
<1>2. /\ DirectoryHeld' <=> DirectoryHeld
      /\ DirectoryHeld => page_directory' = page_directory
  BY DEF CallInitPaging, DirectoryRefused, AskForTable, EnablePaging, DirectoryHeld
<1>3. /\ paging' = "table" => table < Tables
      /\ paging' = "enabled" => table = Tables
  BY DEF CallInitPaging, DirectoryRefused, AskForTable, EnablePaging
<1>4. /\ WmTypeOK' /\ FlagIsIndex' /\ DrawStaysInBuffer'
      /\ Windows' = Windows /\ buffer' = buffer /\ creating' = FALSE
  BY <1>1, WindowsRest
<1>5. Owned' /\ Apart'
  BY <1>1, <1>2, <1>4 DEF Owned, OwnedBy, Apart, Counted
<1>6. Calling'
  BY <1>1, <1>3, <1>4 DEF Calling
<1> QED BY <1>1, <1>4, <1>5, <1>6 DEF TypeOK

LEMMA DirectoryGrantedKeeps ==
  ASSUME HInv, ~creating, UNCHANGED windowVars, DirectoryGranted PROVE HInv'
<1> USE PagingAssumption DEF HInv
<1>1. PICK p \in 0 .. PoolSize, g \in 0 .. PoolSize : Grant(p, g) /\ page_directory' = p
  BY DEF DirectoryGranted
<1>2. /\ p \notin DOMAIN granted
      /\ \A q : q \in DOMAIN granted' <=> q \in DOMAIN granted \/ q = p
      /\ \A q \in DOMAIN granted : granted'[q] = granted[q]
  BY <1>1, GrantAdds
<1>3. /\ ~DirectoryHeld /\ DirectoryHeld' /\ paging' = "next"
      /\ UNCHANGED <<page_tables, table, overrun>>
  BY DEF DirectoryGranted, DirectoryHeld
<1>4. PagingTypeOK'
  BY <1>1, <1>3 DEF TypeOK, PagingTypeOK
<1>5. /\ WmTypeOK' /\ FlagIsIndex' /\ DrawStaysInBuffer'
      /\ Windows' = Windows /\ buffer' = buffer /\ creating' = FALSE
  BY <1>2, WindowsHeld, WindowsRest
<1>6. Owned' /\ Apart'
  BY <1>1, <1>2, <1>3, <1>5 DEF Owned, OwnedBy, Apart, Counted
<1>7. Calling'
  BY <1>3, <1>5 DEF Calling
<1> QED BY <1>4, <1>5, <1>6, <1>7 DEF TypeOK

LEMMA TableRefusedKeeps ==
  ASSUME HInv, ~creating, UNCHANGED windowVars, TableRefused PROVE HInv'
<1> USE PagingAssumption DEF HInv
<1>1. /\ page_tables' = [page_tables EXCEPT ![table] = NullPage]
      /\ paging = "table" /\ paging' = "free" /\ table' = table
      /\ UNCHANGED <<page_directory, overrun, granted>>
  BY DEF TableRefused, AfterRefusal, Refuse
<1>2. table \in TableIds /\ Counted' = Counted /\ table \notin Counted /\ Counted \subseteq TableIds
  BY <1>1 DEF Calling, TypeOK, PagingTypeOK, TableIds, Counted
<1>3. PagingTypeOK'
  BY <1>1, <1>2 DEF TypeOK, PagingTypeOK, NullPage
<1>4. \A k \in Counted : page_tables'[k] = page_tables[k]
  BY <1>1, <1>2 DEF TypeOK, PagingTypeOK
<1>5. /\ WmTypeOK' /\ FlagIsIndex' /\ DrawStaysInBuffer'
      /\ Windows' = Windows /\ buffer' = buffer /\ creating' = FALSE
  BY <1>1, WindowsRest
<1>6. Owned' /\ Apart'
  BY <1>1, <1>2, <1>4, <1>5 DEF Owned, OwnedBy, Apart, DirectoryHeld
<1>7. Calling'
  BY <1>1, <1>5 DEF Calling
<1> QED BY <1>3, <1>5, <1>6, <1>7 DEF TypeOK

LEMMA TableGrantedKeeps ==
  ASSUME HInv, ~creating, UNCHANGED windowVars, TableGranted PROVE HInv'
<1> USE PagingAssumption DEF HInv
<1>1. PICK p \in 0 .. PoolSize, g \in 0 .. PoolSize :
        Grant(p, g) /\ page_tables' = [page_tables EXCEPT ![table] = p]
  BY DEF TableGranted
<1>2. /\ p \notin DOMAIN granted
      /\ \A q : q \in DOMAIN granted' <=> q \in DOMAIN granted \/ q = p
      /\ \A q \in DOMAIN granted : granted'[q] = granted[q]
  BY <1>1, GrantAdds
<1>3. /\ paging = "table" /\ paging' = "next" /\ table' = table + 1
      /\ UNCHANGED <<page_directory, overrun>>
  BY DEF TableGranted
<1>4. /\ table \in TableIds /\ Counted' = Counted \cup {table} /\ table \notin Counted
      /\ Counted' \subseteq TableIds /\ table' \in 0 .. Tables
  BY <1>3 DEF Calling, TypeOK, PagingTypeOK, TableIds, Counted
<1>5. PagingTypeOK'
  <2>1. page_tables' \in [TableIds -> (0 .. PoolSize) \cup {NullPage}]
    BY <1>1 DEF TypeOK, PagingTypeOK
  <2> QED BY <1>3, <1>4, <2>1 DEF TypeOK, PagingTypeOK
<1>6. (\A k \in Counted : page_tables'[k] = page_tables[k]) /\ page_tables'[table] = p
  BY <1>1, <1>4 DEF TypeOK, PagingTypeOK
<1>7. /\ WmTypeOK' /\ FlagIsIndex' /\ DrawStaysInBuffer'
      /\ Windows' = Windows /\ buffer' = buffer /\ creating' = FALSE
  BY <1>2, WindowsHeld, WindowsRest
<1>8. Owned'
  BY <1>2, <1>3, <1>4, <1>6, <1>7 DEF Owned, OwnedBy, DirectoryHeld
<1>9. Apart'
  BY <1>2, <1>3, <1>4, <1>6, <1>7 DEF Owned, OwnedBy, Apart, DirectoryHeld
<1>10. Calling'
  BY <1>3, <1>7 DEF Calling
<1> QED BY <1>5, <1>7, <1>8, <1>9, <1>10 DEF TypeOK

(* The directory is nobody else's, so that giving it back takes nothing    *)
(* from the windows and the tables.                                        *)
LEMMA GiveBackKeeps ==
  ASSUME HInv, ~creating, UNCHANGED windowVars, GiveBack PROVE HInv'
<1> USE PagingAssumption DEF HInv
<1>1. /\ paging = "free" /\ paging' = "failed" /\ Release(page_directory)
      /\ UNCHANGED <<page_directory, page_tables, table, overrun>>
  BY DEF GiveBack, FreeDirectory
<1>2. /\ \A q : q \in DOMAIN granted' <=> q \in DOMAIN granted /\ q # page_directory
      /\ \A q \in DOMAIN granted' : granted'[q] = granted[q]
  BY <1>1, ReleaseTakes
<1>3. DirectoryHeld /\ ~DirectoryHeld' /\ PagingTypeOK'
  BY <1>1 DEF DirectoryHeld, TypeOK, PagingTypeOK
<1>4. \A i \in Windows : granted'[buffer[i]] = granted[buffer[i]]
  BY <1>2, <1>3, WindowsHeld DEF Apart
<1>5. /\ WmTypeOK' /\ FlagIsIndex' /\ DrawStaysInBuffer'
      /\ Windows' = Windows /\ buffer' = buffer /\ creating' = FALSE
  BY <1>4, WindowsRest
<1>6. Owned'
  BY <1>1, <1>2, <1>3, <1>5 DEF Owned, OwnedBy, Apart, Counted
<1>7. Apart' /\ Calling'
  BY <1>1, <1>3, <1>5 DEF Apart, Calling, Counted
<1> QED BY <1>3, <1>5, <1>6, <1>7 DEF TypeOK

-----------------------------------------------------------------------------
LEMMA ClientsStart == ClientInit => HInv
<1> SUFFICES ASSUME ClientInit PROVE HInv
  OBVIOUS
<1> USE WindowAssumption, PagingAssumption DEF ClientInit, Init, WmInit, PagingInit
<1>1. TypeOK
  <2>1. WmTypeOK
    <3>1. window_count \in 0 .. MaxWindows
      OBVIOUS
    <3>2. /\ shape \in [Slots -> Shapes \cup {NoShape}]
          /\ is_active \in [Slots -> BOOLEAN]
          /\ buffer \in [Slots -> (0 .. PoolSize) \cup {Null}]
      OBVIOUS
    <3>3. active_window \in Windows \cup {NoWindow} /\ creating \in BOOLEAN
      OBVIOUS
    <3> QED BY <3>1, <3>2, <3>3 DEF WmTypeOK
  <2>2. PagingTypeOK
    <3>1. table \in 0 .. Tables
      OBVIOUS
    <3>2. /\ page_directory \in (0 .. PoolSize) \cup {NullPage}
          /\ page_tables \in [TableIds -> (0 .. PoolSize) \cup {NullPage}]
      OBVIOUS
    <3>3. paging = "off" /\ overrun \in BOOLEAN
      OBVIOUS
    <3> QED BY <3>1, <3>2, <3>3 DEF PagingTypeOK
  <2> QED BY <2>1, <2>2 DEF TypeOK
<1>2. Windows = {} /\ Counted = {} /\ ~DirectoryHeld
  BY DEF Windows, Counted, DirectoryHeld
<1>3. FlagIsIndex
  BY DEF FlagIsIndex, Slots, NoWindow
<1>4. Owned /\ Apart /\ DrawStaysInBuffer
  BY <1>2 DEF Owned, OwnedBy, Apart, DrawStaysInBuffer
<1>5. Calling
  BY DEF Calling
<1> QED BY <1>1, <1>3, <1>4, <1>5 DEF HInv

LEMMA HInvAlways == ClientSpec => []HInv
<1>1. HInv /\ [ClientNext]_clientVars => HInv'
  <2> SUFFICES ASSUME HInv, [ClientNext]_clientVars PROVE HInv'
    OBVIOUS
  <2>1. CASE WmNext /\ UNCHANGED pagingVars
    BY <2>1, WmKeeps
  <2>2. CASE ~creating /\ PagingNext /\ UNCHANGED windowVars
    BY <2>2, PagingAsks, DirectoryGrantedKeeps, TableRefusedKeeps, TableGrantedKeeps,
       GiveBackKeeps DEF PagingNext
  <2>3. CASE UNCHANGED clientVars
    <3>1. UNCHANGED <<granted, pending>> /\ UNCHANGED windowVars /\ UNCHANGED pagingVars
      BY <2>3 DEF clientVars
    <3> QED
      BY <3>1 DEF HInv, TypeOK, WmTypeOK, PagingTypeOK, FlagIsIndex, Owned, OwnedBy, Apart,
                  DrawStaysInBuffer, Calling, Windows, Counted, DirectoryHeld, BufferWords,
                  windowVars, pagingVars
  <2> QED BY <2>1, <2>2, <2>3 DEF ClientNext
<1> QED BY <1>1, ClientsStart, PTL DEF ClientSpec

(* The mark and the index of the active window agree, for any number of    *)
(* windows (window_manager.c).                                             *)
THEOREM FlagIsIndexAlways == ClientSpec => []FlagIsIndex
<1>1. HInv => FlagIsIndex
  BY DEF HInv
<1> QED BY <1>1, HInvAlways, PTL

(* Every window in use draws from a buffer of its own, granted and long    *)
(* enough, whatever the heap refuses (window_manager.c:54, 88).            *)
THEOREM BuffersAreBackedAlways == ClientSpec => []BuffersAreBacked
<1>1. HInv => BuffersAreBacked
  BY WindowsHeld DEF HInv, Apart, BuffersAreBacked, WindowsHaveBuffers
<1> QED BY <1>1, HInvAlways, PTL

(* Paging is enabled on a directory and tables the heap has granted        *)
(* (kernel.c:375-402).                                                     *)
THEOREM EnabledIsBackedAlways == ClientSpec => []EnabledIsBacked
<1>1. HInv => EnabledIsBacked
  <2> SUFFICES ASSUME HInv, paging = "enabled" PROVE EnabledIsBacked
    BY DEF EnabledIsBacked
  <2>1. Counted = TableIds /\ DirectoryHeld
    BY DEF HInv, Calling, Counted, TableIds, DirectoryHeld
  <2> QED BY <2>1 DEF HInv, Owned, OwnedBy, Apart, EnabledIsBacked
<1> QED BY <1>1, HInvAlways, PTL

(* Nothing the heap has granted is lost to both of its clients, also after *)
(* refusals half way (kernel.c:385, window_manager.c:55).                  *)
THEOREM EveryRegionHasAnOwnerAlways == ClientSpec => []EveryRegionHasAnOwner
<1>1. HInv => EveryRegionHasAnOwner
  BY DEF HInv, Owned, OwnedBy, Counted, DirectoryHeld, EveryRegionHasAnOwner
<1> QED BY <1>1, HInvAlways, PTL
=============================================================================
