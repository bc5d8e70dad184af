-------------------------------- MODULE ObMap --------------------------------
(***************************************************************************)
(* The hashed, ordered map of src/leechcore/ob/ob_map.c.                   *)
(*                                                                         *)
(* The map record pm holds the fields of struct tdOB_MAP (lines 31-52):   *)
(* the count c (entry 0 is reserved), the two open-addressed hash tables  *)
(* of entry indexes (by key and by value), their size cHashMax and grow   *)
(* threshold, the small/large mode and the paged entry storage.  Every    *)
(* public function takes the map's SRW lock for its whole body (lines     *)
(* 54-70), so each call is one atomic step; the helper functions are pure *)
(* operators from a map record to a map record, composed in the order the *)
(* C code calls them.  LocalAlloc failures are chosen per call from the   *)
(* sites in AllocMayFail.  The index arithmetic, the table sizes and the  *)
(* capacity are the C macros with their constants scaled down.            *)
(***************************************************************************)
EXTENDS Integers, Sequences, FiniteSets, SequencesExt

CONSTANTS
  Keys,                     \* keys callers pass (QWORD)
  Values,                   \* non-NULL value handles callers pass (PVOID)
  NOKEY,                    \* OB_MAP_FLAGS_NOKEY given to ObMap_New
  OWNERSHIP,                \* "NONE", "OB" (OB_MAP_FLAGS_OBJECT_OB) or "LOCALFREE"
  ENTRIES_DIRECTORY,        \* OB_MAP_ENTRIES_DIRECTORY (0x100 in the code)
  ENTRIES_TABLE,            \* OB_MAP_ENTRIES_TABLE (0x200)
  ENTRIES_STORE,            \* OB_MAP_ENTRIES_STORE (0x100)
  HASH_MAX_INIT,            \* cHashMax set by ObMap_New (0x100)
  HASH_GROW_THRESHOLD_INIT, \* cHashGrowThreshold set by ObMap_New (0xc0)
  AllocMayFail              \* LocalAlloc sites that may return NULL in this run

AllocSites == {"grow_hash", "grow_directory", "table", "store", "sort", "copy", "set"}

\* The sites _ObMap_Push allocates at.
PushSites == {"grow_hash", "grow_directory", "table", "store"}

IsPow2(n) == n \in {2^i : i \in 0..7}

ASSUME /\ OWNERSHIP \in {"NONE", "OB", "LOCALFREE"}
       /\ NOKEY \in BOOLEAN
       /\ AllocMayFail \subseteq AllocSites
       /\ \A n \in {ENTRIES_DIRECTORY, ENTRIES_TABLE, ENTRIES_STORE, HASH_MAX_INIT} : IsPow2(n)
       \* small mode keeps every entry in the embedded Store00
       /\ HASH_GROW_THRESHOLD_INIT <= ENTRIES_STORE
       /\ HASH_GROW_THRESHOLD_INIT < HASH_MAX_INIT
       /\ \A x \in Keys \cup Values : x \in 0..2^20
       /\ 0 \notin Values

NULL == 0

\* OB_MAP_TABLE_MAX_CAPACITY
TABLE_MAX_CAPACITY == ENTRIES_DIRECTORY * ENTRIES_TABLE * ENTRIES_STORE

\* OB_MAP_INDEX_DIRECTORY, OB_MAP_INDEX_TABLE, OB_MAP_INDEX_STORE
INDEX_DIRECTORY(i) == (i \div (ENTRIES_STORE * ENTRIES_TABLE)) % ENTRIES_DIRECTORY
INDEX_TABLE(i) == (i \div ENTRIES_STORE) % ENTRIES_TABLE
INDEX_STORE(i) == i % ENTRIES_STORE

(***************************************************************************)
(* OB_MAP_HASH_FUNCTION(x) & (size - 1), i.e. modulo size, for a power of *)
(* two size of at most 2^7 and 0 <= x < 2^31:                              *)
(*   13 * (x + _rotr16((WORD)x, 9) + _rotr((DWORD)x, 17) + _rotr64(x, 31)) *)
(* _rotr16 is computed exactly; of _rotr32 only the bits shifted right     *)
(* survive modulo size (the rest is a multiple of 2^15), and _rotr64 is a  *)
(* multiple of 2^33.                                                       *)
(***************************************************************************)
Rotr16By9(w) == w \div 2^9 + (w % 2^9) * 2^7
HASH(x, size) == (13 * (x + Rotr16By9(x % 2^16) + x \div 2^17)) % size

VARIABLES
  pm,        \* the OB_MAP record
  valid,     \* OB_MAP_IS_VALID: the map object has not been freed
  mapRef,    \* per value: references (OB) or buffers (LOCALFREE) the map owns
  released,  \* values the map released (Ob_DECREF / LocalFree) in the last step
  ret        \* the last public call, its arguments and its return value

vars == <<pm, valid, mapRef, released, ret>>

Call(op, args, r) == [op |-> op, args |-> args, ret |-> r]

\* A BOOL result as the int the C function returns.
BOOL(b) == IF b THEN 1 ELSE 0

fKey == ~NOKEY
Owning == OWNERSHIP # "NONE"

(***************************************************************************)
(* Entry access and the hash tables.                                       *)
(***************************************************************************)

\* _ObMap_GetFromEntryIndex: key or value of entry i, 0 outside [1, c-1].
GetFromEntryIndex(m, fValueHash, i) ==
  IF i \in 1..(m.c - 1) THEN (IF fValueHash THEN m.store[i].v ELSE m.store[i].k) ELSE 0

HashMap(m, fValueHash) == IF fValueHash THEN m.hashValue ELSE m.hashKey

\* _ObMap_SetHashIndex: there is no key table to write in a NOKEY map.
SetHashIndex(m, fValueHash, iHash, iEntry) ==
  IF fValueHash THEN [m EXCEPT !.hashValue[iHash] = iEntry]
  ELSE IF fKey THEN [m EXCEPT !.hashKey[iHash] = iEntry]
  ELSE m

\* The linear probe of _ObMap_InsertHash: first free slot from slot h.
RECURSIVE FreeSlot(_, _, _)
FreeSlot(tbl, h, size) == IF tbl[h] = 0 THEN h ELSE FreeSlot(tbl, (h + 1) % size, size)

\* _ObMap_InsertHash
InsertHash(m, fValueHash, iEntry) ==
  IF ~fValueHash /\ ~fKey THEN m
  ELSE LET x == GetFromEntryIndex(m, fValueHash, iEntry)
           h == FreeSlot(HashMap(m, fValueHash), HASH(x, m.cHashMax), m.cHashMax)
       IN SetHashIndex(m, fValueHash, h, iEntry)

\* The search loop of _ObMap_RemoveHash: the slot holding iEntry.
RECURSIVE SlotOf(_, _, _, _)
SlotOf(tbl, h, size, iEntry) ==
  IF tbl[h] = iEntry THEN h ELSE SlotOf(tbl, (h + 1) % size, size, iEntry)

\* Variant of RehashCluster that only clears the slot: the entries after
\* it in the probe cluster are not moved back.
RehashClusterNone(m, fValueHash, iHash) == m

\* The re-hash loop of _ObMap_RemoveHash: every entry of the probe cluster
\* after the cleared slot that is not in its preferred slot is cleared and
\* inserted again, up to the first empty slot.
RECURSIVE RehashCluster(_, _, _)
RehashCluster(m, fValueHash, iHash) ==
  LET iNextHash == (iHash + 1) % m.cHashMax
      iNextEntry == HashMap(m, fValueHash)[iNextHash]
      preferred == HASH(GetFromEntryIndex(m, fValueHash, iNextEntry), m.cHashMax)
  IN IF iNextEntry = 0 THEN m
     ELSE IF iNextHash = preferred THEN RehashCluster(m, fValueHash, iNextHash)
     ELSE RehashCluster(InsertHash(SetHashIndex(m, fValueHash, iNextHash, 0), fValueHash, iNextEntry),
                        fValueHash, iNextHash)

\* _ObMap_RemoveHash: clear the slot of iEntry, found from the hash of kv.
RemoveHash(m, fValueHash, kv, iEntry) ==
  IF ~fValueHash /\ ~fKey THEN m
  ELSE LET iHash == SlotOf(HashMap(m, fValueHash), HASH(kv, m.cHashMax), m.cHashMax, iEntry)
       IN RehashCluster(SetHashIndex(m, fValueHash, iHash, 0), fValueHash, iHash)

\* The probe of _ObMap_GetEntryIndexFromKeyOrValue: index of kv, or 0.
RECURSIVE Probe(_, _, _, _)
Probe(m, fValueHash, kv, iHash) ==
  LET iEntry == HashMap(m, fValueHash)[iHash]
  IN IF iEntry = 0 THEN 0
     ELSE IF kv = GetFromEntryIndex(m, fValueHash, iEntry) THEN iEntry
     ELSE Probe(m, fValueHash, kv, (iHash + 1) % m.cHashMax)

GetEntryIndex(m, fValueHash, kv) ==
  IF ~fValueHash /\ ~fKey THEN 0 ELSE Probe(m, fValueHash, kv, HASH(kv, m.cHashMax))

\* _ObMap_Exists
Exists(m, fValueHash, kv) ==
  IF (~fValueHash /\ ~fKey) \/ (fValueHash /\ kv = NULL) THEN FALSE
  ELSE GetEntryIndex(m, fValueHash, kv) # 0

\* Insert entries i..c-1 into one hash table, in index order.
RECURSIVE InsertFrom(_, _, _)
InsertFrom(m, fValueHash, i) ==
  IF i >= m.c THEN m ELSE InsertFrom(InsertHash(m, fValueHash, i), fValueHash, i + 1)

EmptyHashMap(size) == [h \in 0..(size - 1) |-> 0]

LiveValues(m) == {m.store[i].v : i \in 1..(m.c - 1)}

(***************************************************************************)
(* Growing the hash tables and inserting.                                  *)
(***************************************************************************)

\* Variant of Grow that leaves cHashGrowThreshold as it was.
GrowKeepThreshold(m) ==
  LET m1 == IF m.fLargeMode THEN m
            ELSE [m EXCEPT !.directory = [d \in DOMAIN m.directory |-> IF d = 0 THEN "TABLE" ELSE "NULL"],
                           !.fLargeMode = TRUE]
      size == 2 * m.cHashMax
      m2 == [m1 EXCEPT !.cHashMax = size,
                       !.hashValue = EmptyHashMap(size), !.hashKey = EmptyHashMap(size)]
  IN InsertFrom(InsertFrom(m2, TRUE, 1), FALSE, 1)

\* Variant of Grow without pm->Directory[0][0] = pm->Store00: the new
\* Directory[0] table does not point to the embedded store.
GrowNoStore00(m) ==
  LET m1 == IF m.fLargeMode THEN m
            ELSE [m EXCEPT !.directory = [d \in DOMAIN m.directory |-> IF d = 0 THEN "TABLE" ELSE "NULL"],
                           !.stores = @ \ {<<0, 0>>},
                           !.fLargeMode = TRUE]
      size == 2 * m.cHashMax
      m2 == [m1 EXCEPT !.cHashMax = size, !.cHashGrowThreshold = 2 * @,
                       !.hashValue = EmptyHashMap(size), !.hashKey = EmptyHashMap(size)]
  IN InsertFrom(InsertFrom(m2, TRUE, 1), FALSE, 1)

\* _ObMap_Grow once both its allocations succeeded: leaving small mode,
\* Directory[0] becomes a fresh table whose store 0 is Store00 and zeroing
\* _SmallHashMap clears the rest of the Directory it overlays; then both
\* tables double and every entry is inserted again.
Grow(m) ==
  LET m1 == IF m.fLargeMode THEN m
            ELSE [m EXCEPT !.directory = [d \in DOMAIN m.directory |-> IF d = 0 THEN "TABLE" ELSE "NULL"],
                           !.fLargeMode = TRUE]
      size == 2 * m.cHashMax
      m2 == [m1 EXCEPT !.cHashMax = size, !.cHashGrowThreshold = 2 * @,
                       !.hashValue = EmptyHashMap(size), !.hashKey = EmptyHashMap(size)]
  IN InsertFrom(InsertFrom(m2, TRUE, 1), FALSE, 1)

\* _ObMap_Push, given the LocalAlloc sites that fail in this call: the map
\* it leaves behind and whether it inserted.  A failed Directory[0]
\* allocation in _ObMap_Grow has already overwritten Directory[0].  On
\* success, entered is the map just before the two _ObMap_InsertHash calls.
ObMapPush(m, qwKey, pvObject, fail) ==
  LET iEntry == m.c
      d == INDEX_DIRECTORY(iEntry)
      t == INDEX_TABLE(iEntry)
      grow == iEntry = m.cHashGrowThreshold
      m1 == IF grow THEN Grow(m) ELSE m
      m2 == IF m1.directory[d] = "NULL" THEN [m1 EXCEPT !.directory[d] = "TABLE"] ELSE m1
      m3 == [m2 EXCEPT !.stores = @ \cup {<<d, t>>}, !.c = @ + 1,
                       !.store[iEntry] = [k |-> qwKey, v |-> pvObject]]
      Result(mm, ok) == [pm |-> mm, ok |-> ok, entered |-> mm]
  IN IF pvObject = NULL \/ Exists(m, TRUE, pvObject) \/ Exists(m, FALSE, qwKey) THEN Result(m, FALSE)
     ELSE IF iEntry = TABLE_MAX_CAPACITY THEN Result(m, FALSE)
     ELSE IF grow /\ "grow_hash" \in fail THEN Result(m, FALSE)
     ELSE IF grow /\ ~m.fLargeMode /\ "grow_directory" \in fail
          THEN Result([m EXCEPT !.directory[0] = "NULL"], FALSE)
     ELSE IF m1.directory[d] = "NULL" /\ "table" \in fail THEN Result(m1, FALSE)
     ELSE IF <<d, t>> \notin m2.stores /\ "store" \in fail THEN Result(m2, FALSE)
     ELSE [Result(InsertHash(InsertHash(m3, TRUE, iEntry), FALSE, iEntry), TRUE)
             EXCEPT !.entered = m3]

(***************************************************************************)
(* Removal.                                                                *)
(***************************************************************************)

\* _ObMap_RetrieveAndRemoveByEntryIndex: unhash entry iEntry; unless it is
\* the last entry, unhash the last entry, copy it into slot iEntry and
\* hash it there; then drop the count.  NULL if iEntry is not in [1, c-1].
RetrieveAndRemove(m, iEntry) ==
  IF iEntry \notin 1..(m.c - 1) THEN [pm |-> m, k |-> 0, v |-> NULL]
  ELSE
  LET qwRemoveKey == m.store[iEntry].k
      qwRemoveValue == m.store[iEntry].v
      iLast == m.c - 1
      m1 == RemoveHash(RemoveHash(m, FALSE, qwRemoveKey, iEntry), TRUE, qwRemoveValue, iEntry)
      lk == m1.store[iLast].k
      lv == m1.store[iLast].v
      m2 == RemoveHash(RemoveHash(m1, FALSE, lk, iLast), TRUE, lv, iLast)
      m3 == [m2 EXCEPT !.store[iEntry] = [k |-> lk, v |-> lv]]
      m4 == IF iEntry < iLast THEN InsertHash(InsertHash(m3, FALSE, iEntry), TRUE, iEntry) ELSE m1
  IN [pm |-> [m4 EXCEPT !.c = @ - 1], k |-> qwRemoveKey, v |-> qwRemoveValue]

\* Variant of FilterRemove that removes the accepted entries but does not
\* release them.
RECURSIVE FilterRemoveNoRelease(_, _, _)
FilterRemoveNoRelease(m, i, S) ==
  IF i = 0 THEN [pm |-> m, removed |-> {}, n |-> 0]
  ELSE IF m.store[i].v \in S
       THEN LET rest == FilterRemoveNoRelease(RetrieveAndRemove(m, i).pm, i - 1, S)
            IN [rest EXCEPT !.n = @ + 1]
       ELSE FilterRemoveNoRelease(m, i - 1, S)

\* The loop of _ObMap_RemoveByFilter from entry i down to entry 1, for a
\* filter callback that accepts the entries whose value is in S.
RECURSIVE FilterRemove(_, _, _)
FilterRemove(m, i, S) ==
  IF i = 0 THEN [pm |-> m, removed |-> {}, n |-> 0]
  ELSE IF m.store[i].v \in S
       THEN LET r == RetrieveAndRemove(m, i)
                rest == FilterRemove(r.pm, i - 1, S)
            IN [rest EXCEPT !.removed = @ \cup {r.v}, !.n = @ + 1]
       ELSE FilterRemove(m, i - 1, S)

\* The map gives up its reference on (OB) or its buffer of (LOCALFREE)
\* each value of S.
Drop(S) == IF Owning THEN [x \in Values |-> IF x \in S THEN mapRef[x] - 1 ELSE mapRef[x]]
           ELSE mapRef
Acquire(v) == IF Owning THEN [mapRef EXCEPT ![v] = @ + 1] ELSE mapRef
Release(S) == IF Owning THEN S ELSE {}

(***************************************************************************)
(* Sorting.                                                                *)
(***************************************************************************)

\* _ObMap_SortEntryIndex for a comparator under which qsort puts entry
\* perm[i] at index i: the entries are copied out, written back in that
\* order, and both hash tables are cleared and rebuilt.
SortBy(m, perm) ==
  LET m1 == [m EXCEPT !.store = [i \in DOMAIN m.store |->
                                   IF i \in 1..(m.c - 1) THEN m.store[perm[i]] ELSE m.store[i]],
                      !.hashKey = EmptyHashMap(m.cHashMax),
                      !.hashValue = EmptyHashMap(m.cHashMax)]
  IN InsertFrom(InsertFrom(m1, FALSE, 1), TRUE, 1)

\* Variant of KeyOrder for a comparator that compares the values.
KeyOrderByValue(m) == {p \in SetToSeqs(1..(m.c - 1)) :
                        \A i, j \in DOMAIN p : i < j => m.store[p[i]].v <= m.store[p[j]].v}

\* The orders qsort may produce: any, for a caller's comparator; for
\* _ObMap_SortEntryIndexByKey_CmpSort, any that ascends by key (qsort is
\* not stable, so equal keys of a NOKEY map come in any order).
AnyOrder(m) == SetToSeqs(1..(m.c - 1))
KeyOrder(m) == {p \in AnyOrder(m) : \A i, j \in DOMAIN p : i < j => m.store[p[i]].k <= m.store[p[j]].k}

(***************************************************************************)
(* The public calls.                                                       *)
(***************************************************************************)

Init ==
  /\ pm = [c |-> 1,
           cHashMax |-> HASH_MAX_INIT,
           cHashGrowThreshold |-> HASH_GROW_THRESHOLD_INIT,
           fLargeMode |-> FALSE,
           directory |-> [d \in 0..(ENTRIES_DIRECTORY - 1) |-> IF d = 0 THEN "SMALL" ELSE "NULL"],
           stores |-> {<<0, 0>>},
           store |-> [i \in 1..(TABLE_MAX_CAPACITY - 1) |-> [k |-> 0, v |-> NULL]],
           hashKey |-> EmptyHashMap(HASH_MAX_INIT),
           hashValue |-> EmptyHashMap(HASH_MAX_INIT)]
  /\ valid = TRUE
  /\ mapRef = [x \in Values |-> 0]
  /\ released = {}
  /\ ret = Call("ObMap_New", <<>>, BOOL(TRUE))

\* ObMap_Push: in OB mode the map takes a reference (Ob_INCREF); in
\* LOCALFREE mode it takes over the caller's buffer.
ObMap_Push(k, v) ==
  \E fail \in SUBSET (AllocMayFail \cap PushSites) :
    LET r == ObMapPush(pm, k, v, fail) IN
    /\ pm' = r.pm
    /\ mapRef' = IF r.ok THEN Acquire(v) ELSE mapRef
    /\ released' = {}
    /\ ret' = Call("Push", <<k, v>>, BOOL(r.ok))

\* ObMap_PushCopy: the copy is a fresh LocalAlloc buffer, at an address no
\* buffer the map owns has; it is freed again if the push fails.
ObMap_PushCopy(k) ==
  \E fail \in SUBSET (AllocMayFail \cap (PushSites \cup {"copy"})) :
    IF OWNERSHIP # "LOCALFREE" \/ "copy" \in fail
    THEN /\ released' = {}
         /\ ret' = Call("PushCopy", <<k>>, BOOL(FALSE))
         /\ UNCHANGED <<pm, mapRef>>
    ELSE \E copy \in {x \in Values : mapRef[x] = 0} :
           LET r == ObMapPush(pm, k, copy, fail) IN
           /\ pm' = r.pm
           /\ mapRef' = IF r.ok THEN Acquire(copy) ELSE mapRef
           /\ released' = IF r.ok THEN {} ELSE {copy}
           /\ ret' = Call("PushCopy", <<k>>, BOOL(r.ok))

\* ObMap_Remove and ObMap_RemoveByKey (_ObMap_RemoveOrRemoveByKey): the
\* removed value is returned and the map's reference on it goes with it.
RemoveOrRemoveByKey(op, fValueHash, kv) ==
  LET iEntry == IF fValueHash /\ kv = NULL THEN 0 ELSE GetEntryIndex(pm, fValueHash, kv)
      r == RetrieveAndRemove(pm, iEntry)
  IN /\ pm' = r.pm
     /\ mapRef' = IF r.v # NULL THEN Drop({r.v}) ELSE mapRef
     /\ released' = {}
     /\ ret' = Call(op, <<kv>>, r.v)

ObMap_Remove(v) == RemoveOrRemoveByKey("Remove", TRUE, v)
ObMap_RemoveByKey(k) == RemoveOrRemoveByKey("RemoveByKey", FALSE, k)

\* ObMap_Pop and ObMap_PopWithKey: remove entry c-1.  ObMap_PopWithKey writes
\* the key only when it returns an object.
PopCall(op) ==
  LET r == RetrieveAndRemove(pm, pm.c - 1) IN
  /\ pm' = r.pm
  /\ mapRef' = IF r.v # NULL THEN Drop({r.v}) ELSE mapRef
  /\ released' = {}
  /\ ret' = Call(op, <<>>, IF op = "Pop" THEN r.v
                           ELSE IF r.v # NULL THEN <<r.v, r.k>> ELSE <<NULL>>)

ObMap_Pop == PopCall("Pop")
ObMap_PopWithKey == PopCall("PopWithKey")

\* ObMap_RemoveByFilter: removed values are released (Ob_DECREF / LocalFree).
ObMap_RemoveByFilter(S) ==
  LET r == FilterRemove(pm, pm.c - 1, S) IN
  /\ pm' = r.pm
  /\ mapRef' = Drop(r.removed)
  /\ released' = Release(r.removed)
  /\ ret' = Call("RemoveByFilter", <<S>>, r.n)

\* ObMap_Clear: nothing to do on an empty map (checked before and again
\* after taking the lock); else release every value, zero both hash tables
\* and reset the count.  The paging blocks stay.
ObMap_Clear ==
  /\ IF pm.c <= 1
     THEN UNCHANGED <<pm, mapRef>> /\ released' = {}
     ELSE /\ pm' = [pm EXCEPT !.hashValue = EmptyHashMap(pm.cHashMax),
                              !.hashKey = EmptyHashMap(pm.cHashMax),
                              !.c = 1]
          /\ mapRef' = Drop(LiveValues(pm))
          /\ released' = Release(LiveValues(pm))
  /\ ret' = Call("Clear", <<>>, BOOL(TRUE))

\* ObMap_SortEntryIndex and ObMap_SortEntryIndexByKey; the scratch buffer
\* allocation may fail.
SortCall(op, orders) ==
  \/ /\ "sort" \in AllocMayFail
     /\ ret' = Call(op, <<>>, BOOL(FALSE))
     /\ UNCHANGED <<pm, mapRef>> /\ released' = {}
  \/ \E perm \in orders :
       /\ pm' = SortBy(pm, perm)
       /\ ret' = Call(op, <<>>, BOOL(TRUE))
       /\ UNCHANGED mapRef /\ released' = {}

ObMap_SortEntryIndex == SortCall("SortEntryIndex", AnyOrder(pm))
ObMap_SortEntryIndexByKey == SortCall("SortEntryIndexByKey", KeyOrder(pm))

\* pm->fObjectsOb: the map holds an Ob reference on each object.
ObjectsOb == OWNERSHIP = "OB"

\* Ob_DECREF(x) by a function or by the caller on references counted in
\* h; Ob_DECREF(NULL) does nothing.
ObDecref(h, x) == IF ObjectsOb /\ x # NULL THEN [h EXCEPT ![x] = @ - 1] ELSE h

\* Variant of GetByEntryIndexRef without the Ob_INCREF.
GetByEntryIndexRefNoIncref(h, v) == h

\* _ObMap_GetByEntryIndex: in an OB map the object it returns carries a
\* new reference, counted in h, that the caller must Ob_DECREF.
GetByEntryIndexRef(h, v) == IF ObjectsOb /\ v # NULL THEN [h EXCEPT ![v] = @ + 1] ELSE h

\* The reads answered by _ObMap_GetByEntryIndex.
RefReads == {"GetByIndex", "GetByKey", "Peek"}

\* Variant of Reads whose ObMap_GetByIndex reads entry i instead of i + 1.
ReadsIndexOffByOne ==
  /\ \/ ret' = Call("Size", <<>>, pm.c - 1)
     \/ \E v \in Values \cup {NULL} :
          \/ ret' = Call("Exists", <<v>>, BOOL(Exists(pm, TRUE, v)))
          \/ LET i == GetEntryIndex(pm, TRUE, v)
             IN ret' = Call("GetKey", <<v>>, IF i # 0 THEN pm.store[i].k ELSE 0)
     \/ \E k \in Keys :
          \/ ret' = Call("ExistsKey", <<k>>, BOOL(Exists(pm, FALSE, k)))
          \/ LET i == GetEntryIndex(pm, FALSE, k)
             IN ret' = Call("GetByKey", <<k>>, IF i # 0 THEN GetFromEntryIndex(pm, TRUE, i) ELSE NULL)
     \/ \E i \in 0..(TABLE_MAX_CAPACITY - 1) :
          ret' = Call("GetByIndex", <<i>>, GetFromEntryIndex(pm, TRUE, i))
     \/ ret' = Call("Peek", <<>>, GetFromEntryIndex(pm, TRUE, pm.c - 1))
     \/ ret' = Call("PeekKey", <<>>, GetFromEntryIndex(pm, FALSE, pm.c - 1))
  /\ UNCHANGED <<pm, mapRef>> /\ released' = {}

\* The read calls under the shared lock: ObMap_Size, ObMap_Exists,
\* ObMap_ExistsKey, ObMap_GetByIndex, ObMap_GetByKey, ObMap_GetKey,
\* ObMap_Peek, ObMap_PeekKey.  In OB mode a returned object carries a new
\* reference for the caller, which is not the map's.
Answer(op, args, r) ==
  /\ ret' = Call(op, args, r)
  /\ UNCHANGED <<pm, mapRef>> /\ released' = {}

Reads ==
  \/ Answer("Size", <<>>, pm.c - 1)
  \/ \E v \in Values \cup {NULL} :
       \/ Answer("Exists", <<v>>, BOOL(Exists(pm, TRUE, v)))
       \/ LET i == GetEntryIndex(pm, TRUE, v)
          IN Answer("GetKey", <<v>>, IF i # 0 THEN pm.store[i].k ELSE 0)
  \/ \E k \in Keys :
       \/ Answer("ExistsKey", <<k>>, BOOL(Exists(pm, FALSE, k)))
       \/ LET i == GetEntryIndex(pm, FALSE, k)
          IN Answer("GetByKey", <<k>>, IF i # 0 THEN GetFromEntryIndex(pm, TRUE, i) ELSE NULL)
  \/ \E i \in 0..(TABLE_MAX_CAPACITY - 1) :
       Answer("GetByIndex", <<i>>, GetFromEntryIndex(pm, TRUE, i + 1))
  \/ Answer("Peek", <<>>, GetFromEntryIndex(pm, TRUE, pm.c - 1))
  \/ Answer("PeekKey", <<>>, GetFromEntryIndex(pm, FALSE, pm.c - 1))

\* A non-NULL OB_MAP_FILTER_PFN_CB / OB_MAP_FILTERSET_PFN_CB.
FilterCB == 1

\* The (key, value) arguments of the callback calls of _ObMap_Filter and
\* _ObMap_FilterSet: entries 1..c-1 in index order.
FilterCalls(m) == [i \in 1..(m.c - 1) |-> <<m.store[i].k, m.store[i].v>>]

\* ObMap_Filter: a NULL callback returns FALSE; else the callback sees
\* every entry and the call returns TRUE.  The answer is the BOOL and the
\* callback's calls.
ObMap_Filter(pfn) ==
  Answer("Filter", <<pfn>>, IF pfn = NULL THEN <<BOOL(FALSE), <<>>>>
                            ELSE <<BOOL(TRUE), FilterCalls(pm)>>)

\* ObMap_FilterSet_FilterAllKey: each callback call pushes its key into
\* the ObSet, so the set ends as the keys of all calls.
FilterAllKey(m) == {c[1] : c \in ToSet(FilterCalls(m))}

\* _ObMap_FilterSet: NULL (<<>>) when ObSet_New fails, else the ObSet the
\* callback calls filled.
FilterSetOf(m, fail) == IF "set" \in fail THEN <<>> ELSE <<FilterAllKey(m)>>

\* ObMap_FilterSet: a NULL callback returns NULL before the lock.
ObMap_FilterSet(pfn) ==
  \E fail \in SUBSET (AllocMayFail \cap {"set"}) :
    Answer("FilterSet", <<pfn>>, IF pfn = NULL THEN <<>> ELSE FilterSetOf(pm, fail))

\* The last Ob_DECREF of the map runs _ObMap_ObCloseCallback: every value
\* is released, then the paging blocks and hash tables are freed.
ObMap_Close ==
  /\ valid' = FALSE
  /\ mapRef' = Drop(LiveValues(pm))
  /\ released' = Release(LiveValues(pm))
  /\ ret' = Call("Close", <<>>, BOOL(TRUE))
  /\ UNCHANGED pm

\* OB_MAP_IS_VALID fails: the call returns its failure value.
FailValue(op) == IF op \in {"Clear"} THEN BOOL(TRUE)
                 ELSE IF op \in {"Push", "Sort"} THEN BOOL(FALSE) ELSE NULL

InvalidCall(op) ==
  /\ ret' = Call(op, <<>>, FailValue(op))
  /\ released' = {}
  /\ UNCHANGED <<pm, valid, mapRef>>

Next ==
  \/ /\ valid
     /\ \/ \E k \in Keys, v \in Values \cup {NULL} : ObMap_Push(k, v)
        \/ \E k \in Keys : ObMap_PushCopy(k)
        \/ \E v \in Values \cup {NULL} : ObMap_Remove(v)
        \/ \E k \in Keys : ObMap_RemoveByKey(k)
        \/ ObMap_Pop
        \/ ObMap_PopWithKey
        \/ \E S \in SUBSET Values : ObMap_RemoveByFilter(S)
        \/ ObMap_Clear
        \/ ObMap_SortEntryIndex
        \/ ObMap_SortEntryIndexByKey
        \/ Reads
        \/ \E pfn \in {NULL, FilterCB} : ObMap_Filter(pfn) \/ ObMap_FilterSet(pfn)
     /\ UNCHANGED valid
  \/ valid /\ ObMap_Close
  \/ ~valid /\ \E op \in {"Push", "Remove", "Size", "Clear"} : InvalidCall(op)

Spec == Init /\ [][Next]_vars
(***************************************************************************)
(* Properties.                                                             *)
(***************************************************************************)

Slots(m) == 0..(m.cHashMax - 1)
HashTablesUsed == IF fKey THEN {TRUE, FALSE} ELSE {TRUE}

TypeOK ==
  /\ valid \in BOOLEAN
  /\ pm.c \in 1..TABLE_MAX_CAPACITY
  /\ pm.cHashMax \in {HASH_MAX_INIT * 2^i : i \in 0..4}
  /\ pm.cHashGrowThreshold * HASH_MAX_INIT = pm.cHashMax * HASH_GROW_THRESHOLD_INIT
  /\ pm.fLargeMode \in BOOLEAN
  /\ pm.directory \in [0..(ENTRIES_DIRECTORY - 1) -> {"SMALL", "TABLE", "NULL"}]
  /\ pm.stores \subseteq (0..(ENTRIES_DIRECTORY - 1)) \X (0..(ENTRIES_TABLE - 1))
  /\ pm.store \in [1..(TABLE_MAX_CAPACITY - 1) -> [k : Keys \cup {0}, v : Values \cup {NULL}]]
  /\ pm.hashKey \in [Slots(pm) -> 0..(TABLE_MAX_CAPACITY - 1)]
  /\ pm.hashValue \in [Slots(pm) -> 0..(TABLE_MAX_CAPACITY - 1)]
  /\ mapRef \in [Values -> Nat]
  /\ released \subseteq Values

\* The dual hash index agrees with the entries after any sequence of calls:
\* each live index sits in exactly one slot of each table in use, no slot
\* holds anything else, a free slot is left (so the unbounded probe loops
\* of _ObMap_InsertHash, _ObMap_RemoveHash and the lookup end), and the
\* probe from an entry's key or value finds its index.  The backward-shift
\* re-hash of _ObMap_RemoveHash, the swap of
\* _ObMap_RetrieveAndRemoveByEntryIndex, the re-insertion of _ObMap_Grow
\* and the rebuild of _ObMap_SortEntryIndex must all keep it.
HashIndexConsistent ==
  \A f \in HashTablesUsed :
    LET tbl == HashMap(pm, f) IN
    /\ \E h \in Slots(pm) : tbl[h] = 0
    /\ \A h \in Slots(pm) : tbl[h] < pm.c
    /\ \A i \in 1..(pm.c - 1) :
         /\ Cardinality({h \in Slots(pm) : tbl[h] = i}) = 1
         /\ GetEntryIndex(pm, f, GetFromEntryIndex(pm, f, i)) = i

\* The map owns exactly one reference (OB) or buffer (LOCALFREE) per live
\* value and none once destroyed: the Ob_INCREF of _ObMap_Push is matched
\* by exactly one hand-over (Remove, RemoveByKey, Pop) or release
\* (RemoveByFilter, Clear, the close callback), with no leak and no
\* double release, whatever the swaps of the removals did.
OwnershipExact ==
  \A x \in Values : mapRef[x] = IF Owning /\ valid /\ x \in LiveValues(pm) THEN 1 ELSE 0

\* Every live entry lies in a store block reachable from the Directory, so
\* the three-level lookup of _ObMap_GetFromIndex never follows a NULL
\* table pointer, also after a call failed half-way on an allocation.
StorageReachable ==
  valid => \A i \in 1..(pm.c - 1) :
             /\ pm.directory[INDEX_DIRECTORY(i)] # "NULL"
             /\ <<INDEX_DIRECTORY(i), INDEX_TABLE(i)>> \in pm.stores

\* The map implements its contract: the entries 1..c-1 in index order and
\* the answer of every call are those of ObMapAbstract.
AbsEntries == IF valid THEN [i \in 1..(pm.c - 1) |-> pm.store[i]] ELSE <<>>

Abstract == INSTANCE ObMapAbstract WITH entries <- AbsEntries, CAPACITY <- TABLE_MAX_CAPACITY - 1

ObMapContract == Abstract!Spec

\* spec.md section 4.3: in heap-owned-copy mode a removal releases the
\* removed value at once.  ObMap_Remove, ObMap_RemoveByKey and ObMap_Pop
\* return the buffer without LocalFree.
RemovalFreesHeapCopy ==
  [][ OWNERSHIP = "LOCALFREE" /\ ret'.op \in {"Remove", "RemoveByKey", "Pop"} /\ ret'.ret # NULL
      => ret'.ret \in released' ]_vars

=============================================================================
