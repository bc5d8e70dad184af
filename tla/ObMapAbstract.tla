---------------------------- MODULE ObMapAbstract ----------------------------
(***************************************************************************)
(* What an ObMap promises its callers, independent of how it stores and    *)
(* indexes its entries: an ordered sequence of unique, non-NULL values     *)
(* (keys unique too unless the map was created with OB_MAP_FLAGS_NOKEY),   *)
(* appended at the end by a push, removed by swapping the last entry into  *)
(* the hole, popped from the end, cleared, and reordered by a sort.  The   *)
(* variable ret is the last public call, its arguments and what it         *)
(* returned, so that the detailed module is held to the same answers.     *)
(*                                                                         *)
(* The contract is the one of the comments of ob_map.c (lines 1-13, 400-  *)
(* 534, 634-789, 871-899) and of spec.md sections 3, 4.3, 4.4 and 7.       *)
(***************************************************************************)
EXTENDS Integers, Sequences, FiniteSets, SequencesExt, TLC

CONSTANTS
  Keys,          \* keys callers pass
  Values,        \* non-NULL value handles callers pass
  NOKEY,         \* the map was created with OB_MAP_FLAGS_NOKEY
  OWNERSHIP,     \* "NONE", "OB" or "LOCALFREE": the value ownership policy
  CAPACITY,      \* most entries the map can hold
  AllocMayFail   \* allocation sites that may fail: a legal call may fail

VARIABLES
  entries,       \* the live entries, in index order
  valid,         \* the map has not been destroyed
  ret            \* the last call: [op, args, ret]

NULL == 0

Call(op, args, r) == [op |-> op, args |-> args, ret |-> r]

\* A BOOL result as the int the C function returns.
BOOL(b) == IF b THEN 1 ELSE 0

\* The step is call op with these arguments, returning r.  (The name is
\* compared first: calls of different names have differently shaped
\* arguments and results.)
Reply(op, args, r) == ret'.op = op /\ ret' = Call(op, args, r)

ValuesOf(s) == {s[i].v : i \in DOMAIN s}
KeysOf(s) == {s[i].k : i \in DOMAIN s}
IndexOfValue(s, x) == CHOOSE i \in DOMAIN s : s[i].v = x
IndexOfKey(s, x) == CHOOSE i \in DOMAIN s : s[i].k = x

\* Swap-remove: the last entry takes the place of entry i.
SwapRemove(s, i) == Front([s EXCEPT ![i] = Last(s)])

\* t holds the entries of s in some order (entries are unique by value).
IsPermutationOf(t, s) == Len(t) = Len(s) /\ ToSet(t) = ToSet(s)

PushMayFail == AllocMayFail \cap {"grow_hash", "grow_directory", "table", "store"} # {}

CanAdd(k, v) ==
  /\ v # NULL
  /\ v \notin ValuesOf(entries)
  /\ NOKEY \/ k \notin KeysOf(entries)
  /\ Len(entries) < CAPACITY

Init ==
  /\ entries = <<>>
  /\ valid = TRUE
  /\ ret = Call("ObMap_New", <<>>, BOOL(TRUE))

ObMap_Push(k, v) ==
  \/ /\ CanAdd(k, v)
     /\ entries' = Append(entries, [k |-> k, v |-> v])
     /\ Reply("Push", <<k, v>>, BOOL(TRUE))
  \/ /\ ~CanAdd(k, v) \/ PushMayFail
     /\ entries' = entries
     /\ Reply("Push", <<k, v>>, BOOL(FALSE))

\* A heap copy gets a fresh address; only a LOCALFREE map accepts it.
ObMap_PushCopy(k) ==
  \/ /\ OWNERSHIP = "LOCALFREE"
     /\ \E v \in Values : CanAdd(k, v) /\ entries' = Append(entries, [k |-> k, v |-> v])
     /\ Reply("PushCopy", <<k>>, BOOL(TRUE))
  \/ /\ entries' = entries
     /\ Reply("PushCopy", <<k>>, BOOL(FALSE))
     /\ \/ OWNERSHIP # "LOCALFREE" \/ PushMayFail \/ "copy" \in AllocMayFail
        \/ ~NOKEY /\ k \in KeysOf(entries)
        \/ Len(entries) = CAPACITY

ObMap_Remove(v) ==
  IF v # NULL /\ v \in ValuesOf(entries)
  THEN /\ entries' = SwapRemove(entries, IndexOfValue(entries, v))
       /\ Reply("Remove", <<v>>, v)
  ELSE /\ entries' = entries
       /\ Reply("Remove", <<v>>, NULL)

ObMap_RemoveByKey(k) ==
  IF ~NOKEY /\ k \in KeysOf(entries)
  THEN LET i == IndexOfKey(entries, k) IN
       /\ entries' = SwapRemove(entries, i)
       /\ Reply("RemoveByKey", <<k>>, entries[i].v)
  ELSE /\ entries' = entries
       /\ Reply("RemoveByKey", <<k>>, NULL)

\* ObMap_Pop removes the last entry and so keeps the order of the others.
ObMap_Pop ==
  IF entries # <<>>
  THEN /\ entries' = Front(entries)
       /\ Reply("Pop", <<>>, Last(entries).v)
  ELSE /\ entries' = entries
       /\ Reply("Pop", <<>>, NULL)

ObMap_PopWithKey ==
  IF entries # <<>>
  THEN /\ entries' = Front(entries)
       /\ Reply("PopWithKey", <<>>, <<Last(entries).v, Last(entries).k>>)
  ELSE /\ entries' = entries
       /\ Reply("PopWithKey", <<>>, <<NULL>>)

\* The filter accepts the entries whose value is in S; they go, the rest
\* stay in some order, and the call returns how many went.
ObMap_RemoveByFilter(S) ==
  LET kept == SelectSeq(entries, LAMBDA e : e.v \notin S)
  IN /\ IsPermutationOf(entries', kept)
     /\ Reply("RemoveByFilter", <<S>>, Len(entries) - Len(kept))

ObMap_Clear ==
  /\ entries' = <<>>
  /\ Reply("Clear", <<>>, BOOL(TRUE))

\* A caller-supplied comparator may order the entries in any way.
ObMap_SortEntryIndex ==
  \/ /\ IsPermutationOf(entries', entries)
     /\ Reply("SortEntryIndex", <<>>, BOOL(TRUE))
  \/ /\ "sort" \in AllocMayFail
     /\ entries' = entries
     /\ Reply("SortEntryIndex", <<>>, BOOL(FALSE))

ObMap_SortEntryIndexByKey ==
  \/ /\ IsPermutationOf(entries', entries)
     /\ IsSorted(entries', LAMBDA a, b : a.k <= b.k)
     /\ Reply("SortEntryIndexByKey", <<>>, BOOL(TRUE))
  \/ /\ "sort" \in AllocMayFail
     /\ entries' = entries
     /\ Reply("SortEntryIndexByKey", <<>>, BOOL(FALSE))

\* The read-only calls: each answers from the entries and changes nothing.
Answer(op, args, r) == Reply(op, args, r) /\ entries' = entries

Reads ==
  \/ Answer("Size", <<>>, Len(entries))
  \/ \E v \in Values \cup {NULL} :
       \/ Answer("Exists", <<v>>, BOOL(v # NULL /\ v \in ValuesOf(entries)))
       \/ Answer("GetKey", <<v>>, IF v \in ValuesOf(entries)
                                  THEN entries[IndexOfValue(entries, v)].k ELSE 0)
  \/ \E k \in Keys :
       \/ Answer("ExistsKey", <<k>>, BOOL(~NOKEY /\ k \in KeysOf(entries)))
       \/ Answer("GetByKey", <<k>>, IF ~NOKEY /\ k \in KeysOf(entries)
                                    THEN entries[IndexOfKey(entries, k)].v ELSE NULL)
  \/ \E i \in 0..CAPACITY :
       Answer("GetByIndex", <<i>>, IF i + 1 \in DOMAIN entries THEN entries[i + 1].v ELSE NULL)
  \/ Answer("Peek", <<>>, IF entries # <<>> THEN Last(entries).v ELSE NULL)
  \/ Answer("PeekKey", <<>>, IF entries # <<>> THEN Last(entries).k ELSE 0)

\* The filters hand every entry, in order, to a non-NULL callback;
\* FilterSet with ObMap_FilterSet_FilterAllKey answers the set of keys, or
\* NULL (<<>>) when the callback is NULL or the new set cannot be allocated.
FilterCB == 1
Filter(pfn) ==
  Answer("Filter", <<pfn>>, IF pfn = NULL THEN <<BOOL(FALSE), <<>>>>
                            ELSE <<BOOL(TRUE), [i \in DOMAIN entries |-> <<entries[i].k, entries[i].v>>]>>)
FilterSet(pfn) ==
  \/ Answer("FilterSet", <<pfn>>, IF pfn = NULL THEN <<>> ELSE <<KeysOf(entries)>>)
  \/ "set" \in AllocMayFail /\ Answer("FilterSet", <<pfn>>, <<>>)

\* The last reference to the map goes: its entries are released.
ObMap_Close ==
  /\ entries' = <<>>
  /\ valid' = FALSE
  /\ Reply("Close", <<>>, BOOL(TRUE))

\* A call on a destroyed map returns its failure value and does nothing.
FailValue(op) == IF op \in {"Clear"} THEN BOOL(TRUE)
                 ELSE IF op \in {"Push", "Sort"} THEN BOOL(FALSE) ELSE NULL

InvalidCall(op) ==
  /\ Reply(op, <<>>, FailValue(op))
  /\ UNCHANGED <<entries, valid>>

Next ==
  \/ /\ valid
     /\ \/ \E k \in Keys, v \in Values \cup {NULL} : ObMap_Push(k, v)
        \/ \E k \in Keys : ObMap_PushCopy(k)
        \/ \E v \in Values \cup {NULL} : ObMap_Remove(v)
        \/ \E k \in Keys : ObMap_RemoveByKey(k)
        \/ ObMap_Pop
        \/ ObMap_PopWithKey
        \/ \E S \in SUBSET Values : ObMap_RemoveByFilter(S)
        \/ ObMap_Clear
        \/ ObMap_SortEntryIndex
        \/ ObMap_SortEntryIndexByKey
        \/ Reads
        \/ \E pfn \in {NULL, FilterCB} : Filter(pfn) \/ FilterSet(pfn)
     /\ UNCHANGED valid
  \/ valid /\ ObMap_Close
  \/ ~valid /\ \E op \in {"Push", "Remove", "Size", "Clear"} : InvalidCall(op)

Spec == Init /\ [][Next]_<<entries, valid, ret>>

=============================================================================
