---------------------------- MODULE ObMapIterator ----------------------------
(***************************************************************************)
(* A caller iterating over an ObMap with one of the cursor protocols of    *)
(* ob_map.c (lines 255-286, 350-364, 428-501) while another thread calls   *)
(* the map.  The iterating thread starts with the not-found sentinel and   *)
(* feeds every answer back into the next call until it gets NULL:          *)
(*   GetNext            (pvObject)            forward, by value            *)
(*   GetNextByKey       (qwKey, pvObject)     forward, by key              *)
(*   GetNextByKeySorted (qwKey, pvObject)     forward in a key-sorted map  *)
(*   GetNextByIndex     (&dwIndex, pvObject)  backward, by cursor          *)
(* Each call is one atomic step under the shared lock; the other thread's *)
(* calls are the ObMap actions, restricted to what the contract of the    *)
(* iteration allows (MUTATIONS).  The protocol is one of MODES, chosen   *)
(* when the behaviour starts and kept in mode.                            *)
(***************************************************************************)
EXTENDS ObMap

CONSTANTS
  MODES,         \* protocols the caller may use: subset of Modes
  MUTATIONS,     \* calls the other thread makes: subset of MutationKinds
  CallerIndex    \* the DWORD the caller's cursor holds before the first call

MutationKinds == {"push", "push_sorted", "remove_earlier", "pop_visited"}

Modes == {"GetNext", "GetNextByKey", "GetNextByKeySorted", "GetNextByIndex"}

ASSUME /\ MODES \subseteq Modes
       /\ MUTATIONS \subseteq MutationKinds
       /\ CallerIndex \in 0..TABLE_MAX_CAPACITY

VARIABLES
  mode,     \* the protocol of this caller
  phase,    \* "before" the first call, "running", "done" once NULL came back
  cur,      \* the object the last call returned (pvObject of the next call)
  curKey,   \* its key (qwKey of the next call)
  idx,      \* the caller's cursor dwIndex
  seen,     \* the objects returned so far, in order
  start,    \* the values in the map when the iteration began
  gone,     \* values the other thread removed since then
  held      \* held[x]: the references to object x the iterating caller owns

itVars == <<mode, phase, cur, curKey, idx, seen, start, gone, held>>
allVars == <<pm, valid, mapRef, released, ret, mode, phase, cur, curKey, idx, seen, start, gone, held>>

LOCAL Q == INSTANCE ObMapQFind WITH keys <- <<>>, qwKey <- 0, searched <- FALSE,
                                    result <- [found |-> FALSE, index |-> 0, reads |-> {}],
                                    MAX_LEN_STRICT <- 1, MAX_LEN_REPEAT <- 1, RepeatKeys <- {}

\* The keys of entries 1..c-1, in index order, as _ObMap_QFind reads them.
KeysSeq(m) == [i \in 1..(m.c - 1) |-> m.store[i].k]

(***************************************************************************)
(* The entry index each call reads; _ObMap_GetByEntryIndex returns NULL   *)
(* for an index outside [1, c-1], and a failed lookup returns NULL too    *)
(* (index 0 here).                                                         *)
(***************************************************************************)

\* Variant of GetNextIndex that answers the entry found again.
GetNextIndexSame(m, pvObject) ==
  IF pvObject = NULL THEN 1 ELSE GetEntryIndex(m, TRUE, pvObject)

\* Variant of GetNextIndex that steps two entries.
GetNextIndexSkip(m, pvObject) ==
  IF pvObject = NULL THEN 1
  ELSE LET i == GetEntryIndex(m, TRUE, pvObject) IN IF i = 0 THEN 0 ELSE i + 2

\* _ObMap_GetNext: the entry after the one holding pvObject.
GetNextIndex(m, pvObject) ==
  IF pvObject = NULL THEN 1
  ELSE LET i == GetEntryIndex(m, TRUE, pvObject) IN IF i = 0 THEN 0 ELSE i + 1

\* Variant of GetNextByKeyIndex that answers the entry found again.
GetNextByKeyIndexSame(m, qwKey, pvObject) ==
  IF pvObject = NULL THEN 1 ELSE GetEntryIndex(m, FALSE, qwKey)

\* Variant of GetNextByKeyIndex that steps two entries.
GetNextByKeyIndexSkip(m, qwKey, pvObject) ==
  IF pvObject = NULL THEN 1
  ELSE LET i == GetEntryIndex(m, FALSE, qwKey) IN IF i = 0 THEN 0 ELSE i + 2

\* _ObMap_GetNextByKey: the entry after the one with key qwKey.
GetNextByKeyIndex(m, qwKey, pvObject) ==
  IF pvObject = NULL THEN 1
  ELSE LET i == GetEntryIndex(m, FALSE, qwKey) IN IF i = 0 THEN 0 ELSE i + 1

\* Variant of GetNextByKeySortedIndex whose binary-search answer is
\* stepped past by one.
GetNextByKeySortedIndexPast(m, qwKey) ==
  IF qwKey = 0 THEN 1
  ELSE LET i == GetEntryIndex(m, FALSE, qwKey)
           q == Q!QFind(KeysSeq(m), qwKey)
       IN IF i # 0 THEN i + 1 ELSE IF q.found THEN q.index + 1 ELSE 0

\* Variant of GetNextByKeySortedIndex that steps two entries past a key
\* found in the key table.
GetNextByKeySortedIndexSkip(m, qwKey) ==
  IF qwKey = 0 THEN 1
  ELSE LET i == GetEntryIndex(m, FALSE, qwKey)
           q == Q!QFind(KeysSeq(m), qwKey)
       IN IF i # 0 THEN i + 2 ELSE IF q.found THEN q.index ELSE 0

\* Variant of GetNextByKeySortedIndex without the iEntry++ after a hit in
\* the key table.
GetNextByKeySortedIndexSame(m, qwKey) ==
  IF qwKey = 0 THEN 1
  ELSE LET i == GetEntryIndex(m, FALSE, qwKey)
           q == Q!QFind(KeysSeq(m), qwKey)
       IN IF i # 0 THEN i ELSE IF q.found THEN q.index ELSE 0

\* _ObMap_GetNextByKeySorted: key 0 starts; a key in the key table goes to
\* the next entry; otherwise _ObMap_QFind's index of the next larger key.
GetNextByKeySortedIndex(m, qwKey) ==
  IF qwKey = 0 THEN 1
  ELSE LET i == GetEntryIndex(m, FALSE, qwKey)
           q == Q!QFind(KeysSeq(m), qwKey)
       IN IF i # 0 THEN i + 1 ELSE IF q.found THEN q.index ELSE 0

\* _ObMap_GetNextByIndex: the new value of *pdwIndex, which is also the
\* entry read.  A non-NULL pvObject sets the cursor to c-1, NULL
\* decrements it (DWORD arithmetic).
GetNextByIndexCursor(m, dwIndex, pvObject) ==
  IF pvObject # NULL THEN m.c - 1 ELSE Q!DWORD(dwIndex - 1)

(***************************************************************************)
(* References in an OB map (pm->fObjectsOb): each GetNext* call first     *)
(* Ob_DECREFs the pvObject it is given (lines 261, 272, 284, 353), then    *)
(* _ObMap_GetByEntryIndex Ob_INCREFs the object it returns (line 245);    *)
(* both are no-ops on NULL.  The caller Ob_DECREFs the last answer by     *)
(* passing it back, so its references are counted in held.                *)
(***************************************************************************)

\* One call of the iterating thread, with the arguments of its last answer.
IterCall ==
  /\ phase = "running"
  /\ LET i == CASE mode = "GetNext" -> GetNextIndex(pm, cur)
                [] mode = "GetNextByKey" -> GetNextByKeyIndex(pm, curKey, cur)
                [] mode = "GetNextByKeySorted" -> GetNextByKeySortedIndex(pm, curKey)
                [] mode = "GetNextByIndex" -> GetNextByIndexCursor(pm, idx, cur)
         v == GetFromEntryIndex(pm, TRUE, i)
     IN /\ cur' = v
        /\ curKey' = GetFromEntryIndex(pm, FALSE, i)
        /\ idx' = IF mode = "GetNextByIndex" THEN i ELSE idx
        /\ seen' = IF v = NULL THEN seen ELSE Append(seen, v)
        /\ phase' = IF v = NULL THEN "done" ELSE "running"
        /\ held' = GetByEntryIndexRef(ObDecref(held, cur), v)
        /\ UNCHANGED <<mode, start, gone>>
        /\ UNCHANGED <<pm, valid, mapRef>> /\ released' = {}
        /\ ret' = Call(mode, <<curKey, cur>>, v)

\* The caller sets up its loop: pvObject NULL, qwKey 0, dwIndex as it is.
IterBegin ==
  /\ phase = "before"
  /\ phase' = "running"
  /\ start' = LiveValues(pm)
  /\ cur' = NULL /\ curKey' = 0 /\ idx' = CallerIndex /\ seen' = <<>>
  /\ UNCHANGED <<mode, gone, held>>
  /\ UNCHANGED <<pm, valid, mapRef, released, ret>>

Visited == {seen[i] : i \in DOMAIN seen}

\* The other thread's calls, as far as the iteration contract allows them:
\* pushes (only of keys above every key for GetNextByKeySorted, whose
\* map must stay sorted: ObMap_Push would break the order), and removals of
\* visited entries: an object returned before the current one, or the
\* last entry once it has been returned.  A pushed object is a new one,
\* not one removed during this pass (a new entry with an old value).
MutatorCall ==
  /\ phase # "done"
  /\ \/ /\ "push" \in MUTATIONS /\ mode # "GetNextByKeySorted"
        /\ \E k \in Keys, v \in Values \ gone : ObMap_Push(k, v)
     \/ /\ "push_sorted" \in MUTATIONS
        /\ \E k \in Keys, v \in Values \ gone :
             (\A i \in 1..(pm.c - 1) : pm.store[i].k < k) /\ ObMap_Push(k, v)
     \/ "remove_earlier" \in MUTATIONS /\ \E v \in Visited \ {cur} : ObMap_Remove(v)
     \/ /\ "pop_visited" \in MUTATIONS
        /\ pm.c > 1 /\ pm.store[pm.c - 1].v \in Visited
        /\ ObMap_Pop
  /\ gone' = IF phase = "running" /\ ret'.op \in {"Remove", "Pop"} /\ ret'.ret # NULL THEN gone \cup {ret'.ret} ELSE gone
  /\ UNCHANGED valid
  /\ UNCHANGED <<mode, phase, cur, curKey, idx, seen, start, held>>

\* The iteration has ended; the program goes on without the map.
Finished == phase = "done" /\ UNCHANGED allVars

IterNext == IterBegin \/ IterCall \/ MutatorCall \/ Finished

\* The iterating thread keeps calling until it gets NULL: its calls only
\* take the shared lock, which every call releases.  The other thread is a
\* caller that need not call at all.
IterSpec == Init /\ mode \in MODES /\ phase = "before" /\ cur = NULL /\ curKey = 0 /\ idx = CallerIndex
            /\ seen = <<>> /\ start = {} /\ gone = {} /\ held = [x \in Values |-> 0]
            /\ [][IterNext]_allVars /\ WF_itVars(IterCall)

(***************************************************************************)
(* Properties.                                                             *)
(***************************************************************************)

\* One pass returns no object twice: the cursor of each protocol moves past
\* the entry it answered, across pushes (and grows) and allowed removals by
\* the other thread.
IterNoRepeat == IsInjective(seen)

\* Every iteration ends, and by then it has returned every object that was
\* in the map when it began and that the other thread did not remove: the
\* swap-remove of a visited entry and the additions must not make the
\* cursor skip an entry.
IterCompletes ==
  phase = "running" ~> (phase = "done" /\ start \ gone \subseteq Visited)

\* The entries of m whose key is larger than qwKey.
LargerEntries(m, qwKey) == {i \in 1..(m.c - 1) : m.store[i].k > qwKey}

\* In a map sorted by key, each call of ObMap_GetNextByKeySorted answers
\* "the next object with a larger key" than the caller's key, or NULL when
\* there is none: also when the entry of that key has been popped since the
\* last call and larger ones pushed, so that the key-table lookup fails and
\* the answer comes from _ObMap_QFind.
IterSortedSuccessor ==
  [][ mode = "GetNextByKeySorted" /\ phase = "running" /\ <<phase, seen>>' # <<phase, seen>>
      => LET L == LargerEntries(pm, curKey)
         IN IF L = {} THEN cur' = NULL
            ELSE \E i \in L : cur' = pm.store[i].v /\ \A j \in L : pm.store[i].k <= pm.store[j].k
    ]_allVars

=============================================================================
