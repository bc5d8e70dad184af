# TLA+ models of the LeechCore object map (`ob_map.c`)

This directory models `src/leechcore/ob/ob_map.c`, the `ObMap` of the
LeechCore object manager. An `ObMap` is a thread-safe, ordered key/value
container:
- It has a paged entry store and two open-addressing hash indexes, one by key and one by value.
- Removal is a swap-remove.
- It has a sort and a binary search over the sorted keys.
- It can own its values, either as object-manager references or as heap buffers.

The other source file, `src/leechagent/version.h`, holds only version constants.

## The system

`ob_map.c` has these parts:

| Part | Code | State |
|---|---|---|
| Paged storage | `Directory` / table / store arrays and the macros `OB_MAP_INDEX_*` (lines 20-29) | `Directory[d][t][s]`. In small mode this is the embedded `_SmallTable` and `Store00`. |
| Hash index | `_ObMap_InsertHash`, `_ObMap_RemoveHash`, `_ObMap_GetEntryIndexFromKeyOrValue` (129-208) | `pHashMapKey`, `pHashMapValue` and `cHashMax`. The key table does not exist in a NOKEY map. |
| Insert / grow | `_ObMap_Push`, `_ObMap_PushCopy`, `_ObMap_Grow` (801-899) | `c`, `cHashGrowThreshold` and `fLargeMode`; allocates tables and stores on demand. |
| Removal | `_ObMap_RetrieveAndRemoveByEntryIndex` and its callers Remove, RemoveByKey, Pop, PopWithKey, RemoveByFilter and Clear (577-718) | Swap-remove. The last entry moves into the hole and both hash tables are updated. |
| Ordering | `_ObMap_SortEntryIndex`, `_ObMap_QFind`, `_ObMap_GetNextByKeySorted` (288-364, 720-789) | qsort of a scratch copy, written back, then a hash rebuild. |
| Filter | `_ObMap_Filter`, `_ObMap_FilterSet`, `ObMap_FilterSet_FilterAllKey` (374-398, 536-571) | Calls a caller's callback once per entry under the shared lock; FilterSet collects into a new `ObSet`. |
| Reads and iteration | Size, Exists, Get*, Peek*, GetNext* (209-534) | Read-only, apart from the DECREF/INCREF of the values passed and returned. |
| Ownership | `fObjectsOb` / `fObjectsLocalFree`, `_ObMap_ObFreeAllObjects`, the close callback (76-115) | References or buffers that the map owns. |
| Concurrency gate | `OB_MAP_CALL_SYNCHRONIZED_IMPLEMENTATION_WRITE/READ` (54-70) | Every public call runs its whole body under the SRW lock after `OB_MAP_IS_VALID`: shared for reads and Filter, exclusive for writes. `ObMap_Clear` reads `c` once before taking the lock. |

The public calls interact only through the map's state, under one lock.

The parts interact as follows:
- A push may grow the hash tables. Growth re-inserts every entry and, the first time, moves the storage from small mode to large mode.
- A removal moves the last entry, so it touches both hash tables twice.
- A sort rewrites the storage and rebuilds both tables.
- Ownership ties each entry to one reference or buffer, released by exactly one of:
  - the removal calls that hand the value to the caller;
  - RemoveByFilter, Clear or the close callback, which release it themselves.

### What is hard about it

Under the lock every call is atomic, so most of the difficulty lies in long
legal sequences of calls and in the error paths. The hazards are listed in `PROJECT.json` at the line
where each one bites:
- The backward-shift re-hash of `_ObMap_RemoveHash` on clusters that wrap around.
- The four hash updates of a swap-remove.
- A grow at exactly the threshold.
- A LocalAlloc failing at one of four sites part-way through a push.
- The bit arithmetic of `_ObMap_QFind`.
- The iterator protocols, which allow some concurrent mutations and forbid others.
- The lock itself: callbacks run while it is held, SRW locks are not recursive, and a waiting writer holds back new readers. `ObMap_Clear` acts on a count read before the lock.

## Modules

| Module | Models |
|---|---|
| `ObMapAbstract.tla` | The contract of an `ObMap`. It holds `entries`, a sequence of unique non-NULL values (keys unique unless NOKEY), and the answer of every call. |
| `ObMap.tla` | `ob_map.c`: the storage, both hash tables, every mutating and reading public call, the ownership counts and the close callback. |
| `MC_ObMap.tla` | Model values for `ObMap`, chosen for their hash collisions, and the VIEW. |
| `ObMapQFind.tla` | `_ObMap_QFind` as a pure RECURSIVE operator, run on every sorted key sequence within bounds and compared with a reference definition. |
| `ObMapIterator.tla` | Extends `ObMap`. One thread iterates with one of the four cursor protocols while a second thread pushes, removes or pops. `_ObMap_GetNextByKeySorted` uses `QFind` through an `INSTANCE` of `ObMapQFind`. |
| `MC_ObMapIterator.tla` | The value and key sets for the iterator runs. |
| `ObMapLock.tla` | Extends `ObMap`. Threads make calls split at the SRW lock: entry, acquire, body, release. `_ObMap_Push` is split before its hash insertion. In an OB map it counts the references that callers own. |
| `MC_ObMapLock.tla` | The threads and the calls each makes. |
| `ObMapLockReenter.tla` | Extends `ObMapLock`. The Filter callback of a thread in `REENTER` calls `ObMap_Size` on the same map, which takes the lock shared a second time. |
| `MC_ObMapLockReenter.tla` | A pushing thread and a re-entering filtering thread. |

### ObMap: state

`pm` is a record with the fields of `struct tdOB_MAP`:

| Field | Meaning |
|---|---|
| `c` | Count of entries; entry 0 is reserved. |
| `cHashMax`, `cHashGrowThreshold` | Hash table size and the count at which a push grows the tables. |
| `fLargeMode` | The map has left small mode. |
| `directory[d]` | `"SMALL"`, `"TABLE"` or `"NULL"`. |
| `stores` | The `<<d, t>>` store blocks that are allocated. |
| `store[i]` | The `[k, v]` of entry `i`. |
| `hashKey`, `hashValue` | Slot to entry index; 0 is free. |

The other variables:

| Variable | Meaning |
|---|---|
| `valid` | The map object is alive. |
| `mapRef[x]` | How many references (OB) or buffers (LOCALFREE) of value `x` the map owns. |
| `released` | The values released by the last call. |
| `ret` | The last call, its arguments and its result. A `BOOL` result is the `int` the C function returns (1 or 0), so every result is an integer, as in the code. TLC can then compare any two states, which liveness checking needs. |

### ObMapIterator

The iterating thread is the caller loop the comments at lines 428-497
describe. It starts with the not-found sentinel and passes each answer back
into the next call until the answer is NULL.

| Variable | Meaning |
|---|---|
| `mode` | The protocol the caller uses, one of the constant `MODES`, fixed in the initial state. |
| `phase` | `"before"` the loop, `"running"`, or `"done"` once NULL came back. |
| `cur`, `curKey` | The object last returned and its key: the `pvObject` and `qwKey` of the next call. |
| `idx` | The caller's `dwIndex` (`GetNextByIndex` only). It starts at the constant `CallerIndex`. |
| `seen` | Every object returned so far, in order. |
| `start`, `gone` | The values in the map when the loop began, and the values the other thread removed since then. |
| `held` | The Ob references the iterating caller owns, per object (OB maps). |

The actions:
- `IterCall` is one call of the public wrapper. It is atomic because the whole body runs under the shared lock. Four operators give the entry index that each call reads:
  - `GetNextIndex` models `_ObMap_GetNext`, lines 255-264;
  - `GetNextByKeyIndex` models `_ObMap_GetNextByKey`, lines 266-275;
  - `GetNextByKeySortedIndex` models `_ObMap_GetNextByKeySorted`, lines 350-364. It calls `QFind` on the keys of entries `1..c-1`;
  - `GetNextByIndexCursor` models `_ObMap_GetNextByIndex`, lines 277-286. It uses DWORD arithmetic for the decrement.

  An index outside `[1, c-1]` reads NULL, as `_ObMap_GetByEntryIndex` does.
  In an OB map the call also moves the caller's references. `ObDecref` is the
  `Ob_DECREF(pvObject)` that each `_ObMap_GetNext*` makes first (lines 261,
  272, 284, 353). `GetByEntryIndexRef` is the `Ob_INCREF` of the answer in
  `_ObMap_GetByEntryIndex` (line 245). Both are no-ops on NULL, and both are
  defined in `ObMap`. No property is stated over `held`: each call is one
  atomic step, so the count follows from that step's own assignment. The
  consequence that needs two threads, an object that one thread holds
  outliving another thread's release, is `HeldObjectsAlive` in `ObMapLock`.
- `IterBegin` sets up the caller's loop.
- `MutatorCall` is a call of the other thread: an `ObMap` action, limited by `MUTATIONS` to what the iteration contract allows:
  - pushes of new objects (not under `GetNextByKeySorted`, whose map must stay sorted: spec.md section 7 makes sorted search on an unsorted map undefined);
  - pushes of keys above every present key, which keep a sorted map sorted;
  - removal of an object returned before the current one;
  - a pop of the last entry once it has been returned.

### ObMapLock: references held by callers

Two variables count the references that callers own in an OB map:
- `got[t]` is the object that thread `t`'s last call handed it, or NULL;
- `callerRefs[x]` is the number of references to `x` that threads own.

Three steps change them:
- A read answered by `_ObMap_GetByEntryIndex` (`RefReads`: `ObMap_GetByIndex`, `ObMap_GetByKey` and `ObMap_Peek`) takes a new reference through `GetByEntryIndexRef`.
- `ObMap_Remove` takes over the map's reference, because `_ObMap_RetrieveAndRemoveByEntryIndex` does not release it.
- `CallerRelease` is the caller's own `Ob_DECREF` after the call returns, the "CALLER DECREF(if OB): return" of those functions.

`ObMap_RemoveByFilter` and `ObMap_Clear` release the map's references under the exclusive lock. `ObMap_Remove`'s comment (lines 659-665) lacks the "CALLER DECREF(if OB)" line that its siblings `ObMap_RemoveByKey` and `ObMap_Pop` carry, although it hands the caller the map's reference just as they do. A caller that follows the comment leaks the object. The model's caller always drops what it got.

### ObMap: operators and actions

The helpers are pure operators from map to map, named after the C functions
they model:

| Operator | C function |
|---|---|
| `InsertHash` / `FreeSlot` | `_ObMap_InsertHash` |
| `RemoveHash` / `SlotOf` / `RehashCluster` | `_ObMap_RemoveHash` |
| `GetEntryIndex` / `Probe` | `_ObMap_GetEntryIndexFromKeyOrValue` |
| `Grow` | `_ObMap_Grow` |
| `ObMapPush` | `_ObMap_Push` |
| `RetrieveAndRemove` | `_ObMap_RetrieveAndRemoveByEntryIndex` |
| `FilterRemove` | the loop of `_ObMap_RemoveByFilter` |
| `SortBy` | `_ObMap_SortEntryIndex` |

Each action composes these operators in the order the C code calls them. Each
public call is one action:
- `ObMap_Push`, `ObMap_PushCopy`
- `ObMap_Remove`, `ObMap_RemoveByKey`, `ObMap_Pop`, `ObMap_PopWithKey`
- `ObMap_RemoveByFilter`, `ObMap_Clear`
- `ObMap_SortEntryIndex`, `ObMap_SortEntryIndexByKey`
- `Reads`
- `ObMap_Filter`, `ObMap_FilterSet`
- `ObMap_Close`, the last DECREF
- `InvalidCall`, a call on a destroyed map

The model abstracts these things:
- **Allocation failures.** Each call chooses which of the sites in `AllocMayFail` fail. The sites are the grow hash buffer, the grow Directory[0] table, the push table, the push store, the sort scratch buffer and the PushCopy buffer. `ObMapPush` keeps the C order of early returns, so a failure leaves exactly the partial state the code leaves.
- **Filter and FilterSet.** The answer of `ObMap_Filter` records the callback's calls, `(k, v)` of entries `1..c-1` in index order. `ObMap_FilterSet` is modelled with `ObMap_FilterSet_FilterAllKey`, the one callback of this file; the `ObSet` it returns is the set of keys pushed, and `ObSet_New` may fail (site `"set"`).
- **RemoveByFilter callback.** The RemoveByFilter callback accepts the values of a set `S`. Every `S` is enumerated.
- **qsort.** Its result is any permutation the comparator allows. For a caller's comparator that is every permutation. For the key comparator it is every permutation in ascending key order, since qsort is not stable and a NOKEY map has equal keys.
- **Hash function.** `OB_MAP_HASH_FUNCTION` modulo a power-of-two size is computed exactly for the small keys and values used (see the comment on `HASH`).
- **Sizes.** The storage constants and the initial table size are scaled down (`ENTRIES_*`, `HASH_MAX_INIT`, `HASH_GROW_THRESHOLD_INIT`), with the same macros and the same ratios.

`ObMap` is shown to implement `ObMapAbstract`:
- The refinement mapping is `AbsEntries`, the entries `1..c-1` in index order (the empty sequence once the map is destroyed).
- `ObMapContract == Abstract!Spec` is checked as a PROPERTY.
- The abstract actions fix the answer of every call. The refinement therefore checks the whole contract:
  - every read answer, computed by the hash lookups;
  - that every removal is a swap-remove;
  - that Pop keeps the order;
  - that a sort gives a permutation;
  - that a failed push leaves the entries unchanged.

## Runs

| Run | Cfg | Expect | What it shows |
|---|---|---|---|
| `obmap_keyed_ob` | `MC_ObMap.cfg` | pass (about 14,000 distinct states, 65 s) | A keyed map with OB ownership keeps its invariants and the contract. The paging is 2 directories × 2 tables × 4 entries and the initial hash size is 4 with threshold 3, so the third push grows the tables and leaves small mode, and the fourth entry needs a second store block. Allocation failures at the grow hash buffer, table, store, sort and `ObSet_New` sites. |
| `obmap_nokey_localfree` | `MC_ObMap_nokey.cfg` | pass | A NOKEY map with heap-owned copies: only the value table, duplicate keys, a capacity of 4 met just after a grow, PushCopy with its copy allocation failing. |
| `obmap_grow_directory_fail` | `MC_ObMap_growfail.cfg` | violation of `StorageReachable` | **Code bug** (line 808), described below. |
| `obmap_localfree_removal` | `MC_ObMap_localfree.cfg` | violation of `RemovalFreesHeapCopy` | **Divergence** (lines 605/668), described below. |
| `iter_forward` | `MC_ObMapIterator_forward.cfg` | pass (about 40,000 states) | The map owns Ob references (OB), and the caller's references are counted in `held`. The caller uses one of `ObMap_GetNext`, `ObMap_GetNextByKey` and `ObMap_GetNextByKeySorted`, chosen in the initial state. Meanwhile the other thread pushes and pops visited entries. The map has 3 values, the hash table has 4 slots and the threshold is 3, so a push between two calls can grow and re-fill the tables. Under the sorted protocol pushes have keys above every key, and a pop of the current entry followed by such a push sends the next call down the `_ObMap_QFind` path. |
| `iter_byindex_start` | `MC_ObMapIterator_byindex.cfg` | violation of `IterCompletes` | **Code bug** (line 280), described below. |
| `iter_getnext_remove_visited` | `MC_ObMapIterator_getnext_remove.cfg` | violation of `IterCompletes` | **Divergence** (line 263), described below. |
| `iter_sorted_key0` | `MC_ObMapIterator_sorted_key0.cfg` | violation of `IterNoRepeat` | **Spec gap** (line 354), described below. |
| `iter_sorted_nokey` | `MC_ObMapIterator_sorted_nokey.cfg` | violation of `IterNoRepeat` | **Divergence** (line 356), described below. |
| `lock_two_threads` | `MC_ObMapLock.cfg` | pass (about 77,000 states) | Two threads on an OB map, two calls each, of every kind: Push, Remove, RemoveByFilter, Clear, a read and Filter. All calls return, and the interleaving refines `ObMapAbstract`. This covers Clear's pre-check racing a push or removal of the other thread, and Clear's re-check path under the lock. An object that one thread got from a read or a removal stays alive while the other thread removes it, filters it out or clears the map. |
| `lock_filter_reenter_deadlock` | `MC_ObMapLockReenter.cfg` (module `MC_ObMapLockReenter`) | violation of `AllCallsReturn` | **Spec gap** (line 381), described below. |
| `qfind_reference` | `MC_ObMapQFind.cfg` | pass (6,428 states) | `_ObMap_QFind` agrees with "the index of the key, or of the first larger key" on every strictly ascending key sequence of 1..40 entries and every query, and on every ascending sequence with repeats of 1..7 entries over 3 keys. It never reads outside `[1, cMap]`. |

**The bug at line 808.** A push reaches the grow threshold, and `LocalAlloc` of the new Directory[0] table in `_ObMap_Grow` fails. The code has assigned the result directly to `pm->Directory[0]`, so Directory[0] is now NULL while `fLargeMode` is still FALSE, and the new hash buffer leaks. TLC's trace is three pushes, the third failing at the grow. After it, every entry lookup dereferences NULL. spec.md section 7 says an allocation failure rolls back its partial state.

**The divergence at lines 605/668.** spec.md section 4.3 says removal from a heap-owned-copy map releases the value at once. In the code, `ObMap_Remove`, `ObMap_RemoveByKey` and `ObMap_Pop` return the buffer to the caller without `LocalFree`. TLC's trace is one push followed by one removal.

**The bug at line 280.** `_ObMap_GetNextByIndex` sets the cursor to `c-1` when `pvObject` is non-NULL, and decrements it when `pvObject` is NULL. Its comment (lines 482-484) and spec.md 4.4 say the opposite: NULL starts the iteration and overrides `dwIndex`. Started as documented, with dwIndex 0, the cursor wraps to 0xFFFFFFFF and the first call returns NULL on a map of three entries. With any other start, every later call resets the cursor to `c-1`, and the last entry comes back forever.

**The divergence at line 263.** spec.md 4.4 says that removing already-visited entries during an iteration is safe. TLC's trace with `ObMap_GetNext`:
1. Three entries are pushed.
2. The iterator returns two of them.
3. The other thread removes the first.
4. The swap-remove moves the third, unvisited entry into slot 1.
5. The next call continues from slot 3 and returns NULL.

The code's own comment (lines 431-433) warns against any Remove during GetNext.

**The spec gap at line 354.** `ObMap_Push` accepts key 0, but `_ObMap_GetNextByKeySorted` reads key 0 as "start". After it returns the entry with key 0, the next call restarts at index 1. Neither the comment nor the spec excludes key 0.

**The divergence at line 356.** A NOKEY map has no key table, so the lookup always fails. `_ObMap_QFind` then returns the current key's own index, and the same object comes back on every call. spec.md 4.4 says the call resolves "the key's exact index+1 if present".

**The spec gap at line 381.** `_ObMap_Filter` calls the callback with the lock held shared. TLC's trace:
1. T1 pushes an entry.
2. T2 calls `ObMap_Filter` and takes the lock shared.
3. T1 calls `ObMap_Push` and waits in `AcquireSRWLockExclusive`.
4. T2's callback calls `ObMap_Size`, whose shared acquire waits behind T1.

T1 waits for T2 and T2 waits for T1. spec.md section 5 forbids only ownership calls from re-entering the map.

### Properties

- `TypeOK`: the type of every variable. It also checks that `cHashGrowThreshold / cHashMax` keeps its initial ratio.
- `HashIndexConsistent`: checked on both tables in use.
  - Each live entry index sits in exactly one slot, and no slot holds a dead index.
  - A free slot remains, so every probe loop of the code terminates.
  - Probing from an entry's key or value finds that entry.

  This invariant is what the backward shift, the swap, the grow re-insertion and the sort rebuild must all preserve.
- `OwnershipExact`: the map owns exactly one reference or buffer per live value, and none after destruction. This rules out both leaks and double releases across all the swaps.
- `StorageReachable`: every live entry's table and store block is allocated, so the three-level lookup never follows NULL.
- `ObMapContract`: the refinement described above.
- `RemovalFreesHeapCopy`: the spec's statement of immediate release. It is an action property and appears only in the violation run.
- `QFindCorrect` and `QFindInBounds`: see `qfind_reference` above.
- `IterNoRepeat`: one pass returns no object twice, across the other thread's pushes, grows and allowed removals. New objects are fresh values, so a repeat is a real repeat of an entry.
- `IterCompletes` (liveness): every iteration ends, and by then it has returned every object that was present at its start and has not been removed since.
- `IterSortedSuccessor` (action property): in a sorted map, each call answers the entry with the smallest key larger than the caller's key, or NULL if there is none. This is the comment's "the next object with a larger key". It must hold on both the key-table path and the `_ObMap_QFind` path.


- `LockTypeOK`: the type of the lock module's variables. A thread holds at most one shared acquisition.
- `HeldObjectsAlive`: in an OB map, an object that a thread got from a read or a removal keeps a nonzero count (map references plus caller references) until that thread drops it. Breaking it takes two threads: a read that took no reference, then the other thread's removal and release, or its RemoveByFilter or Clear.
- `AllCallsReturn` (liveness): every call of every thread returns. No thread waits for the lock forever.
- `LockedContract`: `ObMapContract` under the threads' interleaving. Each call takes effect at one step: the Push at its entry write, Clear on an empty map at its unlocked read, the others at their body. A read between a Push's count increment and its hash insertion would break it.

### Checking the checks

Every property of a passing run has a mutant in `PROJECT.json`:
- a threshold that is not doubled;
- a removal that does not shift the probe cluster back;
- a filter that does not release;
- a grow that loses `Store00`;
- GetByIndex off by one;
- a key comparator that compares values;
- two off-by-ones in the walk of `_ObMap_QFind`;
- for each forward protocol, a next index that answers the found entry again (breaks `IterNoRepeat`) or steps two entries (breaks `IterCompletes`);
- a QFind answer stepped past by one (breaks `IterSortedSuccessor`);
- a read call that does not wait for the lock (breaks `LockedContract`);
- Clear's re-check path returning without `ReleaseSRWLockExclusive` (breaks `AllCallsReturn`);
- a release that keeps the shared hold (breaks `LockTypeOK`);
- `_ObMap_GetByEntryIndex` without its `Ob_INCREF` (breaks `HeldObjectsAlive`: the other thread frees an object a reader still uses).

The variant operators sit in the modules just before the definitions they replace.

A mutant of QFind's `i + dwStep <= cMap` guard was tried and removed. The guard never changes the result: the binary steps sum to less than the start index, which is at most `(cMap-1)/2`. No mutant of that guard is observable.

### Bounds and the VIEW

**Values and keys.** They are small integers chosen so that hashes collide:
- In the 4-slot table, values 3 and 11 share a slot and 4 and 8 share slot 0. The clusters wrap around.
- In the 8-slot table, 3 and 11 share slot 7.
- Keys 0, 8 and 16 share slot 0 in both tables.

So the backward shift, wrap-around and re-insertion cases all occur. Four values suffice to cross the grow threshold (3), to need the second store block (entry 4) and to fill a NOKEY map to capacity.

**The VIEW.** `MCView` leaves out `ret`, `released` and the store slots at or beyond `c`. No action reads them, and two states that differ only there have the same successors. Invariants and action properties are still evaluated on every transition TLC generates.

## Fairness

`ObMap` and `ObMapQFind` assume none: the code has no background thread, and
every step is a caller's call.

`ObMapIterator` assumes weak fairness of `IterCall` alone. The iterating
thread is the loop the comments describe, which calls again until it gets
NULL. A call takes only the shared SRW lock, and every call releases it.
The other thread is a caller that need not call at all, so `MutatorCall`
has no fairness. Its calls are bounded anyway: pushes by the capacity and the
fresh values, removals by the visited entries.

`ObMapLock` and `ObMapLockReenter` assume weak fairness of each thread's step. The threads are
ordinary OS threads that each make `CALLS` calls. A blocked acquire is
enabled again whenever the lock becomes free for it. Because every thread's
calls are bounded, readers cannot hold the lock forever, so weak fairness
suffices although SRW locks are not fair. Once every thread has made its
calls the system stops (`Finished`).

`ObMapLock` splits only what the lock guards against:
- Push is split before its hash insertion.
- The other bodies stay atomic.

Clear's unlocked read of `c` may see the count at any point of another
writer's body. `c` changes once per Push, Remove or Clear. In
RemoveByFilter it only falls, and it reaches 1 only at the last removal.
So an intermediate value never leads Clear to a decision that the value
before or after that body would not also lead to. The read is an aligned
DWORD, which x86 and x64 read whole.

## Not modelled (yet)

- **The address of a released `pvObject`** (line 261). When the other thread has popped the caller's object, the GetNext call's `Ob_DECREF` is the last one. The lookup that follows then compares the address of a freed object. It compares only the address, under the same shared lock, so no push can reuse the address in between. The model has the lookup fail, as the code's does.
- **The READ wrapper on an invalid map** (line 64). It returns NULL without the promised `Ob_DECREF` of `pvObject`. A caller that iterates owns a reference to the map, so the map cannot become invalid during the loop.
- **`ObSet`** beyond the set of keys FilterSet pushes into it: it is not in this repository.
- **Callbacks of RemoveByFilter that re-enter the map** (line 624). The lock is held exclusively and SRW locks are not recursive, so the first such call hangs whatever other threads do.
- **`ObMap_Close` during a call.** Callers call through a reference they hold, so the last DECREF cannot run during a call. `ObMapLock` keeps the map valid.
- **`ObMap_New` rejecting OB together with LOCALFREE.** The flags are constants, and an ASSUME rules out the rejected combination.
- **`version.h`.**

## Plan

This is the order of work, most important first:
1. **Finer lock bodies.** Split `_ObMap_RetrieveAndRemoveByEntryIndex` and the grow re-insertion the way Push is split. Add the remaining calls to `ObMapLock`, and a third thread.
2. **Larger iterator instances.** More values and the OB/LOCALFREE modes, and removal of the current entry under `GetNextByKey`.
