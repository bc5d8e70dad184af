----------------------------- MODULE ObMapLock -----------------------------
(***************************************************************************)
(* Threads calling one ObMap through its reader/writer lock pm->LockSRW.   *)
(* A public call is split at the points where another thread can run:      *)
(*   Begin            the entry of the call; ObMap_Clear reads pm->c here   *)
(*                    without the lock (ob_map.c line 706)                  *)
(*   acquire          AcquireSRWLockShared / AcquireSRWLockExclusive        *)
(*   body             the work under the lock: one ObMap action, except     *)
(*                    that _ObMap_Push stops before its two                 *)
(*                    _ObMap_InsertHash calls                               *)
(*   release          ReleaseSRWLockShared / ReleaseSRWLockExclusive        *)
(* The SRW lock is neither recursive nor fair; a thread waiting for         *)
(* exclusive access holds back new shared acquirers, which is why the      *)
(* Windows documentation warns that recursive shared acquisition may       *)
(* deadlock.  The map stays valid here: a thread calls it through a        *)
(* reference it holds, so the last Ob_DECREF cannot run during a call.     *)
(***************************************************************************)
EXTENDS ObMap

CONSTANTS
  Threads,     \* the threads calling the map
  NoThread,    \* no exclusive owner
  OPS,         \* OPS[t]: the calls thread t makes, a subset of OpKinds
  CALLS        \* calls each thread makes

OpKinds == {"Push", "Remove", "RemoveByFilter", "Clear", "Read", "Filter"}
ReadOps == {"Read", "Filter"}

ASSUME /\ NoThread \notin Threads
       /\ OPS \in [Threads -> SUBSET OpKinds]
       /\ CALLS \in Nat

VARIABLES
  pc,       \* pc[t]: where thread t is in its current call
  op,       \* op[t]: the call in progress ("none" when idle)
  owner,    \* the thread holding LockSRW exclusively, or NoThread
  shared,   \* shared[t]: the shared acquisitions thread t holds
  calls,    \* calls[t]: the calls thread t has completed
  got,      \* got[t]: the object thread t's last call handed it, or NULL
  callerRefs \* callerRefs[x]: the Ob references to x the threads own (OB)

lockVars == <<pc, op, owner, shared, calls>>
refVars == <<got, callerRefs>>
allVars == <<pm, valid, mapRef, released, ret, pc, op, owner, shared, calls, got, callerRefs>>
mapVars == <<pm, valid, mapRef, released, ret>>

Pcs == {"idle", "acquire_shared", "acquire_exclusive", "body", "insert_hash", "release", "use"}

LockInit ==
  /\ Init
  /\ pc = [t \in Threads |-> "idle"]
  /\ op = [t \in Threads |-> "none"]
  /\ owner = NoThread
  /\ shared = [t \in Threads |-> 0]
  /\ calls = [t \in Threads |-> 0]
  /\ got = [t \in Threads |-> NULL]
  /\ callerRefs = [x \in Values |-> 0]

Goto(t, l) == pc' = [pc EXCEPT ![t] = l]

\* A thread blocked in AcquireSRWLockExclusive.
WriterWaiting == \E t \in Threads : pc[t] = "acquire_exclusive"

\* Variant of CanShare for a read call that does not take the lock.
CanShareUnlocked == TRUE

\* AcquireSRWLockShared returns when no thread owns the lock exclusively and
\* no thread waits to.
CanShare == owner = NoThread /\ ~WriterWaiting

\* AcquireSRWLockExclusive returns when no thread holds the lock at all.
CanOwn == owner = NoThread /\ \A u \in Threads : shared[u] = 0

Done(t) == calls' = [calls EXCEPT ![t] = @ + 1]

(***************************************************************************)
(* Entry and the lock.                                                     *)
(***************************************************************************)

\* A thread starts a call.  Reads take the lock shared, writes exclusive.
\* ObMap_Clear first reads pm->c without the lock and returns TRUE at once
\* if it sees an empty map.
Begin(t) ==
  /\ pc[t] = "idle"
  /\ calls[t] < CALLS
  /\ \E o \in OPS[t] :
       \/ /\ o = "Clear" /\ pm.c <= 1
          /\ Answer("Clear", <<>>, BOOL(TRUE))
          /\ Done(t)
          /\ UNCHANGED <<pc, op, owner, shared, valid, got, callerRefs>>
       \/ /\ o # "Clear" \/ pm.c > 1
          /\ Goto(t, IF o \in ReadOps THEN "acquire_shared" ELSE "acquire_exclusive")
          /\ op' = [op EXCEPT ![t] = o]
          /\ UNCHANGED <<mapVars, owner, shared, calls, got, callerRefs>>

AcquireShared(t) ==
  /\ pc[t] = "acquire_shared"
  /\ CanShare
  /\ shared' = [shared EXCEPT ![t] = @ + 1]
  /\ Goto(t, "body")
  /\ UNCHANGED <<mapVars, op, owner, calls, got, callerRefs>>

AcquireExclusive(t) ==
  /\ pc[t] = "acquire_exclusive"
  /\ CanOwn
  /\ owner' = t
  /\ Goto(t, "body")
  /\ UNCHANGED <<mapVars, op, shared, calls, got, callerRefs>>

\* Variant of ReleaseLock that leaves a shared hold in place.
ReleaseLockKeepShared(t) ==
  /\ pc[t] = "release"
  /\ IF op[t] \in ReadOps
     THEN UNCHANGED <<shared, owner>>
     ELSE owner' = NoThread /\ UNCHANGED shared
  /\ Goto(t, IF got[t] # NULL THEN "use" ELSE "idle")
  /\ op' = [op EXCEPT ![t] = "none"]
  /\ Done(t)
  /\ UNCHANGED <<mapVars, got, callerRefs>>

\* The call returns: the lock is released in the mode it was taken.
ReleaseLock(t) ==
  /\ pc[t] = "release"
  /\ IF op[t] \in ReadOps
     THEN shared' = [shared EXCEPT ![t] = @ - 1] /\ UNCHANGED owner
     ELSE owner' = NoThread /\ UNCHANGED shared
  /\ Goto(t, IF got[t] # NULL THEN "use" ELSE "idle")
  /\ op' = [op EXCEPT ![t] = "none"]
  /\ Done(t)
  /\ UNCHANGED <<mapVars, got, callerRefs>>

(***************************************************************************)
(* The bodies.                                                             *)
(***************************************************************************)

Body(t, o) == pc[t] = "body" /\ op[t] = o /\ UNCHANGED valid

\* _ObMap_Push up to pe->v = pvObject: checks, grow, block allocation,
\* Ob_INCREF, pm->c++ and the entry written.  A failed push is done.
PushEnter(t) ==
  /\ Body(t, "Push")
  /\ \E k \in Keys, v \in Values \cup {NULL}, fail \in SUBSET (AllocMayFail \cap PushSites) :
       LET r == ObMapPush(pm, k, v, fail) IN
       /\ pm' = IF r.ok THEN r.entered ELSE r.pm
       /\ mapRef' = IF r.ok THEN Acquire(v) ELSE mapRef
       /\ released' = {}
       /\ ret' = Call("Push", <<k, v>>, BOOL(r.ok))
       /\ Goto(t, IF r.ok THEN "insert_hash" ELSE "release")
  /\ UNCHANGED <<op, owner, shared, calls, got, callerRefs>>

\* The two _ObMap_InsertHash calls that end _ObMap_Push.
PushInsertHash(t) ==
  /\ pc[t] = "insert_hash"
  /\ pm' = InsertHash(InsertHash(pm, TRUE, pm.c - 1), FALSE, pm.c - 1)
  /\ Goto(t, "release")
  /\ UNCHANGED <<valid, mapRef, released, ret, op, owner, shared, calls, got, callerRefs>>

RemoveBody(t) ==
  /\ Body(t, "Remove")
  /\ \E v \in Values \cup {NULL} : ObMap_Remove(v)
  /\ got' = [got EXCEPT ![t] = ret'.ret]
  /\ callerRefs' = IF ObjectsOb /\ ret'.ret # NULL THEN [callerRefs EXCEPT ![ret'.ret] = @ + 1]
                   ELSE callerRefs
  /\ Goto(t, "release")
  /\ UNCHANGED <<op, owner, shared, calls>>

\* _ObMap_RemoveByFilter: the callback picks the entries S to remove, and
\* each is Ob_DECREFed (or LocalFreed) under the exclusive lock.
RemoveByFilterBody(t) ==
  /\ Body(t, "RemoveByFilter")
  /\ \E S \in SUBSET Values : ObMap_RemoveByFilter(S)
  /\ Goto(t, "release")
  /\ UNCHANGED <<op, owner, shared, calls, got, callerRefs>>

\* Variant of ClearLocked that returns on the re-check path without
\* ReleaseSRWLockExclusive.
ClearLockedNoRelease(t) ==
  /\ Body(t, "Clear")
  /\ ObMap_Clear
  /\ IF pm.c <= 1 THEN Goto(t, "idle") /\ Done(t) /\ op' = [op EXCEPT ![t] = "none"]
                  ELSE Goto(t, "release") /\ UNCHANGED <<calls, op>>
  /\ UNCHANGED <<owner, shared, got, callerRefs>>

\* ObMap_Clear under the exclusive lock: pm->c is checked again, since
\* another writer may have emptied the map since the unlocked read.
ClearLocked(t) ==
  /\ Body(t, "Clear")
  /\ ObMap_Clear
  /\ Goto(t, "release")
  /\ UNCHANGED <<op, owner, shared, calls, got, callerRefs>>

ReadBody(t) ==
  /\ Body(t, "Read")
  /\ Reads
  /\ LET x == IF ret'.op \in RefReads THEN ret'.ret ELSE NULL
     IN /\ got' = [got EXCEPT ![t] = x]
        /\ callerRefs' = GetByEntryIndexRef(callerRefs, x)
  /\ Goto(t, "release")
  /\ UNCHANGED <<op, owner, shared, calls>>

\* _ObMap_Filter: the callback sees every entry under the shared lock.
FilterBody(t) ==
  /\ Body(t, "Filter")
  /\ ObMap_Filter(FilterCB)
  /\ Goto(t, "release")
  /\ UNCHANGED <<op, owner, shared, calls, got, callerRefs>>

\* The caller uses the object it was handed and drops it: the "CALLER
\* DECREF(if OB): return" of ObMap_GetByIndex, ObMap_GetByKey, ObMap_Peek
\* and the removal functions.
CallerRelease(t) ==
  /\ pc[t] = "use"
  /\ callerRefs' = ObDecref(callerRefs, got[t])
  /\ got' = [got EXCEPT ![t] = NULL]
  /\ Goto(t, "idle")
  /\ UNCHANGED <<mapVars, op, owner, shared, calls>>

Step(t) ==
  \/ Begin(t)
  \/ AcquireShared(t)
  \/ AcquireExclusive(t)
  \/ PushEnter(t)
  \/ PushInsertHash(t)
  \/ RemoveBody(t)
  \/ RemoveByFilterBody(t)
  \/ ClearLocked(t)
  \/ ReadBody(t)
  \/ FilterBody(t)
  \/ ReleaseLock(t)
  \/ CallerRelease(t)

\* Every thread has made its calls.
Finished ==
  /\ \A t \in Threads : pc[t] = "idle" /\ calls[t] = CALLS
  /\ UNCHANGED allVars

LockNext == (\E t \in Threads : Step(t)) \/ Finished

\* Each thread's next step is taken once it stays possible: the threads
\* are ordinary OS threads, and a thread blocked on the lock is woken when
\* the lock becomes free for it.
LockSpec == LockInit /\ [][LockNext]_allVars /\ \A t \in Threads : WF_allVars(Step(t))

(***************************************************************************)
(* Properties.                                                             *)
(***************************************************************************)

LockTypeOK ==
  /\ pc \in [Threads -> Pcs]
  /\ op \in [Threads -> OpKinds \cup {"none"}]
  /\ owner \in Threads \cup {NoThread}
  /\ shared \in [Threads -> 0..1]
  /\ calls \in [Threads -> 0..CALLS]
  /\ got \in [Threads -> Values \cup {NULL}]
  /\ callerRefs \in [Values -> 0..Cardinality(Threads)]

\* Every call of every thread returns: no thread waits forever for
\* LockSRW, whatever the other threads do between ObMap_Clear's unlocked
\* read of pm->c and its re-check under the lock.
AllCallsReturn == \A t \in Threads : pc[t] # "idle" ~> pc[t] = "idle"

\* In an OB map, an object a thread got from ObMap_GetByKey, ObMap_GetByIndex,
\* ObMap_Peek or ObMap_Remove stays alive until that thread drops it: no
\* other thread's ObMap_Remove (which hands the map's reference to its own
\* caller, who then drops it) or ObMap_Clear (whose Ob_DECREFs are the
\* map's) takes the last reference from under it.
HeldObjectsAlive ==
  ObjectsOb => \A t \in Threads : got[t] # NULL => mapRef[got[t]] + callerRefs[got[t]] > 0

\* The calls, interleaved by the threads, still behave as the atomic calls
\* of ObMapAbstract (ObMapContract of ObMap): no read sees a Push between
\* its count increment and its hash insertion, and ObMap_Clear answering
\* from its unlocked read of pm->c is the abstract Clear of an empty map.
LockedContract == ObMapContract

=============================================================================
