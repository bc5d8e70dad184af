\* Two threads, each making two calls of any kind on a keyed OB map.
CONSTANTS
  Keys <- MCKeys
  Values <- MCValues
  NOKEY = FALSE
  OWNERSHIP = "OB"
  ENTRIES_DIRECTORY = 1
  ENTRIES_TABLE = 1
  ENTRIES_STORE = 4
  HASH_MAX_INIT = 4
  HASH_GROW_THRESHOLD_INIT = 3
  AllocMayFail = {}
  T1 = T1
  T2 = T2
  NoThread = NoThread
  Threads <- MCThreads
  OPS <- MCOpsAll
  CALLS = 2

SPECIFICATION LockSpec
INVARIANT LockTypeOK HeldObjectsAlive
PROPERTY AllCallsReturn
PROPERTY LockedContract
