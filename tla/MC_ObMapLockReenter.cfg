\* T1 pushes while T2's Filter callback calls ObMap_Size on the same map.
CONSTANTS
  Keys <- MCKeys
  Values <- MCValues
  NOKEY = FALSE
  OWNERSHIP = "OB"
  ENTRIES_DIRECTORY = 1
  ENTRIES_TABLE = 1
  ENTRIES_STORE = 4
  HASH_MAX_INIT = 4
  HASH_GROW_THRESHOLD_INIT = 3
  AllocMayFail = {}
  T1 = T1
  T2 = T2
  NoThread = NoThread
  Threads <- MCThreads
  OPS <- MCOps
  REENTER <- MCReenter
  CALLS = 2

SPECIFICATION ReenterSpec
CHECK_DEADLOCK FALSE
PROPERTY AllCallsReturn
