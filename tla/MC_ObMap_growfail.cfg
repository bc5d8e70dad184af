\* As MC_ObMap.cfg, but the only allocation that may fail is the
\* Directory[0] table _ObMap_Grow allocates when leaving small mode.
CONSTANTS
  Keys <- MCKeys
  Values <- MCValues
  NOKEY = FALSE
  OWNERSHIP = "OB"
  ENTRIES_DIRECTORY = 2
  ENTRIES_TABLE = 2
  ENTRIES_STORE = 4
  HASH_MAX_INIT = 4
  HASH_GROW_THRESHOLD_INIT = 3
  AllocMayFail = {"grow_directory"}

SPECIFICATION Spec
VIEW MCView
INVARIANT StorageReachable
