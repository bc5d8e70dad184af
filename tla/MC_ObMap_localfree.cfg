\* A keyed map created with OB_MAP_FLAGS_OBJECT_LOCALFREE; no allocation
\* fails.
CONSTANTS
  Keys <- MCKeys
  Values <- MCValues
  NOKEY = FALSE
  OWNERSHIP = "LOCALFREE"
  ENTRIES_DIRECTORY = 2
  ENTRIES_TABLE = 2
  ENTRIES_STORE = 4
  HASH_MAX_INIT = 4
  HASH_GROW_THRESHOLD_INIT = 3
  AllocMayFail = {}

SPECIFICATION Spec
VIEW MCView
PROPERTY RemovalFreesHeapCopy
