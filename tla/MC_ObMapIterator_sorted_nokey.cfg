\* ObMap_GetNextByKeySorted over a sorted map created with OB_MAP_FLAGS_NOKEY.
CONSTANTS
  Keys <- MCKeys
  NOKEY = TRUE
  MODES = {"GetNextByKeySorted"}
  MUTATIONS = {"push_sorted"}
  Values <- MCValues
  ENTRIES_DIRECTORY = 1
  ENTRIES_TABLE = 1
  ENTRIES_STORE = 4
  HASH_MAX_INIT = 4
  HASH_GROW_THRESHOLD_INIT = 3
  AllocMayFail = {}
  OWNERSHIP = "NONE"
  CallerIndex = 0
SPECIFICATION IterSpec
INVARIANT IterNoRepeat
