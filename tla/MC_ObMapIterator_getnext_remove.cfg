\* ObMap_GetNext while the other thread removes objects returned before the current one.
CONSTANTS
  Keys <- MCKeys
  NOKEY = FALSE
  MODES = {"GetNext"}
  MUTATIONS = {"push", "remove_earlier"}
  Values <- MCValues
  ENTRIES_DIRECTORY = 1
  ENTRIES_TABLE = 1
  ENTRIES_STORE = 4
  HASH_MAX_INIT = 4
  HASH_GROW_THRESHOLD_INIT = 3
  AllocMayFail = {}
  OWNERSHIP = "NONE"
  CallerIndex = 0
SPECIFICATION IterSpec
PROPERTY IterCompletes
