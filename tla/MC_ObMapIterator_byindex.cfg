\* ObMap_GetNextByIndex started as its comment says: pvObject NULL, dwIndex 0.
CONSTANTS
  Keys <- MCKeys
  NOKEY = FALSE
  MODES = {"GetNextByIndex"}
  MUTATIONS = {"push"}
  Values <- MCValues
  ENTRIES_DIRECTORY = 1
  ENTRIES_TABLE = 1
  ENTRIES_STORE = 4
  HASH_MAX_INIT = 4
  HASH_GROW_THRESHOLD_INIT = 3
  AllocMayFail = {}
  OWNERSHIP = "NONE"
  CallerIndex = 0
SPECIFICATION IterSpec
PROPERTY IterCompletes
