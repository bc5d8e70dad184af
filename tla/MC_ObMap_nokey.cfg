\* Map created with OB_MAP_FLAGS_NOKEY | OB_MAP_FLAGS_OBJECT_LOCALFREE, with
\* one directory of one table of one store: the capacity is 4 so a fourth
\* push meets the capacity check just after the first grow.
CONSTANTS
  Keys <- MCKeysNoKey
  Values <- MCValues
  NOKEY = TRUE
  OWNERSHIP = "LOCALFREE"
  ENTRIES_DIRECTORY = 1
  ENTRIES_TABLE = 1
  ENTRIES_STORE = 4
  HASH_MAX_INIT = 4
  HASH_GROW_THRESHOLD_INIT = 3
  AllocMayFail = {"grow_hash", "copy", "sort"}

SPECIFICATION Spec
VIEW MCView
INVARIANT HashIndexConsistent
INVARIANT OwnershipExact
PROPERTY ObMapContract
