\* Keyed map owning object-manager references, the paging scaled so that
\* a fourth entry needs a second store block, every allocation but the
\* Directory[0] table of _ObMap_Grow allowed to fail.
CONSTANTS
  Keys <- MCKeys
  Values <- MCValues
  NOKEY = FALSE
  OWNERSHIP = "OB"
  ENTRIES_DIRECTORY = 2
  ENTRIES_TABLE = 2
  ENTRIES_STORE = 4
  HASH_MAX_INIT = 4
  HASH_GROW_THRESHOLD_INIT = 3
  AllocMayFail = {"grow_hash", "table", "store", "sort", "set"}

SPECIFICATION Spec
VIEW MCView
INVARIANT TypeOK
INVARIANT HashIndexConsistent
INVARIANT OwnershipExact
INVARIANT StorageReachable
PROPERTY ObMapContract
