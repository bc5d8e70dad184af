\* The three forward protocols over a keyed map while another thread
\* pushes (keys above every key under GetNextByKeySorted, any key under the
\* others, through a hash-table grow) and pops visited entries, so that a
\* GetNextByKeySorted lookup of a popped key falls back to _ObMap_QFind.
CONSTANTS
  Keys <- MCKeys
  NOKEY = FALSE
  MODES = {"GetNext", "GetNextByKey", "GetNextByKeySorted"}
  MUTATIONS = {"push", "push_sorted", "pop_visited"}
  Values <- MCValues
  ENTRIES_DIRECTORY = 1
  ENTRIES_TABLE = 1
  ENTRIES_STORE = 4
  HASH_MAX_INIT = 4
  HASH_GROW_THRESHOLD_INIT = 3
  AllocMayFail = {}
  OWNERSHIP = "OB"
  CallerIndex = 0
SPECIFICATION IterSpec
INVARIANT IterNoRepeat
PROPERTY IterCompletes IterSortedSuccessor
