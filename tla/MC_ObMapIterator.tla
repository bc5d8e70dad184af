-------------------------- MODULE MC_ObMapIterator --------------------------
(***************************************************************************)
(* Model values for ObMapIterator: a map of at most three entries (one     *)
(* store of four slots, entry 0 reserved) whose third push grows the hash *)
(* tables, values 3 and 11 sharing a hash slot, and nonzero keys that      *)
(* ascend with the push order of a sorted map or not.                      *)
(***************************************************************************)
EXTENDS ObMapIterator

MCValues == {3, 4, 11}
MCKeys == {5, 8, 16}

\* Keys including 0, the start value of GetNextByKeySorted.
MCKeysWithZero == {0, 8, 16}

=============================================================================
