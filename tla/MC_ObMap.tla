------------------------------ MODULE MC_ObMap ------------------------------
(***************************************************************************)
(* Model values for ObMap.  The values and keys are chosen for their       *)
(* hashes: in the 4-slot table of small mode the values 3 and 11 share    *)
(* slot 3 and 4 and 8 share slot 0, so clusters wrap around; in the 8-slot *)
(* table after the first grow 3 and 11 share slot 7 and 8 its wrap        *)
(* target 0.  The keys 0, 8 and 16 share slot 0 in both tables.           *)
(***************************************************************************)
EXTENDS ObMap

MCValues == {3, 4, 8, 11}
MCKeys == {0, 5, 8, 16}

\* A NOKEY map does not hash its keys; two keys let entries share one.
MCKeysNoKey == {0, 8}

\* States that differ only in what no action reads are merged: ret and
\* released are only written, and no call reads a store slot at or past
\* c.  Invariants and action properties are still checked on every
\* transition, since the successors of merged states are the same.
MCView == <<[pm EXCEPT !.store = [i \in 1..(pm.c - 1) |-> pm.store[i]]], valid, mapRef>>

=============================================================================
