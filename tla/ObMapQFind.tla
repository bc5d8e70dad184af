----------------------------- MODULE ObMapQFind -----------------------------
(***************************************************************************)
(* _ObMap_QFind of src/leechcore/ob/ob_map.c (lines 288-348): on a map    *)
(* sorted by key, the index of qwKey or else of the next larger key.  It  *)
(* takes coarse binary steps while the step is above 1 and then walks one *)
(* entry at a time.  The operator keeps the DWORD arithmetic (a step below *)
(* 1 wraps modulo 2^32) and records the indexes it reads.                 *)
(*                                                                         *)
(* The check runs it on every key sequence of a bounded length and every  *)
(* query.  For strictly ascending keys (a keyed map) only the order of    *)
(* the query against each key matters, so the keys 2, 4, ..., 2n and the  *)
(* queries 0..2n+1 cover every case of length n.  Ascending keys with     *)
(* repeats (a NOKEY map) are enumerated over a few key values.            *)
(***************************************************************************)
EXTENDS Integers, Sequences, FiniteSets

CONSTANTS
  MAX_LEN_STRICT,   \* longest strictly ascending key sequence checked
  MAX_LEN_REPEAT,   \* longest ascending sequence with repeats checked
  RepeatKeys        \* key values of the sequences with repeats

VARIABLES
  keys,     \* the keys of entries 1..c-1 of a sorted map
  qwKey,    \* the key searched
  searched, \* the call has returned
  result    \* what _ObMap_QFind returned

vars == <<keys, qwKey, searched, result>>

NotFound == [found |-> FALSE, index |-> 0, reads |-> {}]

\* DWORD subtraction: a negative difference wraps to 2^32 + x.  TLC's
\* integers end at 2^31 - 1, so the wrapped index is represented by
\* 2^31 + x: like the real one, far outside every map's [1, cMap].
DWORD(x) == IF x >= 0 THEN x ELSE 2147483647 + (x + 1)

\* pe->k of entry i, and 0 for a slot past the entries (zeroed store).
KeyAt(k, i) == IF i \in DOMAIN k THEN k[i] ELSE 0

\* for(i = 1; ((cMap - 1) >> i); i++);
RECURSIVE Width(_, _)
Width(n, i) == IF n \div 2^i = 0 THEN i ELSE Width(n, i + 1)

\* Variant of Walk that, stepping down past a smaller key, answers i - 1
\* (the index of the smaller key) instead of i + 1 after the decrement.
RECURSIVE WalkNoIncrement(_, _, _, _)
WalkNoIncrement(k, q, i, reads) ==
  LET pk == KeyAt(k, i)
      rd == reads \cup {i}
  IN IF pk < q
     THEN IF i = Len(k) THEN [found |-> FALSE, index |-> 0, reads |-> rd]
          ELSE IF KeyAt(k, i + 1) >= q THEN [found |-> TRUE, index |-> i + 1, reads |-> rd \cup {i + 1}]
          ELSE WalkNoIncrement(k, q, i + 1, rd \cup {i + 1})
     ELSE IF pk > q
     THEN IF i = 1 THEN [found |-> TRUE, index |-> 1, reads |-> rd]
          ELSE IF KeyAt(k, i - 1) < q THEN [found |-> TRUE, index |-> i - 1, reads |-> rd \cup {i - 1}]
          ELSE WalkNoIncrement(k, q, i - 1, rd \cup {i - 1})
     ELSE [found |-> TRUE, index |-> i, reads |-> rd]

\* Variant of Walk without the i == 1 check before stepping down.
RECURSIVE WalkNoFloor(_, _, _, _)
WalkNoFloor(k, q, i, reads) ==
  LET pk == KeyAt(k, i)
      rd == reads \cup {i}
  IN IF pk < q
     THEN IF i = Len(k) THEN [found |-> FALSE, index |-> 0, reads |-> rd]
          ELSE IF KeyAt(k, i + 1) >= q THEN [found |-> TRUE, index |-> i + 1, reads |-> rd \cup {i + 1}]
          ELSE WalkNoFloor(k, q, i + 1, rd \cup {i + 1})
     ELSE IF pk > q
     THEN IF KeyAt(k, i - 1) < q THEN [found |-> TRUE, index |-> i, reads |-> rd \cup {i - 1}]
          ELSE WalkNoFloor(k, q, i - 1, rd \cup {i - 1})
     ELSE [found |-> TRUE, index |-> i, reads |-> rd]

\* The second loop: walk up while keys are smaller, down while larger.
RECURSIVE Walk(_, _, _, _)
Walk(k, q, i, reads) ==
  LET cMap == Len(k)
      pk == KeyAt(k, i)
      rd == reads \cup {i}
  IN IF pk < q
     THEN IF i = cMap THEN [found |-> FALSE, index |-> 0, reads |-> rd]
          ELSE IF KeyAt(k, i + 1) >= q THEN [found |-> TRUE, index |-> i + 1, reads |-> rd \cup {i + 1}]
          ELSE Walk(k, q, i + 1, rd \cup {i + 1})
     ELSE IF pk > q
     THEN IF i = 1 THEN [found |-> TRUE, index |-> 1, reads |-> rd]
          ELSE IF KeyAt(k, i - 1) < q THEN [found |-> TRUE, index |-> i, reads |-> rd \cup {i - 1}]
          ELSE Walk(k, q, i - 1, rd \cup {i - 1})
     ELSE [found |-> TRUE, index |-> i, reads |-> rd]

\* The first loop: binary steps while dwStep > 1.
RECURSIVE Steps(_, _, _, _, _)
Steps(k, q, i, dwStep, reads) ==
  LET cMap == Len(k)
      pk == KeyAt(k, i)
      rd == reads \cup {i}
  IN IF dwStep <= 1 THEN Walk(k, q, i, reads)
     ELSE IF pk < q
     THEN Steps(k, q, IF i + dwStep <= cMap THEN i + dwStep ELSE i, dwStep \div 2, rd)
     ELSE IF pk > q THEN Steps(k, q, DWORD(i - dwStep), dwStep \div 2, rd)
     ELSE [found |-> TRUE, index |-> i, reads |-> rd]

\* _ObMap_QFind(pm, qwKey, &index) for a map whose keys are k.
QFind(k, q) ==
  LET cMap == Len(k)
      w == Width(cMap - 1, 1)
      i0 == LET a == 2^(w - 1)
                b == (cMap - 1) \div 2
            IN IF a < b THEN a ELSE b
      i == IF i0 = 0 THEN 1 ELSE i0
  IN IF cMap = 0 THEN NotFound
     ELSE Steps(k, q, i, i \div 2, {})

StrictSeqs == {[i \in 1..n |-> 2 * i] : n \in 1..MAX_LEN_STRICT}
RepeatSeqs == UNION {{s \in [1..n -> RepeatKeys] : \A i \in 1..(n - 1) : s[i] <= s[i + 1]}
                     : n \in 1..MAX_LEN_REPEAT}

Init ==
  /\ keys \in StrictSeqs \cup RepeatSeqs
  /\ qwKey \in 0..(2 * Len(keys) + 1)
  /\ searched = FALSE
  /\ result = NotFound

Search ==
  /\ ~searched
  /\ searched' = TRUE
  /\ result' = QFind(keys, qwKey)
  /\ UNCHANGED <<keys, qwKey>>

\* The search has returned; nothing more happens.
Done == searched /\ UNCHANGED vars

Next == Search \/ Done

Spec == Init /\ [][Next]_vars

(***************************************************************************)
(* Properties.                                                             *)
(***************************************************************************)

KeySet(k) == {k[i] : i \in DOMAIN k}

\* The reference: the first index whose key is at least q.
FirstAtLeast(k, q) == CHOOSE i \in DOMAIN k : k[i] >= q /\ \A j \in 1..(i - 1) : k[j] < q

\* _ObMap_QFind finds a key >= qwKey exactly when one exists; it then
\* returns an index holding qwKey if some entry has that key (with repeated
\* keys not necessarily the first), and otherwise the first larger key.
QFindCorrect ==
  searched =>
    /\ result.found = (\E i \in DOMAIN keys : keys[i] >= qwKey)
    /\ result.found =>
         IF qwKey \in KeySet(keys) THEN keys[result.index] = qwKey
         ELSE result.index = FirstAtLeast(keys, qwKey)

\* Neither the binary steps (DWORD i - dwStep) nor the walk read an entry
\* outside [1, cMap].
QFindInBounds == searched => result.reads \subseteq 1..Len(keys)

=============================================================================
