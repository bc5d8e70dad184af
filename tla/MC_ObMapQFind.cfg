\* _ObMap_QFind on every ascending key sequence of up to 40 entries (three
\* binary steps before the walk from 33 entries on) and on every sequence
\* with repeats of up to 7 entries over keys 1..3.
CONSTANTS
  MAX_LEN_STRICT = 40
  MAX_LEN_REPEAT = 7
  RepeatKeys = {1, 2, 3}
SPECIFICATION Spec
INVARIANT QFindCorrect
INVARIANT QFindInBounds
