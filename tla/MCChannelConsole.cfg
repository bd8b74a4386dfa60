\* One channel and three keys, edits that work and edits that do not, a second
\* admin, restarts, answers that overtake each other or are lost.
SPECIFICATION LiveConsoleSpec
CONSTANTS
  Channel = {c1}
  Sound = {s1, s2}
  Broken = {b1}
  MaxKeys = 3
  MaxAnswers = 2
  None = None
INVARIANTS
  RuntimeReflectsRow
  RowsForAll
PROPERTIES
  NothingPurgedUnasked
  RegisterComesBack
  ConsoleCatchesUp
