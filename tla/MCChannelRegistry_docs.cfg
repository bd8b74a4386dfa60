\* Where code and documents disagree, to be run by hand with one property at a
\* time: one channel.
SPECIFICATION Spec
CONSTANTS
  Channel = {c1}
  Sound = {s1, s2}
  Broken = {b1}
  MaxKeys = 2
  None = None
INVARIANT AlwaysComesUp
\* INVARIANT DisabledTakesNoEvents
\* INVARIANT ReplacedKeyIsDead
\* PROPERTY RowsAreKept
