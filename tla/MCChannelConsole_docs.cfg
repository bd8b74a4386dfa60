\* Where screen and server disagree, to be run by hand with one property at a time.
SPECIFICATION AloneSpec
CONSTANTS
  Channel = {c1}
  Sound = {s1, s2}
  Broken = {b1}
  MaxKeys = 3
  MaxAnswers = 2
  None = None
INVARIANT ShownKeyServes
\* PROPERTY PurgeIsAsAnnounced
