\* Two runs, no crash.
SPECIFICATION Spec
CONSTANTS
  Thread = {t1, t2}
  Channel = {c1}
  Key = {k1}
  Run = {r1, r2}
  Debounce = 1
  Ttl = 2
  MaxEvents = 1
  MaxCrashes = 0
  None = None
SYMMETRY Symmetry
INVARIANT NotJudgedTwice
