\* To be run by hand: one worker, two loops, two tasks.  What one run does to
\* the maps must not disturb the other.  Nothing is lost; the stall and the
\* retry are left to the other instances.
SPECIFICATION Spec
CONSTANTS
  Task = {t1, t2}
  Worker = {w1}
  Channel = {c1}
  Label = {l1}
  Agent = {}
  LeaseSeconds = 1
  MaxStamp = 0
  Concurrency = 2
  Verdicts = {"allow", "ask"}
  Lossy = FALSE
  MaxAttempts = 1
  MaxQueue = 1
  MaxCrashes = 0
  None = None
SYMMETRY Symmetry
INVARIANTS
  WaitersAreReachable
\* With every task purged nothing is left to do.
CHECK_DEADLOCK FALSE
