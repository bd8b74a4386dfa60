\* To be run by hand: two tasks, of which the list shows one, in
\* any order of their equal stamps, so that a waiting task may be left out.
SPECIFICATION LiveScreenSpec
CONSTANTS
  Task = {t1, t2}
  Worker = {w1}
  Channel = {c1}
  Label = {l1}
  Agent = {}
  LeaseSeconds = 0
  MaxStamp = 0
  Concurrency = 1
  Verdicts = {"ask"}
  Lossy = FALSE
  MaxAttempts = 1
  MaxQueue = 1
  MaxCrashes = 0
  PageLimit = 1
  MaxRefresh = 1
  None = None
PROPERTIES
  LoopsFreeOrOffered
\* With every task purged nothing is left to do.
CHECK_DEADLOCK FALSE
