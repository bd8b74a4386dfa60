\* One worker and its screen, with lost calls, a crash and two refreshes under
\* way at a time: their answers may overtake each other, so what the screen
\* shows may be of any age.  A lease runs out at the first tick.
SPECIFICATION LiveScreenSpec
CONSTANTS
  Task = {t1}
  Worker = {w1}
  Channel = {c1}
  Label = {l1}
  Agent = {}
  LeaseSeconds = 0
  MaxStamp = 0
  Concurrency = 1
  Verdicts = {"ask"}
  Lossy = TRUE
  MaxAttempts = 1
  MaxQueue = 1
  MaxCrashes = 1
  PageLimit = 1
  MaxRefresh = 2
  None = None
PROPERTIES
  LoopsFreeOrOffered
  TasksMoveOrOffered
\* With every task purged nothing is left to do.
CHECK_DEADLOCK FALSE
