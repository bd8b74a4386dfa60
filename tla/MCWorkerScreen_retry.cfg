\* The same with a task that is retried and claimed again: agents, asks and
\* answers of its first attempt are still on their way in the second.  One
\* refresh at a time, and no crash.
SPECIFICATION LiveScreenSpec
CONSTANTS
  Task = {t1}
  Worker = {w1}
  Channel = {c1}
  Label = {l1}
  Agent = {}
  LeaseSeconds = 0
  MaxStamp = 0
  Concurrency = 1
  Verdicts = {"ask"}
  Lossy = TRUE
  MaxAttempts = 2
  MaxQueue = 1
  MaxCrashes = 0
  PageLimit = 1
  MaxRefresh = 1
  None = None
PROPERTIES
  LoopsFreeOrOffered
\* With every task purged nothing is left to do.
CHECK_DEADLOCK FALSE
