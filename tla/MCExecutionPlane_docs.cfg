\* Where code and documents disagree, to be run by hand with one property at a
\* time: two loops, one task, a retry, nothing lost.
SPECIFICATION Spec
CONSTANTS
  Task = {t1}
  Worker = {w1}
  Channel = {c1}
  Label = {l1}
  Agent = {a1, a2}
  LeaseSeconds = 1
  MaxStamp = 0
  Concurrency = 2
  Verdicts = {"allow", "ask"}
  Lossy = FALSE
  MaxAttempts = 2
  MaxQueue = 1
  MaxCrashes = 0
  None = None
INVARIANT AskIsHeld
\* INVARIANT DecideFailsOnlyWithoutWait
\* INVARIANT DeniedMeansFailed
\* INVARIANT OneLoopPerTask
\* PROPERTY RejectedStopsNothing
\* PROPERTY OverrideIsForThisStart
CHECK_DEADLOCK FALSE
