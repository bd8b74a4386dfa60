\* Liveness, with lost calls, a crash and a retry.
SPECIFICATION LiveSpec
CONSTANTS
  Task = {t1}
  Worker = {w1}
  Channel = {c1}
  Label = {l1}
  Agent = {a1}
  LeaseSeconds = 1
  MaxStamp = 0
  Concurrency = 1
  Verdicts = {"allow", "ask"}
  Lossy = TRUE
  MaxAttempts = 2
  MaxQueue = 1
  MaxCrashes = 1
  None = None
PROPERTIES
  StuckOnlyOnAHuman
  LoopsComeFree
\* With every task purged nothing is left to do.
CHECK_DEADLOCK FALSE
