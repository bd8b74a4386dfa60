SPECIFICATION Spec
CONSTANTS
  Task = {t1}
  Worker = {w1, w2}
  Channel = {c1}
  Label = {l1}
  Agent = {}
  LeaseSeconds = 1
  MaxStamp = 0
  Concurrency = 1
  Verdicts = {"allow", "ask", "deny"}
  Lossy = TRUE
  MaxAttempts = 2
  MaxQueue = 1
  MaxCrashes = 1
  None = None
SYMMETRY Symmetry
INVARIANTS
  ExecTypeOK
  ServerMirrorsRun
  NoStartWithoutConsent
  RejectedRanNothing
  PatienceOutlastsLease
  WaitersAreReachable
\* With every task purged nothing is left to do.
CHECK_DEADLOCK FALSE
