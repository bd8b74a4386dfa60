\* Two threads of one channel, two overlapping runs, a crash; safety and liveness.
SPECIFICATION LiveSpec
CONSTANTS
  Thread = {t1, t2}
  Channel = {c1}
  Key = {k1}
  Run = {r1, r2}
  Debounce = 1
  Ttl = 1
  MaxEvents = 2
  MaxCrashes = 1
  None = None
INVARIANTS
  PipelineTypeOK
  InFlightIsExact
  NothingMarkedUnseen
  DispatchedHasTask
  MissedOnlyDuring
PROPERTY ThreadsClose
