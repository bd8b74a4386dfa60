\* Where code and documents disagree, to be run by hand with one property at a
\* time: one task.
SPECIFICATION StoreSpec
CONSTANTS
  Task = {t1}
  Worker = {w1}
  Channel = {c1}
  Label = {l1}
  Agent = {a1}
  LeaseSeconds = 1
  MaxStamp = 0
  None = None
PROPERTY StalledLeftOnlyByUser
\* PROPERTY GivenUpOnlyWhenStalled
CHECK_DEADLOCK FALSE
