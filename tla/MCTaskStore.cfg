\* Two tasks, two labels, two workers: every method interleaved with every
\* other.  Two ticks of lease tell a heartbeat in time from one too late.
SPECIFICATION FairStoreSpec
CONSTANTS
  Task = {t1, t2}
  Worker = {w1, w2}
  Channel = {c1}
  Label = {l1, l2}
  Agent = {a1}
  LeaseSeconds = 2
  MaxStamp = 1
  None = None
INVARIANTS
  TypeOK
  HeldAndLeased
  AuditExplainsStatus
PROPERTIES
  FirstComeFirstServed
  WorkIsNeverProlonged
  ImplementsLifecycle
  OutcomeIsFinal
  NeverHeldInSilence
\* With every task purged nothing is left to do.
CHECK_DEADLOCK FALSE
