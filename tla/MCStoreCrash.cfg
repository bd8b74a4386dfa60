\* Two tasks, two labels, two workers, and one crash: every method interleaved
\* with every other, and a scan that can be cut between two rows.  A lease runs
\* out at the first tick.
SPECIFICATION FairCrashSpec
CONSTANTS
  Task = {t1, t2}
  Worker = {w1, w2}
  Channel = {c1}
  Label = {l1, l2}
  Agent = {a1}
  LeaseSeconds = 0
  MaxStamp = 1
  MaxOutages = 1
  None = None
INVARIANTS
  HeldAndLeased
  GapsAreBounded
PROPERTIES
  FirstComeFirstServed
  WorkIsNeverProlonged
  ImplementsLifecycle
  NeverHeldInSilence
\* With every task purged nothing is left to do.
CHECK_DEADLOCK FALSE
