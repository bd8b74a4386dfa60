\* Where code and documents disagree, to be run by hand with one property at a
\* time: one thread, one run, no crash.
SPECIFICATION LiveSpec
CONSTANTS
  Thread = {t1}
  Channel = {c1}
  Key = {k1}
  Run = {r1}
  Debounce = 1
  Ttl = 2
  MaxEvents = 2
  MaxCrashes = 0
  None = None
INVARIANT NewEventsStayDue
\* PROPERTY TtlClosesThreads
