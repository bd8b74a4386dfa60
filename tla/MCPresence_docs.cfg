\* Where code and documents disagree, to be run by hand with one property at a
\* time: one loop, and an interval longer than the window, as with a lease of
\* 3600 s (an interval of 1200 s against 300 s).
SPECIFICATION PresenceSpec
CONSTANTS
  Loop = {p1}
  Labels = {v1}
  Beat = 2
  Window = 1
  LeaseTicks = 6
  None = None
INVARIANT WaitingIsCovered
\* PROPERTY UncoveredIsNotTaken
