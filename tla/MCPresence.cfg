\* Three loops, a lease of three heartbeat intervals, and a window shorter than
\* the interval (as with leases of more than 900 s).
SPECIFICATION PresenceSpec
CONSTANTS
  Loop = {p1, p2, p3}
  Labels = {v1, v2}
  Beat = 2
  Window = 1
  LeaseTicks = 6
  None = None
SYMMETRY Symmetry
INVARIANTS
  ReachableIsCovered
  NewLabelsTakeHold
PROPERTY WaitSurvivesMisses
