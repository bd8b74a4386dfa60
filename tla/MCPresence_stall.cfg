SPECIFICATION PresenceSpec
CONSTANTS
  Loop = {p1}
  Labels = {v1}
  Beat = 2
  Window = 2
  LeaseTicks = 6
  None = None
PROPERTY SlowAnswersDoNotStall
