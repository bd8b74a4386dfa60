\* Up to three loops asked for, five alive while some of them finish.
SPECIFICATION Spec
CONSTANTS
  MaxLoops = 3
  MaxRunning = 5
  Rest = {v1, v2}
  None = None
SYMMETRY Symmetry
INVARIANTS
  NeverRunsDry
  NoSurplus
  DiskMirrorsMemory
\* Fails, to be run by hand: a number lowered, then raised again.
\* RaiseTakesEffect
