\* Where code and documents disagree, to be run by hand with one property at a
\* time: two tasks, of which the list shows one.
SPECIFICATION ScreenSpec
CONSTANTS
  Task = {t1, t2}
  Worker = {w1}
  Channel = {c1}
  Label = {l1}
  Agent = {}
  LeaseSeconds = 1
  MaxStamp = 1
  Concurrency = 1
  Verdicts = {"ask"}
  Lossy = FALSE
  MaxAttempts = 1
  MaxQueue = 1
  MaxCrashes = 0
  PageLimit = 1
  MaxRefresh = 2
  None = None
INVARIANT WaitHasARow
\* INVARIANT WaitIsInTheList
\* PROPERTY AnswersWhatIsShown
CHECK_DEADLOCK FALSE
