\* Two tasks on pages of one, a right and a wrong key, two requests at a time.
SPECIFICATION LiveSpec
CONSTANTS
  MaxTask = 2
  PageSize = 1
  MaxRequests = 2
  Key = {right, wrong}
  AdminKey = right
  Unauthorized = Unauthorized
  NotFound = NotFound
  None = None
INVARIANTS
  PagesPartition
PROPERTIES
  DetailFollowsSelection
  ListCatchesUp
  WrongKeyIsAskedFor
