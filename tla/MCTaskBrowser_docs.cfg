\* Where code and screen disagree, to be run by hand with one property at a time.
SPECIFICATION Spec
CONSTANTS
  MaxTask = 2
  PageSize = 1
  MaxRequests = 2
  Key = {right, wrong}
  AdminKey = right
  Unauthorized = Unauthorized
  NotFound = NotFound
  None = None
INVARIANT EmptyMeansNone
\* PROPERTY GateOnlyForAWrongKey
