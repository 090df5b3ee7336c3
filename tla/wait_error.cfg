\* What wait returns after an error without an id
CONSTANTS
  Callers = {}
  NoCaller = none
  Waiters = {w1}
  RequestIds = {}
  IdMax = 0
  MaxRequests = 0
  MaxNotifications = 0
  Lines <- EndingLines
  Panics = FALSE
SPECIFICATION Spec
INVARIANTS
  WaitGivesErrorObject
