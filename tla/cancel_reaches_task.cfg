\* A cancellation that comes before init_finish
CONSTANTS
  Callers = {}
  NoCaller = none
  Waiters = {}
  RequestIds = {a}
  IdMax = 0
  MaxRequests = 1
  MaxNotifications = 0
  Lines <- RequestLines
  Panics = FALSE
SPECIFICATION Spec
INVARIANTS
  CancelReachesTask
