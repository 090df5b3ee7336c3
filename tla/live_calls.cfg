\* Two calls and one id, every way a session ends, panics included
CONSTANTS
  Callers = {c1, c2}
  NoCaller = none
  Waiters = {}
  RequestIds = {}
  IdMax = 1
  MaxRequests = 0
  MaxNotifications = 0
  Lines <- AnswerLines
  Panics = TRUE
SPECIFICATION FairSpec
INVARIANTS
  OneCallPerId
PROPERTIES
  EveryCallReturns
  AbandonedIsReported
