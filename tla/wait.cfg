\* Two calls of wait, four tasks to abort and every way a session ends
CONSTANTS
  Callers = {}
  NoCaller = none
  Waiters = {w1, w2}
  RequestIds = {a}
  IdMax = 0
  MaxRequests = 1
  MaxNotifications = 1
  Lines <- EndingLines
  Panics = TRUE
SPECIFICATION Spec
SYMMETRY WaiterSymmetry
CONSTRAINT TwoWaitsBound
INVARIANTS
  TypeOK
  AbortedIsTracked
  ReadErrorIsWritten
PROPERTIES
  WaitJoinsAborted
