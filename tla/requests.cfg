\* Three requests under two ids: handlers, tasks, cancellation, shutdown, panics
CONSTANTS
  Callers = {}
  NoCaller = none
  Waiters = {}
  RequestIds = {a, b}
  IdMax = 0
  MaxRequests = 3
  MaxNotifications = 0
  Lines <- RequestLines
  Panics = TRUE
SPECIFICATION Spec
SYMMETRY IdSymmetry
CONSTRAINT ThreeRequestsBound
INVARIANTS
  AnsweredOnce
  RequestsAccounted
  StaleAnswerNeedsLostHold
  InitFinishAsserts
  TasksAreTracked
