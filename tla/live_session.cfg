\* A request, a wait, and every way a session ends: what must come about
CONSTANTS
  Callers = {}
  NoCaller = none
  Waiters = {w1}
  RequestIds = {a}
  IdMax = 0
  MaxRequests = 1
  MaxNotifications = 0
  Lines <- SingleRequestLines
  Panics = FALSE
SPECIFICATION FairApplicationSpec
CONSTRAINT OneReadCause
PROPERTIES
  EveryRequestSettled
  WaitReturns
  WriterFollowsReader
  QueuedIsWritten
  DroppedIsFreed
