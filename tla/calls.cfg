\* Two calls: dropped, refused, cut off, or answered in one batch
CONSTANTS
  Callers = {c1, c2}
  NoCaller = none
  Waiters = {}
  RequestIds = {}
  IdMax = 2
  MaxRequests = 0
  MaxNotifications = 0
  Lines <- PairLines
  Panics = FALSE
SPECIFICATION Spec
SYMMETRY CallerSymmetry
CONSTRAINT TwoCallsBound
INVARIANTS
  NoStrandedCaller
  PendingIsReachable
  NoLostWakeup
  CancelledExactlyOnce
  CancelFollowsRequest
PROPERTIES
  KeepsContract
