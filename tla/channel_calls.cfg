\* Two calls over a channel, dropped or answered, with both queues
CONSTANTS
  ClientCalls = {c1, c2}
  ServerWaits = {}
  NoCaller = none
  IdMax = 2
  MaxRequests = 2
  MaxNotifications = 0
  Lines <- PlainLines
  Capacity = 1
  MayEnd = {"client"}
SPECIFICATION Spec
SYMMETRY CallSymmetry
CONSTRAINT NeverEnded
INVARIANTS
  OwnAnswer
