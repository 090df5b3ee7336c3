\* A call over a channel whose client ends at any time
CONSTANTS
  ClientCalls = {c1}
  ServerWaits = {w1}
  NoCaller = none
  IdMax = 1
  MaxRequests = 1
  MaxNotifications = 0
  Lines <- PlainLines
  Capacity = 1
  MayEnd = {"client"}
SPECIFICATION FairSpec
INVARIANTS
  NothingEndsUnprovoked
  ClientEndsCleanly
PROPERTIES
  EndReachesWaits
