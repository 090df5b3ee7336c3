\* A call over a channel whose server ends at any time
CONSTANTS
  ClientCalls = {c1}
  ServerWaits = {}
  NoCaller = none
  IdMax = 1
  MaxRequests = 1
  MaxNotifications = 0
  Lines <- PlainLines
  Capacity = 1
  MayEnd = {"server"}
SPECIFICATION FairSpec
PROPERTIES
  EndReachesCalls
  CancellationArrives
  QueuesDrain
