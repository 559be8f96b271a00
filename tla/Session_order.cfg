SPECIFICATION Spec
CONSTANTS
  MaxRequests = 2
  MaxInFlight = 2
  ResponseCap = 2
  Events <- NoEvents
INVARIANT
  PipelinedRepliesInOrder
