SPECIFICATION FairSpec
CONSTANTS
  MaxRequests = 2
  MaxInFlight = 1
  ResponseCap = 1
  Events = {"Close", "ClientStalls"}
PROPERTY
  ForcedCloseReturns
