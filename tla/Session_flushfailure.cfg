SPECIFICATION FairSpec
CONSTANTS
  MaxRequests = 3
  MaxInFlight = 1
  ResponseCap = 1
  Events = {"ClientCloses"}
PROPERTY
  FlushFailureEndsSession
