\* A session with one request in flight, one worker, channels of capacity one, and
\* four requests of other sessions.
SPECIFICATION LoadedFairSpec
CONSTANTS
  w1 = w1  o1 = o1  o2 = o2  o3 = o3  o4 = o4
  MaxRequests = 2
  MaxInFlight = 1
  ResponseCap = 1
  Events <- StallAndStop
  Others = {o1, o2, o3, o4}
  Workers = {w1}
  QueueSize = 1
  NoRequest = NoRequest
PROPERTIES
  AcceptedIsReplied
  StopEndsBoth
