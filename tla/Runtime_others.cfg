\* One request in flight, next to a request of another session that comes at any
\* time, on a dispatcher with one worker.
SPECIFICATION FairSpec
CONSTANTS
  w1 = w1  o1 = o1  o2 = o2  o3 = o3  o4 = o4
  MaxRequests = 2
  MaxInFlight = 1
  ResponseCap = 1
  Events <- GoneOrStalled
  Others = {o1}
  Workers = {w1}
  QueueSize = 1
  NoRequest = NoRequest
INVARIANT
  OwnShare
PROPERTY
  OthersAreServed
