\* One worker: five requests fill the worker's hands, ready, overflow and incoming
\* and leave one caller blocked in Enqueue.
SPECIFICATION OrderedFairSpec
CONSTANTS
  r1 = r1  r2 = r2  r3 = r3  r4 = r4  r5 = r5  r6 = r6  w1 = w1  w2 = w2
  Requests <- FiveRequests
  Unusable = {}
  Workers = {w1}
  QueueSize = 1
  NoRequest = NoRequest
PROPERTIES
  AcceptedIsAnswered
  StopReturns
