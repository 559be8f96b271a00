\* Two workers and channels of one slot: five requests and one refused at once
\* fill every channel, the overflow list and the callers' queue.
SPECIFICATION Spec
CONSTANTS
  r1 = r1  r2 = r2  r3 = r3  r4 = r4  r5 = r5  r6 = r6  w1 = w1  w2 = w2
  Requests <- SixRequests
  Unusable = {r6}
  Workers <- TwoWorkers
  QueueSize = 1
  NoRequest = NoRequest
SYMMETRY Symmetry
INVARIANTS
  TypeOK
  NoSendOnClosedChannel
  PendingAccountsForWork
  StopDrainsAcceptedWork
PROPERTY
  ImplementsService
