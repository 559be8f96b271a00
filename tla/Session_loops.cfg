\* Two properties that fail: run with -continue to see both.
SPECIFICATION Spec
CONSTANTS
  MaxRequests = 2
  MaxInFlight = 1
  ResponseCap = 2
  Events <- NoEvents
INVARIANTS
  InFlightUntilFlushed
  ReadingDoesNotBlockWriting
