\* The default of one request in flight.
SPECIFICATION FairSpec
CONSTANTS
  MaxRequests = 2
  MaxInFlight = 1
  ResponseCap = 1
  Events <- ReadingClient
INVARIANTS
  OwnEndLosesNothing
PROPERTIES
  StoppedSessionEnds
  AnswersAreSent
  ImplementsConversation
