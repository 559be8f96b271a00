\* Two requests in flight, one slot for responses, every event.
SPECIFICATION Spec
CONSTANTS
  MaxRequests = 3
  MaxInFlight = 2
  ResponseCap = 1
  Events <- AllEvents
INVARIANTS
  TypeOK
  InflightExact
  ScopeOutlivesReply
PROPERTIES
  ImplementsConversation
