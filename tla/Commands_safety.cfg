SPECIFICATION CommandsSpec
CONSTANTS
  w1 = w1
  Workers = {w1}
  Factories <- TheFactories
  MaxInt = 7
  Chunk = 6
  MaxMessages = 2
  Messages <- WellFormed
  Ping <- ping
  Echo <- echo
  Names <- TheNames
  Setup <- LateSetup
INVARIANTS
  ReturnsWhatWasSent
  NothingLostNothingKept
  WaitsOnlyForTheRest
  LookupIsCurrent
  BuildersAgree
  ReplyIsOneValue
