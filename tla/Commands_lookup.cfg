SPECIFICATION CommandsSpec
CONSTANTS
  w1 = w1
  Workers = {w1}
  Factories <- TheFactories
  MaxInt = 7
  Chunk = 6
  MaxMessages = 1
  Messages <- WithGet
  Ping <- ping
  Echo <- echo
  Names <- TheNames
  Setup <- LateSetup
INVARIANT
  LookupIsAtomic
