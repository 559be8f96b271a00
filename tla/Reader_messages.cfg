\* Three properties that fail: run with -continue to see them.
SPECIFICATION CommandsSpec
CONSTANTS
  w1 = w1
  Workers = {w1}
  Factories <- TheFactories
  MaxInt = 7
  Messages <- WithExceptions
  MaxMessages = 2
  Chunk = 4
  Ping <- ping
  Echo <- echo
  Names <- TheNames
  Setup <- LateSetup
INVARIANTS
  NullArrayIsAValue
  ProtocolErrorsAreReported
  IntegerArgsAreKept
