SPECIFICATION HttpFairSpec
CONSTANTS
  Kinds <- SomeKinds
  MaxRequests = 2
  MaxPieces = 2
  MaxSlow = 2
  NoStream = NoStream
INVARIANTS ClientReads InputStaysAligned
PROPERTIES NextAfterWhole RequestsAnswered
