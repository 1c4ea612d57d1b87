SPECIFICATION FairSpec
CONSTANTS
  s1 = s1
  s2 = s2
  Streams = {s1, s2}
  Eager = {s1}
  Chatty = {s2}
  NoStream = NoStream
INVARIANTS OpenedFromBelow
PROPERTIES OnlyToLiving StreamsOpen ClosingEnds
