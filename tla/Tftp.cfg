SPECIFICATION TftpSpec
CONSTANTS
  r = r
  w = w
  Clients = {r, w}
  Readers = {r}
  NPieces = 3
  NoPacket = NoPacket
  MaxFaults = 2
INVARIANT FilesArriveWhole
PROPERTY TransfersEnd
CHECK_DEADLOCK FALSE
