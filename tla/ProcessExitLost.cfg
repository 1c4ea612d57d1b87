SPECIFICATION Spec
CONSTANTS
  Procs = {p1}
  Refused = {}
  Users = {}
  Right = {}
  Pids = {1}
  NoPid = NoPid
  NoOne = NoOne
  MaxQueue = 2
INVARIANT EveryExitIsKept
CHECK_DEADLOCK FALSE
