SPECIFICATION Spec
CONSTANTS
  Procs = {p1, p2}
  Refused = {}
  Users = {u1}
  Right = {u1}
  Pids = {1, 2}
  NoPid = NoPid
  NoOne = NoOne
  MaxQueue = 2
INVARIANTS AnswersAreOwn ExitIsKept
PROPERTY AnswersCome
CHECK_DEADLOCK FALSE
