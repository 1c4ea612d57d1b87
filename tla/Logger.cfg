SPECIFICATION FairSpec
CONSTANTS
  w1 = w1
  w2 = w2
  t1 = t1
  t2 = t2
  Workers = {w1, w2}
  Main = Main
  LogThreads = {t1, t2}
  NoThread = NoThread
  NoProc = NoProc
  Admins = {}
  MaxLogs = 1
  MaxRuns = 2
INVARIANTS OneInLogEntry SyncLeavesNothing
PROPERTIES KeepsOrder CloseEnds
