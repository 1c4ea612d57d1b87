SPECIFICATION Spec
CONSTANTS
  w1 = w1
  w2 = w2
  t1 = t1
  t2 = t2
  Workers = {w1, w2}
  Main = Main
  LogThreads = {t1, t2}
  NoThread = NoThread
  NoProc = NoProc
  Admins = {w1}
  MaxLogs = 1
  MaxRuns = 1
INVARIANT OneInLogEntry
