SPECIFICATION Spec
CONSTANTS
  j1 = j1
  j2 = j2
  j3 = j3
  t1 = t1
  t2 = t2
  Threads = {t1, t2}
  Main = Main
  NoJob = NoJob
  NoProc = NoProc
  Jobs = {j1, j2, j3}
  FdJobs = {j1, j2}
  InitJobs = {j1, j3}
  PoolSizes = {0, 1}
  EndCallers = {j1}
  Throwers = {}
  CreateFails = FALSE
CHECK_DEADLOCK FALSE
INVARIANT EndJobAwaitsRun
