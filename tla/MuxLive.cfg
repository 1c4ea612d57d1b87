SPECIFICATION FairSpec
CONSTANTS
  j1 = j1
  j2 = j2
  t1 = t1
  t2 = t2
  Threads = {t1, t2}
  Main = Main
  NoJob = NoJob
  NoProc = NoProc
  Jobs = {j1, j2}
  FdJobs = {j1, j2}
  InitJobs = {j1, j2}
  PoolSizes = {0, 1}
  EndCallers = {}
  Throwers = {}
  CreateFails = FALSE
PROPERTIES FollowsDiagram ShutdownCompletes
