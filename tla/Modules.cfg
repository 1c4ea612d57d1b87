SPECIFICATION Spec
SYMMETRY Symmetry
CONSTANTS
  Names <- MCNames
  Files <- MCFiles
  Depends <- MCDepends
  Conf <- MCConf
  Pool = {t1, t2}
  t1 = t1
  t2 = t2
  Main = Main
  NoProc = NoProc
  NoName = NoName
  Kernel = Kernel
  Loaders = {1, 2, 3, 4, 5, 6, 7, 8}
  Broken = {"opt"}
  Keepers = {"smtp"}
  Wanted = {"http", "smtp"}
  Admin = {"smtp"}
  MaxRetries = 10
  MaxRestarts = 1
INVARIANTS NeverFreedInUse ConfiguredBeforeUse DirLoadsAll ClosesAll
