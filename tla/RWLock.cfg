SPECIFICATION FairSpec
CONSTANTS
  t1 = t1
  t2 = t2
  t3 = t3
  Lockers = {t1, t2, t3}
INVARIANT SleepersAreAwaited
PROPERTIES IsSharedLock AllGetIn
