SPECIFICATION Spec
CONSTANTS
  b1 = b1
  Builds = {b1, b2}
  NSteps <- MCNSteps
  MaxMax = 2
  MaxCrashes = 1
  MaxWithCrash = 1
INVARIANTS PassedMeansSucceeded NoStrays
PROPERTIES NeverMoreThanMax BuildsEnd
