SPECIFICATION Spec
CONSTANTS
  b1 = b1
  Builds = {b1}
  NSteps <- MCNSteps
  MaxMax = 1
  MaxCrashes = 1
  MaxWithCrash = 1
INVARIANTS PassedHasRunAll
