\* Either output may be closed early.
CONSTANTS
  MaxFiles = 2
  MaxEvents = 2
  MaxSampled = 2
  Samples <- MCSamples
  Content <- MCContent
  Texts <- MCTexts
  Has <- MCHas
  Indices = {"0", "1"}
  Redacted = "<redacted>"
  DeepRoots = {"/metadata"}
  ScalarPaths = {"/reason/text"}
  MAX_LINT_DEPTH = 2
  MAX_PROFILE_DEPTH = 2
  MaxDepth = 1
  MaxProperties = 3
  Closable = {"stdout", "stderr"}
SPECIFICATION Spec
CHECK_DEADLOCK FALSE
INVARIANTS
  TypeOK
  ZeroIsEarned
  OneMeansFailed
  ThreeHidesNothing
  CleanMeansNothingExposed
  OnlyAnIdRepeatsASecret
