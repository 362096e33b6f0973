\* The standard error is closed early.
CONSTANTS
  MaxFiles = 1
  MaxEvents = 1
  MaxSampled = 1
  Samples <- MCSamples
  Content <- MCContent
  Texts <- MCTexts
  Has <- MCHas
  Indices = {"0", "1"}
  Redacted = "<redacted>"
  DeepRoots = {"/metadata"}
  ScalarPaths = {"/reason/text"}
  MAX_LINT_DEPTH = 2
  MAX_PROFILE_DEPTH = 2
  MaxDepth = 1
  MaxProperties = 3
  Closable = {"stderr"}
SPECIFICATION Spec
CHECK_DEADLOCK FALSE
INVARIANTS
  OneAlwaysMeansFailed
