\* Trees of up to five leaves, two changes between cut and verification.
CONSTANTS
  MaxLeaves = 5
  MaxEdits = 2
SPECIFICATION Spec
CHECK_DEADLOCK FALSE
INVARIANTS
  VerifiedIsTheLeaf
  SignedRootProves
  GenuineProofsVerify
  NoLeafHidesNothing
  AcceptedWasSigned
  UncheckableNeverVerifies
