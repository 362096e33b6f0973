\* Two chains sharing an archive, events of a version to come, one fault.
CONSTANTS
  Chains = {c1, c2}
  NoChainId = NoChainId
  NoIntegrity = NoIntegrity
  Bodies = {b1, future}
  Rejected = {future}
  Schemes = {sha}
  Supported = {sha}
  MaxSequence = 1
  MaxEdits = 1
SPECIFICATION Spec
INVARIANTS
  TypeOK
  NoDeletionInferred
SYMMETRY Symmetry
