\* An archive whose named chain is present but unverified.
CONSTANTS
  Chains = {c1}
  NoChainId = NoChainId
  NoIntegrity = NoIntegrity
  Bodies = {b1, future}
  Rejected = {future}
  Schemes = {sha}
  Supported = {sha}
  MaxSequence = 1
  MaxEdits = 0
SPECIFICATION Spec
INVARIANTS
  NoChainDeletionInferred
SYMMETRY Symmetry
