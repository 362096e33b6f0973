\* One chain, three sequence numbers, two faults.
CONSTANTS
  Chains = {c1}
  NoChainId = NoChainId
  NoIntegrity = NoIntegrity
  Bodies = {b1, b2}
  Rejected = {}
  Schemes = {sha, blake}
  Supported = {sha}
  MaxSequence = 2
  MaxEdits = 2
SPECIFICATION Spec
INVARIANTS
  AgreementAuthenticates
  AgreementFromGenesisIsComplete
  CountedAgreementIsComplete
  UndamagedArchiveAgrees
PROPERTIES
  ImplementsVerdict
SYMMETRY Symmetry
