\* A filed snapshot that a merge has damaged, and the tool run again.
CONSTANTS
  Profiles = {p1}
  Versions = {v1}
  Rules = {old, new}
  Missing = Missing
  Unparsable = Unparsable
  NoVersion = NoVersion
  MaxEdits = 1
  MaxDamage = 1
  MaxListings = 0
SPECIFICATION PublicationSpec
INVARIANTS
  NeverRepointed
SYMMETRY Symmetry
