\* A profile saved, filed, listed, embedded and released again and again,
\* with kills and a damaged snapshot in between.
CONSTANTS
  Profiles = {p1}
  Versions = {v1, v2}
  Rules = {old, new}
  Missing = Missing
  Unparsable = Unparsable
  NoVersion = NoVersion
  MaxEdits = 3
  MaxDamage = 1
  MaxListings = 2
SPECIFICATION PublicationSpec
INVARIANTS
  TypeOK
  PublishedNeverChanges
  PublishedUnderItsVersion
  OneVersionOneDocument
SYMMETRY Symmetry
