\* Events, blank lines and lines that are no event, in files that grow, with
\* lines and characters cut by a chunk boundary.
CONSTANTS
  Alphabet = {"{", "}", " ", "newline", "deep", "lead", "trail"}
  MaxFile = 5
  MaxTruncate = 0
  ChunkBytes = 2
  MaxLine = 4
  MaxDocument = 3
SPECIFICATION Spec
CHECK_DEADLOCK FALSE
PROPERTIES
  ImplementsStream
INVARIANTS
  TypeOK
  EventsAreTheLines
  HeldIsBounded
