\* Termination, over short files that also get truncated.
CONSTANTS
  Alphabet = {"{", "}", "newline"}
  MaxFile = 4
  MaxTruncate = 1
  ChunkBytes = 2
  MaxLine = 2
  MaxDocument = 3
SPECIFICATION FairSpec
CHECK_DEADLOCK FALSE
PROPERTIES
  StreamEnds
