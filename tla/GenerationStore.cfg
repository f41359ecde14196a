SPECIFICATION PubSpec
CONSTANTS
  Publishers = {p1, p2}
  Readers = {r1, r2}
  Contents = {g1, g2, g3}
  NoContents = NoContents
INVARIANTS ReadersFindTheGeneration
PROPERTIES Implements
CHECK_DEADLOCK FALSE
