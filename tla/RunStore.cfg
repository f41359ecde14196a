SPECIFICATION FairSpec
CONSTANTS
  Items = {i1, i2}
  Workers = {w1, w2, w3}
  Lease = 1
  MaxAttempt = 3
INVARIANTS OneHolderPerAttempt RowsAreCoherent
PROPERTIES CompleteIsFinal AttemptsEnd
CHECK_DEADLOCK FALSE
