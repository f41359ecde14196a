SPECIFICATION FairSpec
CONSTANTS
  MinRounds = 2
  MaxRounds = 3
  Nothing = Nothing
  Damaged = Damaged
  MaxFaults = 4
INVARIANTS PointerNamesAChain
PROPERTIES Implements ARunReturns
