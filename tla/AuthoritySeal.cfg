SPECIFICATION FairSpec
CONSTANTS
  Archives = {1, 2}
  Videos = {1, 2, 3}
  ArchiveOf <- MCArchiveOf
  Rankings <- MCRankings
  Count = 2
  Size = 2
  Margin = 1
  Capacity = 16
  MaxFaults = 2
  FrozenAt = 1
  MaxEdits = 2
INVARIANTS PreparationIsSound SealIsSound
PROPERTIES AuthorityIsSealed
CHECK_DEADLOCK FALSE
