SPECIFICATION FairSpec
CONSTANTS
  N = 3
  Budget = 3
  Cost <- MCCost
INVARIANTS AcquisitionIsSound StepsReplay
PROPERTIES EpisodesEnd
CHECK_DEADLOCK FALSE
