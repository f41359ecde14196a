SPECIFICATION FairSpec
CONSTANTS
  Runners = {r1, r2}
  Moves = {"expand"}
  MaxTransitions = 3
  MaxFaults = 2
   
PROPERTIES RunIsAnswered
CHECK_DEADLOCK FALSE
