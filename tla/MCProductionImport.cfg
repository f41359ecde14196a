SPECIFICATION FairSpec
CONSTANTS
  Runs = {"R1"}
  Processes = {"p1", "p2"}
  Records <- MCRecords
  Keys = {"k", "l"}
  Key <- MCKey
  Raw <- MCRaw
  Sources <- MCSources
  Reporters = {"p1"}
  MaxFaults = 1
INVARIANTS GenerationsAreSound
PROPERTIES RecordsAreKept ImportsComplete
