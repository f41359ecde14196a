SPECIFICATION BuildSpec
CONSTANTS
    VideoOf <- MCVideoOf
    Targets <- MCTargets
    Worlds <- MCWorlds
    MinDistractors = 1
    MaxDistractors = 2
    MinDuration = 3
    MaxDuration = 5
    DevPercent = 34
    MultiPercent = 25
    AuditSize = 3
    Builders = {b1, b2}
    MaxChanges = 1
    MaxFaults = 2
    MaxDeaths = 1
INVARIANTS PublicationIsSound SelectionIsFirst ExamplesAreAccepted
PROPERTIES CommittedGenerationsStay BuildIsPublished
CHECK_DEADLOCK FALSE
