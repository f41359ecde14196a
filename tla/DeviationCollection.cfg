SPECIFICATION DeviationSpec
CONSTANTS
    N = 3
    Cost <- MCCost
    Signatures <- MCSignatures
    Normalizer = 2
    Train <- MCTrain
    Dev <- MCDev
    BeamSize = 3
    MaxDepth = 5
    BinWidth = 2
    MaxRounds = 2
    Worlds <- MCWorlds
INVARIANTS LabelsAreFinal RoundsAreAcceptedAgain OracleIsAuthority EvaluationIsSound
CHECK_DEADLOCK FALSE
