SPECIFICATION Spec
CONSTANTS
    Writers = {w1}
    Studies <- MCStudies
    Assignment <- MCAssignment
    MaxWrites = 2
    Trainers = {t1, t2}
    Seeds <- MCSeeds
    Configs = {"a"}
    Lengths = {2, 3}
    CheckpointEvery = 2
    MaxBuilds = 2
    MaxCalls = 3
SYMMETRY Interchangeable
INVARIANTS LoadsAreWholeWrites TrainingSeesNoDevVideo TrainingIsExact
CHECK_DEADLOCK FALSE
