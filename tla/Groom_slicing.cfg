SPECIFICATION FairSpec
CONSTANTS
    s1 = s1
    NoTask = NoTask
    Crabs = {1, 2}
    Seeds = {s1}
    Scoped = {s1}
    Containers = {}
    WhaleIndices = {0}
    Sizings <- Answers
    MaxMorsels = 2
    EmitAttempts = 2
    MaxDays = 2
    MaxWhales = 1
    MaxMutations = 1
    Categories = {0}
    Worlds <- Circumstances
INVARIANT SlicedOnce
PROPERTIES SlicedWhaleHasMorsels  EveryMorselRuns
CHECK_DEADLOCK FALSE
