SPECIFICATION FairSpec
CONSTANTS
    a = a  b = b  typo = typo
    Items = {a, b}
    Seed = a
    Unknown = typo
    NoItem = NoItem
    NoRow = NoRow
    Base <- TwoBase
    Recommended = {a}
    IdLess <- AFirst
    MaxCycles = 2
    MaxQuestions = 2
    TopK = 1
    SignalTimeout = 2
    SessionTimeout = 3
    MaxSignals = 1
    Worlds <- AllWorlds
CHECK_DEADLOCK FALSE
INVARIANTS DecomposesGatedPlans PromptTellsTheWait TerminalAndAPIAgree
    ScoresAgree WaitsWithinSession
PROPERTY SessionSettles
