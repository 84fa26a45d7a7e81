SPECIFICATION Spec
CONSTANTS
    gemini = gemini
    codex = codex
    Agents = {gemini, codex}
    Codex = codex
    Tiers <- TwoTiers
    Calls = {c1, c2}
    Threshold = 2
    Pids = {1, 2, 3, 4, 5}
    Burning = 2
    Repeating = 1
    MaxCrashes = 1
    Worlds <- OneAtATime
    None = 0
INVARIANTS BlockSurvivesRestart OneInstance
PROPERTIES ChumComesBack
CHECK_DEADLOCK FALSE
