SPECIFICATION FairSpec
CONSTANTS
    People = {"member", "guest"}
    Agents = {"claude", "codex"}
    PageSize = 2
    MaxSessions = 2
    MaxRestarts = 1
    Worlds <- Circumstances
INVARIANTS HandledOnceInOrder SignalsFollowTheRoom
PROPERTIES EveryMessageIsHandled
