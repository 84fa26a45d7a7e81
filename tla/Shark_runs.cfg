SPECIFICATION RunsAndGates
CONSTANTS
  r1 = r1
  r2 = r2
  lint = lint
  gitlock = gitlock
  None = None
  Runs = {r1, r2}
  MaxRetriesOverride = 0
  Reasons = {lint, gitlock}
  Worlds <- AllWorlds
  Gates = 6
  MaxSignals = 3
CHECK_DEADLOCK FALSE
INVARIANTS OwnsItsWorktree CompletionIsVerified SuccessIsSettled ErrorsAreKept
PROPERTIES RunsEnd DrainHoldsUntilResume ResumedRunEnds
