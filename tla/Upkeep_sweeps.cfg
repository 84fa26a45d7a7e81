SPECIFICATION Spec
CONSTANTS
    t1 = t1
    t2 = t2
    Learners = {1, 2}
    Tasks = {t1, t2}
    Workspaces <- Projects
    workspace <- TaskWorkspace
    Summaries = {"s"}
    StoreAttempts = 2
    Circumstances <- Worlds
    PRs = {1, 2}
    PageLimit = 1
    MaxReviews = 2
INVARIANTS DuplicatesNeedARace SweepSparesTheLiving
PROPERTIES ReviewsSettle
CHECK_DEADLOCK FALSE
