SPECIFICATION FairSpec
CONSTANTS
    Submissions <- MCSubmissions
    MaxDisturb = 1
INVARIANTS TypeOK CacheDiesWithJob FinalizerHolds
PROPERTIES LastJobIsServed FinishedLeavesNothing DeletedIsGone
CHECK_DEADLOCK FALSE
