\* One instance whose user holds the task and cancels it.
SPECIFICATION TaskSpec
CONSTANTS
    MaxReworks = 0
    MaxAttempts = 2
    MaxRequirementVersion = 1
    MaxHolds = 1
    Instances = {h}
    Home = h
    Free = free
INVARIANTS
    CancelledSessionReleasesLock
\* The system stops in its terminal states and where a bound is reached.
CHECK_DEADLOCK FALSE
