\* The instance of the task and one that recovers it, both of which may crash.
SPECIFICATION TaskSpec
CONSTANTS
    MaxReworks = 1
    MaxAttempts = 4
    MaxRequirementVersion = 1
    MaxHolds = 0
    Instances = {h, r}
    Home = h
    Free = free
INVARIANTS
    OneAgentUnlessGivenUp
    WorkIsDoneUnderALock
    TerminalLockIsAccountedFor
PROPERTIES
    TakeoverWaitsForLatestRun
\* The system stops in its terminal states and where a bound is reached.
CHECK_DEADLOCK FALSE
