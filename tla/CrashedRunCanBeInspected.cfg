\* The instance of the task crashes and another one starts.
SPECIFICATION TaskSpec
CONSTANTS
    MaxReworks = 0
    MaxAttempts = 2
    MaxRequirementVersion = 1
    MaxHolds = 0
    Instances = {h, r}
    Home = h
    Free = free
INVARIANTS
    CrashedRunCanBeInspected
\* The system stops in its terminal states and where a bound is reached.
CHECK_DEADLOCK FALSE
