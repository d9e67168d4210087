\* One rework and a repair in every stage: 14 identities are more than can be used.
SPECIFICATION OrchestratorSpec
CONSTANTS
    MaxReworks = 1
    MaxAttempts = 14
    MaxRequirementVersion = 1
    Instances = {h}
    Home = h
    Free = free
PROPERTIES
    DrivesComeToRest
\* The system stops in its terminal states and where a bound is reached.
CHECK_DEADLOCK FALSE
