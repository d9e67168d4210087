\* One instance, whose user holds, continues and cancels.
SPECIFICATION TaskSpec
CONSTANTS
    MaxReworks = 1
    MaxAttempts = 4
    MaxRequirementVersion = 1
    MaxHolds = 1
    Instances = {h}
    Home = h
    Free = free
INVARIANTS
    TaskTypeOK
    EffectsAreCompletedInOrder
PROPERTIES
    OnlyItsOwnOutcomeEndsAnAttempt
\* The system stops in its terminal states and where a bound is reached.
CHECK_DEADLOCK FALSE
