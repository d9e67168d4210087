\* The reducer at one rework less than MAX_REWORKS = 3; 14 identities are never used up.
SPECIFICATION LedgerSpec
CONSTANTS
    MaxReworks = 2
    MaxAttempts = 14
    MaxRequirementVersion = 3
INVARIANTS
    InvalidOnlyWhenStoppingAPausingRun
    LockDemandFollowsState
    PromisedReworkIsWithinLimit
    OnlyAPauseSkipsCandidateSteps
PROPERTIES
    NoAttemptStartsTwice
\* The system stops in its terminal states and where a bound is reached.
CHECK_DEADLOCK FALSE
