\* One pause during the implementation is enough for the counterexample.
SPECIFICATION LedgerSpec
CONSTANTS
    MaxReworks = 1
    MaxAttempts = 8
    MaxRequirementVersion = 1
INVARIANTS
    ReviewedCandidateIsFrozen
\* The system stops in its terminal states and where a bound is reached.
CHECK_DEADLOCK FALSE
