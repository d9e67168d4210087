\* Four events are enough for the counterexample.
SPECIFICATION LedgerSpec
CONSTANTS
    MaxReworks = 1
    MaxAttempts = 8
    MaxRequirementVersion = 1
INVARIANTS
    TransitionedSnapshotIsValid
\* The system stops in its terminal states and where a bound is reached.
CHECK_DEADLOCK FALSE
