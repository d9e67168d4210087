\* One task besides the one found at the start; no stage of a shutdown fails.
SPECIFICATION LifecycleSpec
CHECK_DEADLOCK FALSE
CONSTANTS
    MaxTasks = 1
    MaxFaults = 0
PROPERTY
    ExitWaitsForTheTask
