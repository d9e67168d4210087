\* Two runs of one task: two launches with a budget of one or two calls and three
\* units of time, two workers, two writers of a log of three lines, two tasks.
SPECIFICATION RunsSpec
CHECK_DEADLOCK FALSE
CONSTANTS
    MaxSessions = 2
    LaunchRuns = {1, 2}
    CallLimits = {1, 2}
    TotalLimit = 3
    AttemptLimit = 2
    GraceUnits = 1
    MaxTime = 4
    MaxCrashes = 1
    LogWriters = {1, 2}
    MaxLines = 3
    MaxTasks = 2
    MaxFaults = 1
INVARIANTS
    RunsTypeOK
    EveryAgentIsPaid
    OverrunIsStopped
    FailedRunIsClosed
    OneWorker
    CompletedRunLeavesNoPrompt
    AcknowledgedLinesSurvive
    AgentsEndBeforeTheDatabase
PROPERTIES
    SuccessIsProved
    StopSettles
    SettledRunIsKilled
    DeadWorkerIsNoticed
