\* One task's durable state: two files, two attempts, two workers that clean up,
\* one message, two writes by others during captures, three builds of the helper.
SPECIFICATION DurableSpec
CHECK_DEADLOCK FALSE
CONSTANTS
    f = f
    g = g
    w1 = w1
    w2 = w2
    m1 = m1
    Files = {f, g}
    MaxImplementers = 2
    TaskAttempts = {1, 2}
    Workers = {w1, w2}
    Messages = {m1}
    FilePaths = {1, 2}
    MaxChanges = 2
    MaxReads = 2
    MaxScans = 2
    Builders = {1, 2, 3}
    MaxDamage = 1
INVARIANTS
    DurableTypeOK
    NoWorkOnAPromotedProject
    ExitIsProved
    ReviewsMatchRequirements
    ChangeSetsAreOfOneInstant
    NamedBaselineLoads
PROPERTIES
    EditsSurvivePromotion
    PromotedCandidateIsCurrent
    WorkspaceImplementsPromise
    PauseLosesNothing
    SuccessorIsNeverDeleted
