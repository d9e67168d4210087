---------------------------- MODULE EngineProofs ----------------------------
(* Safety of the workflow reducer for every bound.                            *)
EXTENDS WorkflowEngine, TLAPS

-----------------------------------------------------------------------------
(* Type correctness.  Each kind of edit the reducer makes keeps a snapshot in  *)
(* Snapshots.                                                                  *)

LEMMA EditTyping ==
    ASSUME NEW s \in Snapshots
    PROVE  /\ \A i \in Identities : [s EXCEPT !.active = i] \in Snapshots
           /\ \A i \in Identities, p \in BOOLEAN : [s EXCEPT !.active = i, !.pauseAfterAttempt = p] \in Snapshots
           /\ \A i \in Identities, target \in ResumeTargets \cup {"none"} : [s EXCEPT !.active = i, !.resumeTarget = target] \in Snapshots
           /\ \A target \in ResumeTargets \cup {"none"} : [s EXCEPT !.resumeTarget = target] \in Snapshots
           /\ \A actions \in SUBSET AwaitingUserActions, target \in ResumeTargets \cup {"none"} : [s EXCEPT !.awaitingActions = actions, !.resumeTarget = target] \in Snapshots
           /\ \A actions \in SUBSET AwaitingUserActions : [s EXCEPT !.awaitingActions = actions] \in Snapshots
           /\ \A i \in Identities : [s EXCEPT !.pendingResume = i] \in Snapshots
           /\ \A r \in {"none", "deferred", "pending"} : [s EXCEPT !.rework = r] \in Snapshots
           /\ \A p \in BOOLEAN : [s EXCEPT !.pauseAfterAttempt = p] \in Snapshots
           /\ \A p \in BOOLEAN, r \in {"none", "deferred", "pending"} : [s EXCEPT !.pauseAfterAttempt = p, !.rework = r] \in Snapshots
           /\ \A p \in BOOLEAN, actions \in SUBSET AwaitingUserActions : [s EXCEPT !.pauseAfterAttempt = p, !.awaitingActions = actions] \in Snapshots
           /\ \A stop \in {"none", "interrupt", "cancel"} : [s EXCEPT !.stopIntent = stop] \in Snapshots
           /\ \A stop \in {"none", "interrupt", "cancel"}, target \in ResumeTargets \cup {"none"} : [s EXCEPT !.stopIntent = stop, !.resumeTarget = target] \in Snapshots
<1>1. /\ \A i \in Identities : [s EXCEPT !.active = i] \in Snapshots
      /\ \A i \in Identities, p \in BOOLEAN : [s EXCEPT !.active = i, !.pauseAfterAttempt = p] \in Snapshots
      /\ \A i \in Identities, target \in ResumeTargets \cup {"none"} : [s EXCEPT !.active = i, !.resumeTarget = target] \in Snapshots
  BY Zenon DEF Snapshots
<1>2. /\ \A target \in ResumeTargets \cup {"none"} : [s EXCEPT !.resumeTarget = target] \in Snapshots
      /\ \A actions \in SUBSET AwaitingUserActions, target \in ResumeTargets \cup {"none"} : [s EXCEPT !.awaitingActions = actions, !.resumeTarget = target] \in Snapshots
      /\ \A actions \in SUBSET AwaitingUserActions : [s EXCEPT !.awaitingActions = actions] \in Snapshots
  BY Zenon DEF Snapshots
<1>3. /\ \A i \in Identities : [s EXCEPT !.pendingResume = i] \in Snapshots
      /\ \A r \in {"none", "deferred", "pending"} : [s EXCEPT !.rework = r] \in Snapshots
      /\ \A p \in BOOLEAN : [s EXCEPT !.pauseAfterAttempt = p] \in Snapshots
  BY Zenon DEF Snapshots
<1>4. /\ \A p \in BOOLEAN, r \in {"none", "deferred", "pending"} : [s EXCEPT !.pauseAfterAttempt = p, !.rework = r] \in Snapshots
      /\ \A p \in BOOLEAN, actions \in SUBSET AwaitingUserActions : [s EXCEPT !.pauseAfterAttempt = p, !.awaitingActions = actions] \in Snapshots
      /\ \A stop \in {"none", "interrupt", "cancel"} : [s EXCEPT !.stopIntent = stop] \in Snapshots
  BY Zenon DEF Snapshots
<1>5. /\ \A stop \in {"none", "interrupt", "cancel"}, target \in ResumeTargets \cup {"none"} : [s EXCEPT !.stopIntent = stop, !.resumeTarget = target] \in Snapshots
  BY Zenon DEF Snapshots
<1> QED BY <1>1, <1>2, <1>3, <1>4, <1>5

LEMMA CounterTyping ==
    ASSUME NEW s \in Snapshots
    PROVE  /\ \A n \in Nat : [s EXCEPT !.reworkCount = n] \in Snapshots
           /\ \A n \in 1..MaxRequirementVersion :
                 [s EXCEPT !.requirementVersion = n] \in Snapshots
BY Zenon DEF Snapshots

LEMMA Members ==
    /\ SafeExecutionStates \subseteq WorkflowStates \cap ResumeTargets
    /\ {"planning", "implementing", "reviewing", "master_validation"} \subseteq SafeExecutionStates
    /\ {"completed", "cancelled", "failed", "interrupting", "cleanup_failed", "checking_environment",
        "awaiting_plan_approval", "rework_requested", "paused_after_run",
        "interrupted_needs_inspection", "awaiting_user"} \subseteq WorkflowStates
    /\ {"awaiting_plan_approval", "rework_requested", "awaiting_user", "completed"}
          \subseteq ResumeTargets
    /\ {{"retry_environment", "cancel"}, {"continue", "cancel"}, {"cancel"}}
          \subseteq SUBSET AwaitingUserActions
    /\ NoIdentity \in Identities
BY EngineAssumption DEF WorkflowStates, SafeExecutionStates, ResumeTargets, CleanupStates,
   TerminalStates, AwaitingUserActions, NoIdentity, Identities

LEMMA MoveTyping ==
    ASSUME snapshot \in Snapshots
    PROVE  \A st \in WorkflowStates : Moved(st) \in Snapshots /\ Settled(st) \in Snapshots
<1> TAKE st \in WorkflowStates
<1>1. Moved(st) \in Snapshots
  BY Members, Zenon DEF Moved, Snapshots
<1> QED BY <1>1, Members, EditTyping DEF Settled

LEMMA IdentityTyping ==
    ASSUME NEW st, NEW a \in Attempts
    PROVE  IdentityFor(st, a) \in Identities
BY EngineAssumption DEF IdentityFor, Identities, Attempts, ExpectedRole, AgentRoles

LEMMA TargetTyping ==
    ASSUME snapshot \in Snapshots
    PROVE  /\ \A actions \in SUBSET AwaitingUserActions, target \in ResumeTargets \cup {"none"} :
                 WaitingForUser(actions, target) \in Snapshots
           /\ \A target \in ResumeTargets : PausedAfterRun(target) \in Snapshots
           /\ \A st \in SafeExecutionStates, a \in Attempts : Executing(st, a) \in Snapshots
BY Members, EditTyping, MoveTyping, IdentityTyping DEF WaitingForUser, PausedAfterRun, Executing

TypedSnapshot == snapshot \in Snapshots /\ minted \in 0..MaxAttempts

LEMMA FieldTyping ==
    ASSUME snapshot \in Snapshots
    PROVE  /\ snapshot.resumeTarget \in ResumeTargets \cup {"none"}
           /\ snapshot.stopIntent \in {"none", "interrupt", "cancel"}
           /\ snapshot.awaitingActions \in SUBSET AwaitingUserActions
           /\ snapshot.pendingResume \in Identities
           /\ snapshot.active \in Identities
           /\ snapshot.reworkCount \in Nat
           /\ snapshot.pauseAfterAttempt \in BOOLEAN
BY DEF Snapshots

LEMMA HandOverTyping ==
    ASSUME TypedSnapshot, NEW st \in SafeExecutionStates, NEW a \in Attempts, NEW fx,
           HandOver(st, a, fx)
    PROVE  TypedSnapshot'
<1>1. minted' \in 0..MaxAttempts
  BY EngineAssumption DEF HandOver, Mint, Attempts
<1>2. PausedAfterRun(st) \in Snapshots /\ Executing(st, a) \in Snapshots
  BY Members, TargetTyping DEF TypedSnapshot
<1>3. [PausedAfterRun(st) EXCEPT !.pendingResume = IdentityFor(st, a)] \in Snapshots
  BY <1>2, IdentityTyping, EditTyping
<1>4. CASE snapshot.pauseAfterAttempt
  BY <1>1, <1>3, <1>4 DEF HandOver, Becomes, TypedSnapshot
<1>5. CASE ~snapshot.pauseAfterAttempt
  BY <1>1, <1>2, <1>5 DEF HandOver, Becomes, TypedSnapshot
<1> QED BY <1>4, <1>5

LEMMA TypedStep == TypedSnapshot /\ EngineNext => TypedSnapshot'
<1> SUFFICES ASSUME TypedSnapshot, EngineNext PROVE TypedSnapshot'
  OBVIOUS
<1> USE EngineAssumption DEF TypedSnapshot, Becomes, KeepMinted, Accepts, AcceptsResult
<1>1. CASE Start
  BY <1>1, Members, MoveTyping DEF Start
<1>2. CASE EnvironmentFailed
  BY <1>2, Members, TargetTyping DEF EnvironmentFailed
<1>3. CASE AwaitingUserRetryEnvironment
  BY <1>3, Members, MoveTyping DEF AwaitingUserRetryEnvironment
<1>4. ASSUME NEW a \in Attempts, EnvironmentReady(a) PROVE TypedSnapshot'
  BY <1>4, Members, TargetTyping DEF EnvironmentReady, Launch, Mint, Attempts
<1>5. ASSUME NEW a \in Attempts, PlanApproved(a) PROVE TypedSnapshot'
  BY <1>5, Members, TargetTyping DEF PlanApproved, Launch, Mint, Attempts
<1>6. ASSUME NEW a \in Attempts, PlanRevisionRequested(a) PROVE TypedSnapshot'
  <2>1. Executing("planning", a) \in Snapshots
    BY Members, TargetTyping
  <2>2. snapshot.requirementVersion + 1 \in 1..MaxRequirementVersion
    BY <1>6 DEF PlanRevisionRequested, Snapshots
  <2> QED BY <1>6, <2>1, <2>2, CounterTyping DEF PlanRevisionRequested, Mint, Attempts
<1>7. ASSUME NEW a \in Attempts, ReworkContextPersisted(a) PROVE TypedSnapshot'
  <2>1. Executing("implementing", a) \in Snapshots
    BY Members, TargetTyping
  <2>2. snapshot.reworkCount + 1 \in Nat
    BY FieldTyping
  <2> QED BY <1>7, <2>1, <2>2, CounterTyping DEF ReworkContextPersisted, Mint, Attempts
<1>8. ASSUME NEW a \in Attempts, InspectionContinue(a) PROVE TypedSnapshot'
  BY <1>8, Members, TargetTyping DEF InspectionContinue, Launch, Mint, Attempts
<1>9. ASSUME NEW a \in Attempts, AwaitingUserContinue(a) PROVE TypedSnapshot'
  BY <1>9, Members, TargetTyping DEF AwaitingUserContinue, Launch, Mint, Attempts
<1>10. ASSUME NEW a \in Attempts, PlanReadyForApproval(a) PROVE TypedSnapshot'
  BY <1>10, Members, MoveTyping, TargetTyping DEF PlanReadyForApproval
<1>11. ASSUME NEW a \in Attempts, ImplementationFailed(a) PROVE TypedSnapshot'
  BY <1>11, Members, MoveTyping, EditTyping DEF ImplementationFailed
<1>12. ASSUME NEW a \in Attempts, ReviewReworkRequested(a) PROVE TypedSnapshot'
  <2>1. Settled("rework_requested") \in Snapshots
    BY Members, MoveTyping
  <2>2. [Settled("rework_requested") EXCEPT !.rework = "pending"] \in Snapshots
    BY <2>1, EditTyping
  <2>3. WaitingForUser({"cancel"}, "none") \in Snapshots
    BY Members, TargetTyping
  <2> QED BY <1>12, <2>2, <2>3 DEF ReviewReworkRequested
<1>13. ASSUME NEW a \in Attempts, MasterApproved(a) PROVE TypedSnapshot'
  BY <1>13, Members, MoveTyping, TargetTyping DEF MasterApproved
<1>14. ASSUME NEW a \in Attempts, MasterRejectedAtLimit(a) PROVE TypedSnapshot'
  BY <1>14, Members, EditTyping, TargetTyping DEF MasterRejectedAtLimit
<1>15. ASSUME NEW a \in Attempts, MasterRejected(a) PROVE TypedSnapshot'
  BY <1>15, Members, EditTyping, MoveTyping, TargetTyping DEF MasterRejected
<1>16. ASSUME NEW a \in Attempts, StageFailed(a) PROVE TypedSnapshot'
  BY <1>16, Members, TargetTyping DEF StageFailed
<1>17. ASSUME NEW a \in Attempts, NEW next \in Attempts, PlanReady(a, next) PROVE TypedSnapshot'
  BY <1>17, Members, HandOverTyping DEF PlanReady
<1>18. ASSUME NEW a \in Attempts, NEW next \in Attempts, ImplementationCompleted(a, next) PROVE TypedSnapshot'
  BY <1>18, Members, HandOverTyping DEF ImplementationCompleted
<1>19. ASSUME NEW a \in Attempts, NEW next \in Attempts, ReviewCompleted(a, next) PROVE TypedSnapshot'
  BY <1>19, Members, HandOverTyping DEF ReviewCompleted
<1>20. CASE PauseAfterAttemptRequested
  BY <1>20, Members, EditTyping, MoveTyping DEF PauseAfterAttemptRequested
<1>21. CASE ResumeToApproval
  BY <1>21, Members, EditTyping, MoveTyping DEF ResumeToApproval
<1>22. CASE ResumeRework
  BY <1>22, Members, EditTyping, MoveTyping DEF ResumeRework
<1>23. CASE ResumeExecution
  <2>1. PICK st \in SafeExecutionStates : Resuming(st)
    BY <1>23 DEF ResumeExecution
  <2>2. Moved(st) \in Snapshots
    BY Members, MoveTyping
  <2>3. IdentityFor(st, snapshot.pendingResume.attempt) \in Identities
    BY EngineAssumption, FieldTyping DEF IdentityFor, Identities, ExpectedRole, AgentRoles
  <2>4. Executing(st, snapshot.pendingResume.attempt) \in Snapshots
    BY <2>2, <2>3, EditTyping DEF Executing
  <2>5. [Executing(st, snapshot.pendingResume.attempt) EXCEPT !.pauseAfterAttempt = FALSE]
           \in Snapshots
    BY <2>4, EditTyping
  <2> QED BY <1>23, <2>1, <2>5 DEF ResumeExecution, Resuming
<1>24. CASE ResumeToAwaitingUser
  <2>1. Moved("awaiting_user") \in Snapshots
    BY Members, MoveTyping
  <2>2. [Moved("awaiting_user") EXCEPT !.pauseAfterAttempt = FALSE,
           !.awaitingActions = snapshot.awaitingActions] \in Snapshots
    BY <2>1, FieldTyping, EditTyping
  <2> QED BY <1>24, <2>2 DEF ResumeToAwaitingUser
<1>25. CASE ResumeCompletion
  BY <1>25, Members, EditTyping, MoveTyping DEF ResumeCompletion
<1>26. CASE Cancel
  BY <1>26, Members, EditTyping, MoveTyping DEF Cancel, CancelTask
<1>27. CASE Interrupt
  BY <1>27, Members, EditTyping, MoveTyping DEF Interrupt
<1>28. CASE ProcessTreeClean
  <2>1. /\ Moved("cancelled") \in Snapshots
        /\ Moved("interrupted_needs_inspection") \in Snapshots
    BY Members, MoveTyping
  <2>2. [Moved("cancelled") EXCEPT !.active = NoIdentity] \in Snapshots
    BY <2>1, Members, EditTyping
  <2>3. [Moved("interrupted_needs_inspection") EXCEPT !.active = NoIdentity,
           !.resumeTarget = snapshot.resumeTarget] \in Snapshots
    BY <2>1, Members, FieldTyping, EditTyping
  <2> QED BY <1>28, <2>2, <2>3 DEF ProcessTreeClean
<1>29. CASE ProcessCleanupFailed
  <2>1. Moved("cleanup_failed") \in Snapshots
    BY Members, MoveTyping
  <2>2. StillStopping("cleanup_failed") \in Snapshots
    BY <2>1, FieldTyping, EditTyping DEF StillStopping
  <2> QED BY <1>29, <2>2 DEF ProcessCleanupFailed
<1>30. CASE RetryCleanup
  <2>1. Moved("interrupting") \in Snapshots
    BY Members, MoveTyping
  <2>2. StillStopping("interrupting") \in Snapshots
    BY <2>1, FieldTyping, EditTyping DEF StillStopping
  <2> QED BY <1>30, <2>2 DEF RetryCleanup
<1>31. CASE InspectionView
  BY <1>31, Members, TargetTyping DEF InspectionView, Snapshots
<1>32. CASE InspectionCancel
  BY <1>32, Members, MoveTyping DEF InspectionCancel
<1>33. CASE AwaitingUserCancel
  BY <1>33, Members, EditTyping, MoveTyping DEF AwaitingUserCancel, CancelTask
<1>34. CASE FatalError
  BY <1>34, Members, MoveTyping DEF FatalError
<1>35. ASSUME NEW a \in Attempts, SpareIdentity(a) PROVE TypedSnapshot'
  BY <1>35 DEF SpareIdentity, Mint, Attempts
<1> QED BY <1>1, <1>2, <1>3, <1>4, <1>5, <1>6, <1>7, <1>8, <1>9, <1>10, <1>11, <1>12,
            <1>13, <1>14, <1>15, <1>16, <1>17, <1>18, <1>19, <1>20, <1>21, <1>22, <1>23,
            <1>24, <1>25, <1>26, <1>27, <1>28, <1>29, <1>30, <1>31, <1>32, <1>33, <1>34, <1>35
     DEF EngineNext, ReducerNext, LaunchStep, VerdictStep, ResultStep, PauseStep, StopStep

-----------------------------------------------------------------------------
(* Validity.  The reducer acts only on valid snapshots, so the induction is on  *)
(* ShapeOk with the one exception spelled out, together with the rework bound.  *)

\* An interrupted run remembers the safe state it will be inspected for.
StopRemembersItsTarget ==
    snapshot.state \in CleanupStates /\ snapshot.stopIntent = "interrupt"
        => snapshot.resumeTarget \in SafeExecutionStates

ShapeInv == InvalidOnlyWhenStoppingAPausingRun /\ PromisedReworkIsWithinLimit /\ StopRemembersItsTarget

LEMMA ShapeStep == TypedSnapshot /\ ShapeInv /\ EngineNext => ShapeInv'
<1> SUFFICES ASSUME TypedSnapshot, ShapeInv, EngineNext PROVE ShapeInv'
  OBVIOUS
<1> USE EngineAssumption DEF TypedSnapshot, Snapshots, Identities, NoIdentity, ShapeInv,
        InvalidOnlyWhenStoppingAPausingRun, PromisedReworkIsWithinLimit, StopRemembersItsTarget,
        ValidSnapshot, ShapeOk,
        PauseOk, IdentityOk, PausedOk, AwaitingOk, IsExecuting, SafeExecutionStates,
        CleanupStates, Accepts, AcceptsResult
<1>1. CASE Start
  BY <1>1 DEF Start, Becomes, Moved
<1>2. CASE EnvironmentFailed
  BY <1>2 DEF EnvironmentFailed, WaitingForUser, Settled, Becomes, Moved
<1>3. CASE AwaitingUserRetryEnvironment
  BY <1>3 DEF AwaitingUserRetryEnvironment, MayAwait, Becomes, Moved
<1>4. ASSUME NEW a \in Attempts, EnvironmentReady(a) PROVE ShapeInv'
  BY <1>4 DEF EnvironmentReady, Launch, Mint, Attempts, Executing, IdentityFor, ExpectedRole, Becomes, Moved
<1>5. ASSUME NEW a \in Attempts, PlanApproved(a) PROVE ShapeInv'
  BY <1>5 DEF PlanApproved, Launch, Mint, Attempts, Executing, IdentityFor, ExpectedRole, Becomes, Moved
<1>6. ASSUME NEW a \in Attempts, PlanRevisionRequested(a) PROVE ShapeInv'
  BY <1>6 DEF PlanRevisionRequested, Launch, Mint, Attempts, Executing, IdentityFor, ExpectedRole, Becomes, Moved
<1>7. ASSUME NEW a \in Attempts, ReworkContextPersisted(a) PROVE ShapeInv'
  BY <1>7 DEF ReworkContextPersisted, Launch, Mint, Attempts, Executing, IdentityFor, ExpectedRole, ReworkLimitReached, Becomes, Moved
<1>8. ASSUME NEW a \in Attempts, InspectionContinue(a) PROVE ShapeInv'
  BY <1>8 DEF InspectionContinue, Launch, Mint, Attempts, Executing, IdentityFor, ExpectedRole, Becomes, Moved
<1>9. ASSUME NEW a \in Attempts, AwaitingUserContinue(a) PROVE ShapeInv'
  BY <1>9 DEF AwaitingUserContinue, Launch, Mint, Attempts, Executing, IdentityFor, ExpectedRole, MayAwait, Becomes, Moved
<1>10. ASSUME NEW a \in Attempts, PlanReadyForApproval(a) PROVE ShapeInv'
  BY <1>10 DEF PlanReadyForApproval, Settled, PausedAfterRun, Becomes, Moved
<1>11. ASSUME NEW a \in Attempts, ImplementationFailed(a) PROVE ShapeInv'
  BY <1>11 DEF ImplementationFailed, Settled, Becomes, Moved
<1>12. ASSUME NEW a \in Attempts, ReviewReworkRequested(a) PROVE ShapeInv'
  <2>1. ValidSnapshot(snapshot) /\ ~IsTerminal(snapshot) /\ snapshot.state = "reviewing"
    BY <1>12 DEF ReviewReworkRequested
  <2>2. CASE ReworkLimitReached
    <3>1. snapshot' = WaitingForUser({"cancel"}, "none")
      BY <1>12, <2>2 DEF ReviewReworkRequested, Becomes
    <3> QED BY <2>1, <2>2, <3>1 DEF WaitingForUser, Settled, ReworkLimitReached, Moved
  <2>3. CASE ~ReworkLimitReached
    <3>1. snapshot' = [Settled("rework_requested") EXCEPT !.rework = "pending"]
      BY <1>12, <2>3 DEF ReviewReworkRequested, Becomes
    <3> QED BY <2>1, <2>3, <3>1 DEF Settled, ReworkLimitReached, Moved
  <2> QED BY <2>2, <2>3
<1>13. ASSUME NEW a \in Attempts, MasterApproved(a) PROVE ShapeInv'
  <2>1. ValidSnapshot(snapshot) /\ ~IsTerminal(snapshot) /\ snapshot.state = "master_validation"
    BY <1>13 DEF MasterApproved
  <2>2. CASE snapshot.pauseAfterAttempt
    <3>1. snapshot' = PausedAfterRun("completed")
      BY <1>13, <2>2 DEF MasterApproved, Becomes
    <3> QED BY <2>1, <2>2, <3>1 DEF PausedAfterRun, Settled, Moved
  <2>3. CASE ~snapshot.pauseAfterAttempt
    <3>1. snapshot' = Settled("completed")
      BY <1>13, <2>3 DEF MasterApproved, Becomes
    <3> QED BY <2>1, <2>3, <3>1 DEF Settled, Moved
  <2> QED BY <2>2, <2>3
<1>14. ASSUME NEW a \in Attempts, MasterRejectedAtLimit(a) PROVE ShapeInv'
  <2>1. ValidSnapshot(snapshot) /\ ~IsTerminal(snapshot) /\ snapshot.state = "master_validation"
    BY <1>14 DEF MasterRejectedAtLimit
  <2>2. CASE snapshot.pauseAfterAttempt
    <3>1. snapshot' = [PausedAfterRun("awaiting_user") EXCEPT !.awaitingActions = {"cancel"}]
      BY <1>14, <2>2 DEF MasterRejectedAtLimit, Becomes
    <3> QED BY <2>1, <2>2, <3>1, <1>14 DEF PausedAfterRun, Settled, ReworkLimitReached, Moved
  <2>3. CASE ~snapshot.pauseAfterAttempt
    <3>1. snapshot' = WaitingForUser({"cancel"}, "none")
      BY <1>14, <2>3 DEF MasterRejectedAtLimit, Becomes
    <3> QED BY <2>1, <2>3, <3>1, <1>14 DEF WaitingForUser, Settled, ReworkLimitReached, Moved
  <2> QED BY <2>2, <2>3
<1>15. ASSUME NEW a \in Attempts, MasterRejected(a) PROVE ShapeInv'
  <2>1. ValidSnapshot(snapshot) /\ ~IsTerminal(snapshot) /\ snapshot.state = "master_validation"
    BY <1>15 DEF MasterRejected
  <2>2. CASE snapshot.pauseAfterAttempt
    <3>1. snapshot' = [PausedAfterRun("rework_requested") EXCEPT !.rework = "deferred"]
      BY <1>15, <2>2 DEF MasterRejected, Becomes
    <3> QED BY <2>1, <2>2, <3>1, <1>15 DEF PausedAfterRun, Settled, ReworkLimitReached, MasterRejected, Moved
  <2>3. CASE ~snapshot.pauseAfterAttempt
    <3>1. snapshot' = [Settled("rework_requested") EXCEPT !.rework = "pending"]
      BY <1>15, <2>3 DEF MasterRejected, Becomes
    <3> QED BY <2>1, <2>3, <3>1, <1>15 DEF Settled, ReworkLimitReached, MasterRejected, Moved
  <2> QED BY <2>2, <2>3
<1>16. ASSUME NEW a \in Attempts, StageFailed(a) PROVE ShapeInv'
  BY <1>16 DEF StageFailed, WaitingForUser, Settled, Becomes, Moved
<1>17. ASSUME NEW a \in Attempts, NEW next \in Attempts, PlanReady(a, next) PROVE ShapeInv'
  <2>1. ValidSnapshot(snapshot) /\ ~IsTerminal(snapshot) /\ snapshot.state = "planning"
    BY <1>17 DEF PlanReady
  <2>2. CASE snapshot.pauseAfterAttempt
    <3>1. snapshot' = [PausedAfterRun("implementing") EXCEPT !.pendingResume = IdentityFor("implementing", next)]
      BY <1>17, <2>2 DEF PlanReady, HandOver, Mint, Becomes
    <3> QED BY <2>1, <2>2, <3>1 DEF PausedAfterRun, Settled, IdentityFor, ExpectedRole, Attempts, Moved
  <2>3. CASE ~snapshot.pauseAfterAttempt
    <3>1. snapshot' = Executing("implementing", next)
      BY <1>17, <2>3 DEF PlanReady, HandOver, Mint, Becomes
    <3> QED BY <2>1, <2>3, <3>1 DEF Executing, IdentityFor, ExpectedRole, Attempts, Moved
  <2> QED BY <2>2, <2>3
<1>18. ASSUME NEW a \in Attempts, NEW next \in Attempts, ImplementationCompleted(a, next) PROVE ShapeInv'
  <2>1. ValidSnapshot(snapshot) /\ ~IsTerminal(snapshot) /\ snapshot.state = "implementing"
    BY <1>18 DEF ImplementationCompleted
  <2>2. CASE snapshot.pauseAfterAttempt
    <3>1. snapshot' = [PausedAfterRun("reviewing") EXCEPT !.pendingResume = IdentityFor("reviewing", next)]
      BY <1>18, <2>2 DEF ImplementationCompleted, HandOver, Mint, Becomes
    <3> QED BY <2>1, <2>2, <3>1 DEF PausedAfterRun, Settled, IdentityFor, ExpectedRole, Attempts, Moved
  <2>3. CASE ~snapshot.pauseAfterAttempt
    <3>1. snapshot' = Executing("reviewing", next)
      BY <1>18, <2>3 DEF ImplementationCompleted, HandOver, Mint, Becomes
    <3> QED BY <2>1, <2>3, <3>1 DEF Executing, IdentityFor, ExpectedRole, Attempts, Moved
  <2> QED BY <2>2, <2>3
<1>19. ASSUME NEW a \in Attempts, NEW next \in Attempts, ReviewCompleted(a, next) PROVE ShapeInv'
  <2>1. ValidSnapshot(snapshot) /\ ~IsTerminal(snapshot) /\ snapshot.state = "reviewing"
    BY <1>19 DEF ReviewCompleted
  <2>2. CASE snapshot.pauseAfterAttempt
    <3>1. snapshot' = [PausedAfterRun("master_validation") EXCEPT !.pendingResume = IdentityFor("master_validation", next)]
      BY <1>19, <2>2 DEF ReviewCompleted, HandOver, Mint, Becomes
    <3> QED BY <2>1, <2>2, <3>1 DEF PausedAfterRun, Settled, IdentityFor, ExpectedRole, Attempts, Moved
  <2>3. CASE ~snapshot.pauseAfterAttempt
    <3>1. snapshot' = Executing("master_validation", next)
      BY <1>19, <2>3 DEF ReviewCompleted, HandOver, Mint, Becomes
    <3> QED BY <2>1, <2>3, <3>1 DEF Executing, IdentityFor, ExpectedRole, Attempts, Moved
  <2> QED BY <2>2, <2>3
<1>20. CASE PauseAfterAttemptRequested
  BY <1>20 DEF PauseAfterAttemptRequested, Becomes, Moved
<1>21. CASE ResumeToApproval
  BY <1>21 DEF ResumeToApproval, Resuming, Becomes, Moved
<1>22. CASE ResumeRework
  BY <1>22 DEF ResumeRework, Resuming, Becomes, Moved
<1>23. CASE ResumeExecution
  BY <1>23 DEF ResumeExecution, Resuming, Executing, IdentityFor, ExpectedRole, Becomes, Moved
<1>24. CASE ResumeToAwaitingUser
  BY <1>24 DEF ResumeToAwaitingUser, Resuming, Becomes, Moved
<1>25. CASE ResumeCompletion
  BY <1>25 DEF ResumeCompletion, Resuming, Becomes, Moved
<1>26. CASE Cancel
  <2>1. ValidSnapshot(snapshot) /\ ~IsTerminal(snapshot)
    BY <1>26 DEF Cancel
  <2>2. CASE snapshot.active.attempt # 0
    <3>1. snapshot' = [Moved("interrupting") EXCEPT !.stopIntent = "cancel"]
      BY <1>26, <2>2 DEF Cancel, CancelTask, Becomes
    <3> QED BY <2>1, <2>2, <3>1 DEF Moved
  <2>3. CASE snapshot.active.attempt = 0
    <3>1. snapshot' = Moved("cancelled")
      BY <1>26, <2>3 DEF Cancel, CancelTask, Becomes
    <3> QED BY <2>1, <2>3, <3>1 DEF Moved
  <2> QED BY <2>2, <2>3
<1>27. CASE Interrupt
  BY <1>27 DEF Interrupt, Becomes, Moved
<1>28. CASE ProcessTreeClean
  <2>1. ValidSnapshot(snapshot) /\ ~IsTerminal(snapshot) /\ snapshot.state = "interrupting"
    BY <1>28 DEF ProcessTreeClean
  <2>2. CASE snapshot.stopIntent = "cancel"
    <3>1. snapshot' = [Moved("cancelled") EXCEPT !.active = NoIdentity]
      BY <1>28, <2>2 DEF ProcessTreeClean, Becomes
    <3> QED BY <2>1, <2>2, <3>1 DEF Moved
  <2>3. CASE snapshot.stopIntent # "cancel"
    <3>1. snapshot' = [Moved("interrupted_needs_inspection") EXCEPT !.active = NoIdentity,
                       !.resumeTarget = snapshot.resumeTarget]
      BY <1>28, <2>3 DEF ProcessTreeClean, Becomes
    <3> QED BY <2>1, <2>3, <3>1 DEF Moved
  <2> QED BY <2>2, <2>3
<1>29. CASE ProcessCleanupFailed
  BY <1>29 DEF ProcessCleanupFailed, StillStopping, Becomes, Moved
<1>30. CASE RetryCleanup
  BY <1>30 DEF RetryCleanup, StillStopping, Becomes, Moved
<1>31. CASE InspectionView
  BY <1>31 DEF InspectionView, WaitingForUser, Settled, Becomes, Moved
<1>32. CASE InspectionCancel
  BY <1>32 DEF InspectionCancel, Becomes, Moved
<1>33. CASE AwaitingUserCancel
  <2>1. ValidSnapshot(snapshot) /\ ~IsTerminal(snapshot) /\ snapshot.state = "awaiting_user"
    BY <1>33 DEF AwaitingUserCancel, MayAwait
  <2>2. CASE snapshot.active.attempt # 0
    <3>1. snapshot' = [Moved("interrupting") EXCEPT !.stopIntent = "cancel"]
      BY <1>33, <2>2 DEF AwaitingUserCancel, MayAwait, CancelTask, Becomes
    <3> QED BY <2>1, <2>2, <3>1 DEF Moved
  <2>3. CASE snapshot.active.attempt = 0
    <3>1. snapshot' = Moved("cancelled")
      BY <1>33, <2>3 DEF AwaitingUserCancel, MayAwait, CancelTask, Becomes
    <3> QED BY <2>1, <2>3, <3>1 DEF Moved
  <2> QED BY <2>2, <2>3
<1>34. CASE FatalError
  BY <1>34 DEF FatalError, Becomes, Moved
<1>35. ASSUME NEW a \in Attempts, SpareIdentity(a) PROVE ShapeInv'
  BY <1>35 DEF SpareIdentity, Becomes
<1> QED BY <1>1, <1>2, <1>3, <1>4, <1>5, <1>6, <1>7, <1>8, <1>9, <1>10, <1>11, <1>12,
            <1>13, <1>14, <1>15, <1>16, <1>17, <1>18, <1>19, <1>20, <1>21, <1>22, <1>23,
            <1>24, <1>25, <1>26, <1>27, <1>28, <1>29, <1>30, <1>31, <1>32, <1>33, <1>34, <1>35
     DEF EngineNext, ReducerNext, LaunchStep, VerdictStep, ResultStep, PauseStep, StopStep

-----------------------------------------------------------------------------
(* The theorems about the snapshot.                                            *)

LEMMA InitialSafety == EngineInit => TypedSnapshot /\ ShapeInv
<1> SUFFICES ASSUME EngineInit PROVE TypedSnapshot /\ ShapeInv
  OBVIOUS
<1>1. TypedSnapshot
  <2>1. NoIdentity \in Identities /\ "draft" \in WorkflowStates
    BY Members DEF WorkflowStates
  <2>2. InitialSnapshot \in Snapshots
    BY <2>1, EngineAssumption DEF InitialSnapshot, Snapshots
  <2> QED BY <2>2, EngineAssumption DEF EngineInit, TypedSnapshot
<1>2. ShapeInv
  BY EngineAssumption DEF EngineInit, InitialSnapshot, ShapeInv, StopRemembersItsTarget,
     InvalidOnlyWhenStoppingAPausingRun, PromisedReworkIsWithinLimit, ValidSnapshot, ShapeOk, PauseOk,
     IdentityOk, NoIdentity, IsExecuting, SafeExecutionStates, CleanupStates
<1> QED BY <1>1, <1>2

LEMMA StepSafety ==
    TypedSnapshot /\ ShapeInv /\ [EngineNext]_engineVars => (TypedSnapshot /\ ShapeInv)'
<1>1. CASE EngineNext
  BY <1>1, TypedStep, ShapeStep
<1>2. CASE UNCHANGED engineVars
  BY <1>2 DEF engineVars, TypedSnapshot, ShapeInv, StopRemembersItsTarget,
     InvalidOnlyWhenStoppingAPausingRun, PromisedReworkIsWithinLimit
<1> QED BY <1>1, <1>2

\* The inductive invariant: the snapshot keeps its type, it is valid but for a run
\* stopped with its pause pending, a stopped run remembers where to resume, and a
\* promised rework is within the limit.
THEOREM SnapshotSafety == EngineSpec => [](TypedSnapshot /\ ShapeInv)
BY InitialSafety, StepSafety, PTL DEF EngineSpec

\* No event of the reducer makes a snapshot its validator refuses, but for
\* stopping a run whose pause is still pending.
THEOREM Validity == EngineSpec => []InvalidOnlyWhenStoppingAPausingRun
BY SnapshotSafety, PTL DEF ShapeInv

\* A rework is never promised beyond the limit, whatever pauses come between.
THEOREM ReworkBound == EngineSpec => []PromisedReworkIsWithinLimit
BY SnapshotSafety, PTL DEF ShapeInv
=============================================================================
