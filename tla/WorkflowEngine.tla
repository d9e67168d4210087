--------------------------- MODULE WorkflowEngine ---------------------------
(* The workflow reducer of src/src/workflow/workflow-engine.ts with the       *)
(* snapshot validator of src/src/workflow/states.ts.  "snapshot" is the       *)
(* persisted WorkflowSnapshot, "effects" the effects returned for the last    *)
(* accepted event (without the PersistTransition bookkeeping effect), and     *)
(* "minted" counts the attempt identities handed out so far.                  *)
(*                                                                            *)
(* An event the reducer refuses (illegal-transition, invalid-snapshot)        *)
(* returns the snapshot it was given and no effects, so it is a stutter and   *)
(* has no action here.  An attempt id and its baseline id are always minted,  *)
(* stored and cleared together: one number stands for both.  Reasons are      *)
(* non-blank texts and left out.                                              *)
EXTENDS Naturals, Sequences

CONSTANTS MaxReworks,            \* MAX_REWORKS
          MaxAttempts,           \* bound: attempt identities a run may mint
          MaxRequirementVersion  \* bound: plan revisions a run may make

ASSUME EngineAssumption == /\ MaxReworks \in Nat
                           /\ MaxAttempts \in Nat
                           /\ MaxRequirementVersion \in Nat \ {0}

VARIABLES snapshot, effects, minted

engineVars == <<snapshot, effects, minted>>
-----------------------------------------------------------------------------
\* Types

SafeExecutionStates == {"planning", "implementing", "reviewing", "master_validation"}
TerminalStates == {"completed", "cancelled", "failed"}
CleanupStates == {"interrupting", "cleanup_failed"}
WorkflowStates == SafeExecutionStates \cup TerminalStates \cup CleanupStates \cup
    {"draft", "checking_environment", "awaiting_plan_approval", "rework_requested",
     "paused_after_run", "interrupted_needs_inspection", "awaiting_user"}

ResumeTargets == SafeExecutionStates \cup
    {"awaiting_plan_approval", "rework_requested", "awaiting_user",
     "interrupted_needs_inspection", "completed"}
AwaitingUserActions == {"retry_environment", "continue", "cancel"}
AgentRoles == {"master", "implementer", "reviewer"}

Attempts == 1..MaxAttempts
NoIdentity == [attempt |-> 0, role |-> "none"]
Identities == [attempt : 0..MaxAttempts, role : AgentRoles \cup {"none"}]

Snapshots == [state              : WorkflowStates,
              requirementVersion : 1..MaxRequirementVersion,
              reworkCount        : Nat,
              pauseAfterAttempt  : BOOLEAN,
              active             : Identities,
              stopIntent         : {"none", "interrupt", "cancel"},
              resumeTarget       : ResumeTargets \cup {"none"},
              pendingResume      : Identities,
              awaitingActions    : SUBSET AwaitingUserActions,
              rework             : {"none", "deferred", "pending"}]

EffectTypes == {"AcquireProjectLock", "RunEnvironmentCheck", "ReleaseProjectLock",
    "CreateAttemptBaseline", "StartPlanning", "PrepareImplementationWorkspace",
    "StartImplementation", "FinalizeCandidateChangeSet", "StartReview",
    "StartMasterValidation", "PromoteCandidateWorkspace", "PersistReworkRequest",
    "BeginProcessCleanup"}
StageStarts == {"StartPlanning", "StartImplementation", "StartReview",
                "StartMasterValidation"}
Effects == [type : EffectTypes, attempt : 0..MaxAttempts]
-----------------------------------------------------------------------------
\* The snapshot validator

IsTerminal(s) == s.state \in TerminalStates
IsExecuting(s) == s.state \in SafeExecutionStates

ExpectedRole(st) == CASE st = "implementing" -> "implementer"
                      [] st = "reviewing"    -> "reviewer"
                      [] OTHER               -> "master"

IdentityOk(s) ==
    CASE IsExecuting(s)             -> s.active.attempt # 0 /\ s.active.role = ExpectedRole(s.state)
      [] s.state \in CleanupStates  -> s.active.attempt # 0 /\ s.stopIntent # "none"
      [] OTHER                      -> s.active.attempt = 0

PausedOk(s) ==
    /\ s.resumeTarget # "none"
    /\ s.resumeTarget \in SafeExecutionStates =>
          s.pendingResume.attempt # 0 /\ s.pendingResume.role = ExpectedRole(s.resumeTarget)
    /\ s.resumeTarget = "rework_requested" => s.rework = "deferred"
    \* awaitingResumeTargetState and inspectionResumeTargetState are only ever
    \* cleared, so the clauses that demand one of them cannot hold.
    /\ s.resumeTarget = "awaiting_user" =>
          s.awaitingActions # {} /\ "continue" \notin s.awaitingActions
    /\ s.resumeTarget # "interrupted_needs_inspection"

AwaitingOk(s) ==
    /\ s.awaitingActions # {}
    /\ "continue" \in s.awaitingActions => s.resumeTarget \in SafeExecutionStates

\* The two clauses of the validator about pauseAfterAttempt.
PauseOk(s) == s.pauseAfterAttempt => IsExecuting(s)

\* Every other clause of the validator.
ShapeOk(s) ==
    /\ s.reworkCount <= MaxReworks
    /\ IdentityOk(s)
    /\ s.state = "paused_after_run" => PausedOk(s)
    /\ s.state = "interrupted_needs_inspection" => s.resumeTarget \in SafeExecutionStates
    /\ s.state = "awaiting_user" => AwaitingOk(s)
    /\ s.state = "rework_requested" => s.rework = "pending"
    /\ s.state \notin CleanupStates => s.stopIntent = "none"

ValidSnapshot(s) == ShapeOk(s) /\ PauseOk(s)
-----------------------------------------------------------------------------
\* Building the next snapshot and its effects

InitialSnapshot == [state |-> "draft", requirementVersion |-> 1, reworkCount |-> 0,
    pauseAfterAttempt |-> FALSE, active |-> NoIdentity, stopIntent |-> "none",
    resumeTarget |-> "none", pendingResume |-> NoIdentity, awaitingActions |-> {},
    rework |-> "none"]

\* Mutation: the stop intent survives the move.
MovedKeepingStopIntent(st) == [snapshot EXCEPT !.state = st, !.awaitingActions = {},
    !.resumeTarget = "none", !.pendingResume = NoIdentity, !.rework = "none"]

\* moved() forgets every context field but the active identity and the pause
\* request; the caller's patch is the EXCEPT around it.
Moved(st) == [snapshot EXCEPT !.state = st, !.awaitingActions = {},
    !.resumeTarget = "none", !.pendingResume = NoIdentity, !.rework = "none",
    !.stopIntent = "none"]

\* A move that also clears the active attempt and the pause request.
Settled(st) == [Moved(st) EXCEPT !.active = NoIdentity, !.pauseAfterAttempt = FALSE]

WaitingForUser(actions, target) ==
    [Settled("awaiting_user") EXCEPT !.awaitingActions = actions, !.resumeTarget = target]

PausedAfterRun(target) == [Settled("paused_after_run") EXCEPT !.resumeTarget = target]

IdentityFor(st, a) == [attempt |-> a, role |-> ExpectedRole(st)]
Executing(st, a) == [Moved(st) EXCEPT !.active = IdentityFor(st, a)]

Effect(type, a) == [type |-> type, attempt |-> a]

EffectsForExecutionState(st, a) ==
    CASE st = "planning"          -> <<Effect("StartPlanning", a)>>
      [] st = "implementing"      -> <<Effect("PrepareImplementationWorkspace", a),
                                       Effect("StartImplementation", a)>>
      [] st = "reviewing"         -> <<Effect("StartReview", a)>>
      [] st = "master_validation" -> <<Effect("StartMasterValidation", a)>>

EffectsForNewAttempt(st, a) ==
    <<Effect("CreateAttemptBaseline", a)>> \o EffectsForExecutionState(st, a)

ReleaseLock == <<Effect("ReleaseProjectLock", 0)>>
AcquireAndCheck == <<Effect("AcquireProjectLock", 0), Effect("RunEnvironmentCheck", 0)>>
PersistRework == <<Effect("PersistReworkRequest", 0)>>

\* Every event is refused on an invalid or a terminal snapshot.
Accepts(st) == /\ ValidSnapshot(snapshot)
               /\ ~IsTerminal(snapshot)
               /\ snapshot.state = st

\* A result is accepted only from the attempt that is active.
AcceptsResult(st, a) == Accepts(st) /\ snapshot.active.attempt = a

Becomes(s, fx) == snapshot' = s /\ effects' = fx

KeepMinted == UNCHANGED minted

\* The caller of transition() mints the ids it puts into an event.
Mint(a) == a \in Attempts /\ a = minted + 1 /\ minted' = a

\* Entering an execution state with a fresh attempt.
Launch(st, a) == Mint(a) /\ Becomes(Executing(st, a), EffectsForNewAttempt(st, a))
-----------------------------------------------------------------------------
\* Environment and planning

Start == /\ Accepts("draft")
         /\ Becomes(Moved("checking_environment"), AcquireAndCheck)
         /\ KeepMinted

EnvironmentReady(a) == Accepts("checking_environment") /\ Launch("planning", a)

\* Mutation: a failed environment check keeps the lock.
EnvironmentFailedKeepingLock ==
    /\ Accepts("checking_environment")
    /\ Becomes(WaitingForUser({"retry_environment", "cancel"}, "none"), <<>>)
    /\ KeepMinted

EnvironmentFailed ==
    /\ Accepts("checking_environment")
    /\ Becomes(WaitingForUser({"retry_environment", "cancel"}, "none"), ReleaseLock)
    /\ KeepMinted

PlanReadyForApproval(a) ==
    /\ AcceptsResult("planning", a)
    /\ Becomes(IF snapshot.pauseAfterAttempt
                  THEN PausedAfterRun("awaiting_plan_approval")
                  ELSE Settled("awaiting_plan_approval"), <<>>)
    /\ KeepMinted

\* Mutation: the pause parks the attempt that has just finished.
HandOverParkingFinished(st, a, fx) ==
    /\ Mint(a)
    /\ IF snapshot.pauseAfterAttempt
          THEN Becomes([PausedAfterRun(st) EXCEPT !.pendingResume =
                          IdentityFor(st, snapshot.active.attempt)], <<>>)
          ELSE Becomes(Executing(st, a), fx \o EffectsForNewAttempt(st, a))

\* A result that hands over to the next role carries the id minted for it; a
\* requested pause parks that id instead of launching it.
HandOver(st, a, fx) ==
    /\ Mint(a)
    /\ IF snapshot.pauseAfterAttempt
          THEN Becomes([PausedAfterRun(st) EXCEPT !.pendingResume = IdentityFor(st, a)], <<>>)
          ELSE Becomes(Executing(st, a), fx \o EffectsForNewAttempt(st, a))

PlanReady(a, next) == AcceptsResult("planning", a) /\ HandOver("implementing", next, <<>>)

PlanApproved(a) == Accepts("awaiting_plan_approval") /\ Launch("implementing", a)

PlanRevisionRequested(a) ==
    /\ Accepts("awaiting_plan_approval")
    /\ snapshot.requirementVersion < MaxRequirementVersion
    /\ Mint(a)
    /\ Becomes([Executing("planning", a) EXCEPT !.requirementVersion = snapshot.requirementVersion + 1],
               EffectsForNewAttempt("planning", a))
-----------------------------------------------------------------------------
\* Implementation, review and master validation

\* Mutation: the review starts without the candidate being finalised.
ImplementationCompletedUnfrozen(a, next) ==
    AcceptsResult("implementing", a) /\ HandOver("reviewing", next, <<>>)

ImplementationCompleted(a, next) ==
    /\ AcceptsResult("implementing", a)
    /\ HandOver("reviewing", next, <<Effect("FinalizeCandidateChangeSet", a)>>)

ImplementationFailed(a) ==
    /\ AcceptsResult("implementing", a)
    /\ Becomes([Settled("interrupted_needs_inspection") EXCEPT
                   !.resumeTarget = "implementing"], <<>>)
    /\ KeepMinted

ReviewCompleted(a, next) ==
    AcceptsResult("reviewing", a) /\ HandOver("master_validation", next, <<>>)

\* Mutation: off by one at the limit.
ReworkLimitPassed == snapshot.reworkCount > MaxReworks

ReworkLimitReached == snapshot.reworkCount >= MaxReworks

\* The review path drops a requested pause: it enters rework directly.
ReviewReworkRequested(a) ==
    /\ AcceptsResult("reviewing", a)
    /\ IF ReworkLimitReached
          THEN Becomes(WaitingForUser({"cancel"}, "none"), <<>>)
          ELSE Becomes([Settled("rework_requested") EXCEPT !.rework = "pending"], PersistRework)
    /\ KeepMinted

MasterApproved(a) ==
    /\ AcceptsResult("master_validation", a)
    /\ IF snapshot.pauseAfterAttempt
          THEN Becomes(PausedAfterRun("completed"), <<>>)
          ELSE Becomes(Settled("completed"),
                       <<Effect("PromoteCandidateWorkspace", a)>> \o ReleaseLock)
    /\ KeepMinted

MasterRejectedAtLimit(a) ==
    /\ AcceptsResult("master_validation", a)
    /\ ReworkLimitReached
    /\ Becomes(IF snapshot.pauseAfterAttempt
                  THEN [PausedAfterRun("awaiting_user") EXCEPT !.awaitingActions = {"cancel"}]
                  ELSE WaitingForUser({"cancel"}, "none"), <<>>)
    /\ KeepMinted

MasterRejected(a) ==
    /\ AcceptsResult("master_validation", a)
    /\ ~ReworkLimitReached
    /\ IF snapshot.pauseAfterAttempt
          THEN Becomes([PausedAfterRun("rework_requested") EXCEPT !.rework = "deferred"], <<>>)
          ELSE Becomes([Settled("rework_requested") EXCEPT !.rework = "pending"], PersistRework)
    /\ KeepMinted

ReworkContextPersisted(a) ==
    /\ Accepts("rework_requested")
    /\ snapshot.rework = "pending"
    /\ ~ReworkLimitReached
    /\ Mint(a)
    /\ Becomes([Executing("implementing", a) EXCEPT !.reworkCount = snapshot.reworkCount + 1],
               EffectsForNewAttempt("implementing", a))

\* PLAN_FAILED, REVIEW_INVALIDATED, REVIEW_FAILED, MASTER_FAILED and, in every
\* execution state, RESULT_PARSE_FAILED.
StageFailed(a) ==
    /\ \E st \in SafeExecutionStates : AcceptsResult(st, a)
    /\ Becomes(WaitingForUser({"continue", "cancel"}, snapshot.state), <<>>)
    /\ KeepMinted
-----------------------------------------------------------------------------
\* Pausing and resuming

PauseAfterAttemptRequested ==
    /\ \E st \in SafeExecutionStates : Accepts(st)
    /\ Becomes([Moved(snapshot.state) EXCEPT !.pauseAfterAttempt = TRUE], <<>>)
    /\ KeepMinted

Resuming(target) == Accepts("paused_after_run") /\ snapshot.resumeTarget = target

ResumeToApproval ==
    /\ Resuming("awaiting_plan_approval")
    /\ Becomes([Moved("awaiting_plan_approval") EXCEPT !.pauseAfterAttempt = FALSE], <<>>)
    /\ KeepMinted

ResumeRework ==
    /\ Resuming("rework_requested")
    /\ snapshot.rework = "deferred"
    /\ Becomes([Moved("rework_requested") EXCEPT
                   !.pauseAfterAttempt = FALSE, !.rework = "pending"], PersistRework)
    /\ KeepMinted

ResumeExecution ==
    /\ \E st \in SafeExecutionStates : Resuming(st)
    /\ LET st == snapshot.resumeTarget
           a  == snapshot.pendingResume.attempt
       IN  Becomes([Executing(st, a) EXCEPT !.pauseAfterAttempt = FALSE],
                   EffectsForNewAttempt(st, a))
    /\ KeepMinted

ResumeToAwaitingUser ==
    /\ Resuming("awaiting_user")
    /\ Becomes([Moved("awaiting_user") EXCEPT !.pauseAfterAttempt = FALSE,
                   !.awaitingActions = snapshot.awaitingActions], <<>>)
    /\ KeepMinted

ResumeCompletion ==
    /\ Resuming("completed")
    /\ Becomes([Moved("completed") EXCEPT !.pauseAfterAttempt = FALSE], ReleaseLock)
    /\ KeepMinted
-----------------------------------------------------------------------------
\* Interruption, cancellation and inspection

BeginCleanup == <<Effect("BeginProcessCleanup", snapshot.active.attempt)>>

CancelTask == IF snapshot.active.attempt # 0
                THEN Becomes([Moved("interrupting") EXCEPT !.stopIntent = "cancel"], BeginCleanup)
                ELSE Becomes(Moved("cancelled"), ReleaseLock)

Cancel == /\ \E st \in WorkflowStates \ {"cleanup_failed"} : Accepts(st)
          /\ CancelTask
          /\ KeepMinted

Interrupt ==
    /\ \E st \in SafeExecutionStates : Accepts(st)
    /\ Becomes([Moved("interrupting") EXCEPT !.stopIntent = "interrupt",
                   !.resumeTarget = snapshot.state], BeginCleanup)
    /\ KeepMinted

ProcessTreeClean ==
    /\ Accepts("interrupting")
    /\ IF snapshot.stopIntent = "cancel"
          THEN Becomes([Moved("cancelled") EXCEPT !.active = NoIdentity], ReleaseLock)
          ELSE Becomes([Moved("interrupted_needs_inspection") EXCEPT !.active = NoIdentity,
                          !.resumeTarget = snapshot.resumeTarget], <<>>)
    /\ KeepMinted

\* Both moves between the cleanup states carry the stop intent and the target.
StillStopping(st) == [Moved(st) EXCEPT !.stopIntent = snapshot.stopIntent,
                        !.resumeTarget = snapshot.resumeTarget]

ProcessCleanupFailed ==
    /\ Accepts("interrupting")
    /\ Becomes(StillStopping("cleanup_failed"), <<>>)
    /\ KeepMinted

RetryCleanup ==
    /\ Accepts("cleanup_failed")
    /\ Becomes(StillStopping("interrupting"), BeginCleanup)
    /\ KeepMinted

\* INSPECTION_CONTINUE and AWAITING_USER_CONTINUE: a new attempt at the target.
InspectionContinue(a) ==
    /\ Accepts("interrupted_needs_inspection")
    /\ snapshot.resumeTarget \in SafeExecutionStates
    /\ Launch(snapshot.resumeTarget, a)

InspectionView ==
    /\ Accepts("interrupted_needs_inspection")
    /\ Becomes(WaitingForUser({"continue", "cancel"}, snapshot.resumeTarget), <<>>)
    /\ KeepMinted

InspectionCancel ==
    /\ Accepts("interrupted_needs_inspection")
    /\ Becomes(Moved("cancelled"), ReleaseLock)
    /\ KeepMinted

MayAwait(action) == Accepts("awaiting_user") /\ action \in snapshot.awaitingActions

AwaitingUserRetryEnvironment ==
    /\ MayAwait("retry_environment")
    /\ Becomes(Moved("checking_environment"), AcquireAndCheck)
    /\ KeepMinted

AwaitingUserContinue(a) ==
    /\ MayAwait("continue")
    /\ snapshot.resumeTarget \in SafeExecutionStates
    /\ Launch(snapshot.resumeTarget, a)

AwaitingUserCancel == MayAwait("cancel") /\ CancelTask /\ KeepMinted

FatalError ==
    /\ \E st \in WorkflowStates : Accepts(st)
    /\ snapshot.active.attempt = 0
    /\ Becomes(Moved("failed"), ReleaseLock)
    /\ KeepMinted
-----------------------------------------------------------------------------
EngineInit == /\ snapshot = InitialSnapshot
              /\ effects = <<>>
              /\ minted = 0

LaunchStep(a) == \/ EnvironmentReady(a)
                 \/ PlanApproved(a)
                 \/ PlanRevisionRequested(a)
                 \/ ReworkContextPersisted(a)
                 \/ InspectionContinue(a)
                 \/ AwaitingUserContinue(a)

VerdictStep(a) == \/ PlanReadyForApproval(a)
                  \/ ReviewReworkRequested(a)
                  \/ MasterApproved(a)
                  \/ MasterRejectedAtLimit(a)
                  \/ MasterRejected(a)
                  \/ \E next \in Attempts : \/ PlanReady(a, next)
                                            \/ ImplementationCompleted(a, next)
                                            \/ ReviewCompleted(a, next)

ResultStep(a) == VerdictStep(a) \/ ImplementationFailed(a) \/ StageFailed(a)

PauseStep == \/ PauseAfterAttemptRequested
             \/ ResumeToApproval
             \/ ResumeRework
             \/ ResumeExecution
             \/ ResumeToAwaitingUser
             \/ ResumeCompletion

StopStep == \/ Cancel
            \/ Interrupt
            \/ ProcessTreeClean
            \/ ProcessCleanupFailed
            \/ RetryCleanup
            \/ InspectionView
            \/ InspectionCancel
            \/ AwaitingUserCancel
            \/ FatalError

ReducerNext == \/ Start
               \/ EnvironmentFailed
               \/ AwaitingUserRetryEnvironment
               \/ \E a \in Attempts : LaunchStep(a) \/ ResultStep(a)
               \/ PauseStep
               \/ StopStep

\* An id minted for an attempt the workflow is not told of: a format repair's.
SpareIdentity(a) == Mint(a) /\ Becomes(snapshot, <<>>)

EngineNext == ReducerNext \/ \E a \in Attempts : SpareIdentity(a)

EngineSpec == EngineInit /\ [][EngineNext]_engineVars
-----------------------------------------------------------------------------
\* Safety of the snapshot

\* The reducer refuses every event on an invalid snapshot, so a reachable one
\* would stop the task for good.  The only invalid snapshot it can produce is
\* "interrupting" with a pause request still set.
InvalidOnlyWhenStoppingAPausingRun ==
    ValidSnapshot(snapshot) \/ (/\ ShapeOk(snapshot)
                                /\ snapshot.state = "interrupting"
                                /\ snapshot.pauseAfterAttempt)

\* A rework that was promised, now or behind a pause, is below the limit, so that
\* REWORK_CONTEXT_PERSISTED cannot be refused and leave the task in
\* rework_requested, where a user has no action but to cancel.
PromisedReworkIsWithinLimit ==
    /\ snapshot.reworkCount <= MaxReworks
    /\ snapshot.rework # "none" => snapshot.reworkCount < MaxReworks
=============================================================================
