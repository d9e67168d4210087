--------------------------- MODULE RecoveryProofs ---------------------------
(* Theorems about the whole task, with its drives, its session, crashes and    *)
(* recovery.  First: it only ever changes the persisted snapshot as the        *)
(* reducer does, so that what is proved of the reducer holds of the task in    *)
(* the database, whichever instance writes it.  Then, by an inductive          *)
(* invariant, its types, its safety properties and what its steps may never    *)
(* do, for any number of instances, drives, attempts, reworks and holds.       *)
EXTENDS TaskRecovery, EngineProofs, FiniteSetTheorems, WellFoundedInduction

-----------------------------------------------------------------------------
(* An event applied from inside a drive, by the orchestrator's commands or by  *)
(* the recovery service is one event of the reducer.                           *)

LEMMA LaunchesAreReductions ==
    \A a \in Attempts : LaunchStep(a) \/ ResultStep(a) => EngineNext
BY DEF EngineNext, ReducerNext

LEMMA FailuresAreReductions ==
    ASSUME NEW a, ImplementationFailed(a) \/ StageFailed(a), snapshot \in Snapshots
    PROVE  EngineNext
<1>1. PICK st \in SafeExecutionStates : AcceptsResult(st, a)
  BY DEF ImplementationFailed, StageFailed, SafeExecutionStates
<1>2. a = snapshot.active.attempt /\ ValidSnapshot(snapshot) /\ IsExecuting(snapshot)
  BY <1>1 DEF AcceptsResult, Accepts, IsExecuting
<1>3. a # 0
  BY <1>2 DEF ValidSnapshot, ShapeOk, IdentityOk
<1>4. a \in 0..MaxAttempts
  BY <1>2 DEF Snapshots, Identities
<1>5. a \in Attempts
  BY <1>3, <1>4, EngineAssumption DEF Attempts
<1> QED BY <1>5, LaunchesAreReductions DEF ResultStep

LEMMA VerdictsAreReductions ==
    ASSUME NEW a, VerdictStep(a), snapshot \in Snapshots
    PROVE  EngineNext
<1>1. PICK st \in SafeExecutionStates : AcceptsResult(st, a)
  BY Zenon DEF VerdictStep, PlanReadyForApproval, ReviewReworkRequested, MasterApproved,
     MasterRejectedAtLimit, MasterRejected, PlanReady, ImplementationCompleted, ReviewCompleted,
     SafeExecutionStates
<1>2. a = snapshot.active.attempt /\ ValidSnapshot(snapshot) /\ IsExecuting(snapshot)
  BY <1>1 DEF AcceptsResult, Accepts, IsExecuting
<1>3. a # 0
  BY <1>2 DEF ValidSnapshot, ShapeOk, IdentityOk
<1>4. a \in 0..MaxAttempts
  BY <1>2 DEF Snapshots, Identities
<1>5. a \in Attempts
  BY <1>3, <1>4, EngineAssumption DEF Attempts
<1> QED BY <1>5, LaunchesAreReductions DEF ResultStep

LEMMA DriveReduces ==
    ASSUME NEW d, DriveStep(d) \/ RunBreaks(d), snapshot \in Snapshots
    PROVE  EngineNext \/ UNCHANGED engineVars
<1>1. CASE AcquireProjectLock(d) \/ LockConflict(d) \/ ReleaseProjectLock(d) \/ ReleaseFails(d)
  BY <1>1 DEF AcquireProjectLock, LockConflict, ReleaseProjectLock, ReleaseFails, KeepEngine,
     engineVars
<1>2. CASE RunEnvironmentCheck(d) \/ CreateAttemptBaseline(d) \/ WorkspaceEffect(d)
           \/ WorkspaceEffectFails(d) \/ EffectThrows(d) \/ PersistReworkRequest(d)
  BY <1>2 DEF RunEnvironmentCheck, CreateAttemptBaseline, WorkspaceEffect,
     WorkspaceEffectFails, EffectThrows, PersistReworkRequest, KeepEngine, engineVars
<1>3. CASE BeginLaunch(d) \/ LaunchRefused(d) \/ Spawn(d) \/ MarkActive(d) \/ RunBreaks(d)
           \/ RunSettles(d) \/ ResultThrows(d) \/ RecordStageResult(d) \/ EventRejected(d)
  BY <1>3 DEF BeginLaunch, LaunchRefused, Spawn, MarkActive, RunBreaks, RunSettles,
     ResultThrows, RecordStageResult, EventRejected, KeepEngine, engineVars
<1>4. CASE ProcessCleanup(d) \/ ContinueRefused(d)
  BY <1>4 DEF ProcessCleanup, ContinueRefused, KeepEngine, engineVars
<1>5. CASE EnvironmentDecided(d)
  BY <1>5 DEF EnvironmentDecided, EngineNext, ReducerNext, LaunchStep
<1>6. CASE ReworkDecided(d)
  BY <1>6 DEF ReworkDecided, EngineNext, ReducerNext, LaunchStep
<1>7. CASE BeginFormatRepair(d)
  BY <1>7 DEF BeginFormatRepair, EngineNext
<1>8. CASE ApplyStageResult(d)
  <2>1. \/ VerdictStep(Stage(d))
        \/ ImplementationFailed(Stage(d)) \/ StageFailed(Stage(d))
    BY <1>8 DEF ApplyStageResult, FailureEvent
  <2> QED BY <2>1, VerdictsAreReductions, FailuresAreReductions
<1>9. CASE ApplyRunFailure(d)
  <2>1. ImplementationFailed(Stage(d)) \/ StageFailed(Stage(d))
    BY <1>9 DEF ApplyRunFailure, FailureEvent
  <2> QED BY <2>1, FailuresAreReductions
<1>10. CASE CleanupDecided(d)
  BY <1>10 DEF CleanupDecided, EngineNext, ReducerNext, StopStep
<1>11. CASE ContinueSettled(d)
  BY <1>11 DEF ContinueSettled, EngineNext, ReducerNext, LaunchStep
<1> QED BY <1>1, <1>2, <1>3, <1>4, <1>5, <1>6, <1>7, <1>8, <1>9, <1>10, <1>11 DEF DriveStep

LEMMA SessionReduces ==
    ASSUME SessionCommand \/ ParkedContinue \/ CancelParked, snapshot \in Snapshots
    PROVE  EngineNext \/ UNCHANGED engineVars
<1>1. CASE CreateTask
  BY <1>1 DEF CreateTask, StartTask, EngineNext, ReducerNext
<1>2. CASE Approve
  BY <1>2 DEF Approve, ApprovePlan, EngineNext, ReducerNext, LaunchStep
<1>3. CASE HoldTask \/ PressContinue \/ HeldContinueRefused \/ CancelHeld \/ CancelParked
  BY <1>3 DEF HoldTask, PressContinue, HeldContinueRefused, CancelHeld, CancelParked,
     DisposeRuntime, KeepTask, KeepEngine, engineVars
<1>4. CASE HeldContinueSettles
  <2>1. ImplementationFailed(snapshot.active.attempt) \/ StageFailed(snapshot.active.attempt)
    BY <1>4 DEF HeldContinueSettles, SettleHeldStage
  <2> QED BY <2>1, FailuresAreReductions
<1>5. CASE HeldContinueResumes \/ ParkedContinue
  BY <1>5 DEF HeldContinueResumes, ParkedContinue, ContinueParked, EngineNext, ReducerNext,
     LaunchStep
<1> QED BY <1>1, <1>2, <1>3, <1>4, <1>5 DEF SessionCommand

LEMMA RecoveryReduces ==
    ASSUME NEW i, RecoveryStep(i)
    PROVE  EngineNext \/ UNCHANGED engineVars
<1>1. CASE Crash(i)
  BY <1>1 DEF Crash, KeepEngine, engineVars
<1>2. CASE Boot(i) \/ RecoveryBlocked(i)
  BY <1>2 DEF Boot, RecoveryBlocked, orchestratorVars, engineVars
<1>3. ASSUME NEW op, BeginRecovery(i, op) \/ AlreadyApplied(i, op)
      PROVE  UNCHANGED engineVars
  BY <1>3 DEF BeginRecovery, AlreadyApplied, orchestratorVars, engineVars
<1>4. CASE CommitInspect(i)
  BY <1>4 DEF CommitInspect, EngineNext, ReducerNext, StopStep
<1>5. CASE CommitContinue(i)
  BY <1>5 DEF CommitContinue, EngineNext, ReducerNext, LaunchStep
<1>6. CASE CommitCancel(i)
  BY <1>6 DEF CommitCancel, EngineNext, ReducerNext, StopStep
<1> QED BY <1>1, <1>2, <1>3, <1>4, <1>5, <1>6 DEF RecoveryStep

LEMMA TaskReduces ==
    ASSUME snapshot \in Snapshots, [TaskNext]_taskVars
    PROVE  [EngineNext]_engineVars
<1>1. CASE UNCHANGED taskVars
  BY <1>1 DEF taskVars, orchestratorVars, engineVars
<1>2. CASE SessionCommand \/ ParkedContinue \/ CancelParked
  BY <1>2, SessionReduces
<1>3. ASSUME NEW d \in drives, BackgroundStep(d)
      PROVE  EngineNext \/ UNCHANGED engineVars
  <2>1. DriveStep(d) \/ RunBreaks(d)
    BY <1>3 DEF BackgroundStep
  <2> QED BY <2>1, DriveReduces
<1>4. CASE AgentExits
  BY <1>4 DEF AgentExits, KeepEngine, engineVars
<1>5. ASSUME NEW i \in Instances, RecoveryStep(i)
      PROVE  EngineNext \/ UNCHANGED engineVars
  BY <1>5, RecoveryReduces
<1> QED BY <1>1, <1>2, <1>3, <1>4, <1>5 DEF TaskNext
-----------------------------------------------------------------------------
\* The whole task implements the reducer: a step of a drive, a command, a crash
\* or a recovery operation is at most one accepted event of its snapshot.
THEOREM TaskImplementsEngine == TaskSpec => EngineSpec
<1>1. TaskInit => EngineInit
  BY DEF TaskInit, OrchestratorInit
<1>2. TaskInit => TypedSnapshot /\ ShapeInv
  BY <1>1, InitialSafety
<1>3. TypedSnapshot /\ ShapeInv /\ [TaskNext]_taskVars => [EngineNext]_engineVars
  BY TaskReduces DEF TypedSnapshot
<1>4. TypedSnapshot /\ ShapeInv /\ [TaskNext]_taskVars => (TypedSnapshot /\ ShapeInv)'
  BY <1>3, StepSafety
<1> QED BY <1>1, <1>2, <1>3, <1>4, PTL DEF TaskSpec, EngineSpec

\* The task in the database never gets a snapshot that would make the reducer
\* refuse every event, but for an interrupted run with a pause pending.
THEOREM TaskValidity == TaskSpec => []InvalidOnlyWhenStoppingAPausingRun
BY TaskImplementsEngine, Validity, PTL

\* No crash, recovery or retried stage lets a task rework past the limit.
THEOREM TaskReworkBound == TaskSpec => []PromisedReworkIsWithinLimit
BY TaskImplementsEngine, ReworkBound, PTL
-----------------------------------------------------------------------------
(* The inductive invariant of the task: what the intents of the latest event   *)
(* have to do with its state, where each drive stands in its batch, and what   *)
(* the lock and the living agents say about both.                              *)

WorkEffects == {"CreateAttemptBaseline", "PrepareImplementationWorkspace",
                "FinalizeCandidateChangeSet"} \cup StageStarts
CheckEffects == {"AcquireProjectLock", "RunEnvironmentCheck"}
EndEffects == {"PromoteCandidateWorkspace", "ReleaseProjectLock"}

\* The task never cleans up by an effect, and starts stages under real identities.
RowOk(r) == /\ r.effect.type # "BeginProcessCleanup"
            /\ r.effect.type \in StageStarts => r.effect.attempt \in Attempts

\* Nothing but a cancellation can follow.
Over(s) == \/ s.state \in TerminalStates
           \/ s.state = "awaiting_user" /\ "retry_environment" \in s.awaitingActions

ReachedStates == SafeExecutionStates \cup
    {"checking_environment", "rework_requested", "awaiting_plan_approval",
     "interrupted_needs_inspection", "awaiting_user", "completed", "cancelled"}

\* The batch of the event that led to snapshot s.
Fits(s, b) ==
    /\ s.state \in ReachedStates
    /\ IsExecuting(s) => \A k \in 1..Len(b) : b[k].effect.type \in WorkEffects
    /\ s.state = "checking_environment" =>
          /\ Len(b) = 2
          /\ b[1].effect.type = "AcquireProjectLock"
          /\ b[2].effect.type = "RunEnvironmentCheck"
    /\ s.state = "rework_requested" =>
          \A k \in 1..Len(b) : b[k].effect.type = "PersistReworkRequest"
    /\ s.state \in {"awaiting_plan_approval", "interrupted_needs_inspection", "cancelled"} =>
          Len(b) = 0
    /\ s.state = "awaiting_user" =>
          \/ "retry_environment" \notin s.awaitingActions /\ Len(b) = 0
          \/ /\ s.awaitingActions = {"retry_environment", "cancel"}
             /\ Len(b) = 1
             /\ b[1].effect.type = "ReleaseProjectLock"
    /\ s.state = "completed" =>
          /\ Len(b) = 2
          /\ b[1].effect.type = "PromoteCandidateWorkspace"
          /\ b[2].effect.type = "ReleaseProjectLock"

Last == journal[Len(journal)]

JournalInv ==
    /\ ~snapshot.pauseAfterAttempt
    /\ snapshot.state = "draft" => Len(journal) = 0
    /\ snapshot.state # "draft" => Len(journal) > 0 /\ Fits(snapshot, Last)
    /\ \A v \in 1..Len(journal) : \A k \in 1..Len(journal[v]) : RowOk(journal[v][k])
    /\ EffectsAreCompletedInOrder

RunPhases == {"launching", "spawned", "running", "ran", "failed"}

\* What is ahead of a drive in its batch is an intent, what is behind it is done, and
\* nothing is in its batch that is not for this state.
Placed(d) ==
    /\ d.batch \in 1..Len(journal)
    /\ d.phase # "resume" =>
         /\ d.at \in 1..Len(journal[d.batch])
         /\ \A k \in 1..Len(journal[d.batch]) :
               /\ k < d.at => journal[d.batch][k].status = "completed"
               /\ k > d.at => journal[d.batch][k].status = "intent"
               /\ journal[d.batch][k].effect.type \in CheckEffects =>
                     snapshot.state = "checking_environment" /\ d.batch = Len(journal)
               /\ journal[d.batch][k].effect.type \in EndEffects => Over(snapshot)

\* The phase of a drive is one of the effect it is at.
Doing(d) ==
    /\ d.phase \in RunPhases => Row(d).effect.type \in StageStarts
    /\ d.phase \in {"launching", "spawned", "running"} => d.agent \in Attempts
    /\ d.phase = "decided" =>
          Row(d).effect.type \in StageStarts \cup {"RunEnvironmentCheck", "PersistReworkRequest"}
    /\ d.phase = "failed" => Row(d).status \in {"failed", "refused"}

DrivesInv == /\ \A d \in drives : Placed(d) /\ Doing(d)
             /\ \A d, e \in drives : d.batch = e.batch => d = e

TaskLockInv ==
    /\ lock = Free => snapshot.state \in {"draft", "checking_environment"} \/ Over(snapshot)
    /\ snapshot.state = "checking_environment" /\ Last[1].status = "completed" => lock # Free
    /\ snapshot.state = "cancelled" => lock = Free
    /\ snapshot.state = "completed" =>
          /\ Last[2].status # "refused"
          /\ Last[2].status = "completed" => lock = Free

\* The drive of the latest event, or the release that a cancellation has overtaken.
IsLatest(d) == /\ d.phase # "resume"
               /\ \/ d.batch = Len(journal)
                  \/ /\ snapshot.state = "cancelled"
                     /\ d.at = Len(journal[d.batch])
                     /\ Row(d).effect.type = "ReleaseProjectLock"

SingleInv == /\ holds = 0 => ~hold /\ ~waiting
             /\ holds = 0 \/ ~givenUp => \A d \in drives : IsLatest(d)

AgentInv == ~givenUp =>
    /\ agents # {} => IsExecuting(snapshot)
    /\ \A a, b \in agents : a = b
    /\ \A d \in drives : agents # {} => d.phase \in {"spawned", "running"} /\ d.agent \in agents

\* What a recovery has read is still so, if its version is.
RecoveryInv == \A i \in Instances :
    /\ recovery[i].version \in 0..Len(journal)
    /\ (holds = 0 \/ ~givenUp) /\ recovery[i].op = "continue" /\ Current(recovery[i]) =>
          /\ recovery[i].attempt = LatestAttempt
          /\ snapshot.state = "awaiting_user" /\ "continue" \in snapshot.awaitingActions

TaskInv == JournalInv /\ DrivesInv /\ TaskLockInv /\ SingleInv /\ AgentInv /\ RecoveryInv
-----------------------------------------------------------------------------
(* What an event asks for fits the state it leads to.                          *)

\* Effects that are well formed and, as a batch of intents, fit the next snapshot.
Issues(s, fx) == /\ fx \in Seq(Effects)
                 /\ \A k \in 1..Len(fx) : RowOk([effect |-> fx[k], status |-> "intent"])
                 /\ Fits(s, Intents(fx))

LEMMA IntentsFacts ==
    ASSUME NEW fx \in Seq(Effects)
    PROVE  /\ Intents(fx) \in Seq(Rows)
           /\ Len(Intents(fx)) = Len(fx)
           /\ \A k \in 1..Len(fx) :
                 /\ Intents(fx)[k] = [effect |-> fx[k], status |-> "intent"]
                 /\ Intents(fx)[k].effect = fx[k] /\ Intents(fx)[k].status = "intent"
<1>1. \A k \in 1..Len(fx) : [effect |-> fx[k], status |-> "intent"] \in Rows
  BY DEF Rows
<1> QED BY <1>1 DEF Intents

LEMMA ShortBatches ==
    ASSUME NEW fx \in Seq(Effects)
    PROVE  /\ Len(Intents(fx)) = Len(fx)
           /\ Len(fx) = 1 => Intents(fx)[1].effect.type = fx[1].type
           /\ Len(fx) = 2 => /\ Intents(fx)[1].effect.type = fx[1].type
                             /\ Intents(fx)[2].effect.type = fx[2].type
<1>1. \A k \in 1..Len(fx) : Intents(fx)[k].effect = fx[k]
  BY IntentsFacts
<1>2. Len(fx) = 1 \/ Len(fx) = 2 => Intents(fx)[1].effect = fx[1]
  BY <1>1
<1>3. Len(fx) = 2 => Intents(fx)[2].effect = fx[2]
  BY <1>1
<1> QED BY <1>2, <1>3, IntentsFacts

\* The effects of a fresh attempt, after those of the attempt it follows.
LEMMA WorkIsAsked ==
    ASSUME NEW s, IsExecuting(s), NEW st \in SafeExecutionStates, NEW a \in Attempts, NEW fx,
           \/ fx = EffectsForNewAttempt(st, a)
           \/ fx = <<>> \o EffectsForNewAttempt(st, a)
           \/ \E done \in Attempts : fx = <<Effect("FinalizeCandidateChangeSet", done)>>
                                            \o EffectsForNewAttempt(st, a)
    PROVE  Issues(s, fx)
<1>1. /\ EffectsForNewAttempt(st, a) \in Seq(Effects)
      /\ \A k \in 1..Len(EffectsForNewAttempt(st, a)) :
            /\ EffectsForNewAttempt(st, a)[k].type \in WorkEffects
            /\ EffectsForNewAttempt(st, a)[k].attempt = a
  <2> USE EngineAssumption DEF EffectsForNewAttempt, EffectsForExecutionState, Effect, Effects,
          EffectTypes, WorkEffects, StageStarts, Attempts
  <2>1. CASE st = "planning"
    BY <2>1
  <2>2. CASE st = "implementing"
    BY <2>2
  <2>3. CASE st = "reviewing"
    BY <2>3
  <2>4. CASE st = "master_validation"
    BY <2>4
  <2> QED BY <2>1, <2>2, <2>3, <2>4 DEF SafeExecutionStates
<1> DEFINE new == EffectsForNewAttempt(st, a)
<1> HIDE DEF new
<1>2. new \in Seq(Effects) /\ \A k \in 1..Len(new) : new[k].type \in WorkEffects /\ new[k].attempt = a
  BY <1>1 DEF new
<1>3. /\ fx \in Seq(Effects)
      /\ \A k \in 1..Len(fx) : fx[k].type \in WorkEffects /\ fx[k].attempt \in Attempts
  <2>1. CASE fx = new \/ fx = <<>> \o new
    <3>1. fx = new
      BY <1>2, <2>1
    <3> QED BY <1>2, <3>1
  <2>2. ASSUME NEW done \in Attempts, fx = <<Effect("FinalizeCandidateChangeSet", done)>> \o new
        PROVE  <1>3!1 /\ <1>3!2
    <3> DEFINE first == Effect("FinalizeCandidateChangeSet", done)
    <3>1. first \in Effects /\ first.type \in WorkEffects /\ first.attempt \in Attempts
      BY EngineAssumption DEF Effect, Effects, EffectTypes, WorkEffects, Attempts
    <3> HIDE DEF first
    <3>2. fx = <<first>> \o new
      BY <2>2 DEF first
    <3> QED BY <1>2, <3>1, <3>2
  <2> QED BY <2>1, <2>2 DEF new
<1>4. \A k \in 1..Len(fx) : RowOk([effect |-> fx[k], status |-> "intent"])
  BY <1>3 DEF RowOk, WorkEffects, StageStarts
<1>5. Fits(s, Intents(fx))
  <2>1. Len(Intents(fx)) = Len(fx) /\ \A k \in 1..Len(fx) : Intents(fx)[k].effect = fx[k]
    BY <1>3, IntentsFacts
  <2>2. \A k \in 1..Len(Intents(fx)) : Intents(fx)[k].effect.type \in WorkEffects
    BY <1>3, <2>1
  <2> QED BY <2>2 DEF Fits, IsExecuting, SafeExecutionStates, ReachedStates
<1> QED BY <1>3, <1>4, <1>5 DEF Issues

\* A decision that is left to the user, or to nobody, asks for nothing.
LEMMA NothingIsAsked ==
    ASSUME NEW s,
           \/ s.state \in {"awaiting_plan_approval", "interrupted_needs_inspection", "cancelled"}
           \/ s.state = "awaiting_user" /\ "retry_environment" \notin s.awaitingActions
    PROVE  Issues(s, <<>>)
<1>1. <<>> \in Seq(Effects) /\ Len(<<>>) = 0
  OBVIOUS
<1>2. Len(Intents(<<>>)) = 0
  BY <1>1, IntentsFacts
<1> QED BY <1>1, <1>2 DEF Issues, Fits, IsExecuting, SafeExecutionStates, ReachedStates

LEMMA MoveFields ==
    ASSUME snapshot \in Snapshots
    PROVE  \A st : /\ Moved(st).state = st /\ Settled(st).state = st
                   /\ Moved(st).pauseAfterAttempt = snapshot.pauseAfterAttempt
                   /\ Moved(st).awaitingActions = {} /\ Settled(st).awaitingActions = {}
                   /\ ~Settled(st).pauseAfterAttempt
BY DEF Snapshots, Moved, Settled

LEMMA TargetFields ==
    ASSUME snapshot \in Snapshots
    PROVE  /\ \A actions, target :
                 /\ WaitingForUser(actions, target).state = "awaiting_user"
                 /\ WaitingForUser(actions, target).awaitingActions = actions
                 /\ ~WaitingForUser(actions, target).pauseAfterAttempt
           /\ \A st, a : /\ Executing(st, a).state = st
                         /\ Executing(st, a).pauseAfterAttempt = snapshot.pauseAfterAttempt
BY DEF Snapshots, WaitingForUser, Executing, Settled, Moved

\* A new attempt, begun by a continue, an approval, a check or a rework.
LEMMA LaunchIssues ==
    ASSUME snapshot \in Snapshots, ~snapshot.pauseAfterAttempt, NEW a \in Attempts,
           \/ EnvironmentReady(a) \/ PlanApproved(a) \/ ReworkContextPersisted(a)
           \/ InspectionContinue(a) \/ AwaitingUserContinue(a)
    PROVE  /\ Issues(snapshot', effects') /\ IsExecuting(snapshot')
           /\ ~snapshot'.pauseAfterAttempt
<1>1. PICK st \in SafeExecutionStates :
         /\ effects' = EffectsForNewAttempt(st, a)
         /\ snapshot'.state = st /\ ~snapshot'.pauseAfterAttempt
  <2>1. CASE EnvironmentReady(a)
    BY <2>1, TargetFields, Members DEF EnvironmentReady, Launch, Becomes
  <2>2. CASE PlanApproved(a)
    BY <2>2, TargetFields, Members DEF PlanApproved, Launch, Becomes
  <2>3. CASE InspectionContinue(a)
    BY <2>3, TargetFields DEF InspectionContinue, Launch, Becomes
  <2>4. CASE AwaitingUserContinue(a)
    BY <2>4, TargetFields DEF AwaitingUserContinue, Launch, Becomes
  <2>5. CASE ReworkContextPersisted(a)
    <3>1. /\ snapshot' = [Executing("implementing", a) EXCEPT !.reworkCount = snapshot.reworkCount + 1]
          /\ effects' = EffectsForNewAttempt("implementing", a)
      BY <2>5 DEF ReworkContextPersisted, Becomes
    <3>2. Executing("implementing", a) \in Snapshots
      BY TargetTyping, Members
    <3>3. /\ snapshot'.state = Executing("implementing", a).state
          /\ snapshot'.pauseAfterAttempt = Executing("implementing", a).pauseAfterAttempt
      BY <3>1, <3>2 DEF Snapshots
    <3> QED BY <3>1, <3>3, TargetFields, Members
  <2> QED BY <2>1, <2>2, <2>3, <2>4, <2>5
<1>2. IsExecuting(snapshot')
  BY <1>1 DEF IsExecuting
<1> QED BY <1>1, <1>2, WorkIsAsked

LEMMA FailureIssues ==
    ASSUME snapshot \in Snapshots, NEW a, ImplementationFailed(a) \/ StageFailed(a)
    PROVE  /\ Issues(snapshot', <<>>) /\ effects' = <<>>
           /\ ~snapshot'.pauseAfterAttempt /\ snapshot'.state # "cancelled"
<1>1. CASE ImplementationFailed(a)
  <2>1. /\ snapshot' = [Settled("interrupted_needs_inspection") EXCEPT !.resumeTarget = "implementing"]
        /\ effects' = <<>>
    BY <1>1 DEF ImplementationFailed, Becomes
  <2>2. Settled("interrupted_needs_inspection") \in Snapshots
    BY MoveTyping, Members
  <2>3. snapshot'.state = "interrupted_needs_inspection" /\ ~snapshot'.pauseAfterAttempt
    BY <2>1, <2>2, MoveFields DEF Snapshots
  <2> QED BY <2>1, <2>3, NothingIsAsked
<1>2. CASE StageFailed(a)
  <2>1. snapshot' = WaitingForUser({"continue", "cancel"}, snapshot.state) /\ effects' = <<>>
    BY <1>2 DEF StageFailed, Becomes
  <2> QED BY <2>1, TargetFields, NothingIsAsked
<1> QED BY <1>1, <1>2

LEMMA VerdictIssues ==
    ASSUME snapshot \in Snapshots, ~snapshot.pauseAfterAttempt, NEW a \in Attempts, VerdictStep(a)
    PROVE  /\ Issues(snapshot', effects')
           /\ ~snapshot'.pauseAfterAttempt /\ snapshot'.state # "cancelled"
<1>1. CASE PlanReadyForApproval(a)
  BY <1>1, MoveFields, NothingIsAsked DEF PlanReadyForApproval, Becomes
<1>2. CASE ReviewReworkRequested(a) \/ MasterRejectedAtLimit(a) \/ MasterRejected(a)
  <2>1. \/ snapshot' = WaitingForUser({"cancel"}, "none") /\ effects' = <<>>
        \/ snapshot' = [Settled("rework_requested") EXCEPT !.rework = "pending"] /\ effects' = PersistRework
    BY <1>2 DEF ReviewReworkRequested, MasterRejectedAtLimit, MasterRejected, Becomes
  <2>2. CASE snapshot' = WaitingForUser({"cancel"}, "none") /\ effects' = <<>>
    BY <2>2, TargetFields, NothingIsAsked
  <2>3. CASE snapshot' = [Settled("rework_requested") EXCEPT !.rework = "pending"] /\ effects' = PersistRework
    <3>1. Settled("rework_requested") \in Snapshots
      BY MoveTyping, Members
    <3>2. snapshot'.state = "rework_requested" /\ ~snapshot'.pauseAfterAttempt
      BY <2>3, <3>1, MoveFields DEF Snapshots
    <3>3. /\ PersistRework \in Seq(Effects) /\ Len(PersistRework) = 1
          /\ PersistRework[1].type = "PersistReworkRequest"
      BY EngineAssumption DEF PersistRework, Effect, Effects, EffectTypes
    <3>4. Fits(snapshot', Intents(PersistRework))
      <4>1. /\ Len(Intents(PersistRework)) = 1
            /\ Intents(PersistRework)[1].effect.type = "PersistReworkRequest"
        BY <3>3, ShortBatches
      <4> QED BY <3>2, <4>1 DEF Fits, IsExecuting, SafeExecutionStates, ReachedStates
    <3>5. \A k \in 1..Len(PersistRework) : RowOk([effect |-> PersistRework[k], status |-> "intent"])
      BY <3>3 DEF RowOk, StageStarts
    <3> QED BY <2>3, <3>2, <3>3, <3>4, <3>5 DEF Issues
  <2> QED BY <2>1, <2>2, <2>3
<1>3. CASE MasterApproved(a)
  <2> DEFINE fx == <<Effect("PromoteCandidateWorkspace", a)>> \o ReleaseLock
  <2>1. snapshot' = Settled("completed") /\ effects' = fx
    BY <1>3 DEF MasterApproved, Becomes
  <2>2. /\ fx \in Seq(Effects) /\ Len(fx) = 2
        /\ fx[1].type = "PromoteCandidateWorkspace" /\ fx[2].type = "ReleaseProjectLock"
    BY EngineAssumption DEF ReleaseLock, Effect, Effects, EffectTypes, Attempts
  <2> HIDE DEF fx
  <2>3. Fits(snapshot', Intents(fx))
    <3>1. /\ Len(Intents(fx)) = 2
          /\ Intents(fx)[1].effect.type = "PromoteCandidateWorkspace"
          /\ Intents(fx)[2].effect.type = "ReleaseProjectLock"
      BY <2>2, ShortBatches
    <3> QED BY <2>1, <3>1, MoveFields DEF Fits, IsExecuting, SafeExecutionStates, ReachedStates
  <2>4. \A k \in 1..Len(fx) : RowOk([effect |-> fx[k], status |-> "intent"])
    BY <2>2 DEF RowOk, StageStarts
  <2> QED BY <2>1, <2>2, <2>3, <2>4, MoveFields DEF Issues
<1>4. ASSUME NEW next \in Attempts,
             PlanReady(a, next) \/ ImplementationCompleted(a, next) \/ ReviewCompleted(a, next)
      PROVE  /\ Issues(snapshot', effects')
           /\ ~snapshot'.pauseAfterAttempt /\ snapshot'.state # "cancelled"
  <2>1. PICK st \in SafeExecutionStates :
           /\ snapshot' = Executing(st, next)
           /\ \/ effects' = <<>> \o EffectsForNewAttempt(st, next)
              \/ effects' = <<Effect("FinalizeCandidateChangeSet", a)>> \o EffectsForNewAttempt(st, next)
    BY <1>4, Members DEF PlanReady, ImplementationCompleted, ReviewCompleted, HandOver, Becomes
  <2>2. /\ IsExecuting(snapshot') /\ ~snapshot'.pauseAfterAttempt
        /\ snapshot'.state # "cancelled"
    BY <2>1, TargetFields DEF IsExecuting, SafeExecutionStates
  <2> QED BY <2>1, <2>2, WorkIsAsked
<1> QED BY <1>1, <1>2, <1>3, <1>4 DEF VerdictStep

LEMMA CheckIssues ==
    ASSUME snapshot \in Snapshots, ~snapshot.pauseAfterAttempt, Start \/ EnvironmentFailed
    PROVE  /\ Issues(snapshot', effects')
           /\ ~snapshot'.pauseAfterAttempt /\ snapshot'.state # "cancelled"
<1>1. CASE Start
  <2>1. snapshot' = Moved("checking_environment") /\ effects' = AcquireAndCheck
    BY <1>1 DEF Start, Becomes
  <2>2. /\ AcquireAndCheck \in Seq(Effects) /\ Len(AcquireAndCheck) = 2
        /\ AcquireAndCheck[1].type = "AcquireProjectLock"
        /\ AcquireAndCheck[2].type = "RunEnvironmentCheck"
    BY EngineAssumption DEF AcquireAndCheck, Effect, Effects, EffectTypes
  <2>3. Fits(snapshot', Intents(AcquireAndCheck))
    <3>1. /\ Len(Intents(AcquireAndCheck)) = 2
          /\ Intents(AcquireAndCheck)[1].effect.type = "AcquireProjectLock"
          /\ Intents(AcquireAndCheck)[2].effect.type = "RunEnvironmentCheck"
      BY <2>2, ShortBatches
    <3> QED BY <2>1, <3>1, MoveFields DEF Fits, IsExecuting, SafeExecutionStates, ReachedStates
  <2>4. \A k \in 1..Len(AcquireAndCheck) : RowOk([effect |-> AcquireAndCheck[k], status |-> "intent"])
    BY <2>2 DEF RowOk, StageStarts
  <2> QED BY <2>1, <2>2, <2>3, <2>4, MoveFields DEF Issues
<1>2. CASE EnvironmentFailed
  <2>1. /\ snapshot' = WaitingForUser({"retry_environment", "cancel"}, "none")
        /\ effects' = ReleaseLock
    BY <1>2 DEF EnvironmentFailed, Becomes
  <2>2. /\ ReleaseLock \in Seq(Effects) /\ Len(ReleaseLock) = 1
        /\ ReleaseLock[1].type = "ReleaseProjectLock"
    BY EngineAssumption DEF ReleaseLock, Effect, Effects, EffectTypes
  <2>3. Fits(snapshot', Intents(ReleaseLock))
    <3>1. /\ Len(Intents(ReleaseLock)) = 1
          /\ Intents(ReleaseLock)[1].effect.type = "ReleaseProjectLock"
      BY <2>2, ShortBatches
    <3> QED BY <2>1, <3>1, TargetFields
               DEF Fits, IsExecuting, SafeExecutionStates, ReachedStates
  <2>4. \A k \in 1..Len(ReleaseLock) : RowOk([effect |-> ReleaseLock[k], status |-> "intent"])
    BY <2>2 DEF RowOk, StageStarts
  <2> QED BY <2>1, <2>2, <2>3, <2>4, TargetFields DEF Issues
<1> QED BY <1>1, <1>2

LEMMA ViewIssues ==
    ASSUME snapshot \in Snapshots, InspectionView
    PROVE  /\ Issues(snapshot', effects')
           /\ ~snapshot'.pauseAfterAttempt /\ snapshot'.state # "cancelled"
<1>1. /\ snapshot' = WaitingForUser({"continue", "cancel"}, snapshot.resumeTarget)
      /\ effects' = <<>>
  BY DEF InspectionView, Becomes
<1> QED BY <1>1, TargetFields, NothingIsAsked

\* A recovery's cancellation, whose effects get no intents.
LEMMA CancelIssues ==
    ASSUME snapshot \in Snapshots, ~snapshot.pauseAfterAttempt, InspectionCancel \/ AwaitingUserCancel
    PROVE  /\ Issues(snapshot', <<>>) /\ snapshot'.state = "cancelled"
           /\ ~snapshot'.pauseAfterAttempt
<1>1. snapshot' = Moved("cancelled")
  <2>1. CASE AwaitingUserCancel
    <3>1. snapshot.active.attempt = 0
      BY <2>1
         DEF AwaitingUserCancel, MayAwait, Accepts, ValidSnapshot, ShapeOk, IdentityOk,
             IsExecuting,
         SafeExecutionStates, CleanupStates
    <3> QED BY <2>1, <3>1 DEF AwaitingUserCancel, CancelTask, Becomes
  <2>2. CASE InspectionCancel
    BY <2>2 DEF InspectionCancel, Becomes
  <2> QED BY <2>1, <2>2
<1> QED BY <1>1, MoveFields, NothingIsAsked
-----------------------------------------------------------------------------
(* Marking a row of the journal, and adding a batch to it.                     *)

Statuses == {"intent", "completed", "failed", "refused"}
Journals == Seq(Seq(Rows))

\* Nothing but the status of the row that d is at changes in the journal.
Keeps(d) ==
    /\ journal' \in Journals
    /\ Len(journal') = Len(journal)
    /\ \A v \in 1..Len(journal) :
          /\ Len(journal'[v]) = Len(journal[v])
          /\ \A k \in 1..Len(journal[v]) :
                /\ journal'[v][k].effect = journal[v][k].effect
                /\ v # d.batch \/ k # d.at => journal'[v][k].status = journal[v][k].status

LEMMA JournalRows ==
    ASSUME journal \in Journals
    PROVE  /\ Len(journal) \in Nat
           /\ \A v \in 1..Len(journal) :
                 /\ journal[v] \in Seq(Rows) /\ Len(journal[v]) \in Nat
                 /\ \A k \in 1..Len(journal[v]) : journal[v][k] \in Rows
BY DEF Journals

LEMMA MarkKeeps ==
    ASSUME journal \in Journals, NEW d, d.batch \in 1..Len(journal),
           d.at \in 1..Len(journal[d.batch]), NEW status \in Statuses, Mark(d, status)
    PROVE  Keeps(d) /\ journal'[d.batch][d.at].status = status
<1> DEFINE old == journal[d.batch][d.at]
           new == [old EXCEPT !.status = status]
           batch == [journal[d.batch] EXCEPT ![d.at] = new]
<1>1. old \in Rows /\ journal[d.batch] \in Seq(Rows)
  BY JournalRows
<1>2. new \in Rows /\ new.effect = old.effect /\ new.status = status
  BY <1>1 DEF Rows, Statuses
<1>3. journal' = [journal EXCEPT ![d.batch] = batch]
  BY DEF Mark
<1> HIDE DEF new
<1>4. /\ batch \in Seq(Rows) /\ Len(batch) = Len(journal[d.batch])
      /\ batch[d.at] = new
      /\ \A k \in 1..Len(journal[d.batch]) : k # d.at => batch[k] = journal[d.batch][k]
  BY <1>1, <1>2
<1> HIDE DEF batch
<1>5. /\ journal' \in Journals /\ Len(journal') = Len(journal)
      /\ journal'[d.batch] = batch
      /\ \A v \in 1..Len(journal) : v # d.batch => journal'[v] = journal[v]
  BY <1>3, <1>4 DEF Journals
<1>6. \A v \in 1..Len(journal) :
          /\ Len(journal'[v]) = Len(journal[v])
          /\ \A k \in 1..Len(journal[v]) :
                /\ journal'[v][k].effect = journal[v][k].effect
                /\ v # d.batch \/ k # d.at => journal'[v][k].status = journal[v][k].status
  <2> TAKE v \in 1..Len(journal)
  <2>1. CASE v # d.batch
    BY <1>5, <2>1
  <2>2. CASE v = d.batch
    BY <1>2, <1>4, <1>5, <2>2
  <2> QED BY <2>1, <2>2
<1> QED BY <1>2, <1>4, <1>5, <1>6 DEF Keeps

LEMMA UntouchedKeeps ==
    ASSUME journal \in Journals, UNCHANGED journal, NEW d
    PROVE  Keeps(d)
BY DEF Keeps

LEMMA BatchAdded ==
    ASSUME journal \in Journals, NEW b \in Seq(Rows), journal' = Append(journal, b)
    PROVE  /\ journal' \in Journals
           /\ Len(journal') = Len(journal) + 1
           /\ journal'[Len(journal) + 1] = b /\ Last' = b
           /\ \A v \in 1..Len(journal) : journal'[v] = journal[v]
<1>1. /\ journal' \in Journals /\ Len(journal') = Len(journal) + 1
      /\ journal'[Len(journal) + 1] = b
      /\ \A v \in 1..Len(journal) : journal'[v] = journal[v]
  <2> DEFINE Batches == Seq(Rows)
  <2>1. journal \in Seq(Batches) /\ b \in Batches
    BY DEF Journals
  <2> HIDE DEF Batches
  <2>2. /\ journal' \in Seq(Batches) /\ Len(journal') = Len(journal) + 1
        /\ journal'[Len(journal) + 1] = b
        /\ \A v \in 1..Len(journal) : journal'[v] = journal[v]
    BY <2>1
  <2> QED BY <2>2 DEF Batches, Journals
<1> QED BY <1>1 DEF Last

LEMMA LastFacts ==
    ASSUME journal \in Journals, JournalInv, snapshot.state # "draft"
    PROVE  /\ Len(journal) \in 1..Len(journal)
           /\ Last \in Seq(Rows) /\ Len(Last) \in Nat
           /\ \A k \in 1..Len(Last) : Last[k] \in Rows
<1>1. Len(journal) \in Nat /\ Len(journal) > 0
  BY JournalRows DEF JournalInv
<1> QED BY <1>1, JournalRows DEF Last

\* What fits the snapshot goes on doing so when statuses change.
LEMMA FitKept ==
    ASSUME journal \in Journals, NEW d, Keeps(d), snapshot' = snapshot, JournalInv,
           snapshot.state # "draft"
    PROVE  Fits(snapshot', Last')
<1>1. /\ Len(Last') = Len(Last) /\ \A k \in 1..Len(Last) : Last'[k].effect = Last[k].effect
  BY LastFacts DEF Keeps, Last
<1>2. Fits(snapshot, Last)
  BY DEF JournalInv
<1> HIDE DEF Last
<1>3. /\ Len(Last) = 2 => Last'[1].effect = Last[1].effect /\ Last'[2].effect = Last[2].effect
      /\ Len(Last) = 1 => Last'[1].effect = Last[1].effect
  BY <1>1
<1> QED BY <1>1, <1>2, <1>3 DEF Fits
-----------------------------------------------------------------------------
(* A step of a drive that applies no event.                                    *)

\* The state in which every step starts.
Typed == /\ snapshot \in Snapshots
         /\ journal \in Journals
         /\ drives \subseteq Drives

\* Drive d goes on as one of the drives of "next", of which there is one at most.
LEMMA JournalKept ==
    ASSUME Typed, JournalInv, DrivesInv, snapshot' = snapshot,
           \/ UNCHANGED journal
           \/ \E d \in drives : d.phase # "resume" /\ Keeps(d)
    PROVE  JournalInv'
<1>1. CASE UNCHANGED journal
  BY <1>1 DEF JournalInv, Last, EffectsAreCompletedInOrder
<1>2. ASSUME NEW d \in drives, d.phase # "resume", Keeps(d)
      PROVE  JournalInv'
  <2>1. /\ Len(journal') = Len(journal)
        /\ \A v \in 1..Len(journal) : Len(journal'[v]) = Len(journal[v])
    BY <1>2 DEF Keeps
  <2>2. snapshot.state # "draft" => Len(journal') > 0 /\ Fits(snapshot', Last')
    BY <1>2, <2>1, FitKept DEF JournalInv, Typed
  <2>3. \A v \in 1..Len(journal') : \A k \in 1..Len(journal'[v]) : RowOk(journal'[v][k])
    BY <1>2, <2>1 DEF Keeps, RowOk, JournalInv
  <2>4. Placed(d)
    BY DEF DrivesInv
  <2>5. EffectsAreCompletedInOrder'
    <3> SUFFICES ASSUME NEW v \in 1..Len(journal), NEW j \in 1..Len(journal[v]),
                        journal'[v][j].status # "intent", NEW i \in 1..(j - 1)
                 PROVE  journal'[v][i].status = "completed"
      BY <2>1 DEF EffectsAreCompletedInOrder
    <3>0. Len(journal[v]) \in Nat /\ i \in 1..Len(journal[v]) /\ i < j
      BY JournalRows DEF Typed
    <3>1. CASE v # d.batch
      <4>1. /\ journal'[v][j].status = journal[v][j].status
            /\ journal'[v][i].status = journal[v][i].status
        BY <1>2, <3>0, <3>1 DEF Keeps
      <4> QED BY <4>1 DEF JournalInv, EffectsAreCompletedInOrder
    <3>2. CASE v = d.batch
      <4>1. ~(j > d.at)
        BY <1>2, <2>4, <3>2, <3>0 DEF Placed, Keeps
      <4>2. i < d.at
        BY <3>0, <4>1, <2>4, <1>2, <3>2 DEF Placed
      <4>3. journal[v][i].status = "completed"
        BY <1>2, <2>4, <3>0, <3>2, <4>2 DEF Placed
      <4>4. journal'[v][i].status = journal[v][i].status
        BY <1>2, <2>4, <3>0, <4>2 DEF Keeps, Placed
      <4> QED BY <4>3, <4>4
    <3> QED BY <3>1, <3>2
  <2> QED BY <2>1, <2>2, <2>3, <2>5 DEF JournalInv
<1> QED BY <1>1, <1>2

LEMMA OthersKept ==
    ASSUME Typed, DrivesInv, snapshot' = snapshot, NEW d \in drives, Keeps(d),
           NEW e \in drives, e # d
    PROVE  Placed(e)' /\ Doing(e)'
<1>1. e.batch # d.batch /\ Placed(e) /\ Doing(e)
  BY DEF DrivesInv
<1>2. e.batch \in 1..Len(journal)
  BY <1>1 DEF Placed
<1>3. /\ Len(journal') = Len(journal) /\ Len(journal'[e.batch]) = Len(journal[e.batch])
      /\ \A k \in 1..Len(journal[e.batch]) :
            /\ journal'[e.batch][k].effect = journal[e.batch][k].effect
            /\ journal'[e.batch][k].status = journal[e.batch][k].status
  BY <1>1, <1>2 DEF Keeps
<1>4. Placed(e)'
  BY <1>1, <1>3 DEF Placed, Over
<1>5. e.phase # "resume" => /\ Row(e)'.effect = Row(e).effect
                            /\ Row(e)'.status = Row(e).status
  BY <1>1, <1>3 DEF Placed, Row
<1> QED BY <1>1, <1>4, <1>5 DEF Doing, RunPhases

\* Where the drive itself is after the step: at the same row, or at the next.
LEMMA SelfPlaced ==
    ASSUME Typed, DrivesInv, snapshot' = snapshot, NEW d \in drives, d.phase # "resume", Keeps(d),
           NEW e, e.batch = d.batch,
           \/ e.at = d.at
           \/ e.at = d.at + 1 /\ d.at # Len(journal[d.batch])
              /\ journal'[d.batch][d.at].status = "completed"
    PROVE  Placed(e)'
<1>1. Placed(d)
  BY DEF DrivesInv
<1>2. d.batch \in 1..Len(journal) /\ d.at \in 1..Len(journal[d.batch])
  BY <1>1 DEF Placed
<1>3. /\ Len(journal') = Len(journal) /\ Len(journal'[d.batch]) = Len(journal[d.batch])
      /\ \A k \in 1..Len(journal[d.batch]) :
            /\ journal'[d.batch][k].effect = journal[d.batch][k].effect
            /\ k # d.at => journal'[d.batch][k].status = journal[d.batch][k].status
  BY <1>2 DEF Keeps
<1>4. Len(journal[d.batch]) \in Nat
  BY <1>2, JournalRows DEF Typed
<1>5. CASE e.at = d.at
  BY <1>1, <1>2, <1>3, <1>5 DEF Placed, Over
<1>6. CASE e.at = d.at + 1 /\ d.at # Len(journal[d.batch])
           /\ journal'[d.batch][d.at].status = "completed"
  <2>1. e.at \in 1..Len(journal[d.batch])
    BY <1>2, <1>4, <1>6
  <2>2. \A k \in 1..Len(journal[d.batch]) : k < e.at => k = d.at \/ k < d.at
    BY <1>2, <1>4, <1>6
  <2>3. \A k \in 1..Len(journal[d.batch]) : k > e.at => k > d.at /\ k # d.at
    BY <1>2, <1>4, <1>6
  <2>4. ASSUME NEW k \in 1..Len(journal[d.batch])
        PROVE  /\ k < e.at => journal'[d.batch][k].status = "completed"
               /\ k > e.at => journal'[d.batch][k].status = "intent"
    <3>1. k < d.at => journal[d.batch][k].status = "completed"
      BY <1>1 DEF Placed
    <3>2. k > d.at => journal[d.batch][k].status = "intent"
      BY <1>1 DEF Placed
    <3> QED BY <1>2, <1>3, <1>4, <1>6, <3>1, <3>2
  <2>5. ASSUME NEW k \in 1..Len(journal[d.batch])
        PROVE  /\ journal'[d.batch][k].effect.type \in CheckEffects =>
                     snapshot'.state = "checking_environment" /\ d.batch = Len(journal')
               /\ journal'[d.batch][k].effect.type \in EndEffects => Over(snapshot')
    BY <1>1, <1>3 DEF Placed
  <2> QED BY <1>2, <1>3, <2>1, <2>4, <2>5 DEF Placed
<1> QED BY <1>5, <1>6

LEMMA DriveMoves ==
    ASSUME Typed, JournalInv, DrivesInv, snapshot' = snapshot,
           NEW d \in drives, d.phase # "resume", Keeps(d),
           \/ Ended(d)
           \/ \E e \in Drives : Becoming(d, e) /\ e.batch = d.batch /\ Placed(e)' /\ Doing(e)'
    PROVE  JournalInv' /\ DrivesInv' /\ Typed'
<1>1. JournalInv'
  BY JournalKept
<1>2. Typed'
  BY DEF Typed, Keeps, Ended, Becoming
<1>3. \A e \in drives \ {d} : Placed(e)' /\ Doing(e)'
  BY OthersKept
<1>4. DrivesInv'
  BY <1>3 DEF DrivesInv, Ended, Becoming
<1> QED BY <1>1, <1>2, <1>4
-----------------------------------------------------------------------------
(* An event: a batch of intents, and at most one drive begun on it.            *)

\* The drives begun on a new batch of n intents.
Begins(begun, n) ==
    /\ begun \subseteq Drives
    /\ \A e, f \in begun : e = f
    /\ \A e \in begun : /\ e.batch = Len(journal) + 1
                        /\ \/ e.phase = "resume"
                           \/ e.phase = "effect" /\ e.at = 1 /\ n # 0

LEMMA BegunBegins ==
    ASSUME journal \in Journals, NEW i \in Instances, effects' \in Seq(Effects)
    PROVE  /\ Begins(Begun(i), Len(effects'))
           /\ \A e \in Begun(i) : e.phase = "effect" /\ e.by = i
<1>1. CASE effects' = <<>>
  BY <1>1 DEF Begun, Begins
<1>2. CASE effects' # <<>>
  <2> DEFINE e == [by |-> i, batch |-> Len(journal) + 1, at |-> 1, phase |-> "effect", agent |-> 0]
  <2>1. Begun(i) = {e}
    BY <1>2 DEF Begun
  <2>2. Len(journal) + 1 \in Nat /\ 0 \in 0..MaxAttempts
    BY JournalRows, EngineAssumption
  <2>3. e \in Drives
    BY <2>2 DEF Drives, Phases
  <2>4. Len(effects') # 0
    BY <1>2
  <2>5. /\ e.by = i /\ e.batch = Len(journal) + 1 /\ e.at = 1 /\ e.phase = "effect"
    OBVIOUS
  <2> HIDE DEF e
  <2> QED BY <2>1, <2>3, <2>4, <2>5 DEF Begins
<1> QED BY <1>1, <1>2

\* What fits a state is of one kind.
LEMMA FitKinds ==
    ASSUME NEW s, NEW b, Fits(s, b)
    PROVE  \A k \in 1..Len(b) :
              /\ b[k].effect.type \in CheckEffects => s.state = "checking_environment"
              /\ b[k].effect.type \in EndEffects => Over(s)
              /\ b[k].effect.type \in StageStarts => IsExecuting(s)
<1> TAKE k \in 1..Len(b)
<1> USE DEF Fits
<1>1. CASE IsExecuting(s)
  <2>1. b[k].effect.type \in WorkEffects
    BY <1>1
  <2> QED BY <1>1, <2>1 DEF WorkEffects, CheckEffects, EndEffects, StageStarts
<1>2. CASE s.state = "checking_environment"
  <2>0. /\ Len(b) = 2
        /\ b[1].effect.type = "AcquireProjectLock" /\ b[2].effect.type = "RunEnvironmentCheck"
    BY <1>2
  <2>1. b[k].effect.type \in CheckEffects
    <3>1. k = 1 \/ k = 2
      BY <2>0
    <3> QED BY <2>0, <3>1 DEF CheckEffects
  <2> QED BY <1>2, <2>1 DEF CheckEffects, EndEffects, StageStarts
<1>3. CASE s.state = "rework_requested"
  BY <1>3 DEF CheckEffects, EndEffects, StageStarts
<1>4. CASE s.state \in {"awaiting_plan_approval", "interrupted_needs_inspection", "cancelled"}
  BY <1>4
<1>5. CASE s.state = "awaiting_user"
  BY <1>5 DEF CheckEffects, EndEffects, StageStarts, Over
<1>6. CASE s.state = "completed"
  <2>0. /\ Len(b) = 2
        /\ b[1].effect.type = "PromoteCandidateWorkspace" /\ b[2].effect.type = "ReleaseProjectLock"
    BY <1>6
  <2>1. b[k].effect.type \in EndEffects
    <3>1. k = 1 \/ k = 2
      BY <2>0
    <3> QED BY <2>0, <3>1 DEF EndEffects
  <2> QED BY <1>6, <2>1 DEF CheckEffects, EndEffects, StageStarts, Over, TerminalStates
<1> QED BY <1>1, <1>2, <1>3, <1>4, <1>5, <1>6 DEF ReachedStates, IsExecuting

LEMMA EventMoves ==
    ASSUME Typed, JournalInv, DrivesInv, snapshot' \in Snapshots, ~snapshot'.pauseAfterAttempt,
           NEW fx, Issues(snapshot', fx), journal' = Append(journal, Intents(fx)),
           NEW kept \in SUBSET drives, NEW begun, Begins(begun, Len(fx)),
           drives' = kept \cup begun,
           snapshot.state # "checking_environment" \/ \A d \in kept : d.batch # Len(journal),
           Over(snapshot) => Over(snapshot')
    PROVE  JournalInv' /\ DrivesInv' /\ Typed'
<1> DEFINE b == Intents(fx)
<1>1. /\ fx \in Seq(Effects) /\ Fits(snapshot', b)
      /\ b \in Seq(Rows) /\ Len(b) = Len(fx) /\ Len(b) \in Nat
      /\ \A k \in 1..Len(b) : RowOk(b[k]) /\ b[k].status = "intent"
  <2>1. fx \in Seq(Effects)
    BY DEF Issues
  <2>2. /\ b \in Seq(Rows) /\ Len(b) = Len(fx) /\ Len(fx) \in Nat
        /\ \A k \in 1..Len(fx) : b[k] = [effect |-> fx[k], status |-> "intent"]
                                  /\ b[k].status = "intent"
    BY <2>1, IntentsFacts
  <2> HIDE DEF b
  <2>3. \A k \in 1..Len(b) : RowOk(b[k])
    BY <2>2 DEF Issues
  <2> QED BY <2>1, <2>2, <2>3 DEF Issues, b
<1> HIDE DEF b
<1>2. /\ journal' \in Journals
      /\ Len(journal) \in Nat /\ Len(journal') = Len(journal) + 1
      /\ journal'[Len(journal) + 1] = b /\ Last' = b
      /\ \A v \in 1..Len(journal) : journal'[v] = journal[v]
  BY <1>1, BatchAdded, JournalRows DEF Typed, b
<1>3. JournalInv'
  <2>1. \A v \in 1..Len(journal') : v \in 1..Len(journal) \/ v = Len(journal) + 1
    BY <1>2
  <2>2. \A v \in 1..Len(journal') : \A k \in 1..Len(journal'[v]) : RowOk(journal'[v][k])
    BY <1>1, <1>2, <2>1 DEF JournalInv
  <2>3. EffectsAreCompletedInOrder'
    <3> SUFFICES ASSUME NEW v \in 1..Len(journal'), NEW j \in 1..Len(journal'[v]),
                        journal'[v][j].status # "intent", NEW i \in 1..(j - 1)
                 PROVE  journal'[v][i].status = "completed"
      BY DEF EffectsAreCompletedInOrder
    <3>1. CASE v \in 1..Len(journal)
      BY <1>2, <3>1 DEF JournalInv, EffectsAreCompletedInOrder
    <3>2. CASE v = Len(journal) + 1
      BY <1>1, <1>2, <3>2
    <3> QED BY <2>1, <3>1, <3>2
  <2>4. snapshot'.state # "draft"
    BY <1>1 DEF Fits, ReachedStates, SafeExecutionStates
  <2> QED BY <1>1, <1>2, <2>2, <2>3, <2>4 DEF JournalInv
<1>4. ASSUME NEW e \in begun
      PROVE  Placed(e)' /\ Doing(e)' /\ e.batch = Len(journal) + 1 /\ e \in Drives
  <2>1. /\ e.batch = Len(journal) + 1 /\ e \in Drives
        /\ e.phase = "resume" \/ (e.phase = "effect" /\ e.at = 1 /\ Len(b) # 0)
    BY <1>1 DEF Begins
  <2>2. e.batch \in 1..Len(journal') /\ journal'[e.batch] = b /\ e.batch = Len(journal')
    BY <1>2, <2>1
  <2>3. CASE e.phase = "resume"
    BY <2>1, <2>2, <2>3 DEF Placed, Doing, RunPhases
  <2>4. CASE e.phase = "effect" /\ e.at = 1 /\ Len(b) # 0
    <3>1. \A k \in 1..Len(b) : ~(k < e.at) /\ e.at \in 1..Len(b)
      BY <1>1, <2>4
    <3>2. e.at \in 1..Len(b)
      BY <1>1, <2>4
    <3>3. Placed(e)'
      BY <1>1, <2>2, <3>1, <3>2, FitKinds DEF Placed
    <3> QED BY <2>1, <2>4, <3>3 DEF Doing, RunPhases
  <2> QED BY <2>1, <2>3, <2>4
<1>5. ASSUME NEW e \in kept
      PROVE  Placed(e)' /\ Doing(e)' /\ e.batch \in 1..Len(journal)
  <2>1. Placed(e) /\ Doing(e) /\ e.batch \in 1..Len(journal)
    BY DEF DrivesInv, Placed
  <2>2. journal'[e.batch] = journal[e.batch] /\ e.batch \in 1..Len(journal')
    BY <1>2, <2>1
  <2>3. Placed(e)'
    BY <2>1, <2>2 DEF Placed
  <2>4. Doing(e)'
    BY <2>1, <2>2 DEF Doing, Row
  <2> QED BY <2>1, <2>3, <2>4
<1>6. \A d, e \in drives' : d.batch = e.batch => d = e
  <2>1. \A e \in kept : e.batch # Len(journal) + 1
    BY <1>2, <1>5
  <2> QED BY <1>4, <1>5, <2>1 DEF DrivesInv, Begins
<1>7. DrivesInv'
  BY <1>4, <1>5, <1>6 DEF DrivesInv
<1>8. Typed'
  BY <1>2, <1>4 DEF Typed
<1> QED BY <1>3, <1>7, <1>8
-----------------------------------------------------------------------------
(* What a step without an event does to the lock, the agents and the others.   *)

\* While nothing is asked for, nothing of the latest event is being done.
LEMMA NothingToDo ==
    ASSUME Typed, JournalInv, DrivesInv, SingleInv, holds = 0 \/ ~givenUp,
           \/ snapshot.state \in {"draft", "awaiting_plan_approval", "interrupted_needs_inspection"}
           \/ snapshot.state = "awaiting_user" /\ "continue" \in snapshot.awaitingActions
    PROVE  drives = {}
<1> SUFFICES ASSUME NEW d \in drives PROVE FALSE
  OBVIOUS
<1>1. Placed(d) /\ IsLatest(d)
  BY DEF DrivesInv, SingleInv
<1>2. d.batch = Len(journal) /\ d.phase # "resume" /\ d.at \in 1..Len(journal[d.batch])
      /\ d.batch \in 1..Len(journal)
  BY <1>1 DEF IsLatest, Placed
<1>3. CASE snapshot.state = "draft"
  <2>1. Len(journal) = 0
    BY <1>3 DEF JournalInv
  <2> QED BY <1>2, <2>1
<1>4. CASE snapshot.state # "draft"
  <2>1. Fits(snapshot, Last) /\ Last = journal[d.batch]
    BY <1>2, <1>4 DEF JournalInv, Last
  <2>2. Len(Last) = 0
    BY <1>4, <2>1 DEF Fits
  <2> QED BY <1>2, <2>1, <2>2
<1> QED BY <1>3, <1>4

LEMMA LockKept ==
    ASSUME Typed, JournalInv, DrivesInv, TaskLockInv, snapshot' = snapshot, lock' = lock,
           NEW d \in drives, d.phase # "resume", Keeps(d),
           \/ UNCHANGED journal
           \/ Row(d).effect.type \notin {"AcquireProjectLock", "ReleaseProjectLock"}
              /\ ~(Row(d)'.status = "refused" /\ Row(d).effect.type \notin StageStarts)
           \/ Row(d)'.status = "failed"
    PROVE  TaskLockInv'
<1>0. Placed(d)
  BY DEF DrivesInv
<1>1. CASE UNCHANGED journal
  BY <1>1 DEF TaskLockInv, Last, Over
<1>2. CASE snapshot.state = "checking_environment"
  <2>1. Fits(snapshot, Last) /\ Len(journal) > 0 /\ Len(journal) \in Nat
    BY <1>2, JournalRows DEF JournalInv, Typed
  <2>2. Len(Last) = 2 /\ Last[1].effect.type = "AcquireProjectLock"
    BY <1>2, <2>1 DEF Fits
  <2>3. Last'[1].status = Last[1].status \/ Last'[1].status = "failed" \/ UNCHANGED journal
    <3>1. CASE d.batch = Len(journal) /\ d.at = 1
      <4>1. Row(d) = Last[1] /\ Row(d)' = Last'[1]
        BY <3>1 DEF Row, Last, Keeps
      <4> QED BY <2>2, <4>1
    <3>2. CASE d.batch # Len(journal) \/ d.at # 1
      BY <2>1, <2>2, <3>2 DEF Keeps, Last
    <3> QED BY <3>1, <3>2
  <2>4. CASE UNCHANGED journal
    BY <2>4 DEF TaskLockInv, Last, Over
  <2>5. CASE ~UNCHANGED journal
    BY <1>2, <2>3, <2>5 DEF TaskLockInv, Over, TerminalStates
  <2> QED BY <2>4, <2>5
<1>3. CASE snapshot.state = "completed"
  <2>1. Fits(snapshot, Last) /\ Len(journal) > 0 /\ Len(journal) \in Nat
    BY <1>3, JournalRows DEF JournalInv, Typed
  <2>2. Len(Last) = 2 /\ Last[2].effect.type = "ReleaseProjectLock"
    BY <1>3, <2>1 DEF Fits
  <2>3. Last'[2].status = Last[2].status \/ Last'[2].status = "failed" \/ UNCHANGED journal
    <3>1. CASE d.batch = Len(journal) /\ d.at = 2
      <4>1. Row(d) = Last[2] /\ Row(d)' = Last'[2]
        BY <3>1 DEF Row, Last, Keeps
      <4> QED BY <2>2, <4>1
    <3>2. CASE d.batch # Len(journal) \/ d.at # 2
      BY <2>1, <2>2, <3>2 DEF Keeps, Last
    <3> QED BY <3>1, <3>2
  <2>4. CASE UNCHANGED journal
    BY <2>4 DEF TaskLockInv, Last, Over
  <2>5. CASE ~UNCHANGED journal
    BY <1>3, <2>3, <2>5 DEF TaskLockInv, Over, TerminalStates
  <2> QED BY <2>4, <2>5
<1>4. CASE snapshot.state \notin {"checking_environment", "completed"}
  BY <1>4 DEF TaskLockInv, Over
<1> QED BY <1>2, <1>3, <1>4

LEMMA AgentsKept ==
    ASSUME AgentInv, snapshot' = snapshot, agents' \subseteq agents, givenUp => givenUp',
           NEW next, drives' \subseteq drives \cup next,
           \A e \in next : \/ givenUp' \/ agents' = {}
                           \/ e.phase \in {"spawned", "running"} /\ e.agent \in agents'
    PROVE  AgentInv'
BY DEF AgentInv, IsExecuting

\* How drive d goes on: as the drives of next, of which there is one at most.
Onwards(d, next) ==
    /\ next \subseteq Drives
    /\ drives' = (drives \ {d}) \cup next
    /\ \A e, f \in next : e = f
    /\ \A e \in next :
          /\ e.batch = d.batch /\ e.phase # "resume"
          /\ \/ e.at = d.at
             \/ /\ e.at = d.at + 1 /\ d.at # Len(journal[d.batch])
                /\ Row(d)'.status = "completed"
          /\ Doing(e)'

LEMMA SingleKept ==
    ASSUME Typed, DrivesInv, SingleInv, snapshot' = snapshot, UNCHANGED <<hold, holds, waiting>>,
           givenUp => givenUp',
           NEW d \in drives, d.phase # "resume", Keeps(d), NEW next, Onwards(d, next)
    PROVE  SingleInv'
<1> SUFFICES ASSUME holds = 0 \/ ~givenUp, NEW e \in drives' PROVE IsLatest(e)'
  BY DEF SingleInv
<1>1. \A f \in drives : IsLatest(f) /\ Placed(f)
  BY DEF SingleInv, DrivesInv
<1>2. Len(journal') = Len(journal)
  BY DEF Keeps
<1>3. \A f \in drives : f.phase # "resume" /\ f.batch \in 1..Len(journal) /\ f.at \in 1..Len(journal[f.batch])
  BY <1>1 DEF IsLatest, Placed
<1>4. \A f \in drives : Row(f)'.effect = Row(f).effect /\ Len(journal'[f.batch]) = Len(journal[f.batch])
  BY <1>3 DEF Keeps, Row
<1>5. CASE e \in drives
  BY <1>1, <1>2, <1>4, <1>5 DEF IsLatest
<1>6. CASE e \in next
  <2>1. e.batch = d.batch /\ e.phase # "resume"
    BY <1>6 DEF Onwards
  <2>2. CASE d.batch = Len(journal)
    BY <1>2, <2>1, <2>2 DEF IsLatest
  <2>3. CASE d.batch # Len(journal)
    <3>1. /\ snapshot.state = "cancelled" /\ d.at = Len(journal[d.batch])
          /\ Row(d).effect.type = "ReleaseProjectLock"
      BY <1>1, <2>3 DEF IsLatest
    <3>2. e.at = d.at
      BY <1>6, <3>1 DEF Onwards
    <3>3. Row(e)' = Row(d)'
      BY <2>1, <3>2 DEF Row
    <3> QED BY <1>4, <2>1, <3>1, <3>2, <3>3 DEF IsLatest
  <2> QED BY <2>2, <2>3
<1> QED BY <1>5, <1>6 DEF Onwards

\* A step of a drive that applies no event.
LEMMA QuietStep ==
    ASSUME Typed, TaskInv, snapshot' = snapshot, UNCHANGED <<hold, holds, waiting, recovery>>,
           givenUp => givenUp',
           NEW d \in drives, d.phase # "resume", Keeps(d), NEW next, Onwards(d, next),
           TaskLockInv', AgentInv'
    PROVE  Typed' /\ TaskInv'
<1>1. JournalInv' /\ DrivesInv' /\ Typed'
  <2>1. \A e \in next : Placed(e)' /\ Doing(e)' /\ e \in Drives /\ e.batch = d.batch
    <3> TAKE e \in next
    <3>1. e.batch = d.batch /\ Doing(e)' /\ e \in Drives
      BY DEF Onwards
    <3>2. \/ e.at = d.at
          \/ /\ e.at = d.at + 1 /\ d.at # Len(journal[d.batch])
             /\ journal'[d.batch][d.at].status = "completed"
      BY DEF Onwards, Row
    <3>3. Placed(e)'
      BY <3>1, <3>2, SelfPlaced DEF TaskInv
    <3> QED BY <3>1, <3>3
  <2>2. CASE next = {}
    BY <2>2, DriveMoves DEF TaskInv, Onwards, Ended
  <2>3. ASSUME NEW e \in next PROVE JournalInv' /\ DrivesInv' /\ Typed'
    <3>1. Becoming(d, e)
      BY <2>3 DEF Onwards, Becoming
    <3> QED BY <2>1, <2>3, <3>1, DriveMoves DEF TaskInv
  <2> QED BY <2>2, <2>3
<1>2. SingleInv'
  BY SingleKept DEF TaskInv
<1>3. RecoveryInv'
  <2>1. Len(journal') = Len(journal)
    BY DEF Keeps
  <2>2. holds = 0 \/ ~givenUp =>
          ~(snapshot.state = "awaiting_user" /\ "continue" \in snapshot.awaitingActions)
    BY NothingToDo DEF TaskInv
  <2> QED BY <2>1, <2>2 DEF TaskInv, RecoveryInv, Current
<1> QED BY <1>1, <1>2, <1>3 DEF TaskInv
-----------------------------------------------------------------------------
(* The steps of a drive that apply no event, one by one.                       *)

Quietly == /\ snapshot' = snapshot
           /\ UNCHANGED <<hold, holds, waiting, recovery>>
           /\ givenUp => givenUp'

LEMMA DriveFacts ==
    ASSUME Typed, TaskInv, NEW d \in drives, d.phase # "resume"
    PROVE  /\ d \in Drives /\ Placed(d) /\ Doing(d)
           /\ d.batch \in 1..Len(journal) /\ d.at \in 1..Len(journal[d.batch])
           /\ Row(d) \in Rows /\ RowOk(Row(d)) /\ Row(d).effect \in Effects
           /\ Stage(d) \in 0..MaxAttempts
           /\ IsStage(d) => Stage(d) \in Attempts
<1>1. d \in Drives /\ Placed(d) /\ Doing(d)
  BY DEF Typed, TaskInv, DrivesInv
<1>2. d.batch \in 1..Len(journal) /\ d.at \in 1..Len(journal[d.batch])
  BY <1>1 DEF Placed
<1>3. Row(d) \in Rows
  BY <1>2, JournalRows DEF Row, Typed
<1>4. Row(d).effect \in Effects /\ Row(d).effect.attempt \in 0..MaxAttempts
  BY <1>3 DEF Rows, Effects
<1>5. RowOk(Row(d))
  BY <1>2 DEF TaskInv, JournalInv, Row
<1> QED BY <1>1, <1>2, <1>3, <1>4, <1>5 DEF Stage, IsStage, RowOk

LEMMA Edits ==
    ASSUME NEW d \in Drives
    PROVE  /\ \A p \in Phases :
                 LET e == [d EXCEPT !.phase = p]
                 IN  /\ e \in Drives /\ e.phase = p /\ e.batch = d.batch /\ e.at = d.at
                     /\ e.agent = d.agent
           /\ \A p \in Phases, a \in 0..MaxAttempts :
                 LET e == [d EXCEPT !.phase = p, !.agent = a]
                 IN  /\ e \in Drives /\ e.phase = p /\ e.batch = d.batch /\ e.at = d.at
                     /\ e.agent = a
           /\ LET e == [d EXCEPT !.at = d.at + 1]
              IN  /\ e \in Drives /\ e.phase = d.phase /\ e.batch = d.batch
                  /\ e.at = d.at + 1 /\ e.agent = d.agent
<1>1. ASSUME NEW p \in Phases
      PROVE  LET e == [d EXCEPT !.phase = p]
             IN  /\ e \in Drives /\ e.phase = p /\ e.batch = d.batch /\ e.at = d.at
                 /\ e.agent = d.agent
  BY DEF Drives
<1>2. ASSUME NEW p \in Phases, NEW a \in 0..MaxAttempts
      PROVE  LET e == [d EXCEPT !.phase = p, !.agent = a]
             IN  /\ e \in Drives /\ e.phase = p /\ e.batch = d.batch /\ e.at = d.at
                 /\ e.agent = a
  BY DEF Drives
<1>3. LET e == [d EXCEPT !.at = d.at + 1]
      IN  /\ e \in Drives /\ e.phase = d.phase /\ e.batch = d.batch
          /\ e.at = d.at + 1 /\ e.agent = d.agent
  BY DEF Drives
<1> QED BY <1>1, <1>2, <1>3

LEMMA Idle ==
    ASSUME TaskInv, NEW d \in drives, d.phase \notin {"spawned", "running"}
    PROVE  givenUp \/ agents = {}
BY DEF TaskInv, AgentInv

\* A row is marked in the journal.
LEMMA Marked ==
    ASSUME Typed, TaskInv, NEW d \in drives, d.phase # "resume", NEW status \in Statuses,
           Mark(d, status)
    PROVE  Keeps(d) /\ Row(d)'.status = status /\ Row(d)'.effect = Row(d).effect
<1>1. d.batch \in 1..Len(journal) /\ d.at \in 1..Len(journal[d.batch])
  BY DriveFacts
<1>2. Keeps(d) /\ journal'[d.batch][d.at].status = status
  BY <1>1, MarkKeeps DEF Typed
<1> QED BY <1>1, <1>2 DEF Row, Keeps

\* An effect is completed, and the drive goes to the next one.
LEMMA EffectDone ==
    ASSUME Typed, TaskInv, Quietly, NEW d \in drives, d.phase = "effect",
           Mark(d, "completed"), Onward(d), agents' \subseteq agents, TaskLockInv'
    PROVE  Typed' /\ TaskInv'
<1>1. Keeps(d) /\ Row(d)'.status = "completed"
  BY Marked DEF Statuses
<1>2. PICK next : Onwards(d, next) /\ \A e \in next : e.phase = "effect"
  <2>1. CASE d.at = Len(journal[d.batch])
    <3>1. Onwards(d, {})
      BY <2>1 DEF Onward, Ended, Onwards
    <3> QED BY <3>1
  <2>2. CASE d.at # Len(journal[d.batch])
    <3> DEFINE e == [d EXCEPT !.at = d.at + 1]
    <3>1. /\ e \in Drives /\ e.phase = "effect" /\ e.batch = d.batch /\ e.at = d.at + 1
      BY DriveFacts, Edits
    <3>2. drives' = (drives \ {d}) \cup {e}
      BY <2>2 DEF Onward, Becoming
    <3> HIDE DEF e
    <3>3. Doing(e)'
      BY <3>1 DEF Doing, RunPhases
    <3>4. Onwards(d, {e})
      BY <1>1, <2>2, <3>1, <3>2, <3>3 DEF Onwards
    <3> QED BY <3>1, <3>4
  <2> QED BY <2>1, <2>2
<1>3. AgentInv'
  <2>1. givenUp \/ agents = {}
    BY Idle
  <2> QED BY <1>2, <2>1, AgentsKept DEF TaskInv, Quietly, Onwards
<1> QED BY <1>1, <1>2, <1>3, QuietStep DEF Quietly

\* The drive ends, its row marked as failed or not marked.
LEMMA DriveDone ==
    ASSUME Typed, TaskInv, Quietly, NEW d \in drives, d.phase # "resume",
           UNCHANGED journal \/ Mark(d, "failed"), Ended(d), lock' = lock, agents' \subseteq agents
    PROVE  Typed' /\ TaskInv'
<1>1. Keeps(d) /\ (UNCHANGED journal \/ Row(d)'.status = "failed")
  BY Marked, UntouchedKeeps DEF Statuses, Typed
<1>2. Onwards(d, {})
  BY DEF Onwards, Ended
<1>3. TaskLockInv'
  BY <1>1, LockKept DEF TaskInv, Quietly
<1>4. AgentInv'
  <2>1. PICK next : next = {}
    OBVIOUS
  <2>2. drives' \subseteq drives \cup next
    BY DEF Ended
  <2> QED BY <2>1, <2>2, AgentsKept DEF TaskInv, Quietly
<1> QED BY <1>1, <1>2, <1>3, <1>4, QuietStep DEF Quietly

\* The drive enters another phase at the same row.
LEMMA PhaseEntered ==
    ASSUME Typed, TaskInv, Quietly, NEW d \in drives, d.phase # "resume",
           NEW e \in Drives, Becoming(d, e), e.batch = d.batch, e.at = d.at, e.phase # "resume",
           Doing(e)', Keeps(d), TaskLockInv', AgentInv'
    PROVE  Typed' /\ TaskInv'
<1>1. Onwards(d, {e})
  BY DEF Onwards, Becoming
<1> QED BY <1>1, QuietStep DEF Quietly

LEMMA PhaseAgents ==
    ASSUME TaskInv, Quietly, NEW d, NEW e, Becoming(d, e), agents' \subseteq agents,
           \/ givenUp' \/ agents' = {}
           \/ e.phase \in {"spawned", "running"} /\ e.agent \in agents'
    PROVE  AgentInv'
<1>1. drives' \subseteq drives \cup {e}
  BY DEF Becoming
<1> QED BY <1>1, AgentsKept DEF TaskInv, Quietly

QuietFrame == /\ UNCHANGED <<hold, holds, waiting, recovery>>
              /\ givenUp => givenUp'

LEMMA LockEffects ==
    ASSUME Typed, TaskInv, QuietFrame, NEW d \in drives,
           AcquireProjectLock(d) \/ ReleaseProjectLock(d) \/ LockConflict(d) \/ ReleaseFails(d)
    PROVE  Typed' /\ TaskInv'
<1>0. /\ Quietly /\ d.phase = "effect" /\ agents' \subseteq agents
      /\ d.phase # "resume" /\ Placed(d) /\ d.batch \in 1..Len(journal)
      /\ d.at \in 1..Len(journal[d.batch])
  <2>1. Quietly /\ d.phase = "effect" /\ agents' \subseteq agents
    BY DEF QuietFrame, Quietly, AcquireProjectLock, ReleaseProjectLock, LockConflict,
       ReleaseFails,
       KeepEngine, At
  <2> QED BY <2>1, DriveFacts
<1>1. CASE AcquireProjectLock(d)
  <2>1. /\ Mark(d, "completed") /\ Onward(d) /\ lock' = d.by
        /\ Row(d).effect.type = "AcquireProjectLock"
    BY <1>1 DEF AcquireProjectLock, At
  <2>2. lock' # Free
    BY <2>1, OrchestratorAssumption, DriveFacts, <1>0 DEF Drives
  <2>3. snapshot.state = "checking_environment"
    BY <1>0, <2>1 DEF Placed, Row, CheckEffects
  <2>4. TaskLockInv'
    BY <1>0, <2>2, <2>3 DEF TaskLockInv, Quietly
  <2> QED BY <1>0, <2>1, <2>4, EffectDone
<1>2. CASE ReleaseProjectLock(d)
  <2>1. /\ Mark(d, "completed") /\ Onward(d) /\ lock' = Free
        /\ Row(d).effect.type = "ReleaseProjectLock"
    BY <1>2 DEF ReleaseProjectLock, At
  <2>2. Over(snapshot)
    BY <1>0, <2>1 DEF Placed, Row, EndEffects
  <2>3. snapshot'.state # "checking_environment"
    BY <1>0, <2>2 DEF Over, TerminalStates, Quietly
  <2>4. snapshot'.state = "completed" => Last'[2].status # "refused"
    <3> SUFFICES ASSUME snapshot.state = "completed" PROVE Last'[2].status # "refused"
      BY <1>0 DEF Quietly
    <3>1. Len(Last) = 2 /\ Len(journal) \in 1..Len(journal)
      BY LastFacts DEF TaskInv, JournalInv, Fits, Typed
    <3>2. Last[2].status # "refused"
      BY DEF TaskInv, TaskLockInv
    <3>3. Keeps(d) /\ Row(d)'.status = "completed"
      BY <1>0, <2>1, Marked DEF Statuses
    <3>4. CASE d.batch = Len(journal) /\ d.at = 2
      <4>1. Last'[2] = Row(d)'
        BY <3>3, <3>4 DEF Last, Row, Keeps
      <4> QED BY <3>3, <4>1
    <3>5. CASE ~(d.batch = Len(journal) /\ d.at = 2)
      <4>1. Last'[2].status = Last[2].status
        BY <3>1, <3>3, <3>5 DEF Last, Keeps
      <4> QED BY <3>2, <4>1
    <3> QED BY <3>4, <3>5
  <2>5. TaskLockInv'
    BY <1>0, <2>1, <2>2, <2>3, <2>4 DEF TaskLockInv, Quietly
  <2> QED BY <1>0, <2>1, <2>5, EffectDone
<1>3. CASE LockConflict(d) \/ ReleaseFails(d)
  <2>1. Mark(d, "failed") /\ Ended(d) /\ lock' = lock
    BY <1>3 DEF LockConflict, ReleaseFails
  <2> QED BY <1>0, <2>1, DriveDone
<1> QED BY <1>1, <1>2, <1>3

LEMMA WorkEffectsDone ==
    ASSUME Typed, TaskInv, QuietFrame, NEW d \in drives,
           CreateAttemptBaseline(d) \/ WorkspaceEffect(d) \/ WorkspaceEffectFails(d) \/ EffectThrows(d)
    PROVE  Typed' /\ TaskInv'
<1>0. /\ Quietly /\ d.phase = "effect" /\ agents' \subseteq agents /\ d.phase # "resume"
      /\ lock' = lock
      /\ Row(d).effect.type \notin {"AcquireProjectLock", "ReleaseProjectLock"}
  BY DEF QuietFrame, Quietly, CreateAttemptBaseline, WorkspaceEffect, WorkspaceEffectFails,
     EffectThrows, KeepEngine, At, WorkspaceEffects, StageStarts
<1>1. CASE CreateAttemptBaseline(d) \/ WorkspaceEffect(d)
  <2>1. Mark(d, "completed") /\ Onward(d)
    BY <1>1 DEF CreateAttemptBaseline, WorkspaceEffect
  <2>2. Keeps(d) /\ Row(d)'.status = "completed"
    BY <1>0, <2>1, Marked DEF Statuses
  <2>3. TaskLockInv'
    BY <1>0, <2>2, LockKept DEF TaskInv, Quietly
  <2> QED BY <1>0, <2>1, <2>3, EffectDone
<1>2. CASE WorkspaceEffectFails(d) \/ EffectThrows(d)
  <2>1. Ended(d) /\ (UNCHANGED journal \/ Mark(d, "failed"))
    BY <1>2 DEF WorkspaceEffectFails, EffectThrows
  <2> QED BY <1>0, <2>1, DriveDone
<1> QED BY <1>1, <1>2

\* The two effects that are followed by an event of their own.
LEMMA EffectDecides ==
    ASSUME Typed, TaskInv, QuietFrame, NEW d \in drives,
           RunEnvironmentCheck(d) \/ PersistReworkRequest(d)
    PROVE  Typed' /\ TaskInv'
<1> DEFINE e == [d EXCEPT !.phase = "decided"]
<1>1. /\ Quietly /\ d.phase = "effect" /\ agents' = agents /\ d.phase # "resume" /\ lock' = lock
      /\ Row(d).effect.type \in {"RunEnvironmentCheck", "PersistReworkRequest"}
      /\ Mark(d, "completed") /\ Becoming(d, e)
  BY DEF QuietFrame, Quietly, RunEnvironmentCheck, PersistReworkRequest, KeepEngine, At
<1>2. d \in Drives /\ "decided" \in Phases
  BY <1>1, DriveFacts DEF Phases
<1>3. e \in Drives /\ e.phase = "decided" /\ e.batch = d.batch /\ e.at = d.at
  BY <1>2, Edits
<1> HIDE DEF e
<1>4. Keeps(d) /\ Row(d)'.status = "completed" /\ Row(d)'.effect = Row(d).effect
  BY <1>1, Marked DEF Statuses
<1>5. Doing(e)'
  <2>1. Row(e)' = Row(d)'
    BY <1>3 DEF Row
  <2> QED BY <1>1, <1>3, <1>4, <2>1 DEF Doing, RunPhases
<1>6. TaskLockInv'
  BY <1>1, <1>4, LockKept DEF TaskInv, Quietly
<1>7. AgentInv'
  <2>1. givenUp \/ agents = {}
    BY <1>1, Idle
  <2> QED BY <1>1, <2>1, PhaseAgents DEF Quietly
<1> QED BY <1>1, <1>3, <1>4, <1>5, <1>6, <1>7, PhaseEntered

LEMMA RunEnds ==
    ASSUME Typed, TaskInv, QuietFrame, NEW d \in drives,
           ResultThrows(d) \/ EventRejected(d)
    PROVE  Typed' /\ TaskInv'
<1>1. /\ Quietly /\ agents' = agents /\ d.phase # "resume" /\ lock' = lock
      /\ UNCHANGED journal /\ Ended(d)
  BY DEF QuietFrame, Quietly, ResultThrows, EventRejected, KeepEngine, durableVars
<1> QED BY <1>1, DriveDone

\* A refused continue of a held task ends a drive that has no row.
LEMMA RefusalEnds ==
    ASSUME Typed, TaskInv, QuietFrame, NEW d \in drives, ContinueRefused(d)
    PROVE  Typed' /\ TaskInv'
<1>1. /\ snapshot' = snapshot /\ agents' = agents /\ lock' = lock /\ UNCHANGED journal
      /\ drives' = drives \ {d} /\ d.phase = "resume"
  BY DEF ContinueRefused, KeepEngine, durableVars, Ended
<1>2. Typed' /\ JournalInv'
  BY <1>1, JournalKept DEF Typed, TaskInv
<1>3. DrivesInv'
  <2>1. \A e \in drives : e # d => Placed(e)' /\ Doing(e)'
    BY <1>1, OthersKept, UntouchedKeeps DEF TaskInv, Typed
  <2> QED BY <1>1, <2>1 DEF DrivesInv, TaskInv
<1>4. TaskLockInv'
  BY <1>1 DEF TaskInv, TaskLockInv, Last, Over
<1>5. SingleInv' /\ AgentInv'
  BY <1>1 DEF TaskInv, SingleInv, AgentInv, IsLatest, Row, QuietFrame, IsExecuting
<1>6. RecoveryInv'
  <2>1. ~(holds = 0 \/ ~givenUp)
    BY <1>1 DEF TaskInv, SingleInv, IsLatest
  <2> QED BY <1>1, <2>1 DEF TaskInv, RecoveryInv, Current, QuietFrame
<1> QED BY <1>2, <1>3, <1>4, <1>5, <1>6 DEF TaskInv

\* A drive goes on to phase p of a run with agent a.
RunGoes(d, p, a, e) ==
    /\ Becoming(d, e)
    /\ e \in Drives /\ e.phase = p /\ e.batch = d.batch /\ e.at = d.at /\ e.agent = a
    /\ p \in {"launching", "spawned", "running"} => a \in Attempts
    /\ \/ d.phase \in {"effect", "ran"} /\ agents' = agents /\ p \in {"launching", "decided"}
       \/ d.phase = "launching" /\ agents' = agents \cup {d.agent} /\ p = "spawned" /\ a = d.agent
       \/ d.phase = "spawned" /\ agents' = agents /\ p = "running" /\ a = d.agent

\* The phases of a run whose journal is left alone.
LEMMA RunGoesOn ==
    ASSUME Typed, TaskInv, QuietFrame, NEW d \in drives,
           \/ BeginLaunch(d) \/ Spawn(d) \/ MarkActive(d) \/ BeginFormatRepair(d)
           \/ RecordStageResult(d)
    PROVE  Typed' /\ TaskInv'
<1>1. PICK p, a, e : RunGoes(d, p, a, e)
  <2>0. d.phase # "resume" /\ d \in Drives
    BY DEF BeginLaunch, Spawn, MarkActive, BeginFormatRepair, RecordStageResult, Typed
  <2>1. /\ {"launching", "spawned", "running", "decided"} \subseteq Phases
        /\ d.agent \in 0..MaxAttempts /\ Attempts \subseteq 0..MaxAttempts
    BY <2>0, EngineAssumption DEF Phases, Drives, Attempts
  <2>2. CASE BeginLaunch(d)
    <3>1. Stage(d) \in Attempts
      BY <2>0, <2>2, DriveFacts DEF BeginLaunch
    <3>2. Becoming(d, [d EXCEPT !.phase = "launching", !.agent = Stage(d)])
          /\ d.phase = "effect" /\ agents' = agents
      BY <2>2 DEF BeginLaunch
    <3> DEFINE e == [d EXCEPT !.phase = "launching", !.agent = Stage(d)]
    <3>3. e \in Drives /\ e.phase = "launching" /\ e.batch = d.batch /\ e.at = d.at /\ e.agent = Stage(d)
      <4>1. "launching" \in Phases /\ Stage(d) \in 0..MaxAttempts
        BY <2>1, <3>1
      <4> QED BY <2>0, <4>1 DEF Drives
    <3>4. Becoming(d, e)
      BY <3>1, <3>2
    <3> HIDE DEF e
    <3>5. RunGoes(d, "launching", Stage(d), e)
      BY <3>1, <3>2, <3>3, <3>4 DEF RunGoes
    <3> QED BY <3>5
  <2>3. CASE Spawn(d)
    <3>1. Becoming(d, [d EXCEPT !.phase = "spawned"]) /\ d.phase = "launching"
          /\ agents' = agents \cup {d.agent}
      BY <2>3 DEF Spawn
    <3>2. d.agent \in Attempts
      BY <2>0, <3>1, DriveFacts DEF Doing
    <3> DEFINE e == [d EXCEPT !.phase = "spawned"]
    <3>3. e \in Drives /\ e.phase = "spawned" /\ e.batch = d.batch /\ e.at = d.at /\ e.agent = d.agent
      BY <2>0, <2>1, <3>1, <3>2, Edits
    <3>4. Becoming(d, e)
      BY <3>1, <3>2
    <3> HIDE DEF e
    <3>5. RunGoes(d, "spawned", d.agent, e)
      BY <3>1, <3>2, <3>3, <3>4 DEF RunGoes
    <3> QED BY <3>5
  <2>4. CASE MarkActive(d)
    <3>1. Becoming(d, [d EXCEPT !.phase = "running"]) /\ d.phase = "spawned" /\ agents' = agents
      BY <2>4 DEF MarkActive
    <3>2. d.agent \in Attempts
      BY <2>0, <3>1, DriveFacts DEF Doing
    <3> DEFINE e == [d EXCEPT !.phase = "running"]
    <3>3. e \in Drives /\ e.phase = "running" /\ e.batch = d.batch /\ e.at = d.at /\ e.agent = d.agent
      BY <2>0, <2>1, <3>1, <3>2, Edits
    <3>4. Becoming(d, e)
      BY <3>1, <3>2
    <3> HIDE DEF e
    <3>5. RunGoes(d, "running", d.agent, e)
      BY <3>1, <3>2, <3>3, <3>4 DEF RunGoes
    <3> QED BY <3>5
  <2>5. CASE BeginFormatRepair(d)
    <3>1. PICK b \in Attempts : Becoming(d, [d EXCEPT !.phase = "launching", !.agent = b])
      BY <2>5 DEF BeginFormatRepair
    <3>2. d.phase = "ran" /\ agents' = agents
      BY <2>5 DEF BeginFormatRepair
    <3> DEFINE e == [d EXCEPT !.phase = "launching", !.agent = b]
    <3>3. e \in Drives /\ e.phase = "launching" /\ e.batch = d.batch /\ e.at = d.at /\ e.agent = b
      <4>1. "launching" \in Phases /\ b \in 0..MaxAttempts
        BY <2>1, <3>1
      <4> QED BY <2>0, <4>1 DEF Drives
    <3>4. Becoming(d, e)
      BY <3>1, <3>2
    <3> HIDE DEF e
    <3>5. RunGoes(d, "launching", b, e)
      BY <3>1, <3>2, <3>3, <3>4 DEF RunGoes
    <3> QED BY <3>5
  <2>6. CASE RecordStageResult(d)
    <3>1. Becoming(d, [d EXCEPT !.phase = "decided"]) /\ d.phase = "ran" /\ agents' = agents
      BY <2>6 DEF RecordStageResult
    <3> DEFINE e == [d EXCEPT !.phase = "decided"]
    <3>3. e \in Drives /\ e.phase = "decided" /\ e.batch = d.batch /\ e.at = d.at /\ e.agent = d.agent
      BY <2>0, <2>1, <3>1, Edits
    <3>4. Becoming(d, e)
      BY <3>1
    <3> HIDE DEF e
    <3>5. RunGoes(d, "decided", d.agent, e)
      BY <3>1, <3>3, <3>4 DEF RunGoes
    <3> QED BY <3>5
  <2> QED BY <2>2, <2>3, <2>4, <2>5, <2>6
<1>2. /\ Quietly /\ lock' = lock /\ UNCHANGED journal /\ d.phase # "resume"
      /\ d.phase = "effect" => IsStage(d)
  BY DEF QuietFrame, Quietly, BeginLaunch, Spawn, MarkActive, BeginFormatRepair,
     RecordStageResult,
     KeepEngine, durableVars, SpareIdentity, Becomes
<1>3. Keeps(d)
  BY <1>2, UntouchedKeeps DEF Typed
<1>4. Row(d).effect.type \in StageStarts
  BY <1>1, <1>2, DriveFacts DEF RunGoes, Doing, RunPhases, IsStage
<1>5. Doing(e)'
  <2>1. Row(e)' = Row(d)
    BY <1>1, <1>2 DEF RunGoes, Row
  <2> QED BY <1>1, <1>4, <2>1 DEF RunGoes, Doing, RunPhases
<1>6. TaskLockInv'
  BY <1>2, <1>3, LockKept DEF TaskInv, Quietly
<1>7. AgentInv'
  <2>1. CASE d.phase \in {"effect", "ran"} /\ agents' = agents
    <3>1. givenUp \/ agents = {}
      BY <2>1, Idle
    <3> QED BY <1>1, <1>2, <2>1, <3>1, PhaseAgents DEF RunGoes, Quietly
  <2>2. CASE d.phase = "spawned" /\ agents' = agents /\ e.phase = "running" /\ e.agent = d.agent
    <3>1. givenUp \/ agents = {} \/ d.agent \in agents
      BY <2>2 DEF TaskInv, AgentInv
    <3> QED BY <1>1, <1>2, <2>2, <3>1, PhaseAgents DEF RunGoes, Quietly
  <2>3. CASE /\ d.phase = "launching" /\ agents' = agents \cup {d.agent}
             /\ e.phase = "spawned" /\ e.agent = d.agent
    <3> SUFFICES ASSUME ~givenUp PROVE AgentInv'
      BY <1>2 DEF AgentInv, Quietly
    <3>1. agents = {}
      BY <2>3, Idle
    <3>2. \A f \in drives : IsLatest(f) /\ Placed(f)
      BY DEF TaskInv, SingleInv, DrivesInv
    <3>3. d.batch = Len(journal)
      BY <1>4, <3>2 DEF IsLatest, StageStarts
    <3>4. snapshot.state # "draft" /\ Fits(snapshot, Last) /\ Last = journal[d.batch]
      <4>1. Len(journal) \in 1..Len(journal)
        BY <3>2, <3>3 DEF Placed
      <4> QED BY <3>3, <4>1 DEF TaskInv, JournalInv, Last
    <3>5. IsExecuting(snapshot)
      <4>1. d.at \in 1..Len(Last) /\ Last[d.at].effect.type \in StageStarts
        BY <1>2, <1>4, <3>2, <3>4 DEF Placed, Row
      <4> QED BY <3>4, <4>1, FitKinds
    <3>6. \A f \in drives : f = d
      <4>1. snapshot.state # "cancelled"
        BY <3>5 DEF IsExecuting, SafeExecutionStates
      <4>2. \A f \in drives : f.batch = d.batch
        BY <3>2, <3>3, <4>1 DEF IsLatest
      <4> QED BY <4>2 DEF TaskInv, DrivesInv
    <3>7. drives' = {e}
      BY <1>1, <3>6 DEF RunGoes, Becoming
    <3> QED BY <1>2, <2>3, <3>1, <3>5, <3>7 DEF AgentInv, Quietly, IsExecuting
  <2> QED BY <1>1, <2>1, <2>2, <2>3 DEF RunGoes
<1>8. Becoming(d, e) /\ e \in Drives /\ e.batch = d.batch /\ e.at = d.at /\ e.phase # "resume"
  BY <1>1 DEF RunGoes
<1> QED BY <1>2, <1>3, <1>5, <1>6, <1>7, <1>8, PhaseEntered

\* A run that is refused, breaks or settles, of the stage or of a repair.
LEMMA RunTurns ==
    ASSUME Typed, TaskInv, QuietFrame, NEW d \in drives,
           LaunchRefused(d) \/ (RunBreaks(d) /\ givenUp') \/ RunSettles(d)
    PROVE  Typed' /\ TaskInv'
<1>1. /\ Quietly /\ lock' = lock /\ agents' = agents
      /\ d.phase \in {"launching", "spawned", "running"} /\ d.phase # "resume"
  BY DEF QuietFrame, Quietly, LaunchRefused, RunBreaks, RunSettles, KeepEngine
<1>2. d \in Drives /\ Row(d).effect.type \in StageStarts
  BY <1>1, DriveFacts DEF Doing, RunPhases
<1>3. PICK status \in Statuses, p \in {"failed", "ran"} :
         \/ Ended(d) /\ UNCHANGED journal
         \/ /\ Becoming(d, [d EXCEPT !.phase = p])
            /\ Mark(d, status) \/ UNCHANGED journal
            /\ p = "failed" => Mark(d, status) /\ status \in {"failed", "refused"}
            /\ givenUp' \/ agents = {}
  <2>1. CASE LaunchRefused(d)
    <3>1. givenUp \/ agents = {}
      BY <2>1, Idle DEF LaunchRefused
    <3> QED BY <1>1, <2>1, <3>1 DEF LaunchRefused, RunFails, Statuses, Quietly
  <2>2. CASE RunBreaks(d) /\ givenUp'
    BY <2>2 DEF RunBreaks, RunFails, Statuses
  <2>3. CASE RunSettles(d)
    <3>1. givenUp \/ agents = {}
      BY <2>3 DEF RunSettles, TaskInv, AgentInv
    <3> QED BY <1>1, <2>3, <3>1 DEF RunSettles, Statuses, Quietly
  <2> QED BY <2>1, <2>2, <2>3
<1>4. CASE Ended(d) /\ UNCHANGED journal
  BY <1>1, <1>4, DriveDone
<1>5. CASE /\ Becoming(d, [d EXCEPT !.phase = p])
           /\ Mark(d, status) \/ UNCHANGED journal
           /\ p = "failed" => Mark(d, status) /\ status \in {"failed", "refused"}
           /\ givenUp' \/ agents = {}
  <2> DEFINE e == [d EXCEPT !.phase = p]
  <2>1. p \in Phases
    BY DEF Phases
  <2>2. e \in Drives /\ e.phase = p /\ e.batch = d.batch /\ e.at = d.at
    BY <1>2, <2>1, Edits
  <2>3. Becoming(d, e)
    BY <1>5
  <2> HIDE DEF e
  <2>4. /\ Keeps(d) /\ Row(d)'.effect = Row(d).effect
        /\ UNCHANGED journal \/ Row(d)'.status = status
    <3>1. CASE Mark(d, status)
      BY <1>1, <3>1, Marked
    <3>2. CASE UNCHANGED journal
      BY <3>2, UntouchedKeeps DEF Typed, Row
    <3> QED BY <1>5, <3>1, <3>2
  <2>5. p = "failed" => Row(d)'.status \in {"failed", "refused"}
    <3> SUFFICES ASSUME p = "failed" PROVE Row(d)'.status = status
      BY <1>5
    <3> QED BY <1>1, <1>5, Marked
  <2>6. Doing(e)'
    <3>1. Row(e)' = Row(d)'
      BY <2>2 DEF Row
    <3> QED BY <1>2, <2>2, <2>4, <2>5, <3>1 DEF Doing
  <2>7. TaskLockInv'
    <3>1. Row(d).effect.type \notin {"AcquireProjectLock", "ReleaseProjectLock"}
      BY <1>2 DEF StageStarts
    <3> QED BY <1>1, <1>2, <2>4, <3>1, LockKept DEF TaskInv, Quietly
  <2>8. AgentInv'
    BY <1>1, <1>5, <2>3, PhaseAgents
  <2> QED BY <1>1, <2>2, <2>3, <2>4, <2>6, <2>7, <2>8, PhaseEntered
<1> QED BY <1>3, <1>4, <1>5

\* No effect of the task cleans up.
LEMMA NoCleanup ==
    ASSUME Typed, TaskInv, NEW d \in drives
    PROVE  ~ProcessCleanup(d) /\ ~CleanupDecided(d)
<1>1. d.phase # "resume" => Row(d).effect.type # "BeginProcessCleanup"
  BY DriveFacts DEF RowOk
<1> QED BY <1>1 DEF ProcessCleanup, CleanupDecided, At
-----------------------------------------------------------------------------
(* The steps that apply an event.                                              *)

\* An event, by whomever: its batch is the latest, and what was asked for before it is
\* over or overtaken.
LEMMA EventStep ==
    ASSUME Typed, TaskInv, snapshot' \in Snapshots, ~snapshot'.pauseAfterAttempt,
           NEW fx, Issues(snapshot', fx), journal' = Append(journal, Intents(fx)),
           NEW kept \in SUBSET drives, NEW begun, Begins(begun, Len(fx)),
           drives' = kept \cup begun,
           snapshot.state # "checking_environment" \/ \A d \in kept : d.batch # Len(journal),
           Over(snapshot) => Over(snapshot'),
           lock' = Free => snapshot'.state \in {"draft", "checking_environment"} \/ Over(snapshot'),
           snapshot'.state = "cancelled" => lock' = Free,
           givenUp' \/ agents' = {},
           SingleInv',
           \A i \in Instances : recovery'[i].version \in 0..Len(journal)
    PROVE  Typed' /\ TaskInv'
<1>1. JournalInv' /\ DrivesInv' /\ Typed'
  BY EventMoves DEF TaskInv
<1>2. /\ Len(journal) \in Nat /\ Len(journal') = Len(journal) + 1
      /\ Last' = Intents(fx) /\ Fits(snapshot', Last')
      /\ \A k \in 1..Len(Last') : Last'[k].status = "intent"
  <2>1. fx \in Seq(Effects) /\ Fits(snapshot', Intents(fx))
    BY DEF Issues
  <2> DEFINE b == Intents(fx)
  <2>2. b \in Seq(Rows) /\ \A k \in 1..Len(b) : b[k].status = "intent"
    BY <2>1, IntentsFacts
  <2>3. journal' = Append(journal, b) /\ Fits(snapshot', b)
    BY <2>1
  <2> HIDE DEF b
  <2>4. Len(journal) \in Nat /\ Len(journal') = Len(journal) + 1 /\ Last' = b
    BY <2>2, <2>3, BatchAdded, JournalRows DEF Typed
  <2> QED BY <2>2, <2>3, <2>4 DEF b
<1>3. TaskLockInv'
  <2>0. Len(Last') = 2 => Last'[1].status = "intent" /\ Last'[2].status = "intent"
    BY <1>2
  <2>1. snapshot'.state = "checking_environment" => Last'[1].status = "intent"
    BY <1>2, <2>0 DEF Fits
  <2>2. snapshot'.state = "completed" => Last'[2].status = "intent"
    BY <1>2, <2>0 DEF Fits
  <2> QED BY <2>1, <2>2 DEF TaskLockInv
<1>4. AgentInv'
  <2>1. CASE givenUp'
    BY <2>1 DEF AgentInv
  <2>2. CASE agents' = {}
    BY <2>2 DEF AgentInv
  <2> QED BY <2>1, <2>2
<1>5. RecoveryInv'
  <2>1. \A i \in Instances : /\ recovery'[i].version \in 0..Len(journal')
                             /\ recovery'[i].version # Len(journal')
    BY <1>2
  <2> QED BY <2>1 DEF RecoveryInv, Current
<1> QED BY <1>1, <1>3, <1>4, <1>5 DEF TaskInv

\* An event that asks for what fits its state, and is no cancellation.
GoesOn == /\ Issues(snapshot', effects')
          /\ ~snapshot'.pauseAfterAttempt
          /\ snapshot'.state # "cancelled"

SessionFrame == UNCHANGED <<hold, holds, waiting, givenUp, recovery>>

LEMMA VersionsRead ==
    ASSUME TaskInv
    PROVE  \A i \in Instances : recovery[i].version \in 0..Len(journal)
BY DEF TaskInv, RecoveryInv

\* An event that a drive applies, ending its own batch.
LEMMA DriveEvent ==
    ASSUME Typed, TaskInv, snapshot' \in Snapshots, GoesOn, SessionFrame,
           NEW d \in drives, Applied(d),
           d.phase \notin {"spawned", "running"},
           lock' = lock, agents' = agents, lock # Free, ~Over(snapshot),
           snapshot.state # "checking_environment" \/ d.batch = Len(journal)
    PROVE  Typed' /\ TaskInv'
<1>1. /\ journal' = Append(journal, Intents(effects'))
      /\ drives' = (drives \ {d}) \cup Begun(d.by)
      /\ effects' \in Seq(Effects) /\ d \in Drives /\ d.by \in Instances
  BY DEF Applied, Persist, GoesOn, Issues, Typed, Drives
<1>2. Begins(Begun(d.by), Len(effects')) /\ \A e \in Begun(d.by) : e.phase = "effect"
  BY <1>1, BegunBegins DEF Typed
<1>3. Len(journal') = Len(journal) + 1
  BY <1>1, BatchAdded, IntentsFacts DEF Typed
<1>4. SingleInv'
  <2>1. \A e \in Begun(d.by) : IsLatest(e)'
    BY <1>2, <1>3 DEF Begins, IsLatest
  <2>2. ASSUME holds = 0 \/ ~givenUp, NEW e \in drives PROVE e = d
    <3>1. IsLatest(d) /\ IsLatest(e)
      BY <2>2 DEF TaskInv, SingleInv
    <3>2. d.batch = e.batch
      BY <3>1 DEF IsLatest, Over, TerminalStates
    <3> QED BY <3>2 DEF TaskInv, DrivesInv
  <2> QED BY <1>1, <2>1, <2>2 DEF TaskInv, SingleInv, SessionFrame
<1>5. snapshot.state # "checking_environment" \/ \A e \in drives \ {d} : e.batch # Len(journal)
  BY DEF TaskInv, DrivesInv
<1>6. givenUp' \/ agents' = {}
  BY Idle DEF SessionFrame
<1>7. \A i \in Instances : recovery'[i].version \in 0..Len(journal)
  BY VersionsRead DEF SessionFrame
<1> QED BY <1>1, <1>2, <1>4, <1>5, <1>6, <1>7, EventStep DEF GoesOn

\* Where nothing is asked for, the task holds its lock.
LEMMA HeldLock ==
    ASSUME TaskInv, lock = Free
    PROVE  snapshot.state \in {"draft", "checking_environment"} \/ Over(snapshot)
BY DEF TaskInv, TaskLockInv

LEMMA ContinuableFacts ==
    ASSUME TaskInv,
           \/ snapshot.state \in SafeExecutionStates
           \/ snapshot.state \in {"awaiting_plan_approval", "interrupted_needs_inspection",
                                  "rework_requested"}
           \/ snapshot.state = "awaiting_user" /\ "continue" \in snapshot.awaitingActions
    PROVE  lock # Free /\ ~Over(snapshot) /\ snapshot.state # "checking_environment"
<1>1. /\ snapshot.state \notin TerminalStates
      /\ snapshot.state \notin {"draft", "checking_environment"}
  BY DEF SafeExecutionStates, TerminalStates
<1>2. ~Over(snapshot)
  <2>1. Fits(snapshot, Last)
    BY <1>1 DEF TaskInv, JournalInv
  <2> QED BY <1>1, <2>1 DEF Over, Fits, SafeExecutionStates
<1> QED BY <1>1, <1>2, HeldLock

LEMMA EnvironmentEvent ==
    ASSUME Typed, TaskInv, snapshot' \in Snapshots, SessionFrame, NEW d \in drives,
           EnvironmentDecided(d)
    PROVE  Typed' /\ TaskInv'
<1>1. /\ d.phase = "decided" /\ Row(d).effect.type = "RunEnvironmentCheck"
      /\ Applied(d) /\ lock' = lock /\ agents' = agents
      /\ snapshot.state = "checking_environment"
  BY DEF EnvironmentDecided, EnvironmentFailed, EnvironmentReady, Accepts
<1>2. ~snapshot.pauseAfterAttempt
  BY DEF TaskInv, JournalInv
<1>3. GoesOn
  <2>1. CASE EnvironmentFailed
    BY <1>2, <2>1, CheckIssues DEF Typed, GoesOn
  <2>2. ASSUME NEW a \in Attempts, EnvironmentReady(a)
        PROVE  GoesOn
    BY <1>2, <2>2, LaunchIssues DEF Typed, GoesOn, IsExecuting, SafeExecutionStates
  <2> QED BY <2>1, <2>2 DEF EnvironmentDecided
<1>4. d.batch = Len(journal) /\ d.at \in 1..Len(journal[d.batch]) /\ Placed(d)
  BY <1>1, DriveFacts DEF Placed, Row, CheckEffects
<1>5. lock # Free
  <2>1. /\ Len(Last) = 2 /\ Last[1].effect.type = "AcquireProjectLock" /\ Last = journal[d.batch]
    BY <1>1, <1>4 DEF TaskInv, JournalInv, Fits, Last
  <2>2. d.at = 2
    BY <1>1, <1>4, <2>1 DEF Row
  <2>3. Last[1].status = "completed"
    BY <1>1, <1>4, <2>1, <2>2 DEF Placed
  <2> QED BY <1>1, <2>3 DEF TaskInv, TaskLockInv
<1>6. ~Over(snapshot) /\ d.phase \notin {"spawned", "running"}
  BY <1>1 DEF Over, TerminalStates
<1> QED BY <1>1, <1>3, <1>4, <1>5, <1>6, DriveEvent

LEMMA ResultEvent ==
    ASSUME Typed, TaskInv, snapshot' \in Snapshots, SessionFrame, NEW d \in drives,
           ReworkDecided(d) \/ ApplyStageResult(d) \/ ApplyRunFailure(d) \/ ContinueSettled(d)
    PROVE  Typed' /\ TaskInv'
<1>1. /\ d.phase \in {"decided", "failed", "resume"}
      /\ Applied(d) /\ lock' = lock /\ agents' = agents
  BY DEF ReworkDecided, ApplyStageResult, ApplyRunFailure, ContinueSettled, KeepRuns
<1>2. snapshot \in Snapshots /\ ~snapshot.pauseAfterAttempt
  BY DEF TaskInv, JournalInv, Typed
<1>3. \/ \E a \in Attempts : VerdictStep(a)
      \/ \E a : ImplementationFailed(a) \/ StageFailed(a)
      \/ \E a \in Attempts : \/ ReworkContextPersisted(a) \/ InspectionContinue(a)
                             \/ AwaitingUserContinue(a)
  <2>1. CASE ApplyStageResult(d)
    <3>1. Stage(d) \in Attempts
      BY <2>1, DriveFacts DEF ApplyStageResult
    <3> QED BY <2>1, <3>1 DEF ApplyStageResult, FailureEvent
  <2> QED BY <2>1 DEF ReworkDecided, ApplyRunFailure, ContinueSettled, FailureEvent
<1>4. GoesOn
  <2>1. ASSUME NEW a \in Attempts, VerdictStep(a)
        PROVE  GoesOn
    BY <1>2, <2>1, VerdictIssues DEF GoesOn
  <2>2. ASSUME NEW a, ImplementationFailed(a) \/ StageFailed(a)
        PROVE  GoesOn
    BY <1>2, <2>2, FailureIssues DEF GoesOn
  <2>3. ASSUME NEW a \in Attempts,
               ReworkContextPersisted(a) \/ InspectionContinue(a) \/ AwaitingUserContinue(a)
        PROVE  GoesOn
    BY <1>2, <2>3, LaunchIssues DEF GoesOn, IsExecuting, SafeExecutionStates
  <2> QED BY <1>3, <2>1, <2>2, <2>3
<1>5. \/ snapshot.state \in SafeExecutionStates
      \/ snapshot.state \in {"rework_requested", "interrupted_needs_inspection"}
      \/ snapshot.state = "awaiting_user" /\ "continue" \in snapshot.awaitingActions
  <2>1. ASSUME NEW a \in Attempts, VerdictStep(a)
        PROVE  snapshot.state \in SafeExecutionStates
    BY <2>1, Zenon DEF VerdictStep, PlanReadyForApproval, ReviewReworkRequested, MasterApproved,
       MasterRejectedAtLimit, MasterRejected, PlanReady, ImplementationCompleted, ReviewCompleted,
       SafeExecutionStates, AcceptsResult, Accepts
  <2>2. ASSUME NEW a, ImplementationFailed(a) \/ StageFailed(a)
        PROVE  snapshot.state \in SafeExecutionStates
    BY <2>2 DEF ImplementationFailed, StageFailed, SafeExecutionStates, AcceptsResult, Accepts
  <2> QED BY <1>3, <2>1, <2>2
             DEF ReworkContextPersisted, InspectionContinue, AwaitingUserContinue,
           MayAwait, Accepts
<1>6. lock # Free /\ ~Over(snapshot) /\ snapshot.state # "checking_environment"
  BY <1>5, ContinuableFacts
<1> QED BY <1>1, <1>4, <1>6, DriveEvent
-----------------------------------------------------------------------------
(* The commands of the session, and the steps in which the task stands still.  *)

\* What a batch consists of while its state leaves everything to the user.
Parked == \/ snapshot.state \in {"draft", "awaiting_plan_approval", "interrupted_needs_inspection"}
          \/ snapshot.state = "awaiting_user" /\ "continue" \in snapshot.awaitingActions

LEMMA ParkedFacts ==
    ASSUME TaskInv, Parked
    PROVE  /\ ~Over(snapshot) /\ snapshot.state # "checking_environment"
           /\ snapshot.state # "draft" => lock # Free
           /\ givenUp \/ agents = {}
<1>1. CASE snapshot.state = "draft"
  BY <1>1 DEF Over, TerminalStates, TaskInv, AgentInv, IsExecuting, SafeExecutionStates
<1>2. CASE snapshot.state # "draft"
  <2>1. lock # Free /\ ~Over(snapshot) /\ snapshot.state # "checking_environment"
    BY <1>2, ContinuableFacts DEF Parked
  <2> QED BY <2>1, <1>2 DEF Parked, TaskInv, AgentInv, IsExecuting, SafeExecutionStates
<1> QED BY <1>1, <1>2

\* An event that a command or a recovery applies to a task that waits for one.
LEMMA CommandEvent ==
    ASSUME Typed, TaskInv, snapshot' \in Snapshots, GoesOn, Parked,
           NEW i \in Instances, Commanded(i),
           UNCHANGED <<hold, holds, givenUp, agents>>, waiting' => waiting,
           lock' = Free => snapshot'.state \in {"draft", "checking_environment"} \/ Over(snapshot'),
           \A j \in Instances : recovery'[j].version \in 0..Len(journal)
    PROVE  Typed' /\ TaskInv'
<1>1. /\ journal' = Append(journal, Intents(effects'))
      /\ drives' = drives \cup Begun(i) /\ effects' \in Seq(Effects)
  BY DEF Commanded, Persist, GoesOn, Issues
<1>2. Begins(Begun(i), Len(effects')) /\ \A e \in Begun(i) : e.phase = "effect"
  BY <1>1, BegunBegins DEF Typed
<1>3. Len(journal') = Len(journal) + 1
  BY <1>1, BatchAdded, IntentsFacts DEF Typed
<1>4. SingleInv'
  <2>1. \A e \in Begun(i) : IsLatest(e)'
    BY <1>2, <1>3 DEF Begins, IsLatest
  <2>2. holds = 0 \/ ~givenUp => drives = {}
    BY NothingToDo DEF TaskInv, Parked
  <2> QED BY <1>1, <2>1, <2>2 DEF TaskInv, SingleInv
<1>5. /\ ~Over(snapshot) /\ snapshot.state # "checking_environment"
      /\ givenUp' \/ agents' = {}
  BY ParkedFacts
<1> QED BY <1>1, <1>2, <1>4, <1>5, EventStep DEF GoesOn

LEMMA Resumes ==
    ASSUME Typed, TaskInv, NEW a \in Attempts,
           PlanApproved(a) \/ InspectionContinue(a) \/ AwaitingUserContinue(a)
    PROVE  GoesOn /\ Parked /\ snapshot.state # "draft"
<1>1. /\ Issues(snapshot', effects') /\ IsExecuting(snapshot') /\ ~snapshot'.pauseAfterAttempt
  BY LaunchIssues DEF Typed, TaskInv, JournalInv
<1>2. GoesOn
  BY <1>1 DEF GoesOn, IsExecuting, SafeExecutionStates
<1> QED BY <1>2
           DEF Parked, PlanApproved, InspectionContinue, AwaitingUserContinue, MayAwait, Accepts

LEMMA CreationAndApproval ==
    ASSUME Typed, TaskInv, snapshot' \in Snapshots, UNCHANGED recovery, CreateTask \/ Approve
    PROVE  Typed' /\ TaskInv'
<1>1. /\ Commanded(Home) /\ Home \in Instances /\ lock' = lock
      /\ UNCHANGED <<hold, holds, waiting, givenUp, agents>>
  BY OrchestratorAssumption
     DEF CreateTask, Approve, StartTask, ApprovePlan, KeepRuns, sessionVars
<1>2. \A i \in Instances : recovery'[i].version \in 0..Len(journal)
  BY VersionsRead
<1>3. CASE CreateTask
  <2>1. /\ Start /\ snapshot.state = "draft" /\ snapshot' = Moved("checking_environment")
    BY <1>3 DEF CreateTask, StartTask, Start, Accepts, Becomes
  <2>2. GoesOn
    BY <2>1, CheckIssues DEF GoesOn, Typed, TaskInv, JournalInv
  <2>3. snapshot'.state = "checking_environment"
    BY <2>1, MoveFields DEF Typed
  <2> QED BY <1>1, <1>2, <2>1, <2>2, <2>3, CommandEvent DEF Parked
<1>4. CASE Approve
  <2>1. PICK a \in Attempts : PlanApproved(a)
    BY <1>4 DEF Approve, ApprovePlan
  <2>2. GoesOn /\ Parked /\ snapshot.state # "draft"
    BY <2>1, Resumes
  <2>3. lock # Free
    BY <2>2, ParkedFacts
  <2> QED BY <1>1, <1>2, <2>2, <2>3, CommandEvent
<1> QED BY <1>3, <1>4

LEMMA Continuation ==
    ASSUME Typed, TaskInv, snapshot' \in Snapshots, UNCHANGED recovery,
           HeldContinueResumes \/ ParkedContinue
    PROVE  Typed' /\ TaskInv'
<1>1. /\ Commanded(Home) /\ Home \in Instances /\ lock' = lock
      /\ UNCHANGED <<hold, holds, givenUp, agents>> /\ (waiting' => waiting)
      /\ \E a \in Attempts : AwaitingUserContinue(a) \/ InspectionContinue(a)
  BY OrchestratorAssumption
     DEF HeldContinueResumes, ParkedContinue, ContinueParked, KeepRuns, sessionVars
<1>2. \A i \in Instances : recovery'[i].version \in 0..Len(journal)
  BY VersionsRead
<1>3. GoesOn /\ Parked /\ snapshot.state # "draft"
  BY <1>1, Resumes
<1>4. lock # Free
  BY <1>3, ParkedFacts
<1> QED BY <1>1, <1>2, <1>3, <1>4, CommandEvent

\* The stage of a held task is settled as failed, whatever its drive is doing.
LEMMA Settlement ==
    ASSUME Typed, TaskInv, snapshot' \in Snapshots, UNCHANGED recovery, HeldContinueSettles
    PROVE  Typed' /\ TaskInv'
<1> DEFINE resume == [by |-> Home, batch |-> Len(journal) + 1, at |-> 1, phase |-> "resume", agent |-> 0]
<1>1. /\ waiting /\ givenUp' /\ UNCHANGED <<hold, holds, lock, agents>> /\ ~waiting'
      /\ Persist /\ drives' = drives \cup {resume}
      /\ \E a : ImplementationFailed(a) \/ StageFailed(a)
  BY DEF HeldContinueSettles, SettleHeldStage, KeepRuns
<1>2. PICK a : ImplementationFailed(a) \/ StageFailed(a)
  BY <1>1
<1>3. /\ Issues(snapshot', <<>>) /\ effects' = <<>>
      /\ ~snapshot'.pauseAfterAttempt /\ snapshot'.state # "cancelled"
  BY <1>2, FailureIssues DEF Typed
<1>4. snapshot.state \in SafeExecutionStates
  BY <1>2 DEF ImplementationFailed, StageFailed, SafeExecutionStates, AcceptsResult, Accepts
<1>5. lock # Free /\ ~Over(snapshot) /\ snapshot.state # "checking_environment"
  BY <1>4, ContinuableFacts
<1>6. Begins({resume}, Len(<<>>))
  <2>1. Len(journal) + 1 \in Nat /\ 0 \in 0..MaxAttempts /\ "resume" \in Phases
    BY JournalRows, EngineAssumption DEF Phases, Typed
  <2>2. resume \in Drives
    BY <2>1, OrchestratorAssumption DEF Drives
  <2>3. resume.batch = Len(journal) + 1 /\ resume.phase = "resume"
    OBVIOUS
  <2> HIDE DEF resume
  <2> QED BY <2>2, <2>3 DEF Begins
<1>7. journal' = Append(journal, Intents(<<>>))
  BY <1>1, <1>3 DEF Persist
<1>8. SingleInv'
  <2>1. holds # 0
    BY <1>1 DEF TaskInv, SingleInv
  <2> QED BY <1>1, <2>1 DEF SingleInv
<1>9. \A i \in Instances : recovery'[i].version \in 0..Len(journal)
  BY VersionsRead
<1> HIDE DEF resume
<1>10. drives \in SUBSET drives
  OBVIOUS
<1> QED BY <1>1, <1>3, <1>5, <1>6, <1>7, <1>8, <1>9, <1>10, EventStep

\* Nothing happens to the task itself: drives may die, agents may exit.
LEMMA StandsStill ==
    ASSUME Typed, TaskInv, UNCHANGED <<snapshot, journal, lock, givenUp>>,
           drives' \subseteq drives, agents' \subseteq agents,
           holds' = 0 => holds = 0 /\ ~hold' /\ ~waiting',
           RecoveryInv'
    PROVE  Typed' /\ TaskInv'
<1>1. Typed' /\ JournalInv'
  BY JournalKept DEF Typed, TaskInv
<1>2. DrivesInv'
  BY DEF TaskInv, DrivesInv, Placed, Doing, Row, Over
<1>3. TaskLockInv'
  BY DEF TaskInv, TaskLockInv, Last, Over
<1>4. SingleInv'
  BY DEF TaskInv, SingleInv, IsLatest, Row
<1>5. AgentInv'
  <2>1. agents' # {} /\ (\A a, b \in agents : a = b) => agents' = agents
    OBVIOUS
  <2> QED BY <2>1 DEF TaskInv, AgentInv, IsExecuting
<1> QED BY <1>1, <1>2, <1>3, <1>4, <1>5 DEF TaskInv

\* What a recovery has read stays as it is while the task stands still.
LEMMA ReadingsKept ==
    ASSUME TaskInv, UNCHANGED <<snapshot, journal, attemptRows, givenUp>>,
           holds' = 0 => holds = 0,
           \A i \in Instances : recovery'[i] = recovery[i] \/ recovery'[i] = NoOperation
    PROVE  RecoveryInv'
<1>1. LatestAttempt' = LatestAttempt
  BY DEF LatestAttempt
<1>2. Len(journal') = Len(journal)
  OBVIOUS
<1> SUFFICES ASSUME NEW i \in Instances
             PROVE  /\ recovery'[i].version \in 0..Len(journal')
                    /\ (holds' = 0 \/ ~givenUp') /\ recovery'[i].op = "continue" /\ Current(recovery[i])' =>
                          /\ recovery'[i].attempt = LatestAttempt'
                          /\ snapshot'.state = "awaiting_user"
                          /\ "continue" \in snapshot'.awaitingActions
  BY DEF RecoveryInv
<1>3. Current(recovery[i])' = (recovery'[i].version = Len(journal))
  BY DEF Current
<1>4. CASE recovery'[i] = recovery[i]
  BY <1>1, <1>3, <1>4 DEF TaskInv, RecoveryInv, Current
<1>5. CASE recovery'[i] = NoOperation
  <2>1. recovery'[i].version = 0 /\ recovery'[i].op = "none"
    BY <1>5 DEF NoOperation
  <2>2. 0 \in 0..Len(journal)
    BY DEF TaskInv, RecoveryInv
  <2> QED BY <2>1, <2>2
<1> QED BY <1>4, <1>5

LEMMA SessionWaits ==
    ASSUME Typed, TaskInv, SessionTypeOK, UNCHANGED recovery,
           HoldTask \/ PressContinue \/ HeldContinueRefused \/ CancelHeld \/ CancelParked
    PROVE  Typed' /\ TaskInv'
<1>1. /\ UNCHANGED <<snapshot, journal, attemptRows, lock, givenUp, drives>>
      /\ agents' \subseteq agents
  BY DEF HoldTask, PressContinue, HeldContinueRefused, CancelHeld, CancelParked, DisposeRuntime,
     KeepTask, KeepEngine, durableVars, StopActiveAttempt
<1>2. holds' = 0 => holds = 0 /\ ~hold' /\ ~waiting'
  <2>1. holds \in Nat /\ (holds = 0 => ~hold /\ ~waiting)
    BY SessionAssumption DEF SessionTypeOK, TaskInv, SingleInv
  <2> QED BY <2>1
             DEF HoldTask, PressContinue, HeldContinueRefused, CancelHeld, CancelParked,
                 DisposeRuntime
<1>3. RecoveryInv'
  BY <1>1, <1>2, ReadingsKept
<1> QED BY <1>1, <1>2, <1>3, StandsStill

LEMMA AgentLeaves ==
    ASSUME Typed, TaskInv, AgentExits, UNCHANGED <<sessionVars, recovery>>
    PROVE  Typed' /\ TaskInv'
<1>1. /\ UNCHANGED <<snapshot, journal, attemptRows, lock, drives, hold, holds, waiting, givenUp>>
      /\ agents' \subseteq agents
  BY DEF AgentExits, KeepEngine, durableVars, sessionVars
<1>2. holds' = 0 => holds = 0 /\ ~hold' /\ ~waiting'
  BY <1>1 DEF TaskInv, SingleInv
<1>3. RecoveryInv'
  BY <1>1, <1>2, ReadingsKept
<1> QED BY <1>1, <1>2, <1>3, StandsStill
-----------------------------------------------------------------------------
(* Crashes, restarts and the recovery operations.                              *)

RecoveryTyped == recovery \in [Instances -> Recoveries]

\* Of the recovery operations, those that only read.
LEMMA ReadingSteps ==
    ASSUME Typed, TaskInv, RecoveryTyped, NEW i \in Instances,
           \/ Crash(i) \/ Boot(i) \/ RecoveryBlocked(i)
           \/ \E op \in Operations : AlreadyApplied(i, op)
    PROVE  Typed' /\ TaskInv'
<1>1. /\ UNCHANGED <<snapshot, journal, attemptRows, lock, agents, holds, givenUp>>
      /\ drives' \subseteq drives /\ (hold' => hold) /\ (waiting' => waiting)
      /\ UNCHANGED recovery \/ recovery' = [recovery EXCEPT ![i] = NoOperation]
  <2>1. CASE Crash(i)
    <3>1. (hold' => hold) /\ (waiting' => waiting)
      BY <2>1, Zenon DEF Crash
    <3> QED BY <2>1, <3>1 DEF Crash, KeepEngine, durableVars
  <2>2. CASE Boot(i) \/ RecoveryBlocked(i)
    BY <2>2 DEF Boot, RecoveryBlocked, orchestratorVars, sessionVars, Answered
  <2>3. ASSUME NEW op, AlreadyApplied(i, op)
        PROVE  UNCHANGED <<orchestratorVars, sessionVars, recovery>>
    BY <2>3 DEF AlreadyApplied
  <2> QED BY <2>1, <2>2, <2>3 DEF orchestratorVars, sessionVars
<1>2. holds' = 0 => holds = 0 /\ ~hold' /\ ~waiting'
  BY <1>1 DEF TaskInv, SingleInv
<1>3. \A j \in Instances : recovery'[j] = recovery[j] \/ recovery'[j] = NoOperation
  BY <1>1 DEF RecoveryTyped
<1>4. RecoveryInv'
  BY <1>1, <1>2, <1>3, ReadingsKept
<1> QED BY <1>1, <1>2, <1>4, StandsStill

LEMMA ReadingBegins ==
    ASSUME Typed, TaskInv, RecoveryTyped, NEW i \in Instances, NEW op \in Operations,
           BeginRecovery(i, op)
    PROVE  Typed' /\ TaskInv'
<1> DEFINE r == [op |-> op, version |-> Len(journal), attempt |-> LatestAttempt,
                 row |-> IF LatestAttempt = 0 THEN "none" ELSE attemptRows[LatestAttempt]]
<1>1. /\ UNCHANGED <<snapshot, journal, attemptRows, lock, agents, drives,
                     hold, holds, waiting, givenUp>>
      /\ recovery' = [recovery EXCEPT ![i] = r]
      /\ OperationIsLegal(op)
  BY DEF BeginRecovery, orchestratorVars, sessionVars
<1>2. holds' = 0 => holds = 0 /\ ~hold' /\ ~waiting'
  BY <1>1 DEF TaskInv, SingleInv
<1>3. r.op = op /\ r.version = Len(journal) /\ r.attempt = LatestAttempt
  OBVIOUS
<1> HIDE DEF r
<1>4. LatestAttempt' = LatestAttempt
  BY <1>1 DEF LatestAttempt
<1>5. RecoveryInv'
  <2> SUFFICES ASSUME NEW j \in Instances
               PROVE  /\ recovery'[j].version \in 0..Len(journal')
                      /\ (holds' = 0 \/ ~givenUp') /\ recovery'[j].op = "continue" /\ Current(recovery[j])' =>
                            /\ recovery'[j].attempt = LatestAttempt'
                            /\ snapshot'.state = "awaiting_user"
                            /\ "continue" \in snapshot'.awaitingActions
    BY DEF RecoveryInv
  <2>1. CASE j # i
    <3>1. recovery'[j] = recovery[j]
      BY <1>1, <2>1 DEF RecoveryTyped
    <3> QED BY <1>1, <1>4, <3>1 DEF TaskInv, RecoveryInv, Current
  <2>2. CASE j = i
    <3>1. recovery'[j] = r
      BY <1>1, <2>2 DEF RecoveryTyped
    <3>2. Len(journal) \in 0..Len(journal)
      BY JournalRows DEF Typed
    <3>3. op = "continue" => /\ snapshot.state = "awaiting_user"
                             /\ "continue" \in snapshot.awaitingActions
      BY <1>1 DEF OperationIsLegal
    <3> QED BY <1>1, <1>3, <1>4, <3>1, <3>2, <3>3
  <2> QED BY <2>1, <2>2
<1> QED BY <1>1, <1>2, <1>5, StandsStill

LEMMA AnsweredVersions ==
    ASSUME TaskInv, RecoveryTyped, NEW i \in Instances, Answered(i)
    PROVE  \A j \in Instances : recovery'[j].version \in 0..Len(journal)
<1>1. \A j \in Instances : recovery[j].version \in 0..Len(journal)
  BY VersionsRead
<1>2. NoOperation.version = 0
  BY DEF NoOperation
<1>3. 0 \in 0..Len(journal)
  BY <1>1
<1>4. \A j \in Instances : recovery'[j] = recovery[j] \/ recovery'[j] = NoOperation
  BY DEF Answered, RecoveryTyped
<1> QED BY <1>1, <1>2, <1>3, <1>4

LEMMA InspectionCommits ==
    ASSUME Typed, TaskInv, RecoveryTyped, snapshot' \in Snapshots, NEW i \in Instances, CommitInspect(i)
    PROVE  Typed' /\ TaskInv'
<1>1. /\ InspectionView /\ Persist /\ Answered(i)
      /\ UNCHANGED <<hold, holds, waiting, givenUp, agents, lock, drives>>
  BY DEF CommitInspect, sessionVars
<1>2. effects' = <<>> /\ snapshot.state = "interrupted_needs_inspection"
  BY <1>1 DEF InspectionView, Becomes, Accepts
<1>3. Commanded(i)
  BY <1>1, <1>2 DEF Commanded, Begun
<1>4. GoesOn
  BY <1>1, ViewIssues DEF GoesOn, Typed
<1>5. Parked
  BY <1>2 DEF Parked
<1>6. lock # Free
  BY <1>2, <1>5, ParkedFacts
<1>7. \A j \in Instances : recovery'[j].version \in 0..Len(journal)
  BY <1>1, AnsweredVersions
<1> QED BY <1>1, <1>3, <1>4, <1>5, <1>6, <1>7, CommandEvent

LEMMA ContinueCommits ==
    ASSUME Typed, TaskInv, RecoveryTyped, snapshot' \in Snapshots, NEW i \in Instances, CommitContinue(i)
    PROVE  Typed' /\ TaskInv'
<1>1. /\ Commanded(i) /\ Answered(i) /\ lock' = i
      /\ UNCHANGED <<hold, holds, waiting, givenUp, agents>>
      /\ \E a \in Attempts : AwaitingUserContinue(a)
  BY DEF CommitContinue, Commanded, sessionVars
<1>2. GoesOn /\ Parked
  BY <1>1, Resumes
<1>3. lock' # Free
  BY <1>1, OrchestratorAssumption
<1>4. \A j \in Instances : recovery'[j].version \in 0..Len(journal)
  BY <1>1, AnsweredVersions
<1> QED BY <1>1, <1>2, <1>3, <1>4, CommandEvent

LEMMA CancellationCommits ==
    ASSUME Typed, TaskInv, RecoveryTyped, snapshot' \in Snapshots, NEW i \in Instances, CommitCancel(i)
    PROVE  Typed' /\ TaskInv'
<1>1. /\ InspectionCancel \/ AwaitingUserCancel
      /\ journal' = Append(journal, <<>>) /\ Answered(i) /\ lock' = Free
      /\ UNCHANGED <<hold, holds, waiting, givenUp, agents, drives>>
  BY DEF CommitCancel, sessionVars
<1>2. /\ Issues(snapshot', <<>>) /\ snapshot'.state = "cancelled"
      /\ ~snapshot'.pauseAfterAttempt
  BY <1>1, CancelIssues DEF Typed, TaskInv, JournalInv
<1>3. Over(snapshot')
  BY <1>2 DEF Over, TerminalStates
<1>4. snapshot.state \in {"interrupted_needs_inspection", "awaiting_user"}
  BY <1>1 DEF InspectionCancel, AwaitingUserCancel, MayAwait, Accepts
<1>5. givenUp \/ agents = {}
  BY <1>4 DEF TaskInv, AgentInv, IsExecuting, SafeExecutionStates
<1>6. /\ <<>> \in Seq(Effects) /\ <<>> \in Seq(Rows) /\ Intents(<<>>) = <<>>
      /\ Begins({}, Len(<<>>))
  <2>1. <<>> \in Seq(Effects) /\ Len(<<>>) = 0
    OBVIOUS
  <2>2. Intents(<<>>) \in Seq(Rows) /\ Len(Intents(<<>>)) = 0
    BY <2>1, IntentsFacts
  <2> QED BY <2>1, <2>2 DEF Begins
<1>7. SingleInv'
  <2> SUFFICES ASSUME holds = 0 \/ ~givenUp, NEW d \in drives PROVE IsLatest(d)'
    BY <1>1 DEF SingleInv, TaskInv
  <2>1. Placed(d) /\ IsLatest(d)
    BY DEF TaskInv, DrivesInv, SingleInv
  <2>2. d.batch = Len(journal) /\ d.phase # "resume"
    BY <1>4, <2>1 DEF IsLatest
  <2>3. d.batch \in 1..Len(journal) /\ d.at \in 1..Len(journal[d.batch])
    BY <2>1, <2>2 DEF Placed
  <2>4. Fits(snapshot, Last) /\ Last = journal[d.batch]
    BY <1>4, <2>2 DEF TaskInv, JournalInv, Last
  <2>5. Len(Last) = 1 /\ Last[1].effect.type = "ReleaseProjectLock"
    BY <1>4, <2>3, <2>4 DEF Fits
  <2>6. d.at = 1
    BY <2>3, <2>4, <2>5
  <2>7. journal'[d.batch] = journal[d.batch]
    BY <1>1, <1>6, <2>3, BatchAdded DEF Typed
  <2> QED BY <1>2, <2>2, <2>4, <2>5, <2>6, <2>7 DEF IsLatest, Row
<1>8. \A j \in Instances : recovery'[j].version \in 0..Len(journal)
  BY <1>1, AnsweredVersions
<1>9. drives \in SUBSET drives /\ drives' = drives \cup {} /\ journal' = Append(journal, Intents(<<>>))
  BY <1>1, <1>6
<1> QED BY <1>1, <1>2, <1>3, <1>4, <1>5, <1>6, <1>7, <1>8, <1>9, EventStep
-----------------------------------------------------------------------------
(* Types.                                                                      *)

\* The lists of effects of the reducer.
LEMMA ListsTyped ==
    /\ {<<>>, AcquireAndCheck, ReleaseLock, PersistRework} \subseteq Seq(Effects)
    /\ \A a \in 0..MaxAttempts :
          /\ <<Effect("BeginProcessCleanup", a)>> \in Seq(Effects)
          /\ <<Effect("PromoteCandidateWorkspace", a)>> \o ReleaseLock \in Seq(Effects)
    /\ \A st \in SafeExecutionStates, a, done \in 0..MaxAttempts :
          /\ EffectsForNewAttempt(st, a) \in Seq(Effects)
          /\ <<>> \o EffectsForNewAttempt(st, a) \in Seq(Effects)
          /\ <<Effect("FinalizeCandidateChangeSet", done)>> \o EffectsForNewAttempt(st, a)
                \in Seq(Effects)
<1>1. \A type \in EffectTypes, a \in 0..MaxAttempts : Effect(type, a) \in Effects
  BY DEF Effect, Effects
<1>2. {<<>>, AcquireAndCheck, ReleaseLock, PersistRework} \subseteq Seq(Effects)
  BY <1>1, EngineAssumption DEF AcquireAndCheck, ReleaseLock, PersistRework, EffectTypes
<1>3. ASSUME NEW a \in 0..MaxAttempts
      PROVE  /\ <<Effect("BeginProcessCleanup", a)>> \in Seq(Effects)
             /\ <<Effect("PromoteCandidateWorkspace", a)>> \o ReleaseLock \in Seq(Effects)
  BY <1>1, <1>2 DEF EffectTypes
<1>4. ASSUME NEW st \in SafeExecutionStates, NEW a \in 0..MaxAttempts
      PROVE  EffectsForNewAttempt(st, a) \in Seq(Effects)
  <2>1. \A type \in EffectTypes : Effect(type, a) \in Effects
    BY <1>1
  <2> QED BY <2>1
             DEF EffectsForNewAttempt, EffectsForExecutionState, EffectTypes,
                 SafeExecutionStates
<1>5. ASSUME NEW st \in SafeExecutionStates, NEW a \in 0..MaxAttempts, NEW done \in 0..MaxAttempts
      PROVE  /\ <<>> \o EffectsForNewAttempt(st, a) \in Seq(Effects)
             /\ <<Effect("FinalizeCandidateChangeSet", done)>> \o EffectsForNewAttempt(st, a)
                   \in Seq(Effects)
  <2> DEFINE new == EffectsForNewAttempt(st, a)
             first == Effect("FinalizeCandidateChangeSet", done)
  <2>1. new \in Seq(Effects) /\ first \in Effects
    BY <1>1, <1>4 DEF EffectTypes
  <2> HIDE DEF new, first
  <2>2. <<>> \o new \in Seq(Effects) /\ <<first>> \o new \in Seq(Effects)
    BY <2>1
  <2> QED BY <2>2 DEF new, first
<1> QED BY <1>2, <1>3, <1>4, <1>5

LEMMA EffectsTyped ==
    ASSUME snapshot \in Snapshots, effects \in Seq(Effects), [EngineNext]_engineVars
    PROVE  effects' \in Seq(Effects)
<1> DEFINE Listed == effects' \in Seq(Effects)
<1>1. /\ Attempts \subseteq 0..MaxAttempts
      /\ snapshot.active.attempt \in 0..MaxAttempts /\ snapshot.pendingResume.attempt \in 0..MaxAttempts
      /\ {"planning", "implementing", "reviewing", "master_validation"} \subseteq SafeExecutionStates
  BY EngineAssumption DEF Attempts, Snapshots, Identities, SafeExecutionStates
<1>2. CASE Start \/ EnvironmentFailed \/ AwaitingUserRetryEnvironment
  BY <1>2, ListsTyped, Zenon DEF Start, EnvironmentFailed, AwaitingUserRetryEnvironment, Becomes
<1>3. ASSUME NEW a \in Attempts, LaunchStep(a)
      PROVE  Listed
  BY <1>1, <1>3, ListsTyped, Zenon DEF LaunchStep, EnvironmentReady, PlanApproved,
     PlanRevisionRequested, ReworkContextPersisted, InspectionContinue, AwaitingUserContinue,
     Launch, Becomes
<1>4. ASSUME NEW a \in Attempts, ResultStep(a)
      PROVE  Listed
  <2>1. ASSUME NEW st \in SafeExecutionStates, NEW next \in Attempts,
               \/ HandOver(st, next, <<>>)
               \/ HandOver(st, next, <<Effect("FinalizeCandidateChangeSet", a)>>)
        PROVE  Listed
    BY <1>1, <2>1, ListsTyped, Zenon DEF HandOver, Becomes
  <2>2. ASSUME NEW next \in Attempts,
               PlanReady(a, next) \/ ImplementationCompleted(a, next) \/ ReviewCompleted(a, next)
        PROVE  Listed
    BY <1>1, <2>1, <2>2 DEF PlanReady, ImplementationCompleted, ReviewCompleted
  <2>3. CASE \/ PlanReadyForApproval(a) \/ ReviewReworkRequested(a) \/ MasterApproved(a)
             \/ MasterRejectedAtLimit(a) \/ MasterRejected(a)
    BY <1>1, <2>3, ListsTyped, Zenon
       DEF PlanReadyForApproval, ReviewReworkRequested, MasterApproved,
       MasterRejectedAtLimit, MasterRejected, Becomes
  <2>4. CASE ImplementationFailed(a) \/ StageFailed(a)
    BY <2>4, ListsTyped DEF ImplementationFailed, StageFailed, Becomes
  <2> QED BY <1>4, <2>2, <2>3, <2>4 DEF ResultStep, VerdictStep
<1>5. CASE PauseStep
  <2>1. CASE ResumeExecution
    <3>1. /\ effects' = EffectsForNewAttempt(snapshot.resumeTarget, snapshot.pendingResume.attempt)
          /\ snapshot.resumeTarget \in SafeExecutionStates
      BY <2>1 DEF ResumeExecution, Resuming, Becomes
    <3> QED BY <1>1, <3>1, ListsTyped
  <2>2. CASE \/ PauseAfterAttemptRequested \/ ResumeToApproval \/ ResumeRework
             \/ ResumeToAwaitingUser \/ ResumeCompletion
    BY <2>2, ListsTyped, Zenon DEF PauseAfterAttemptRequested, ResumeToApproval, ResumeRework,
       ResumeToAwaitingUser, ResumeCompletion, Becomes
  <2> QED BY <1>5, <2>1, <2>2 DEF PauseStep
<1>6. CASE StopStep
  <2>1. CancelTask => Listed
    BY <1>1, ListsTyped, Zenon DEF CancelTask, BeginCleanup, Becomes
  <2> QED BY <1>1, <1>6, <2>1, ListsTyped, Zenon
             DEF StopStep, Cancel, Interrupt, ProcessTreeClean,
          ProcessCleanupFailed, RetryCleanup, InspectionView, InspectionCancel, AwaitingUserCancel,
          FatalError, BeginCleanup, Becomes
<1>7. ASSUME NEW a, SpareIdentity(a)
      PROVE  Listed
  BY <1>7, ListsTyped DEF SpareIdentity, Becomes
<1>8. CASE UNCHANGED engineVars
  BY <1>8 DEF engineVars
<1> QED BY <1>2, <1>3, <1>4, <1>5, <1>6, <1>7, <1>8 DEF EngineNext, ReducerNext

\* A set of attempts has a latest one: by the segments from each to the last.
LEMMA LatestOne ==
    ASSUME NEW S \in SUBSET Attempts, S # {}
    PROVE  \E m \in S : \A n \in S : n <= m
<1> DEFINE T == {n .. MaxAttempts : n \in S}
<1>1. T \subseteq FiniteSubsetsOf(Nat) /\ T # {}
  <2>1. \A n \in S : n .. MaxAttempts \in SUBSET Nat /\ IsFiniteSet(n .. MaxAttempts)
    BY FS_Interval, EngineAssumption DEF Attempts
  <2> QED BY <2>1 DEF FiniteSubsetsOf
<1>2. PICK x \in T : \A y \in T : <<y, x>> \notin StrictSubsetOrdering(Nat)
  <2>1. IsWellFoundedOn(StrictSubsetOrdering(Nat), FiniteSubsetsOf(Nat))
    BY FS_StrictSubsetOrderingWellFounded
  <2> HIDE DEF T
  <2> QED BY <1>1, <2>1, WFMin
<1>3. PICK m \in S : x = m .. MaxAttempts
  OBVIOUS
<1>4. ASSUME NEW n \in S, m < n PROVE FALSE
  <2>1. /\ n .. MaxAttempts \in T /\ n .. MaxAttempts \subseteq m .. MaxAttempts
        /\ n .. MaxAttempts # m .. MaxAttempts
        /\ n .. MaxAttempts \in SUBSET Nat /\ m .. MaxAttempts \in SUBSET Nat
    BY <1>4, EngineAssumption DEF Attempts
  <2>2. <<n .. MaxAttempts, m .. MaxAttempts>> \in StrictSubsetOrdering(Nat)
    BY <2>1 DEF StrictSubsetOrdering
  <2> QED BY <1>2, <1>3, <2>1, <2>2
<1>5. \A n \in S : n <= m
  BY <1>4, EngineAssumption DEF Attempts
<1> QED BY <1>5

AttemptStatuses == {"none", "pending", "active", "completed"}

LEMMA LatestFacts ==
    ASSUME attemptRows \in [Attempts -> AttemptStatuses]
    PROVE  /\ LatestAttempt \in 0..MaxAttempts
           /\ LatestAttempt # 0 => LatestAttempt \in Attempts
           /\ LatestAttempt # 0 => attemptRows[LatestAttempt] \in AttemptStatuses
<1> DEFINE rows == {a \in Attempts : attemptRows[a] # "none"}
<1>1. CASE rows = {}
  BY <1>1, EngineAssumption DEF LatestAttempt
<1>2. CASE rows # {}
  <2>1. PICK m \in rows : \A n \in rows : n <= m
    <3>1. rows \in SUBSET Attempts
      OBVIOUS
    <3> HIDE DEF rows
    <3> QED BY <1>2, <3>1, LatestOne
  <2>2. LatestAttempt \in rows
    BY <1>2, <2>1 DEF LatestAttempt
  <2>3. Attempts \subseteq 0..MaxAttempts
    BY EngineAssumption DEF Attempts
  <2> QED BY <2>2, <2>3
<1> QED BY <1>1, <1>2

RunsTyped == /\ results \in [Attempts -> {"none", "ready", "consumed"}]
             /\ attemptRows \in [Attempts -> AttemptStatuses]
             /\ agents \subseteq Attempts
             /\ lock \in Instances \cup {Free}

ScreensTyped == /\ life \in [Instances -> {"new", "up", "dead"}]
                /\ offered \in [Instances -> SUBSET Operations]
                /\ RecoveryTyped
                /\ operated \subseteq Operations \X (0..MaxAttempts)

LEMMA DriveTyping ==
    ASSUME Typed, TaskInv, RunsTyped, NEW d \in drives, DriveStep(d) \/ RunBreaks(d)
    PROVE  RunsTyped'
<1>1. d \in Drives /\ d.by \in Instances
  BY DEF Typed, Drives
<1>2. CASE UNCHANGED <<results, attemptRows, agents, lock>>
  BY <1>2 DEF RunsTyped
<1>3. CASE AcquireProjectLock(d) \/ ReleaseProjectLock(d)
  BY <1>1, <1>3 DEF RunsTyped, AcquireProjectLock, ReleaseProjectLock
<1>4. CASE CreateAttemptBaseline(d) \/ EffectThrows(d)
  <2>1. /\ attemptRows' = attemptRows \/ \E a : attemptRows' = [attemptRows EXCEPT ![a] = "pending"]
        /\ UNCHANGED <<results, agents, lock>>
    BY <1>4 DEF CreateAttemptBaseline, EffectThrows
  <2>2. attemptRows' \in [Attempts -> AttemptStatuses]
    BY <2>1 DEF RunsTyped, AttemptStatuses
  <2> QED BY <2>1, <2>2 DEF RunsTyped
<1>5. CASE MarkActive(d) \/ RunSettles(d) \/ BeginFormatRepair(d)
  <2>1. /\ \E a : \E status \in AttemptStatuses : attemptRows' = [attemptRows EXCEPT ![a] = status]
        /\ UNCHANGED <<results, agents, lock>>
    <3>1. CASE MarkActive(d)
      BY <3>1 DEF MarkActive, AttemptStatuses
    <3>2. CASE RunSettles(d)
      BY <3>2 DEF RunSettles, AttemptStatuses
    <3>3. CASE BeginFormatRepair(d)
      BY <3>3 DEF BeginFormatRepair, AttemptStatuses
    <3> QED BY <1>5, <3>1, <3>2, <3>3
  <2>2. attemptRows' \in [Attempts -> AttemptStatuses]
    BY <2>1 DEF RunsTyped
  <2> QED BY <2>1, <2>2 DEF RunsTyped
<1>6. CASE Spawn(d)
  <2>1. d.agent \in Attempts
    BY <1>6, DriveFacts DEF Spawn, Doing
  <2> QED BY <1>6, <2>1 DEF Spawn, RunsTyped, durableVars
<1>7. CASE RecordStageResult(d) \/ ApplyStageResult(d)
  BY <1>7 DEF RecordStageResult, ApplyStageResult, RunsTyped
<1>8. CASE LockConflict(d) \/ ReleaseFails(d) \/ RunEnvironmentCheck(d) \/ EnvironmentDecided(d)
           \/ WorkspaceEffect(d) \/ WorkspaceEffectFails(d) \/ PersistReworkRequest(d)
           \/ ReworkDecided(d)
  BY <1>2, <1>8 DEF LockConflict, ReleaseFails, RunEnvironmentCheck, EnvironmentDecided,
     WorkspaceEffect, WorkspaceEffectFails, PersistReworkRequest, ReworkDecided
<1>9. CASE BeginLaunch(d) \/ LaunchRefused(d) \/ RunBreaks(d) \/ ResultThrows(d)
           \/ ApplyRunFailure(d) \/ EventRejected(d) \/ ContinueSettled(d) \/ ContinueRefused(d)
  BY <1>2, <1>9 DEF BeginLaunch, LaunchRefused, RunBreaks, ResultThrows, ApplyRunFailure,
     EventRejected, ContinueSettled, ContinueRefused, KeepRuns, durableVars
<1>10. ~ProcessCleanup(d) /\ ~CleanupDecided(d)
  BY NoCleanup
<1> QED BY <1>3, <1>4, <1>5, <1>6, <1>7, <1>8, <1>9, <1>10 DEF DriveStep

\* What a screen shows are operations.
LEMMA ShownTyped ==
    ASSUME offered \in [Instances -> SUBSET Operations], NEW i, Shows(i)
    PROVE  offered' \in [Instances -> SUBSET Operations]
<1>1. Shown(i, snapshot') \in SUBSET Operations
  BY DEF Shown, Operations
<1> QED BY <1>1 DEF Shows

LEMMA RestTyping ==
    ASSUME Typed, TaskInv, RunsTyped, SessionTypeOK, ScreensTyped, [TaskNext]_taskVars
    PROVE  RunsTyped' /\ SessionTypeOK' /\ ScreensTyped'
<1>0. /\ \A i : Shows(i) /\ UNCHANGED <<life, recovery, operated>> => ScreensTyped'
      /\ UNCHANGED sessionVars => SessionTypeOK'
      /\ KeepRuns => RunsTyped'
      /\ (UNCHANGED <<results, attemptRows, lock>> /\ agents' \subseteq agents) => RunsTyped'
  BY ShownTyped DEF ScreensTyped, RecoveryTyped, sessionVars, SessionTypeOK, KeepRuns, RunsTyped
<1>1. CASE UNCHANGED taskVars
  BY <1>1 DEF taskVars, orchestratorVars, sessionVars, recoveryVars, RunsTyped, SessionTypeOK,
     ScreensTyped, RecoveryTyped
<1>2. CASE /\ SessionCommand \/ ParkedContinue \/ CancelParked
           /\ Shows(Home) /\ UNCHANGED <<life, recovery, operated>>
  <2>1. ScreensTyped'
    BY <1>0, <1>2
  <2>2. CASE CreateTask \/ Approve \/ ParkedContinue
    BY <1>0, <2>1, <2>2
       DEF CreateTask, Approve, ParkedContinue, StartTask, ApprovePlan, ContinueParked
  <2>3. CASE HeldContinueSettles \/ HeldContinueResumes
    BY <1>0, <2>1, <2>3
       DEF HeldContinueSettles, HeldContinueResumes, SettleHeldStage, ContinueParked,
       SessionTypeOK
  <2>4. CASE HoldTask \/ PressContinue \/ HeldContinueRefused \/ CancelHeld \/ CancelParked
    <3>1. UNCHANGED <<results, attemptRows, lock>> /\ agents' \subseteq agents
      BY <2>4 DEF HoldTask, PressContinue, HeldContinueRefused, CancelHeld, CancelParked,
         DisposeRuntime, KeepTask, durableVars, StopActiveAttempt
    <3>2. SessionTypeOK'
      <4>1. HoldTask => SessionTypeOK'
        BY SessionAssumption DEF HoldTask, SessionTypeOK
      <4>2. PressContinue => SessionTypeOK'
        BY DEF PressContinue, SessionTypeOK
      <4>3. HeldContinueRefused => SessionTypeOK'
        BY DEF HeldContinueRefused, SessionTypeOK
      <4>4. CancelHeld \/ CancelParked => SessionTypeOK'
        BY DEF CancelHeld, CancelParked, DisposeRuntime, SessionTypeOK
      <4> QED BY <2>4, <4>1, <4>2, <4>3, <4>4
    <3> QED BY <1>0, <2>1, <3>1, <3>2
  <2> QED BY <1>2, <2>2, <2>3, <2>4 DEF SessionCommand
<1>3. ASSUME NEW d \in drives, BackgroundStep(d), Shows(d.by), UNCHANGED <<life, recovery, operated>>
      PROVE  RunsTyped' /\ SessionTypeOK' /\ ScreensTyped'
  <2>1. ScreensTyped' /\ RunsTyped'
    BY <1>0, <1>3, DriveTyping DEF BackgroundStep
  <2>2. SessionTypeOK'
    BY <1>0, <1>3 DEF BackgroundStep, SessionTypeOK
  <2> QED BY <2>1, <2>2
<1>4. CASE AgentExits /\ UNCHANGED <<sessionVars, recoveryVars>>
  <2>1. UNCHANGED <<results, attemptRows, lock>> /\ agents' \subseteq agents
    BY <1>4 DEF AgentExits, durableVars
  <2> QED BY <1>0, <1>4, <2>1 DEF recoveryVars, ScreensTyped, RecoveryTyped
<1>5. ASSUME NEW i \in Instances, RecoveryStep(i)
      PROVE  RunsTyped' /\ SessionTypeOK' /\ ScreensTyped'
  <2>0. /\ NoOperation \in Recoveries
        /\ RecoveryTyped /\ operated \subseteq Operations \X (0..MaxAttempts)
        /\ life \in [Instances -> {"new", "up", "dead"}] /\ offered \in [Instances -> SUBSET Operations]
    BY EngineAssumption DEF NoOperation, Recoveries, ScreensTyped
  <2>1. CASE Crash(i)
    <3>1. SessionTypeOK'
      BY <2>1 DEF Crash, SessionTypeOK
    <3>2. ScreensTyped'
      BY <2>0, <2>1 DEF Crash, ScreensTyped, RecoveryTyped
    <3> QED BY <1>0, <2>1, <3>1, <3>2 DEF Crash, durableVars
  <2>2. CASE Boot(i)
    <3>1. RunsTyped' /\ SessionTypeOK'
      BY <1>0, <2>2 DEF Boot, orchestratorVars, KeepRuns
    <3>2. ScreensTyped'
      BY <2>0, <2>2 DEF Boot, ScreensTyped, RecoveryTyped, Operations
    <3> QED BY <3>1, <3>2
  <2>3. ASSUME NEW op \in Operations, BeginRecovery(i, op)
        PROVE  RunsTyped' /\ SessionTypeOK' /\ ScreensTyped'
    <3> DEFINE r == [op |-> op, version |-> Len(journal), attempt |-> LatestAttempt,
                     row |-> IF LatestAttempt = 0 THEN "none" ELSE attemptRows[LatestAttempt]]
    <3>1. r \in Recoveries
      BY LatestFacts, JournalRows DEF Recoveries, Typed, RunsTyped, AttemptStatuses
    <3>2. recovery' = [recovery EXCEPT ![i] = r] /\ UNCHANGED <<life, offered, operated>>
      BY <2>3 DEF BeginRecovery
    <3> HIDE DEF r
    <3>3. ScreensTyped'
      BY <2>0, <3>1, <3>2 DEF ScreensTyped, RecoveryTyped
    <3> QED BY <1>0, <2>3, <3>3 DEF BeginRecovery, orchestratorVars, KeepRuns
  <2>4. ASSUME NEW op \in Operations, AlreadyApplied(i, op)
        PROVE  RunsTyped' /\ SessionTypeOK' /\ ScreensTyped'
    BY <1>0, <2>4 DEF AlreadyApplied, orchestratorVars, KeepRuns
  <2>5. CASE RecoveryBlocked(i)
    <3>1. ScreensTyped'
      BY <2>0, <2>5 DEF RecoveryBlocked, Answered, ScreensTyped, RecoveryTyped
    <3> QED BY <1>0, <2>5, <3>1 DEF RecoveryBlocked, orchestratorVars, KeepRuns
  <2>6. CASE CommitInspect(i) \/ CommitContinue(i) \/ CommitCancel(i)
    <3>1. /\ recovery[i].op \in Operations /\ Operated(recovery[i]) /\ Answered(i) /\ Shows(i)
          /\ lock' \in {lock, i, Free}
          /\ UNCHANGED <<results, attemptRows, agents, sessionVars, life>>
      BY <2>6 DEF CommitInspect, CommitContinue, CommitCancel, Operations
    <3>2. recovery[i].attempt \in 0..MaxAttempts
      BY <2>0 DEF RecoveryTyped, Recoveries
    <3>3. operated' \subseteq Operations \X (0..MaxAttempts)
      BY <2>0, <3>1, <3>2 DEF Operated
    <3>4. recovery' \in [Instances -> Recoveries]
      BY <2>0, <3>1 DEF Answered, RecoveryTyped
    <3>5. ScreensTyped'
      BY <2>0, <3>1, <3>3, <3>4, ShownTyped DEF ScreensTyped, RecoveryTyped
    <3>6. RunsTyped'
      BY <3>1 DEF RunsTyped
    <3> QED BY <1>0, <3>1, <3>5, <3>6
  <2> QED BY <1>5, <2>1, <2>2, <2>3, <2>4, <2>5, <2>6 DEF RecoveryStep
<1> QED BY <1>1, <1>2, <1>3, <1>4, <1>5 DEF TaskNext
-----------------------------------------------------------------------------
(* The invariant of the whole task.                                            *)

TaskSafe == /\ TypedSnapshot /\ ShapeInv
            /\ effects \in Seq(Effects)
            /\ Typed /\ RunsTyped /\ SessionTypeOK /\ ScreensTyped
            /\ TaskInv

LEMMA DriveKeepsInv ==
    ASSUME Typed, TaskInv, snapshot' \in Snapshots, NEW d \in drives, BackgroundStep(d),
           UNCHANGED recovery
    PROVE  Typed' /\ TaskInv'
<1>1. CASE DriveStep(d) /\ UNCHANGED sessionVars
  <2>0. SessionFrame /\ QuietFrame
    BY <1>1 DEF sessionVars, SessionFrame, QuietFrame
  <2>1. CASE AcquireProjectLock(d) \/ ReleaseProjectLock(d) \/ LockConflict(d) \/ ReleaseFails(d)
    BY <2>0, <2>1, LockEffects
  <2>2. CASE CreateAttemptBaseline(d) \/ WorkspaceEffect(d) \/ WorkspaceEffectFails(d) \/ EffectThrows(d)
    BY <2>0, <2>2, WorkEffectsDone
  <2>3. CASE RunEnvironmentCheck(d) \/ PersistReworkRequest(d)
    BY <2>0, <2>3, EffectDecides
  <2>4. CASE EnvironmentDecided(d)
    BY <2>0, <2>4, EnvironmentEvent
  <2>5. CASE ReworkDecided(d) \/ ApplyStageResult(d) \/ ApplyRunFailure(d) \/ ContinueSettled(d)
    BY <2>0, <2>5, ResultEvent
  <2>6. CASE BeginLaunch(d) \/ Spawn(d) \/ MarkActive(d) \/ BeginFormatRepair(d) \/ RecordStageResult(d)
    BY <2>0, <2>6, RunGoesOn
  <2>7. CASE LaunchRefused(d) \/ RunSettles(d)
    BY <2>0, <2>7, RunTurns
  <2>8. CASE ResultThrows(d) \/ EventRejected(d)
    BY <2>0, <2>8, RunEnds
  <2>9. CASE ContinueRefused(d)
    BY <2>0, <2>9, RefusalEnds
  <2> QED BY <1>1, <2>1, <2>2, <2>3, <2>4, <2>5, <2>6, <2>7, <2>8, <2>9, NoCleanup DEF DriveStep
<1>2. CASE RunBreaks(d) /\ givenUp' = TRUE /\ UNCHANGED <<session, hold, holds, waiting>>
  <2>1. QuietFrame /\ givenUp'
    BY <1>2 DEF QuietFrame
  <2> QED BY <1>2, <2>1, RunTurns
<1> QED BY <1>1, <1>2 DEF BackgroundStep

LEMMA TaskKeepsInv ==
    ASSUME Typed, TaskInv, RunsTyped, SessionTypeOK, ScreensTyped, snapshot' \in Snapshots,
           [TaskNext]_taskVars
    PROVE  Typed' /\ TaskInv'
<1>0. RecoveryTyped
  BY DEF ScreensTyped
<1>1. CASE UNCHANGED taskVars
  <2>1. /\ UNCHANGED <<snapshot, journal, attemptRows, lock, agents, drives>>
        /\ UNCHANGED <<hold, holds, waiting, givenUp, recovery>>
    BY <1>1 DEF taskVars, orchestratorVars, sessionVars, recoveryVars
  <2>2. holds' = 0 => holds = 0 /\ ~hold' /\ ~waiting'
    BY <2>1 DEF TaskInv, SingleInv
  <2>3. RecoveryInv'
    BY <2>1, <2>2, ReadingsKept
  <2> QED BY <2>1, <2>2, <2>3, StandsStill
<1>2. CASE (SessionCommand \/ ParkedContinue \/ CancelParked) /\ UNCHANGED recovery
  <2>1. CASE CreateTask \/ Approve
    BY <1>2, <2>1, CreationAndApproval
  <2>2. CASE HeldContinueResumes \/ ParkedContinue
    BY <1>2, <2>2, Continuation
  <2>3. CASE HeldContinueSettles
    BY <1>2, <2>3, Settlement
  <2>4. CASE HoldTask \/ PressContinue \/ HeldContinueRefused \/ CancelHeld \/ CancelParked
    BY <1>2, <2>4, SessionWaits
  <2> QED BY <1>2, <2>1, <2>2, <2>3, <2>4 DEF SessionCommand
<1>3. ASSUME NEW d \in drives, BackgroundStep(d), UNCHANGED recovery
      PROVE  Typed' /\ TaskInv'
  BY <1>3, DriveKeepsInv
<1>4. CASE AgentExits /\ UNCHANGED <<sessionVars, recoveryVars>>
  BY <1>4, AgentLeaves DEF recoveryVars
<1>5. ASSUME NEW i \in Instances, RecoveryStep(i)
      PROVE  Typed' /\ TaskInv'
  <2>1. CASE Crash(i) \/ Boot(i) \/ RecoveryBlocked(i) \/ \E op \in Operations : AlreadyApplied(i, op)
    BY <1>0, <2>1, ReadingSteps
  <2>2. ASSUME NEW op \in Operations, BeginRecovery(i, op)
        PROVE  Typed' /\ TaskInv'
    BY <1>0, <2>2, ReadingBegins
  <2>3. CASE CommitInspect(i)
    BY <1>0, <2>3, InspectionCommits
  <2>4. CASE CommitContinue(i)
    BY <1>0, <2>4, ContinueCommits
  <2>5. CASE CommitCancel(i)
    BY <1>0, <2>5, CancellationCommits
  <2> QED BY <1>5, <2>1, <2>2, <2>3, <2>4, <2>5 DEF RecoveryStep
<1> QED BY <1>1, <1>2, <1>3, <1>4, <1>5 DEF TaskNext

LEMMA TaskStarts == TaskInit => TaskSafe
<1> SUFFICES ASSUME TaskInit PROVE TaskSafe
  OBVIOUS
<1>1. TypedSnapshot /\ ShapeInv
  BY InitialSafety DEF TaskInit, OrchestratorInit
<1>2. /\ snapshot.state = "draft" /\ snapshot.pauseAfterAttempt = FALSE /\ effects = <<>>
      /\ journal = <<>> /\ drives = {} /\ agents = {} /\ lock = Free
      /\ results = [a \in Attempts |-> "none"] /\ attemptRows = [a \in Attempts |-> "none"]
      /\ SessionInit /\ offered = [i \in Instances |-> {}] /\ operated = {}
      /\ recovery = [i \in Instances |-> NoOperation]
      /\ life = [i \in Instances |-> IF i = Home THEN "up" ELSE "new"]
  BY DEF TaskInit, OrchestratorInit, EngineInit, InitialSnapshot
<1>3. effects \in Seq(Effects) /\ journal \in Journals /\ Len(journal) = 0
  BY <1>2 DEF Journals
<1>4. Typed
  BY <1>1, <1>2, <1>3 DEF Typed, TypedSnapshot
<1>5. RunsTyped
  BY <1>2 DEF RunsTyped, AttemptStatuses
<1>6. SessionTypeOK
  <2>1. holds \in 0..MaxHolds
    BY <1>2, SessionAssumption DEF SessionInit
  <2> QED BY <1>2, <2>1, Zenon DEF SessionInit, SessionTypeOK
<1>7. ScreensTyped
  <2>1. NoOperation \in Recoveries
    BY EngineAssumption DEF NoOperation, Recoveries
  <2> QED BY <1>2, <2>1 DEF ScreensTyped, RecoveryTyped
<1>8. TaskInv
  <2>1. JournalInv
    BY <1>2, <1>3 DEF JournalInv, EffectsAreCompletedInOrder
  <2>2. DrivesInv /\ AgentInv /\ SingleInv
    BY <1>2 DEF DrivesInv, AgentInv, SingleInv, SessionInit
  <2>3. TaskLockInv
    BY <1>2 DEF TaskLockInv
  <2>4. RecoveryInv
    <3>1. \A i \in Instances : recovery[i].version = 0 /\ recovery[i].op = "none"
      BY <1>2 DEF NoOperation
    <3> QED BY <1>3, <3>1 DEF RecoveryInv
  <2> QED BY <2>1, <2>2, <2>3, <2>4 DEF TaskInv
<1> QED BY <1>1, <1>3, <1>4, <1>5, <1>6, <1>7, <1>8 DEF TaskSafe

LEMMA TaskStaysSafe == TaskSafe /\ [TaskNext]_taskVars => TaskSafe'
<1> SUFFICES ASSUME TaskSafe, [TaskNext]_taskVars PROVE TaskSafe'
  OBVIOUS
<1>1. [EngineNext]_engineVars
  BY TaskReduces DEF TaskSafe, TypedSnapshot
<1>2. (TypedSnapshot /\ ShapeInv)'
  BY <1>1, StepSafety DEF TaskSafe
<1>3. effects' \in Seq(Effects)
  BY <1>1, EffectsTyped DEF TaskSafe, TypedSnapshot
<1>4. Typed' /\ TaskInv'
  BY <1>2, TaskKeepsInv DEF TaskSafe, TypedSnapshot
<1>5. RunsTyped' /\ SessionTypeOK' /\ ScreensTyped'
  BY RestTyping DEF TaskSafe
<1> QED BY <1>2, <1>3, <1>4, <1>5 DEF TaskSafe

\* The inductive invariant: the snapshot is sound, every drive stands where its batch of
\* effects says, and the lock, the agents and the pending recoveries agree with both.
THEOREM TaskSafety == TaskSpec => []TaskSafe
BY TaskStarts, TaskStaysSafe, PTL DEF TaskSpec

\* Every variable of the task, its session and its recovery keeps its type.
THEOREM TaskTyping == TaskSpec => []TaskTypeOK
<1>1. TaskSafe => TaskTypeOK
  BY DEF TaskSafe, TaskTypeOK, OrchestratorTypeOK, TypedSnapshot, Typed, Journals, RunsTyped,
     AttemptStatuses, ScreensTyped, RecoveryTyped
<1> QED BY <1>1, TaskSafety, PTL

\* An effect of a transition is not touched before those listed ahead of it are
\* completed, however many drives execute effects and whichever of them die.
THEOREM EffectOrder == TaskSpec => []EffectsAreCompletedInOrder
<1>1. TaskSafe => EffectsAreCompletedInOrder
  BY DEF TaskSafe, TaskInv, JournalInv
<1> QED BY <1>1, TaskSafety, PTL

\* As long as no run has been given up with its process possibly alive, at most one
\* agent works on the project, for any number of instances, attempts and repairs.
THEOREM OneAgent == TaskSpec => []OneAgentUnlessGivenUp
<1>1. TaskSafe => OneAgentUnlessGivenUp
  <2> SUFFICES ASSUME TaskSafe, ~givenUp PROVE Cardinality(agents) <= 1
    BY DEF OneAgentUnlessGivenUp
  <2>1. \A a, b \in agents : a = b
    BY DEF TaskSafe, TaskInv, AgentInv
  <2>2. CASE agents = {}
    BY <2>2, FS_EmptySet
  <2>3. ASSUME NEW a \in agents PROVE Cardinality(agents) <= 1
    <3>1. agents = {a}
      BY <2>1
    <3> QED BY <3>1, FS_Singleton
  <2> QED BY <2>2, <2>3
<1> QED BY <1>1, TaskSafety, PTL

\* The task works, or keeps work for its user, only under the project lock, and no
\* agent outlives the lock unless its run was given up.
THEOREM LockCoversWork == TaskSpec => []WorkIsDoneUnderALock
<1>1. TaskSafe => WorkIsDoneUnderALock
  <2> SUFFICES ASSUME TaskSafe, lock = Free
               PROVE  /\ \/ snapshot.state \in {"draft", "checking_environment"} \cup TerminalStates
                         \/ /\ snapshot.state = "awaiting_user"
                            /\ "retry_environment" \in snapshot.awaitingActions
                      /\ agents = {} \/ givenUp
    BY DEF WorkIsDoneUnderALock
  <2>1. snapshot.state \in {"draft", "checking_environment"} \/ Over(snapshot)
    BY DEF TaskSafe, TaskInv, TaskLockInv
  <2>2. ~IsExecuting(snapshot)
    BY <2>1 DEF Over, TerminalStates, IsExecuting, SafeExecutionStates
  <2>3. agents = {} \/ givenUp
    BY <2>2 DEF TaskSafe, TaskInv, AgentInv
  <2> QED BY <2>1, <2>3 DEF Over
<1> QED BY <1>1, TaskSafety, PTL

\* A lock that outlives its task has a release that is still to come or failed.
THEOREM TerminalLock == TaskSpec => []TerminalLockIsAccountedFor
<1>1. TaskSafe => TerminalLockIsAccountedFor
  <2> SUFFICES ASSUME TaskSafe, IsTerminal(snapshot), lock # Free
               PROVE  \E k \in 1..Len(Last) : /\ Last[k].effect.type = "ReleaseProjectLock"
                                              /\ Last[k].status \in {"intent", "failed"}
    BY DEF TerminalLockIsAccountedFor, Last
  <2>1. Fits(snapshot, Last) /\ snapshot.state # "draft"
    BY DEF TaskSafe, TaskInv, JournalInv, IsTerminal, TerminalStates
  <2>2. snapshot.state = "completed"
    BY <2>1 DEF TaskSafe, TaskInv, TaskLockInv, Fits, ReachedStates, SafeExecutionStates,
       IsTerminal, TerminalStates
  <2>3. Len(Last) = 2 /\ Last[2].effect.type = "ReleaseProjectLock"
    BY <2>1, <2>2 DEF Fits
  <2>4. Last[2].status \notin {"refused", "completed"}
    BY <2>2 DEF TaskSafe, TaskInv, TaskLockInv
  <2>5. Last[2] \in Rows
    BY <2>1, <2>3, LastFacts DEF TaskSafe, TaskInv, Typed
  <2>6. 2 \in 1..Len(Last)
    BY <2>3
  <2> QED BY <2>3, <2>4, <2>5, <2>6 DEF Rows
<1> QED BY <1>1, TaskSafety, PTL
-----------------------------------------------------------------------------
(* What a step of the task may never do.                                       *)

\* An attempt is active only while its stage executes.
LEMMA ActiveExecutes ==
    ASSUME TaskSafe, snapshot.active.attempt # 0
    PROVE  snapshot.state \in SafeExecutionStates /\ snapshot.active.attempt \in Attempts
<1>1. snapshot \in Snapshots /\ IdentityOk(snapshot)
  BY DEF TaskSafe, TypedSnapshot, ShapeInv, InvalidOnlyWhenStoppingAPausingRun, ValidSnapshot,
     ShapeOk
<1>2. snapshot.state \in ReachedStates \cup {"draft"}
  BY DEF TaskSafe, TaskInv, JournalInv, Fits
<1>3. IsExecuting(snapshot)
  BY <1>1, <1>2 DEF IdentityOk, ReachedStates, CleanupStates, SafeExecutionStates, IsExecuting
<1>4. snapshot.active.attempt \in 0..MaxAttempts
  BY <1>1 DEF Snapshots, Identities
<1> QED BY <1>3, <1>4, EngineAssumption DEF IsExecuting, Attempts

OwnOutcome == LET a == snapshot.active.attempt
              IN  a # 0 /\ snapshot'.active.attempt # a =>
                    \/ results'[a] = "consumed"
                    \/ StartHas(a, "failed") \/ StartHas(a, "refused")
                    \/ waiting /\ ~waiting'

LEMMA DriveOwnsOutcome ==
    ASSUME TaskSafe, NEW d \in drives, DriveStep(d) \/ RunBreaks(d),
           snapshot.active.attempt # 0, snapshot'.active.attempt # snapshot.active.attempt
    PROVE  OwnOutcome
<1> DEFINE a == snapshot.active.attempt
<1>1. snapshot.state \in SafeExecutionStates /\ a \in Attempts
  BY ActiveExecutes
<1>2. Typed /\ TaskInv /\ RunsTyped
  BY DEF TaskSafe
<1>3. CASE ApplyStageResult(d)
  <2>1. Stage(d) = a
    <3>1. \/ VerdictStep(Stage(d))
          \/ ImplementationFailed(Stage(d)) \/ StageFailed(Stage(d))
      BY <1>3 DEF ApplyStageResult, FailureEvent
    <3>2. VerdictStep(Stage(d)) => Stage(d) = a
      BY Zenon DEF VerdictStep, PlanReadyForApproval, ReviewReworkRequested, MasterApproved,
         MasterRejectedAtLimit, MasterRejected, PlanReady, ImplementationCompleted, ReviewCompleted,
         AcceptsResult
    <3> QED BY <3>1, <3>2 DEF ImplementationFailed, StageFailed, AcceptsResult
  <2>2. results'[a] = "consumed"
    BY <1>1, <1>2, <1>3, <2>1 DEF ApplyStageResult, RunsTyped
  <2> QED BY <2>2 DEF OwnOutcome
<1>4. CASE ApplyRunFailure(d)
  <2>1. /\ Stage(d) = a /\ d.phase = "failed" /\ d.phase # "resume"
    BY <1>4 DEF ApplyRunFailure, FailureEvent, ImplementationFailed, StageFailed, AcceptsResult
  <2>2. /\ Row(d).effect.type \in StageStarts /\ Row(d).status \in {"failed", "refused"}
        /\ d.batch \in 1..Len(journal) /\ d.at \in 1..Len(journal[d.batch])
    BY <1>2, <2>1, DriveFacts DEF Doing, RunPhases
  <2>3. StartHas(a, Row(d).status)
    BY <2>1, <2>2 DEF StartHas, Row, Stage
  <2> QED BY <2>2, <2>3 DEF OwnOutcome
<1>5. snapshot' = snapshot \/ ApplyStageResult(d) \/ ApplyRunFailure(d)
  <2>1. CASE EnvironmentDecided(d) \/ ReworkDecided(d) \/ ContinueSettled(d)
    <3>1. snapshot.state \in {"checking_environment", "rework_requested", "awaiting_user",
                              "interrupted_needs_inspection"}
      BY <2>1 DEF EnvironmentDecided, EnvironmentFailed, EnvironmentReady, ReworkDecided,
         ReworkContextPersisted, ContinueSettled, AwaitingUserContinue, InspectionContinue, MayAwait,
         Accepts
    <3> QED BY <1>1, <3>1 DEF SafeExecutionStates
  <2>2. CASE \/ AcquireProjectLock(d) \/ ReleaseProjectLock(d) \/ LockConflict(d) \/ ReleaseFails(d)
             \/ CreateAttemptBaseline(d) \/ WorkspaceEffect(d) \/ WorkspaceEffectFails(d)
             \/ EffectThrows(d) \/ RunEnvironmentCheck(d) \/ PersistReworkRequest(d)
    BY <2>2 DEF AcquireProjectLock, ReleaseProjectLock, LockConflict, ReleaseFails,
       CreateAttemptBaseline, WorkspaceEffect, WorkspaceEffectFails, EffectThrows,
       RunEnvironmentCheck, PersistReworkRequest, KeepEngine
  <2>3. CASE \/ BeginLaunch(d) \/ Spawn(d) \/ MarkActive(d) \/ RecordStageResult(d)
             \/ LaunchRefused(d) \/ RunBreaks(d) \/ RunSettles(d) \/ ResultThrows(d)
             \/ EventRejected(d) \/ ContinueRefused(d)
    BY <2>3
       DEF BeginLaunch, Spawn, MarkActive, RecordStageResult, LaunchRefused, RunBreaks,
           RunSettles,
       ResultThrows, EventRejected, ContinueRefused, KeepEngine
  <2>4. CASE BeginFormatRepair(d)
    BY <2>4 DEF BeginFormatRepair, SpareIdentity, Becomes
  <2> QED BY <1>2, <2>1, <2>2, <2>3, <2>4, NoCleanup DEF DriveStep
<1> QED BY <1>3, <1>4, <1>5

LEMMA StepOwnsOutcome ==
    ASSUME TaskSafe, [TaskNext]_taskVars
    PROVE  OwnOutcome
<1> SUFFICES ASSUME snapshot.active.attempt # 0, snapshot'.active.attempt # snapshot.active.attempt
             PROVE  OwnOutcome
  BY DEF OwnOutcome
<1>1. snapshot.state \in SafeExecutionStates
  BY ActiveExecutes
<1>2. \A st : Accepts(st) => st \in SafeExecutionStates
  BY <1>1 DEF Accepts
<1>3. ~UNCHANGED snapshot
  OBVIOUS
<1>4. ~UNCHANGED taskVars
  BY <1>3 DEF taskVars, orchestratorVars
<1>5. ASSUME SessionCommand \/ ParkedContinue \/ CancelParked PROVE OwnOutcome
  <2>1. ~CreateTask /\ ~Approve /\ ~HeldContinueResumes /\ ~ParkedContinue
    BY <1>2
       DEF CreateTask, StartTask, Start, Approve, ApprovePlan, PlanApproved,
           HeldContinueResumes,
       ParkedContinue, ContinueParked, AwaitingUserContinue, InspectionContinue, MayAwait,
       SafeExecutionStates
  <2>2. ~HoldTask /\ ~PressContinue /\ ~HeldContinueRefused /\ ~CancelHeld /\ ~CancelParked
    BY <1>3
       DEF HoldTask, PressContinue, HeldContinueRefused, CancelHeld, CancelParked,
           DisposeRuntime,
       KeepTask, KeepEngine
  <2>3. HeldContinueSettles => waiting /\ ~waiting'
    BY DEF HeldContinueSettles
  <2> QED BY <1>5, <2>1, <2>2, <2>3 DEF SessionCommand, OwnOutcome
<1>6. ASSUME NEW d \in drives, BackgroundStep(d) PROVE OwnOutcome
  BY <1>6, DriveOwnsOutcome DEF BackgroundStep
<1>7. ~AgentExits
  BY <1>3 DEF AgentExits, KeepEngine
<1>8. ASSUME NEW i \in Instances PROVE ~RecoveryStep(i)
  <2>1. ~CommitInspect(i) /\ ~CommitContinue(i) /\ ~CommitCancel(i)
    BY <1>2
       DEF CommitInspect, InspectionView, CommitContinue, AwaitingUserContinue, CommitCancel,
       InspectionCancel, AwaitingUserCancel, MayAwait, SafeExecutionStates
  <2>2. ~Crash(i) /\ ~Boot(i) /\ ~RecoveryBlocked(i)
    BY <1>3 DEF Crash, Boot, RecoveryBlocked, KeepEngine, orchestratorVars
  <2>3. \A op : ~BeginRecovery(i, op) /\ ~AlreadyApplied(i, op)
    BY <1>3 DEF BeginRecovery, AlreadyApplied, orchestratorVars
  <2> QED BY <2>1, <2>2, <2>3 DEF RecoveryStep
<1> QED BY <1>4, <1>5, <1>6, <1>7, <1>8 DEF TaskNext

\* The active attempt is left only by its own result, by the failure of its own run,
\* or by the user's continue, never by the late answer of a run it has replaced.
THEOREM OwnOutcomes == TaskSpec => OnlyItsOwnOutcomeEndsAnAttempt
<1>1. TaskSafe /\ [TaskNext]_taskVars => [OwnOutcome]_taskVars
  BY StepOwnsOutcome
<1> QED BY <1>1, TaskSafety, PTL DEF TaskSpec, OnlyItsOwnOutcomeEndsAnAttempt, OwnOutcome

SafeTakeover ==
    (holds = 0 \/ ~givenUp) /\ lock # Free /\ lock' \notin {lock, Free} =>
        LatestAttempt \notin agents

LEMMA StepTakesOverSafely ==
    ASSUME TaskSafe, [TaskNext]_taskVars
    PROVE  SafeTakeover
<1> SUFFICES ASSUME holds = 0 \/ ~givenUp, lock # Free, lock' \notin {lock, Free}
             PROVE  LatestAttempt \notin agents
  BY DEF SafeTakeover
<1>1. ~UNCHANGED taskVars /\ ~AgentExits
  BY DEF taskVars, orchestratorVars, AgentExits
<1>2. ~SessionCommand /\ ~ParkedContinue /\ ~CancelParked
  BY DEF SessionCommand, CreateTask, Approve, HeldContinueSettles, HeldContinueResumes,
     ParkedContinue,
     StartTask, ApprovePlan, SettleHeldStage, ContinueParked, KeepRuns, HoldTask, PressContinue,
     HeldContinueRefused, CancelHeld, CancelParked, DisposeRuntime, KeepTask
<1>3. ASSUME NEW d \in drives PROVE ~BackgroundStep(d)
  <2>1. ~AcquireProjectLock(d) /\ ~ReleaseProjectLock(d)
    BY DEF AcquireProjectLock, ReleaseProjectLock
  <2>2. /\ ~LockConflict(d) /\ ~ReleaseFails(d) /\ ~CreateAttemptBaseline(d) /\ ~WorkspaceEffect(d)
        /\ ~WorkspaceEffectFails(d) /\ ~EffectThrows(d) /\ ~RunEnvironmentCheck(d)
        /\ ~PersistReworkRequest(d) /\ ~EnvironmentDecided(d) /\ ~ReworkDecided(d)
    BY DEF LockConflict, ReleaseFails, CreateAttemptBaseline, WorkspaceEffect,
       WorkspaceEffectFails,
       EffectThrows, RunEnvironmentCheck, PersistReworkRequest, EnvironmentDecided, ReworkDecided
  <2>3. /\ ~BeginLaunch(d) /\ ~Spawn(d) /\ ~MarkActive(d) /\ ~RecordStageResult(d)
        /\ ~LaunchRefused(d) /\ ~RunBreaks(d) /\ ~RunSettles(d) /\ ~ResultThrows(d)
        /\ ~EventRejected(d) /\ ~ContinueRefused(d) /\ ~BeginFormatRepair(d)
        /\ ~ApplyStageResult(d) /\ ~ApplyRunFailure(d) /\ ~ContinueSettled(d)
    BY DEF BeginLaunch, Spawn, MarkActive, RecordStageResult, LaunchRefused, RunBreaks,
       RunSettles,
       ResultThrows, EventRejected, ContinueRefused, BeginFormatRepair, ApplyStageResult,
       ApplyRunFailure, ContinueSettled, KeepRuns
  <2>4. ~ProcessCleanup(d) /\ ~CleanupDecided(d)
    BY DEF ProcessCleanup, CleanupDecided
  <2> QED BY <2>1, <2>2, <2>3, <2>4 DEF BackgroundStep, DriveStep
<1>4. ASSUME NEW i \in Instances, RecoveryStep(i) PROVE CommitContinue(i)
  <2>1. ~Crash(i) /\ ~Boot(i) /\ ~RecoveryBlocked(i) /\ ~CommitInspect(i) /\ ~CommitCancel(i)
    BY DEF Crash, Boot, RecoveryBlocked, CommitInspect, CommitCancel, orchestratorVars
  <2>2. \A op : ~BeginRecovery(i, op) /\ ~AlreadyApplied(i, op)
    BY DEF BeginRecovery, AlreadyApplied, orchestratorVars
  <2> QED BY <1>4, <2>1, <2>2 DEF RecoveryStep
<1>5. PICK i \in Instances : CommitContinue(i)
  BY <1>1, <1>2, <1>3, <1>4 DEF TaskNext
<1>6. recovery[i].attempt = LatestAttempt
  BY <1>5 DEF CommitContinue, TaskSafe, TaskInv, RecoveryInv
<1>7. recovery[i].attempt # 0 => recovery[i].attempt \notin agents
  BY <1>5 DEF CommitContinue, ExitProven
<1>8. 0 \notin agents
  BY DEF TaskSafe, RunsTyped, Attempts
<1> QED BY <1>6, <1>7, <1>8

\* #processExitBlock, assertWorkflowVersion: a recovery takes the lock over only when the
\* latest run has ended, as its probe has found, for any number of instances that recover,
\* crash or run the task at the same time.
THEOREM SafeTakeovers == TaskSpec => TakeoverWaitsForLatestRun
<1>1. TaskSafe /\ [TaskNext]_taskVars => [SafeTakeover]_taskVars
  BY StepTakesOverSafely
<1> QED BY <1>1, TaskSafety, PTL DEF TaskSpec, TakeoverWaitsForLatestRun, SafeTakeover
=============================================================================
