---------------------------- MODULE LedgerProofs ----------------------------
(* What the reducer asks of its caller over the whole life of a task: the      *)
(* project lock, the launch of each attempt and the candidate's two steps, for *)
(* every rework limit and bound.                                               *)
EXTENDS WorkflowLedger, EngineProofs

-----------------------------------------------------------------------------
(* What each list of effects says to the ledger.                               *)

LedgeredTypes == {"AcquireProjectLock", "ReleaseProjectLock", "StartImplementation",
                  "FinalizeCandidateChangeSet", "PromoteCandidateWorkspace"}

\* fx is well typed, starts exactly the given attempts and, of the effects the
\* ledger records, asks for exactly the given types.
Says(fx, types, starts) ==
    /\ fx \in Seq(Effects)
    /\ \A type \in LedgeredTypes : Asks(fx, type) <=> type \in types
    /\ StartedBy(fx) = starts

LEMMA PlainEffects ==
    /\ Says(<<>>, {}, {})
    /\ Says(ReleaseLock, {"ReleaseProjectLock"}, {})
    /\ Says(AcquireAndCheck, {"AcquireProjectLock"}, {})
    /\ Says(PersistRework, {}, {})
    /\ \A a \in 0..MaxAttempts : Says(<<Effect("BeginProcessCleanup", a)>>, {}, {})
BY EngineAssumption DEF Says, LedgeredTypes, Asks, StartedBy, StageStarts, Effects, EffectTypes,
   Effect, ReleaseLock, AcquireAndCheck, PersistRework

ImplementationAsked(st) == IF st = "implementing" THEN {"StartImplementation"} ELSE {}

LEMMA LaunchEffects ==
    ASSUME NEW st \in SafeExecutionStates, NEW a \in Attempts
    PROVE  Says(EffectsForNewAttempt(st, a), ImplementationAsked(st), {a})
<1> USE EngineAssumption DEF Says, LedgeredTypes, Asks, StartedBy, StageStarts, Effects, EffectTypes,
        Effect, EffectsForNewAttempt, EffectsForExecutionState, ImplementationAsked, Attempts
<1>1. CASE st = "planning"
  BY <1>1
<1>2. CASE st = "implementing"
  BY <1>2
<1>3. CASE st = "reviewing"
  BY <1>3
<1>4. CASE st = "master_validation"
  BY <1>4
<1> QED BY <1>1, <1>2, <1>3, <1>4 DEF SafeExecutionStates

LEMMA CompletionEffects ==
    ASSUME NEW done \in Attempts
    PROVE  Says(<<Effect("PromoteCandidateWorkspace", done)>> \o ReleaseLock,
                {"PromoteCandidateWorkspace", "ReleaseProjectLock"}, {})
BY EngineAssumption DEF Says, LedgeredTypes, Asks, StartedBy, StageStarts, Effects, EffectTypes,
   Effect, ReleaseLock, Attempts

LEMMA ReviewEffects ==
    ASSUME NEW done \in Attempts, NEW a \in Attempts
    PROVE  Says(<<Effect("FinalizeCandidateChangeSet", done)>> \o EffectsForNewAttempt("reviewing", a),
                {"FinalizeCandidateChangeSet"}, {a})
BY EngineAssumption DEF Says, LedgeredTypes, Asks, StartedBy, StageStarts, Effects, EffectTypes,
   Effect, EffectsForNewAttempt, EffectsForExecutionState, Attempts

\* What the ledger becomes when the accepted event asks for these types and starts
\* these attempts.
Logged(types, starts) ==
    /\ effects' \in Seq(Effects)
    /\ StartedBy(effects') = starts
    /\ ledger \in Ledgers => ledger' \in Ledgers
    /\ ledger'.lock <=> \/ "AcquireProjectLock" \in types
                        \/ ledger.lock /\ "ReleaseProjectLock" \notin types
    /\ ledger'.started = ledger.started \cup starts
    /\ ledger'.unfrozen <=> \/ "StartImplementation" \in types
                            \/ ledger.unfrozen /\ "FinalizeCandidateChangeSet" \notin types
    /\ ledger'.promoted <=> ledger.promoted \/ "PromoteCandidateWorkspace" \in types
    /\ ledger'.parked <=> ledger.parked \/ snapshot'.state = "paused_after_run"

LEMMA Recording ==
    ASSUME LedgerNext, NEW types, NEW starts, Says(effects', types, starts)
    PROVE  Logged(types, starts)
<1>1. ledger' = Recorded(effects', snapshot')
  BY DEF LedgerNext
<1>2. StartedBy(effects') \subseteq Attempts
  BY DEF StartedBy
<1> QED BY <1>1, <1>2, Zenon DEF Recorded, Logged, Says, LedgeredTypes, Ledgers

-----------------------------------------------------------------------------
(* The inductive invariant.                                                    *)

\* Only a task that waits for a new environment check has let go of its lock, and
\* it is not offered to continue the run meanwhile.
LockDemandInv == LockDemandFollowsState /\ ("retry_environment" \in snapshot.awaitingActions
                                          => /\ snapshot.state = "awaiting_user"
                                             /\ "continue" \notin snapshot.awaitingActions)

\* Identities are numbered in the order they are handed out; the one parked behind
\* a pause has been handed out and not been started.
StartInv == /\ \A a \in ledger.started : a <= minted
            /\ snapshot.pendingResume.attempt <= minted
            /\ snapshot.pendingResume.attempt \notin ledger.started

\* The stage an interrupted or failed run will be continued at counts as its state.
CandidateInv ==
    /\ OnlyAPauseSkipsCandidateSteps
    /\ snapshot.state = "paused_after_run" => ledger.parked
    /\ ~ledger.parked /\ snapshot.resumeTarget \in {"reviewing", "master_validation"}
          => ~ledger.unfrozen

LedgerInv == LockDemandInv /\ StartInv /\ CandidateInv

TypedLedger == effects \in Seq(Effects) /\ ledger \in Ledgers

LEMMA LedgerStep ==
    ASSUME TypedSnapshot, ShapeInv, TypedLedger, LedgerInv, LedgerNext
    PROVE  /\ TypedLedger' /\ LedgerInv'
           /\ StartedBy(effects') \cap ledger.started = {}
<1> DEFINE Kept == /\ TypedLedger' /\ LedgerInv'
                   /\ StartedBy(effects') \cap ledger.started = {}
<1> USE EngineAssumption DEF TypedSnapshot, Snapshots, Identities, NoIdentity, ShapeInv,
        InvalidOnlyWhenStoppingAPausingRun, StopRemembersItsTarget, ValidSnapshot, ShapeOk,
        IdentityOk, PausedOk, AwaitingOk, IsExecuting, IsTerminal, SafeExecutionStates,
        CleanupStates, TerminalStates, Accepts, AcceptsResult, LedgerInv, LockDemandInv,
        LockDemandFollowsState, StartInv, CandidateInv, OnlyAPauseSkipsCandidateSteps,
        ImplementationAsked, Becomes, KeepMinted, Attempts, TypedLedger, Ledgers
<1>1. CASE Start
  <2>1. Says(effects', {"AcquireProjectLock"}, {})
    BY <1>1, PlainEffects DEF Start
  <2>2. Logged({"AcquireProjectLock"}, {})
    BY <2>1, Recording
  <2> QED BY <1>1, <2>2 DEF Start, Moved, Logged
<1>2. CASE EnvironmentFailed
  <2>1. Says(effects', {"ReleaseProjectLock"}, {})
    BY <1>2, PlainEffects DEF EnvironmentFailed
  <2>2. Logged({"ReleaseProjectLock"}, {})
    BY <2>1, Recording
  <2> QED BY <1>2, <2>2 DEF EnvironmentFailed, WaitingForUser, Settled, Moved, Logged
<1>3. CASE AwaitingUserRetryEnvironment
  <2>1. Says(effects', {"AcquireProjectLock"}, {})
    BY <1>3, PlainEffects DEF AwaitingUserRetryEnvironment
  <2>2. Logged({"AcquireProjectLock"}, {})
    BY <2>1, Recording
  <2> QED BY <1>3, <2>2 DEF AwaitingUserRetryEnvironment, MayAwait, Moved, Logged
<1>4. ASSUME NEW a \in Attempts, EnvironmentReady(a) PROVE Kept
  <2>1. Says(effects', {}, {a})
    BY <1>4, LaunchEffects DEF EnvironmentReady, Launch
  <2>2. Logged({}, {a})
    BY <2>1, Recording
  <2> QED BY <1>4, <2>2
             DEF EnvironmentReady, Launch, Mint, Executing, IdentityFor, Moved, Logged
<1>5. ASSUME NEW a \in Attempts, PlanApproved(a) PROVE Kept
  <2>1. Says(effects', {"StartImplementation"}, {a})
    BY <1>5, LaunchEffects DEF PlanApproved, Launch
  <2>2. Logged({"StartImplementation"}, {a})
    BY <2>1, Recording
  <2> QED BY <1>5, <2>2 DEF PlanApproved, Launch, Mint, Executing, IdentityFor, Moved, Logged
<1>6. ASSUME NEW a \in Attempts, PlanRevisionRequested(a) PROVE Kept
  <2>1. Says(effects', {}, {a})
    BY <1>6, LaunchEffects DEF PlanRevisionRequested
  <2>2. Logged({}, {a})
    BY <2>1, Recording
  <2> QED BY <1>6, <2>2 DEF PlanRevisionRequested, Mint, Executing, IdentityFor, Moved, Logged
<1>7. ASSUME NEW a \in Attempts, ReworkContextPersisted(a) PROVE Kept
  <2>1. Says(effects', {"StartImplementation"}, {a})
    BY <1>7, LaunchEffects DEF ReworkContextPersisted
  <2>2. Logged({"StartImplementation"}, {a})
    BY <2>1, Recording
  <2> QED BY <1>7, <2>2 DEF ReworkContextPersisted, Mint, Executing, IdentityFor, Moved, Logged
<1>8. ASSUME NEW a \in Attempts, InspectionContinue(a) PROVE Kept
  <2>1. Says(effects', ImplementationAsked(snapshot.resumeTarget), {a})
    BY <1>8, LaunchEffects DEF InspectionContinue, Launch
  <2>2. Logged(ImplementationAsked(snapshot.resumeTarget), {a})
    BY <2>1, Recording
  <2> QED BY <1>8, <2>2
             DEF InspectionContinue, Launch, Mint, Executing, IdentityFor, Moved, Logged
<1>9. ASSUME NEW a \in Attempts, AwaitingUserContinue(a) PROVE Kept
  <2>1. Says(effects', ImplementationAsked(snapshot.resumeTarget), {a})
    BY <1>9, LaunchEffects DEF AwaitingUserContinue, MayAwait, Launch
  <2>2. Logged(ImplementationAsked(snapshot.resumeTarget), {a})
    BY <2>1, Recording
  <2> QED BY <1>9, <2>2
             DEF AwaitingUserContinue, MayAwait, Launch, Mint, Executing, IdentityFor, Moved,
                 Logged
<1>10. ASSUME NEW a \in Attempts, PlanReadyForApproval(a) PROVE Kept
  <2>1. Says(effects', {}, {})
    BY <1>10, PlainEffects DEF PlanReadyForApproval
  <2>2. Logged({}, {})
    BY <2>1, Recording
  <2> QED BY <1>10, <2>2 DEF PlanReadyForApproval, PausedAfterRun, Settled, Moved, Logged
<1>11. ASSUME NEW a \in Attempts, ImplementationFailed(a) PROVE Kept
  <2>1. Says(effects', {}, {})
    BY <1>11, PlainEffects DEF ImplementationFailed
  <2>2. Logged({}, {})
    BY <2>1, Recording
  <2> QED BY <1>11, <2>2 DEF ImplementationFailed, Settled, Moved, Logged
<1>12. ASSUME NEW a \in Attempts, ReviewReworkRequested(a) PROVE Kept
  <2>1. CASE ReworkLimitReached
    <3>1. snapshot' = WaitingForUser({"cancel"}, "none") /\ Says(effects', {}, {})
      BY <1>12, <2>1, PlainEffects DEF ReviewReworkRequested
    <3>2. Logged({}, {})
      BY <3>1, Recording
    <3> QED BY <1>12, <2>1, <3>1, <3>2
               DEF ReviewReworkRequested, WaitingForUser, Settled, Moved, Logged
  <2>2. CASE ~ReworkLimitReached
    <3>1. /\ snapshot' = [Settled("rework_requested") EXCEPT !.rework = "pending"]
          /\ Says(effects', {}, {})
      BY <1>12, <2>2, PlainEffects DEF ReviewReworkRequested
    <3>2. Logged({}, {})
      BY <3>1, Recording
    <3> QED BY <1>12, <2>2, <3>1, <3>2 DEF ReviewReworkRequested, Settled, Moved, Logged
  <2> QED BY <2>1, <2>2
<1>13. ASSUME NEW a \in Attempts, MasterApproved(a) PROVE Kept
  <2>1. CASE snapshot.pauseAfterAttempt
    <3>1. snapshot' = PausedAfterRun("completed") /\ Says(effects', {}, {})
      BY <1>13, <2>1, PlainEffects DEF MasterApproved
    <3>2. Logged({}, {})
      BY <3>1, Recording
    <3> QED BY <1>13, <2>1, <3>1, <3>2
               DEF MasterApproved, PausedAfterRun, Settled, Mint, IdentityFor, Moved, Logged
  <2>2. CASE ~snapshot.pauseAfterAttempt
    <3> DEFINE fx == <<Effect("PromoteCandidateWorkspace", a)>> \o ReleaseLock
    <3>1. /\ snapshot' = Settled("completed") /\ effects' = fx
          /\ snapshot.state = "master_validation" /\ minted' = minted
      BY <1>13, <2>2 DEF MasterApproved
    <3>2. Says(fx, {"PromoteCandidateWorkspace", "ReleaseProjectLock"}, {})
      BY CompletionEffects
    <3> HIDE DEF fx
    <3>3. Logged({"PromoteCandidateWorkspace", "ReleaseProjectLock"}, {})
      BY <3>1, <3>2, Recording
    <3> QED BY <3>1, <3>3 DEF Settled, Moved, Logged
  <2> QED BY <2>1, <2>2
<1>14. ASSUME NEW a \in Attempts, MasterRejectedAtLimit(a) PROVE Kept
  <2>1. CASE snapshot.pauseAfterAttempt
    <3>1. /\ snapshot' = [PausedAfterRun("awaiting_user") EXCEPT !.awaitingActions = {"cancel"}]
          /\ Says(effects', {}, {})
      BY <1>14, <2>1, PlainEffects DEF MasterRejectedAtLimit
    <3>2. Logged({}, {})
      BY <3>1, Recording
    <3> QED BY <1>14, <2>1, <3>1, <3>2
               DEF MasterRejectedAtLimit, PausedAfterRun, Settled, Moved, Logged
  <2>2. CASE ~snapshot.pauseAfterAttempt
    <3>1. snapshot' = WaitingForUser({"cancel"}, "none") /\ Says(effects', {}, {})
      BY <1>14, <2>2, PlainEffects DEF MasterRejectedAtLimit
    <3>2. Logged({}, {})
      BY <3>1, Recording
    <3> QED BY <1>14, <2>2, <3>1, <3>2
               DEF MasterRejectedAtLimit, WaitingForUser, Settled, Moved, Logged
  <2> QED BY <2>1, <2>2
<1>15. ASSUME NEW a \in Attempts, MasterRejected(a) PROVE Kept
  <2>1. CASE snapshot.pauseAfterAttempt
    <3>1. /\ snapshot' = [PausedAfterRun("rework_requested") EXCEPT !.rework = "deferred"]
          /\ Says(effects', {}, {})
      BY <1>15, <2>1, PlainEffects DEF MasterRejected
    <3>2. Logged({}, {})
      BY <3>1, Recording
    <3> QED BY <1>15, <2>1, <3>1, <3>2
               DEF MasterRejected, PausedAfterRun, Settled, Moved, Logged
  <2>2. CASE ~snapshot.pauseAfterAttempt
    <3>1. /\ snapshot' = [Settled("rework_requested") EXCEPT !.rework = "pending"]
          /\ Says(effects', {}, {})
      BY <1>15, <2>2, PlainEffects DEF MasterRejected
    <3>2. Logged({}, {})
      BY <3>1, Recording
    <3> QED BY <1>15, <2>2, <3>1, <3>2 DEF MasterRejected, Settled, Moved, Logged
  <2> QED BY <2>1, <2>2
<1>16. ASSUME NEW a \in Attempts, StageFailed(a) PROVE Kept
  <2>1. Says(effects', {}, {})
    BY <1>16, PlainEffects DEF StageFailed
  <2>2. Logged({}, {})
    BY <2>1, Recording
  <2> QED BY <1>16, <2>2 DEF StageFailed, WaitingForUser, Settled, Moved, Logged
<1>17. ASSUME NEW a \in Attempts, NEW next \in Attempts, PlanReady(a, next) PROVE Kept
  <2>1. CASE snapshot.pauseAfterAttempt
    <3>1. /\ snapshot' = [PausedAfterRun("implementing") EXCEPT !.pendingResume = IdentityFor("implementing", next)]
          /\ Says(effects', {}, {})
      BY <1>17, <2>1, PlainEffects DEF PlanReady, HandOver
    <3>2. Logged({}, {})
      BY <3>1, Recording
    <3> QED BY <1>17, <2>1, <3>1, <3>2
               DEF PlanReady, HandOver, PausedAfterRun, Settled, Mint, IdentityFor, Moved,
                   Logged
  <2>2. CASE ~snapshot.pauseAfterAttempt
    <3>1. /\ snapshot' = Executing("implementing", next)
          /\ Says(effects', {"StartImplementation"}, {next})
      BY <1>17, <2>2, LaunchEffects DEF PlanReady, HandOver
    <3>2. Logged({"StartImplementation"}, {next})
      BY <3>1, Recording
    <3> QED BY <1>17, <2>2, <3>1, <3>2
               DEF PlanReady, HandOver, Mint, Executing, IdentityFor, Moved, Logged
  <2> QED BY <2>1, <2>2
<1>18. ASSUME NEW a \in Attempts, NEW next \in Attempts, ImplementationCompleted(a, next)
       PROVE Kept
  <2>1. CASE snapshot.pauseAfterAttempt
    <3>1. /\ snapshot' = [PausedAfterRun("reviewing") EXCEPT !.pendingResume = IdentityFor("reviewing", next)]
          /\ Says(effects', {}, {})
      BY <1>18, <2>1, PlainEffects DEF ImplementationCompleted, HandOver
    <3>2. Logged({}, {})
      BY <3>1, Recording
    <3> QED BY <1>18, <2>1, <3>1, <3>2
               DEF ImplementationCompleted, HandOver, PausedAfterRun, Settled, Mint,
                   IdentityFor, Moved, Logged
  <2>2. CASE ~snapshot.pauseAfterAttempt
    <3> DEFINE fx == <<Effect("FinalizeCandidateChangeSet", a)>> \o EffectsForNewAttempt("reviewing", next)
    <3>1. /\ snapshot' = Executing("reviewing", next) /\ effects' = fx
          /\ snapshot.state = "implementing" /\ next = minted + 1 /\ minted' = next
      BY <1>18, <2>2 DEF ImplementationCompleted, HandOver, Mint
    <3>2. Says(fx, {"FinalizeCandidateChangeSet"}, {next})
      BY ReviewEffects
    <3> HIDE DEF fx
    <3>3. Logged({"FinalizeCandidateChangeSet"}, {next})
      BY <3>1, <3>2, Recording
    <3> QED BY <3>1, <3>3 DEF Executing, IdentityFor, Moved, Logged
  <2> QED BY <2>1, <2>2
<1>19. ASSUME NEW a \in Attempts, NEW next \in Attempts, ReviewCompleted(a, next) PROVE Kept
  <2>1. CASE snapshot.pauseAfterAttempt
    <3>1. /\ snapshot' = [PausedAfterRun("master_validation") EXCEPT !.pendingResume = IdentityFor("master_validation", next)]
          /\ Says(effects', {}, {})
      BY <1>19, <2>1, PlainEffects DEF ReviewCompleted, HandOver
    <3>2. Logged({}, {})
      BY <3>1, Recording
    <3> QED BY <1>19, <2>1, <3>1, <3>2
               DEF ReviewCompleted, HandOver, PausedAfterRun, Settled, Mint, IdentityFor, Moved,
                   Logged
  <2>2. CASE ~snapshot.pauseAfterAttempt
    <3>1. snapshot' = Executing("master_validation", next) /\ Says(effects', {}, {next})
      BY <1>19, <2>2, LaunchEffects DEF ReviewCompleted, HandOver
    <3>2. Logged({}, {next})
      BY <3>1, Recording
    <3> QED BY <1>19, <2>2, <3>1, <3>2
               DEF ReviewCompleted, HandOver, Mint, Executing, IdentityFor, Moved, Logged
  <2> QED BY <2>1, <2>2
<1>20. CASE PauseAfterAttemptRequested
  <2>1. Says(effects', {}, {})
    BY <1>20, PlainEffects DEF PauseAfterAttemptRequested
  <2>2. Logged({}, {})
    BY <2>1, Recording
  <2> QED BY <1>20, <2>2 DEF PauseAfterAttemptRequested, Moved, Logged
<1>21. CASE ResumeToApproval
  <2>1. Says(effects', {}, {})
    BY <1>21, PlainEffects DEF ResumeToApproval
  <2>2. Logged({}, {})
    BY <2>1, Recording
  <2> QED BY <1>21, <2>2 DEF ResumeToApproval, Resuming, Moved, Logged
<1>22. CASE ResumeRework
  <2>1. Says(effects', {}, {})
    BY <1>22, PlainEffects DEF ResumeRework
  <2>2. Logged({}, {})
    BY <2>1, Recording
  <2> QED BY <1>22, <2>2 DEF ResumeRework, Resuming, Moved, Logged
<1>23. CASE ResumeExecution
  <2>1. Says(effects', ImplementationAsked(snapshot.resumeTarget), {snapshot.pendingResume.attempt})
    BY <1>23, LaunchEffects DEF ResumeExecution, Resuming, Attempts
  <2>2. Logged(ImplementationAsked(snapshot.resumeTarget), {snapshot.pendingResume.attempt})
    BY <2>1, Recording
  <2> QED BY <1>23, <2>2 DEF ResumeExecution, Resuming, Executing, IdentityFor, Moved, Logged
<1>24. CASE ResumeToAwaitingUser
  <2>1. Says(effects', {}, {})
    BY <1>24, PlainEffects DEF ResumeToAwaitingUser
  <2>2. Logged({}, {})
    BY <2>1, Recording
  <2> QED BY <1>24, <2>2 DEF ResumeToAwaitingUser, Resuming, Moved, Logged
<1>25. CASE ResumeCompletion
  <2>1. Says(effects', {"ReleaseProjectLock"}, {})
    BY <1>25, PlainEffects DEF ResumeCompletion
  <2>2. Logged({"ReleaseProjectLock"}, {})
    BY <2>1, Recording
  <2> QED BY <1>25, <2>2 DEF ResumeCompletion, Resuming, Moved, Logged
<1>26. CASE Cancel
  <2>1. CASE snapshot.active.attempt # 0
    <3>1. /\ snapshot' = [Moved("interrupting") EXCEPT !.stopIntent = "cancel"]
          /\ effects' = <<Effect("BeginProcessCleanup", snapshot.active.attempt)>>
      BY <1>26, <2>1 DEF Cancel, CancelTask, BeginCleanup
    <3>2. Says(effects', {}, {})
      BY <3>1, PlainEffects
    <3>3. Logged({}, {})
      BY <3>2, Recording
    <3> QED BY <1>26, <2>1, <3>1, <3>3 DEF Cancel, Moved, Logged
  <2>2. CASE ~(snapshot.active.attempt # 0)
    <3>1. snapshot' = Moved("cancelled") /\ Says(effects', {"ReleaseProjectLock"}, {})
      BY <1>26, <2>2, PlainEffects DEF Cancel, CancelTask
    <3>2. Logged({"ReleaseProjectLock"}, {})
      BY <3>1, Recording
    <3> QED BY <1>26, <2>2, <3>1, <3>2 DEF Cancel, Moved, Logged
  <2> QED BY <2>1, <2>2
<1>27. CASE Interrupt
  <2>1. Says(effects', {}, {})
    BY <1>27, PlainEffects DEF Interrupt, BeginCleanup
  <2>2. Logged({}, {})
    BY <2>1, Recording
  <2> QED BY <1>27, <2>2 DEF Interrupt, Moved, Logged
<1>28. CASE ProcessTreeClean
  <2>1. CASE snapshot.stopIntent = "cancel"
    <3>1. /\ snapshot' = [Moved("cancelled") EXCEPT !.active = NoIdentity]
          /\ Says(effects', {"ReleaseProjectLock"}, {})
      BY <1>28, <2>1, PlainEffects DEF ProcessTreeClean
    <3>2. Logged({"ReleaseProjectLock"}, {})
      BY <3>1, Recording
    <3> QED BY <1>28, <2>1, <3>1, <3>2 DEF ProcessTreeClean, Moved, Logged
  <2>2. CASE ~(snapshot.stopIntent = "cancel")
    <3>1. snapshot' = [Moved("interrupted_needs_inspection") EXCEPT !.active = NoIdentity,
                            !.resumeTarget = snapshot.resumeTarget] /\ Says(effects', {}, {})
      BY <1>28, <2>2, PlainEffects DEF ProcessTreeClean
    <3>2. Logged({}, {})
      BY <3>1, Recording
    <3> QED BY <1>28, <2>2, <3>1, <3>2 DEF ProcessTreeClean, Moved, Logged
  <2> QED BY <2>1, <2>2
<1>29. CASE ProcessCleanupFailed
  <2>1. Says(effects', {}, {})
    BY <1>29, PlainEffects DEF ProcessCleanupFailed
  <2>2. Logged({}, {})
    BY <2>1, Recording
  <2> QED BY <1>29, <2>2 DEF ProcessCleanupFailed, StillStopping, Moved, Logged
<1>30. CASE RetryCleanup
  <2>1. Says(effects', {}, {})
    BY <1>30, PlainEffects DEF RetryCleanup, BeginCleanup
  <2>2. Logged({}, {})
    BY <2>1, Recording
  <2> QED BY <1>30, <2>2 DEF RetryCleanup, StillStopping, Moved, Logged
<1>31. CASE InspectionView
  <2>1. Says(effects', {}, {})
    BY <1>31, PlainEffects DEF InspectionView
  <2>2. Logged({}, {})
    BY <2>1, Recording
  <2> QED BY <1>31, <2>2 DEF InspectionView, WaitingForUser, Settled, Moved, Logged
<1>32. CASE InspectionCancel
  <2>1. Says(effects', {"ReleaseProjectLock"}, {})
    BY <1>32, PlainEffects DEF InspectionCancel
  <2>2. Logged({"ReleaseProjectLock"}, {})
    BY <2>1, Recording
  <2> QED BY <1>32, <2>2 DEF InspectionCancel, Moved, Logged
<1>33. CASE AwaitingUserCancel
  <2>1. CASE snapshot.active.attempt # 0
    <3>1. /\ snapshot' = [Moved("interrupting") EXCEPT !.stopIntent = "cancel"]
          /\ effects' = <<Effect("BeginProcessCleanup", snapshot.active.attempt)>>
      BY <1>33, <2>1 DEF AwaitingUserCancel, MayAwait, CancelTask, BeginCleanup
    <3>2. Says(effects', {}, {})
      BY <3>1, PlainEffects
    <3>3. Logged({}, {})
      BY <3>2, Recording
    <3> QED BY <1>33, <2>1, <3>1, <3>3 DEF AwaitingUserCancel, MayAwait, Moved, Logged
  <2>2. CASE ~(snapshot.active.attempt # 0)
    <3>1. snapshot' = Moved("cancelled") /\ Says(effects', {"ReleaseProjectLock"}, {})
      BY <1>33, <2>2, PlainEffects DEF AwaitingUserCancel, MayAwait, CancelTask
    <3>2. Logged({"ReleaseProjectLock"}, {})
      BY <3>1, Recording
    <3> QED BY <1>33, <2>2, <3>1, <3>2 DEF AwaitingUserCancel, MayAwait, Moved, Logged
  <2> QED BY <2>1, <2>2
<1>34. CASE FatalError
  <2>1. Says(effects', {"ReleaseProjectLock"}, {})
    BY <1>34, PlainEffects DEF FatalError
  <2>2. Logged({"ReleaseProjectLock"}, {})
    BY <2>1, Recording
  <2> QED BY <1>34, <2>2 DEF FatalError, Moved, Logged
<1> QED BY <1>1, <1>2, <1>3, <1>4, <1>5, <1>6, <1>7, <1>8, <1>9, <1>10,
            <1>11, <1>12, <1>13, <1>14, <1>15, <1>16, <1>17, <1>18, <1>19, <1>20,
            <1>21, <1>22, <1>23, <1>24, <1>25, <1>26, <1>27, <1>28, <1>29, <1>30,
            <1>31, <1>32, <1>33, <1>34
     DEF LedgerNext, ReducerNext, LaunchStep, VerdictStep, ResultStep, PauseStep, StopStep

-----------------------------------------------------------------------------
(* The theorems about the effects.                                             *)

LEMMA LedgerInitially ==
    LedgerInit => TypedSnapshot /\ ShapeInv /\ TypedLedger /\ LedgerInv
<1> SUFFICES ASSUME LedgerInit PROVE TypedSnapshot /\ ShapeInv /\ TypedLedger /\ LedgerInv
  OBVIOUS
<1>1. TypedSnapshot /\ ShapeInv
  BY InitialSafety DEF LedgerInit
<1>2. TypedLedger
  BY PlainEffects DEF LedgerInit, EngineInit, EmptyLedger, TypedLedger, Ledgers, Says
<1>3. LedgerInv
  BY DEF LedgerInit, EngineInit, InitialSnapshot, NoIdentity, EmptyLedger, LedgerInv,
     LockDemandInv, LockDemandFollowsState, IsTerminal, TerminalStates, StartInv, CandidateInv,
     OnlyAPauseSkipsCandidateSteps
<1> QED BY <1>1, <1>2, <1>3

LEMMA LedgerSafetyStep ==
    /\ TypedSnapshot /\ ShapeInv /\ TypedLedger /\ LedgerInv
    /\ [LedgerNext]_ledgerVars
    => /\ (TypedSnapshot /\ ShapeInv /\ TypedLedger /\ LedgerInv)'
       /\ [StartedBy(effects') \cap ledger.started = {}]_ledgerVars
<1> SUFFICES ASSUME TypedSnapshot, ShapeInv, TypedLedger, LedgerInv, [LedgerNext]_ledgerVars
             PROVE  /\ (TypedSnapshot /\ ShapeInv /\ TypedLedger /\ LedgerInv)'
                    /\ [StartedBy(effects') \cap ledger.started = {}]_ledgerVars
  OBVIOUS
<1>1. CASE LedgerNext
  <2>1. EngineNext
    BY <1>1 DEF LedgerNext, EngineNext
  <2> QED BY <1>1, <2>1, StepSafety, LedgerStep
<1>2. CASE UNCHANGED ledgerVars
  BY <1>2
     DEF ledgerVars, TypedSnapshot, ShapeInv, StopRemembersItsTarget, TypedLedger, LedgerInv,
     InvalidOnlyWhenStoppingAPausingRun, PromisedReworkIsWithinLimit, LockDemandInv,
     LockDemandFollowsState, StartInv, CandidateInv, OnlyAPauseSkipsCandidateSteps
<1> QED BY <1>1, <1>2

\* The inductive invariant: with the safety of the snapshot, the lock that is asked
\* for follows the state, identities are started in the order they are handed out,
\* and the stage a stopped run will continue at counts as its state.
THEOREM LedgerSafety ==
    LedgerSpec => [](TypedSnapshot /\ ShapeInv /\ TypedLedger /\ LedgerInv)
BY LedgerInitially, LedgerSafetyStep, PTL DEF LedgerSpec

\* The snapshot, the effects and their history keep their types.
THEOREM EngineTyping == LedgerSpec => []EngineTypeOK
<1>1. TypedSnapshot /\ TypedLedger => EngineTypeOK
  BY DEF TypedSnapshot, TypedLedger, EngineTypeOK
<1> QED BY <1>1, LedgerSafety, PTL

\* On every path into a terminal state the lock has been given back, and in every
\* working state it has been asked for.
THEOREM LockDemand == LedgerSpec => []LockDemandFollowsState
<1>1. LedgerInv => LockDemandFollowsState
  BY DEF LedgerInv, LockDemandInv
<1> QED BY <1>1, LedgerSafety, PTL

\* Without a pause no stage after the implementation is entered before the candidate
\* is finalised, and no task completes without asking for its promotion.
THEOREM CandidateSteps == LedgerSpec => []OnlyAPauseSkipsCandidateSteps
<1>1. LedgerInv => OnlyAPauseSkipsCandidateSteps
  BY DEF LedgerInv, CandidateInv
<1> QED BY <1>1, LedgerSafety, PTL

\* No two Start effects of a task's life carry the same attempt identity.
THEOREM SingleStart == LedgerSpec => NoAttemptStartsTwice
BY LedgerInitially, LedgerSafetyStep, PTL DEF LedgerSpec, NoAttemptStartsTwice
=============================================================================
