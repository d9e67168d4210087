--------------------------- MODULE TaskOrchestrator ---------------------------
(* The orchestrator of src/src/workflow/task-orchestrator.ts with the agent    *)
(* runner of command-runner.ts.  The engine's "snapshot" is the task's row in  *)
(* the database; applying an event writes the next snapshot and, in the same   *)
(* transaction, an intent for every effect, and then executes the effects one  *)
(* by one.  One such execution is a "drive".  An instance of the program may   *)
(* have several drives at once, and several instances may share the database.  *)
(*                                                                             *)
(* What outlives an instance: snapshot, journal, results, attemptRows, lock,   *)
(* and the agent processes.  What dies with it: its drives.                    *)
(*                                                                             *)
(* Prompts, reviews, plans and files are left out; which of the events legal   *)
(* for an attempt its result becomes is a free choice.                         *)
EXTENDS WorkflowEngine

CONSTANTS Instances,  \* ownerInstanceId of every start of the program
          Home,       \* the instance that created the task
          Free        \* no instance: the project lock is not held

ASSUME OrchestratorAssumption == Home \in Instances /\ Free \notin Instances

VARIABLES journal,      \* the intents of each transition: journal[v] is version v+1's
          results,      \* the stage-result action of each attempt
          attemptRows,  \* status of each row of run_attempts
          agents,       \* attempts whose agent process is alive
          lock,         \* owner of the task's active project lock
          drives        \* effect executions in progress

durableVars == <<journal, results, attemptRows>>
orchestratorVars == <<snapshot, effects, minted, journal, results, attemptRows,
                      agents, lock, drives>>

\* "refused" is a failure recorded before any process could have started.
Rows == [effect : Effects, status : {"intent", "completed", "failed", "refused"}]

\* at: position in the batch of intents; agent: the attempt being run, which is
\* the stage's own or, during a format repair, one minted for the repair.
Phases == {"effect", "launching", "spawned", "running", "ran", "decided", "failed", "resume"}
Drives == [by : Instances, batch : Nat, at : Nat, phase : Phases, agent : 0..MaxAttempts]

OrchestratorTypeOK ==
    /\ journal \in Seq(Seq(Rows))
    /\ results \in [Attempts -> {"none", "ready", "consumed"}]
    /\ attemptRows \in [Attempts -> {"none", "pending", "active", "completed"}]
    /\ agents \subseteq Attempts
    /\ lock \in Instances \cup {Free}
    /\ drives \subseteq Drives
-----------------------------------------------------------------------------
\* Applying an event

Intents(fx) == [i \in 1..Len(fx) |-> [effect |-> fx[i], status |-> "intent"]]

\* persistTransitionAndIntents: conjoined with an action of the engine.
Persist == journal' = Append(journal, Intents(effects'))

\* The drive that instance i starts on the intents of the event just applied.
Begun(i) == IF effects' = <<>> THEN {}
            ELSE {[by |-> i, batch |-> Len(journal) + 1, at |-> 1,
                   phase |-> "effect", agent |-> 0]}

\* An event applied by drive d, whose own batch is then exhausted.
Applied(d) == Persist /\ drives' = (drives \ {d}) \cup Begun(d.by)

\* An event applied for a command given to instance i.
Commanded(i) == Persist /\ drives' = drives \cup Begun(i)

Row(d) == journal[d.batch][d.at]
Stage(d) == Row(d).effect.attempt
Ended(d) == drives' = drives \ {d}
Becoming(d, e) == drives' = (drives \ {d}) \cup {e}
Mark(d, status) == journal' = [journal EXCEPT ![d.batch][d.at].status = status]

Onward(d) == IF d.at = Len(journal[d.batch]) THEN Ended(d)
             ELSE Becoming(d, [d EXCEPT !.at = d.at + 1])

KeepEngine == UNCHANGED <<snapshot, effects, minted>>

At(d, type) == d.phase = "effect" /\ Row(d).effect.type = type
-----------------------------------------------------------------------------
\* Effects without an agent

AcquireProjectLock(d) ==
    /\ At(d, "AcquireProjectLock")
    /\ lock = Free
    /\ lock' = d.by
    /\ Mark(d, "completed")
    /\ Onward(d)
    /\ KeepEngine /\ UNCHANGED <<results, attemptRows, agents>>

\* Mutation: the drive goes on without the lock.
LockConflictIgnored(d) ==
    /\ At(d, "AcquireProjectLock")
    /\ Mark(d, "failed")
    /\ Onward(d)
    /\ KeepEngine /\ UNCHANGED <<results, attemptRows, agents, lock>>

\* Another task, or this one, holds a lock on an overlapping root.
LockConflict(d) ==
    /\ At(d, "AcquireProjectLock")
    /\ Mark(d, "failed")
    /\ Ended(d)
    /\ KeepEngine /\ UNCHANGED <<results, attemptRows, agents, lock>>

\* The health probes have answered and, if all agents are available, the task
\* baseline is captured; the event follows in a transaction of its own.
RunEnvironmentCheck(d) ==
    /\ At(d, "RunEnvironmentCheck")
    /\ Mark(d, "completed")
    /\ Becoming(d, [d EXCEPT !.phase = "decided"])
    /\ KeepEngine /\ UNCHANGED <<results, attemptRows, agents, lock>>

EnvironmentDecided(d) ==
    /\ d.phase = "decided" /\ Row(d).effect.type = "RunEnvironmentCheck"
    /\ EnvironmentFailed \/ \E a \in Attempts : EnvironmentReady(a)
    /\ Applied(d)
    /\ UNCHANGED <<results, attemptRows, agents, lock>>

CreateAttemptBaseline(d) ==
    /\ At(d, "CreateAttemptBaseline")
    /\ attemptRows[Stage(d)] = "none"
    /\ attemptRows' = [attemptRows EXCEPT ![Stage(d)] = "pending"]
    /\ Mark(d, "completed")
    /\ Onward(d)
    /\ KeepEngine /\ UNCHANGED <<results, agents, lock>>

\* The workspace effects, whose data is another component's.
WorkspaceEffects == {"PrepareImplementationWorkspace", "FinalizeCandidateChangeSet",
                     "PromoteCandidateWorkspace"}

WorkspaceEffect(d) ==
    /\ \E type \in WorkspaceEffects : At(d, type)
    /\ Mark(d, "completed")
    /\ Onward(d)
    /\ KeepEngine /\ UNCHANGED <<results, attemptRows, agents, lock>>

\* Mutation: a workspace effect that fails does not stop the drive.
WorkspaceEffectSkipped(d) ==
    /\ \E type \in WorkspaceEffects : At(d, type)
    /\ Mark(d, "failed")
    /\ Onward(d)
    /\ KeepEngine /\ UNCHANGED <<results, attemptRows, agents, lock>>

\* A missing authorisation, a manifest that drifted, a write that failed: the
\* action is marked failed, the exception ends the drive, and the effects after
\* it keep their intents.
WorkspaceEffectFails(d) ==
    /\ \E type \in WorkspaceEffects : At(d, type)
    /\ Mark(d, "failed")
    /\ Ended(d)
    /\ KeepEngine /\ UNCHANGED <<results, attemptRows, agents, lock>>

\* An exception in an effect that does not record its failure.  A stage may throw
\* before its run is prepared: no workspace authorisation or candidate evidence.
EffectThrows(d) ==
    /\ \/ At(d, "RunEnvironmentCheck") /\ UNCHANGED attemptRows
       \/ \E type \in StageStarts : At(d, type) /\ UNCHANGED attemptRows
       \/ /\ At(d, "CreateAttemptBaseline")
          /\ attemptRows' \in {attemptRows, [attemptRows EXCEPT ![Stage(d)] = "pending"]}
    /\ Ended(d)
    /\ KeepEngine /\ UNCHANGED <<journal, results, agents, lock>>

PersistReworkRequest(d) ==
    /\ At(d, "PersistReworkRequest")
    /\ Mark(d, "completed")
    /\ Becoming(d, [d EXCEPT !.phase = "decided"])
    /\ KeepEngine /\ UNCHANGED <<results, attemptRows, agents, lock>>

ReworkDecided(d) ==
    /\ d.phase = "decided" /\ Row(d).effect.type = "PersistReworkRequest"
    /\ \E a \in Attempts : ReworkContextPersisted(a)
    /\ Applied(d)
    /\ UNCHANGED <<results, attemptRows, agents, lock>>

ReleaseProjectLock(d) ==
    /\ At(d, "ReleaseProjectLock")
    /\ lock = d.by
    /\ lock' = Free
    /\ Mark(d, "completed")
    /\ Onward(d)
    /\ KeepEngine /\ UNCHANGED <<results, attemptRows, agents>>

ReleaseFails(d) ==
    /\ At(d, "ReleaseProjectLock")
    /\ lock # d.by
    /\ Mark(d, "failed")
    /\ Ended(d)
    /\ KeepEngine /\ UNCHANGED <<results, attemptRows, agents, lock>>
-----------------------------------------------------------------------------
\* Running an agent

IsStage(d) == Row(d).effect.type \in StageStarts
Repairing(d) == d.agent # Stage(d)

BeginLaunch(d) ==
    /\ d.phase = "effect" /\ IsStage(d)
    /\ Row(d).status = "intent"
    /\ Becoming(d, [d EXCEPT !.phase = "launching", !.agent = Stage(d)])
    /\ KeepEngine /\ UNCHANGED <<durableVars, agents, lock>>

\* runPreparedAgent fails: the agent's action is marked failed and the exception
\* reaches runStage, which turns it into the stage's failure event if the action
\* is the stage's own and lets it end the drive if it is a repair's.
RunFails(d, status) ==
    IF Repairing(d) THEN Ended(d) /\ UNCHANGED journal
    ELSE Becoming(d, [d EXCEPT !.phase = "failed"]) /\ Mark(d, status)

\* The guard, the budget, the authorisation or the adapter refuses the launch.
LaunchRefused(d) ==
    /\ d.phase = "launching"
    /\ RunFails(d, "refused")
    /\ KeepEngine /\ UNCHANGED <<results, attemptRows, agents, lock>>

\* adapter.start (or resume): the process exists before its identity is durable.
Spawn(d) ==
    /\ d.phase = "launching"
    /\ agents' = agents \cup {d.agent}
    /\ Becoming(d, [d EXCEPT !.phase = "spawned"])
    /\ KeepEngine /\ UNCHANGED <<durableVars, lock>>

\* The process_started event has been handled.
MarkActive(d) ==
    /\ d.phase = "spawned"
    /\ attemptRows[d.agent] = "pending"
    /\ attemptRows' = [attemptRows EXCEPT ![d.agent] = "active"]
    /\ Becoming(d, [d EXCEPT !.phase = "running"])
    /\ KeepEngine /\ UNCHANGED <<journal, results, agents, lock>>

\* The event stream or the log breaks: the run is given up whether or not its
\* process has exited.
RunBreaks(d) ==
    /\ d.phase \in {"spawned", "running"}
    /\ RunFails(d, "failed")
    /\ KeepEngine /\ UNCHANGED <<results, attemptRows, agents, lock>>

\* Mutation: the run is taken for finished while its process is still alive.
RunSettlesEarly(d) ==
    /\ d.phase = "running"
    /\ attemptRows' = [attemptRows EXCEPT ![d.agent] = "completed"]
    /\ IF Repairing(d) THEN UNCHANGED journal ELSE Mark(d, "completed")
    /\ Becoming(d, [d EXCEPT !.phase = "ran"])
    /\ KeepEngine /\ UNCHANGED <<results, agents, lock>>

\* wait() has returned and the event stream has ended.
RunSettles(d) ==
    /\ d.phase = "running"
    /\ d.agent \notin agents
    /\ attemptRows' = [attemptRows EXCEPT ![d.agent] = "completed"]
    /\ IF Repairing(d) THEN UNCHANGED journal ELSE Mark(d, "completed")
    /\ Becoming(d, [d EXCEPT !.phase = "ran"])
    /\ KeepEngine /\ UNCHANGED <<results, agents, lock>>

\* The result does not parse: one run to repair its format, under an attempt of
\* its own that the workflow does not know.
BeginFormatRepair(d) ==
    /\ d.phase = "ran" /\ ~Repairing(d)
    /\ \E b \in Attempts : /\ SpareIdentity(b)
                           /\ attemptRows' = [attemptRows EXCEPT ![b] = "pending"]
                           /\ Becoming(d, [d EXCEPT !.phase = "launching", !.agent = b])
    /\ UNCHANGED <<journal, results, agents, lock>>

\* The diff of the attempt, or the baseline of a repair, cannot be taken.
ResultThrows(d) ==
    /\ d.phase = "ran"
    /\ Ended(d)
    /\ KeepEngine /\ UNCHANGED <<durableVars, agents, lock>>

\* The stage-result action, unique per attempt, is recorded and completed (or
\* failed, after a second result that does not parse) before its event.
RecordStageResult(d) ==
    /\ d.phase = "ran"
    /\ results[Stage(d)] = "none"
    /\ results' = [results EXCEPT ![Stage(d)] = "ready"]
    /\ Becoming(d, [d EXCEPT !.phase = "decided"])
    /\ KeepEngine /\ UNCHANGED <<journal, attemptRows, agents, lock>>

\* Mutation: the event of an attempt that failed is applied to the attempt that
\* is active now.
FailureOfActive(d) ==
    IF snapshot.state = "implementing" THEN ImplementationFailed(snapshot.active.attempt)
    ELSE StageFailed(snapshot.active.attempt)

\* failedEvent: PLAN_FAILED, IMPLEMENTATION_FAILED, REVIEW_FAILED, MASTER_FAILED.
FailureEvent(d) ==
    IF snapshot.state = "implementing" THEN ImplementationFailed(Stage(d))
    ELSE StageFailed(Stage(d))

\* Only a repair that failed gives RESULT_PARSE_FAILED, in any stage.
ApplyStageResult(d) ==
    /\ d.phase = "decided" /\ IsStage(d)
    /\ \/ VerdictStep(Stage(d))
       \/ FailureEvent(d)
       \/ Repairing(d) /\ StageFailed(Stage(d))
    /\ results' = [results EXCEPT ![Stage(d)] = "consumed"]
    /\ Applied(d)
    /\ UNCHANGED <<attemptRows, agents, lock>>

ApplyRunFailure(d) ==
    /\ d.phase = "failed"
    /\ FailureEvent(d)
    /\ Applied(d)
    /\ UNCHANGED <<results, attemptRows, agents, lock>>

\* The workflow has left the attempt: the reducer rejects the event and the
\* exception ends the drive.
EventRejected(d) ==
    /\ d.phase \in {"decided", "failed"} /\ IsStage(d)
    /\ ~ \E st \in SafeExecutionStates : AcceptsResult(st, Stage(d))
    /\ Ended(d)
    /\ KeepEngine /\ UNCHANGED <<durableVars, agents, lock>>
-----------------------------------------------------------------------------
\* Interruption by the workflow

\* BeginProcessCleanup: stop, then force; the action is completed if the tree is
\* gone and failed otherwise.
ProcessCleanup(d) ==
    /\ At(d, "BeginProcessCleanup")
    /\ \/ Mark(d, "completed") /\ agents' = agents \ {Stage(d)}
       \/ Mark(d, "failed") /\ UNCHANGED agents
    /\ Becoming(d, [d EXCEPT !.phase = "decided"])
    /\ KeepEngine /\ UNCHANGED <<results, attemptRows, lock>>

\* Mutation: the drive waits for a cleanup that has failed to become clean.
CleanupDecidedOnceClean(d) ==
    /\ d.phase = "decided" /\ Row(d).effect.type = "BeginProcessCleanup"
    /\ Row(d).status = "completed"
    /\ ProcessTreeClean
    /\ Applied(d)
    /\ UNCHANGED <<results, attemptRows, agents, lock>>

CleanupDecided(d) ==
    /\ d.phase = "decided" /\ Row(d).effect.type = "BeginProcessCleanup"
    /\ IF Row(d).status = "completed" THEN ProcessTreeClean ELSE ProcessCleanupFailed
    /\ Applied(d)
    /\ UNCHANGED <<results, attemptRows, agents, lock>>
-----------------------------------------------------------------------------
\* Commands, given to the instance that created the task

KeepRuns == UNCHANGED <<results, attemptRows, agents, lock>>

StartTask == Start /\ Commanded(Home) /\ KeepRuns

ApprovePlan == (\E a \in Attempts : PlanApproved(a)) /\ Commanded(Home) /\ KeepRuns

RequestInterrupt == Interrupt /\ Commanded(Home) /\ KeepRuns

\* continueAfterOperatorHold on an executing task: the stage is settled as failed
\* under the active attempt; the rest follows when that has been applied.
SettleHeldStage ==
    /\ IF snapshot.state = "implementing" THEN ImplementationFailed(snapshot.active.attempt)
       ELSE StageFailed(snapshot.active.attempt)
    /\ Persist
    /\ drives' = drives \cup {[by |-> Home, batch |-> Len(journal) + 1, at |-> 1,
                               phase |-> "resume", agent |-> 0]}
    /\ KeepRuns

ContinueSettled(d) ==
    /\ d.phase = "resume"
    /\ \E a \in Attempts : AwaitingUserContinue(a) \/ InspectionContinue(a)
    /\ Applied(d)
    /\ KeepRuns

\* The state has changed meanwhile into one that cannot be continued.
ContinueRefused(d) ==
    /\ d.phase = "resume"
    /\ ~ /\ snapshot.state = "awaiting_user"
         /\ "continue" \in snapshot.awaitingActions
    /\ snapshot.state # "interrupted_needs_inspection"
    /\ Ended(d)
    /\ KeepEngine /\ UNCHANGED <<durableVars, agents, lock>>

ContinueParked ==
    /\ \E a \in Attempts : AwaitingUserContinue(a) \/ InspectionContinue(a)
    /\ Commanded(Home)
    /\ KeepRuns
-----------------------------------------------------------------------------
OrchestratorInit ==
    /\ EngineInit
    /\ journal = <<>>
    /\ results = [a \in Attempts |-> "none"]
    /\ attemptRows = [a \in Attempts |-> "none"]
    /\ agents = {}
    /\ lock = Free
    /\ drives = {}

\* Every step of a drive but RunBreaks, which its users record.
DriveStep(d) ==
    \/ AcquireProjectLock(d) \/ LockConflict(d)
    \/ RunEnvironmentCheck(d) \/ EnvironmentDecided(d)
    \/ CreateAttemptBaseline(d)
    \/ WorkspaceEffect(d) \/ WorkspaceEffectFails(d)
    \/ EffectThrows(d)
    \/ PersistReworkRequest(d) \/ ReworkDecided(d)
    \/ ReleaseProjectLock(d) \/ ReleaseFails(d)
    \/ BeginLaunch(d) \/ LaunchRefused(d) \/ Spawn(d) \/ MarkActive(d)
    \/ RunSettles(d) \/ BeginFormatRepair(d) \/ ResultThrows(d)
    \/ RecordStageResult(d) \/ ApplyStageResult(d) \/ ApplyRunFailure(d) \/ EventRejected(d)
    \/ ProcessCleanup(d) \/ CleanupDecided(d)
    \/ ContinueSettled(d) \/ ContinueRefused(d)

AgentExits ==
    /\ \E a \in agents : agents' = agents \ {a}
    /\ KeepEngine /\ UNCHANGED <<durableVars, lock, drives>>

\* The orchestrator by itself, with the commands of its own interface.
OrchestratorNext ==
    \/ StartTask \/ ApprovePlan \/ RequestInterrupt
    \/ \E d \in drives : DriveStep(d) \/ RunBreaks(d)
    \/ AgentExits

\* The event loop takes every drive on, and the attempt watch of the budget stops
\* an agent that does not end by itself.
OrchestratorSpec ==
    /\ OrchestratorInit /\ [][OrchestratorNext]_orchestratorVars
    /\ WF_orchestratorVars(\E d \in drives : DriveStep(d) \/ RunBreaks(d))
    /\ WF_orchestratorVars(AgentExits)
-----------------------------------------------------------------------------
\* No user input is needed between two decisions of the user: reworks are limited
\* and format repairs are not repaired, so what a command has started ends.
DrivesComeToRest == drives # {} ~> drives = {} /\ agents = {}
=============================================================================
