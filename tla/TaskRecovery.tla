----------------------------- MODULE TaskRecovery -----------------------------
(* A task, the session that runs it, and the restart recovery of               *)
(* src/src/app/restart-recovery-service.ts: instances of the program that      *)
(* share the database crash, start, and act on a task they find unfinished.    *)
(*                                                                             *)
(* A recovery operation reads the task and its latest attempt, waits for the   *)
(* probe of the attempt's process, and commits only if the task's version is   *)
(* still the one it read.                                                      *)
EXTENDS TaskSession

VARIABLES life,      \* of each instance: "new", "up", "dead"
          offered,   \* recoveryAllowedActions: the operations its screen offers
          recovery,  \* the operation each instance waits with
          operated   \* idempotency keys of the completed operations

recoveryVars == <<life, offered, recovery, operated>>
taskVars == <<orchestratorVars, sessionVars, recoveryVars>>

Operations == {"inspect", "continue", "cancel"}
NoOperation == [op |-> "none", version |-> 0, attempt |-> 0, row |-> "none"]
Recoveries == [op : Operations \cup {"none"}, version : Nat, attempt : 0..MaxAttempts,
               row : {"none", "pending", "active", "completed"}]

\* Every variable keeps the type the rest of the specification relies on.
TaskTypeOK == /\ snapshot \in Snapshots
              /\ effects \in Seq(Effects)
              /\ minted \in 0..MaxAttempts
              /\ OrchestratorTypeOK
              /\ SessionTypeOK
              /\ life \in [Instances -> {"new", "up", "dead"}]
              /\ offered \in [Instances -> SUBSET Operations]
              /\ recovery \in [Instances -> Recoveries]
              /\ operated \subseteq Operations \X (0..MaxAttempts)
-----------------------------------------------------------------------------
\* Crash and restart

Crash(i) ==
    /\ life[i] = "up"
    /\ life' = [life EXCEPT ![i] = "dead"]
    /\ drives' = {d \in drives : d.by # i}
    /\ recovery' = [recovery EXCEPT ![i] = NoOperation]
    /\ IF i = Home THEN session' = "gone" /\ hold' = FALSE /\ waiting' = FALSE
                   ELSE UNCHANGED <<session, hold, waiting>>
    /\ KeepEngine /\ UNCHANGED <<durableVars, agents, lock, holds, givenUp, offered, operated>>

\* The row of run_attempts that was started last: identities are numbered as their rows
\* are made, so it is the largest.
LatestAttempt == LET rows == {a \in Attempts : attemptRows[a] # "none"}
                 IN  IF rows = {} THEN 0 ELSE CHOOSE a \in rows : \A b \in rows : b <= a

\* A start of the program.  Its startup reconciliation changes nothing.  It finds
\* the lock of an unfinished task missing or owned by another instance and never
\* offers to continue.
Boot(i) ==
    /\ life[i] = "new"
    /\ life' = [life EXCEPT ![i] = "up"]
    /\ offered' = [offered EXCEPT ![i] =
          IF snapshot.state \in TerminalStates THEN {}
          ELSE IF LatestAttempt = 0 THEN {"cancel"} ELSE {"inspect", "cancel"}]
    /\ UNCHANGED <<orchestratorVars, sessionVars, recovery, operated>>
-----------------------------------------------------------------------------
\* The operations

\* recoveryActionsForState of the live session, recoverySnapshotFromOperation of
\* every other instance.
Shown(i, s) ==
    CASE s.state = "interrupted_needs_inspection" ->
             IF i = Home THEN Operations ELSE {"inspect", "cancel"}
      [] s.state = "awaiting_user" -> s.awaitingActions \cap {"continue", "cancel"}
      [] OTHER -> {}

\* The screen of instance i follows what instance i does, and nothing else.
Shows(i) == offered' = [offered EXCEPT ![i] = Shown(i, snapshot')]

\* The live session handles [C] and [X] itself while its task is held or awaits
\* the user; everything else goes to the recovery service.
Offered(i, op) ==
    /\ op \in offered[i]
    /\ i = Home => Live /\ ~hold /\ (op = "inspect" \/ snapshot.state # "awaiting_user")

OperationIsLegal(op) ==
    \/ op = "inspect" /\ snapshot.state = "interrupted_needs_inspection"
    \/ op = "cancel" /\ snapshot.state = "interrupted_needs_inspection"
    \/ op # "inspect" /\ snapshot.state = "awaiting_user" /\ op \in snapshot.awaitingActions

\* Up to the await of the process probe.
BeginRecovery(i, op) ==
    /\ life[i] = "up" /\ recovery[i].op = "none"
    /\ Offered(i, op)
    /\ op # "cancel" => LatestAttempt # 0
    /\ <<op, LatestAttempt>> \notin operated
    /\ OperationIsLegal(op)
    /\ recovery' = [recovery EXCEPT ![i] =
          [op |-> op, version |-> Len(journal), attempt |-> LatestAttempt,
           row |-> IF LatestAttempt = 0 THEN "none" ELSE attemptRows[LatestAttempt]]]
    /\ UNCHANGED <<orchestratorVars, sessionVars, life, offered, operated>>

\* The operation has been completed for this attempt: the screen catches up.
AlreadyApplied(i, op) ==
    /\ life[i] = "up" /\ recovery[i].op = "none"
    /\ Offered(i, op)
    /\ <<op, LatestAttempt>> \in operated
    /\ UNCHANGED <<orchestratorVars, sessionVars, life, recovery, operated>>
    /\ Shows(i)

\* Mutation: the probe's answer is not looked at.
ExitAssumed(r) == r.attempt # 0 => r.row = "active"

\* processExitBlock: the probe must match a process identity and find it exited.  A
\* pending attempt has no identity yet, and of a completed one the journal answers
\* not_applicable, which is not a match either.
ExitProven(r) == r.attempt # 0 => r.row = "active" /\ r.attempt \notin agents

\* The stage of attempt a has a Start action with this outcome.
StartHas(a, outcome) ==
    \E v \in 1..Len(journal) : \E k \in 1..Len(journal[v]) :
        /\ journal[v][k].effect.type \in StageStarts
        /\ journal[v][k].effect.attempt = a
        /\ journal[v][k].status = outcome

\* hasDurableRejectedPrelaunchEvidence: the run was refused before a process
\* could start.
RefusedBeforeLaunch(r) == r.row = "pending" /\ StartHas(r.attempt, "refused")

\* assertWorkflowVersion
Current(r) == r.version = Len(journal)

\* Mutation: the operation is remembered by version.
OperatedByVersion(r) == operated' = operated \cup {<<r.op, r.version>>}

Answered(i) == recovery' = [recovery EXCEPT ![i] = NoOperation]
Operated(r) == operated' = operated \cup {<<r.op, r.attempt>>}

CommitInspect(i) ==
    /\ recovery[i].op = "inspect" /\ Current(recovery[i])
    /\ InspectionView
    /\ Persist
    /\ Operated(recovery[i]) /\ Answered(i) /\ Shows(i)
    /\ UNCHANGED <<results, attemptRows, agents, lock, drives, sessionVars, life>>

\* Takes the lock over from its owner and executes the new attempt's effects.  The
\* attempt's baseline must be complete too, as it is of every active row: it is made
\* before the launch that activates the row.  A file of it damaged since is one of the
\* reasons of RecoveryBlocked.
CommitContinue(i) ==
    /\ recovery[i].op = "continue" /\ Current(recovery[i])
    /\ ExitProven(recovery[i])
    /\ lock \notin {Free, i}
    /\ \E a \in Attempts : AwaitingUserContinue(a)
    /\ lock' = i
    /\ Persist
    /\ drives' = drives \cup Begun(i)
    /\ Operated(recovery[i]) /\ Answered(i) /\ Shows(i)
    /\ UNCHANGED <<results, attemptRows, agents, sessionVars, life>>

\* Mutation: the lock is left to the effects, which have no intents.
CommitCancelKeepingLock(i) ==
    /\ recovery[i].op = "cancel" /\ Current(recovery[i])
    /\ ExitProven(recovery[i]) \/ RefusedBeforeLaunch(recovery[i])
    /\ lock # Free
    /\ InspectionCancel \/ AwaitingUserCancel
    /\ journal' = Append(journal, <<>>)
    /\ Operated(recovery[i]) /\ Answered(i) /\ Shows(i)
    /\ UNCHANGED <<results, attemptRows, agents, lock, drives, sessionVars, life>>

\* Deletes the lock itself, so the reducer's effects get no intents.
CommitCancel(i) ==
    /\ recovery[i].op = "cancel" /\ Current(recovery[i])
    /\ ExitProven(recovery[i]) \/ RefusedBeforeLaunch(recovery[i])
    /\ lock # Free
    /\ InspectionCancel \/ AwaitingUserCancel
    /\ lock' = Free
    /\ journal' = Append(journal, <<>>)
    /\ Operated(recovery[i]) /\ Answered(i) /\ Shows(i)
    /\ UNCHANGED <<results, attemptRows, agents, drives, sessionVars, life>>

\* The evidence blocks the operation, or the version has moved on.
RecoveryBlocked(i) ==
    /\ recovery[i].op # "none"
    /\ Answered(i)
    /\ UNCHANGED <<orchestratorVars, sessionVars, life, offered, operated>>
-----------------------------------------------------------------------------
TaskInit ==
    /\ OrchestratorInit
    /\ SessionInit
    /\ life = [i \in Instances |-> IF i = Home THEN "up" ELSE "new"]
    /\ offered = [i \in Instances |-> {}]
    /\ recovery = [i \in Instances |-> NoOperation]
    /\ operated = {}

RecoveryStep(i) ==
    \/ Crash(i) \/ Boot(i)
    \/ \E op \in Operations : BeginRecovery(i, op) \/ AlreadyApplied(i, op)
    \/ CommitInspect(i) \/ CommitContinue(i) \/ CommitCancel(i) \/ RecoveryBlocked(i)

TaskNext ==
    \/ SessionCommand /\ Shows(Home) /\ UNCHANGED <<life, recovery, operated>>
    \/ /\ \/ ParkedContinue /\ "continue" \in offered[Home]
          \/ CancelParked /\ "cancel" \in offered[Home]
       /\ Shows(Home) /\ UNCHANGED <<life, recovery, operated>>
    \/ \E d \in drives : /\ BackgroundStep(d)
                         /\ Shows(d.by) /\ UNCHANGED <<life, recovery, operated>>
    \/ AgentExits /\ UNCHANGED <<sessionVars, recoveryVars>>
    \/ \E i \in Instances : RecoveryStep(i)

TaskSpec == TaskInit /\ [][TaskNext]_taskVars
-----------------------------------------------------------------------------
\* Properties

\* As long as no run has been given up with its process possibly alive, at most
\* one agent works on the project, across stages, repairs, restarts and instances.
OneAgentUnlessGivenUp == ~givenUp => Cardinality(agents) <= 1

\* The active attempt is left by its own result, by the failure of its own run, or
\* by the user's continue: a late answer of a run that was given up cannot end
\* the attempt that has replaced it.
OnlyItsOwnOutcomeEndsAnAttempt ==
    [][LET a == snapshot.active.attempt
       IN  a # 0 /\ snapshot'.active.attempt # a =>
             \/ results'[a] = "consumed"
             \/ StartHas(a, "failed") \/ StartHas(a, "refused")
             \/ waiting /\ ~waiting']_taskVars

\* An effect is not touched before the ones listed ahead of it are completed: no
\* review of a candidate that could not be finalised, no lock given back after a
\* promotion that failed, no agent without its baseline.
EffectsAreCompletedInOrder ==
    \A v \in 1..Len(journal) : \A j \in 1..Len(journal[v]) :
        journal[v][j].status # "intent" =>
            \A i \in 1..(j - 1) : journal[v][i].status = "completed"

\* The task works, or keeps work for its user, only under the project lock, whoever
\* holds it for the task; no agent outlives the lock unless its run was given up.
WorkIsDoneUnderALock ==
    lock = Free =>
        /\ \/ snapshot.state \in {"draft", "checking_environment"} \cup TerminalStates
           \/ snapshot.state = "awaiting_user" /\ "retry_environment" \in snapshot.awaitingActions
        /\ agents = {} \/ givenUp

\* The lock changes hands only when the latest run is known to have ended: nothing
\* starts behind the version a recovery has checked.  Of a held task whose run was given
\* up this is not so: the drive of that run, having outlived the wait of [C], may launch
\* its agent without an event between the probe of the run before it and the commit.
TakeoverWaitsForLatestRun ==
    [][(holds = 0 \/ ~givenUp) /\ lock # Free /\ lock' \notin {lock, Free} =>
          LatestAttempt \notin agents]_taskVars

\* A lock that outlives its task has a release that is still to come or failed.
TerminalLockIsAccountedFor ==
    IsTerminal(snapshot) /\ lock # Free =>
        \E k \in 1..Len(journal[Len(journal)]) :
            LET row == journal[Len(journal)][k]
            IN  row.effect.type = "ReleaseProjectLock" /\ row.status \in {"intent", "failed"}

\* A task that was running when its instance died, and whose processes are gone,
\* can be inspected, continued or cancelled by the next instance.
CrashedRunCanBeInspected ==
    /\ IsExecuting(snapshot) /\ drives = {} /\ agents = {}
    /\ life[Home] = "dead" /\ \E i \in Instances : life[i] = "up"
    => \E op \in Operations : OperationIsLegal(op)

\* A task the user has cancelled gives the project lock back once nothing of it
\* runs any more.
CancelledSessionReleasesLock ==
    session = "cancelled" /\ life[Home] = "up" /\ drives = {} /\ agents = {} => lock = Free
=============================================================================
