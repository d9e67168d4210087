# TriAgent: models and proofs

TriAgent lets three command line agents work on one project: a *master* plans
and validates, an *implementer* changes a candidate workspace, a *reviewer*
reviews it.  A workflow reducer decides, an orchestrator executes what it
decides and keeps everything durable in SQLite, and after a crash another
instance of the program must be able to go on.  This directory models that
core in TLA+, checks it with TLC on small instances and proves most of its
safety with TLAPS, for every value of the constants.  Paths are relative to the
repository; `src/` is its source directory.

    WorkflowEngine        the reducer: transition() and the snapshot validator
      EngineProofs        inductive invariant of the reducer        (TLAPS)
      WorkflowLedger      + a history of the effects asked for      (TLC)
        LedgerProofs        lock demand, candidate steps, identities  (TLAPS)
      TaskOrchestrator    + intents, effects, agents, lock, drives  (TLC)
        TaskSession       + the live user's commands
          TaskRecovery    + instances, crash, restart, recovery     (TLC)
            RecoveryProofs  refinement of the reducer, and the task's
                            own inductive invariant                 (TLAPS)
    ExclusiveRoots        what the project lock promises: exclusive roots
      ProjectLock         rows, transactions and leases that implement it
        MCProjectLock       three roots                             (TLC)
        LockProofs          exclusion and refinement                (TLAPS)
    MCDurableState        the next four, one at a time              (TLC)
      CandidateWorkspace    the implementer's copy and its promotion
        ProjectWrites         what it promises of the project's files
        CandidateProofs       what promotions and edits may do, and
                              refinement of ProjectWrites           (TLAPS)
      TaskControl           pauses, cleanups, messages, requirements
        ControlProofs         exit, reviews, pauses                 (TLAPS)
      BaselineCapture       scans of a project that changes meanwhile
      HelperBuild           the native helper's build lock
    MCAgentRuns           the next six, one at a time               (TLC)
      AgentLaunch           launch safety, authorisations, budget
      ProcessSupervision    the helper, its job and the supervisor
      AgentWorkers          worker threads and their manager
      GrokRun               the prompt file of a Grok run
      RunLog                the JSONL log and its index
      AppLifecycle          composition, exit gate, shutdown, runCli
    DiskProofs            HelperBuild, BaselineCapture, and the
                          types of MCDurableState                   (TLAPS)
    RunProofs             the six components of MCAgentRuns and
                          their types together                      (TLAPS)

## 1. Inventory

### Components

**Workflow reducer** (`workflow/workflow-engine.ts`, `states.ts`,
`transitions.ts`).  A pure function from a snapshot and an event to a snapshot
and effects, for 15 states and some 35 event types, behind a validator that
refuses invalid snapshots before any event is looked at.  *Hard:* an accepted
event must hand over exactly the context fields the next state needs, since an
invalid snapshot blocks the task for good; effects are spread over all events;
a requested pause makes a parallel copy of every hand-over.  *Correct if* every
reachable snapshot is valid, the lock is asked for and released in step with
the states, identities are never reused, the rework limit is never passed and
no step between stages is lost.

**Task orchestrator and agent runner** (`workflow/task-orchestrator.ts`,
`command-runner.ts`, `persistence/*-repository.ts`).  State: the task row, one
`pending_actions` row per effect, `run_attempts`, in memory the running agent,
the candidate's evidence and the lock id.  Operations: apply an event (one
transaction for snapshot and intents, then the effects one by one), every
effect, running an agent (launch, process identity, event stream, exit), format
repair, stage results and failures.  *Hard:* every effect can fail with its
predecessors durable; agents answer minutes later; nothing serialises two effect
executions of one task.  *Correct if* effects keep their order, one agent works
at a time, an attempt is ended only by its own outcome, and everything started
comes to an end.

**Task session** (`app/task-session-controller.ts`,
`production-task-runtime.ts`).  State: held or not, a drive generation, the
promise of the last drive.  Operations: create, approve, hold [Q], continue [C],
cancel [X].  *Hard:* commands are given while drives run, are decided on what
was read at the key press and wait for the old drive for 15 s at most.

**Restart recovery** (`app/restart-recovery-service.ts`) and **startup
reconciliation** (`app/startup-reconcile.ts`, `workflow/reconciler.ts`).
Inspect, continue and cancel an unfinished task from another instance: read,
await the process probe, commit with a version check and an idempotency key.
*Correct if* a lock is taken over only from a run that has ended, a cancelled
task leaves no lock, and a crashed task has some operation.

**Project lock** (`project/project-lock-service.ts`, `canonical-path.ts`,
`persistence/lock-repository.ts`, `transaction.ts`).  One active lock per overlapping project
root, as a lease.  *Hard:* overlap is not equality; leases expire; two
instances.  *Correct if* no two tasks hold overlapping roots.

**Candidate workspace and promotion** (`workspace/*`, `guard/patch-applier.ts`).
State: a row per implementer attempt, a tree on disk, in memory the
authorisation and the evidence.  A copy of the project that the implementer
changes: prepared, frozen, reviewed, validated, promoted file by file.  *Hard:* a
crash between the patch and the status; authority and evidence in memory only;
the user edits the project meanwhile.  *Correct if* nothing is promoted over an
edit, a row that can still be worked on is not promoted, and what is promoted is
what was frozen last.

**Launch safety** (`app/safe-agent-launch-coordinator.ts`, `agents/launch-authorization-repository.ts`,
`guard/*`) and **budget** (`budget/*`).  State: evidence that expires, reserved and spent
calls, one-time authorisations, active intervals, watches that stop an agent.
*Hard:* a launch fails at any of ten steps with something already taken; watches
race with exits and crashes.  *Correct if* no agent runs unpaid and none past its
limits without a stop on record.

**Process supervision** (`process/*`, `native/TriAgent.ProcessHost`).  State: a
Windows job and a thread per concern in the helper, an event chain and identity
probes in the supervisor.  *Correct if* success is claimed only of a tree that is
gone, and every stop settles.

**Agent workers** (`workers/*`).  Threads with heartbeats, a manager that replaces
them.  *Correct if* one works at a time and a dead one is noticed and accounted for.

**Interruption service, pause controller, rework service, message queue, journal**
(`workflow/*`).  Durable pipelines over one task's rows, each with an await in the
middle.  *Correct if* a pause overwrites nothing, a cleanup claims what it has
verified, and no result of old requirements counts.

**File tracking** (`tracking/*`).  Baselines and change sets of a project others
write to.  *Correct if* each is of one instant, and a named baseline is complete.

**JSONL log** (`logging/*`).  *Correct if* an acknowledged line keeps its place over
partial writes, failures, other writers and crashes.

**Adapters** (`agents/grok/*`, `claude/*`, `codex/*`), **program and screens**
(`app/app-context.ts`, `app/lifecycle-coordinator.ts`, `cli/main.tsx`, `tui/*`),
**build** (`scripts/*`), **review and result protocol**, **configuration and
migrations**: see `PROJECT.json`, which also lists every hazard at its line.

The application does not construct the interruption service, pause controller,
rework service, agent worker manager, journal feed-forward and file watcher:
they are libraries with tests.

### Interactions

A user command becomes an event of the reducer; the orchestrator persists
snapshot and intents in one transaction and then executes the effects; effects
acquire the lock, prepare the workspace and run agents through launch safety,
budget and adapters; an agent's result becomes the next event, from inside the
effect that ran it, so that a whole sequence of stages is one nested call (a
*drive*).  Recovery writes to the same rows from another process and, on
continue, starts a drive of its own.  The screens read; they decide which
commands are offered.

## 2. What is modelled

**WorkflowEngine.**  `snapshot` is the persisted `WorkflowSnapshot`, `effects`
what `transition()` returned last, `minted` the number of attempt identities
handed out.  One action per event type; a refused event changes nothing and is
a stutter.  The validator is `ValidSnapshot`, clause by clause, and it guards
every action through `Accepts`, as in the code.  `Moved` forgets every context
field that `moved()` forgets.  An attempt id and its baseline id always travel
together and are one number; reasons are texts and left out.  PLAN_FAILED,
REVIEW_FAILED, REVIEW_INVALIDATED, MASTER_FAILED and RESULT_PARSE_FAILED do the
same in their states and are one action, `StageFailed`.

**WorkflowLedger** adds `ledger`, a history of what the effects have asked for
(lock, started attempts, freezing, promotion), so that properties can relate
effects to states over whole behaviours.

**TaskOrchestrator.**  `journal[v]` holds the intents written with version
v + 1; `results` is the stage-result action, unique per attempt; `attemptRows`
is `run_attempts`; `agents` the processes alive; `lock` the owner of the task's
active lock; `drives` the effect executions in progress: which instance, which
batch, which position, and how far the run of an agent has got.  A step ends at
an `await` or at a commit.  Spawning an agent and recording its identity are two
steps, a result and its event are two, and so are a finished effect and the
event it leads to.  An agent's process ends on its own (`AgentExits`), when it
is asked to stop, or never as far as a broken event stream can tell
(`RunBreaks`).  Which verdict a result carries is a free choice.  A start effect may
throw before its run is prepared (`EffectThrows`), which leaves its intent behind and no
event.

**TaskSession** adds the live user's commands.  [Q] asks the active agent to
stop, best effort; [C] waits (`waiting`) and then settles the stage or resumes;
[X] disposes of the runtime.  `givenUp` is a history variable: some run was
given up while its process may live on.

**TaskRecovery** adds instances that crash (their drives vanish, rows and
processes stay) and start, what each screen offers, and the three operations as
`BeginRecovery` (reads, up to the process probe) and a commit that checks the
version.  `CommitContinue` takes over the lock and starts a drive;
`CommitCancel` deletes the lock itself and drops the reducer's effects.  `ExitProven`
is the code's proof of exit: the probe has to match the process of an *active* row and
find it exited.  A pending row blocks, and so does a completed one, of which the journal
answers `not_applicable` (section 5).  The latest attempt is the row with the largest
identity, since identities are numbered as their rows are made.  That a continue also
asks for a complete baseline of that attempt is no guard: an active row has one, and a
file of it damaged since is among the reasons of `RecoveryBlocked`.

**ProjectLock** models the service for all tasks and instances: `task`, `owner`
and `expired` are the active rows of `project_locks` (a released row is never a
lock again and is left out), `phase` and `wanted` what the transaction of each
instance's connection has got to, `writer` the connection that holds SQLite's
write lock.  Acquiring is taken apart at the points where another connection
could get in: `BeginImmediate`, the overlap test (`AnswerConflict` or
`FindNoConflict`), `InsertAndCommit`.  The other operations are one statement
each.  `withTransaction`'s ways out are `Committed`, `RollBack` and
`RollBackFails`, which poisons the connection and may not even manage to close
it.  A lease that is over only becomes `expired`; nothing reads that but the
text of a conflict.  Roots are sequences of names, compared as `isSameOrChild`
does.  **ExclusiveRoots** is the promise: a task is granted its root when no
holder's root overlaps it.  The task's own modules keep their single `lock`,
one task's view of these rows.

**CandidateWorkspace.**  `rows` are the workspace rows by attempt, `trees` and
`project` what is on disk, `authority` and `evidence` the orchestrator's memory,
`entering` and `inside` launches and agents at work, `patch` the promotion.
Contents are told apart by who wrote them.  The patch is applied file by file
(`CommitFile`), each step can fail, the user edits at any time and the program
dies at any time (`CrashWorkspace`).  **ProjectWrites** is the promise to the project:
one candidate is written file by file, on files that are as the task found them, and
is all there at the end or put back.  Its `phase` is read off the promotion, the rows
and the stage; attempts, agents, reviews and restarts are stutters of it.

**TaskControl.**  The task row with its version, per attempt its row, process,
stage result and cleanup, the messages, the reviews.  `tc_ops` holds what an
operation has read and not yet written: `BeginSettle`/`EndSettle` are the two ends
of a pause's await, and `Workers` are callers of the cleanup pipeline, whose
stages are `Interrupt`, `GraceEnds`, `Verify`, `CompleteCleanup`.  `Reopened` is
what `resumeCleanup` makes of one that was left.  `Moves` holds the ranks of
message states, replays included.  A launch is in steps of a drive of its own:
`tc_due` are the starts that are due, `PrepareAttempt` makes the row, and `Launch` spawns
the agent after awaits during which the task may have been interrupted and verified
clean, without looking at the task again; `late` is a history variable that marks such an
agent.  `Readable` is false of the snapshot that an interrupt with a pause pending writes,
which every later read of the task rejects: the operations that read it throw.

**BaselineCapture.**  One synchronous scan at a time: discovery, first and second
pass, second discovery; a read is the stat before, the content, the stat after.
Others write between any two steps, and no two writes have one stat.  A directory
and a Git working tree are both initial states.

**HelperBuild.**  Processes publish, wait for, claim and quarantine the lock
directory, start nested steps, and give it back as the code does: check the owner,
rename, look again, delete.  Each may die anywhere.  The replacement of the helper under
the lock is not modelled.

**AgentLaunch.**  Per run: evidence, call, authorisation, interval, process, stop.
Time comes in units (`Tick`); a timer that is due fires before the next unit.
`AppCrashes` forgets timers and subscriptions; `Recover` and `ResumePendingStop`
are what the controller offers afterwards.

**ProcessSupervision.**  `host` are the helper's fields, shared by its threads,
`protocol` the lines not yet handled, `sup` the supervisor's run.  The agent may
start a child before or after the helper sees it; every probe can be inconclusive.

**AgentWorkers.**  `aw_mail` are the messages of the current worker; terminating,
logging a failure and starting are awaits and split the actions around them.  The log
append of a failure may be rejected (`FailureUnlogged`), which abandons the handler.

**GrokRun** follows the prompt file through the launch and the calls of the handle;
a removal fails while the agent has the file open, or for other reasons.  **RunLog**
keeps the file as cells, one write call each.  **AppLifecycle** has the startup
stages, dispatch with drives under way, the stages of a shutdown that may fail (the first
disposes of the supervisor: `FindsRuns` takes the runs there are, `EndsRun` ends them one
by one while drives go on), and `runCli`; what a drive does inside is TaskOrchestrator's and AgentLaunch's.

The modules of MCDurableState and MCAgentRuns share no state in these models; each
behaviour takes one component, named by `focus`, and holds the others still.

An action of a composing module conjoins the reducer's action with what the
code does around it; nothing of the reducer is repeated.

## 3. What the runs check

| run | bounds | shows |
|---|---|---|
| WorkflowLedger | MaxReworks 2, 14 identities, 3 requirement versions | validity, lock demand, rework limit, candidate steps, fresh identities, for every legal order of events |
| DrivesComeToRest | one instance, 1 rework, 14 identities | liveness: what a command starts ends by itself, with no agent alive |
| TaskSession | one instance, 1 hold, 4 identities | effect order and late answers, with drives that overlap |
| TaskRecovery | two instances that crash, 4 identities | one agent, work under a lock, takeover from a finished run, lock at the end |
| ProjectLock | three instances that may die, three roots (a project, a package in it, a sibling whose name it is a prefix of), 3 rows | exclusive roots, serial transactions, the abstract lock, the write lock comes back |
| DurableState | two files, two implementer attempts; two attempts under control, two callers, one message; two paths, two foreign writes, two reads and scans; three builds, one damaged record | promotion against edits and crashes and as the abstract writes of the project, pauses, cleanups, requirements, consistent baselines, the build lock |
| AgentRuns | two launches, one or two calls, 3 units of task time and 2 per attempt, one crash; one child process; two workers; two log writers and three lines; two tasks, one failing stage | budget, proof of cleanup, settlement (liveness), replacement, prompt files, acknowledged lines, order of the shutdown |
| five `violation` runs | smallest that show it | the findings of section 5 |

The properties, and what it takes to break them:

* `InvalidOnlyWhenStoppingAPausingRun`: the only invalid snapshot the reducer
  returns is `interrupting` with a pause still requested (a finding).
* `LockDemandFollowsState`: acquire and release effects, over all paths, agree
  with the state.
* `PromisedReworkIsWithinLimit`: a rework promised behind a pause can still be
  taken up.
* `OnlyAPauseSkipsCandidateSteps`: without a pause the candidate is finalised
  before the review and promotion is asked for at the end.
* `NoAttemptStartsTwice`: no identity is launched twice over pauses, retries and
  reworks.
* `EffectsAreCompletedInOrder`, `OnlyItsOwnOutcomeEndsAnAttempt`: a failed effect
  stops the rest; a late answer cannot end the attempt that replaced its own.
* `OneAgentUnlessGivenUp`: at most one agent process, across stages, repairs,
  restarts and instances, until a run is given up.  The exception is real: after
  the 15 s wait, or a broken event stream, the old process may still be alive.
* `WorkIsDoneUnderALock`, `TakeoverWaitsForLatestRun`,
  `TerminalLockIsAccountedFor`: the lock over the whole life of a task.  The takeover
  is claimed of tasks that were never held or whose runs were never given up; of the
  others it is false (section 5).  What a recovery takes for a proof of exit is the
  code's: the matched process of an active row.
* `RootsAreExclusive`: no two active locks for overlapping roots.  A test that
  ignores expired leases breaks it, because no live owner renews its lease.
* `LockInv`: whoever is in a transaction holds the write lock, and "no conflict"
  is still true when the row is inserted.  A plain BEGIN breaks it.
* `LockImplementsPromise`: takeovers, renewals and audited deletions never grant a
  root that overlaps.  Comparing roots for equality, as an index could, breaks it.
* `WriteLockComesBack`: every transaction gives the write lock back; the exception
  is a connection whose rollback and close both fail.
* `NoWorkOnAPromotedProject`, `EditsSurvivePromotion`, `PromotedCandidateIsCurrent`:
  a promotion that crashed is not taken for one that never began, no edit of the
  user is overwritten between check and write, and a rework's freeze is not
  replaced by an earlier one.
* `WorkspaceImplementsPromise`: through every attempt, rework, failed promotion, crash
  and clean-up the project is written once and from one candidate that does not change
  meanwhile, a promotion counts only with all files as the candidate has them, and a
  roll-back touches nothing that was not written.  A promotion that skips its
  comparison breaks it: a skewed patch would count as promoted.
* `PauseLosesNothing`: between the two ends of a settlement the task may have moved;
  the version test is what keeps the parked run from overwriting it.
* `ExitIsProved`: the operator is let out only when the tree that was there at its
  verification is gone, by whoever cleaned up, before or after a crash.  An agent that a
  launch under way spawns after the verification is excepted, because the code does not
  look for it (section 5).
* `ReviewsMatchRequirements`: a scope change while results are on their way leaves no
  valid review by an attempt with older requirements.
* `ChangeSetsAreOfOneInstant`, `NamedBaselineLoads`: without the second pass a change
  set mixes two instants of the project; a baseline named before its contents are
  stored may not load after a crash.
* `SuccessorIsNeverDeleted`: a build that renamed a stale lock away too late must
  find out before it deletes it, and so must one that releases too late.  Needs three
  builds.
* `EveryAgentIsPaid`: every process has a call that stays spent, within the limit,
  over refusals, releases and crashes.
* `OverrunIsStopped`: a process past a limit has a stop on record.  The exceptions are
  named in the property: a run that the runner lost distorts the task's time.
* `SuccessIsProved`, `StopSettles`, `SettledRunIsKilled`: a cleanup that succeeded left
  no process that the supervisor knew of; a requested stop settles whatever fails;
  the helper takes its job along.
* `FailedRunIsClosed`, `OneWorker`, `DeadWorkerIsNoticed`: heartbeat loss, crash, late
  exit and replacement race over an asynchronous log write.  The first speaks of failures
  that were handled to the end; one whose log append was rejected is not.
* `CompletedRunLeavesNoPrompt`: a failed removal is remembered by the call that
  reports the run's end.
* `AcknowledgedLinesSurvive`: acknowledged lines stay where the answer said.
* `AgentsEndBeforeTheDatabase`: the database is closed behind the agents that the
  shutdown has found, and the program ends in order only with an authorised exit.

**Bounds.**  `MaxReworks` is 1 or 2 instead of the code's 3: the limit is
reached, passed behind a pause and refused at both.  4 identities reach the
review of the first implementation (plan, implementation, review and one repair,
retry or hand-over in between), which is where overlapping drives, crashes and
recovery meet; the whole cycle with rework is covered with 14 by the runs that
have one instance and no hold.  A run that has used its identities stops, so the
configurations switch the deadlock check off; terminal tasks stop as well.  One
hold gives two overlapping drives and the third the continued one starts.  Two
instances are an owner and a rescuer; a third would repeat the rescuer.  In
ProjectLock two of the three roots overlap, so at most two rows are active and
the third is never missing; three instances are one that inserts, one that reads
and one that waits or recovers.
  For the later modules: two files are one
that is written and one that is not yet; two attempts a run and its replacement;
two callers a cleanup and its rival; two foreign writes change a file between its
two readings and once more before the comparison; four units of time pass both
limits with a grace; three lines are one acknowledged, one torn and one after.
One crash suffices where what it leaves is all that a second one would meet.

**Fairness** (needed by `DrivesComeToRest`, `WriteLockComesBack`, `StopSettles`,
`SettledRunIsKilled` and `DeadWorkerIsNoticed`).  Weak fairness of "some drive
takes a step": Node's event loop resumes every settled promise.  Weak fairness
of `AgentExits`: the attempt watch of the budget stops an agent that does not
end.  The user is not fair: nothing has to be pressed.  Weak fairness of each
connection's `TransactionStep`: the callback of a transaction is synchronous code
that waits for nothing once BEGIN IMMEDIATE has returned.  In ProcessSupervision
weak fairness of each thread of the helper, of the supervisor's chain and of a kill
the kernel was asked for; none of the agent, of its end or of a stop request.  In
AgentWorkers weak fairness of the event loop: messages, awaits and, for a thread
that is dead or hung, the heartbeat's timer.

## 4. What is proved

Each theorem is `Spec => []Inv` or `Spec => [][A]_vars` by an inductive invariant, named
below with the reason why the property alone is not inductive.  The constants are arbitrary but for the
assumptions named in the modules, which say what a bound is: a natural number, a finite
set, a number range; `None`, `Free` and 0 name no task, instance or writer.  None says
how large anything is, so the theorems hold for every bound, hence for none.

**Reducer** (`EngineAssumption`: naturals, at least one version).

* `SnapshotSafety`: `EngineSpec => [](TypedSnapshot /\ ShapeInv)`.  Validity alone
  is not inductive: that a resumed pause is valid depends on the parked identity's
  role, on the rework being deferred and below the limit, and on what a stop
  stored as its target.  `ShapeInv` says this: `ShapeOk`, the pause request only
  where a run is executing or being interrupted, and the limit on a promised rework.
* `Validity`, `ReworkBound`: the two properties of the runs that follow.
* `LedgerSafety` adds the history: every identity started was handed out and the one
  parked behind a pause was not started; a lock was asked for exactly in the states
  that need it, where `retry_environment` marks the waiting that has given it back; an
  interrupted run counts as the stage it will be continued at.  From it `EngineTyping`
  (of which TLC checks the reducer's part in `TaskTypeOK`), `LockDemand`,
  `CandidateSteps` and, as an action property, `SingleStart`.

**The whole task** (`OrchestratorAssumption`, `SessionAssumption`), for any set of
instances, identities and holds.

* `TaskImplementsEngine`: `TaskSpec => EngineSpec`.  Every step is an accepted event
  of the reducer, an identity minted for a format repair, or leaves the snapshot alone:
  no crash, recovery, hold or race writes a snapshot the reducer did not return.
  Hence `TaskValidity` and `TaskReworkBound` of the persisted task.
* `TaskSafety`: the task's own inductive invariant, `TaskSafe`.  Nothing ties a drive to
  the state of the task but the batch of intents it is working off, so the invariant is
  about batches.  `JournalInv` says what the batch of the latest event contains in each
  state (`Fits`).  `DrivesInv` says where each drive stands: what is behind it is
  completed, what is ahead is an intent, no two drives share a batch, and one that
  would still acquire, release or promote belongs to the state that calls for it.
  `SingleInv` says that, until a run is given up, the only drive is that of the latest
  event (or the release that a cancellation has overtaken); `AgentInv`, that then an
  agent belongs to that drive; `TaskLockInv`, how the lock follows from the state and the
  status of the last intents; `RecoveryInv`, that what a recovery has read is still so if
  its version is.
* From it `TaskTyping`, `EffectOrder`, `OneAgent`, `LockCoversWork`, `TerminalLock`, and
  the action properties `OwnOutcomes` and `SafeTakeovers`: everything the TaskSession and
  TaskRecovery runs check, for any number of instances that crash and recover.

**Project lock** (`LockAssumption`: roots are sequences of names).

* `LockSafety`: `LockSpec => []RootInv`.  Exclusion is not inductive: a row is
  inserted on the strength of an earlier read.  `RootInv` adds that transactions
  are serial and that the finding of no conflict still holds.
* `Exclusion`, `Serial`: `RootsAreExclusive` and `LockInv`.
* `LockKeepsPromise`: `LockSpec => LockImplementsPromise`.  An insertion is a grant,
  the end of a row a withdrawal, everything else a stutter; only exclusion tells
  that a row that ends was the only one of its task.

**Candidate workspace**, for any files and attempts.  `WorkspaceSafety`: at most one row
can be taken up again (`OneCandidate`), only the commit phase of a promotion writes to
the project and never beside a row in work (`WritesInCommit`), the files a commit has
checked are unedited but for edits after the check (`StagedAreUnedited`), and past the
review there is evidence and it is current (`EvidenceIsCurrent`; at the review a crash may
have taken it).  From it `NoWorkAfterPromotion`, `EditsSurvive`, `PromotionIsCurrent`.
`WorkspaceKeepsPromise`: `WorkspaceSpec => WorkspaceImplementsPromise`.  `BeginPatch` or
`Stage` begins, by whichever the patch gets past its last comparison; the mapping needs
that a promoted row is of a completed task, so that nothing begins again (`PromiseInv`,
with what a patch has written and has still to write being its candidate's changes).

**Control** (`ControlAssumption`: attempts are 1 to their number), for any attempts,
messages and callers.  `ControlSafety`: a cleanup that is completed, or about to say so,
has seen its process gone, and a process that is alive all the same was spawned after it
was found clean (`CleanupInv`); the requirement version of an attempt that has a row is never written again (`ReviewInv`); a settlement that
still sees the row it has read sees the attempt it waits for, running, with the pause
(`SettlementInv`).  From it `ExitNeedsProof`, `ReviewsAreCurrent`, `PauseOverwritesNothing`.

**One run** (`RunProofs`).

* `PromptIsRemoved`: a binding is done without failure only when the file is gone.
* `AgentsArePaid`: a process has a spent call in every phase of its run, and the calls
  that count number at most the limit, for any number of runs; by cardinalities.
* `OverrunsAreStopped`: while a counted run is not asked to stop, its watches show exactly
  the time that is left to it and to the task (`Watched`); what a watch of an earlier run
  inherits into a launch is covered by `Affordable`, the task's time when the run was
  authorised, and a tick counts one run because the others have ended (`PhaseOK`).  Where
  a run is lost this breaks, and the property says so.  The total is a fold over the
  runs: that it grows with one run's time is proved through sums over sets of runs, by
  the library's well-foundedness of strict subsets, without an induction theorem.
* `WorkersRunAlone`, `FailuresAreClosed`: the live thread is the current session's, or
  during a start its predecessor's.
* `ExitIsOrderly`: no task is worked on while composing or without a supervisor, and none
  has an agent that the shutdown has found once it is past its cleanup.
* `CleanEndIsProved`: every step that announces a success has probed every process the
  supervisor knows of; the invariant is one of types, the argument is about the steps.
* `AcknowledgedLinesStay`: a writer holds the lock file, its offset is behind every
  acknowledged line, what it has written of its line is in the file, and a repair cuts at
  the end of a complete line (`LogInv`).
* `RunsTyped`: `RunsSpec => []RunsTypeOK`, each component in its own behaviours and held
  still in the others'.  A watch stays within its limit because it is set to what is left
  of it and one that is due fires before it is counted down again (`LimitedWatches`); what
  a repair leaves of the log and tells its index is typed because it cuts at a cell
  (`LinesInv`).

**On disk** (`DiskProofs`).

* `SuccessorsAreSafe`: a claim on a stale lock stays founded (`Founded`): its owner was
  dead or its record damaged, and neither is ever undone.
* `CaptureSafety`, `ChangesAreOfOneInstant`, `NamedBaselinesLoad`: what the first pass read
  of a path is still there or superseded by a later stamp, and once the second pass is
  over it is what was there at the instant between the passes (`ScanInv`); baselines and
  reports are built on such scans (`BaselinesInv`, `ReportInv`).
* `DurableTyped`: `DurableSpec => []DurableTypeOK`, from the types of the four components,
  which their safety invariants contain.

Proved in the course of this are also lemmas about the models' helpers: effects of a new
attempt, intents, rows of an edited function, sums over runs, line ends, least elements.

Assumptions that came in with the proofs are `ControlAssumption`, the finiteness in
`LaunchAssumption`, `0 \notin LogWriters` and `FilePaths # {}`: they name what every
configuration does.

**Only model-checked:**

* liveness (`DrivesComeToRest`, `StopSettles`, `SettledRunIsKilled`, `WriteLockComesBack`,
  `DeadWorkerIsNoticed`): beyond this prover, as is ENABLED.
* The five violated properties, of course.

## 5. Disagreements found

* `TransitionedSnapshotIsValid` (code bug): interrupting or cancelling a run with
  a requested pause yields an invalid snapshot; every later event is refused.
* `ReviewedCandidateIsFrozen`: a pause after the implementation loses
  FinalizeCandidateChangeSet, so the review sees a candidate that was never
  frozen.  (`MASTER_APPROVED` behind a pause loses the promotion the same way.)
* `CrashedRunCanBeInspected`: a task whose instance died while a stage was
  executing admits no recovery operation, even with its processes gone.
* `CancelledSessionReleasesLock`: a task cancelled from its live session keeps its
  state and its project lock.
* `ExitWaitsForTheTask`: Q or Esc leaves while the program drives a recovered task,
  because the gate asks the live session, which knows nothing of that drive.

Observed on the way, at the code, without a run of their own:

* Task: a lock conflict leaves it in `checking_environment`, where the design's table
  (`docs/superpowers/specs/2026-07-12-triagent-design.md:174`) has `awaiting_user`; a
  blocked promotion leaves a completed task with its lock; the key of a continue is bound to the
  latest attempt row, so after a crash between its commit and the new row every
  later continue answers "already applied"; continue from the live session can
  launch under a lock another instance has taken over.  A recovery's version check
  does not see a launch: when [C] has waited its 15 s in vain, the old drive may still
  launch an agent (of its next effect, or a repair of its result) after the recovery has
  read the evidence of the run before, and the takeover then hands the project to a
  second agent.  (The proof of `TakeoverWaitsForLatestRun` stopped there;
  with one hold, two instances and 4 identities TLC finds it in 29 states.)  By the same
  wait an inspection may begin while the interrupted run's agent is alive, although the
  design's line 516 has it only after the whole process tree has ended.
* Recovery: the proof of exit asks for a matched process
  (`restart-recovery-service.ts:518`), and the journal answers `not_applicable` when the
  latest attempt's row is completed (`workflow-journal.ts:575`).  So a task that waits for
  its user after a run that ended well, with its instance dead, can be neither continued
  nor cancelled by another one.
* Workspace: the patch of a file without a final newline is skewed, so that the
  verification fails into `recovery_required`; the evidence is compared by task and
  workspace, not by attempt; a failed materialisation is never deleted.
* Launch and budget: exhaustion at the call limit is rolled back with its
  transaction; a reservation left by a crash leaks a call; an error while events are
  collected loses a live agent with its interval open; the application calls neither
  `recover` nor `resumePendingStop`.
* Control: an agent can be spawned after its interrupt's cleanup was verified and the
  exit allowed: `runPreparedAgent` (`command-runner.ts:237`) checks the intent, awaits
  hooks, safety and authorisation, and starts the agent without reading the task again.
  After an interrupt with a pause pending every read of the task throws, so its cleanup
  cannot be completed.  `applyScopeChange` ignores the task's state and leaves the replaced
  attempt's process running; a second interrupt starts a second pipeline over one
  action; a message that is delivered, acknowledged or failed blocks the startup
  reconciliation for good.
* Workers: a rejected log append (`agent-worker-manager.ts:1152`) abandons the failure
  handler with the attempt still active and the task waiting for it; a run that ended
  stopped, timed out or failed without a `worker_failed` message can never be replaced; one that failed on record is replaced without
  `allowReplacementAfterReconcile` (required by `agent-worker-manager.ts:219`) when a
  late success turns its session from `failed` to `exited`; `close()` during a start leaks a worker.
* Supervision: output relays are not drained before `exited`, so the last lines can
  be lost.
* Log: a line queued before a failed append is still written; a corrupt tail
  makes the file impossible to open; a crash leaves the `.lock` for good.
* Tracking: a large file changed in place with its size kept is unseen in a plain
  directory.
* Build: a failed replacement deletes its backup in `copy-native.mjs`'s `finally`
  although `atomic-replace.mjs:289` says never to.
* Grok: a failing session row leaves the prompt file; a removal that failed is not
  tried again; a crash leaves files nothing sweeps.
* Program: during a shutdown a drive can still launch an agent after the supervisor
  is disposed of; after a refused exit nothing is accepted any more, a second
  termination included.

## 6. Plan

1. The file watcher, once the application constructs it.
2. The reconciliation's decision table as an operator against the design's.

## 7. Not modelled

Prompts, plans, reviews, diffs and reports (data; verdicts are free choices), the
adapters' command lines and formats of external programs, rendering, settings,
migrations and the packaging (the atomic replacement of the native helper included),
redaction, ignore rules, the file watcher and the supervisor proxy of a worker.  What health probes and the guard's rules
answer is a free choice in AgentLaunch; in TaskOrchestrator the whole launch is the
choice between `Spawn` and `LaunchRefused`.  CandidateWorkspace has its own view of
the task's stages (`stage`) and is not composed with TaskOrchestrator: the product is
beyond TLC, and what they share is one order of effects.
