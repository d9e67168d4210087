----------------------------- MODULE TaskControl ------------------------------
(* The services that change a running task from outside of the drive: pausing    *)
(* after a run (src/src/workflow/pause-controller.ts), interrupting one with its *)
(* process tree (interruption-service.ts), messages to the agent                 *)
(* (message-queue.ts), changes of scope (rework-service.ts), and feeding a       *)
(* durable stage result forward after a restart (reconciler.ts,                  *)
(* workflow-journal.ts).  They share one row of the task: each reads it, some    *)
(* wait, and each writes it only under the version it has read.                  *)
(*                                                                               *)
(* The stages are one state here, `running`: a stage's result starts the next    *)
(* one with the next attempt.  WorkflowEngine has what is left out.              *)
EXTENDS Naturals, FiniteSets, FiniteSetsExt

CONSTANTS TaskAttempts,  \* attempts of the task, an interval of Nat starting at 1
          Workers,       \* callers that clean up or reconcile at the same time
          Messages       \* messages of the user

ASSUME ControlAssumption ==
    /\ IsFiniteSet(TaskAttempts) /\ IsFiniteSet(Messages)
    /\ 1 \in TaskAttempts /\ TaskAttempts = 1 .. Cardinality(TaskAttempts)

VARIABLES tc_task,  \* the row of tasks
          tc_att,   \* per attempt: its row, its process, its stage result, its cleanup
          tc_msg,   \* the state of each message
          tc_rev,   \* reviews: the attempt that wrote it, and whether it is valid
          tc_ops,   \* operations that have read and not yet written
          tc_due    \* launches that drives have before them, with their requirements

tcVars == <<tc_task, tc_att, tc_msg, tc_rev, tc_ops, tc_due>>

Idle == [at |-> "none", attempt |-> 0]

ControlTypeOK ==
    /\ tc_task \in [state : {"running", "paused_after_run", "interrupting", "cleanup_failed",
                             "interrupted_needs_inspection"},
                    attempt : {0} \cup TaskAttempts, last : TaskAttempts, pause : BOOLEAN,
                    seen : BOOLEAN, req : 1 .. Cardinality(Messages) + 1]
    /\ tc_att \in [TaskAttempts ->
          [row : {"none", "pending", "active", "completed"}, req : 0 .. Cardinality(Messages) + 1,
           proc : {"none", "alive", "gone"}, result : {"none", "durable", "consumed"},
           cleanup : {"none", "intent", "failed", "completed"}, late : BOOLEAN]]
    /\ tc_msg \in [Messages -> [kind : {"none", "operational", "scope_change"},
                                state : {"absent", "queued", "delivered", "acknowledged",
                                         "applied", "retry_safe", "dead_letter"}]]
    /\ tc_rev \in SUBSET (TaskAttempts \X BOOLEAN)
    /\ tc_ops \in [settle : [attempt : {0} \cup TaskAttempts, terminal : BOOLEAN],
                   work : [Workers -> [at : {"none", "stopping", "forcing", "verified", "feeding"},
                                       attempt : {0} \cup TaskAttempts]]]
    /\ tc_due \in SUBSET [attempt : TaskAttempts, req : 1 .. Cardinality(Messages) + 1]

Task == tc_task
Alive(a) == tc_att[a].proc = "alive"
Unused == {a \in TaskAttempts : a > Task.last}
Fresh == Min(Unused)

\* #writeSnapshot: one version further.  `seen` stands for the version number: the
\* row is still the one a settlement under way has read.
Writes(task) == tc_task' = [task EXCEPT !.seen = FALSE]

\* A stage with a new attempt, and the effects that launch it, which a drive then
\* executes one by one whatever becomes of the task.
Begins(task) == /\ Unused # {}
                /\ Writes([task EXCEPT !.state = "running", !.attempt = Fresh,
                                       !.last = Fresh, !.pause = FALSE])
                /\ tc_due' = tc_due \cup {[attempt |-> Fresh, req |-> task.req]}

\* #requireTask: TaskRepository.get rejects the snapshot that an interrupt of a run with
\* a pause pending has written past it, and every later read of the task throws.
Readable == ~(Task.state = "interrupting" /\ Task.pause)

Working(w, at) == [tc_ops EXCEPT !.work[w] = at]
Free(w) == tc_ops.work[w].at = "none"
At(w, at) == tc_ops.work[w].at = at
Of(w) == tc_ops.work[w].attempt
-----------------------------------------------------------------------------
\* The drive and the agent

\* CreateAttemptBaseline
PrepareAttempt(d) ==
    /\ d \in tc_due /\ tc_att[d.attempt].row = "none"
    /\ tc_att' = [tc_att EXCEPT ![d.attempt] = [@ EXCEPT !.row = "pending", !.req = d.req]]
    /\ UNCHANGED <<tc_task, tc_msg, tc_rev, tc_ops, tc_due>>

\* The tree of attempt a has been verified clean, for the interrupt under way or before.
FoundClean(a) == \/ tc_att[a].cleanup = "completed"
                 \/ \E w \in Workers : At(w, "verified") /\ Of(w) = a

\* runPreparedAgent: the action's intent is checked, then the guard, the budget and the
\* authorisation are awaited, then the agent is spawned.  The task is not read again, so
\* an interrupt may have come and gone; `late` remembers, as a history, that it has.
Launch(d) ==
    /\ d \in tc_due /\ tc_att[d.attempt].row = "pending"
    /\ tc_att' = [tc_att EXCEPT ![d.attempt] = [@ EXCEPT !.row = "active", !.proc = "alive",
                                                         !.late = FoundClean(d.attempt)]]
    /\ tc_due' = tc_due \ {d}
    /\ UNCHANGED <<tc_task, tc_msg, tc_rev, tc_ops>>

\* An effect throws or the launch is refused; the stage's failure is WorkflowEngine's.
LaunchFails(d) ==
    /\ d \in tc_due
    /\ tc_due' = tc_due \ {d}
    /\ UNCHANGED <<tc_task, tc_att, tc_msg, tc_rev, tc_ops>>

ProcessEnds(a) ==
    /\ Alive(a)
    /\ tc_att' = [tc_att EXCEPT ![a].proc = "gone"]
    /\ UNCHANGED <<tc_task, tc_msg, tc_rev, tc_ops, tc_due>>

\* Mutation: the attempt's requirement version is not compared.
OwnAttemptMayAdvance(a) == Readable /\ tc_att[a].row \in {"pending", "active"}

\* assertAttemptMayAdvance
AttemptMayAdvance(a) == /\ Readable
                        /\ tc_att[a].row \in {"pending", "active"}
                        /\ tc_att[a].req = Task.req

\* The verdict of a run that reviews, when the gate lets it pass.
RecordReview(a) ==
    /\ AttemptMayAdvance(a)
    /\ tc_rev' = tc_rev \cup {<<a, TRUE>>}
    /\ UNCHANGED <<tc_task, tc_att, tc_msg, tc_ops, tc_due>>

\* The end of the run and its stage result are made durable.
SaveResult(a) ==
    /\ tc_att[a].row = "active" /\ tc_att[a].proc = "gone"
    /\ tc_att' = [tc_att EXCEPT ![a] = [@ EXCEPT !.row = "completed", !.result = "durable"]]
    /\ UNCHANGED <<tc_task, tc_msg, tc_rev, tc_ops, tc_due>>

\* The stage's event reduces: to the next stage, or to a pause that keeps it.
Reduces(a) ==
    /\ Task.state = "running" /\ Task.attempt = a
    /\ IF Task.pause
       THEN /\ Writes([Task EXCEPT !.state = "paused_after_run", !.attempt = 0, !.pause = FALSE])
            /\ UNCHANGED tc_due
       ELSE Begins(Task)

ConsumeResult(a) ==
    /\ tc_att[a].result = "durable"
    /\ Reduces(a)
    /\ tc_att' = [tc_att EXCEPT ![a].result = "consumed"]
    /\ UNCHANGED <<tc_msg, tc_rev, tc_ops>>
-----------------------------------------------------------------------------
\* PauseController

RequestPauseAfterRun ==
    /\ Task.state = "running" /\ ~Task.pause
    /\ Writes([Task EXCEPT !.pause = TRUE])
    /\ UNCHANGED <<tc_att, tc_msg, tc_rev, tc_ops, tc_due>>

\* onAttemptSettled up to the wait for the supervisor: the rows are read before it.
BeginSettle(a) ==
    /\ tc_ops.settle.attempt = 0
    /\ Task.pause /\ Task.attempt = a /\ Task.state = "running"
    /\ tc_ops' = [tc_ops EXCEPT !.settle =
          [attempt |-> a, terminal |-> tc_att[a].row = "completed"]]
    /\ tc_task' = [Task EXCEPT !.seen = TRUE]
    /\ UNCHANGED <<tc_att, tc_msg, tc_rev, tc_due>>

\* Mutation: the task is written whatever has happened to it during the wait.
AnyVersion == TRUE

\* UPDATE ... WHERE workflow_version = ?
StillCurrent == Task.seen

\* Both proofs are required: the row and the supervisor agree that the run is over.
EndSettle ==
    LET op == tc_ops.settle IN
    /\ op.attempt # 0
    /\ tc_ops' = [tc_ops EXCEPT !.settle = [attempt |-> 0, terminal |-> FALSE]]
    /\ IF op.terminal /\ ~Alive(op.attempt) /\ StillCurrent
       THEN Writes([Task EXCEPT !.state = "paused_after_run", !.attempt = 0, !.pause = FALSE])
       ELSE tc_task' = [Task EXCEPT !.seen = FALSE]
    /\ UNCHANGED <<tc_att, tc_msg, tc_rev, tc_due>>

\* resume: the target is consumed once, under the version.
Resume ==
    /\ Task.state = "paused_after_run"
    /\ Begins(Task)
    /\ UNCHANGED <<tc_att, tc_msg, tc_rev, tc_ops>>
-----------------------------------------------------------------------------
\* InterruptionService

\* The intent is durable before the process is touched.
Interrupt(w) ==
    LET a == Task.attempt IN
    /\ Free(w) /\ Task.state = "running"
    /\ Writes([Task EXCEPT !.state = "interrupting"])
    /\ tc_att' = [tc_att EXCEPT ![a].cleanup = "intent"]
    /\ tc_ops' = Working(w, [at |-> "stopping", attempt |-> a])
    /\ UNCHANGED <<tc_msg, tc_rev, tc_due>>

\* #reopenOrCreateCleanupAction: whatever has become of the action, it is open again.
Reopened(a) == [tc_att EXCEPT ![a].cleanup = "intent"]

\* resumeCleanup, also what a second interrupt does.
ResumeCleanup(w) ==
    /\ Free(w) /\ Readable /\ Task.state \in {"interrupting", "cleanup_failed"}
    /\ IF Task.state = "interrupting" THEN UNCHANGED tc_task
                                      ELSE Writes([Task EXCEPT !.state = "interrupting"])
    /\ tc_att' = Reopened(Task.attempt)
    /\ tc_ops' = Working(w, [at |-> "stopping", attempt |-> Task.attempt])
    /\ UNCHANGED <<tc_msg, tc_rev, tc_due>>

\* #failCleanup: the workflow only if it still waits for a cleanup.  It reads the task
\* first, so an unreadable one ends the operation with its action's intent left.
FailCleanup(w) ==
    /\ \/ ~Readable /\ UNCHANGED <<tc_task, tc_att>>
       \/ /\ Readable
          /\ tc_att' = [tc_att EXCEPT ![Of(w)].cleanup = IF @ = "intent" THEN "failed" ELSE @]
          /\ IF Task.state = "interrupting" THEN Writes([Task EXCEPT !.state = "cleanup_failed"])
                                            ELSE UNCHANGED tc_task
    /\ tc_ops' = Working(w, Idle)
    /\ UNCHANGED <<tc_msg, tc_rev, tc_due>>

\* The grace is over: the tree is clean, or its job is closed.
GraceEnds(w) ==
    /\ At(w, "stopping")
    /\ \/ ~Alive(Of(w)) /\ tc_ops' = Working(w, [at |-> "verified", attempt |-> Of(w)])
       \/ tc_ops' = Working(w, [at |-> "forcing", attempt |-> Of(w)])
    /\ UNCHANGED <<tc_task, tc_att, tc_msg, tc_rev, tc_due>>

\* Mutation: a forced close that did not fail needs no proof.
TrustTheForce(w) == TRUE

\* verifyTreeGone answers `clean` for a tree that is gone only.
TreeGone(w) == ~Alive(Of(w))

Verify(w) ==
    /\ At(w, "forcing")
    /\ \/ /\ TreeGone(w)
          /\ tc_ops' = Working(w, [at |-> "verified", attempt |-> Of(w)])
          /\ UNCHANGED <<tc_task, tc_att, tc_msg, tc_rev, tc_due>>
       \/ FailCleanup(w)

\* The project is rescanned, then #completeCleanup reduces PROCESS_TREE_CLEAN.
CompleteCleanup(w) ==
    /\ At(w, "verified")
    /\ \/ /\ Readable /\ Task.state = "interrupting" /\ tc_att[Of(w)].cleanup = "intent"
          /\ Writes([Task EXCEPT !.state = "interrupted_needs_inspection", !.attempt = 0])
          /\ tc_att' = [tc_att EXCEPT ![Of(w)].cleanup = "completed"]
          /\ tc_ops' = Working(w, Idle)
          /\ UNCHANGED <<tc_msg, tc_rev, tc_due>>
       \/ FailCleanup(w)

\* The operator has inspected the files and goes on.
Continue ==
    /\ Task.state = "interrupted_needs_inspection"
    /\ Begins(Task)
    /\ UNCHANGED <<tc_att, tc_msg, tc_rev, tc_ops>>

\* canExitTui looks at the state and at the latest cleanup.
LatestCleanup == Max({0} \cup {a \in TaskAttempts : tc_att[a].cleanup # "none"})
CanExitTui ==
    /\ Task.state \notin {"interrupting", "cleanup_failed"}
    /\ \A a \in TaskAttempts : a = LatestCleanup => tc_att[a].cleanup = "completed"
-----------------------------------------------------------------------------
\* MessageQueue and ReworkService

SetMessage(m, from, to) == /\ tc_msg[m].state \in from
                           /\ tc_msg' = [tc_msg EXCEPT ![m].state = to]

Moves(m, from, to) == SetMessage(m, from, to) /\ UNCHANGED <<tc_task, tc_att, tc_rev, tc_ops, tc_due>>

Enqueue(m, kind) ==
    /\ tc_msg[m].state = "absent"
    /\ tc_msg' = [tc_msg EXCEPT ![m] = [kind |-> kind, state |-> "queued"]]
    /\ UNCHANGED <<tc_task, tc_att, tc_rev, tc_ops, tc_due>>

\* deliverWhenSupported
Deliver(m, realTime) ==
    /\ realTime \/ \A a \in TaskAttempts : Task.attempt = a => ~Alive(a)
    /\ Moves(m, {"queued"}, "delivered")

MarkAcknowledged(m) == Moves(m, {"delivered"}, "acknowledged")

MarkFailed(m) == \E kind \in {"retry_safe", "dead_letter"} :
                     Moves(m, {"queued", "delivered", "acknowledged"}, kind)

RetryFailed(m) == Moves(m, {"retry_safe"}, "queued")

ApplyOperational(m) ==
    Readable /\ tc_msg[m].kind = "operational" /\ Moves(m, {"acknowledged"}, "applied")

Invalidated == {<<r[1], FALSE>> : r \in tc_rev}

\* #applyScopeChange: one transaction, in every state of the task.
ApplyScopeChange(m) ==
    /\ Readable /\ tc_msg[m].kind = "scope_change"
    /\ SetMessage(m, {"acknowledged"}, "applied")
    /\ Begins([Task EXCEPT !.req = @ + 1])
    /\ tc_rev' = Invalidated
    /\ UNCHANGED <<tc_att, tc_ops>>
-----------------------------------------------------------------------------
\* Restart

CrashAndRestart ==
    /\ tc_ops' = [settle |-> [attempt |-> 0, terminal |-> FALSE], work |-> [w \in Workers |-> Idle]]
    /\ tc_due' = {}
    /\ tc_ops # tc_ops' \/ tc_due # {}
    /\ UNCHANGED <<tc_task, tc_att, tc_msg, tc_rev>>

\* Of the rows of run_attempts, the last by identity stands for the last by start.
LastAttempt == Max({0} \cup {a \in TaskAttempts : tc_att[a].row # "none"})

\* validateAttemptProcess: a pending attempt is unresolved.
ProcessSettled ==
    \A b \in TaskAttempts : b = LastAttempt =>
        tc_att[b].row # "pending" /\ (tc_att[b].row = "active" => ~Alive(b))

\* messageDirectives: a message on its way is not sent again, nor is anything else done.
MessagesSettled == \A m \in Messages : tc_msg[m].state \in {"absent", "queued", "applied"}

\* decideStartupReconciliation, as far as it decides for feed_forward: by a start of
\* the program, which finds no operation under way.
DecideFeedForward(w, a) ==
    /\ Free(w) /\ Readable /\ tc_ops.settle.attempt = 0 /\ tc_due = {}
    /\ \A v \in Workers : tc_ops.work[v].at \in {"none", "feeding"}
    /\ ProcessSettled /\ MessagesSettled
    /\ tc_att[a].result = "durable"
    /\ tc_ops' = Working(w, [at |-> "feeding", attempt |-> a])
    /\ UNCHANGED <<tc_task, tc_att, tc_msg, tc_rev, tc_due>>

\* #consumptionExists
NotConsumed(a) == tc_att[a].result = "durable"

\* applyFeedForward: exactly once, if the reducer still accepts the event.
ApplyFeedForward(w) ==
    LET a == Of(w) IN
    /\ At(w, "feeding")
    /\ tc_ops' = Working(w, Idle)
    /\ IF NotConsumed(a) /\ Task.state = "running" /\ Task.attempt = a
       THEN Reduces(a) /\ tc_att' = [tc_att EXCEPT ![a].result = "consumed"]
       ELSE UNCHANGED <<tc_task, tc_att, tc_due>>
    /\ UNCHANGED <<tc_msg, tc_rev>>
-----------------------------------------------------------------------------
ControlInit ==
    /\ tc_task = [state |-> "running", attempt |-> 1, last |-> 1, pause |-> FALSE,
                  seen |-> FALSE, req |-> 1]
    /\ tc_att = [a \in TaskAttempts |-> [row |-> "none", req |-> 0, proc |-> "none",
                                         result |-> "none", cleanup |-> "none",
                                         late |-> FALSE]]
    /\ tc_msg = [m \in Messages |-> [kind |-> "none", state |-> "absent"]]
    /\ tc_rev = {}
    /\ tc_ops = [settle |-> [attempt |-> 0, terminal |-> FALSE], work |-> [w \in Workers |-> Idle]]
    /\ tc_due = {[attempt |-> 1, req |-> 1]}

ControlNext ==
    \/ \E d \in tc_due : PrepareAttempt(d) \/ Launch(d) \/ LaunchFails(d)
    \/ \E a \in TaskAttempts : \/ ProcessEnds(a) \/ RecordReview(a)
                               \/ SaveResult(a) \/ ConsumeResult(a) \/ BeginSettle(a)
    \/ RequestPauseAfterRun \/ EndSettle \/ Resume \/ Continue \/ CrashAndRestart
    \/ \E w \in Workers : \/ Interrupt(w) \/ ResumeCleanup(w) \/ GraceEnds(w) \/ Verify(w)
                          \/ CompleteCleanup(w) \/ ApplyFeedForward(w)
                          \/ \E a \in TaskAttempts : DecideFeedForward(w, a)
    \/ \E m \in Messages : \/ MarkAcknowledged(m) \/ MarkFailed(m) \/ RetryFailed(m)
                           \/ ApplyOperational(m) \/ ApplyScopeChange(m)
                           \/ \E realTime \in BOOLEAN : Deliver(m, realTime)
                           \/ \E kind \in {"operational", "scope_change"} : Enqueue(m, kind)

ControlSpec == ControlInit /\ [][ControlNext]_tcVars
-----------------------------------------------------------------------------
\* The operator may leave only if no process of the latest interrupted attempt is alive
\* that was there when its tree was verified, whoever cleaned up and however often.  An
\* agent spawned after that, by a launch that was under way, is not looked for.
ExitIsProved ==
    CanExitTui => \A a \in TaskAttempts : a = LatestCleanup /\ Alive(a) => tc_att[a].late

\* A pause takes effect only on the attempt it waited for: whatever was written to
\* the task during the wait (an interrupt, a change of scope, a result) is kept.
PauseLosesNothing ==
    [][(tc_task'.state = "paused_after_run" /\ Task.state # "paused_after_run")
           => /\ Task.state = "running" /\ Task.pause
              /\ tc_att[Task.attempt].row = "completed" /\ ~Alive(Task.attempt)]_tcVars

\* Every valid review was written by an attempt that saw the current requirements.
ReviewsMatchRequirements == \A r \in tc_rev : r[2] => tc_att[r[1]].req = Task.req
=============================================================================
