----------------------------- MODULE AgentWorkers -----------------------------
(* Agents run in worker threads: the manager of the main process                 *)
(* (src/src/workers/agent-worker-manager.ts), the worker that parses an agent's  *)
(* output (agent-worker.ts), the heartbeat between them (worker-heartbeat.ts)    *)
(* and the messages they exchange (worker-protocol.ts).                          *)
(*                                                                               *)
(* Session s is the s-th worker and runs attempt s.  Output and events, which    *)
(* change no state but the log and a display queue, are left out, as is the gate *)
(* of AgentLaunch.                                                               *)
EXTENDS Naturals, Sequences, FiniteSets, SequencesExt

CONSTANT MaxSessions    \* bound: workers started in a behaviour

ASSUME WorkersAssumption == MaxSessions \in Nat

Sessions == 1 .. MaxSessions

VARIABLES aw_sess,  \* per session: the manager's Session and the thread itself
          aw_att,   \* the stored status of attempt s
          aw_task,  \* the stored workflow snapshot
          aw_mgr,   \* the manager: current session, pending replacement, start under way
          aw_mail   \* messages from the current worker, not yet handled

awVars == <<aw_sess, aw_att, aw_task, aw_mgr, aw_mail>>

Outcomes == {"succeeded", "failed", "timed_out", "stopped"}

WorkersTypeOK ==
    /\ aw_sess \in [Sessions ->
          [state : {"none", "running", "failed", "exited", "terminated"}, persisted : BOOLEAN,
           handler : {"none", "logging", "lost", "done"}, listening : BOOLEAN, watching : BOOLEAN,
           thread : {"none", "waiting", "busy", "settled", "hung", "dead", "gone"}]]
    /\ aw_att \in [Sessions -> {"none", "active"} \cup Outcomes]
    /\ aw_task \in [state : {"idle", "running", "interrupted"}, attempt : 0 .. MaxSessions]
    /\ aw_task.state = "running" <=> aw_task.attempt # 0
    /\ aw_mgr \in [cur : 0 .. MaxSessions, allowed : BOOLEAN, starting : BOOLEAN,
                   prev : 0 .. MaxSessions, started : 0 .. MaxSessions,
                   closed : {"no", "closing", "yes"}]
    /\ aw_mail \in Seq(Outcomes \cup {"worker_failed", "garbled", "error", "exit"})

Live(s) == aw_sess[s].thread \in {"waiting", "busy", "settled", "hung"}
-----------------------------------------------------------------------------
\* The worker thread of session s

\* A thread writes into the port of its session only.
Post(s, messages) == aw_mail' = IF aw_mgr.cur = s THEN aw_mail \o messages ELSE aw_mail

Thread(s, from, to) == /\ aw_sess[s].thread = from
                       /\ aw_sess' = [aw_sess EXCEPT ![s].thread = to]
                       /\ UNCHANGED <<aw_att, aw_task, aw_mgr>>

\* #startRun up to its wait for the process
ReceiveStartRun(s) == Thread(s, "waiting", "busy") /\ UNCHANGED aw_mail

\* The process has ended and its events are emitted.
PostRunExited(s, outcome) == Thread(s, "busy", "settled") /\ Post(s, <<outcome>>)

\* #failRun: reading the agent or its parser threw
FailRun(s) == Thread(s, "busy", "settled") /\ Post(s, <<"worker_failed", "failed">>)

\* A malformed or a second start_run is answered with a failure; the run goes on.
Complain(s) ==
    /\ aw_mail = <<>> /\ Thread(s, "busy", "busy") /\ Post(s, <<"worker_failed">>)

\* A message over the byte limit or outside of the schema
PostGarbled(s) == aw_mail = <<>> /\ Thread(s, "busy", "busy") /\ Post(s, <<"garbled">>)

Hang(s) == \E from \in {"waiting", "busy"} : Thread(s, from, "hung") /\ UNCHANGED aw_mail

Crash(s) ==
    \E from \in {"waiting", "busy", "settled", "hung"}, error \in {<<>>, <<"error">>} :
        Thread(s, from, "dead") /\ Post(s, error \o <<"exit">>)
-----------------------------------------------------------------------------
\* Handlers of the manager

Cur == aw_mgr.cur

\* #handleWorkerFailure up to its await: once per session.
BeginFailure(sess, s) ==
    IF sess[s].persisted THEN sess
    ELSE [sess EXCEPT ![s].persisted = TRUE, ![s].state = "failed", ![s].watching = FALSE,
                      ![s].handler = "logging"]

\* markCompleted refuses an attempt that is not active.
MarkCompleted(s, outcome) == IF aw_att[s] = "active" THEN [aw_att EXCEPT ![s] = outcome]
                                                     ELSE aw_att

\* #handleRunExited: also for a session that has failed
RunExited(s, outcome) ==
    IF aw_sess[s].state \notin {"running", "failed"} THEN UNCHANGED <<aw_sess, aw_att>>
    ELSE /\ aw_att' = MarkCompleted(s, outcome)
         /\ aw_sess' = [aw_sess EXCEPT ![s].watching = FALSE,
                           ![s].state = IF outcome = "succeeded" THEN "exited" ELSE "failed"]

\* The exit listener looks at the state only.
OnExit(s) == IF aw_sess[s].state = "running" THEN BeginFailure(aw_sess, s) ELSE aw_sess

\* #onWorkerMessage and the listeners for errors and the exit
OnWorkerMessage(s) ==
    /\ s = Cur /\ aw_mail # <<>> /\ aw_sess[s].listening
    /\ aw_mail' = Tail(aw_mail)
    /\ LET message == Head(aw_mail) IN
         \/ /\ message \in Outcomes
            /\ RunExited(s, message)
         \/ /\ message \in {"worker_failed", "garbled", "error"}
            /\ aw_sess' = BeginFailure(aw_sess, s) /\ UNCHANGED aw_att
         \/ /\ message = "exit"
            /\ aw_sess' = OnExit(s) /\ UNCHANGED aw_att
    /\ UNCHANGED <<aw_task, aw_mgr>>

\* #checkTimeout: a hung thread sends no beat, a healthy one may be late.
HeartbeatTimeout(s) ==
    /\ s = Cur /\ aw_sess[s].watching /\ aw_sess[s].state = "running"
    /\ aw_sess' = BeginFailure(aw_sess, s)
    /\ UNCHANGED <<aw_att, aw_task, aw_mgr, aw_mail>>

\* Mutation: the task is left alone once the session is no longer the current one.
OnlyOfCurrent(s) ==
    IF aw_task.state = "running" /\ aw_task.attempt = s /\ s = Cur
    THEN [state |-> "interrupted", attempt |-> 0] ELSE aw_task

\* Mutation: the interrupted task keeps its active attempt.
KeepsAttempt(s) ==
    IF aw_task.state = "running" /\ aw_task.attempt = s
    THEN [aw_task EXCEPT !.state = "interrupted"] ELSE aw_task

\* #moveTaskToRecoverableState
MoveTaskToRecoverableState(s) ==
    IF aw_task.state = "running" /\ aw_task.attempt = s
    THEN [state |-> "interrupted", attempt |-> 0] ELSE aw_task

\* #terminateSession up to its await: no handler is left.
Terminating(sess, s) == [sess EXCEPT ![s].watching = FALSE, ![s].listening = FALSE]

\* The rest of #handleWorkerFailure, when the failure is on the log.
FailureLogged(s) ==
    /\ aw_sess[s].handler = "logging"
    /\ aw_att' = MarkCompleted(s, "failed")
    /\ aw_task' = MoveTaskToRecoverableState(s)
    /\ aw_sess' = [Terminating(aw_sess, s) EXCEPT ![s].handler = "done"]
    /\ aw_mail' = IF s = Cur THEN <<>> ELSE aw_mail
    /\ UNCHANGED aw_mgr

\* The append is rejected, and the rest never happens: the attempt stays active, the
\* session failed, and it is persisted as far as a second failure can tell.
FailureUnlogged(s) ==
    /\ aw_sess[s].handler = "logging"
    /\ aw_sess' = [aw_sess EXCEPT ![s].handler = "lost"]
    /\ UNCHANGED <<aw_att, aw_task, aw_mgr, aw_mail>>

\* worker.terminate()
ThreadTerminated(s) ==
    /\ ~aw_sess[s].listening /\ aw_sess[s].thread \notin {"none", "gone"}
    /\ aw_sess' = [aw_sess EXCEPT ![s].thread = "gone"]
    /\ UNCHANGED <<aw_att, aw_task, aw_mgr, aw_mail>>
-----------------------------------------------------------------------------
\* Operations of the manager

AllowReplacementAfterReconcile(s) ==
    /\ s = Cur /\ aw_sess[s].state = "failed" /\ aw_sess[s].persisted
    /\ ~aw_mgr.allowed /\ aw_task.state = "interrupted"
    /\ aw_mgr' = [aw_mgr EXCEPT !.allowed = TRUE]
    /\ UNCHANGED <<aw_sess, aw_att, aw_task, aw_mail>>

StateOf(s) == IF s = 0 THEN "none" ELSE aw_sess[s].state
MayStart(s) == StateOf(s) # "running" /\ (StateOf(s) # "failed" \/ aw_mgr.allowed)

\* startRun up to the end of the previous session.  A caller starts one at a time.
StartRun ==
    /\ aw_mgr.closed = "no" /\ ~aw_mgr.starting /\ aw_mgr.started < MaxSessions
    /\ aw_task.state = "running" /\ aw_task.attempt = aw_mgr.started + 1
    /\ MayStart(Cur)
    /\ aw_mgr' = [aw_mgr EXCEPT !.starting = TRUE, !.prev = Cur]
    /\ IF Cur = 0 THEN UNCHANGED <<aw_sess, aw_mail>>
       ELSE aw_sess' = Terminating(aw_sess, Cur) /\ aw_mail' = <<>>
    /\ UNCHANGED <<aw_att, aw_task>>

\* Mutation: the heartbeat is never watched.
UnwatchedSession ==
    [state |-> "running", persisted |-> FALSE, handler |-> "none", listening |-> TRUE,
     watching |-> FALSE, thread |-> "waiting"]

NewSession ==
    [state |-> "running", persisted |-> FALSE, handler |-> "none", listening |-> TRUE,
     watching |-> TRUE, thread |-> "waiting"]

\* Mutation: the previous thread is not waited for.
Unawaited(s) == s \in {0} \cup {q \in Sessions : ~aw_sess[q].listening}
Terminated(s) == s \in {0} \cup {q \in Sessions : aw_sess[q].thread \in {"dead", "gone"}}

\* startRun from there: the attempt is activated, the thread started and told to run.
StartWorker ==
    LET s == aw_mgr.started + 1 IN
    /\ aw_mgr.starting /\ Terminated(aw_mgr.prev)
    /\ aw_mgr' = [aw_mgr EXCEPT !.starting = FALSE, !.prev = 0, !.allowed = FALSE, !.started = s, !.cur = s]
    /\ aw_att' = [aw_att EXCEPT ![s] = "active"]
    /\ aw_sess' = [q \in Sessions |->
          CASE q = s -> NewSession
            [] q = aw_mgr.prev -> [aw_sess[q] EXCEPT !.state = "terminated"]
            [] OTHER -> aw_sess[q]]
    /\ aw_mail' = <<>>
    /\ UNCHANGED aw_task

Close ==
    /\ aw_mgr.closed = "no"
    /\ aw_mgr' = [aw_mgr EXCEPT !.closed = IF Cur = 0 THEN "yes" ELSE "closing"]
    /\ IF Cur = 0 THEN UNCHANGED <<aw_sess, aw_mail>>
       ELSE /\ aw_sess' = [Terminating(aw_sess, Cur) EXCEPT ![Cur].state = "terminated"]
            /\ aw_mail' = <<>>
    /\ UNCHANGED <<aw_att, aw_task>>

\* The session is forgotten after the await, which a start under way may have replaced.
CloseEnds ==
    /\ aw_mgr.closed = "closing" /\ ~aw_mgr.starting
    /\ aw_mgr' = [aw_mgr EXCEPT !.closed = "yes", !.cur = 0]
    /\ aw_mail' = <<>>
    /\ UNCHANGED <<aw_sess, aw_att, aw_task>>

\* The manager's caller records the attempt in the workflow before it starts it, and
\* moves the task on when the run has succeeded.
TaskEnters ==
    /\ aw_task.state # "running" /\ aw_mgr.started < MaxSessions /\ ~aw_mgr.starting
    /\ aw_task' = [state |-> "running", attempt |-> aw_mgr.started + 1]
    /\ UNCHANGED <<aw_sess, aw_att, aw_mgr, aw_mail>>

TaskLeaves ==
    /\ aw_task.state = "running" /\ aw_task.attempt = Cur /\ Cur # 0
    /\ aw_att[Cur] = "succeeded"
    /\ aw_task' = [state |-> "idle", attempt |-> 0]
    /\ UNCHANGED <<aw_sess, aw_att, aw_mgr, aw_mail>>
-----------------------------------------------------------------------------
WorkersInit ==
    /\ aw_sess = [s \in Sessions |-> [state |-> "none", persisted |-> FALSE, handler |-> "none",
                       listening |-> FALSE, watching |-> FALSE, thread |-> "none"]]
    /\ aw_att = [s \in Sessions |-> "none"]
    /\ aw_task = [state |-> "idle", attempt |-> 0]
    /\ aw_mgr = [cur |-> 0, allowed |-> FALSE, starting |-> FALSE, prev |-> 0,
                 started |-> 0, closed |-> "no"]
    /\ aw_mail = <<>>

WorkersNext ==
    \/ \E s \in Sessions :
          \/ ReceiveStartRun(s) \/ FailRun(s) \/ Complain(s) \/ PostGarbled(s)
          \/ \E outcome \in Outcomes : PostRunExited(s, outcome)
          \/ Hang(s) \/ Crash(s)
          \/ OnWorkerMessage(s) \/ HeartbeatTimeout(s) \/ FailureLogged(s) \/ FailureUnlogged(s)
          \/ ThreadTerminated(s) \/ AllowReplacementAfterReconcile(s)
    \/ StartRun \/ StartWorker \/ Close \/ CloseEnds \/ TaskEnters \/ TaskLeaves

\* The event loop of the main process turns: messages, timers and awaits are served.
WorkersFairness ==
    /\ \A s \in Sessions : /\ WF_awVars(OnWorkerMessage(s)) /\ WF_awVars(FailureLogged(s))
                           /\ WF_awVars(ThreadTerminated(s))
                           /\ WF_awVars(aw_sess[s].thread \in {"dead", "hung"} /\ HeartbeatTimeout(s))
    /\ WF_awVars(StartWorker)

WorkersSpec == WorkersInit /\ [][WorkersNext]_awVars /\ WorkersFairness
-----------------------------------------------------------------------------
\* However its failure was noticed, and whatever the worker still said: once a failed
\* session has been handled to the end, its attempt is over and the task no longer waits for it.
FailedRunIsClosed ==
    \A s \in Sessions :
        aw_sess[s].handler = "done" =>
            /\ aw_att[s] # "active"
            /\ ~(aw_task.state = "running" /\ aw_task.attempt = s)

\* A run whose thread has died or hangs does not stay `running` while the manager is
\* open: the exit of the thread or the missing beats are noticed.
DeadWorkerIsNoticed ==
    \A s \in Sessions : (aw_sess[s].thread \in {"dead", "hung"})
                            ~> (aw_sess[s].state # "running" \/ aw_mgr.closed # "no")

\* Two workers never run at once: a start waits for the end of the one it replaces.
OneWorker == Cardinality({s \in Sessions : Live(s)}) <= 1
=============================================================================
