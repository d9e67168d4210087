----------------------------- MODULE AppLifecycle -----------------------------
(* The program from its start to its exit: composeApplication of                 *)
(* src/src/app/app-context.ts, the shutdown of lifecycle-coordinator.ts, and     *)
(* runCli of src/src/cli/main.tsx, which renders the terminal interface.         *)
(*                                                                               *)
(* A task is worked on by a drive, in the background: of a task of this session, *)
(* or, task 0, of the unfinished task that the start found and the operator      *)
(* continues.  Shutdown, drives and commands take turns at every await.          *)
EXTENDS Naturals

CONSTANTS MaxTasks,  \* tasks created in a session
          MaxFaults  \* stages of shutdowns that fail

ASSUME LifecycleAssumption == MaxTasks \in Nat \ {0} /\ MaxFaults \in Nat

VARIABLES ap_start,   \* how far the composition is, and what it made
          ap_db,      \* the database
          ap_life,    \* acceptingIntents, exitAuthorized
          ap_flight,  \* the shutdown under way: inFlight
          ap_session, \* the task session
          ap_task,    \* the tasks, their drives and agents
          ap_cli,     \* runCli
          ap_faults   \* stages that failed so far

apVars == <<ap_start, ap_db, ap_life, ap_flight, ap_session, ap_task, ap_cli, ap_faults>>

Found == 0
Created == 1 .. MaxTasks
AllTasks == {Found} \cup Created
Stages == {"idle", "cleanup", "stopping", "close_workers", "disposing", "close_database", "authorise"}
Reasons == {"none", "REQUEST_EXIT", "CONFIRM_TERMINATION", "cli_render_ended", "retry"}

AppTypeOK ==
    /\ ap_start \in [at : {"database", "budget", "probes", "reconcile", "composed", "failed"},
                     mode : {"none", "read-write", "diagnostic"}, supervisor : BOOLEAN,
                     screen : {"none", "project", "new_task", "recovery", "run", "review"}]
    /\ ap_db \in {"none", "open", "closed"}
    /\ ap_life \in [accepting : BOOLEAN, authorised : BOOLEAN]
    /\ ap_flight \in [at : Stages, reason : Reasons, failed : BOOLEAN, disposing : {0} \cup Created]
    /\ ap_session \in [runtime : {0} \cup Created, disposing : SUBSET Created]
    /\ ap_task \in [AllTasks -> [status : {"none", "creating", "active", "terminal"},
                                 drive : {"idle", "working", "waiting"},
                                 agent : {"none", "running", "late", "ended", "stopped"}]]
    /\ ap_cli \in [at : {"composing", "rendering", "waiting", "blocked", "completed"},
                   code : 0 .. 2]
    /\ ap_faults \in 0 .. MaxFaults

Rendering == ap_cli.at = "rendering"
IdleFlight == [at |-> "idle", reason |-> "none", failed |-> FALSE, disposing |-> 0]
Fault == ap_faults < MaxFaults /\ ap_faults' = ap_faults + 1
-----------------------------------------------------------------------------
\* composeApplication: what fails closed goes on as a diagnostic composition, without
\* the stages that follow.
Goes(stage) == ap_start.at = stage /\ ap_cli.at = "composing"
Composed(mode, supervisor, screen) ==
    /\ ap_start' = [at |-> "composed", mode |-> mode, supervisor |-> supervisor,
                    screen |-> screen]
    /\ ap_cli' = [ap_cli EXCEPT !.at = "rendering"]

\* openDatabase: a database that cannot be trusted, or the option for it, ends in
\* diagnostic mode.
OpensDatabase ==
    /\ Goes("database")
    /\ ap_db' = "open"
    /\ \/ ap_start' = [ap_start EXCEPT !.at = "budget", !.mode = "read-write"] /\ UNCHANGED ap_cli
       \/ Composed("diagnostic", FALSE, "recovery")
    /\ UNCHANGED <<ap_life, ap_flight, ap_session, ap_task, ap_faults>>

ConstructsBudget ==
    /\ Goes("budget")
    /\ \/ ap_start' = [ap_start EXCEPT !.at = "probes", !.supervisor = TRUE] /\ UNCHANGED ap_cli
       \/ Composed("diagnostic", FALSE, "recovery")
    /\ UNCHANGED <<ap_db, ap_life, ap_flight, ap_session, ap_task, ap_faults>>

\* The probes run, or are skipped by an option, or fail.
ProbesCapabilities ==
    /\ Goes("probes")
    /\ \/ ap_start' = [ap_start EXCEPT !.at = "reconcile"] /\ UNCHANGED ap_cli
       \/ Composed("diagnostic", TRUE, "recovery")
    /\ UNCHANGED <<ap_db, ap_life, ap_flight, ap_session, ap_task, ap_faults>>

\* runStartupReconcile, and the screen it leads to.
Reconciles ==
    /\ Goes("reconcile")
    /\ \/ Composed("read-write", TRUE, "project") /\ UNCHANGED ap_task
       \/ /\ Composed("read-write", TRUE, "recovery")
          /\ ap_task' = [ap_task EXCEPT ![Found].status = "active"]
    /\ UNCHANGED <<ap_db, ap_life, ap_flight, ap_session, ap_faults>>

\* An error that compose does not catch: there is no composition to close.
ComposeThrows ==
    /\ ap_start.at \in {"database", "reconcile"} /\ ap_cli.at = "composing"
    /\ ap_start' = [ap_start EXCEPT !.at = "failed"]
    /\ ap_cli' = [at |-> "completed", code |-> 1]
    /\ UNCHANGED <<ap_db, ap_life, ap_flight, ap_session, ap_task, ap_faults>>
-----------------------------------------------------------------------------
\* The drive of a task

\* An agent is authorised in the database before it is launched.  "late": after the
\* shutdown under way has looked what runs there are.
Cleaned == ap_flight.at \in {"close_workers", "disposing", "close_database", "authorise"}
AfterCleanup == ap_flight.at = "stopping" \/ Cleaned
LaunchesAgent(t) ==
    /\ ap_task[t].drive = "working" /\ ap_db = "open"
    /\ ap_task' = [ap_task EXCEPT ![t].drive = "waiting",
                                  ![t].agent = IF AfterCleanup THEN "late" ELSE "running"]
    /\ UNCHANGED <<ap_start, ap_db, ap_life, ap_flight, ap_session, ap_cli, ap_faults>>

Runs(t) == ap_task[t].agent \in {"running", "late"}

AgentExits(t) ==
    /\ Runs(t)
    /\ ap_task' = [ap_task EXCEPT ![t].agent = "ended"]
    /\ UNCHANGED <<ap_start, ap_db, ap_life, ap_flight, ap_session, ap_cli, ap_faults>>

\* The result of the agent is recorded.
Records(t) ==
    /\ ap_task[t].drive = "waiting" /\ ap_task[t].agent = "ended" /\ ap_db = "open"
    /\ ap_task' = [ap_task EXCEPT ![t].drive = "working", ![t].agent = "none"]
    /\ UNCHANGED <<ap_start, ap_db, ap_life, ap_flight, ap_session, ap_cli, ap_faults>>

\* The drive comes to rest: the task is finished, waits for the operator, or an error has
\* ended the drive, as it does without the database.  The screen of a recovered task
\* follows its state.
DriveEnds(t) ==
    LET idle == [ap_task[t] EXCEPT !.drive = "idle", !.agent = "none"]
    IN /\ ap_task[t].drive # "idle" /\ ~Runs(t)
       /\ ap_task[t].agent = "ended" => ap_db = "closed"
       /\ \E status \in {ap_task[t].status} \cup IF ap_db = "open" THEN {"terminal"} ELSE {} :
             /\ ap_task' = [ap_task EXCEPT ![t] = [idle EXCEPT !.status = status]]
             /\ IF t # Found THEN UNCHANGED ap_start
                ELSE \E screen \in IF status = "terminal" THEN {"review"}
                                   ELSE {"recovery", "run"} :
                        ap_start' = [ap_start EXCEPT !.screen = screen]
       /\ UNCHANGED <<ap_db, ap_life, ap_flight, ap_session, ap_cli, ap_faults>>
-----------------------------------------------------------------------------
\* Commands

Accepts == Rendering /\ ap_life.accepting /\ ap_start.mode = "read-write"
RuntimeIsIdle == ap_session.runtime \in Created =>
                     ap_task[ap_session.runtime].status = "terminal"

SelectsProject ==
    /\ Accepts /\ ap_start.screen # "recovery" /\ RuntimeIsIdle
    /\ ap_start' = [ap_start EXCEPT !.screen = "new_task"]
    /\ ap_session' = [ap_session EXCEPT !.runtime = 0]
    /\ UNCHANGED <<ap_db, ap_life, ap_flight, ap_task, ap_cli, ap_faults>>

\* createTask: the runtime of a finished task is disposed of, and a new one is awaited.
CreatesTask(t) ==
    /\ Accepts /\ ap_start.screen = "new_task" /\ RuntimeIsIdle
    /\ ap_task[t].status = "none"
    /\ ap_task' = [ap_task EXCEPT ![t].status = "creating"]
    /\ ap_session' = [ap_session EXCEPT !.runtime = 0]
    /\ UNCHANGED <<ap_start, ap_db, ap_life, ap_flight, ap_cli, ap_faults>>

\* The runtime is there: it is initialised and driven, whatever happened meanwhile, or
\* there is an error.
RuntimeCreated(t) ==
    /\ ap_task[t].status = "creating"
    /\ \/ /\ ap_db = "open"
          /\ ap_task' = [ap_task EXCEPT ![t].status = "active", ![t].drive = "working"]
          /\ ap_session' = [ap_session EXCEPT !.runtime = t]
       \/ /\ ap_task' = [ap_task EXCEPT ![t].status = "terminal"]
          /\ UNCHANGED ap_session
    /\ UNCHANGED <<ap_start, ap_db, ap_life, ap_flight, ap_cli, ap_faults>>

\* The plan is approved, or an interrupted task continued.
ContinuesTask ==
    LET t == ap_session.runtime
    IN /\ Accepts /\ t # 0
       /\ ap_task[t].status = "active" /\ ap_task[t].drive = "idle"
       /\ ap_task' = [ap_task EXCEPT ![t].drive = "working"]
       /\ UNCHANGED <<ap_start, ap_db, ap_life, ap_flight, ap_session, ap_cli, ap_faults>>

\* RECOVERY_CONTINUE and RECOVERY_CANCEL: the command returns when the drive is at rest.
RecoversTask ==
    /\ Accepts /\ ap_start.screen = "recovery"
    /\ ap_task[Found].status = "active" /\ ap_task[Found].drive = "idle"
    /\ \/ /\ ap_task' = [ap_task EXCEPT ![Found].drive = "working"]
          /\ UNCHANGED ap_start
       \/ /\ ap_task' = [ap_task EXCEPT ![Found].status = "terminal"]
          /\ ap_start' = [ap_start EXCEPT !.screen = "review"]
    /\ UNCHANGED <<ap_db, ap_life, ap_flight, ap_session, ap_cli, ap_faults>>
-----------------------------------------------------------------------------
\* Shutdown

\* shutdown: a call joins the shutdown under way, and finds nothing to do after one that
\* was authorised.
Shutdown(reason) ==
    IF ap_flight.at = "idle" /\ ~ap_life.authorised
    THEN /\ ap_flight' = [IdleFlight EXCEPT !.at = "cleanup", !.reason = reason]
         /\ ap_life' = [ap_life EXCEPT !.accepting = FALSE]
    ELSE UNCHANGED <<ap_flight, ap_life>>

\* exitGate, as far as it looks at a runtime.
ExitGate(session) == session.runtime # 0 => ap_task[session.runtime].status = "terminal"

RequestsExit ==
    /\ Rendering /\ ExitGate(ap_session)
    /\ Shutdown("REQUEST_EXIT")
    /\ UNCHANGED <<ap_start, ap_db, ap_session, ap_task, ap_cli, ap_faults>>

\* The session is released first, which awaits the stop of its agent.
ConfirmsTermination ==
    LET t == ap_session.runtime
    IN /\ Rendering /\ ap_life.accepting
       /\ IF t = 0 THEN Shutdown("CONFIRM_TERMINATION") /\ UNCHANGED ap_session
          ELSE /\ ap_session' = [runtime |-> 0, disposing |-> ap_session.disposing \cup {t}]
               /\ UNCHANGED <<ap_flight, ap_life>>
       /\ UNCHANGED <<ap_start, ap_db, ap_task, ap_cli, ap_faults>>

\* requestStopActiveAttempt
StopAgent(t) == ap_task' = IF Runs(t) THEN [ap_task EXCEPT ![t].agent = "stopped"] ELSE ap_task

SessionReleased(t) ==
    /\ t \in ap_session.disposing
    /\ ap_session' = [ap_session EXCEPT !.disposing = @ \ {t}]
    /\ StopAgent(t)
    /\ IF ExitGate(ap_session) THEN Shutdown("CONFIRM_TERMINATION")
       ELSE UNCHANGED <<ap_flight, ap_life>>
    /\ UNCHANGED <<ap_start, ap_db, ap_cli, ap_faults>>

\* What runCli makes of the end of a shutdown it waits for.
Answers(authorised) ==
    ap_cli' = IF ap_cli.at # "waiting" THEN ap_cli
              ELSE IF authorised THEN [ap_cli EXCEPT !.at = "completed"]
                   ELSE [at |-> "blocked", code |-> 2]

Refuses == ap_flight' = IdleFlight /\ Answers(FALSE)

\* Mutation: the handles are closed whatever became of the agents.
CloseAnyway(cleanupOk) == TRUE
HandlesMayClose(cleanupOk) == cleanupOk

\* cleanupJobs disposes of the supervisor, which looks once what runs there are ...
FindsRuns ==
    /\ ap_flight.at = "cleanup"
    /\ ap_flight' = [ap_flight EXCEPT !.at = "stopping"]
    /\ UNCHANGED <<ap_start, ap_db, ap_life, ap_session, ap_task, ap_cli, ap_faults>>

\* ... and ends one after the other.  A "late" one may be of an earlier shutdown, and among
\* those it has found.
EndsRun(t) ==
    /\ ap_flight.at = "stopping" /\ ap_start.supervisor /\ Runs(t)
    /\ StopAgent(t)
    /\ UNCHANGED <<ap_start, ap_db, ap_life, ap_flight, ap_session, ap_cli, ap_faults>>

\* The stage is over, or has failed in between.  Nothing verifies the process trees: that
\* hook of the application is empty.
CleansUp ==
    /\ ap_flight.at = "stopping"
    /\ \E ok \in BOOLEAN :
          /\ IF ok THEN UNCHANGED ap_faults ELSE Fault
          /\ ok /\ ap_start.supervisor => \A t \in AllTasks : ap_task[t].agent # "running"
          /\ IF HandlesMayClose(ok)
             THEN /\ ap_flight' = [ap_flight EXCEPT !.at = "close_workers", !.failed = ~ok]
                  /\ UNCHANGED ap_cli
             ELSE Refuses
    /\ UNCHANGED <<ap_start, ap_db, ap_life, ap_session, ap_task>>

ClosesWorkers ==
    /\ ap_flight.at = "close_workers"
    /\ ap_session' = [ap_session EXCEPT !.runtime = 0]
    /\ ap_flight' = [ap_flight EXCEPT !.at = "disposing", !.disposing = ap_session.runtime]
    /\ UNCHANGED <<ap_start, ap_db, ap_life, ap_task, ap_cli, ap_faults>>

\* The agent of the session is stopped and its log closed, which may fail; the shutdown
\* goes on all the same.
WorkersClosed ==
    LET t == ap_flight.disposing
    IN /\ ap_flight.at = "disposing"
       /\ IF t = 0 THEN UNCHANGED ap_task ELSE StopAgent(t)
       /\ \E ok \in IF t = 0 THEN {TRUE} ELSE BOOLEAN :
             /\ IF ok THEN UNCHANGED ap_faults ELSE Fault
             /\ ap_flight' = [ap_flight EXCEPT !.at = "close_database", !.disposing = 0,
                                               !.failed = @ \/ ~ok]
       /\ UNCHANGED <<ap_start, ap_db, ap_life, ap_session, ap_cli>>

ClosesDatabase ==
    /\ ap_flight.at = "close_database"
    /\ ap_db' = "closed"
    /\ IF ap_flight.failed THEN Refuses
       ELSE ap_flight' = [ap_flight EXCEPT !.at = "authorise"] /\ UNCHANGED ap_cli
    /\ UNCHANGED <<ap_start, ap_life, ap_session, ap_task, ap_faults>>

\* onAuthorizedExit unmounts the interface; the exit is authorised when it has.
AuthorisesExit ==
    /\ ap_flight.at = "authorise"
    /\ \/ /\ ap_life' = [ap_life EXCEPT !.authorised = TRUE]
          /\ ap_flight' = IdleFlight /\ Answers(TRUE)
          /\ UNCHANGED ap_faults
       \/ Fault /\ Refuses /\ UNCHANGED ap_life
    /\ UNCHANGED <<ap_start, ap_db, ap_session, ap_task>>
-----------------------------------------------------------------------------
\* runCli

\* waitUntilExit returns, or the interface fails.
RenderEnds ==
    /\ Rendering
    /\ \E code \in {0, 1} :
          IF ap_life.authorised
          THEN ap_cli' = [at |-> "completed", code |-> code] /\ UNCHANGED <<ap_flight, ap_life>>
          ELSE ap_cli' = [at |-> "waiting", code |-> code] /\ Shutdown("cli_render_ended")
    /\ UNCHANGED <<ap_start, ap_db, ap_session, ap_task, ap_faults>>

\* retryShutdown, of the result that keeps the composition open.
RetriesShutdown ==
    /\ ap_cli.at = "blocked"
    /\ ap_cli' = [at |-> "waiting", code |-> 0]
    /\ ap_life' = [accepting |-> FALSE, authorised |-> FALSE]
    /\ ap_flight' = IF ap_flight.at # "idle" THEN ap_flight
                    ELSE [IdleFlight EXCEPT !.at = "cleanup", !.reason = "retry"]
    /\ UNCHANGED <<ap_start, ap_db, ap_session, ap_task, ap_faults>>
-----------------------------------------------------------------------------
LifecycleInit ==
    /\ ap_start = [at |-> "database", mode |-> "none", supervisor |-> FALSE, screen |-> "none"]
    /\ ap_db = "none"
    /\ ap_life = [accepting |-> TRUE, authorised |-> FALSE]
    /\ ap_flight = IdleFlight
    /\ ap_session = [runtime |-> 0, disposing |-> {}]
    /\ ap_task = [t \in AllTasks |-> [status |-> "none", drive |-> "idle", agent |-> "none"]]
    /\ ap_cli = [at |-> "composing", code |-> 0]
    /\ ap_faults = 0

LifecycleNext ==
    \/ OpensDatabase \/ ConstructsBudget \/ ProbesCapabilities \/ Reconciles \/ ComposeThrows
    \/ \E t \in AllTasks : LaunchesAgent(t) \/ AgentExits(t) \/ Records(t) \/ DriveEnds(t)
    \/ SelectsProject \/ ContinuesTask \/ RecoversTask
    \/ \E t \in Created : CreatesTask(t) \/ RuntimeCreated(t) \/ SessionReleased(t)
    \/ RequestsExit \/ ConfirmsTermination
    \/ FindsRuns \/ (\E t \in AllTasks : EndsRun(t)) \/ CleansUp \/ ClosesWorkers \/ WorkersClosed \/ ClosesDatabase \/ AuthorisesExit
    \/ RenderEnds \/ RetriesShutdown

LifecycleSpec == LifecycleInit /\ [][LifecycleNext]_apVars
-----------------------------------------------------------------------------
\* The database is closed only behind the agents: one that still runs was launched after
\* the shutdown had looked what agents there were.  And the program ends in order only with an exit
\* that was authorised: what is refused keeps its handles for another try.
AgentsEndBeforeTheDatabase ==
    /\ ap_db = "closed" => \A t \in AllTasks : ap_task[t].agent # "running"
    /\ ap_cli.at = "completed" /\ ap_start.at = "composed" =>
          ap_life.authorised /\ ap_db = "closed"

\* The way out by Q or Esc is "blocked while task still active" (app-context.ts:1330):
\* no shutdown begins by it while a task is worked on.
ExitWaitsForTheTask ==
    [][ap_flight.at = "idle" /\ ap_flight'.reason = "REQUEST_EXIT" =>
          \A t \in AllTasks : ap_task[t].drive = "idle"]_apVars
=============================================================================
