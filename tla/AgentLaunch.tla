----------------------------- MODULE AgentLaunch -----------------------------
(* The runs of one task's agents, one after the other: what is proved before a   *)
(* call is reserved (src/app/safe-agent-launch-coordinator.ts), the gate that    *)
(* spends the call and issues a one-time authorisation                           *)
(* (worker-start-gate-verifier.ts), the adapter that consumes it, the runner     *)
(* that follows the process (command-runner.ts), and the controller that counts  *)
(* calls and active time and stops what overruns (src/budget).                   *)
(*                                                                               *)
(* Time advances in units; the duration of an interval is counted while it is    *)
(* open, also over a crash, as the timestamps of the code do.                    *)
EXTENDS Naturals, FiniteSets, FiniteSetsExt

CONSTANTS LaunchRuns,   \* the task's runs, an interval of Nat starting at 1
          CallLimits,   \* the values of limits.maxExternalCalls
          TotalLimit,   \* limits.totalActiveRuntimeMs
          AttemptLimit, \* limits.perAttemptTimeoutMs
          GraceUnits,   \* graceMs
          MaxTime,      \* bound: units of time in a behaviour
          MaxCrashes    \* bound: restarts in a behaviour

ASSUME LaunchAssumption ==
    /\ IsFiniteSet(LaunchRuns) /\ LaunchRuns = 1 .. Cardinality(LaunchRuns)
    /\ CallLimits \cup {TotalLimit, AttemptLimit} \subseteq Nat \ {0}
    /\ {GraceUnits, MaxTime, MaxCrashes} \subseteq Nat

VARIABLES al_run,    \* per run: the evidence, call, authorisation, interval, process, stop
          al_task,   \* budget_task_state
          al_mem,    \* the controller's and the runner's memory
          al_time    \* the clock and the restarts so far

alVars == <<al_run, al_task, al_mem, al_time>>

Spent == {"launched", "consumed"}

\* Watches, each with the time that is left on it: never more than its limit.
LimitedWatches == (LaunchRuns \X {"attempt"} \X (0 .. AttemptLimit))
                  \cup (LaunchRuns \X {"total"} \X (0 .. TotalLimit))
                  \cup (LaunchRuns \X {"force"} \X (0 .. GraceUnits))

LaunchTypeOK ==
    /\ al_run \in [LaunchRuns ->
         [phase : {"idle", "prepared", "reserved", "authorized", "started", "running", "done",
                  "refused", "lost"},
          evidence : {"none", "valid", "expired"}, ready : {"none", "valid", "consumed"},
          call : {"none", "reserved", "released"} \cup Spent,
          auth : {"none", "issued", "consumed"}, proc : {"none", "alive", "gone", "unproven"},
          used : 0 .. MaxTime, open : BOOLEAN, stop : {"none", "intent", "completed", "failed"}]]
    /\ al_task \in [exhausted : BOOLEAN, failClosed : BOOLEAN, maxCalls : CallLimits]
    /\ al_mem \in [cur : {0} \cup LaunchRuns, stopping : SUBSET LaunchRuns,
                   finalized : SUBSET LaunchRuns,
                   timers : SUBSET LimitedWatches,
                   followed : SUBSET LaunchRuns, ended : SUBSET LaunchRuns]
    /\ al_time \in [now : 0 .. MaxTime, crashes : 0 .. MaxCrashes]
-----------------------------------------------------------------------------
\* Accounting (src/budget/budget-controller.ts, budget-repository.ts)

TotalUsed == MapThenSumSet(LAMBDA r : al_run[r].used, LaunchRuns)

\* Mutation: a launched call is no longer counted.
OpenReservations == Cardinality({r \in LaunchRuns : al_run[r].call = "reserved"})
ActiveCalls == Cardinality({r \in LaunchRuns : al_run[r].call \in {"reserved"} \cup Spent})

Exhausted == al_task.failClosed \/ al_task.exhausted

\* A reservation that was never launched may still launch.
CanLaunch ==
    /\ ~Exhausted /\ TotalUsed < TotalLimit
    /\ ActiveCalls < al_task.maxCalls \/ \E r \in LaunchRuns : al_run[r].call = "reserved"

Writable == ~al_task.failClosed

\* The controller's watches for r that are still valid.
Timers(r, kinds) == {t \in al_mem.timers : t[1] = r /\ t[2] \in kinds}
Cancelled(r) == al_mem.timers \ Timers(r, {"attempt", "total"})

\* Mutation: every run gets the whole of the task's time.
WholeTotal == TotalLimit
RemainingTotal == IF TotalUsed >= TotalLimit THEN 0 ELSE TotalLimit - TotalUsed
RemainingAttempt(r) == IF al_run[r].used >= AttemptLimit THEN 0
                                                         ELSE AttemptLimit - al_run[r].used

Armed(r) == Cancelled(r) \cup {<<r, "attempt", RemainingAttempt(r)>>,
                               <<r, "total", RemainingTotal>>}

\* recordIntent before the supervisor is asked; the subscription before both.
BeginStop(r, timers) ==
    /\ al_task' = [al_task EXCEPT !.exhausted = TRUE]
    /\ al_run' = [al_run EXCEPT ![r].stop = "intent"]
    /\ al_mem' = [al_mem EXCEPT !.stopping = @ \cup {r},
                                !.timers = (timers \ Timers(r, {"attempt", "total"}))
                                               \cup {<<r, "force", GraceUnits>>}]
-----------------------------------------------------------------------------
\* Launch

CurrentRun == al_mem.cur
Done(r) == al_run[r].phase \in {"done", "refused", "lost"}
At(r, phase) == CurrentRun = r /\ al_run[r].phase = phase

PutEvidence(run, r, kind) ==
    [run EXCEPT ![r].evidence = "valid", ![r].ready = IF kind = "grok" THEN "valid" ELSE "none"]

\* prepareBeforeBudget: health, capability and guard evidence, and readiness for Grok.
Prepare(r, kind) ==
    /\ CurrentRun = 0 /\ al_run[r].phase = "idle" /\ \A q \in LaunchRuns : q < r => Done(q)
    /\ al_mem' = [al_mem EXCEPT !.cur = r]
    /\ al_run' = [PutEvidence(al_run, r, kind) EXCEPT ![r].phase = "prepared"]
    /\ UNCHANGED <<al_task, al_time>>

\* What a run that has ended leaves behind: its call, its process, its interval and stop.
RunEnded(run, r, phase) == [run EXCEPT ![r].phase = phase, ![r].evidence = "none",
                                    ![r].ready = "none", ![r].auth = "none"]

Refuse(r) == /\ al_run' = RunEnded(al_run, r, "refused")
             /\ al_mem' = [al_mem EXCEPT !.cur = 0]
             /\ UNCHANGED <<al_task, al_time>>

\* The guard, a capability or the workspace authorisation denies the launch.
PrepareRefused(r) ==
    /\ CurrentRun = 0 /\ al_run[r].phase = "idle" /\ \A q \in LaunchRuns : q < r => Done(q)
    /\ Refuse(r)

ReserveCall(r) ==
    /\ At(r, "prepared") /\ CanLaunch /\ ActiveCalls < al_task.maxCalls
    /\ al_run' = [al_run EXCEPT ![r].phase = "reserved", ![r].call = "reserved"]
    /\ UNCHANGED <<al_task, al_mem, al_time>>

\* At the limit the exhaustion is marked inside the transaction that is rolled back.
ReserveRefused(r) ==
    /\ At(r, "prepared") /\ (~CanLaunch \/ ActiveCalls >= al_task.maxCalls)
    /\ Refuse(r)

EvidenceExpires(r) ==
    /\ CurrentRun = r /\ al_run[r].evidence = "valid" /\ al_run[r].phase \in {"prepared", "reserved"}
    /\ al_run' = [al_run EXCEPT ![r].evidence = "expired"]
    /\ UNCHANGED <<al_task, al_mem, al_time>>

GuardDecisionHolds(r) == al_run[r].evidence = "valid"
ReservationLaunchable(r) == al_run[r].call = "reserved" /\ ~Exhausted
AuthHolds(r) == al_run[r].evidence = "valid"
ReadinessHolds(r) == al_run[r].ready \in {"none", "valid"} /\ al_run[r].evidence = "valid"
Verified(r) == /\ GuardDecisionHolds(r) /\ ReservationLaunchable(r)
               /\ AuthHolds(r) /\ ReadinessHolds(r)

\* authorizeForLaunch: the call is spent before the authorisation is issued.
AuthorizeForLaunch(r) ==
    /\ At(r, "reserved") /\ Verified(r)
    /\ al_run' = [al_run EXCEPT ![r].phase = "authorized", ![r].call = "launched",
                                ![r].auth = "issued",
                                ![r].ready = IF @ = "valid" THEN "consumed" ELSE @]
    /\ UNCHANGED <<al_task, al_mem, al_time>>

Released(call) == IF call = "reserved" /\ Writable THEN "released" ELSE call

AuthorizeRefused(r) ==
    /\ At(r, "reserved") /\ ~Verified(r)
    /\ al_run' = [RunEnded(al_run, r, "refused") EXCEPT ![r].call = Released(@)]
    /\ al_mem' = [al_mem EXCEPT !.cur = 0]
    /\ UNCHANGED <<al_task, al_time>>

AuthorizationHolds(r) == al_run[r].auth = "issued"

\* consumeAndVerify, then ProcessSupervisor.start; a resume refused before the
\* consumption falls back to a start with the same authorisation.
StartProcess(r) ==
    /\ At(r, "authorized") /\ AuthorizationHolds(r)
    /\ al_run' = [al_run EXCEPT ![r].phase = "started", ![r].auth = "consumed",
                                ![r].proc = "alive"]
    /\ UNCHANGED <<al_task, al_mem, al_time>>

\* The start fails, before the consumption or after it (a resume's fallback is then
\* refused as well): the release of the spent call is refused too.
StartProcessFails(r) ==
    /\ At(r, "authorized")
    /\ al_run' = [RunEnded(al_run, r, "refused") EXCEPT ![r].call = Released(@)]
    /\ al_mem' = [al_mem EXCEPT !.cur = 0]
    /\ UNCHANGED <<al_task, al_time>>
-----------------------------------------------------------------------------
\* The run: #collectEvents of the runner

\* process_started: beginActiveInterval and armAttemptWatch, which arms nothing when
\* the task is exhausted.
FollowProcess(r) ==
    /\ At(r, "started")
    /\ al_run' = [al_run EXCEPT ![r].phase = "running", ![r].open = TRUE]
    /\ al_mem' = [al_mem EXCEPT !.followed = @ \cup {r},
                                !.timers = IF Exhausted THEN @ ELSE Armed(r)]
    /\ UNCHANGED <<al_task, al_time>>

IntervalClosed(run, r) == [run EXCEPT ![r].open = FALSE]

\* What the supervisor's last events tell the subscription of a stop.
StopVerdict(r, forceFailed) ==
    IF al_run[r].stop = "intent" /\ r \in al_mem.stopping
    THEN IF forceFailed THEN "failed" ELSE "completed"
    ELSE al_run[r].stop

\* The supervisor settles the run; without a failed forced stop its root has ended.
Settles(r, forceFailed) ==
    /\ al_run[r].proc = "alive"
    /\ al_run' = [al_run EXCEPT ![r].proc = IF forceFailed THEN "unproven" ELSE "gone",
                                ![r].stop = StopVerdict(r, forceFailed),
                                ![r].open = @ /\ (r \notin al_mem.stopping \/ forceFailed)]
    /\ al_mem' = [al_mem EXCEPT !.stopping = @ \ {r}, !.ended = @ \cup {r},
                                !.finalized = IF forceFailed THEN @
                                              ELSE @ \cup (al_mem.stopping \cap {r})]
    /\ UNCHANGED <<al_task, al_time>>

\* process_exited reaches the runner: endActiveInterval closes what is still open;
\* a failed or lost run is recorded as a crash and consumes its call.
RunEnds(r, failed) ==
    /\ At(r, "running") /\ r \in al_mem.ended
    /\ LET crash == failed /\ Writable
           over  == (al_run[r].open /\ TotalUsed >= TotalLimit)
                        \/ (crash /\ ActiveCalls >= al_task.maxCalls)
       IN  /\ al_run' = [IntervalClosed(RunEnded(al_run, r, "done"), r) EXCEPT
                             ![r].call = IF crash THEN "consumed" ELSE @]
           /\ al_task' = [al_task EXCEPT !.exhausted = @ \/ over]
    /\ al_mem' = [al_mem EXCEPT !.cur = 0]
    /\ UNCHANGED al_time
\* The runner fails on an event (the log cannot be written): it forgets the run, whose
\* process and open interval stay.
LosesRun(r) ==
    /\ At(r, "running") /\ Writable
    /\ al_run' = [RunEnded(al_run, r, "lost") EXCEPT ![r].call = "consumed"]
    /\ al_task' = [al_task EXCEPT !.exhausted = @ \/ ActiveCalls >= al_task.maxCalls]
    /\ al_mem' = [al_mem EXCEPT !.cur = 0]
    /\ UNCHANGED al_time
-----------------------------------------------------------------------------
\* Time

Due == {t \in al_mem.timers : t[3] = 0}

Tick ==
    /\ Due = {} /\ al_time.now < MaxTime
    /\ al_time' = [al_time EXCEPT !.now = @ + 1]
    /\ al_run' = [r \in LaunchRuns |-> IF al_run[r].open
                                 THEN [al_run[r] EXCEPT !.used = @ + 1] ELSE al_run[r]]
    /\ al_mem' = [al_mem EXCEPT !.timers = {<<t[1], t[2], t[3] - 1>> : t \in @}]
    /\ UNCHANGED al_task

OverLimit(r, kind) == IF kind = "attempt" THEN al_run[r].used >= AttemptLimit
                                          ELSE TotalUsed >= TotalLimit

\* #onPerAttemptTimeout and #onTotalRuntimeExhausted: an attempt's watch asks for its
\* open interval, the total's does not; too early, it is armed again.
TimerFires(t) ==
    LET r == t[1]
        rest == al_mem.timers \ {t}
    IN  /\ t \in Due /\ t[2] # "force"
        /\ IF (t[2] = "attempt" /\ ~al_run[r].open)
                \/ (OverLimit(r, t[2]) /\ (r \in al_mem.stopping \cup al_mem.finalized
                                              \/ al_task.failClosed))
           THEN al_mem' = [al_mem EXCEPT !.timers = rest] /\ UNCHANGED <<al_run, al_task>>
           ELSE IF OverLimit(r, t[2]) THEN BeginStop(r, rest)
           ELSE /\ al_mem' = [al_mem EXCEPT !.timers =
                                IF Exhausted \/ ~Writable \/ r \in al_mem.stopping \cup al_mem.finalized
                                     \/ RemainingAttempt(r) = 0
                                THEN rest ELSE Armed(r)]
                /\ UNCHANGED <<al_run, al_task>>
        /\ UNCHANGED al_time

ForceFires(t) ==
    /\ t \in Due /\ t[2] = "force"
    /\ al_mem' = [al_mem EXCEPT !.timers = @ \ {t}]
    /\ UNCHANGED <<al_run, al_task, al_time>>
-----------------------------------------------------------------------------
\* Restart: a new controller and runner; the helpers die with the app, and what is
\* left of their jobs is not observed.
AppCrashes ==
    /\ al_time.crashes < MaxCrashes
    /\ al_time' = [al_time EXCEPT !.crashes = @ + 1]
    /\ al_mem' = [cur |-> 0, stopping |-> {}, finalized |-> {}, timers |-> {}, followed |-> {},
                  ended |-> {}]
    /\ al_run' = [r \in LaunchRuns |->
          [(IF r = CurrentRun THEN RunEnded(al_run, r, "lost") ELSE al_run)[r] EXCEPT
              !.proc = IF @ = "alive" THEN "unproven" ELSE @]]
    /\ UNCHANGED al_task

\* recover (the app never calls it): an open interval needs evidence of a launch.
Recover ==
    /\ CurrentRun = 0 /\ al_time.crashes > 0
    /\ LET unlaunched == \E r \in LaunchRuns : al_run[r].open /\ al_run[r].call \notin Spent
       IN al_task' = [al_task EXCEPT
              !.failClosed = @ \/ unlaunched,
              !.exhausted = @ \/ unlaunched \/ TotalUsed >= TotalLimit \/ ActiveCalls >= al_task.maxCalls]
    /\ al_task' # al_task
    /\ UNCHANGED <<al_run, al_mem, al_time>>

\* resumePendingStop (the app never calls it): the first intent is issued again.
ResumePendingStop ==
    /\ CurrentRun = 0 /\ al_time.crashes > 0 /\ \E r \in LaunchRuns : al_run[r].stop = "intent"
    /\ LET r == CHOOSE q \in LaunchRuns : al_run[q].stop = "intent"
                                       /\ \A p \in LaunchRuns : al_run[p].stop = "intent" => q <= p
       IN  /\ r \notin al_mem.stopping
           /\ al_mem' = [al_mem EXCEPT !.stopping = @ \cup {r}, !.finalized = @ \ {r},
                                       !.timers = @ \cup {<<r, "force", GraceUnits>>}]
    /\ UNCHANGED <<al_run, al_task, al_time>>
-----------------------------------------------------------------------------
LaunchInit ==
    /\ al_run = [r \in LaunchRuns |->
          [phase |-> "idle", evidence |-> "none", ready |-> "none", call |-> "none",
           auth |-> "none", proc |-> "none", used |-> 0, open |-> FALSE, stop |-> "none"]]
    /\ al_task \in [exhausted : {FALSE}, failClosed : {FALSE}, maxCalls : CallLimits]
    /\ al_mem = [cur |-> 0, stopping |-> {}, finalized |-> {}, timers |-> {}, followed |-> {},
                 ended |-> {}]
    /\ al_time = [now |-> 0, crashes |-> 0]

RunStep(r) ==
    \/ \E kind \in {"grok", "other"} : Prepare(r, kind)
    \/ PrepareRefused(r) \/ ReserveCall(r) \/ ReserveRefused(r) \/ EvidenceExpires(r)
    \/ AuthorizeForLaunch(r) \/ AuthorizeRefused(r) \/ StartProcess(r)
    \/ StartProcessFails(r)
    \/ FollowProcess(r) \/ LosesRun(r)
    \/ \E forceFailed \in BOOLEAN : Settles(r, forceFailed)
    \/ \E failed \in BOOLEAN : RunEnds(r, failed)

LaunchNext ==
    \/ \E r \in LaunchRuns : RunStep(r)
    \/ Tick
    \/ \E t \in al_mem.timers : TimerFires(t) \/ ForceFires(t)
    \/ AppCrashes \/ Recover \/ ResumePendingStop

LaunchSpec == LaunchInit /\ [][LaunchNext]_alVars
-----------------------------------------------------------------------------
\* No agent process exists without a call that stays spent, whatever failed around its
\* launch, and a task never starts more of them than its budget allows.
EveryAgentIsPaid ==
    /\ \A r \in LaunchRuns : al_run[r].proc # "none" => al_run[r].call \in Spent
    /\ Cardinality({r \in LaunchRuns : al_run[r].proc # "none"}) <= al_task.maxCalls

LostRuns == {r \in LaunchRuns : al_run[r].phase = "lost"}

\* A process past the limit of its attempt has a stop on record, even one that the
\* runner has lost; so has one past the task's limit, which inherits the time and the
\* watches of earlier runs.  (A lost run takes the guarantee from the ones that follow:
\* its open interval counts the task's time twice, and when it exhausts the task
\* between their authorisation and their start, they are not watched at all.)
OverrunIsStopped ==
    \A r \in LaunchRuns :
        (/\ r \in al_mem.followed \ al_mem.ended /\ al_run[r].open
         /\ \/ al_run[r].used > AttemptLimit /\ LostRuns \subseteq {r}
            \/ TotalUsed > TotalLimit /\ LostRuns = {})
        => al_run[r].stop # "none"
=============================================================================
