-------------------------- MODULE ProcessSupervision --------------------------
(* One supervised agent process from start to settlement: the native helper      *)
(* native/TriAgent.ProcessHost (a thread per concern over one Windows job), the  *)
(* line protocol to src/src/process/process-host-client.ts, and the supervisor   *)
(* that proves by identity probes what it claims (process-supervisor.ts).        *)
(*                                                                               *)
(* Output, exit codes and signals are left out.  Timeouts are choices; the one   *)
(* order of deadlines that matters (a grace of 5 s ends before the watcher gives *)
(* up after 15 s and more) is a guard.                                           *)
EXTENDS Naturals, Sequences, FiniteSets

VARIABLES procs,   \* the agent's process and the one it may start
          host,    \* the helper: its fields are shared by its threads
          protocol,    \* protocol lines not yet handled by the supervisor
          sup      \* ActiveRun of the supervisor

psVars == <<procs, host, protocol, sup>>

Procs == {"root", "child"}
Alive == {p \in Procs : procs[p] = "alive"}

Event(type, op) == [type |-> type, op |-> op]

\* #onHostEvent drops what arrives after the settlement.
Say(events) == protocol' = IF sup.at = "handling" THEN protocol \o events ELSE <<>>

ExitReasons == {"exited", "graceful_stop", "force_stop"}

SupervisionTypeOK ==
    /\ procs \in [Procs -> {"unborn", "alive", "dead"}]
    /\ host \in [at : {"idle", "serving", "dead"}, commands : SUBSET {"graceful", "force"},
                 reason : ExitReasons, grace : BOOLEAN, force : {"no", "control", "timer"},
                 watch : {"off", "root", "tree", "killed"}, sent : BOOLEAN, kill : BOOLEAN,
                 stdin : BOOLEAN]
    /\ sup \in [at : {"idle", "handling", "exit", "death", "settled"},
                op : {"none", "graceful_stop", "force_stop_tree"}, clean : BOOLEAN,
                pids : SUBSET Procs, asked : SUBSET {"graceful", "force"},
                told : SUBSET {"started", "cleanup_succeeded", "cleanup_failed", "exited"}]
-----------------------------------------------------------------------------
\* ProcessSupervisor.start over HandleStart: suspended, into the job, resumed, announced.
StartTarget ==
    /\ sup.at = "idle" /\ host.at = "idle"
    /\ procs' = [procs EXCEPT !["root"] = "alive"]
    /\ host' = [host EXCEPT !.at = "serving", !.watch = "root", !.stdin = TRUE]
    /\ sup' = [sup EXCEPT !.at = "handling", !.pids = {"root"}, !.told = {"started"}]
    /\ UNCHANGED protocol

\* Creating, assigning or resuming fails: the target is terminated, start throws.
StartFails ==
    /\ sup.at = "idle" /\ host.at = "idle"
    /\ host' = [host EXCEPT !.at = "dead"]
    /\ sup' = [sup EXCEPT !.at = "settled"]
    /\ UNCHANGED <<procs, protocol>>
-----------------------------------------------------------------------------
\* The processes

SpawnsChild ==
    /\ "root" \in Alive /\ procs["child"] = "unborn"
    /\ procs' = [procs EXCEPT !["child"] = "alive"]
    /\ UNCHANGED <<host, protocol, sup>>

\* A child's pid appears in the output.
PrintsChild ==
    /\ "root" \in Alive /\ procs["child"] # "unborn" /\ host.at = "serving"
    /\ "child" \notin sup.pids
    /\ Event("pid", "none") \notin {protocol[i] : i \in DOMAIN protocol}
    /\ Say(<<Event("pid", "none")>>)
    /\ UNCHANGED <<procs, host, sup>>

Ends(p) ==
    /\ p \in Alive
    /\ procs' = [procs EXCEPT ![p] = "dead"]
    /\ UNCHANGED <<host, protocol, sup>>

\* TerminateJobObject, or KILL_ON_JOB_CLOSE once the helper is gone.
Killed(p) ==
    /\ p \in Alive /\ (host.kill \/ host.at = "dead")
    /\ procs' = [procs EXCEPT ![p] = "dead"]
    /\ UNCHANGED <<host, protocol, sup>>
-----------------------------------------------------------------------------
\* The helper

Serving == host.at = "serving"

\* FailClosedAfterStdinError
StdinFails ==
    /\ Serving /\ host.stdin
    /\ host' = [host EXCEPT !.stdin = FALSE, !.kill = TRUE]
    /\ Say(<<Event("cleanup_failed", "force_stop_tree")>>)
    /\ UNCHANGED <<procs, sup>>

\* HandleStop runs on the control thread, which ForceStopTree keeps busy.
HandleGraceful ==
    /\ Serving /\ "graceful" \in host.commands /\ host.force # "control"
    /\ host' = [host EXCEPT !.commands = @ \ {"graceful"}, !.reason = "graceful_stop",
                            !.grace = TRUE]
    /\ UNCHANGED <<procs, protocol, sup>>

\* ForceStopTree up to its wait for an empty job; TerminateJobObject may fail.
ForceStopTree(h, thread) ==
    \/ /\ host' = [h EXCEPT !.reason = "force_stop", !.force = thread, !.kill = TRUE]
       /\ UNCHANGED protocol
    \/ /\ host' = [h EXCEPT !.reason = "force_stop"]
       /\ Say(<<Event("cleanup_failed", "force_stop_tree")>>)

HandleForce ==
    /\ Serving /\ "force" \in host.commands /\ host.force = "no"
    /\ ForceStopTree([host EXCEPT !.commands = @ \ {"force"}], "control")
    /\ UNCHANGED <<procs, sup>>

GraceEnds ==
    /\ Serving /\ host.grace /\ host.force = "no"
    /\ IF host.sent THEN host' = [host EXCEPT !.grace = FALSE] /\ UNCHANGED protocol
                    ELSE ForceStopTree([host EXCEPT !.grace = FALSE], "timer")
    /\ UNCHANGED <<procs, sup>>

ForceEnds ==
    /\ Serving /\ host.force # "no"
    /\ IF Alive # {}
       THEN /\ host' = [host EXCEPT !.force = "no"]
            /\ Say(<<Event("cleanup_failed", "force_stop_tree")>>)
       ELSE /\ host' = [host EXCEPT !.force = "no", !.sent = TRUE]
            /\ Say(IF host.sent THEN <<>>
                   ELSE <<Event("tree_clean", "force_stop_tree"), Event("exited", "force_stop")>>)
    /\ UNCHANGED <<procs, sup>>

\* WatchTargetExit: the root ends, then the job is waited for, then terminated.
WatchRoot ==
    /\ Serving /\ host.watch = "root" /\ "root" \notin Alive
    /\ host' = [host EXCEPT !.watch = "tree"]
    /\ UNCHANGED <<procs, protocol, sup>>

WatchTerminates ==
    /\ Serving /\ host.watch = "tree" /\ Alive # {} /\ ~host.grace
    /\ host' = [host EXCEPT !.watch = "killed", !.kill = TRUE]
    /\ UNCHANGED <<procs, protocol, sup>>

StopName(reason) == CASE reason = "exited" -> "none" [] reason = "graceful_stop" -> reason
                      [] OTHER -> "force_stop_tree"

WatchEnds ==
    /\ Serving
    /\ \/ host.watch \in {"tree", "killed"} /\ Alive = {}
       \/ host.watch = "killed" /\ ~host.grace
    /\ host' = [host EXCEPT !.watch = "off", !.sent = TRUE]
    /\ Say(CASE host.sent -> <<>>
             [] ~host.sent /\ Alive = {} ->
                    <<Event("tree_clean", StopName(host.reason)), Event("exited", host.reason)>>
             [] OTHER -> <<Event("cleanup_failed", IF host.reason = "force_stop"
                                                   THEN "force_stop_tree" ELSE "graceful_stop"),
                           Event("exited", host.reason)>>)
    /\ UNCHANGED <<procs, sup>>

\* The client's exit listener hands over what is still in its buffer, then host_exit.
HostGone == /\ host' = [host EXCEPT !.at = "dead", !.commands = {}, !.grace = FALSE,
                                    !.force = "no", !.watch = "off", !.stdin = FALSE]
            /\ Say(<<Event("host_exit", "none")>>)

HostDies == Serving /\ sup.at # "settled" /\ HostGone /\ UNCHANGED <<procs, sup>>

\* Mutation: the helper of a run that could not be proved clean is left alone.
DisposesOnSuccess == sup.at = "settled" /\ "cleanup_failed" \notin sup.told

\* The end of the run disposes of its client, whatever the claim was.
Disposes == sup.at = "settled"

\* ProcessHostClient.dispose
Dispose == Serving /\ Disposes /\ HostGone /\ UNCHANGED <<procs, sup>>
-----------------------------------------------------------------------------
\* The supervisor

RequestStop(mode, op) ==
    /\ sup.at \in {"handling", "exit", "death"} /\ mode \notin sup.asked
    /\ sup' = [sup EXCEPT !.op = op, !.asked = @ \cup {mode}]
    /\ host' = IF Serving THEN [host EXCEPT !.commands = @ \cup {mode}] ELSE host
    /\ UNCHANGED <<procs, protocol>>

\* Mutation: the failed force of the helper is reported and the exit awaited.
KeepWaiting(s) == [s EXCEPT !.told = @ \cup {"cleanup_failed"}]

Settled(s) == [s EXCEPT !.at = "settled", !.told = @ \cup {"exited"}]
SettleCleanupFailed(s) == Settled([s EXCEPT !.told = @ \cup {"cleanup_failed"}])

\* #onHostEvent: one at a time, in order; nothing is handled after settlement.
HandleLine(e) ==
    CASE e.type = "pid" -> [sup EXCEPT !.pids = @ \cup {"child"}]
      [] e.type = "tree_clean" ->
             [sup EXCEPT !.clean = TRUE, !.op = IF @ = "none" THEN e.op ELSE @]
      [] e.type = "cleanup_failed" /\ e.op = "force_stop_tree" -> SettleCleanupFailed(sup)
      [] e.type = "cleanup_failed" /\ e.op # "force_stop_tree" ->
             [sup EXCEPT !.told = @ \cup {"cleanup_failed"}]
      [] e.type = "exited" -> [sup EXCEPT !.at = "exit"]
      [] e.type = "host_exit" -> [sup EXCEPT !.at = "death"]

OnHostEvent ==
    /\ sup.at = "handling" /\ protocol # <<>>
    /\ sup' = HandleLine(Head(protocol))
    /\ protocol' = IF sup'.at = "handling" THEN Tail(protocol) ELSE <<>>
    /\ UNCHANGED <<procs, host>>

\* Mutation: only the root is proved dead.
RootVerdicts == {"unproven"} \cup {IF "root" \notin Alive THEN "clean" ELSE "alive"}

\* #verifyKnownPidsDead, polled: `clean` when every process it knows of is dead;
\* the probe may be unavailable or never see a start time.
Verdicts == {"unproven"} \cup {IF sup.pids \cap Alive = {} THEN "clean" ELSE "alive"}

\* #proveCleanupBeforeSettle and #settleExit
ProveExit ==
    /\ sup.at = "exit"
    /\ \E verdict \in Verdicts :
          LET claim == IF verdict # "clean" THEN {"cleanup_failed"}
                       ELSE IF sup.op = "none" /\ ~sup.clean THEN {} ELSE {"cleanup_succeeded"}
          IN  sup' = Settled([sup EXCEPT !.told = @ \cup claim])
    /\ UNCHANGED <<procs, host, protocol>>

\* #handleHelperDeath
ProveDeath ==
    /\ sup.at = "death"
    /\ \E verdict \in Verdicts :
          sup' = Settled([sup EXCEPT !.told =
                     @ \cup {IF verdict = "clean" THEN "cleanup_succeeded" ELSE "cleanup_failed"}])
    /\ UNCHANGED <<procs, host, protocol>>
-----------------------------------------------------------------------------
SupervisionInit ==
    /\ procs = [p \in Procs |-> "unborn"]
    /\ host = [at |-> "idle", commands |-> {}, reason |-> "exited", grace |-> FALSE,
               force |-> "no", watch |-> "off", sent |-> FALSE, kill |-> FALSE,
               stdin |-> FALSE]
    /\ protocol = <<>>
    /\ sup = [at |-> "idle", op |-> "none", clean |-> FALSE, pids |-> {}, told |-> {},
              asked |-> {}]

HostStep == \/ HandleGraceful \/ HandleForce \/ GraceEnds \/ ForceEnds
            \/ WatchRoot \/ WatchTerminates \/ WatchEnds

SupervisorStep == OnHostEvent \/ ProveExit \/ ProveDeath \/ Dispose

SupervisionNext ==
    \/ StartTarget \/ StartFails
    \/ SpawnsChild \/ PrintsChild
    \/ \E p \in Procs : Ends(p) \/ Killed(p)
    \/ StdinFails \/ HostDies
    \/ RequestStop("graceful", "graceful_stop") \/ RequestStop("force", "force_stop_tree")
    \/ HostStep \/ SupervisorStep

\* The helper's threads, the supervisor's event chain and the kernel make progress;
\* nothing is assumed of the agent or of who requests a stop.
SupervisionFairness ==
    /\ WF_psVars(HandleGraceful) /\ WF_psVars(HandleForce) /\ WF_psVars(GraceEnds)
    /\ WF_psVars(ForceEnds) /\ WF_psVars(WatchRoot) /\ WF_psVars(WatchTerminates)
    /\ WF_psVars(WatchEnds) /\ WF_psVars(SupervisorStep)
    /\ WF_psVars(\E p \in Procs : Killed(p))

SupervisionSpec == SupervisionInit /\ [][SupervisionNext]_psVars /\ SupervisionFairness
-----------------------------------------------------------------------------
\* Whenever the supervisor announces that a cleanup has succeeded, every process it
\* has heard of is dead, whether the helper reported it, died, or was asked to stop.
SuccessIsProved ==
    [][("cleanup_succeeded" \in sup'.told /\ "cleanup_succeeded" \notin sup.told)
           => sup.pids \cap Alive = {}]_psVars

\* A requested stop settles the run whatever fails on the way: the termination of
\* the job, the helper, the probe or the order of helper lines.
StopSettles == (sup.op # "none") ~> (sup.at = "settled")

\* A settled run leaves no process behind, not even one that it could not prove dead:
\* the helper is disposed of and takes its job with it.
SettledRunIsKilled == (sup.at = "settled") ~> (Alive = {})
=============================================================================
