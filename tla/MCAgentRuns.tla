----------------------------- MODULE MCAgentRuns -----------------------------
(* The components around a running agent: its launch and budget, its process and *)
(* the helper that watches it, the worker thread it may run in, the prompt file  *)
(* it reads, the log it is written to, and the program that exits around it.     *)
(* They share no state, so a behaviour takes one of them, the one in `focus`,    *)
(* and leaves the others as they began.                                          *)
EXTENDS ProcessSupervision, AgentWorkers, AgentLaunch, GrokRun, RunLog, AppLifecycle

VARIABLE focus  \* the component whose behaviour this is

runVars == <<focus, psVars, awVars, alVars, grVars, rlVars, apVars>>

RunsInit ==
    /\ focus \in {"process", "workers", "launch", "prompt", "log", "program"}
    /\ SupervisionInit /\ WorkersInit /\ LaunchInit /\ GrokInit /\ LogInit /\ LifecycleInit
    /\ focus # "launch" => \A limit \in CallLimits : al_task.maxCalls <= limit

RunsNext ==
    \/ /\ focus = "process" /\ SupervisionNext
       /\ UNCHANGED <<focus, awVars, alVars, grVars, rlVars, apVars>>
    \/ /\ focus = "workers" /\ WorkersNext
       /\ UNCHANGED <<focus, psVars, alVars, grVars, rlVars, apVars>>
    \/ /\ focus = "launch" /\ LaunchNext
       /\ UNCHANGED <<focus, psVars, awVars, grVars, rlVars, apVars>>
    \/ /\ focus = "prompt" /\ GrokNext
       /\ UNCHANGED <<focus, psVars, awVars, alVars, rlVars, apVars>>
    \/ /\ focus = "log" /\ LogNext
       /\ UNCHANGED <<focus, psVars, awVars, alVars, grVars, apVars>>
    \/ /\ focus = "program" /\ LifecycleNext
       /\ UNCHANGED <<focus, psVars, awVars, alVars, grVars, rlVars>>

\* SupervisionFairness and WorkersFairness, each for the behaviours of its component.
RunsFairness ==
    /\ WF_psVars(focus = "process" /\ HandleGraceful)
    /\ WF_psVars(focus = "process" /\ HandleForce)
    /\ WF_psVars(focus = "process" /\ GraceEnds)
    /\ WF_psVars(focus = "process" /\ ForceEnds)
    /\ WF_psVars(focus = "process" /\ WatchRoot)
    /\ WF_psVars(focus = "process" /\ WatchTerminates)
    /\ WF_psVars(focus = "process" /\ WatchEnds)
    /\ WF_psVars(focus = "process" /\ SupervisorStep)
    /\ WF_psVars(focus = "process" /\ \E p \in Procs : Killed(p))
    /\ \A s \in Sessions :
          /\ WF_awVars(focus = "workers" /\ OnWorkerMessage(s))
          /\ WF_awVars(focus = "workers" /\ FailureLogged(s))
          /\ WF_awVars(focus = "workers" /\ ThreadTerminated(s))
          /\ WF_awVars(/\ focus = "workers" /\ aw_sess[s].thread \in {"dead", "hung"}
                       /\ HeartbeatTimeout(s))
    /\ WF_awVars(focus = "workers" /\ StartWorker)

RunsSpec == RunsInit /\ [][RunsNext]_runVars /\ RunsFairness

\* The records of the component in focus keep their shape.
RunsTypeOK ==
    /\ focus = "process" => SupervisionTypeOK
    /\ focus = "workers" => WorkersTypeOK
    /\ focus = "launch" => LaunchTypeOK
    /\ focus = "prompt" => GrokTypeOK
    /\ focus = "log" => LogTypeOK
    /\ focus = "program" => AppTypeOK
=============================================================================
