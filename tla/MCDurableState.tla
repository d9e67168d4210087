--------------------------- MODULE MCDurableState ---------------------------
(* The components whose promise is about what stays on disk or in the database:  *)
(* the candidate workspace, the control of a task (pauses, cleanups, messages),  *)
(* the baselines of its files and the native helper's build.  They share no      *)
(* state, so a behaviour takes one of them, the one in `focus`, and leaves the   *)
(* others as they began: every behaviour of each is explored, none interleaved.  *)
EXTENDS CandidateWorkspace, TaskControl, BaselineCapture, HelperBuild

VARIABLE focus  \* the component whose behaviour this is

durableVars == <<focus, wsVars, tcVars, bcVars, hbVars>>

DurableInit ==
    /\ focus \in {"workspace", "control", "capture", "build"}
    /\ WorkspaceInit /\ ControlInit /\ CaptureInit /\ BuildInit
    /\ focus # "capture" => ~bc_git /\ bc_project = [p \in FilePaths |-> Gone]

DurableNext ==
    \/ focus = "build" /\ BuildNext /\ UNCHANGED <<focus, wsVars, tcVars, bcVars>>
    \/ focus = "workspace" /\ WorkspaceNext /\ UNCHANGED <<focus, tcVars, bcVars, hbVars>>
    \/ focus = "control" /\ ControlNext /\ UNCHANGED <<focus, wsVars, bcVars, hbVars>>
    \/ focus = "capture" /\ CaptureNext /\ UNCHANGED <<focus, wsVars, tcVars, hbVars>>

DurableSpec == DurableInit /\ [][DurableNext]_durableVars

\* The records of the component in focus keep their shape.
DurableTypeOK ==
    /\ focus = "workspace" => WorkspaceTypeOK
    /\ focus = "control" => ControlTypeOK
    /\ focus = "capture" => CaptureTypeOK
    /\ focus = "build" => BuildTypeOK
=============================================================================
