------------------------------ MODULE TaskSession ------------------------------
(* The session of src/src/app/task-session-controller.ts: the terminal user's  *)
(* commands to the instance that created the task, on top of its orchestrator. *)
(* The session decides on what it reads when a key is pressed; the drives it   *)
(* has started go on meanwhile and are never stopped by it.                    *)
EXTENDS TaskOrchestrator, FiniteSets

CONSTANT MaxHolds  \* bound: how often a task is held

ASSUME SessionAssumption == MaxHolds \in Nat

VARIABLES session,  \* "live"; "cancelled" by the user; "gone" with its instance
          hold,     \* operatorHold: [Q] was pressed, [C] and [X] are offered
          holds,    \* how often the task has been held
          waiting,  \* a pressed [C] waits for the interrupted drive, 15 s at most
          givenUp   \* history: a run was given up while its process could live on

sessionVars == <<session, hold, holds, waiting, givenUp>>

SessionTypeOK == /\ session \in {"live", "cancelled", "gone"}
                 /\ hold \in BOOLEAN
                 /\ holds \in 0..MaxHolds
                 /\ waiting \in BOOLEAN
                 /\ givenUp \in BOOLEAN

SessionInit == session = "live" /\ hold = FALSE /\ holds = 0 /\ waiting = FALSE /\ givenUp = FALSE

Live == session = "live"

Continuable == \/ snapshot.state = "interrupted_needs_inspection"
               \/ snapshot.state = "awaiting_user" /\ "continue" \in snapshot.awaitingActions

\* requestStopActiveAttempt: best effort, and nothing to stop if the process of
\* the active attempt is not alive yet or is that of a format repair.
StopActiveAttempt == \/ UNCHANGED agents
                     \/ agents' = agents \ {snapshot.active.attempt}

KeepTask == KeepEngine /\ UNCHANGED <<durableVars, lock, drives>>
-----------------------------------------------------------------------------
\* The commands

CreateTask == Live /\ StartTask /\ UNCHANGED sessionVars

Approve == Live /\ ~hold /\ ApprovePlan /\ UNCHANGED sessionVars

\* [Q]; also the pause after a run, which holds without stopping anything.
HoldTask ==
    /\ Live /\ ~hold
    /\ snapshot.state # "draft"
    /\ hold' = TRUE
    /\ holds < MaxHolds /\ holds' = holds + 1
    /\ StopActiveAttempt
    /\ KeepTask /\ UNCHANGED <<session, waiting, givenUp>>

\* [C] on a held task.  Bound: no second [C] while one waits.
PressContinue ==
    /\ Live /\ hold /\ ~waiting
    /\ hold' = FALSE /\ waiting' = TRUE
    /\ KeepTask /\ UNCHANGED <<agents, session, holds, givenUp>>

\* The wait is over, because the drive has ended or 15 s have passed: a stage
\* still executing is settled as failed and a new attempt follows.
HeldContinueSettles ==
    /\ Live /\ waiting
    /\ SettleHeldStage
    /\ waiting' = FALSE /\ givenUp' = TRUE
    /\ UNCHANGED <<session, hold, holds>>

HeldContinueResumes ==
    /\ Live /\ waiting
    /\ ContinueParked
    /\ waiting' = FALSE
    /\ UNCHANGED <<session, hold, holds, givenUp>>

\* Terminal, waiting for the approval, or in a state continue has no answer for.
\* Of a cancelled session nothing is left to continue: its runtime is gone, and
\* with the roles cleared the task is not recreated either.
HeldContinueRefused ==
    /\ waiting
    /\ ~Live \/ ~(IsExecuting(snapshot) \/ Continuable)
    /\ waiting' = FALSE
    /\ KeepTask /\ UNCHANGED <<agents, session, hold, holds, givenUp>>

\* [C] on a task parked by a failed agent.
ParkedContinue ==
    /\ Live /\ ~hold
    /\ snapshot.state = "awaiting_user"
    /\ ContinueParked
    /\ UNCHANGED sessionVars

\* [X]: the runtime is disposed of and the screen says cancelled.
DisposeRuntime ==
    /\ session' = "cancelled" /\ hold' = FALSE
    /\ StopActiveAttempt
    /\ KeepTask /\ UNCHANGED <<holds, waiting, givenUp>>

CancelHeld == Live /\ hold /\ DisposeRuntime

CancelParked ==
    /\ Live /\ ~hold
    /\ snapshot.state = "awaiting_user" /\ "cancel" \in snapshot.awaitingActions
    /\ DisposeRuntime
-----------------------------------------------------------------------------
\* The commands but ParkedContinue and CancelParked, which the screen must offer.
SessionCommand ==
    \/ CreateTask \/ Approve
    \/ HoldTask \/ PressContinue
    \/ HeldContinueSettles \/ HeldContinueResumes \/ HeldContinueRefused
    \/ CancelHeld

BackgroundStep(d) ==
    \/ DriveStep(d) /\ UNCHANGED sessionVars
    \/ RunBreaks(d) /\ givenUp' = TRUE /\ UNCHANGED <<session, hold, holds, waiting>>
=============================================================================
