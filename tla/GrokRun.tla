------------------------------- MODULE GrokRun --------------------------------
(* A run of the Grok adapter, src/src/agents/grok/grok-adapter.ts, and the file  *)
(* its prompt is handed over in, prompt-artifact-store.ts.  The file holds the   *)
(* prompt in the clear: it is made after the launch is authorised, and removed   *)
(* by whatever ends the run first.  A process that has the file open, the agent  *)
(* or a scanner, makes removing it fail, and it is tried once.                   *)

VARIABLES gr_at,    \* how far the launch is
          gr_auth,  \* the one-time authorisation
          gr_file,  \* the prompt file
          gr_held,  \* a process has it open
          gr_bind,  \* the binding of the attempt: cleanupDone, lastCleanupFailure
          gr_agent, \* the agent process
          gr_call   \* the calls of the handle

grVars == <<gr_at, gr_auth, gr_file, gr_held, gr_bind, gr_agent, gr_call>>

Launching == {"new", "authorised", "staged", "opened", "written", "verified", "recorded"}
Ended == {"done", "broke"}

GrokTypeOK ==
    /\ gr_at \in Launching \cup {"running", "refused", "refused_with_file", "crashed"}
    /\ gr_auth \in {"issued", "used"}
    /\ gr_file \in {"none", "empty", "full"}
    /\ gr_held \in BOOLEAN
    /\ gr_bind \in [done : BOOLEAN, failed : BOOLEAN]
    /\ gr_agent \in {"none", "running"} \cup Ended
    /\ gr_call \in [stop : {"none", "asked", "returned"}, kill : {"none", "asked", "returned"},
                    wait : {"none", "waiting", "completed", "failed"}]

\* What comes of removing the file and then its directory: ok, and whether the file is
\* there.  A file that is held may be let go of between two attempts.
Removals == {[ok |-> TRUE, left |-> FALSE], [ok |-> FALSE, left |-> FALSE]} \cup
            IF gr_held THEN {[ok |-> FALSE, left |-> TRUE]} ELSE {}
Removes(removal) == gr_file' = IF removal.left THEN gr_file ELSE "none"
Refused(removal) == gr_at' = IF removal.ok THEN "refused" ELSE "refused_with_file"
-----------------------------------------------------------------------------
\* The launch

\* A request, a command or a resumed profile that does not fit is refused before the
\* authorisation is used; an authorisation that does not match is refused, too.
RefusesLaunch == gr_at = "new" /\ gr_at' = "refused"
           /\ UNCHANGED <<gr_auth, gr_file, gr_held, gr_bind, gr_agent, gr_call>>

ConsumesAuthorization ==
    /\ gr_at = "new" /\ gr_auth = "issued"
    /\ gr_auth' = "used" /\ gr_at' = "authorised"
    /\ UNCHANGED <<gr_file, gr_held, gr_bind, gr_agent, gr_call>>

\* The store is verified, or taken from an earlier run, and the directory made.
StagesDirectory ==
    /\ gr_at = "authorised" /\ gr_at' \in {"staged", "refused"}
    /\ UNCHANGED <<gr_auth, gr_file, gr_held, gr_bind, gr_agent, gr_call>>

OpensFile ==
    /\ gr_at = "staged"
    /\ \/ gr_at' = "opened" /\ gr_file' = "empty"
       \/ gr_at' = "refused" /\ UNCHANGED gr_file
    /\ UNCHANGED <<gr_auth, gr_held, gr_bind, gr_agent, gr_call>>

\* An error of the write removes the file as far as it can, and does not say if it could.
WritesFile ==
    /\ gr_at = "opened"
    /\ \/ gr_at' = "written" /\ gr_file' = "full"
       \/ \E removal \in Removals, content \in {"empty", "full"} :
             /\ gr_at' = "refused"
             /\ gr_file' = IF removal.left THEN content ELSE "none"
    /\ UNCHANGED <<gr_auth, gr_held, gr_bind, gr_agent, gr_call>>

\* The identity of the file and who may read it, and then the command for it.
VerifiesFile ==
    /\ gr_at = "written"
    /\ \/ gr_at' = "verified" /\ UNCHANGED gr_file
       \/ \E removal \in Removals : Refused(removal) /\ Removes(removal)
    /\ UNCHANGED <<gr_auth, gr_held, gr_bind, gr_agent, gr_call>>

\* The command cannot be built: what became of the file is not looked at.
BuildFails ==
    /\ gr_at = "verified"
    /\ gr_at' = "refused" /\ \E removal \in Removals : Removes(removal)
    /\ UNCHANGED <<gr_auth, gr_held, gr_bind, gr_agent, gr_call>>

\* The session is recorded.  An error of the database leaves the file behind.
RecordsSession ==
    /\ gr_at = "verified" /\ gr_at' \in {"recorded", "refused"}
    /\ UNCHANGED <<gr_auth, gr_file, gr_held, gr_bind, gr_agent, gr_call>>

\* Mutation: what became of the file is forgotten.
NothingFailed == FALSE
\* lastCleanupFailure
Remembered == gr_bind.failed

\* cleanupBinding: only the first call does anything, the others repeat its result.
CleansUpBinding(removal) ==
    IF gr_bind.done THEN removal.ok = ~Remembered /\ ~removal.left /\ UNCHANGED <<gr_bind, gr_file>>
    ELSE /\ removal \in Removals /\ Removes(removal)
         /\ gr_bind' = [done |-> TRUE, failed |-> ~removal.ok]
Results == [ok : BOOLEAN, left : BOOLEAN]

StartsAgent ==
    /\ gr_at = "recorded"
    /\ \/ /\ gr_at' = "running" /\ gr_agent' = "running"
          /\ UNCHANGED <<gr_file, gr_bind>>
       \/ /\ \E removal \in Results : CleansUpBinding(removal) /\ Refused(removal)
          /\ UNCHANGED gr_agent
    /\ UNCHANGED <<gr_auth, gr_held, gr_call>>
-----------------------------------------------------------------------------
\* The run

Holds ==
    /\ gr_file # "none" /\ gr_held' = ~gr_held
    /\ UNCHANGED <<gr_at, gr_auth, gr_file, gr_bind, gr_agent, gr_call>>

AgentEnds ==
    /\ gr_agent = "running" /\ gr_agent' \in Ended
    /\ UNCHANGED <<gr_at, gr_auth, gr_file, gr_held, gr_bind, gr_call>>

Calls(call) ==
    /\ gr_at = "running" /\ gr_call[call] = "none"
    /\ gr_call' = [gr_call EXCEPT ![call] = IF call = "wait" THEN "waiting" ELSE "asked"]
    /\ UNCHANGED <<gr_at, gr_auth, gr_file, gr_held, gr_bind, gr_agent>>

\* The request to stop is answered while the agent may still run; a forced stop when it has
\* ended, or with an error.  Either way the file is removed, and the result of that ignored.
StopReturns(call) ==
    /\ gr_at = "running" /\ gr_call[call] = "asked"
    /\ gr_agent' \in IF call = "kill" /\ gr_agent = "running" THEN {"running", "broke"} ELSE {gr_agent}
    /\ gr_call' = [gr_call EXCEPT ![call] = "returned"]
    /\ \E removal \in Results : CleansUpBinding(removal)
    /\ UNCHANGED <<gr_at, gr_auth, gr_held>>

\* wait: a run whose file could not be removed has failed, whatever the agent made of it.
WaitReturns ==
    /\ gr_at = "running" /\ gr_call.wait = "waiting" /\ gr_agent \in Ended
    /\ \E removal \in Results :
          /\ CleansUpBinding(removal)
          /\ gr_call' = [gr_call EXCEPT !.wait =
                IF gr_agent = "done" /\ removal.ok THEN "completed" ELSE "failed"]
    /\ UNCHANGED <<gr_at, gr_auth, gr_held, gr_agent>>

\* cleanupAbandonedAttempt, and the ends of the session that clean up.
CleansUpAbandoned ==
    /\ gr_at = "running" /\ ~gr_bind.done
    /\ \E removal \in Results : CleansUpBinding(removal)
    /\ UNCHANGED <<gr_at, gr_auth, gr_held, gr_agent, gr_call>>

\* The program dies.  Nothing looks for its prompt files later.
ProgramDies ==
    /\ gr_at \in Launching \cup {"running"} /\ gr_at' = "crashed"
    /\ gr_agent' = IF gr_agent = "running" THEN "broke" ELSE gr_agent
    /\ UNCHANGED <<gr_auth, gr_file, gr_held, gr_bind, gr_call>>
-----------------------------------------------------------------------------
GrokInit ==
    /\ gr_at = "new" /\ gr_auth = "issued" /\ gr_file = "none" /\ gr_held = FALSE
    /\ gr_bind = [done |-> FALSE, failed |-> FALSE] /\ gr_agent = "none"
    /\ gr_call = [stop |-> "none", kill |-> "none", wait |-> "none"]

GrokNext ==
    \/ RefusesLaunch \/ ConsumesAuthorization \/ StagesDirectory \/ OpensFile \/ WritesFile
    \/ VerifiesFile \/ BuildFails \/ RecordsSession \/ StartsAgent
    \/ Holds \/ AgentEnds \/ WaitReturns \/ CleansUpAbandoned \/ ProgramDies
    \/ \E call \in {"stop", "kill", "wait"} : Calls(call)
    \/ \E call \in {"stop", "kill"} : StopReturns(call)

GrokSpec == GrokInit /\ [][GrokNext]_grVars
-----------------------------------------------------------------------------
\* A prompt that is still on disk is never passed over in silence by a run that completed:
\* a stop that came first may have failed to remove it, and the wait that comes after has
\* to say so.  And without a used authorisation there is no prompt file at all.
CompletedRunLeavesNoPrompt ==
    /\ gr_call.wait = "completed" => gr_file = "none"
    /\ gr_auth = "issued" => gr_file = "none"
=============================================================================
